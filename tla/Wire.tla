-------------------------------- MODULE Wire --------------------------------
(***************************************************************************)
(* The conversions the exchange relies on: an input vector to and from the *)
(* text of a message (TPMInputVector), the weights to the text of a key    *)
(* (SingleTpmNetworkHandler::get_key), and that to the bytes of a cipher's *)
(* key (API_service_data_handler::gen_key).  A text is a sequence of       *)
(* characters.  SyncSession sends vectors and keys as values; Training     *)
(* states that nothing is lost by that.                                    *)
(***************************************************************************)
EXTENDS TreeParityMachine, Sequences

(* Decimal digits of a natural number below 100; weights are shifted by L.  *)
Digits(n) == IF n < 10 THEN <<n>> ELSE <<n \div 10, n % 10>>

(* A stream after the first n pieces (pieces[0], pieces[1], ...) were put   *)
(* into it.                                                                *)
Joined(pieces, n) ==
    LET text[c \in 0 .. n] == IF c = 0 THEN <<>>
                              ELSE text[c - 1] \o pieces[c - 1]
    IN  text[n]

(* Mistaken: i < K * N - 1 in the loop. *)
GetKeyButLast(w) == Joined([c \in Cell |-> Digits(w[c] + L)], K * N - 1)

GetKey(w) == Joined([c \in Cell |-> Digits(w[c] + L)], K * N)

(* Mistaken: starts over one character early. *)
NextFirstEarly(first, max) == IF first = max - 1 THEN 1 ELSE first + 1

(* Where gen_key adds the next character: reset to 0, then incremented.     *)
NextFirst(first, max) == IF first = max THEN 1 ELSE first + 1

(* One turn of gen_key's loop: the character at last is added to the one    *)
(* at first (counted from 0).                                              *)
AddLast(s, max) ==
    [key   |-> [s.key EXCEPT ![s.first + 1] = (@ + s.key[s.last + 1]) % 256],
     first |-> NextFirst(s.first, max),
     last  |-> s.last - 1]

(* number_of_operations. *)
Operations(text, max) == IF Len(text) > max THEN Len(text) - 1 - max ELSE 0

(* gen_key makes max bytes of a text: what is beyond them is added to the   *)
(* front from the back, as often as count_last - MAX_KEYLENGTH says, and   *)
(* too short a text is repeated without its last character.                *)
GenKey(text, max) ==
    LET state[i \in 0 .. Operations(text, max)] ==
            IF i = 0 THEN [key |-> text, first |-> 0, last |-> Len(text) - 1]
            ELSE AddLast(state[i - 1], max)
        key == state[Operations(text, max)].key
    IN  [i \in 1 .. max |-> key[((i - 1) % (Len(text) - 1)) + 1]]

(* -1 is written as two characters, 1 as one. *)
Spelled(spin) == IF spin = -1 THEN <<"-", "1">> ELSE <<"1">>

WriteVector(x) == Joined([c \in Cell |-> Spelled(x[c])], K * N)

(* Mistaken: does not skip the digit after a minus. *)
ReadEveryCharacter(text) ==
    [c \in Cell |-> IF text[c + 1] = "-" THEN -1 ELSE 1]

(* What set_from_string does with the next character: a minus takes the     *)
(* character after it along, any other character is a 1.                   *)
Reading(done, c) ==
    IF done.skip THEN [done EXCEPT !.skip = FALSE]
    ELSE [skip |-> c = "-",
          x    |-> Append(done.x, IF c = "-" THEN -1 ELSE 1)]

(* set_from_string reads to the end of the text or of the vector.  The      *)
(* cells the text does not reach keep their values (here: none do).        *)
ReadVector(text) ==
    LET read[p \in 0 .. Len(text)] ==
            IF p = 0 THEN [skip |-> FALSE, x |-> <<>>]
            ELSE Reading(read[p - 1], text[p])
    IN  [c \in Cell |-> read[Len(text)].x[c + 1]]
=============================================================================

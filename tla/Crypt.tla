-------------------------------- MODULE Crypt --------------------------------
(***************************************************************************)
(* Encrypting and decrypting with the key rings of two services            *)
(* (API_service_data_handler::crypt), while a session keeps adding keys to *)
(* them.                                                                   *)
(*                                                                         *)
(* Keys reach a ring whenever a peer of the service calls add_key, however *)
(* many the other ring has.  Both rings get the same keys in the same      *)
(* order, which is what SyncSession shows of a session.  So a key is named *)
(* by its place, and a ring is the sequence of what crypt remembers of     *)
(* each key: whether it has been used.  (uses is compared with 0, else     *)
(* only printed.)                                                          *)
(*                                                                         *)
(* The REST threads of a server take no lock: a call is a step for each    *)
(* time it looks at the ring.  Services stay registered here.              *)
(***************************************************************************)
EXTENDS Integers, Sequences, FiniteSets

CONSTANTS
    MaxAttempts,  \* max_attempts_to_decrypt (10)
    Threads,      \* REST threads of each server (two of them)
    Modes,        \* modes the applications ask for: 1 speed, 2 security
    MaxKeys,      \* bound: keys found in a session
    MaxMessages   \* bound: messages encrypted

ASSUME CryptAssumption == /\ MaxAttempts \in Nat \ {0}
                          /\ Modes \subseteq {1, 2}
                          /\ MaxKeys \in Nat
                          /\ MaxMessages \in Nat
                          /\ IsFiniteSet(Threads)

Initiator == "initiator"
Acceptor  == "acceptor"
Side      == {Initiator, Acceptor}
Other(s)  == IF s = Initiator THEN Acceptor ELSE Initiator

(* Where a message is, or what its decryption answered: the text, no key    *)
(* yet (DYNAMICRYPT_API_WAIT), DYNAMICRYPT_API_FAILED_DECRYPT, an exception *)
(* of the cipher, or some other text as if it were the right one.          *)
Fate == {"sent", "opening", "text", "wait", "failed", "exception", "garbage"}

(* Two fields only record what happened: begun, how many messages had left  *)
(* when the encryption of this one began, and had, the size of the         *)
(* receiver's ring when its decryption did.                                *)
Message == [from : Side, key : Nat \ {0}, mode : {1, 2},
            fate : Fate, begun : Nat, had : Nat]

(* What a REST thread is doing: looking for a key to encrypt with, about to *)
(* use it; looking for a key to decrypt with, trying it, trying again with *)
(* what it takes for the keys it has skipped.                              *)
Step == {"idle", "scan", "mark", "look", "try", "retry"}
Call == [step : Step, mode : {1, 2}, msg : Nat, begun : Nat,
         at : Nat, tries : 0 .. MaxAttempts, skips : 0 .. MaxAttempts]

NoCall == [step |-> "idle", mode |-> 1, msg |-> 0, begun |-> 0,
           at |-> 0, tries |-> 0, skips |-> 0]

VARIABLES used,   \* API_data::keys_: per key of a ring, uses > 0
          calls,  \* the call each REST thread is in
          msgs    \* every message encrypted so far

vars == <<used, calls, msgs>>

Init == /\ used = [s \in Side |-> <<>>]
        /\ calls = [s \in Side |-> [t \in Threads |-> NoCall]]
        /\ msgs = <<>>

-----------------------------------------------------------------------------
(* A peer saves a key.                                                     *)
AddKey(s) ==
    /\ Len(used[s]) < MaxKeys
    /\ used' = [used EXCEPT ![s] = Append(@, FALSE)]
    /\ UNCHANGED <<calls, msgs>>

SetCall(s, t, c) == calls' = [calls EXCEPT ![s][t] = c]

(* Mistaken: forgets to count. *)
UseNothing(s, k) == UNCHANGED used

(* A use of key k is counted. *)
Use(s, k) == used' = [used EXCEPT ![s][k] = TRUE]

(* Mistaken: one behind the last key. *)
LastAndOne(s) == Len(used[s]) + 1

Last(s) == Len(used[s])

(* Mistaken: does not move, moves past a key, or does not count.            *)
DownInPlace(c)   == c
DownByTwo(c)     == [c EXCEPT !.at = @ - 2, !.tries = @ + 1]
DownUncounted(c) == [c EXCEPT !.at = @ - 1]

(* The next attempt: a key further down the ring. *)
Down(c) == [c EXCEPT !.at = @ - 1, !.tries = @ + 1]

(* Mistaken: takes the second key for the first one. *)
AtBottomEarly(c) == c.at <= 2

AtBottom(c) == c.at = 1

(* Mistaken: gives up with the last attempt still to make. *)
ExhaustedEarly(c) == c.at = 0 \/ c.tries + 1 >= MaxAttempts

(* No key left to look at, or no attempt. *)
Exhausted(c) == c.at = 0 \/ c.tries = MaxAttempts

-----------------------------------------------------------------------------
(* Encryption.                                                             *)

Encrypting == {p \in Side \X Threads : calls[p[1]][p[2]].step \in {"scan", "mark"}}

(* Mode 1 takes the last key, mode 2 starts looking from there.  With no    *)
(* key the call answers "wait" and changes nothing.                        *)
Encrypt(s, t, mode) ==
    /\ calls[s][t].step = "idle"
    /\ Len(msgs) + Cardinality(Encrypting) < MaxMessages
    /\ used[s] # <<>>
    /\ SetCall(s, t, [NoCall EXCEPT !.step = IF mode = 1 THEN "mark" ELSE "scan",
                                    !.mode = mode,
                                    !.begun = Len(msgs),
                                    !.at = Last(s)])
    /\ UNCHANGED <<used, msgs>>

(* Mode 2 looks for a key without uses, among the last MaxAttempts.         *)
Scan(s, t) ==
    LET c == calls[s][t]
    IN  /\ c.step = "scan"
        /\ \/ /\ Exhausted(c)
              /\ SetCall(s, t, NoCall)
           \/ /\ ~Exhausted(c)
              /\ used[s][c.at]
              /\ SetCall(s, t, Down(c))
           \/ /\ ~Exhausted(c)
              /\ ~used[s][c.at]
              /\ SetCall(s, t, [c EXCEPT !.step = "mark"])
        /\ UNCHANGED <<used, msgs>>

(* Mistaken: counts the use for the last key in both modes. *)
CountedAlwaysLast(s, c) == Last(s)

(* The key whose use is counted: in mode 1, the one that is last by now.    *)
Counted(s, c) == IF c.mode = 1 THEN Last(s) ELSE c.at

(* The key is counted as used, and the message leaves. *)
Mark(s, t) ==
    LET c == calls[s][t]
    IN  /\ c.step = "mark"
        /\ Use(s, Counted(s, c))
        /\ msgs' = Append(msgs, [from |-> s, key |-> c.at, mode |-> c.mode,
                                 fate |-> "sent", begun |-> c.begun, had |-> 0])
        /\ SetCall(s, t, NoCall)

-----------------------------------------------------------------------------
(* Decryption.                                                             *)

(* A message gets to the other side: in any order, or never. *)
Decrypt(s, t, i) ==
    /\ calls[s][t].step = "idle"
    /\ msgs[i].fate = "sent"
    /\ msgs[i].from = Other(s)
    /\ IF used[s] = <<>>
       THEN /\ msgs' = [msgs EXCEPT ![i].fate = "wait"]
            /\ UNCHANGED calls
       ELSE /\ msgs' = [msgs EXCEPT ![i].fate = "opening",
                                    ![i].had = Len(used[s])]
            /\ SetCall(s, t,
                   [NoCall EXCEPT
                       !.step = IF msgs[i].mode = 1 THEN "try" ELSE "look",
                       !.mode = msgs[i].mode,
                       !.msg = i,
                       !.at = Last(s)])
    /\ UNCHANGED used

Answer(s, t, fate) ==
    /\ msgs' = [msgs EXCEPT ![calls[s][t].msg].fate = fate]
    /\ SetCall(s, t, NoCall)

Fits(c) == msgs[c.msg].key = c.at

(* Mode 2 tries the keys without uses first, and skips the others.          *)
Look(s, t) ==
    LET c == calls[s][t]
    IN  /\ c.step = "look"
        /\ \/ /\ Exhausted(c)
              /\ SetCall(s, t, [c EXCEPT !.step = "retry", !.at = 1])
           \/ /\ ~Exhausted(c)
              /\ used[s][c.at]
              /\ SetCall(s, t, [Down(c) EXCEPT !.skips = @ + 1])
           \/ /\ ~Exhausted(c)
              /\ ~used[s][c.at]
              /\ SetCall(s, t, [c EXCEPT !.step = "try"])
        /\ UNCHANGED <<used, msgs>>

(* The call tries a key on its message. *)
Trying(c) == c.step = "try" \/ (c.step = "retry" /\ c.at <= c.skips)

(* The key opens the message: the hash of the text is right. *)
Opens(s, t) ==
    LET c == calls[s][t]
    IN  /\ Trying(c)
        /\ Fits(c)
        /\ Use(s, c.at)
        /\ Answer(s, t, "text")

(* With another key the padding is wrong, as a rule: the cipher throws, and *)
(* nothing between here and the server's handler catches...                *)
Throws(s, t) ==
    LET c == calls[s][t]
    IN  /\ Trying(c)
        /\ ~Fits(c)
        /\ Answer(s, t, "exception")
        /\ UNCHANGED used

(* ... or it happens to be valid, and the hash is wrong.  Mode 1 goes down  *)
(* the ring, fails at its bottom, and after the last attempt answers with  *)
(* what that attempt gave.                                                 *)
NextKeyMode1(s, t) ==
    LET c == calls[s][t]
    IN  /\ c.step = "try" /\ c.mode = 1
        /\ ~Fits(c)
        /\ \/ /\ AtBottom(c)
              /\ Answer(s, t, "failed")
           \/ /\ ~AtBottom(c) /\ c.tries + 1 = MaxAttempts
              /\ Answer(s, t, "garbage")
           \/ /\ ~AtBottom(c) /\ c.tries + 1 # MaxAttempts
              /\ SetCall(s, t, Down(c))
              /\ UNCHANGED msgs
        /\ UNCHANGED used

NextKeyMode2(s, t) ==
    LET c == calls[s][t]
    IN  /\ c.step = "try" /\ c.mode = 2
        /\ ~Fits(c)
        /\ SetCall(s, t, IF AtBottom(c)
                         THEN [c EXCEPT !.step = "retry"]
                         ELSE [Down(c) EXCEPT !.step = "look"])
        /\ UNCHANGED <<used, msgs>>

(* Mode 2 has tried what was unused.  As many keys as were skipped are      *)
(* tried again: not those that were, but the first ones of the ring.       *)
Retry(s, t) ==
    LET c == calls[s][t]
    IN  /\ c.step = "retry"
        /\ \/ /\ c.at > c.skips
              /\ Answer(s, t, "failed")
           \/ /\ c.at <= c.skips /\ ~Fits(c)
              /\ SetCall(s, t, [c EXCEPT !.at = @ + 1])
              /\ UNCHANGED msgs
        /\ UNCHANGED used

-----------------------------------------------------------------------------
(* What a thread does next in the call it is in. *)
Continue(s, t) == \/ Scan(s, t)
                  \/ Mark(s, t)
                  \/ Look(s, t)
                  \/ Opens(s, t)
                  \/ Throws(s, t)
                  \/ NextKeyMode1(s, t)
                  \/ NextKeyMode2(s, t)
                  \/ Retry(s, t)

Next == \E s \in Side :
            \/ AddKey(s)
            \/ \E t \in Threads :
                  \/ \E mode \in Modes : Encrypt(s, t, mode)
                  \/ \E i \in DOMAIN msgs : Decrypt(s, t, i)
                  \/ Continue(s, t)

Spec == Init /\ [][Next]_vars

(* A thread that is in a call goes on with it. *)
FairSpec == Spec /\ \A s \in Side, t \in Threads : WF_vars(Continue(s, t))
-----------------------------------------------------------------------------
(* Properties.                                                             *)

(* Type invariant: the accesses keys_.at(...) of every call stay within the *)
(* ring, however many keys arrive meanwhile.                               *)
TypeOK ==
    /\ used \in [Side -> Seq(BOOLEAN)]
    /\ calls \in [Side -> [Threads -> Call]]
    /\ msgs \in Seq(Message)
    /\ \A s \in Side, t \in Threads :
          LET c == calls[s][t]
          IN  /\ c.step = "mark" => c.at \in DOMAIN used[s]
              /\ c.step = "try" => c.at \in DOMAIN used[s]
              /\ c.step \in {"scan", "look"} => c.at <= Len(used[s])
              /\ c.step = "retry" => c.skips <= Len(used[s])

(* Did the receiver have the key when decryption began, and was it one of   *)
(* the last MaxAttempts?                                                   *)
Had(m)    == m.key <= m.had
Recent(m) == Had(m) /\ m.key > m.had - MaxAttempts

(* Mode 1 answers "failed" only for keys it did not have, and a wrong text  *)
(* only for those and for keys beyond the last MaxAttempts, though keys    *)
(* arrive while it tries.                                                  *)
Mode1Honest ==
    \A i \in DOMAIN msgs :
       /\ msgs[i].mode = 1 /\ msgs[i].fate = "failed" => ~Had(msgs[i])
       /\ msgs[i].fate = "garbage" => msgs[i].mode = 1 /\ ~Recent(msgs[i])

(* Mode 2 answers "failed" only for keys it did not have, keys beyond the   *)
(* last MaxAttempts, and keys that this side itself has used, though keys  *)
(* arrive while it tries and another thread uses some of those it looks at *)
(* (API_service_data_handler.cpp:189-243).                                 *)
Mode2Honest ==
    \A i \in DOMAIN msgs :
       msgs[i].mode = 2 /\ msgs[i].fate = "failed" /\ Recent(msgs[i]) =>
          used[Other(msgs[i].from)][msgs[i].key]

(* No key is wasted: one that is counted as used has encrypted a message of *)
(* this side, or opened one.  But mode 1 looks at back() twice, and counts  *)
(* a key that arrives in between for the one it has taken (API_service_     *)
(* data_handler.cpp:84-85); with mode 2 alone nothing but the first two    *)
(* disjuncts is left.                                                      *)
NoKeyWasted ==
    \A s \in Side : \A k \in DOMAIN used[s] : used[s][k] =>
       \E i \in DOMAIN msgs :
          \/ msgs[i].key = k /\ msgs[i].from = s
          \/ msgs[i].key = k /\ msgs[i].fate = "text"
          \/ msgs[i].key < k /\ msgs[i].from = s /\ msgs[i].mode = 1

SameKeyTwice(i, j) == /\ i # j
                      /\ msgs[i].mode = 2 /\ msgs[j].mode = 2
                      /\ msgs[i].key = msgs[j].key

(* "security - different key each time" (API_service_data_handler.cpp:93):  *)
(* no side encrypts twice with a key in mode 2.                            *)
OncePerSide ==
    \A i, j \in DOMAIN msgs :
       SameKeyTwice(i, j) => msgs[i].from # msgs[j].from

(* What is true of it with the two threads of a server, which take no lock  *)
(* between the look at uses and the count (API_service_data_handler.cpp:   *)
(* 106-108): a side encrypts twice with a key in mode 2 only in calls that *)
(* were under way at the same time.  The later call had begun before the   *)
(* message of the earlier one left.                                        *)
TwiceOnlyTogether ==
    \A i, j \in DOMAIN msgs :
       SameKeyTwice(i, j) /\ msgs[i].from = msgs[j].from /\ i < j =>
          msgs[j].begun < i

(* "try 10 times to decrypt if not decrypted by then, then give up"         *)
(* (API_service_data_handler.cpp:58): in mode 1 a key among the last ten   *)
(* opens the message.                                                      *)
RecentKeyOpens ==
    \A i \in DOMAIN msgs : msgs[i].mode = 1 /\ Recent(msgs[i]) =>
       msgs[i].fate \in {"sent", "opening", "text"}

(* "check for skipped keys" (API_service_data_handler.cpp:232): mode 2      *)
(* fails only after trying the keys it has skipped, too.                   *)
SkippedKeysTried ==
    \A i \in DOMAIN msgs : msgs[i].mode = 2 /\ msgs[i].fate = "failed" =>
       ~Recent(msgs[i])

(* A bound for the steps that a call still takes.                           *)
Work(c) ==
    LET attempts == MaxAttempts - c.tries
    IN  CASE c.step = "idle"  -> 0
          [] c.step = "mark"  -> 1
          [] c.step = "scan"  -> attempts + 2
          [] c.step = "look"  -> 2 * attempts + MaxAttempts + 2
          [] c.step = "try"   -> 2 * attempts + MaxAttempts + 1
          [] c.step = "retry" -> IF c.at > c.skips THEN 1 ELSE c.skips - c.at + 2

(* "then give up and avoid being stuck in loop"                             *)
(* (API_service_data_handler.cpp:58): every step of a call uses up some of *)
(* its attempts, in both modes, however long the ring and whatever others  *)
(* do to it meanwhile.  So a call takes at most 3 * MaxAttempts + 2 steps. *)
CallsShrink ==
    [][\A s \in Side, t \in Threads :
          calls[s][t].step # "idle" /\ calls'[s][t] # calls[s][t] =>
             Work(calls'[s][t]) < Work(calls[s][t])]_vars

(* "avoid being stuck in loop" (API_service_data_handler.cpp:58): a call    *)
(* ends, though keys keep arriving.                                        *)
CallsEnd ==
    \A s \in Side, t \in Threads :
       calls[s][t].step # "idle" ~> calls[s][t].step = "idle"
=============================================================================

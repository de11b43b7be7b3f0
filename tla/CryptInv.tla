------------------------------ MODULE CryptInv ------------------------------
(***************************************************************************)
(* An inductive invariant of Crypt: where each call is in the ring, and    *)
(* what it has found out about its message so far.                         *)
(***************************************************************************)
EXTENDS Crypt

Decrypting(c) == c.step \in {"look", "try", "retry"}

(* A decryption works on a message of the other side, which is its own.     *)
Assigned ==
    \A s \in Side, t \in Threads :
       LET c == calls[s][t]
       IN  Decrypting(c) => /\ c.msg \in DOMAIN msgs
                            /\ msgs[c.msg].fate = "opening"
                            /\ msgs[c.msg].from = Other(s)
                            /\ msgs[c.msg].mode = c.mode

Apart ==
    \A s \in Side : \A t, u \in Threads :
       /\ Decrypting(calls[s][t]) /\ Decrypting(calls[s][u])
       /\ calls[s][t].msg = calls[s][u].msg
       => t = u

(* The place of a call in the ring, and what it has skipped.                *)
Places ==
    \A s \in Side, t \in Threads :
       LET c == calls[s][t]
       IN  /\ c.step = "look" \/ (c.step = "try" /\ c.mode = 2) =>
                 c.skips <= c.tries /\ c.at + c.skips <= Len(used[s])
           /\ c.step = "try" => c.tries < MaxAttempts
           /\ c.step \in {"look", "retry"} => c.mode = 2
           /\ c.step = "retry" => c.at # 0

(* In mode 1 the ring is searched downwards from where it ended: the key is *)
(* none of those above.                                                    *)
Searched ==
    \A s \in Side, t \in Threads :
       LET c == calls[s][t]
           m == msgs[c.msg]
       IN  c.step = "try" /\ c.mode = 1 =>
              /\ c.at = m.had - c.tries
              /\ ~(c.at < m.key /\ m.key <= m.had)

(* Messages have keys of the ring they were encrypted with, and the ring    *)
(* they are for has not become smaller.                                    *)
KeysInRings ==
    \A i \in DOMAIN msgs : /\ msgs[i].key <= Len(used[msgs[i].from])
                           /\ msgs[i].had <= Len(used[Other(msgs[i].from)])

SearchInvariant ==
    TypeOK /\ Assigned /\ Apart /\ Places /\ Searched /\ KeysInRings /\ Mode1Honest

(* In mode 2 the key of the message is none of those above the place of the *)
(* call, or it is a used one; and once the search is over, none of those   *)
(* within reach.  m is the message, r the ring.                            *)
SearchOK(c, m, r) ==
    c.mode = 2 =>
       /\ c.step \in {"look", "try"} =>
             /\ c.at = m.had - c.tries
             /\ c.at < m.key /\ m.key <= m.had => r[m.key]
       /\ c.step = "retry" /\ Recent(m) => r[m.key]

SearchedMode2 ==
    \A s \in Side, t \in Threads :
       LET c == calls[s][t] IN Decrypting(c) => SearchOK(c, msgs[c.msg], used[s])

(* The keys of all mode 2 messages have been counted; so an encryption that *)
(* finds its key unused is the first, but for those that leave while it is *)
(* under way.                                                              *)
KeysSpent ==
    \A i \in DOMAIN msgs :
       msgs[i].mode = 2 => used[msgs[i].from][msgs[i].key]

FirstWhenBegun ==
    \A s \in Side, t \in Threads :
       LET c == calls[s][t]
       IN  /\ c.step \in {"scan", "mark"} => c.begun <= Len(msgs)
           /\ c.step = "mark" /\ c.mode = 2 =>
                 \A i \in DOMAIN msgs :
                    /\ msgs[i].mode = 2 /\ msgs[i].from = s /\ msgs[i].key = c.at
                    => c.begun < i

CryptInvariant ==
    /\ SearchInvariant
    /\ SearchedMode2 /\ Mode2Honest
    /\ KeysSpent /\ FirstWhenBegun /\ TwiceOnlyTogether
=============================================================================

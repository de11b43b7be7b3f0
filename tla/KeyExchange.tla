----------------------------- MODULE KeyExchange -----------------------------
(***************************************************************************)
(* What a synchronisation session promises the two applications that share *)
(* it: the parties collect the same keys in the same order.  One party may *)
(* be a single key ahead, while the news of that key is on its way; no     *)
(* party finds another key before the other one has followed.              *)
(***************************************************************************)
EXTENDS Sequences

CONSTANTS Party,  \* the two ends of a session
          Key     \* what a key may be

VARIABLE log      \* the keys each party has collected, oldest first

Init == log = [p \in Party |-> <<>>]

(* p collects a new key: only when nobody is behind. *)
Lead(p, k) == /\ \A q \in Party : log[q] = log[p]
              /\ log' = [log EXCEPT ![p] = Append(@, k)]

(* p catches up with the one key that q is ahead. *)
Follow(p, q) == /\ \E k \in Key : log[q] = Append(log[p], k)
                /\ log' = [log EXCEPT ![p] = log[q]]

Next == \E p \in Party : \/ \E k \in Key : Lead(p, k)
                         \/ \E q \in Party : Follow(p, q)

Spec == Init /\ [][Next]_log

OneAhead(p, q) == \E k \in Key : log[p] = Append(log[q], k)

(* Any two parties hold the same keys, or one of them is ahead by one.      *)
(* (add_key_to_proper_keys on one side is answered by on_reset on the      *)
(* other.)                                                                 *)
Agreement == \A p, q \in Party : \/ log[p] = log[q]
                                 \/ OneAhead(p, q)
                                 \/ OneAhead(q, p)
=============================================================================

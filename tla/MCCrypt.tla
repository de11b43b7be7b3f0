------------------------------- MODULE MCCrypt -------------------------------
(* Small instances of Crypt. *)
EXTENDS CryptInv, TLC

CONSTANTS t1, t2

OneThread  == {t1}
TwoThreads == {t1, t2}

(* Calls do not say which thread they run in. *)
Swap == Permutations(TwoThreads)

(* For the shortest examples: rings as a session fills them, which finds a  *)
(* key only when both sides have the last one.                             *)
SessionRings == \A s \in Side : Len(used[s]) <= Len(used[Other(s)]) + 1
=============================================================================

------------------------------ MODULE MCServer ------------------------------
(***************************************************************************)
(* Small instances of Server.  Applications ask for the name a; a1 is      *)
(* what gen_name can make of it.                                           *)
(***************************************************************************)
EXTENDS ServerInv

CONSTANTS a, a1

AllNames == {a, a1}
Appended == [n \in AllNames |-> IF n = a THEN {a1} ELSE {}]
=============================================================================

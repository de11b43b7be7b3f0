-------------------------- MODULE TreeParityMachine --------------------------
(***************************************************************************)
(* The tree parity machine of TreeParityMachine.cpp and TpmHandler.cpp as  *)
(* operators on its weights, its input vector and its hidden outputs.      *)
(*                                                                         *)
(* A machine has K hidden units with N inputs each.  The code keeps the    *)
(* weights W.Z and the inputs X.Z in flat arrays indexed by i * N + j, and *)
(* so does this module: Cell is the set of these indices.                  *)
(***************************************************************************)
EXTENDS Integers, FiniteSets

CONSTANTS K,  \* hidden units (the code ships 6)
          N,  \* inputs of a hidden unit (12)
          L   \* weights range over -L..L (4)

ASSUME TPMAssumption == /\ K \in Nat \ {0}
                        /\ N \in Nat \ {0}
                        /\ L \in Nat \ {0}

Hidden  == 0 .. K - 1
Cell    == 0 .. K * N - 1
Spin    == {-1, 1}

Weights == [Cell -> -L .. L]
Vectors == [Cell -> Spin]
Outputs == [Hidden -> Spin]

(* Zero counts as negative. *)
Signum(r) == IF r > 0 THEN 1 ELSE -1

(* What ComputeTPMResult adds up for unit i: sum[j] after j of its inputs.  *)
LocalField(w, x, i) ==
    LET sum[j \in 0 .. N] ==
            IF j = 0 THEN 0
            ELSE sum[j - 1] + w[i * N + j - 1] * x[i * N + j - 1]
    IN  sum[N]

(* ComputeTPMResult leaves the sign of every local field in H and their     *)
(* product in TPMOutput; a product of signs is a parity.                   *)
HiddenOutputs(w, x) == [i \in Hidden |-> Signum(LocalField(w, x, i))]

(* Mistaken: counts the units that answer 1. *)
TPMOutputOfOnes(h) ==
    IF Cardinality({i \in Hidden : h[i] = 1}) % 2 = 0 THEN 1 ELSE -1

TPMOutput(h) ==
    IF Cardinality({i \in Hidden : h[i] = -1}) % 2 = 0 THEN 1 ELSE -1

(* Mistaken: without the lower bound. *)
ClampAboveOnly(v) == IF v > L THEN L ELSE v

Clamp(v) == IF v > L THEN L ELSE IF v < -L THEN -L ELSE v

(* Mistaken: moves every unit towards the machine's output. *)
UpdateEveryUnit(w, x, h) ==
    [c \in Cell |-> Clamp(w[c] + x[c] * TPMOutput(h))]

(* UpdateWeight moves only the units whose output is the machine's output.  *)
(* It reads the H and the TPMOutput of the last ComputeTPMResult, and the   *)
(* vector it is given.                                                     *)
UpdateWeight(w, x, h) ==
    LET Agrees(c) == h[c \div N] = TPMOutput(h)
    IN  [c \in Cell |->
            Clamp(w[c] + (IF Agrees(c) THEN x[c] * TPMOutput(h) ELSE 0))]
=============================================================================

------------------------------ MODULE Training ------------------------------
(***************************************************************************)
(* One machine trained on vectors as they come, from every weight: what    *)
(* the peers do between two messages, without the messages.  Its           *)
(* properties compare the operators of TreeParityMachine and Wire with     *)
(* what the rest of the program takes from them.                           *)
(***************************************************************************)
EXTENDS Wire

VARIABLES w,  \* W.Z
          x,  \* X.Z, the vector computed last
          h   \* H.Z, left by ComputeTPMResult

vars == <<w, x, h>>

Init == /\ w \in Weights
        /\ x \in Vectors
        /\ h = HiddenOutputs(w, x)

Next == /\ w' = UpdateWeight(w, x, h)
        /\ x' \in Vectors
        /\ h' = HiddenOutputs(w', x')

Spec == Init /\ [][Next]_vars

-----------------------------------------------------------------------------
(* Training keeps the weights in -L..L from every start (UpdateWeight's two *)
(* clamps, TreeParityMachine.cpp:89-92).                                   *)
WeightsBounded == w \in Weights /\ h \in Outputs

(* TPMOutput is the product that ComputeTPMResult accumulates unit by unit  *)
(* (TreeParityMachine.cpp:26-33).                                          *)
OutputIsProduct ==
    LET product[i \in 0 .. K] ==
            IF i = 0 THEN 1
            ELSE product[i - 1] * Signum(LocalField(w, x, i - 1))
    IN  TPMOutput(h) = product[K]

(* An update never takes back the answer it was made for: computing again   *)
(* on the same vector gives the same hidden outputs, zero fields and       *)
(* clamped weights included.  So the H and TPMOutput that UpdateWeight     *)
(* reads stay true of the machine (TpmNetworkHandler.cpp:227).             *)
UpdateIsStable == HiddenOutputs(UpdateWeight(w, x, h), x) = h

(* A vector survives the trip: set_from_string reads back what to_string    *)
(* wrote, though the numbers are not separated.                            *)
WireRoundTrip == ReadVector(WriteVector(x)) = x

(* get_key writes the weights side by side.  While one digit is enough for  *)
(* each (the program ships L = 4), they can be read back from it, one      *)
(* character each: no two machines share a key, and equal keys mean equal  *)
(* weights (SingleTpmNetworkHandler.cpp:84-91).                            *)
KeyIdentifiesWeights ==
    L <= 4 => LET text == GetKey(w)
              IN  /\ Len(text) = K * N
                  /\ \A c \in Cell : text[c + 1] - L = w[c]

(* The bytes of the cipher's key depend on every character of the key text, *)
(* but for two: the one at MAX_KEYLENGTH, which the loop of gen_key neither *)
(* adds nor keeps, and the one added to it.  (Of 72 characters and 32      *)
(* bytes, those at 32 and 39; of 6 and 2, those at 2 and 3.)  So it is for *)
(* every text whose length lets the loop start over once, not twice.       *)
GenKeyDropsTwo ==
    \A max \in 1 .. K * N :
       L <= 4 /\ max < K * N - 1 - max /\ K * N - 1 - max <= 2 * max =>
          \A c \in Cell : \A v \in (-L .. L) \ {w[c]} :
             GenKey(GetKey(w), max) = GenKey(GetKey([w EXCEPT ![c] = v]), max)
                <=> c \in {max, K * N - 1 - max}
=============================================================================

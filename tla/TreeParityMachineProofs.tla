----------------------- MODULE TreeParityMachineProofs -----------------------
(***************************************************************************)
(* Facts about the operators of TreeParityMachine, for every K, N and L:   *)
(* the range of the weights, and by induction over units and inputs what   *)
(* the loops of ComputeTPMResult and UpdateWeight add up to.               *)
(***************************************************************************)
EXTENDS TreeParityMachine, FiniteSetTheorems, WellFoundedInduction, TLAPS

-----------------------------------------------------------------------------
(* Induction.  The library's induction theorems take a predicate as an      *)
(* operator; these take the set of the numbers that satisfy it instead, and *)
(* rest on the well-foundedness of < on Nat.                                *)

Smaller == {p \in Nat \X Nat : p[1] < p[2]}

LEMMA SmallerWF == IsWellFoundedOn(Smaller, Nat)
<1>1. Smaller = OpToRel(<, Nat)
  BY Zenon DEF Smaller, OpToRel
<1>2. QED
  BY <1>1, NatLessThanWellFounded, Zenon

LEMMA NatSetInduction ==
    ASSUME NEW S, 0 \in S, \A n \in Nat : n \in S => n + 1 \in S
    PROVE  Nat \subseteq S
<1> DEFINE T == Nat \ S
<1> SUFFICES ASSUME T # {} PROVE FALSE
  OBVIOUS
<1>1. PICK m \in T : \A k \in T : ~ (<<k, m>> \in Smaller)
  <2>1. T \subseteq Nat
    OBVIOUS
  <2>2. QED
    BY <2>1, SmallerWF, WFMin, Zenon
<1>2. m \in Nat /\ m # 0 /\ m - 1 \in Nat
  OBVIOUS
<1>3. m - 1 \in S
  <2>1. <<m - 1, m>> \in Smaller
    BY <1>2 DEF Smaller
  <2>2. m - 1 \notin T
    BY <1>1, <2>1, Zenon
  <2>3. QED
    BY <1>2, <2>2
<1>4. QED
  BY <1>2, <1>3

(* The same up to a bound. *)
LEMMA UptoInduction ==
    ASSUME NEW n \in Nat, NEW S,
           0 \in S, \A i \in 1 .. n : i - 1 \in S => i \in S
    PROVE  0 .. n \subseteq S
<1> DEFINE T == {i \in Nat : i <= n => i \in S}
<1>1. 0 \in T
  OBVIOUS
<1>2. ASSUME NEW i \in Nat, i \in T PROVE i + 1 \in T
  <2>1. CASE i + 1 <= n
    <3>1. i + 1 \in 1 .. n /\ (i + 1) - 1 = i /\ i \in S
      BY <1>2, <2>1
    <3>2. QED
      BY <3>1
  <2>2. CASE ~(i + 1 <= n)
    BY <2>2
  <2>3. QED
    BY <2>1, <2>2
<1>3. Nat \subseteq T
  <2> HIDE DEF T
  <2>1. QED
    BY <1>1, <1>2, NatSetInduction
<1>4. QED
  BY <1>3

(* A recursive function over 0..n exists, and takes its values in A, when   *)
(* its step is a function F that stays in A.  (Named, so that the provers   *)
(* need not look into them when the lemma is cited.)                        *)
IsStep(F, A, n) == F \in [A \X (1 .. n) -> A]
IsIteration(s, F, A, a, n) == /\ s \in [0 .. n -> A]
                              /\ s[0] = a
                              /\ \A i \in 1 .. n : s[i] = F[<<s[i - 1], i>>]

LEMMA Iterates ==
    ASSUME NEW A, NEW a \in A, NEW n \in Nat, NEW F, IsStep(F, A, n)
    PROVE  \E s : IsIteration(s, F, A, a, n)
<1> DEFINE Upto(m) == \E s \in [0 .. m -> A] :
                         /\ s[0] = a
                         /\ \A i \in 1 .. m : s[i] = F[<<s[i - 1], i>>]
           S == {m \in Nat : Upto(m)}
<1>1. 0 \in S
  <2> DEFINE r == [i \in 0 .. 0 |-> a]
  <2>1. r \in [0 .. 0 -> A] /\ r[0] = a
    OBVIOUS
  <2>2. \A i \in 1 .. 0 : r[i] = F[<<r[i - 1], i>>]
    OBVIOUS
  <2>3. Upto(0)
    <3> HIDE DEF r
    <3>1. QED
      BY <2>1, <2>2
  <2>4. QED
    BY <2>3
<1>2. ASSUME NEW m \in 1 .. n, m - 1 \in S PROVE m \in S
  <2>1. PICK s \in [0 .. m - 1 -> A] :
                /\ s[0] = a
                /\ \A i \in 1 .. m - 1 : s[i] = F[<<s[i - 1], i>>]
    BY <1>2
  <2> DEFINE r == [i \in 0 .. m |-> IF i = m THEN F[<<s[m - 1], m>>] ELSE s[i]]
  <2>2. F[<<s[m - 1], m>>] \in A
    BY DEF IsStep
  <2>3. r \in [0 .. m -> A]
    BY <2>2
  <2>4. r[0] = a
    BY <2>1
  <2>5. ASSUME NEW i \in 1 .. m PROVE r[i] = F[<<r[i - 1], i>>]
    <3>1. i - 1 \in 0 .. m - 1 /\ r[i - 1] = s[i - 1]
      OBVIOUS
    <3>2. CASE i = m
      <4>1. r[m] = F[<<s[m - 1], m>>]
        OBVIOUS
      <4>2. <<r[i - 1], i>> = <<s[m - 1], m>>
        BY <3>1, <3>2
      <4>3. QED
        BY <3>2, <4>1, <4>2, Zenon
    <3>3. CASE i # m
      BY <2>1, <3>1, <3>3
    <3>4. QED
      BY <3>2, <3>3
  <2>6. Upto(m)
    <3> HIDE DEF r
    <3>1. QED
      BY <2>3, <2>4, <2>5
  <2>7. QED
    BY <2>6
<1>3. n \in S
  <2> HIDE DEF S
  <2>1. 0 .. n \subseteq S
    BY <1>1, <1>2, UptoInduction
  <2>2. QED
    BY <2>1
<1>4. QED
  BY <1>3 DEF IsIteration

-----------------------------------------------------------------------------
(* Ranges.                                                                  *)

(* A machine's output is a sign, whatever its hidden outputs. *)
LEMMA OutputType == ASSUME NEW h PROVE TPMOutput(h) \in Spin
  BY DEF TPMOutput, Spin

(* Hidden outputs are signs, whatever the local fields add up to. *)
LEMMA HiddenType == ASSUME NEW w, NEW x PROVE HiddenOutputs(w, x) \in Outputs
<1>1. \A r : Signum(r) \in Spin
  BY DEF Signum, Spin
<1>2. QED
  BY <1>1 DEF HiddenOutputs, Outputs

(* The clamps keep a weight in range. *)
LEMMA ClampType == ASSUME NEW v \in Int PROVE Clamp(v) \in -L .. L
  BY TPMAssumption DEF Clamp

(* UpdateWeight never moves a weight out of -L..L, whatever vector and      *)
(* hidden outputs are loaded: this is what makes get_key and the hash of a *)
(* key well defined (TreeParityMachine.cpp:83-96).                         *)
THEOREM WeightsStayInRange ==
    ASSUME NEW w \in Weights, NEW x \in Vectors, NEW h
    PROVE  UpdateWeight(w, x, h) \in Weights
<1> DEFINE Agrees(c) == h[c \div N] = TPMOutput(h)
           Step(c) == IF Agrees(c) THEN x[c] * TPMOutput(h) ELSE 0
<1>1. ASSUME NEW c \in Cell PROVE Clamp(w[c] + Step(c)) \in -L .. L
  <2>1. w[c] \in Int
    BY TPMAssumption DEF Weights
  <2>2. x[c] \in Spin /\ TPMOutput(h) \in Spin
    BY OutputType DEF Vectors
  <2>3. x[c] * TPMOutput(h) \in Int
    BY <2>2 DEF Spin
  <2>4. w[c] + Step(c) \in Int
    BY <2>1, <2>3
  <2>5. QED
    BY <2>4, ClampType
<1>2. UpdateWeight(w, x, h) = [c \in Cell |-> Clamp(w[c] + Step(c))]
  BY DEF UpdateWeight
<1>3. QED
  BY <1>1, <1>2 DEF Weights

-----------------------------------------------------------------------------
(* Local fields.                                                            *)

(* The cells of a unit: its inputs are counted within it. *)
LEMMA CellOfUnit ==
    ASSUME NEW i \in Hidden, NEW j \in 0 .. N - 1
    PROVE  i * N + j \in Cell /\ (i * N + j) \div N = i
<1>1. i \in Nat /\ j \in Nat /\ N \in Nat /\ K \in Nat /\ N > 0 /\ i <= K - 1 /\ j < N
  BY TPMAssumption DEF Hidden
<1>2. i * N \in Nat /\ i * N <= K * N - N
  <2>1. i * N \in Nat /\ (K - 1) * N = K * N - N
    BY <1>1
  <2>2. i * N <= (K - 1) * N
    BY <1>1
  <2>3. QED
    BY <2>1, <2>2
<1>3. i * N + j \in Cell
  <2>1. K * N \in Nat
    BY <1>1
  <2>2. QED
    BY <1>1, <1>2, <2>1 DEF Cell
<1>4. (i * N + j) \div N = i
  BY <1>1
<1>5. QED
  BY <1>3, <1>4

(* The loop over the inputs of a unit: what it has added up after each. *)
LEMMA FieldSums ==
    ASSUME NEW w \in [Cell -> Int], NEW x \in [Cell -> Int], NEW i \in Hidden
    PROVE  \E s \in [0 .. N -> Int] :
              /\ s[0] = 0
              /\ \A j \in 1 .. N :
                    s[j] = s[j - 1] + w[i * N + j - 1] * x[i * N + j - 1]
              /\ LocalField(w, x, i) = s[N]
<1> DEFINE t == [j \in 1 .. N |-> w[i * N + j - 1] * x[i * N + j - 1]]
           F == [p \in Int \X (1 .. N) |-> p[1] + t[p[2]]]
           g == CHOOSE sum : sum = [j \in 0 .. N |->
                   IF j = 0 THEN 0
                   ELSE sum[j - 1] + w[i * N + j - 1] * x[i * N + j - 1]]
<1>1. N \in Nat /\ N > 0
  BY TPMAssumption
<1>2. t \in [1 .. N -> Int]
  <2>1. ASSUME NEW j \in 1 .. N PROVE w[i * N + j - 1] * x[i * N + j - 1] \in Int
    <3>1. j - 1 \in 0 .. N - 1 /\ i * N + (j - 1) \in Cell
      BY <1>1, CellOfUnit
    <3>2. i * N + (j - 1) = i * N + j - 1
      BY <1>1 DEF Hidden
    <3>3. w[i * N + j - 1] \in Int /\ x[i * N + j - 1] \in Int
      BY <3>1, <3>2
    <3>4. QED
      BY <3>3
  <2>2. QED
    BY <2>1
<1>3. IsStep(F, Int, N)
  <2> HIDE DEF t
  <2>1. QED
    BY <1>2 DEF IsStep
<1>4. PICK s : IsIteration(s, F, Int, 0, N)
  <2> HIDE DEF F
  <2>1. 0 \in Int /\ N \in Nat
    BY <1>1
  <2>2. QED
    BY <1>3, <2>1, Iterates, Zenon
<1>5. \A j \in 1 .. N : s[j] = s[j - 1] + w[i * N + j - 1] * x[i * N + j - 1]
  <2>1. ASSUME NEW j \in 1 .. N
        PROVE  s[j] = s[j - 1] + w[i * N + j - 1] * x[i * N + j - 1]
    <3>1. s[j - 1] \in Int
      BY <1>1, <1>4 DEF IsIteration
    <3>2. F[<<s[j - 1], j>>] = s[j - 1] + t[j]
      <4> HIDE DEF t
      <4>1. QED
        BY <3>1
    <3>3. QED
      BY <1>4, <3>2 DEF IsIteration
  <2>2. QED
    BY <2>1
<1>6. s = [j \in 0 .. N |-> IF j = 0 THEN 0
                            ELSE s[j - 1] + w[i * N + j - 1] * x[i * N + j - 1]]
  BY <1>4, <1>5, <1>1 DEF IsIteration
<1>7. g = [j \in 0 .. N |-> IF j = 0 THEN 0
                            ELSE g[j - 1] + w[i * N + j - 1] * x[i * N + j - 1]]
  BY <1>6, Zenon
<1>8. LocalField(w, x, i) = g[N]
  BY Zenon DEF LocalField
<1> HIDE DEF g, F, t
<1>9. /\ g[0] = 0
      /\ \A j \in 1 .. N : g[j] = g[j - 1] + w[i * N + j - 1] * x[i * N + j - 1]
  BY <1>7, <1>1
<1>10. \A j \in 0 .. N : g[j] = s[j]
  <2> DEFINE S == {j \in 0 .. N : g[j] = s[j]}
  <2>1. 0 \in S
    BY <1>1, <1>4, <1>9 DEF IsIteration
  <2>2. \A j \in 1 .. N : j - 1 \in S => j \in S
    BY <1>5, <1>9, <1>1
  <2> HIDE DEF S
  <2>3. 0 .. N \subseteq S
    BY <1>1, <2>1, <2>2, UptoInduction
  <2>4. QED
    BY <2>3 DEF S
<1>11. LocalField(w, x, i) = s[N]
  BY <1>1, <1>8, <1>10
<1>12. QED
  BY <1>4, <1>5, <1>11 DEF IsIteration

(* Sums grow with their terms. *)
LEMMA FieldsCompare ==
    ASSUME NEW w \in [Cell -> Int], NEW v \in [Cell -> Int], NEW x \in [Cell -> Int],
           NEW i \in Hidden,
           \A j \in 0 .. N - 1 : w[i * N + j] * x[i * N + j] <= v[i * N + j] * x[i * N + j]
    PROVE  LocalField(w, x, i) <= LocalField(v, x, i)
<1>1. N \in Nat /\ i \in Nat
  BY TPMAssumption DEF Hidden
<1>2. PICK s \in [0 .. N -> Int] :
         /\ s[0] = 0
         /\ \A j \in 1 .. N : s[j] = s[j - 1] + w[i * N + j - 1] * x[i * N + j - 1]
         /\ LocalField(w, x, i) = s[N]
  BY FieldSums
<1>3. PICK r \in [0 .. N -> Int] :
         /\ r[0] = 0
         /\ \A j \in 1 .. N : r[j] = r[j - 1] + v[i * N + j - 1] * x[i * N + j - 1]
         /\ LocalField(v, x, i) = r[N]
  BY FieldSums
<1> DEFINE S == {j \in 0 .. N : s[j] <= r[j]}
<1>4. 0 \in S
  BY <1>1, <1>2, <1>3
<1>5. ASSUME NEW j \in 1 .. N, j - 1 \in S PROVE j \in S
  <2> DEFINE a == w[i * N + j - 1] * x[i * N + j - 1]
             b == v[i * N + j - 1] * x[i * N + j - 1]
  <2>1. j - 1 \in 0 .. N - 1 /\ i * N + (j - 1) = i * N + j - 1
    BY <1>1
  <2>2. a <= b /\ a \in Int /\ b \in Int
    <3>1. i * N + j - 1 \in Cell
      BY <2>1, CellOfUnit
    <3>2. w[i * N + j - 1] \in Int /\ v[i * N + j - 1] \in Int /\ x[i * N + j - 1] \in Int
      BY <3>1
    <3>3. a <= b
      BY <2>1
    <3>4. QED
      BY <3>2, <3>3
  <2>3. s[j - 1] \in Int /\ r[j - 1] \in Int /\ s[j - 1] <= r[j - 1]
    BY <1>5, <1>1
  <2>4. s[j] = s[j - 1] + a /\ r[j] = r[j - 1] + b
    BY <1>2, <1>3
  <2> HIDE DEF a, b
  <2>5. QED
    BY <2>2, <2>3, <2>4
<1>6. N \in S
  <2> HIDE DEF S
  <2>1. 0 .. N \subseteq S
    BY <1>1, <1>4, <1>5, UptoInduction
  <2>2. QED
    BY <2>1, <1>1
<1>7. QED
  BY <1>2, <1>3, <1>6

-----------------------------------------------------------------------------
(* Updates.                                                                 *)

(* A weight of an agreeing unit moves so that its term does, towards the    *)
(* output - or stays at its clamp.                                          *)
LEMMA TermMoves ==
    ASSUME NEW a \in -L .. L, NEW s \in Spin, NEW tau \in Spin
    PROVE  /\ tau = 1  => a * s <= Clamp(a + s * tau) * s
           /\ tau = -1 => Clamp(a + s * tau) * s <= a * s
  BY TPMAssumption DEF Clamp, Spin

(* Computing again after an update, on the vector of the update, gives the  *)
(* hidden outputs it was made for (TreeParityMachine.cpp:83-96).            *)
THEOREM UpdateKeepsOutputs ==
    ASSUME NEW w \in Weights, NEW x \in Vectors
    PROVE  HiddenOutputs(UpdateWeight(w, x, HiddenOutputs(w, x)), x) = HiddenOutputs(w, x)
<1> DEFINE h   == HiddenOutputs(w, x)
           tau == TPMOutput(h)
           v   == UpdateWeight(w, x, h)
<1>1. tau \in Spin /\ h \in Outputs
  BY OutputType, HiddenType
<1>2. v \in Weights
  BY WeightsStayInRange
<1>3. w \in [Cell -> Int] /\ v \in [Cell -> Int] /\ x \in [Cell -> Int]
  <2>1. -L .. L \subseteq Int /\ Spin \subseteq Int
    BY TPMAssumption DEF Spin
  <2> HIDE DEF v
  <2>2. QED
    BY <1>2, <2>1 DEF Weights, Vectors
<1>4. \A c \in Cell : v[c] = Clamp(w[c] + (IF h[c \div N] = tau THEN x[c] * tau ELSE 0))
  BY DEF UpdateWeight
<1>5. ASSUME NEW i \in Hidden
      PROVE  Signum(LocalField(v, x, i)) = Signum(LocalField(w, x, i))
  <2>1. h[i] = Signum(LocalField(w, x, i))
    BY DEF HiddenOutputs
  <2>2. ASSUME NEW j \in 0 .. N - 1
        PROVE  /\ w[i * N + j] \in -L .. L /\ x[i * N + j] \in Spin
               /\ h[i] # tau => v[i * N + j] = w[i * N + j]
               /\ h[i] = tau => v[i * N + j] = Clamp(w[i * N + j] + x[i * N + j] * tau)
    <3> DEFINE c == i * N + j
    <3>1. c \in Cell /\ c \div N = i
      BY CellOfUnit
    <3> HIDE DEF c, v, h, tau
    <3>2. w[c] \in -L .. L /\ x[c] \in Spin
      BY <3>1 DEF Weights, Vectors
    <3>3. h[i] = tau => v[c] = Clamp(w[c] + x[c] * tau)
      BY <1>4, <3>1
    <3>4. h[i] # tau => v[c] = w[c]
      <4>1. h[i] # tau => v[c] = Clamp(w[c] + 0)
        BY <1>4, <3>1
      <4>2. Clamp(w[c] + 0) = w[c]
        BY <3>2, TPMAssumption DEF Clamp
      <4>3. QED
        BY <4>1, <4>2
    <3>5. QED
      BY <3>2, <3>3, <3>4 DEF c
  <2>3. LocalField(v, x, i) \in Int /\ LocalField(w, x, i) \in Int
    <3> HIDE DEF v
    <3>1. N \in 0 .. N
      BY TPMAssumption
    <3>2. QED
      BY <1>3, <3>1, FieldSums
  <2> DEFINE Term(u, j) == u[i * N + j] * x[i * N + j]
  <2>4. CASE h[i] # tau
    <3>1. \A j \in 0 .. N - 1 : Term(v, j) = Term(w, j) /\ Term(w, j) \in Int
      <4> HIDE DEF v, h, tau
      <4>1. \A j \in 0 .. N - 1 : i * N + j \in Cell
        BY CellOfUnit
      <4>2. QED
        BY <2>2, <2>4, <4>1, <1>3
    <3>2. /\ LocalField(v, x, i) <= LocalField(w, x, i)
          /\ LocalField(w, x, i) <= LocalField(v, x, i)
      <4> HIDE DEF v
      <4>1. \A j \in 0 .. N - 1 : Term(v, j) <= Term(w, j) /\ Term(w, j) <= Term(v, j)
        BY <3>1
      <4>2. QED
        BY <1>3, <4>1, FieldsCompare
    <3> HIDE DEF v
    <3>3. QED
      BY <2>3, <3>2
  <2>5. CASE h[i] = tau /\ tau = 1
    <3>1. LocalField(w, x, i) <= LocalField(v, x, i)
      <4> HIDE DEF v, h, tau
      <4>1. \A j \in 0 .. N - 1 : Term(w, j) <= Term(v, j)
        BY <1>1, <2>2, <2>5, TermMoves
      <4>2. QED
        BY <1>3, <4>1, FieldsCompare
    <3> HIDE DEF v, h, tau
    <3>2. QED
      BY <2>1, <2>3, <2>5, <3>1 DEF Signum
  <2>6. CASE h[i] = tau /\ tau = -1
    <3>1. LocalField(v, x, i) <= LocalField(w, x, i)
      <4> HIDE DEF v, h, tau
      <4>1. \A j \in 0 .. N - 1 : Term(v, j) <= Term(w, j)
        BY <1>1, <2>2, <2>6, TermMoves
      <4>2. QED
        BY <1>3, <4>1, FieldsCompare
    <3> HIDE DEF v, h, tau
    <3>2. QED
      BY <2>1, <2>3, <2>6, <3>1 DEF Signum
  <2>7. QED
    <3> HIDE DEF v, h, tau
    <3>1. QED
      BY <1>1, <2>4, <2>5, <2>6 DEF Spin
<1>6. HiddenOutputs(v, x) = HiddenOutputs(w, x)
  <2> HIDE DEF v
  <2>1. QED
    BY <1>5 DEF HiddenOutputs
<1>7. QED
  BY <1>6

-----------------------------------------------------------------------------
(* The output.                                                              *)

(* One more unit: the parity of the negative ones is multiplied by its sign. *)
LEMMA ParityStep ==
    ASSUME NEW h \in Outputs, NEW i \in 1 .. K
    PROVE  LET Negative(n) == {j \in 0 .. n - 1 : h[j] = -1}
               Parity(n) == IF Cardinality(Negative(n)) % 2 = 0 THEN 1 ELSE -1
           IN  Parity(i) = Parity(i - 1) * h[i - 1]
<1> DEFINE Negative(n) == {j \in 0 .. n - 1 : h[j] = -1}
           Parity(n) == IF Cardinality(Negative(n)) % 2 = 0 THEN 1 ELSE -1
<1>1. i - 1 \in Hidden /\ i \in Nat /\ h[i - 1] \in Spin
  BY TPMAssumption DEF Outputs, Hidden
<1>2. IsFiniteSet(Negative(i - 1)) /\ Cardinality(Negative(i - 1)) \in Nat
  <2>1. IsFiniteSet(0 .. i - 2)
    BY <1>1, FS_Interval
  <2>2. Negative(i - 1) \subseteq 0 .. i - 2
    BY <1>1
  <2>3. QED
    BY <2>1, <2>2, FS_Subset, FS_CardinalityType
<1>3. i - 1 \notin Negative(i - 1)
  BY <1>1
<1>4. CASE h[i - 1] = -1
  <2>1. Negative(i) = Negative(i - 1) \cup {i - 1}
    BY <1>1, <1>4
  <2>2. Cardinality(Negative(i)) = Cardinality(Negative(i - 1)) + 1
    <3> HIDE DEF Negative
    <3>1. QED
      BY <1>2, <1>3, <2>1, FS_AddElement
  <2> HIDE DEF Negative
  <2>3. Parity(i) = - Parity(i - 1)
    BY <1>2, <2>2
  <2>4. Parity(i - 1) \in Int
    OBVIOUS
  <2> HIDE DEF Parity
  <2>5. Parity(i) = Parity(i - 1) * h[i - 1]
    BY <2>3, <2>4, <1>4
  <2>6. QED
    BY <2>5 DEF Parity, Negative
<1>5. CASE h[i - 1] = 1
  <2>1. Negative(i) = Negative(i - 1)
    BY <1>1, <1>5
  <2>2. Parity(i) = Parity(i - 1) /\ Parity(i - 1) \in Int
    <3> HIDE DEF Negative
    <3>1. QED
      BY <2>1
  <2> HIDE DEF Parity
  <2>3. Parity(i) = Parity(i - 1) * h[i - 1]
    BY <2>2, <1>5
  <2>4. QED
    BY <2>3 DEF Parity, Negative
<1>6. QED
  BY <1>1, <1>4, <1>5 DEF Spin

(* The product that ComputeTPMResult accumulates unit by unit is the parity *)
(* of its negative units (TreeParityMachine.cpp:26-33).                    *)
THEOREM ProductIsParity ==
    ASSUME NEW w, NEW x
    PROVE  LET product[i \in 0 .. K] ==
                   IF i = 0 THEN 1
                   ELSE product[i - 1] * Signum(LocalField(w, x, i - 1))
           IN  TPMOutput(HiddenOutputs(w, x)) = product[K]
<1> DEFINE h == HiddenOutputs(w, x)
           Negative(n) == {j \in 0 .. n - 1 : h[j] = -1}
           Parity(n) == IF Cardinality(Negative(n)) % 2 = 0 THEN 1 ELSE -1
           s == [i \in 0 .. K |-> Parity(i)]
           g == CHOOSE product : product = [i \in 0 .. K |->
                   IF i = 0 THEN 1
                   ELSE product[i - 1] * Signum(LocalField(w, x, i - 1))]
<1>1. K \in Nat /\ h \in Outputs
  BY TPMAssumption, HiddenType
<1>2. \A i \in 1 .. K : h[i - 1] = Signum(LocalField(w, x, i - 1))
  <2>1. \A i \in 1 .. K : i - 1 \in Hidden
    BY <1>1 DEF Hidden
  <2>2. QED
    BY <2>1 DEF HiddenOutputs
<1>3. Parity(0) = 1
  <2>1. Negative(0) = {}
    OBVIOUS
  <2>2. Cardinality(Negative(0)) = 0
    BY <2>1, FS_EmptySet
  <2> HIDE DEF Negative
  <2>3. QED
    BY <2>2
<1>4. \A i \in 1 .. K : Parity(i) = Parity(i - 1) * Signum(LocalField(w, x, i - 1))
  <2>1. \A i \in 1 .. K : Parity(i) = Parity(i - 1) * h[i - 1]
    <3> HIDE DEF h
    <3>1. QED
      BY <1>1, ParityStep
  <2> HIDE DEF h, Parity
  <2>2. QED
    BY <1>2, <2>1
<1> HIDE DEF h, Parity
<1>5. s = [i \in 0 .. K |-> IF i = 0 THEN 1
                            ELSE s[i - 1] * Signum(LocalField(w, x, i - 1))]
  <2>1. \A i \in 1 .. K : i - 1 \in 0 .. K
    BY <1>1
  <2>2. QED
    BY <1>3, <1>4, <2>1
<1>6. g = [i \in 0 .. K |-> IF i = 0 THEN 1
                            ELSE g[i - 1] * Signum(LocalField(w, x, i - 1))]
  <2> HIDE DEF s
  <2>1. QED
    BY <1>5, Zenon
<1> HIDE DEF g
<1>7. K \in {i \in 0 .. K : g[i] = Parity(i)}
  <2> DEFINE S == {i \in 0 .. K : g[i] = Parity(i)}
  <2>1. 0 \in S
    BY <1>1, <1>3, <1>6
  <2>2. \A i \in 1 .. K : i - 1 \in S => i \in S
    BY <1>1, <1>4, <1>6
  <2> HIDE DEF S
  <2>3. 0 .. K \subseteq S
    BY <1>1, <2>1, <2>2, UptoInduction
  <2>4. QED
    BY <2>3, <1>1 DEF S
<1>8. TPMOutput(h) = Parity(K)
  BY DEF TPMOutput, Parity, Hidden
<1>9. TPMOutput(h) = g[K]
  BY <1>7, <1>8
<1>10. QED
  BY <1>9, Zenon DEF g, h
=============================================================================

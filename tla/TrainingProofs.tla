--------------------------- MODULE TrainingProofs ---------------------------
(***************************************************************************)
(* What Training states, for every K, N and L: by induction over the       *)
(* pieces of a text, the characters a reader takes and the turns of        *)
(* gen_key's loop.                                                         *)
(***************************************************************************)
EXTENDS Training, TreeParityMachineProofs, SequenceTheorems

LEMMA Sizes == K \in Nat \ {0} /\ N \in Nat \ {0} /\ L \in Nat \ {0} /\ K * N \in Nat
  BY TPMAssumption

-----------------------------------------------------------------------------
(* Texts.                                                                   *)

(* A stream grows piece by piece. *)
ArePieces(pieces, C, n) == \A c \in 0 .. n - 1 : pieces[c] \in Seq(C)
AreTexts(s, pieces, C, n) ==
    /\ s \in [0 .. n -> Seq(C)]
    /\ s[0] = <<>>
    /\ \A c \in 1 .. n : s[c] = s[c - 1] \o pieces[c - 1]
    /\ Joined(pieces, n) = s[n]

LEMMA JoinedSteps ==
    ASSUME NEW C, NEW n \in Nat, NEW pieces, ArePieces(pieces, C, n)
    PROVE  \E s : AreTexts(s, pieces, C, n)
<1> DEFINE F == [p \in Seq(C) \X (1 .. n) |-> p[1] \o pieces[p[2] - 1]]
           g == CHOOSE text : text = [c \in 0 .. n |->
                   IF c = 0 THEN <<>> ELSE text[c - 1] \o pieces[c - 1]]
<1>1. \A c \in 1 .. n : c - 1 \in 0 .. n - 1 /\ c - 1 \in 0 .. n
  OBVIOUS
<1>2. IsStep(F, Seq(C), n)
  <2>1. \A t \in Seq(C), c \in 1 .. n : t \o pieces[c - 1] \in Seq(C)
    BY <1>1, ConcatProperties DEF ArePieces
  <2>2. QED
    BY <2>1 DEF IsStep
<1>3. PICK s : IsIteration(s, F, Seq(C), <<>>, n)
  <2> HIDE DEF F
  <2>1. <<>> \in Seq(C)
    BY EmptySeq
  <2>2. QED
    BY <1>2, <2>1, Iterates, Zenon
<1>4. s \in [0 .. n -> Seq(C)] /\ s[0] = <<>>
  BY <1>3 DEF IsIteration
<1>5. \A c \in 1 .. n : s[c] = s[c - 1] \o pieces[c - 1]
  <2>1. ASSUME NEW c \in 1 .. n PROVE s[c] = s[c - 1] \o pieces[c - 1]
    <3>1. s[c - 1] \in Seq(C)
      BY <1>1, <1>4
    <3>2. F[<<s[c - 1], c>>] = s[c - 1] \o pieces[c - 1]
      BY <3>1
    <3> HIDE DEF F
    <3>3. QED
      BY <1>3, <3>2 DEF IsIteration
  <2>2. QED
    BY <2>1
<1>6. s = [c \in 0 .. n |-> IF c = 0 THEN <<>> ELSE s[c - 1] \o pieces[c - 1]]
  <2>1. s = [c \in 0 .. n |-> s[c]]
    BY <1>4
  <2>2. \A c \in 0 .. n : c # 0 => c \in 1 .. n
    OBVIOUS
  <2>3. \A c \in 0 .. n : s[c] = IF c = 0 THEN <<>> ELSE s[c - 1] \o pieces[c - 1]
    BY <1>4, <1>5, <2>2, Zenon
  <2>4. QED
    BY <2>1, <2>3, Zenon
<1>7. g = [c \in 0 .. n |-> IF c = 0 THEN <<>> ELSE g[c - 1] \o pieces[c - 1]]
  BY <1>6, Zenon
<1>8. Joined(pieces, n) = g[n]
  BY Zenon DEF Joined
<1> HIDE DEF g, F
<1>9. \A c \in 0 .. n : g[c] = s[c]
  <2> DEFINE S == {c \in 0 .. n : g[c] = s[c]}
  <2>1. 0 \in S
    BY <1>4, <1>7
  <2>2. ASSUME NEW c \in 1 .. n, c - 1 \in S PROVE c \in S
    <3>1. g[c] = g[c - 1] \o pieces[c - 1]
      <4>1. c \in 0 .. n /\ c # 0
        OBVIOUS
      <4>2. QED
        BY <1>7, <4>1, Zenon
    <3>2. g[c - 1] = s[c - 1]
      BY <2>2
    <3>3. g[c] = s[c]
      BY <1>5, <3>1, <3>2, Zenon
    <3>4. QED
      BY <3>3
  <2> HIDE DEF S
  <2>3. 0 .. n \subseteq S
    BY <2>1, <2>2, UptoInduction
  <2>4. QED
    BY <2>3 DEF S
<1>10. Joined(pieces, n) = s[n]
  BY <1>8, <1>9
<1>11. QED
  BY <1>4, <1>5, <1>10 DEF AreTexts

(* While a weight takes one digit, the text of a key is the weights, one    *)
(* character each.                                                          *)
LEMMA KeyText ==
    ASSUME L <= 4, NEW v \in Weights
    PROVE  GetKey(v) = [i \in 1 .. K * N |-> v[i - 1] + L]
<1> DEFINE n == K * N
           pieces == [c \in Cell |-> Digits(v[c] + L)]
<1>1. n \in Nat
  BY Sizes
<1>2. ASSUME NEW c \in 0 .. n - 1
      PROVE  v[c] + L \in Nat /\ pieces[c] = <<v[c] + L>>
  <2>1. c \in Cell /\ v[c] \in -L .. L
    BY <1>1 DEF Weights, Cell
  <2>2. v[c] + L \in Nat /\ v[c] + L < 10
    BY <2>1, Sizes
  <2>3. QED
    BY <2>1, <2>2 DEF Digits
<1>3. PICK s : AreTexts(s, pieces, Nat, n)
  <2>1. ArePieces(pieces, Nat, n)
    <3>1. ASSUME NEW c \in 0 .. n - 1 PROVE pieces[c] \in Seq(Nat)
      <4>1. v[c] + L \in Nat /\ pieces[c] = <<v[c] + L>>
        BY <1>2
      <4> HIDE DEF pieces
      <4>2. QED
        BY <4>1
    <3>2. QED
      BY <3>1 DEF ArePieces
  <2> HIDE DEF pieces, n
  <2>2. QED
    BY <1>1, <2>1, JoinedSteps, Zenon
<1> DEFINE S == {c \in 0 .. n : s[c] = [i \in 1 .. c |-> v[i - 1] + L]}
<1>4. 0 \in S
  <2>1. [i \in 1 .. 0 |-> v[i - 1] + L] = <<>>
    OBVIOUS
  <2>2. 0 \in 0 .. n
    BY <1>1
  <2>3. QED
    BY <1>3, <2>1, <2>2 DEF AreTexts
<1>5. ASSUME NEW c \in 1 .. n, c - 1 \in S PROVE c \in S
  <2>1. c - 1 \in 0 .. n - 1 /\ c \in 0 .. n /\ c \in Nat
    BY <1>1
  <2>2. s[c] = s[c - 1] \o <<v[c - 1] + L>>
    BY <1>2, <1>3, <2>1 DEF AreTexts
  <2>3. s[c - 1] = [i \in 1 .. c - 1 |-> v[i - 1] + L]
    BY <1>5
  <2>4. \A i \in 1 .. c : v[i - 1] + L \in Nat
    <3>1. \A i \in 1 .. c : i - 1 \in 0 .. n - 1
      <4> HIDE DEF n
      <4>1. QED
        BY <1>1
    <3>2. QED
      BY <1>2, <3>1, Zenon
  <2>5. [i \in 1 .. c - 1 |-> v[i - 1] + L] \o <<v[c - 1] + L>>
           = [i \in 1 .. c |-> v[i - 1] + L]
    BY <2>1, <2>4
  <2>6. QED
    BY <2>1, <2>2, <2>3, <2>5
<1>6. n \in S
  <2> HIDE DEF S, n
  <2>1. 0 .. n \subseteq S
    BY <1>1, <1>4, <1>5, UptoInduction
  <2>2. QED
    BY <1>1, <2>1
<1>7. QED
  BY <1>3, <1>6 DEF GetKey, AreTexts

LEMMA ConcatKeeps ==
    ASSUME NEW C, NEW a \in Seq(C), NEW b \in Seq(C)
    PROVE  /\ Len(a) <= Len(a \o b)
           /\ \A p \in 1 .. Len(a) : (a \o b)[p] = a[p]
  BY LenProperties, ConcatProperties

(* What is in a stream stays as it is when more is put into it. *)
StayInText(s, C, n) ==
    \A c \in 0 .. n : /\ s[c] \in Seq(C) /\ Len(s[c]) \in Nat
                      /\ Len(s[c]) <= Len(s[n])
                      /\ \A p \in 1 .. Len(s[c]) : s[n][p] = s[c][p]

LEMMA TextsArePrefixes ==
    ASSUME NEW C, NEW n \in Nat, NEW pieces, NEW s,
           ArePieces(pieces, C, n), AreTexts(s, pieces, C, n)
    PROVE  StayInText(s, C, n)
<1> DEFINE Before(c, d) == /\ Len(s[c]) <= Len(s[d])
                           /\ \A p \in 1 .. Len(s[c]) : s[d][p] = s[c][p]
           S == {d \in 0 .. n : \A c \in 0 .. d : Before(c, d)}
<1>1. \A c \in 0 .. n : s[c] \in Seq(C) /\ Len(s[c]) \in Nat
  <2>1. \A c \in 0 .. n : s[c] \in Seq(C)
    BY DEF AreTexts
  <2>2. QED
    BY <2>1, LenProperties
<1>2. 0 \in S
  <2>1. \A c \in 0 .. 0 : Before(c, 0)
    <3>1. \A c \in 0 .. 0 : c = 0
      OBVIOUS
    <3>2. Before(0, 0)
      BY <1>1
    <3> HIDE DEF Before
    <3>3. QED
      BY <3>1, <3>2, Zenon
  <2>2. QED
    BY <2>1
<1>3. ASSUME NEW d \in 1 .. n, d - 1 \in S PROVE d \in S
  <2>1. d - 1 \in 0 .. n - 1 /\ d - 1 \in 0 .. n /\ d \in 0 .. n
    OBVIOUS
  <2>2. /\ s[d] = s[d - 1] \o pieces[d - 1]
        /\ pieces[d - 1] \in Seq(C)
    BY <2>1 DEF AreTexts, ArePieces
  <2>3. Before(d - 1, d)
    <3>1. s[d - 1] \in Seq(C)
      BY <1>1, <2>1
    <3> DEFINE t == s[d - 1] \o pieces[d - 1]
    <3>2. /\ Len(s[d - 1]) <= Len(t)
          /\ \A p \in 1 .. Len(s[d - 1]) : t[p] = s[d - 1][p]
      BY <2>2, <3>1, ConcatKeeps
    <3>3. s[d] = t
      BY <2>2
    <3> HIDE DEF t
    <3>4. QED
      BY <3>2, <3>3, Zenon
  <2>4. ASSUME NEW c \in 0 .. d PROVE Before(c, d)
    <3>1. CASE c = d
      <4>1. Before(d, d)
        BY <1>1, <2>1
      <4>2. QED
        BY <3>1, <4>1
    <3>2. CASE c # d
      <4>1. c \in 0 .. d - 1 /\ c \in 0 .. n
        BY <3>2
      <4>2. Before(c, d - 1)
        BY <1>3, <4>1
      <4>3. Len(s[c]) \in Nat /\ Len(s[d - 1]) \in Nat /\ Len(s[d]) \in Nat
        BY <1>1, <2>1, <4>1
      <4>4. QED
        BY <2>3, <4>2, <4>3
    <3>3. QED
      BY <3>1, <3>2
  <2>5. QED
    BY <2>1, <2>4
<1>4. n \in S
  <2> HIDE DEF S
  <2>1. 0 .. n \subseteq S
    BY <1>2, <1>3, UptoInduction
  <2>2. QED
    BY <2>1
<1>5. QED
  BY <1>1, <1>4 DEF StayInText

-----------------------------------------------------------------------------
(* Reading.                                                                 *)

ReadState == [skip : BOOLEAN, x : Seq(Spin)]
IsReading(r, text) ==
    /\ r \in [0 .. Len(text) -> ReadState]
    /\ r[0] = [skip |-> FALSE, x |-> <<>>]
    /\ \A p \in 1 .. Len(text) : r[p] = Reading(r[p - 1], text[p])
    /\ ReadVector(text) = [c \in Cell |-> r[Len(text)].x[c + 1]]

LEMMA ReadingType ==
    ASSUME NEW done \in ReadState, NEW c PROVE Reading(done, c) \in ReadState
<1>1. /\ done = [skip |-> done.skip, x |-> done.x]
      /\ done.skip \in BOOLEAN /\ done.x \in Seq(Spin)
  BY DEF ReadState
<1>2. CASE done.skip
  <2>1. Reading(done, c) = [skip |-> FALSE, x |-> done.x]
    BY <1>1, <1>2 DEF Reading
  <2>2. QED
    BY <1>1, <2>1 DEF ReadState
<1>3. CASE ~done.skip
  <2> DEFINE spin == IF c = "-" THEN -1 ELSE 1
  <2>1. spin \in Spin
    BY DEF Spin
  <2>2. Reading(done, c) = [skip |-> c = "-", x |-> Append(done.x, spin)]
    BY <1>3 DEF Reading
  <2> HIDE DEF spin
  <2>3. Append(done.x, spin) \in Seq(Spin) /\ (c = "-") \in BOOLEAN
    BY <1>1, <2>1, AppendProperties
  <2>4. QED
    BY <2>2, <2>3 DEF ReadState
<1>4. QED
  BY <1>1, <1>2, <1>3

(* set_from_string goes character by character. *)
LEMMA ReadSteps ==
    ASSUME NEW text, Len(text) \in Nat
    PROVE  \E r : IsReading(r, text)
<1> DEFINE n == Len(text)
           start == [skip |-> FALSE, x |-> <<>>]
           F == [p \in ReadState \X (1 .. n) |-> Reading(p[1], text[p[2]])]
           g == CHOOSE read : read = [p \in 0 .. Len(text) |->
                   IF p = 0 THEN [skip |-> FALSE, x |-> <<>>]
                   ELSE Reading(read[p - 1], text[p])]
<1>1. n \in Nat /\ start \in ReadState
  BY DEF ReadState
<1>2. IsStep(F, ReadState, n)
  <2> HIDE DEF n
  <2>1. QED
    BY ReadingType DEF IsStep
<1>3. PICK r : IsIteration(r, F, ReadState, start, n)
  <2> HIDE DEF F, n, start
  <2>1. QED
    BY <1>1, <1>2, Iterates, Zenon
<1>4. r \in [0 .. n -> ReadState] /\ r[0] = start
  BY <1>3 DEF IsIteration
<1>5. ASSUME NEW p \in 1 .. n PROVE r[p] = Reading(r[p - 1], text[p])
  <2>1. r[p - 1] \in ReadState
    <3> HIDE DEF n
    <3>1. p - 1 \in 0 .. n
      BY <1>1
    <3>2. QED
      BY <1>4, <3>1
  <2>2. F[<<r[p - 1], p>>] = Reading(r[p - 1], text[p])
    BY <2>1
  <2> HIDE DEF F
  <2>3. QED
    BY <1>3, <2>2 DEF IsIteration
<1>6. r = [p \in 0 .. Len(text) |-> IF p = 0 THEN [skip |-> FALSE, x |-> <<>>]
                                   ELSE Reading(r[p - 1], text[p])]
  <2>1. r = [p \in 0 .. Len(text) |-> r[p]]
    BY <1>4
  <2>2. \A p \in 0 .. Len(text) : p # 0 => p \in 1 .. n
    BY <1>1
  <2>3. \A p \in 0 .. Len(text) : r[p] = IF p = 0 THEN [skip |-> FALSE, x |-> <<>>]
                                        ELSE Reading(r[p - 1], text[p])
    BY <1>4, <1>5, <2>2, Zenon
  <2>4. QED
    BY <2>1, <2>3, Zenon
<1>7. g = [p \in 0 .. Len(text) |-> IF p = 0 THEN [skip |-> FALSE, x |-> <<>>]
                                   ELSE Reading(g[p - 1], text[p])]
  BY <1>6, Zenon
<1>8. ReadVector(text) = [c \in Cell |-> g[Len(text)].x[c + 1]]
  BY Zenon DEF ReadVector
<1> HIDE DEF g, F
<1>9. g[n] = r[n]
  <2> DEFINE S == {p \in 0 .. n : g[p] = r[p]}
  <2>1. 0 \in S
    BY <1>1, <1>4, <1>7
  <2>2. ASSUME NEW p \in 1 .. n, p - 1 \in S PROVE p \in S
    <3>1. p \in 0 .. Len(text) /\ p # 0
      BY <1>1
    <3>2. g[p] = Reading(g[p - 1], text[p])
      BY <1>7, <3>1, Zenon
    <3>3. g[p - 1] = r[p - 1]
      BY <2>2
    <3>4. g[p] = r[p]
      BY <1>5, <3>2, <3>3, Zenon
    <3>5. QED
      BY <3>1, <3>4
  <2> HIDE DEF S
  <2>3. 0 .. n \subseteq S
    BY <1>1, <2>1, <2>2, UptoInduction
  <2>4. QED
    BY <1>1, <2>3 DEF S
<1>10. ReadVector(text) = [c \in Cell |-> r[Len(text)].x[c + 1]]
  BY <1>8, <1>9
<1>11. QED
  BY <1>4, <1>5, <1>10 DEF IsReading

-----------------------------------------------------------------------------
(* A vector's way through the text of a message.                            *)

LEMMA ReadingCharacters ==
    ASSUME NEW v
    PROVE  /\ Reading([skip |-> FALSE, x |-> v], "-") = [skip |-> TRUE, x |-> Append(v, -1)]
           /\ Reading([skip |-> FALSE, x |-> v], "1") = [skip |-> FALSE, x |-> Append(v, 1)]
           /\ \A c : Reading([skip |-> TRUE, x |-> v], c) = [skip |-> FALSE, x |-> v]
  BY DEF Reading

(* set_from_string reads back what to_string wrote: having read the pieces  *)
(* of the first cells, it has their values and is at the start of a piece.  *)
THEOREM VectorSurvivesWire ==
    ASSUME NEW y \in Vectors PROVE ReadVector(WriteVector(y)) = y
<1> DEFINE C == {"-", "1"}
           n == K * N
           pieces == [c \in Cell |-> Spelled(y[c])]
           text == WriteVector(y)
           Values(c) == [i \in 1 .. c |-> y[i - 1]]
<1>1. n \in Nat /\ Cell = 0 .. n - 1
  BY Sizes DEF Cell
<1>2. ASSUME NEW c \in 0 .. n - 1
      PROVE  /\ y[c] \in Spin
             /\ y[c] = -1 => pieces[c] = <<"-", "1">>
             /\ y[c] = 1 => pieces[c] = <<"1">>
  BY <1>1 DEF Vectors, Spelled
<1>3. ArePieces(pieces, C, n)
  <2>1. ASSUME NEW c \in 0 .. n - 1 PROVE pieces[c] \in Seq(C)
    <3>1. pieces[c] = <<"-", "1">> \/ pieces[c] = <<"1">>
      BY <1>2 DEF Spin
    <3>2. <<"-", "1">> \in Seq(C) /\ <<"1">> \in Seq(C)
      OBVIOUS
    <3> HIDE DEF pieces, C
    <3>3. QED
      BY <3>1, <3>2
  <2> HIDE DEF pieces, C
  <2>2. QED
    BY <2>1 DEF ArePieces
<1> HIDE DEF pieces, C
<1>4. PICK s : AreTexts(s, pieces, C, n)
  <2> HIDE DEF n
  <2>1. QED
    BY <1>1, <1>3, JoinedSteps, Zenon
<1>5. text = s[n]
  BY <1>4 DEF WriteVector, AreTexts, pieces
<1>6. \A c \in 0 .. n : /\ s[c] \in Seq(C) /\ Len(s[c]) \in Nat
                        /\ Len(s[c]) <= Len(text)
                        /\ \A p \in 1 .. Len(s[c]) : text[p] = s[c][p]
  <2>1. StayInText(s, C, n)
    <3> HIDE DEF n
    <3>1. QED
      BY <1>1, <1>3, <1>4, TextsArePrefixes, Zenon
  <2>2. QED
    BY <1>5, <2>1, Zenon DEF StayInText
<1> HIDE DEF text
<1>7. Len(text) \in Nat
  <2>1. n \in 0 .. n
    BY <1>1
  <2>2. QED
    BY <1>5, <1>6, <2>1, Zenon
<1>8. PICK r : IsReading(r, text)
  BY <1>7, ReadSteps
<1> DEFINE Done(c) == r[Len(s[c])] = [skip |-> FALSE, x |-> Values(c)]
           S == {c \in 0 .. n : Done(c)}
<1>9. 0 \in S
  <2>1. Len(s[0]) = 0
    <3>1. s[0] = <<>>
      BY <1>4 DEF AreTexts
    <3>2. QED
      BY <3>1
  <2>2. Values(0) = <<>>
    OBVIOUS
  <2>3. r[0] = [skip |-> FALSE, x |-> <<>>]
    BY <1>8 DEF IsReading
  <2> HIDE DEF Values
  <2>4. Done(0)
    BY <2>1, <2>2, <2>3
  <2>5. QED
    BY <1>1, <2>4
<1>10. ASSUME NEW c \in 1 .. n, c - 1 \in S PROVE c \in S
  <2> DEFINE q == Len(s[c - 1])
  <2>1. /\ c - 1 \in 0 .. n - 1 /\ c - 1 \in 0 .. n /\ c \in 0 .. n
        /\ c - 1 \in Nat
    <3> HIDE DEF n
    <3>1. QED
      BY <1>1
  <2>2. r[q] = [skip |-> FALSE, x |-> Values(c - 1)]
    BY <1>10
  <2>3. /\ s[c] = s[c - 1] \o pieces[c - 1]
        /\ q \in Nat /\ s[c - 1] \in Seq(C) /\ s[c] \in Seq(C)
    BY <1>4, <1>6, <2>1 DEF AreTexts
  <2>4. \A p \in 1 .. Len(text) : r[p] = Reading(r[p - 1], text[p])
    BY <1>8 DEF IsReading
  <2>5. Len(s[c]) <= Len(text) /\ \A p \in 1 .. Len(s[c]) : text[p] = s[c][p]
    BY <1>6, <2>1
  <2>6. \A v \in Spin : y[c - 1] = v => Append(Values(c - 1), v) = Values(c)
    <3>1. \A i \in 1 .. c : y[i - 1] \in Spin
      <4>1. \A i \in 1 .. c : i - 1 \in 0 .. n - 1
        <5> HIDE DEF n
        <5>1. QED
          BY <1>1
      <4>2. QED
        BY <1>2, <4>1
    <3>2. Values(c - 1) \in Seq(Spin) /\ Len(Values(c - 1)) = c - 1
      BY <2>1, <3>1
    <3>3. QED
      BY <2>1, <3>1
  <2>7. CASE y[c - 1] = -1
    <3>1. pieces[c - 1] = <<"-", "1">>
      BY <1>2, <2>1, <2>7
    <3>2. /\ Len(s[c]) = q + 2 /\ s[c][q + 1] = "-"
      BY <2>3, <3>1
    <3> HIDE DEF q
    <3>3. text[q + 1] = "-" /\ q + 1 \in 1 .. Len(text) /\ q + 2 \in 1 .. Len(text)
      <4> DEFINE m == Len(s[c])
                 k == Len(text)
      <4>1. m <= k /\ k \in Nat /\ q \in Nat /\ m = q + 2
        BY <1>7, <2>3, <2>5, <3>2, Zenon
      <4>2. \A p \in 1 .. m : text[p] = s[c][p]
        BY <2>5, Zenon
      <4> HIDE DEF m, k
      <4>3. q + 1 \in 1 .. m /\ q + 1 \in 1 .. k /\ m \in 1 .. k
        BY <4>1
      <4>4. text[q + 1] = "-"
        BY <3>2, <4>2, <4>3, Zenon
      <4>5. QED
        BY <4>1, <4>3, <4>4 DEF k
    <3> HIDE DEF Values
    <3>4. r[q + 1] = [skip |-> TRUE, x |-> Values(c)]
      <4>1. r[q + 1] = Reading(r[q], "-")
        BY <2>3, <2>4, <3>3
      <4>2. Reading(r[q], "-") = [skip |-> TRUE, x |-> Append(Values(c - 1), -1)]
        BY <2>2, ReadingCharacters
      <4>3. QED
        BY <4>1, <4>2, <2>6, <2>7 DEF Spin
    <3>5. r[q + 2] = [skip |-> FALSE, x |-> Values(c)]
      <4>1. r[q + 2] = Reading(r[q + 1], text[q + 2])
        BY <2>3, <2>4, <3>3
      <4>2. QED
        BY <3>4, <4>1, ReadingCharacters
    <3>6. QED
      BY <2>1, <3>2, <3>5
  <2>8. CASE y[c - 1] = 1
    <3>1. pieces[c - 1] = <<"1">>
      BY <1>2, <2>1, <2>8
    <3>2. Len(s[c]) = q + 1 /\ s[c][q + 1] = "1"
      BY <2>3, <3>1
    <3> HIDE DEF q
    <3>3. text[q + 1] = "1" /\ q + 1 \in 1 .. Len(text)
      <4> DEFINE m == Len(s[c])
                 k == Len(text)
      <4>1. m <= k /\ k \in Nat /\ q \in Nat /\ m = q + 1
        BY <1>7, <2>3, <2>5, <3>2, Zenon
      <4>2. \A p \in 1 .. m : text[p] = s[c][p]
        BY <2>5, Zenon
      <4> HIDE DEF m, k
      <4>3. q + 1 \in 1 .. m /\ q + 1 \in 1 .. k /\ m \in 1 .. k
        BY <4>1
      <4>4. text[q + 1] = "1"
        BY <3>2, <4>2, <4>3, Zenon
      <4>5. QED
        BY <4>1, <4>3, <4>4 DEF k
    <3> HIDE DEF Values
    <3>4. r[q + 1] = Reading(r[q], "1")
      BY <2>3, <2>4, <3>3
    <3>5. Reading(r[q], "1") = [skip |-> FALSE, x |-> Append(Values(c - 1), 1)]
      BY <2>2, ReadingCharacters
    <3>6. r[q + 1] = [skip |-> FALSE, x |-> Values(c)]
      BY <3>4, <3>5, <2>6, <2>8 DEF Spin
    <3>7. QED
      BY <2>1, <3>2, <3>6
  <2>9. QED
    BY <1>2, <2>1, <2>7, <2>8 DEF Spin
<1>11. Done(n)
  <2> HIDE DEF S, n
  <2>1. 0 .. n \subseteq S
    BY <1>1, <1>9, <1>10, UptoInduction
  <2>2. n \in S
    BY <1>1, <2>1
  <2>3. QED
    BY <2>2 DEF S
<1>12. r[Len(text)].x = Values(n)
  BY <1>5, <1>11
<1>13. ReadVector(text) = [c \in Cell |-> y[c]]
  <2>1. ReadVector(text) = [c \in Cell |-> Values(n)[c + 1]]
    BY <1>8, <1>12 DEF IsReading
  <2>2. \A c \in Cell : Values(n)[c + 1] = y[c]
    BY <1>1
  <2>3. QED
    BY <2>1, <2>2
<1>14. y = [c \in Cell |-> y[c]]
  BY DEF Vectors
<1>15. QED
  BY <1>13, <1>14 DEF text

-----------------------------------------------------------------------------
(* gen_key.  The text has n characters, all small (a digit each), and the   *)
(* loop starts over once.                                                   *)

StartsOverOnce(n, max) == /\ max \in Nat \ {0} /\ n \in Nat
                          /\ max < n - 1 - max
                          /\ n - 1 - max <= 2 * max

(* What the loop has added to the character at q (counted from 1) after i   *)
(* turns, while it goes over the front for the first time or the second.   *)
Twice(q, i, max) == q >= 2 /\ q - 1 + max < i
Mixed(text, n, max, i) ==
    [q \in 1 .. n |->
        IF q <= max + 1 /\ q - 1 < i
        THEN text[q] + text[n + 1 - q]
                + (IF Twice(q, i, max) THEN text[n + 1 - q - max] ELSE 0)
        ELSE text[q]]
FirstAt(i, max) == IF i <= max THEN i ELSE i - max
StateAt(text, n, max, i) == [key   |-> Mixed(text, n, max, i),
                             first |-> FirstAt(i, max),
                             last  |-> n - 1 - i]

LEMMA NoWrap == ASSUME NEW u \in 0 .. 18, NEW v \in 0 .. 9 PROVE (u + v) % 256 = u + v
  OBVIOUS

(* One turn of the loop. *)
LEMMA MixedStep ==
    ASSUME NEW n, NEW max, StartsOverOnce(n, max), NEW text \in [1 .. n -> 0 .. 9],
           NEW i \in 1 .. n - 1 - max
    PROVE  AddLast(StateAt(text, n, max, i - 1), max) = StateAt(text, n, max, i)
<1> DEFINE old == Mixed(text, n, max, i - 1)
           new == Mixed(text, n, max, i)
           f   == FirstAt(i - 1, max)
           a   == f + 1
           b   == n + 1 - i
<1>1. /\ max \in Nat /\ max >= 1 /\ n \in Nat /\ i \in Nat
      /\ i - 1 \in Nat /\ i >= 1
      /\ i <= n - 1 - max /\ i <= 2 * max
  BY DEF StartsOverOnce
<1>2. \A q \in 1 .. n : text[q] \in 0 .. 9
  OBVIOUS
<1>3. /\ a \in 1 .. n /\ a <= max + 1
      /\ b \in 1 .. n /\ b > max + 1
      /\ (n - 1 - (i - 1)) + 1 = b
  BY <1>1 DEF FirstAt
<1>4. old[b] = text[b]
  BY <1>1, <1>3 DEF Mixed
<1>5. old[a] \in 0 .. 18 /\ new[a] = old[a] + text[b]
  <2>1. CASE i - 1 <= max
    <3>1. a = i /\ n + 1 - a = b
      BY <1>1, <2>1 DEF FirstAt
    <3>2. ~Twice(a, i, max)
      BY <1>1, <3>1 DEF Twice
    <3>3. old[a] = text[a]
      BY <1>1, <1>3, <3>1 DEF Mixed
    <3>4. new[a] = text[a] + text[b]
      <4>1. new[a] = text[a] + text[n + 1 - a]
                        + (IF Twice(a, i, max) THEN text[n + 1 - a - max] ELSE 0)
        BY <1>1, <1>3, <3>1 DEF Mixed
      <4>2. text[a] \in Int /\ text[b] \in Int
        BY <1>2, <1>3
      <4>3. QED
        BY <3>1, <3>2, <4>1, <4>2
    <3>5. QED
      BY <1>2, <1>3, <3>3, <3>4
  <2>2. CASE i - 1 > max
    <3>1. a = i - max /\ a >= 2 /\ n + 1 - a - max = b /\ n + 1 - a \in 1 .. n
      BY <1>1, <1>3, <2>2 DEF FirstAt
    <3>2. Twice(a, i, max) /\ ~Twice(a, i - 1, max)
      BY <1>1, <3>1 DEF Twice
    <3>3. old[a] = text[a] + text[n + 1 - a]
      <4>1. old[a] = text[a] + text[n + 1 - a]
                        + (IF Twice(a, i - 1, max) THEN text[n + 1 - a - max] ELSE 0)
        BY <1>1, <1>3, <3>1 DEF Mixed
      <4>2. text[a] \in Int /\ text[n + 1 - a] \in Int
        BY <1>2, <1>3, <3>1
      <4>3. QED
        BY <3>2, <4>1, <4>2
    <3>4. new[a] = text[a] + text[n + 1 - a] + text[b]
      <4>1. new[a] = text[a] + text[n + 1 - a]
                        + (IF Twice(a, i, max) THEN text[n + 1 - a - max] ELSE 0)
        BY <1>1, <1>3, <3>1 DEF Mixed
      <4>2. QED
        BY <3>1, <3>2, <4>1
    <3>5. text[a] \in 0 .. 9 /\ text[n + 1 - a] \in 0 .. 9
      BY <1>2, <1>3, <3>1
    <3>6. text[b] \in 0 .. 9
      BY <1>2, <1>3
    <3> HIDE DEF old, new, a, b
    <3>7. old[a] \in 0 .. 18
      BY <1>1, <1>3, <3>1, <3>3, <3>5
    <3>8. new[a] = old[a] + text[b]
      BY <3>3, <3>4
    <3>9. QED
      BY <3>7, <3>8
  <2>3. QED
    BY <1>1, <2>1, <2>2
<1>6. \A q \in 1 .. n : q # a => new[q] = old[q]
  <2>1. SUFFICES ASSUME NEW q \in 1 .. n, q # a PROVE new[q] = old[q]
    OBVIOUS
  <2>2. CASE i - 1 <= max
    <3>1. q # i
      BY <1>1, <2>1, <2>2 DEF FirstAt
    <3>2. ~Twice(q, i, max) /\ ~Twice(q, i - 1, max)
      BY <1>1, <2>2 DEF Twice
    <3>3. q - 1 < i <=> q - 1 < i - 1
      BY <1>1, <3>1
    <3>4. QED
      BY <3>2, <3>3 DEF Mixed
  <2>3. CASE i - 1 > max
    <3>1. q # i - max
      BY <1>1, <2>1, <2>3 DEF FirstAt
    <3>2. Twice(q, i, max) <=> Twice(q, i - 1, max)
      BY <1>1, <3>1 DEF Twice
    <3>3. q <= max + 1 => (q - 1 < i /\ q - 1 < i - 1)
      BY <1>1, <2>3
    <3>4. QED
      BY <3>2, <3>3 DEF Mixed
  <2>4. QED
    BY <1>1, <2>2, <2>3
<1>7. [old EXCEPT ![a] = (old[a] + old[b]) % 256] = new
  <2>1. (old[a] + old[b]) % 256 = new[a]
    <3>1. text[b] \in 0 .. 9
      BY <1>2, <1>3
    <3> HIDE DEF old, new, a, b
    <3>2. (old[a] + text[b]) % 256 = old[a] + text[b]
      BY <1>5, <3>1, NoWrap, Zenon
    <3>3. QED
      BY <1>4, <1>5, <3>2, Zenon
  <2>2. old = [q \in 1 .. n |-> old[q]] /\ new = [q \in 1 .. n |-> new[q]]
    BY DEF Mixed
  <2> HIDE DEF old, new, a, b
  <2>3. QED
    BY <1>3, <1>6, <2>1, <2>2
<1>8. NextFirst(f, max) = FirstAt(i, max)
  BY <1>1 DEF NextFirst, FirstAt
<1>9. n - 1 - (i - 1) - 1 = n - 1 - i
  BY <1>1
<1> DEFINE s == StateAt(text, n, max, i - 1)
<1>10. s.key = old /\ s.first = f /\ s.last = n - 1 - (i - 1)
  BY DEF StateAt
<1>11. AddLast(s, max) = [key   |-> [old EXCEPT ![a] = (old[a] + old[b]) % 256],
                          first |-> NextFirst(f, max),
                          last  |-> n - 1 - (i - 1) - 1]
  <2>1. s.first + 1 = a /\ s.last + 1 = b
    BY <1>3, <1>10
  <2> HIDE DEF s, old, a, b, f
  <2>2. QED
    BY <1>10, <2>1 DEF AddLast
<1>12. QED
  BY <1>7, <1>8, <1>9, <1>11 DEF StateAt

(* What is left of a text: the front, with what was added to it. *)
LEMMA GenKeyBytes ==
    ASSUME NEW n, NEW max, StartsOverOnce(n, max), NEW text \in Seq(0 .. 9),
           Len(text) = n
    PROVE  GenKey(text, max) = [q \in 1 .. max |-> Mixed(text, n, max, n - 1 - max)[q]]
<1> DEFINE ops == n - 1 - max
           start == [key |-> text, first |-> 0, last |-> Len(text) - 1]
           s == [i \in 0 .. ops |-> StateAt(text, n, max, i)]
           g == CHOOSE state : state = [i \in 0 .. Operations(text, max) |->
                   IF i = 0 THEN [key |-> text, first |-> 0, last |-> Len(text) - 1]
                   ELSE AddLast(state[i - 1], max)]
<1>1. max \in Nat /\ max >= 1 /\ n \in Nat /\ ops \in Nat /\ max < ops
  BY DEF StartsOverOnce
<1>2. Operations(text, max) = ops
  BY <1>1 DEF Operations
<1>3. text \in [1 .. n -> 0 .. 9]
  BY LenProperties
<1>4. StateAt(text, n, max, 0) = start
  <2>1. Mixed(text, n, max, 0) = text
    <3>1. \A q \in 1 .. n : ~(q - 1 < 0)
      OBVIOUS
    <3>2. Mixed(text, n, max, 0) = [q \in 1 .. n |-> text[q]]
      BY <3>1 DEF Mixed
    <3>3. QED
      BY <1>3, <3>2
  <2>2. FirstAt(0, max) = 0 /\ n - 1 - 0 = Len(text) - 1
    BY <1>1 DEF FirstAt
  <2>3. QED
    BY <2>1, <2>2 DEF StateAt
<1>5. \A i \in 1 .. ops : AddLast(StateAt(text, n, max, i - 1), max) = StateAt(text, n, max, i)
  BY <1>3, MixedStep
<1>6. s = [i \in 0 .. Operations(text, max) |->
              IF i = 0 THEN [key |-> text, first |-> 0, last |-> Len(text) - 1]
              ELSE AddLast(s[i - 1], max)]
  <2>1. ASSUME NEW i \in 0 .. ops
        PROVE  s[i] = IF i = 0 THEN start ELSE AddLast(s[i - 1], max)
    <3>1. CASE i = 0
      BY <1>4, <3>1
    <3>2. CASE i # 0
      <4>1. i \in 1 .. ops /\ i - 1 \in 0 .. ops
        BY <1>1, <3>2
      <4>2. s[i] = StateAt(text, n, max, i) /\ s[i - 1] = StateAt(text, n, max, i - 1)
        BY <4>1
      <4> HIDE DEF s
      <4>3. QED
        BY <1>5, <3>2, <4>1, <4>2
    <3>3. QED
      BY <3>1, <3>2
  <2>2. s = [i \in 0 .. ops |-> s[i]]
    OBVIOUS
  <2> HIDE DEF s
  <2>3. QED
    BY <1>2, <2>1, <2>2, Zenon
<1>7. g = [i \in 0 .. Operations(text, max) |->
              IF i = 0 THEN [key |-> text, first |-> 0, last |-> Len(text) - 1]
              ELSE AddLast(g[i - 1], max)]
  <2> HIDE DEF s
  <2>1. QED
    BY <1>6, Zenon
<1>8. GenKey(text, max) =
         [q \in 1 .. max |-> g[Operations(text, max)].key[((q - 1) % (Len(text) - 1)) + 1]]
  BY Zenon DEF GenKey
<1> HIDE DEF g, start
<1>9. g[ops] = StateAt(text, n, max, ops)
  <2> DEFINE S == {i \in 0 .. ops : g[i] = StateAt(text, n, max, i)}
  <2>1. 0 \in S
    BY <1>1, <1>2, <1>4, <1>7 DEF start
  <2>2. ASSUME NEW i \in 1 .. ops, i - 1 \in S PROVE i \in S
    <3>1. i \in 0 .. Operations(text, max) /\ i # 0
      BY <1>1, <1>2
    <3>2. g[i] = AddLast(g[i - 1], max)
      BY <1>7, <3>1, Zenon
    <3>3. g[i - 1] = StateAt(text, n, max, i - 1)
      BY <2>2
    <3>4. g[i] = StateAt(text, n, max, i)
      BY <1>5, <3>2, <3>3
    <3>5. QED
      BY <1>2, <3>1, <3>4
  <2> HIDE DEF S
  <2>3. 0 .. ops \subseteq S
    BY <1>1, <2>1, <2>2, UptoInduction
  <2>4. QED
    BY <1>1, <2>3 DEF S
<1>10. g[Operations(text, max)].key = Mixed(text, n, max, ops)
  BY <1>2, <1>9 DEF StateAt
<1>11. \A q \in 1 .. max : ((q - 1) % (Len(text) - 1)) + 1 = q
  <2>1. \A q \in 1 .. max : q - 1 \in Nat /\ q - 1 < n - 1
    BY <1>1
  <2>2. \A a, b \in Nat : a < b => a % b = a
    OBVIOUS
  <2>3. QED
    BY <1>1, <2>1, <2>2
<1>12. QED
  BY <1>8, <1>10, <1>11

(* Changing one character changes a byte, unless it is the one at max or    *)
(* the one added to it (both counted from 0).                               *)
OneDiffers(s, t, n, c) ==
    /\ s \in [1 .. n -> 0 .. 9] /\ t \in [1 .. n -> 0 .. 9] /\ c \in 0 .. n - 1
    /\ s[c + 1] # t[c + 1]
    /\ \A q \in 1 .. n : q # c + 1 => s[q] = t[q]
SameBytes(s, t, n, max) ==
    \A q \in 1 .. max : Mixed(s, n, max, n - 1 - max)[q] = Mixed(t, n, max, n - 1 - max)[q]

LEMMA ByteChanges ==
    ASSUME NEW n, NEW max, StartsOverOnce(n, max), NEW s, NEW t, NEW c, OneDiffers(s, t, n, c)
    PROVE  SameBytes(s, t, n, max) <=> c \in {max, n - 1 - max}
<1> DEFINE ops == n - 1 - max
           a(q) == Mixed(s, n, max, ops)[q]
           b(q) == Mixed(t, n, max, ops)[q]
<1>1. /\ max \in Nat /\ max >= 1 /\ n \in Nat /\ ops \in Nat
      /\ max < ops /\ ops <= 2 * max /\ n = ops + 1 + max
      /\ c \in Nat /\ c < n
  BY DEF StartsOverOnce, OneDiffers
<1>2. \A q \in 1 .. n : s[q] \in 0 .. 9 /\ t[q] \in 0 .. 9
  BY DEF OneDiffers
<1>3. ASSUME NEW q \in 1 .. max
      PROVE  /\ q \in 1 .. n /\ n + 1 - q \in 1 .. n
             /\ Twice(q, ops, max) => n + 1 - q - max \in 1 .. n
             /\ a(q) = s[q] + s[n + 1 - q]
                         + (IF Twice(q, ops, max) THEN s[n + 1 - q - max] ELSE 0)
             /\ b(q) = t[q] + t[n + 1 - q]
                         + (IF Twice(q, ops, max) THEN t[n + 1 - q - max] ELSE 0)
  <2>1. q \in 1 .. n /\ n + 1 - q \in 1 .. n /\ q <= max + 1 /\ q - 1 < ops
    BY <1>1
  <2>2. Twice(q, ops, max) => n + 1 - q - max \in 1 .. n
    BY <1>1 DEF Twice
  <2>3. QED
    BY <2>1, <2>2 DEF Mixed
<1> HIDE DEF ops, a, b
<1>4. ASSUME c \in {max, ops}
      PROVE  \A q \in 1 .. max : a(q) = b(q)
  <2>1. SUFFICES ASSUME NEW q \in 1 .. max PROVE a(q) = b(q)
    OBVIOUS
  <2>2. q # c + 1 /\ n + 1 - q # c + 1
    BY <1>1, <1>4
  <2>3. Twice(q, ops, max) => n + 1 - q - max # c + 1
    BY <1>1, <1>4 DEF Twice
  <2>4. s[q] = t[q] /\ s[n + 1 - q] = t[n + 1 - q]
    BY <1>3, <2>2 DEF OneDiffers
  <2>5. Twice(q, ops, max) => s[n + 1 - q - max] = t[n + 1 - q - max]
    BY <1>3, <2>3 DEF OneDiffers
  <2>6. QED
    BY <1>3, <2>4, <2>5
<1>5. ASSUME c \notin {max, ops}
      PROVE  \E q \in 1 .. max : a(q) # b(q)
  <2> DEFINE Added(u, q) == IF Twice(q, ops, max) THEN u[n + 1 - q - max] ELSE 0
  <2>1. ASSUME NEW q \in 1 .. max
        PROVE  /\ s[q] \in Int /\ t[q] \in Int
               /\ s[n + 1 - q] \in Int /\ t[n + 1 - q] \in Int
               /\ Added(s, q) \in Int /\ Added(t, q) \in Int
               /\ a(q) = s[q] + s[n + 1 - q] + Added(s, q)
               /\ b(q) = t[q] + t[n + 1 - q] + Added(t, q)
    <3>1. Added(s, q) \in Int /\ Added(t, q) \in Int
      BY <1>2, <1>3
    <3>2. QED
      BY <1>2, <1>3, <3>1
  <2>2. CASE c < max
    <3> DEFINE q == c + 1
    <3>1. /\ q \in 1 .. max /\ n + 1 - q # c + 1
          /\ Twice(q, ops, max) => n + 1 - q - max # c + 1
      BY <1>1, <2>2 DEF Twice
    <3>2. s[n + 1 - q] = t[n + 1 - q] /\ Added(s, q) = Added(t, q) /\ s[q] # t[q]
      BY <1>3, <3>1 DEF OneDiffers
    <3> HIDE DEF q, Added
    <3>3. a(q) # b(q)
      BY <2>1, <3>1, <3>2
    <3>4. QED
      BY <3>1, <3>3
  <2>3. CASE c > ops
    <3> DEFINE q == n - c
    <3>1. q \in 1 .. max /\ n + 1 - q = c + 1 /\ q # c + 1 /\ n + 1 - q - max # c + 1
      BY <1>1, <2>3
    <3>2. s[q] = t[q] /\ Added(s, q) = Added(t, q) /\ s[n + 1 - q] # t[n + 1 - q]
      BY <1>3, <3>1 DEF OneDiffers
    <3> HIDE DEF q, Added
    <3>3. a(q) # b(q)
      BY <2>1, <3>1, <3>2
    <3>4. QED
      BY <3>1, <3>3
  <2>4. CASE max < c /\ c < ops
    <3> DEFINE q == n - max - c
    <3>1. /\ q \in 1 .. max /\ n + 1 - q - max = c + 1
          /\ q # c + 1 /\ n + 1 - q # c + 1 /\ Twice(q, ops, max)
      BY <1>1, <2>4 DEF Twice
    <3>2. s[q] = t[q] /\ s[n + 1 - q] = t[n + 1 - q] /\ Added(s, q) # Added(t, q)
      BY <1>3, <3>1 DEF OneDiffers
    <3> HIDE DEF q, Added
    <3>3. a(q) # b(q)
      BY <2>1, <3>1, <3>2
    <3>4. QED
      BY <3>1, <3>3
  <2>5. QED
    BY <1>1, <1>5, <2>2, <2>3, <2>4
<1>6. QED
  BY <1>4, <1>5 DEF a, b, ops, SameBytes

(* For the weights of a machine: which of them the bytes of a cipher's key  *)
(* depend on.                                                               *)
LEMMA KeyBytes ==
    ASSUME L <= 4, NEW v \in Weights, NEW max \in 1 .. K * N,
           max < K * N - 1 - max, K * N - 1 - max <= 2 * max,
           NEW c \in Cell, NEW u \in (-L .. L) \ {v[c]}
    PROVE  GenKey(GetKey(v), max) = GenKey(GetKey([v EXCEPT ![c] = u]), max)
              <=> c \in {max, K * N - 1 - max}
<1> DEFINE n == K * N
           v2 == [v EXCEPT ![c] = u]
           s == [i \in 1 .. n |-> v[i - 1] + L]
           t == [i \in 1 .. n |-> v2[i - 1] + L]
           a == Mixed(s, n, max, n - 1 - max)
           b == Mixed(t, n, max, n - 1 - max)
<1>1. n \in Nat /\ Cell = 0 .. n - 1 /\ L \in Nat
  BY Sizes DEF Cell
<1>2. StartsOverOnce(n, max)
  BY <1>1 DEF StartsOverOnce
<1>3. v2 \in Weights
  BY DEF Weights
<1>4. GetKey(v) = s /\ GetKey(v2) = t
  BY <1>3, KeyText
<1>5. /\ s \in [1 .. n -> 0 .. 9] /\ s \in Seq(0 .. 9) /\ Len(s) = n
      /\ t \in [1 .. n -> 0 .. 9] /\ t \in Seq(0 .. 9) /\ Len(t) = n
  <2>1. ASSUME NEW y \in Weights, NEW i \in 1 .. n PROVE y[i - 1] + L \in 0 .. 9
    <3>1. i - 1 \in Cell
      BY <1>1
    <3>2. y[i - 1] \in -L .. L
      BY <3>1 DEF Weights
    <3>3. \A z \in -L .. L : z + L \in 0 .. 9
      BY <1>1
    <3>4. QED
      BY <3>2, <3>3, Zenon
  <2> HIDE DEF n, v2
  <2>2. s \in [1 .. n -> 0 .. 9] /\ t \in [1 .. n -> 0 .. 9]
    BY <1>3, <2>1
  <2>3. DOMAIN s = 1 .. n /\ DOMAIN t = 1 .. n
    OBVIOUS
  <2> HIDE DEF s, t
  <2>4. QED
    BY <1>1, <2>2, <2>3
<1>6. /\ c \in 0 .. n - 1 /\ c + 1 \in 1 .. n
      /\ s[c + 1] # t[c + 1]
      /\ \A q \in 1 .. n : q # c + 1 => s[q] = t[q]
  <2>1. c \in 0 .. n - 1 /\ c + 1 \in 1 .. n /\ (c + 1) - 1 = c
    BY <1>1
  <2>2. v[c] \in Int /\ v2[c] = u /\ u \in Int /\ u # v[c]
    BY DEF Weights
  <2>3. s[c + 1] # t[c + 1]
    <3> HIDE DEF v2
    <3>1. s[c + 1] = v[c] + L /\ t[c + 1] = v2[c] + L
      BY <2>1
    <3>2. QED
      BY <1>1, <2>2, <3>1
  <2>4. ASSUME NEW q \in 1 .. n, q # c + 1 PROVE s[q] = t[q]
    <3>1. q - 1 \in Cell /\ q - 1 # c
      BY <1>1, <2>1, <2>4
    <3>2. v2[q - 1] = v[q - 1]
      BY <3>1 DEF Weights
    <3>3. QED
      BY <3>2
  <2>5. QED
    BY <2>1, <2>3, <2>4
<1> HIDE DEF n, s, t
<1>7. GenKey(s, max) = [q \in 1 .. max |-> a[q]] /\ GenKey(t, max) = [q \in 1 .. max |-> b[q]]
  BY <1>2, <1>5, GenKeyBytes
<1>8. (\A q \in 1 .. max : a[q] = b[q]) <=> c \in {max, n - 1 - max}
  <2>1. OneDiffers(s, t, n, c)
    BY <1>5, <1>6 DEF OneDiffers
  <2>2. SameBytes(s, t, n, max) <=> c \in {max, n - 1 - max}
    BY <1>2, <2>1, ByteChanges, Zenon
  <2>3. QED
    BY <2>2 DEF SameBytes
<1> HIDE DEF a, b
<1>9. GenKey(s, max) = GenKey(t, max) <=> \A q \in 1 .. max : a[q] = b[q]
  <2>1. ASSUME NEW q \in 1 .. max PROVE GenKey(s, max)[q] = a[q] /\ GenKey(t, max)[q] = b[q]
    BY <1>7
  <2>2. GenKey(s, max) = GenKey(t, max) => \A q \in 1 .. max : a[q] = b[q]
    BY <2>1
  <2>3. (\A q \in 1 .. max : a[q] = b[q])
           => [q \in 1 .. max |-> a[q]] = [q \in 1 .. max |-> b[q]]
    OBVIOUS
  <2>4. QED
    BY <1>7, <2>2, <2>3
<1>10. QED
  BY <1>4, <1>8, <1>9 DEF n

-----------------------------------------------------------------------------
(* The state machine.                                                       *)

(* Between two steps the machine has in H what its weights answer to the    *)
(* vector it has: the inductive invariant of training.                     *)
Trained == w \in Weights /\ x \in Vectors /\ h = HiddenOutputs(w, x)

(* Computing, then updating, never leaves a stale H behind.                 *)
THEOREM TrainingInvariant == Spec => []Trained
<1>1. Init => Trained
  BY DEF Init, Trained
<1>2. Trained /\ [Next]_vars => Trained'
  <2> SUFFICES ASSUME Trained, [Next]_vars PROVE Trained'
    OBVIOUS
  <2>1. CASE Next
    <3>1. /\ w' = UpdateWeight(w, x, h) /\ x' \in Vectors
          /\ h' = HiddenOutputs(w', x')
      BY <2>1 DEF Next
    <3>2. w' \in Weights
      BY <3>1, WeightsStayInRange DEF Trained
    <3>3. QED
      BY <3>1, <3>2 DEF Trained
  <2>2. CASE UNCHANGED vars
    BY <2>2 DEF Trained, vars
  <2>3. QED
    BY <2>1, <2>2
<1>3. QED
  BY <1>1, <1>2, PTL DEF Spec

(* WeightsBounded of the run, for every machine. *)
THEOREM TrainingStaysInRange == Spec => []WeightsBounded
<1>1. Trained => WeightsBounded
  BY HiddenType DEF Trained, WeightsBounded
<1>2. QED
  BY <1>1, TrainingInvariant, PTL

(* OutputIsProduct of the run, for every machine. *)
THEOREM OutputIsAlwaysProduct == Spec => []OutputIsProduct
<1>1. Trained => OutputIsProduct
  BY ProductIsParity DEF Trained, OutputIsProduct
<1>2. QED
  BY <1>1, TrainingInvariant, PTL

(* UpdateIsStable of the run, for every machine. *)
THEOREM UpdatesAreStable == Spec => []UpdateIsStable
<1>1. Trained => UpdateIsStable
  BY UpdateKeepsOutputs DEF Trained, UpdateIsStable
<1>2. QED
  BY <1>1, TrainingInvariant, PTL

(* WireRoundTrip of the run, for vectors of every length. *)
THEOREM VectorsSurviveWire == Spec => []WireRoundTrip
<1>1. Trained => WireRoundTrip
  BY VectorSurvivesWire DEF Trained, WireRoundTrip
<1>2. QED
  BY <1>1, TrainingInvariant, PTL

(* KeyIdentifiesWeights of the run: the weights can be read back from a key *)
(* of the machines that ship, and of all up to L = 4.                      *)
THEOREM KeysIdentifyWeights == Spec => []KeyIdentifiesWeights
<1>1. Trained => KeyIdentifiesWeights
  <2> SUFFICES ASSUME Trained, L <= 4
               PROVE  /\ Len(GetKey(w)) = K * N
                      /\ \A c \in Cell : GetKey(w)[c + 1] - L = w[c]
    BY DEF KeyIdentifiesWeights
  <2>1. w \in Weights /\ K * N \in Nat /\ L \in Nat /\ Cell = 0 .. K * N - 1
    BY Sizes DEF Trained, Cell
  <2>2. GetKey(w) = [i \in 1 .. K * N |-> w[i - 1] + L]
    BY <2>1, KeyText
  <2>3. Len(GetKey(w)) = K * N
    BY <2>1, <2>2
  <2>4. ASSUME NEW c \in Cell PROVE GetKey(w)[c + 1] - L = w[c]
    <3>1. c + 1 \in 1 .. K * N /\ (c + 1) - 1 = c
      BY <2>1
    <3>2. GetKey(w)[c + 1] = w[c] + L
      BY <2>2, <3>1
    <3>3. w[c] \in Int
      BY <2>1 DEF Weights
    <3>4. QED
      BY <2>1, <3>2, <3>3
  <2>5. QED
    BY <2>3, <2>4
<1>2. QED
  BY <1>1, TrainingInvariant, PTL

(* GenKeyDropsTwo of the run: for 72 characters and 32 bytes, too, the      *)
(* characters at 32 and 39 are the ones without influence.                 *)
THEOREM KeyBytesDropTwo == Spec => []GenKeyDropsTwo
<1>1. Trained => GenKeyDropsTwo
  <2> SUFFICES ASSUME Trained, NEW max \in 1 .. K * N,
                      L <= 4 /\ max < K * N - 1 - max /\ K * N - 1 - max <= 2 * max,
                      NEW c \in Cell, NEW v \in (-L .. L) \ {w[c]}
               PROVE  GenKey(GetKey(w), max) = GenKey(GetKey([w EXCEPT ![c] = v]), max)
                         <=> c \in {max, K * N - 1 - max}
    BY DEF GenKeyDropsTwo
  <2>1. w \in Weights
    BY DEF Trained
  <2>2. QED
    BY <2>1, KeyBytes
<1>2. QED
  BY <1>1, TrainingInvariant, PTL

(* Two machines have the same key exactly when they have the same weights:  *)
(* SyncSession compares weights where the peers compare the hashes of keys *)
(* (sync_tpm_message_one_advanced, TpmNetworkHandler.cpp:241-256).         *)
THEOREM KeysCompareAsWeights ==
    ASSUME L <= 4, NEW u \in Weights, NEW v \in Weights
    PROVE  GetKey(u) = GetKey(v) <=> u = v
<1> SUFFICES ASSUME GetKey(u) = GetKey(v) PROVE u = v
  OBVIOUS
<1>1. K * N \in Nat /\ L \in Nat /\ Cell = 0 .. K * N - 1
  BY Sizes DEF Cell
<1>2. ASSUME NEW c \in Cell PROVE u[c] = v[c]
  <2>1. c + 1 \in 1 .. K * N /\ (c + 1) - 1 = c
    BY <1>1
  <2>2. GetKey(u)[c + 1] = u[c] + L /\ GetKey(v)[c + 1] = v[c] + L
    BY <2>1, KeyText
  <2>3. u[c] \in Int /\ v[c] \in Int
    BY <1>1 DEF Weights
  <2>4. QED
    BY <1>1, <2>2, <2>3
<1>3. QED
  BY <1>2 DEF Weights
=============================================================================

-------------------------- MODULE KeyExchangeProofs --------------------------
(* The abstract key exchange keeps its promise, for any set of parties.     *)
EXTENDS KeyExchange, TLAPS

(* Agreement is not inductive for three parties: two that are one ahead     *)
(* must be ahead by the same key.  So: there is a common past, and at most *)
(* one key beyond it.                                                      *)
CommonPast ==
    /\ log \in [Party -> Seq(Key)]
    /\ \E past \in Seq(Key) :
          \/ \A p \in Party : log[p] = past
          \/ \E k \in Key : \A p \in Party : log[p] \in {past, Append(past, k)}

LEMMA CommonPastAgrees == CommonPast => Agreement
<1> SUFFICES ASSUME CommonPast, NEW p \in Party, NEW q \in Party
             PROVE  log[p] = log[q] \/ OneAhead(p, q) \/ OneAhead(q, p)
  BY DEF Agreement
<1>1. PICK past \in Seq(Key) :
          \/ \A r \in Party : log[r] = past
          \/ \E k \in Key : \A r \in Party : log[r] \in {past, Append(past, k)}
  BY DEF CommonPast
<1>2. QED
  BY <1>1 DEF OneAhead

LEMMA CommonPastInit == Init => CommonPast
<1> SUFFICES ASSUME Init PROVE CommonPast
  OBVIOUS
<1>1. <<>> \in Seq(Key)
  OBVIOUS
<1>2. log = [p \in Party |-> <<>>]
  BY DEF Init
<1>3. QED
  BY <1>1, <1>2 DEF CommonPast

LEMMA CommonPastStep == CommonPast /\ [Next]_log => CommonPast'
<1> SUFFICES ASSUME CommonPast, [Next]_log PROVE CommonPast'
  OBVIOUS
<1>1. ASSUME NEW p \in Party, NEW k \in Key, Lead(p, k) PROVE CommonPast'
  <2>1. log[p] \in Seq(Key) /\ \A q \in Party : log[q] = log[p]
    BY <1>1 DEF CommonPast, Lead
  <2>2. Append(log[p], k) \in Seq(Key)
    BY <2>1
  <2>3. log' = [log EXCEPT ![p] = Append(log[p], k)]
    BY <1>1 DEF Lead
  <2>4. \A q \in Party : log'[q] \in {log[p], Append(log[p], k)}
    BY <2>1, <2>3 DEF CommonPast
  <2>5. log' \in [Party -> Seq(Key)]
    BY <2>2, <2>3 DEF CommonPast
  <2>6. QED
    BY <2>1, <2>4, <2>5 DEF CommonPast
<1>2. ASSUME NEW p \in Party, NEW q \in Party, Follow(p, q) PROVE CommonPast'
  <2>1. log' = [log EXCEPT ![p] = log[q]]
    BY <1>2 DEF Follow
  <2>2. log' \in [Party -> Seq(Key)]
    BY <2>1 DEF CommonPast
  <2>3. \A r \in Party : log'[r] \in {log[r], log[q]}
    BY <2>1 DEF CommonPast
  <2>4. PICK past \in Seq(Key) :
            \/ \A r \in Party : log[r] = past
            \/ \E k \in Key : \A r \in Party : log[r] \in {past, Append(past, k)}
    BY DEF CommonPast
  <2>5. CASE \A r \in Party : log[r] = past
    BY <2>2, <2>3, <2>5 DEF CommonPast
  <2>6. ASSUME NEW k \in Key,
               \A r \in Party : log[r] \in {past, Append(past, k)}
        PROVE  \A r \in Party : log'[r] \in {past, Append(past, k)}
    BY <2>3, <2>6
  <2>7. QED
    BY <2>2, <2>4, <2>5, <2>6 DEF CommonPast
<1>3. CASE UNCHANGED log
  BY <1>3 DEF CommonPast
<1>4. QED
  BY <1>1, <1>2, <1>3 DEF Next

(* Whatever the number of parties: none is more than one key ahead, and     *)
(* those that are ahead hold the same key.                                 *)
THEOREM ExchangeAgrees == Spec => []Agreement
<1>1. Init => CommonPast
  BY CommonPastInit
<1>2. CommonPast /\ [Next]_log => CommonPast'
  BY CommonPastStep
<1>3. CommonPast => Agreement
  BY CommonPastAgrees
<1>4. QED
  BY <1>1, <1>2, <1>3, PTL DEF Spec
=============================================================================

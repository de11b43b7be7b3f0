----------------------------- MODULE CryptProofs -----------------------------
(***************************************************************************)
(* Proofs about Crypt, for any number of REST threads, attempts, keys and  *)
(* messages.                                                               *)
(***************************************************************************)
EXTENDS CryptInv, SequenceTheorems, TLAPS

-----------------------------------------------------------------------------
LEMMA SideFacts ==
    /\ Initiator \in Side /\ Acceptor \in Side
    /\ \A s \in Side : /\ Other(s) \in Side
                       /\ Other(s) # s
                       /\ Other(Other(s)) = s
                       /\ \A x \in Side : x = s \/ x = Other(s)
  BY DEF Side, Other, Initiator, Acceptor

(* What SearchInvariant says of one call of side s whose ring has n keys,   *)
(* and of one message, when the messages are ms and the rings have the     *)
(* sizes n[x].                                                             *)
CallOK(s, c, n, ms) ==
    /\ c.step \in {"mark", "try"} => c.at \in 1 .. n
    /\ c.step \in {"scan", "look"} => c.at <= n
    /\ c.step = "retry" => c.skips <= n
    /\ Decrypting(c) => /\ c.msg \in DOMAIN ms
                        /\ ms[c.msg].fate = "opening"
                        /\ ms[c.msg].from = Other(s)
                        /\ ms[c.msg].mode = c.mode
    /\ c.step = "look" \/ (c.step = "try" /\ c.mode = 2) =>
          c.skips <= c.tries /\ c.at + c.skips <= n
    /\ c.step = "try" => c.tries < MaxAttempts
    /\ c.step \in {"look", "retry"} => c.mode = 2
    /\ c.step = "retry" => c.at # 0
    /\ c.step = "try" /\ c.mode = 1 =>
          /\ c.at = ms[c.msg].had - c.tries
          /\ ~(c.at < ms[c.msg].key /\ ms[c.msg].key <= ms[c.msg].had)

MessageOK(m, n) ==
    /\ m.key <= n[m.from]
    /\ m.had <= n[Other(m.from)]
    /\ m.mode = 1 /\ m.fate = "failed" => ~Had(m)
    /\ m.fate = "garbage" => m.mode = 1 /\ ~Recent(m)

Sizes == [s \in Side |-> Len(used[s])]

Types == /\ used \in [Side -> Seq(BOOLEAN)]
         /\ calls \in [Side -> [Threads -> Call]]
         /\ msgs \in Seq(Message)

Parts ==
    /\ Types
    /\ \A s \in Side, t \in Threads : CallOK(s, calls[s][t], Len(used[s]), msgs)
    /\ Apart
    /\ \A i \in DOMAIN msgs : MessageOK(msgs[i], Sizes)

LEMMA MessageType ==
    ASSUME NEW ms \in Seq(Message), NEW i \in DOMAIN ms
    PROVE  /\ i \in 1 .. Len(ms)
           /\ ms[i] \in Message
           /\ ms[i].from \in Side
<1>1. i \in 1 .. Len(ms) /\ ms[i] \in Message
  BY ElementOfSeq
<1>2. QED
  BY <1>1 DEF Message

LEMMA SameParts == SearchInvariant <=> Parts
<1>1. ASSUME Types
      PROVE  \A s \in Side : DOMAIN used[s] = 1 .. Len(used[s])
  BY <1>1 DEF Types
<1>2. ASSUME Types
      PROVE  \A i \in DOMAIN msgs : msgs[i].from \in Side /\ Other(msgs[i].from) \in Side
  BY <1>2, MessageType, SideFacts DEF Types
<1>3. ASSUME SearchInvariant PROVE Parts
  <2>1. Types
    BY <1>3 DEF SearchInvariant, TypeOK, Types
  <2>2. ASSUME NEW s \in Side, NEW t \in Threads
        PROVE  CallOK(s, calls[s][t], Len(used[s]), msgs)
    BY <1>1, <1>3, <2>1, <2>2
       DEF SearchInvariant, TypeOK, Assigned, Places, Searched, CallOK
  <2>3. QED
    BY <1>2, <1>3, <2>1, <2>2
       DEF SearchInvariant, KeysInRings, Mode1Honest, Parts, MessageOK, Sizes
<1>4. ASSUME Parts PROVE SearchInvariant
  <2>1. Types
    BY <1>4 DEF Parts
  <2>2. ASSUME NEW s \in Side, NEW t \in Threads
        PROVE  CallOK(s, calls[s][t], Len(used[s]), msgs)
    BY <1>4, <2>2 DEF Parts
  <2>3. TypeOK
    BY <1>1, <2>1, <2>2 DEF Types, TypeOK, CallOK
  <2>4. Assigned /\ Places /\ Searched
    BY <2>2 DEF Assigned, Places, Searched, CallOK
  <2>5. KeysInRings /\ Mode1Honest
    BY <1>2, <1>4, <2>1 DEF Parts, KeysInRings, Mode1Honest, MessageOK, Sizes
  <2>6. QED
    BY <1>4, <2>3, <2>4, <2>5 DEF Parts, SearchInvariant
<1>5. QED
  BY <1>3, <1>4

-----------------------------------------------------------------------------
(* A step of thread t of side s that leaves the call c behind: it is enough *)
(* that c and the messages are right, and that only a message on its way   *)
(* or the one the thread works on has changed.                             *)
LEMMA CallStep ==
    ASSUME Parts,
           NEW s \in Side, NEW t \in Threads, NEW c \in Call,
           SetCall(s, t, c),
           used' \in [Side -> Seq(BOOLEAN)],
           \A x \in Side : Len(used'[x]) = Len(used[x]),
           msgs' \in Seq(Message),
           \A i \in DOMAIN msgs :
              /\ i \in DOMAIN msgs'
              /\ \/ msgs'[i] = msgs[i]
                 \/ msgs[i].fate = "sent"
                 \/ Decrypting(calls[s][t]) /\ i = calls[s][t].msg,
           CallOK(s, c, Len(used[s]), msgs'),
           Decrypting(c) =>
              \/ Decrypting(calls[s][t]) /\ c.msg = calls[s][t].msg
              \/ msgs[c.msg].fate = "sent",
           \A i \in DOMAIN msgs' : MessageOK(msgs'[i], Sizes)
    PROVE  Parts'
<1>1. Types /\ Apart
  BY DEF Parts
<1>2. \A x \in Side, u \in Threads : CallOK(x, calls[x][u], Len(used[x]), msgs)
  BY DEF Parts
<1>3. /\ calls' \in [Side -> [Threads -> Call]]
      /\ calls'[s][t] = c
      /\ \A x \in Side, u \in Threads :
            x # s \/ u # t => calls'[x][u] = calls[x][u]
  BY <1>1 DEF SetCall, Types
<1>4. ASSUME NEW x \in Side, NEW u \in Threads, x # s \/ u # t,
             Decrypting(calls[x][u])
      PROVE  /\ msgs'[calls[x][u].msg] = msgs[calls[x][u].msg]
             /\ calls[x][u].msg \in DOMAIN msgs'
  <2> DEFINE i == calls[x][u].msg
  <2>1. i \in DOMAIN msgs /\ msgs[i].fate = "opening" /\ msgs[i].from = Other(x)
    BY <1>2, <1>4 DEF CallOK
  <2>2. ASSUME Decrypting(calls[s][t]), i = calls[s][t].msg
        PROVE  FALSE
    <3>1. msgs[i].from = Other(s)
      BY <1>2, <2>2 DEF CallOK
    <3>2. x = s
      BY <2>1, <3>1, SideFacts
    <3>3. u = t
      BY <1>1, <1>4, <2>2, <3>2 DEF Apart
    <3>4. QED
      BY <1>4, <3>2, <3>3
  <2>3. QED
    BY <2>1, <2>2
<1>5. ASSUME NEW x \in Side, NEW u \in Threads
      PROVE  CallOK(x, calls'[x][u], Len(used'[x]), msgs')
  <2>1. CASE x = s /\ u = t
    BY <1>3, <2>1
  <2>2. CASE x # s \/ u # t
    <3>1. CallOK(x, calls[x][u], Len(used[x]), msgs)
      BY <1>2
    <3>2. CallOK(x, calls[x][u], Len(used[x]), msgs')
      BY <1>4, <2>2, <3>1 DEF CallOK, Decrypting
    <3>3. QED
      BY <1>3, <2>2, <3>2
  <2>3. QED
    BY <2>1, <2>2
<1>6. Apart'
  <2>1. SUFFICES ASSUME NEW x \in Side, NEW u \in Threads, NEW v \in Threads,
                        Decrypting(calls'[x][u]), Decrypting(calls'[x][v]),
                        calls'[x][u].msg = calls'[x][v].msg
                 PROVE  u = v
    BY DEF Apart, Decrypting
  <2>2. ASSUME NEW w \in Threads, w # t, Decrypting(calls[s][w]), Decrypting(c),
               calls[s][w].msg = c.msg
        PROVE  FALSE
    BY <1>1, <1>2, <2>2 DEF Apart, CallOK
  <2>3. CASE x = s /\ u = t
    BY <1>3, <2>1, <2>2, <2>3
  <2>4. CASE x = s /\ v = t
    BY <1>3, <2>1, <2>2, <2>4
  <2>5. CASE x # s \/ (u # t /\ v # t)
    BY <1>1, <1>3, <2>1, <2>5 DEF Apart
  <2>6. QED
    BY <2>3, <2>4, <2>5
<1>7. Sizes' = Sizes
  BY DEF Sizes
<1>8. QED
  BY <1>1, <1>3, <1>5, <1>6, <1>7 DEF Parts, Types

-----------------------------------------------------------------------------
(* What Parts says in one place.                                           *)
LEMMA HereFacts ==
    ASSUME Parts, NEW s \in Side, NEW t \in Threads
    PROVE  /\ calls[s][t] \in Call
           /\ calls[s][t].at \in Nat /\ calls[s][t].msg \in Nat
           /\ calls[s][t].tries \in 0 .. MaxAttempts
           /\ calls[s][t].skips \in 0 .. MaxAttempts
           /\ calls[s][t].mode \in {1, 2}
           /\ CallOK(s, calls[s][t], Len(used[s]), msgs)
           /\ used \in [Side -> Seq(BOOLEAN)]
           /\ Len(used[s]) \in Nat
           /\ MaxAttempts \in Nat \ {0}
           /\ msgs \in Seq(Message)
           /\ \A i \in DOMAIN msgs : MessageOK(msgs[i], Sizes)
<1>1. used[s] \in Seq(BOOLEAN) /\ calls[s][t] \in Call
  BY DEF Parts, Types
<1>2. QED
  BY <1>1, CryptAssumption DEF Parts, Types, Call

LEMMA NoCallType ==
    /\ NoCall \in Call
    /\ ~Decrypting(NoCall)
    /\ \A s \in Side, n \in Nat : \A ms : CallOK(s, NoCall, n, ms)
<1>1. NoCall \in Call
  BY CryptAssumption DEF NoCall, Call, Step
<1>2. NoCall.step = "idle"
  BY DEF NoCall
<1>3. QED
  BY <1>1, <1>2 DEF Decrypting, CallOK

(* A step that changes only the call. *)
LEMMA Looking ==
    ASSUME Parts,
           NEW s \in Side, NEW t \in Threads, NEW c \in Call,
           SetCall(s, t, c), UNCHANGED <<used, msgs>>,
           CallOK(s, c, Len(used[s]), msgs),
           Decrypting(c) => Decrypting(calls[s][t]) /\ c.msg = calls[s][t].msg
    PROVE  Parts'
  BY CallStep, HereFacts

(* Counting a use keeps the sizes of the rings. *)
LEMMA UseKeepsSizes ==
    ASSUME used \in [Side -> Seq(BOOLEAN)], NEW s \in Side, NEW k \in 1 .. Len(used[s]),
           Use(s, k)
    PROVE  /\ used' \in [Side -> Seq(BOOLEAN)]
           /\ \A x \in Side : Len(used'[x]) = Len(used[x])
<1>1. used[s] \in Seq(BOOLEAN)
  OBVIOUS
<1>2. /\ [used[s] EXCEPT ![k] = TRUE] \in Seq(BOOLEAN)
      /\ Len([used[s] EXCEPT ![k] = TRUE]) = Len(used[s])
  BY <1>1, ExceptSeq
<1>3. used' = [used EXCEPT ![s] = [used[s] EXCEPT ![k] = TRUE]]
  BY DEF Use
<1>4. QED
  BY <1>2, <1>3

(* A step that answers: the decryption is over, and the message has a fate. *)
LEMMA Answering ==
    ASSUME Parts,
           NEW s \in Side, NEW t \in Threads, NEW fate \in Fate,
           Decrypting(calls[s][t]),
           Answer(s, t, fate),
           used' \in [Side -> Seq(BOOLEAN)],
           \A x \in Side : Len(used'[x]) = Len(used[x]),
           MessageOK([msgs[calls[s][t].msg] EXCEPT !.fate = fate], Sizes)
    PROVE  Parts'
<1> DEFINE j == calls[s][t].msg
           m == [msgs[j] EXCEPT !.fate = fate]
<1>1. j \in DOMAIN msgs /\ msgs \in Seq(Message)
  BY HereFacts DEF CallOK
<1>2. m \in Message
  BY <1>1, MessageType DEF Message
<1>3. msgs' = [msgs EXCEPT ![j] = m]
  BY DEF Answer
<1>4. /\ msgs' \in Seq(Message)
      /\ DOMAIN msgs' = DOMAIN msgs
      /\ msgs'[j] = m
      /\ \A i \in DOMAIN msgs : i # j => msgs'[i] = msgs[i]
  BY <1>1, <1>2, <1>3, MessageType, ExceptSeq
<1>5. \A i \in DOMAIN msgs' : MessageOK(msgs'[i], Sizes)
  BY <1>4, HereFacts
<1>6. CallOK(s, NoCall, Len(used[s]), msgs')
  BY NoCallType, HereFacts
<1>7. SetCall(s, t, NoCall)
  BY DEF Answer
<1>8. QED
  BY <1>4, <1>5, <1>6, <1>7, CallStep, NoCallType

-----------------------------------------------------------------------------
(* The actions keep Parts.                                                 *)

LEMMA AddKeyStep ==
    ASSUME Parts, NEW s \in Side, AddKey(s)
    PROVE  Parts'
<1>1. Types /\ Apart
  BY DEF Parts
<1>2. /\ used[s] \in Seq(BOOLEAN)
      /\ Append(used[s], FALSE) \in Seq(BOOLEAN)
      /\ Len(Append(used[s], FALSE)) = Len(used[s]) + 1
  BY <1>1, AppendProperties DEF Types
<1>3. /\ used' \in [Side -> Seq(BOOLEAN)]
      /\ Len(used'[s]) = Len(used[s]) + 1
      /\ \A x \in Side : x # s => Len(used'[x]) = Len(used[x])
  BY <1>1, <1>2 DEF AddKey, Types
<1>4. \A x \in Side : Len(used[x]) \in Nat /\ Len(used'[x]) \in Nat
  BY <1>1, <1>3 DEF Types
<1>5. UNCHANGED <<calls, msgs>>
  BY DEF AddKey
<1>6. ASSUME NEW x \in Side, NEW t \in Threads
      PROVE  CallOK(x, calls[x][t], Len(used'[x]), msgs)
  <2>1. /\ CallOK(x, calls[x][t], Len(used[x]), msgs)
        /\ calls[x][t].at \in Nat /\ calls[x][t].skips \in 0 .. MaxAttempts
    BY HereFacts
  <2>2. Len(used[x]) <= Len(used'[x])
    BY <1>3, <1>4
  <2>3. QED
    BY <1>4, <2>1, <2>2, CryptAssumption DEF CallOK
<1>7. ASSUME NEW i \in DOMAIN msgs
      PROVE  MessageOK(msgs[i], Sizes')
  <2>1. /\ msgs[i] \in Message
        /\ msgs[i].from \in Side /\ Other(msgs[i].from) \in Side
    BY <1>1, MessageType, SideFacts DEF Types
  <2>2. MessageOK(msgs[i], Sizes)
    BY DEF Parts
  <2>3. \A x \in Side : /\ Sizes[x] = Len(used[x])
                        /\ Sizes'[x] = Len(used'[x])
    BY DEF Sizes
  <2>4. msgs[i].key \in Nat /\ msgs[i].had \in Nat
    BY <2>1 DEF Message
  <2>5. \A x \in Side : Len(used[x]) <= Len(used'[x])
    BY <1>3, <1>4
  <2>6. QED
    BY <1>4, <2>1, <2>2, <2>3, <2>4, <2>5 DEF MessageOK
<1>8. QED
  BY <1>1, <1>3, <1>5, <1>6, <1>7 DEF Parts, Types, Apart

LEMMA EncryptStep ==
    ASSUME Parts, NEW s \in Side, NEW t \in Threads, NEW mode \in Modes,
           Encrypt(s, t, mode)
    PROVE  Parts'
<1> DEFINE c == [NoCall EXCEPT !.step = IF mode = 1 THEN "mark" ELSE "scan",
                               !.mode = mode,
                               !.begun = Len(msgs),
                               !.at = Last(s)]
<1>1. SetCall(s, t, c) /\ UNCHANGED <<used, msgs>>
  BY DEF Encrypt
<1>2. Len(used[s]) \in Nat /\ Len(used[s]) # 0 /\ Len(msgs) \in Nat
  BY HereFacts, EmptySeq DEF Encrypt
<1>3. c \in Call
  BY <1>2, NoCallType, CryptAssumption DEF Call, Step, Last
<1>4. c.step \in {"mark", "scan"} /\ c.at = Len(used[s])
  BY DEF NoCall, Last
<1>5. ~Decrypting(c) /\ CallOK(s, c, Len(used[s]), msgs)
  BY <1>2, <1>4 DEF Decrypting, CallOK
<1>6. QED
  BY <1>1, <1>3, <1>5, Looking

LEMMA ScanStep ==
    ASSUME Parts, NEW s \in Side, NEW t \in Threads, Scan(s, t)
    PROVE  Parts'
<1> DEFINE c == calls[s][t]
<1>1. /\ c.step = "scan" /\ c \in Call /\ c.at \in Nat
      /\ c.tries \in 0 .. MaxAttempts /\ MaxAttempts \in Nat
      /\ c.at <= Len(used[s]) /\ Len(used[s]) \in Nat
  BY HereFacts DEF Scan, CallOK
<1>2. UNCHANGED <<used, msgs>>
  BY DEF Scan
<1>3. CASE SetCall(s, t, NoCall)
  BY <1>1, <1>2, <1>3, Looking, NoCallType
<1>4. CASE c.at # 0 /\ c.tries # MaxAttempts
           /\ SetCall(s, t, Down(c))
  <2> DEFINE d == Down(c)
  <2>1. /\ c.at - 1 \in Nat /\ c.at - 1 <= Len(used[s])
        /\ c.tries + 1 \in 0 .. MaxAttempts
    BY <1>1, <1>4
  <2>2. /\ d \in Call /\ d.step = "scan" /\ d.at = c.at - 1
    BY <1>1, <2>1 DEF Call, Down
  <2>3. ~Decrypting(d) /\ CallOK(s, d, Len(used[s]), msgs)
    BY <2>1, <2>2 DEF Decrypting, CallOK
  <2>4. QED
    BY <1>2, <1>4, <2>2, <2>3, Looking
<1>5. CASE c.at # 0 /\ SetCall(s, t, [c EXCEPT !.step = "mark"])
  <2> DEFINE d == [c EXCEPT !.step = "mark"]
  <2>1. /\ d \in Call /\ d.step = "mark" /\ d.at \in 1 .. Len(used[s])
    BY <1>1, <1>5 DEF Call, Step
  <2>2. ~Decrypting(d) /\ CallOK(s, d, Len(used[s]), msgs)
    BY <2>1 DEF Decrypting, CallOK
  <2>3. QED
    BY <1>2, <1>5, <2>1, <2>2, Looking
<1>6. QED
  BY <1>3, <1>4, <1>5 DEF Scan, Exhausted

LEMMA MarkStep ==
    ASSUME Parts, NEW s \in Side, NEW t \in Threads, Mark(s, t)
    PROVE  Parts'
<1> DEFINE c == calls[s][t]
           m == [from |-> s, key |-> c.at, mode |-> c.mode,
                 fate |-> "sent", begun |-> c.begun, had |-> 0]
<1>1. /\ c.step = "mark" /\ c \in Call /\ c.mode \in {1, 2}
      /\ c.at \in 1 .. Len(used[s]) /\ Len(used[s]) \in Nat
      /\ msgs \in Seq(Message) /\ c.begun \in Nat
      /\ Other(s) \in Side /\ Len(used[Other(s)]) \in Nat
  BY HereFacts, SideFacts DEF Mark, CallOK, Call
<1>2. m \in Message /\ MessageOK(m, Sizes)
  BY <1>1 DEF Message, Fate, MessageOK, Sizes
<1>3. msgs' = Append(msgs, m) /\ SetCall(s, t, NoCall)
  BY DEF Mark
<1>4. /\ msgs' \in Seq(Message)
      /\ DOMAIN msgs = 1 .. Len(msgs)
      /\ DOMAIN msgs' = 1 .. Len(msgs) + 1
      /\ Len(msgs) \in Nat
      /\ \A i \in DOMAIN msgs : msgs'[i] = msgs[i]
      /\ msgs'[Len(msgs) + 1] = m
  BY <1>1, <1>2, <1>3, AppendProperties
<1>5. \A i \in DOMAIN msgs' : MessageOK(msgs'[i], Sizes)
  BY <1>2, <1>4, HereFacts
<1>6. /\ used' \in [Side -> Seq(BOOLEAN)]
      /\ \A x \in Side : Len(used'[x]) = Len(used[x])
  <2>1. Counted(s, c) \in 1 .. Len(used[s])
    BY <1>1 DEF Counted, Last
  <2>2. Use(s, Counted(s, c))
    BY DEF Mark
  <2>3. QED
    BY <2>1, <2>2, HereFacts, UseKeepsSizes
<1>7. CallOK(s, NoCall, Len(used[s]), msgs')
  BY <1>1, NoCallType
<1>8. \A i \in DOMAIN msgs : i \in DOMAIN msgs' /\ msgs'[i] = msgs[i]
  BY <1>4
<1>9. QED
  BY <1>3, <1>4, <1>5, <1>6, <1>7, <1>8, CallStep, NoCallType

LEMMA DecryptStep ==
    ASSUME Parts, NEW s \in Side, NEW t \in Threads, NEW i \in DOMAIN msgs,
           Decrypt(s, t, i)
    PROVE  Parts'
<1> DEFINE n == Len(used[s])
<1>1. /\ msgs \in Seq(Message) /\ msgs[i] \in Message /\ n \in Nat
      /\ i \in 1 .. Len(msgs)
  BY HereFacts, MessageType
<1>2. /\ msgs[i].fate = "sent" /\ msgs[i].from = Other(s)
      /\ UNCHANGED used
  BY DEF Decrypt
<1>3. msgs[i].mode \in {1, 2} /\ msgs[i].key \in Nat \ {0}
  BY <1>1 DEF Message
<1>4. MessageOK(msgs[i], Sizes)
  BY HereFacts
<1>5. CASE used[s] = <<>>
  <2> DEFINE m == [msgs[i] EXCEPT !.fate = "wait"]
  <2>1. msgs' = [msgs EXCEPT ![i] = m] /\ UNCHANGED calls
    BY <1>5 DEF Decrypt
  <2>2. m \in Message /\ MessageOK(m, Sizes)
    <3>1. m \in Message /\ m.from = msgs[i].from /\ m.had = msgs[i].had
          /\ m.key = msgs[i].key /\ m.fate = "wait"
      BY <1>1 DEF Message, Fate
    <3>2. QED
      BY <1>4, <3>1 DEF MessageOK
  <2>3. /\ msgs' \in Seq(Message) /\ DOMAIN msgs' = DOMAIN msgs
        /\ msgs'[i] = m
        /\ \A j \in DOMAIN msgs : j # i => msgs'[j] = msgs[j]
    BY <1>1, <2>1, <2>2, ExceptSeq
  <2>4. \A j \in DOMAIN msgs' : MessageOK(msgs'[j], Sizes)
    BY <2>2, <2>3, HereFacts
  <2>5. CallOK(s, calls[s][t], n, msgs) /\ ~Decrypting(calls[s][t])
    BY HereFacts DEF Decrypt, Decrypting
  <2>6. CallOK(s, calls[s][t], n, msgs')
    BY <2>5 DEF CallOK, Decrypting
  <2>7. calls[s][t] \in Call /\ SetCall(s, t, calls[s][t])
    BY <2>1, HereFacts DEF Parts, Types, SetCall
  <2>8. QED
    BY <1>2, <2>3, <2>4, <2>5, <2>6, <2>7, CallStep, HereFacts
<1>6. CASE used[s] # <<>>
  <2> DEFINE m == [msgs[i] EXCEPT !.fate = "opening", !.had = n]
             c == [NoCall EXCEPT !.step = IF msgs[i].mode = 1 THEN "try" ELSE "look",
                                 !.mode = msgs[i].mode,
                                 !.msg = i,
                                 !.at = n]
  <2>1. msgs' = [msgs EXCEPT ![i] = m]
    BY <1>6, <1>1 DEF Decrypt, Message
  <2>2. SetCall(s, t, c)
    BY <1>6 DEF Decrypt, Last
  <2>3. n \in Nat \ {0}
    BY <1>1, <1>6, HereFacts, EmptySeq
  <2>4. m \in Message /\ MessageOK(m, Sizes)
    <3>1. m \in Message /\ m.from = Other(s) /\ m.had = n /\ m.fate = "opening"
          /\ m.key = msgs[i].key
      BY <1>1, <1>2 DEF Message, Fate
    <3>2. Sizes[Other(m.from)] = n
      BY <3>1, SideFacts DEF Sizes
    <3>3. m.key <= Sizes[m.from]
      BY <1>2, <1>4, <3>1 DEF MessageOK
    <3>4. QED
      BY <1>1, <3>1, <3>2, <3>3 DEF MessageOK
  <2>5. /\ msgs' \in Seq(Message) /\ DOMAIN msgs' = DOMAIN msgs
        /\ msgs'[i] = m
        /\ \A j \in DOMAIN msgs : j # i => msgs'[j] = msgs[j]
    BY <1>1, <2>1, <2>4, ExceptSeq
  <2>6. \A j \in DOMAIN msgs' : MessageOK(msgs'[j], Sizes)
    BY <2>4, <2>5, HereFacts
  <2>7. c \in Call
    <3>1. 0 \in 0 .. MaxAttempts /\ i \in Nat
      BY <1>1, CryptAssumption
    <3>2. (IF msgs[i].mode = 1 THEN "try" ELSE "look") \in Step
      BY DEF Step
    <3>3. QED
      BY <1>1, <1>3, <3>1, <3>2, NoCallType DEF Call
  <2>8. /\ c.step = IF c.mode = 1 THEN "try" ELSE "look"
        /\ c.mode = msgs[i].mode /\ c.msg = i /\ c.at = n
        /\ c.tries = 0 /\ c.skips = 0
    BY DEF NoCall
  <2>9. /\ m.fate = "opening" /\ m.had = n /\ m.mode = c.mode
        /\ m.from = Other(s) /\ m.key = msgs[i].key
    BY <1>1, <1>2, <2>8 DEF Message
  <2> HIDE DEF c, m, n
  <2>10. CallOK(s, c, n, msgs')
    BY <1>3, <2>3, <2>5, <2>8, <2>9, CryptAssumption DEF CallOK, Decrypting
  <2>11. QED
    BY <1>2, <2>2, <2>5, <2>6, <2>7, <2>8, <2>10, CallStep, HereFacts DEF n
<1>7. QED
  BY <1>5, <1>6

LEMMA LookStep ==
    ASSUME Parts, NEW s \in Side, NEW t \in Threads, Look(s, t)
    PROVE  Parts'
<1> DEFINE c == calls[s][t]
           n == Len(used[s])
<1>1. /\ c.step = "look" /\ c \in Call /\ c.at \in Nat /\ c.mode = 2
      /\ c.tries \in 0 .. MaxAttempts /\ MaxAttempts \in Nat
      /\ c.skips \in 0 .. MaxAttempts
      /\ n \in Nat /\ c.skips <= c.tries /\ c.at + c.skips <= n
      /\ CallOK(s, c, n, msgs) /\ Decrypting(c)
  BY HereFacts DEF Look, CallOK, Decrypting
<1>2. UNCHANGED <<used, msgs>> /\ c = calls[s][t] /\ n = Len(used[s])
  BY DEF Look
<1>3. \/ SetCall(s, t, [c EXCEPT !.step = "retry", !.at = 1])
      \/ /\ c.at # 0 /\ c.tries # MaxAttempts
         /\ SetCall(s, t, [Down(c) EXCEPT !.skips = @ + 1])
      \/ /\ c.at # 0 /\ c.tries # MaxAttempts
         /\ SetCall(s, t, [c EXCEPT !.step = "try"])
  BY DEF Look, Exhausted
<1> HIDE DEF c, n
<1>4. CASE SetCall(s, t, [c EXCEPT !.step = "retry", !.at = 1])
  <2> DEFINE d == [c EXCEPT !.step = "retry", !.at = 1]
  <2>1. /\ d \in Call /\ d.step = "retry" /\ d.at = 1
        /\ d.skips = c.skips /\ d.msg = c.msg /\ d.mode = c.mode
    BY <1>1 DEF Call, Step
  <2> HIDE DEF d
  <2>2. CallOK(s, d, n, msgs)
    BY <1>1, <2>1 DEF CallOK, Decrypting
  <2>3. QED
    BY <1>1, <1>2, <1>4, <2>1, <2>2, Looking DEF d
<1>5. CASE c.at # 0 /\ c.tries # MaxAttempts
           /\ SetCall(s, t, [Down(c) EXCEPT !.skips = @ + 1])
  <2> DEFINE d == [Down(c) EXCEPT !.skips = @ + 1]
  <2>1. /\ c.at - 1 \in Nat
        /\ c.tries + 1 \in 0 .. MaxAttempts
        /\ c.skips + 1 \in 0 .. MaxAttempts
    BY <1>1, <1>5
  <2>2. /\ d \in Call /\ d.step = "look" /\ d.at = c.at - 1
        /\ d.tries = c.tries + 1 /\ d.skips = c.skips + 1
        /\ d.msg = c.msg /\ d.mode = c.mode
    BY <1>1, <2>1 DEF Call, Down
  <2> HIDE DEF d
  <2>3. CallOK(s, d, n, msgs)
    BY <1>1, <2>1, <2>2 DEF CallOK, Decrypting
  <2>4. QED
    BY <1>1, <1>2, <1>5, <2>2, <2>3, Looking DEF d
<1>6. CASE c.at # 0 /\ c.tries # MaxAttempts
           /\ SetCall(s, t, [c EXCEPT !.step = "try"])
  <2> DEFINE d == [c EXCEPT !.step = "try"]
  <2>1. /\ d \in Call /\ d.step = "try" /\ d.at = c.at
        /\ d.tries = c.tries /\ d.skips = c.skips
        /\ d.msg = c.msg /\ d.mode = c.mode
    BY <1>1 DEF Call, Step
  <2> HIDE DEF d
  <2>2. CallOK(s, d, n, msgs)
    BY <1>1, <1>6, <2>1 DEF CallOK, Decrypting
  <2>3. QED
    BY <1>1, <1>2, <1>6, <2>1, <2>2, Looking DEF d
<1>7. QED
  BY <1>3, <1>4, <1>5, <1>6

LEMMA TryingFacts ==
    ASSUME Parts, NEW s \in Side, NEW t \in Threads, Trying(calls[s][t])
    PROVE  /\ Decrypting(calls[s][t])
           /\ calls[s][t].at \in 1 .. Len(used[s])
           /\ msgs[calls[s][t].msg] \in Message
           /\ MessageOK(msgs[calls[s][t].msg], Sizes)
<1>1. Decrypting(calls[s][t])
  BY DEF Trying, Decrypting
<1>2. calls[s][t].msg \in DOMAIN msgs
  BY <1>1, HereFacts DEF CallOK
<1>3. calls[s][t].at \in 1 .. Len(used[s])
  BY HereFacts DEF CallOK, Trying
<1>4. QED
  BY <1>1, <1>2, <1>3, HereFacts, MessageType

(* An answer that is neither "failed" nor a wrong text. *)
LEMMA PlainAnswer ==
    ASSUME NEW m \in Message, MessageOK(m, Sizes),
           NEW fate \in {"text", "wait", "exception"}
    PROVE  MessageOK([m EXCEPT !.fate = fate], Sizes)
<1>1. /\ [m EXCEPT !.fate = fate].fate = fate
      /\ [m EXCEPT !.fate = fate].key = m.key
      /\ [m EXCEPT !.fate = fate].from = m.from
      /\ [m EXCEPT !.fate = fate].had = m.had
  BY DEF Message
<1>2. QED
  BY <1>1 DEF MessageOK

LEMMA OpensStep ==
    ASSUME Parts, NEW s \in Side, NEW t \in Threads, Opens(s, t)
    PROVE  Parts'
<1>1. Trying(calls[s][t])
  BY DEF Opens, Trying
<1>2. Use(s, calls[s][t].at) /\ Answer(s, t, "text")
  BY DEF Opens
<1>3. /\ used' \in [Side -> Seq(BOOLEAN)]
      /\ \A x \in Side : Len(used'[x]) = Len(used[x])
  BY <1>1, <1>2, TryingFacts, HereFacts, UseKeepsSizes
<1>4. MessageOK([msgs[calls[s][t].msg] EXCEPT !.fate = "text"], Sizes)
  BY <1>1, TryingFacts, PlainAnswer
<1>5. QED
  BY <1>1, <1>2, <1>3, <1>4, TryingFacts, Answering DEF Fate

LEMMA ThrowsStep ==
    ASSUME Parts, NEW s \in Side, NEW t \in Threads, Throws(s, t)
    PROVE  Parts'
<1>1. Trying(calls[s][t])
  BY DEF Throws, Trying
<1>2. UNCHANGED used /\ Answer(s, t, "exception")
  BY DEF Throws
<1>3. MessageOK([msgs[calls[s][t].msg] EXCEPT !.fate = "exception"], Sizes)
  BY <1>1, TryingFacts, PlainAnswer
<1>4. QED
  BY <1>1, <1>2, <1>3, TryingFacts, HereFacts, Answering DEF Fate

LEMMA NextKeyMode1Step ==
    ASSUME Parts, NEW s \in Side, NEW t \in Threads, NextKeyMode1(s, t)
    PROVE  Parts'
<1> DEFINE c == calls[s][t]
           m == msgs[c.msg]
           n == Len(used[s])
<1>1. /\ c.step = "try" /\ c.mode = 1 /\ c \in Call
      /\ c.at \in 1 .. n /\ n \in Nat
      /\ c.tries \in 0 .. MaxAttempts /\ c.tries < MaxAttempts
      /\ MaxAttempts \in Nat
      /\ CallOK(s, c, n, msgs) /\ Decrypting(c)
      /\ c.at = m.had - c.tries
      /\ ~(c.at < m.key /\ m.key <= m.had)
      /\ m.mode = 1
  BY HereFacts DEF NextKeyMode1, CallOK, Decrypting
<1>2. Trying(calls[s][t])
  BY <1>1 DEF Trying
<1>3. /\ m \in Message /\ MessageOK(m, Sizes)
      /\ m.key \in Nat \ {0} /\ m.had \in Nat /\ m.key # c.at
  BY <1>2, TryingFacts DEF Message, NextKeyMode1, Fits
<1>4. UNCHANGED used
  BY DEF NextKeyMode1
<1>5. ASSUME NEW fate \in {"failed", "garbage"}
      PROVE  LET a == [m EXCEPT !.fate = fate]
             IN  a.fate = fate /\ a.key = m.key /\ a.from = m.from
                 /\ a.mode = m.mode /\ a.had = m.had
  BY <1>3 DEF Message
<1>6. CASE c.at = 1 /\ Answer(s, t, "failed")
  <2>1. ~Had(m)
    BY <1>1, <1>3, <1>6 DEF Had
  <2>2. MessageOK([m EXCEPT !.fate = "failed"], Sizes)
    BY <1>3, <1>5, <2>1 DEF MessageOK, Had
  <2>3. QED
    BY <1>1, <1>4, <1>6, <2>2, HereFacts, Answering DEF Fate
<1>7. CASE c.tries + 1 = MaxAttempts /\ Answer(s, t, "garbage")
  <2>1. ~Recent(m)
    BY <1>1, <1>3, <1>7 DEF Recent, Had
  <2>2. MessageOK([m EXCEPT !.fate = "garbage"], Sizes)
    BY <1>1, <1>3, <1>5, <2>1 DEF MessageOK, Recent, Had
  <2>3. QED
    BY <1>1, <1>4, <1>7, <2>2, HereFacts, Answering DEF Fate
<1>8. CASE /\ c.at # 1 /\ c.tries + 1 # MaxAttempts
           /\ SetCall(s, t, Down(c))
           /\ UNCHANGED msgs
  <2> DEFINE d == Down(c)
  <2>1. /\ c.at - 1 \in 1 .. n /\ c.at - 1 \in Nat
        /\ c.tries + 1 \in 0 .. MaxAttempts /\ c.tries + 1 < MaxAttempts
        /\ c.at - 1 = m.had - (c.tries + 1)
        /\ ~(c.at - 1 < m.key /\ m.key <= m.had)
    BY <1>1, <1>3, <1>8
  <2>2. /\ d \in Call /\ d.step = "try" /\ d.at = c.at - 1
        /\ d.tries = c.tries + 1 /\ d.msg = c.msg /\ d.mode = 1
    BY <1>1, <2>1 DEF Call, Down
  <2> HIDE DEF d
  <2>3. CallOK(s, d, n, msgs)
    BY <1>1, <2>1, <2>2 DEF CallOK, Decrypting
  <2>4. SetCall(s, t, d)
    BY <1>8 DEF d
  <2>5. QED
    BY <1>1, <1>4, <1>8, <2>2, <2>3, <2>4, Looking
<1>9. QED
  BY <1>6, <1>7, <1>8 DEF NextKeyMode1, AtBottom

LEMMA NextKeyMode2Step ==
    ASSUME Parts, NEW s \in Side, NEW t \in Threads, NextKeyMode2(s, t)
    PROVE  Parts'
<1> DEFINE c == calls[s][t]
           n == Len(used[s])
<1>1. /\ c.step = "try" /\ c.mode = 2 /\ c \in Call
      /\ c.at \in 1 .. n /\ n \in Nat
      /\ c.tries \in 0 .. MaxAttempts /\ c.tries < MaxAttempts
      /\ c.skips \in 0 .. MaxAttempts /\ MaxAttempts \in Nat
      /\ c.skips <= c.tries /\ c.at + c.skips <= n
      /\ CallOK(s, c, n, msgs) /\ Decrypting(c)
  BY HereFacts DEF NextKeyMode2, CallOK, Decrypting
<1>2. UNCHANGED <<used, msgs>>
  BY DEF NextKeyMode2
<1>3. CASE SetCall(s, t, [c EXCEPT !.step = "retry"])
  <2> DEFINE d == [c EXCEPT !.step = "retry"]
  <2>1. /\ d \in Call /\ d.step = "retry" /\ d.at = c.at
        /\ d.skips = c.skips /\ d.msg = c.msg /\ d.mode = 2
    BY <1>1 DEF Call, Step
  <2> HIDE DEF d
  <2>2. CallOK(s, d, n, msgs)
    BY <1>1, <2>1 DEF CallOK, Decrypting
  <2>3. QED
    BY <1>1, <1>2, <1>3, <2>1, <2>2, Looking DEF d
<1>4. CASE SetCall(s, t, [Down(c) EXCEPT !.step = "look"])
  <2> DEFINE d == [Down(c) EXCEPT !.step = "look"]
  <2>1. /\ c.at - 1 \in Nat /\ c.at - 1 <= n /\ c.at - 1 + c.skips <= n
        /\ c.tries + 1 \in 0 .. MaxAttempts /\ c.skips <= c.tries + 1
    <3> HIDE DEF c, n
    <3>1. QED
      BY <1>1
  <2>2. /\ d \in Call /\ d.step = "look" /\ d.at = c.at - 1
        /\ d.tries = c.tries + 1 /\ d.skips = c.skips
        /\ d.msg = c.msg /\ d.mode = 2
    BY <1>1, <2>1 DEF Call, Step, Down
  <2> HIDE DEF d
  <2>3. CallOK(s, d, n, msgs)
    BY <1>1, <2>1, <2>2 DEF CallOK, Decrypting
  <2>4. QED
    BY <1>1, <1>2, <1>4, <2>2, <2>3, Looking DEF d
<1>5. QED
  BY <1>3, <1>4 DEF NextKeyMode2

LEMMA RetryStep ==
    ASSUME Parts, NEW s \in Side, NEW t \in Threads, Retry(s, t)
    PROVE  Parts'
<1> DEFINE c == calls[s][t]
           n == Len(used[s])
<1>1. /\ c.step = "retry" /\ c.mode = 2 /\ c \in Call
      /\ c.at \in Nat /\ c.at # 0 /\ c.skips <= n
      /\ CallOK(s, c, n, msgs) /\ Decrypting(c)
      /\ c.msg \in DOMAIN msgs /\ msgs[c.msg].mode = 2
  BY HereFacts DEF Retry, CallOK, Decrypting
<1>2. UNCHANGED used
  BY DEF Retry
<1>3. CASE Answer(s, t, "failed")
  <2> DEFINE m == msgs[c.msg]
  <2>1. m \in Message /\ MessageOK(m, Sizes)
    BY <1>1, HereFacts, MessageType
  <2>2. LET a == [m EXCEPT !.fate = "failed"]
        IN  /\ a.fate = "failed" /\ a.key = m.key /\ a.from = m.from
            /\ a.mode = 2 /\ a.had = m.had
    BY <1>1, <2>1 DEF Message
  <2>3. MessageOK([m EXCEPT !.fate = "failed"], Sizes)
    BY <2>1, <2>2 DEF MessageOK
  <2>4. QED
    BY <1>1, <1>2, <1>3, <2>3, HereFacts, Answering DEF Fate
<1>4. CASE SetCall(s, t, [c EXCEPT !.at = @ + 1]) /\ UNCHANGED msgs
  <2> DEFINE d == [c EXCEPT !.at = @ + 1]
  <2>1. /\ d \in Call /\ d.step = "retry" /\ d.at = c.at + 1 /\ d.at # 0
        /\ d.skips = c.skips /\ d.msg = c.msg /\ d.mode = 2
    BY <1>1 DEF Call
  <2> HIDE DEF d
  <2>2. CallOK(s, d, n, msgs)
    BY <1>1, <2>1 DEF CallOK, Decrypting
  <2>3. QED
    BY <1>1, <1>2, <1>4, <2>1, <2>2, Looking DEF d
<1>5. QED
  BY <1>3, <1>4 DEF Retry

-----------------------------------------------------------------------------
LEMMA InitParts == Init => Parts
<1> SUFFICES ASSUME Init PROVE Parts
  OBVIOUS
<1>1. /\ used = [s \in Side |-> <<>>] /\ msgs = <<>>
      /\ calls = [s \in Side |-> [t \in Threads |-> NoCall]]
  BY DEF Init
<1>2. Types
  BY <1>1, NoCallType, EmptySeq DEF Types
<1>3. \A s \in Side : used[s] = <<>> /\ Len(used[s]) = 0
  BY <1>1, EmptySeq
<1>4. \A s \in Side, t \in Threads : calls[s][t] = NoCall
  BY <1>1
<1>5. \A s \in Side, t \in Threads : CallOK(s, calls[s][t], Len(used[s]), msgs)
  BY <1>3, <1>4, NoCallType
<1>6. Apart
  BY <1>4, NoCallType DEF Apart
<1>7. DOMAIN msgs = {}
  BY <1>1
<1>8. QED
  BY <1>2, <1>5, <1>6, <1>7 DEF Parts

LEMMA NextParts == Parts /\ [Next]_vars => Parts'
<1> SUFFICES ASSUME Parts, [Next]_vars PROVE Parts'
  OBVIOUS
<1>1. ASSUME NEW s \in Side, AddKey(s) PROVE Parts'
  BY <1>1, AddKeyStep
<1>2. ASSUME NEW s \in Side, NEW t \in Threads, NEW mode \in Modes,
             Encrypt(s, t, mode)
      PROVE  Parts'
  BY <1>2, EncryptStep
<1>3. ASSUME NEW s \in Side, NEW t \in Threads, NEW i \in DOMAIN msgs,
             Decrypt(s, t, i)
      PROVE  Parts'
  BY <1>3, DecryptStep
<1>4. ASSUME NEW s \in Side, NEW t \in Threads, Continue(s, t)
      PROVE  Parts'
  BY <1>4, ScanStep, MarkStep, LookStep, OpensStep, ThrowsStep,
     NextKeyMode1Step, NextKeyMode2Step, RetryStep DEF Continue
<1>5. CASE UNCHANGED vars
  BY <1>5 DEF vars, Parts, Types, Apart, Sizes
<1>6. QED
  BY <1>1, <1>2, <1>3, <1>4, <1>5 DEF Next

(* Every call is at a place of its ring, knows what it has searched, and    *)
(* works on a message of its own.                                          *)
THEOREM RingsInvariant == Spec => []SearchInvariant
<1>1. Init => SearchInvariant
  BY InitParts, SameParts
<1>2. SearchInvariant /\ [Next]_vars => SearchInvariant'
  <2>1. Parts' => SearchInvariant'
    BY SameParts, PTL
  <2>2. QED
    BY <2>1, NextParts, SameParts
<1>3. QED
  BY <1>1, <1>2, PTL DEF Spec

(* TypeOK: no call of crypt leaves the ring, for any number of threads.     *)
THEOREM StaysInRing == Spec => []TypeOK
<1>1. SearchInvariant => TypeOK
  BY DEF SearchInvariant
<1>2. QED
  BY <1>1, RingsInvariant, PTL

(* Mode1Honest: mode 1 fails only for keys the receiver did not have, and   *)
(* answers with a wrong text only for keys out of its reach.               *)
THEOREM Mode1IsHonest == Spec => []Mode1Honest
<1>1. SearchInvariant => Mode1Honest
  BY DEF SearchInvariant
<1>2. QED
  BY <1>1, RingsInvariant, PTL

-----------------------------------------------------------------------------
(* What a step does to the messages and to the keys.                       *)

Kept == \A i \in DOMAIN msgs :
           /\ i \in DOMAIN msgs'
           /\ msgs'[i].from = msgs[i].from
           /\ msgs'[i].key = msgs[i].key
           /\ msgs'[i].mode = msgs[i].mode
           /\ msgs'[i].begun = msgs[i].begun
           /\ msgs[i].fate = "text" => msgs'[i].fate = "text"
           /\ msgs[i].fate # "sent" => msgs'[i].had = msgs[i].had

NoneSent == Kept /\ DOMAIN msgs' = DOMAIN msgs

(* Nothing but key k of side s has been counted.                           *)
OnlyUsed(s, k) ==
    \A x \in Side :
       /\ DOMAIN used'[x] = DOMAIN used[x]
       /\ \A j \in DOMAIN used[x] : /\ used[x][j] => used'[x][j]
                                    /\ used'[x][j] => used[x][j] \/ (x = s /\ j = k)

LEMMA UseOne ==
    ASSUME Parts, NEW s \in Side, NEW k \in 1 .. Len(used[s]), Use(s, k)
    PROVE  OnlyUsed(s, k) /\ used'[s][k]
<1>1. used \in [Side -> Seq(BOOLEAN)] /\ used[s] \in Seq(BOOLEAN)
  BY DEF Parts, Types
<1>2. DOMAIN used[s] = 1 .. Len(used[s])
  BY <1>1
<1>3. used' = [used EXCEPT ![s] = [used[s] EXCEPT ![k] = TRUE]]
  BY DEF Use
<1>4. used'[s] = [used[s] EXCEPT ![k] = TRUE]
  BY <1>1, <1>3
<1>5. \A x \in Side : x # s => used'[x] = used[x]
  BY <1>1, <1>3
<1>6. DOMAIN used'[s] = DOMAIN used[s] /\ used'[s][k] = TRUE
  BY <1>2, <1>4
<1>7. \A j \in DOMAIN used[s] : j # k => used'[s][j] = used[s][j]
  BY <1>4
<1>8. QED
  BY <1>5, <1>6, <1>7 DEF OnlyUsed

LEMMA AnswerKeeps ==
    ASSUME Parts, NEW s \in Side, NEW t \in Threads, Decrypting(calls[s][t]),
           NEW fate \in Fate, Answer(s, t, fate)
    PROVE  /\ NoneSent
           /\ calls[s][t].msg \in DOMAIN msgs
           /\ msgs'[calls[s][t].msg].fate = fate
<1> DEFINE j == calls[s][t].msg
           m == [msgs[j] EXCEPT !.fate = fate]
<1>1. j \in DOMAIN msgs /\ msgs[j].fate = "opening"
  BY HereFacts DEF CallOK
<1>2. msgs[j] \in Message
  BY <1>1, HereFacts, MessageType
<1>3. /\ m.fate = fate /\ m.from = msgs[j].from
      /\ m.key = msgs[j].key /\ m.mode = msgs[j].mode
      /\ m.begun = msgs[j].begun /\ m.had = msgs[j].had
  BY <1>2 DEF Message
<1>4. msgs' = [msgs EXCEPT ![j] = m]
  BY DEF Answer
<1>5. /\ DOMAIN msgs' = DOMAIN msgs /\ msgs'[j] = m
      /\ \A i \in DOMAIN msgs : i # j => msgs'[i] = msgs[i]
  BY <1>1, <1>4
<1>6. QED
  BY <1>1, <1>3, <1>5 DEF NoneSent, Kept

LEMMA DecryptKeeps ==
    ASSUME Parts, NEW s \in Side, NEW t \in Threads, NEW i \in DOMAIN msgs,
           Decrypt(s, t, i)
    PROVE  NoneSent /\ UNCHANGED used
<1>1. msgs[i] \in Message /\ msgs[i].fate = "sent"
  BY HereFacts, MessageType DEF Decrypt
<1>2. PICK m \in {[msgs[i] EXCEPT !.fate = "wait"],
                 [msgs[i] EXCEPT !.fate = "opening", !.had = Len(used[s])]} :
         msgs' = [msgs EXCEPT ![i] = m]
  BY <1>1 DEF Decrypt, Message
<1>3. /\ m.from = msgs[i].from /\ m.key = msgs[i].key /\ m.mode = msgs[i].mode
      /\ m.begun = msgs[i].begun
  BY <1>1 DEF Message
<1>4. /\ DOMAIN msgs' = DOMAIN msgs /\ msgs'[i] = m
      /\ \A j \in DOMAIN msgs : j # i => msgs'[j] = msgs[j]
  BY <1>2
<1>5. QED
  BY <1>1, <1>3, <1>4 DEF NoneSent, Kept, Decrypt

LEMMA MarkSends ==
    ASSUME Parts, NEW s \in Side, NEW t \in Threads, Mark(s, t)
    PROVE  LET c == calls[s][t]
               k == Counted(s, c)
               n == Len(msgs) + 1
           IN  /\ Kept /\ DOMAIN msgs' = DOMAIN msgs \cup {n}
               /\ n \notin DOMAIN msgs
               /\ msgs'[n].from = s /\ msgs'[n].key = c.at
               /\ msgs'[n].mode = c.mode /\ msgs'[n].fate = "sent"
               /\ msgs'[n].begun = c.begun
               /\ OnlyUsed(s, k) /\ used'[s][k]
               /\ c.at \in DOMAIN used[s]
<1> DEFINE c == calls[s][t]
           m == [from |-> s, key |-> c.at, mode |-> c.mode,
                 fate |-> "sent", begun |-> c.begun, had |-> 0]
<1>1. /\ c.at \in 1 .. Len(used[s]) /\ Len(used[s]) \in Nat
      /\ msgs \in Seq(Message) /\ c.mode \in {1, 2} /\ c.begun \in Nat
  BY HereFacts DEF Mark, CallOK, Call
<1>2. used[s] \in Seq(BOOLEAN) /\ DOMAIN used[s] = 1 .. Len(used[s])
  BY HereFacts
<1>3. m \in Message
  BY <1>1 DEF Message, Fate
<1>4. msgs' = Append(msgs, m)
  BY DEF Mark
<1>5. /\ DOMAIN msgs = 1 .. Len(msgs) /\ Len(msgs) \in Nat
      /\ DOMAIN msgs' = 1 .. Len(msgs) + 1
      /\ \A i \in DOMAIN msgs : msgs'[i] = msgs[i]
      /\ msgs'[Len(msgs) + 1] = m
  BY <1>1, <1>3, <1>4, AppendProperties
<1>6. Kept
  BY <1>5 DEF Kept
<1>7. DOMAIN msgs' = DOMAIN msgs \cup {Len(msgs) + 1} /\ Len(msgs) + 1 \notin DOMAIN msgs
  BY <1>5
<1>8. Counted(s, c) \in 1 .. Len(used[s])
  BY <1>1 DEF Counted, Last
<1>9. Use(s, Counted(s, c))
  BY DEF Mark
<1>10. QED
  BY <1>1, <1>2, <1>5, <1>6, <1>7, <1>8, <1>9, UseOne

LEMMA OpensKeeps ==
    ASSUME Parts, NEW s \in Side, NEW t \in Threads, Opens(s, t)
    PROVE  LET c == calls[s][t]
           IN  /\ NoneSent
               /\ OnlyUsed(s, c.at)
               /\ c.msg \in DOMAIN msgs
               /\ msgs[c.msg].key = c.at /\ msgs'[c.msg].fate = "text"
<1>1. Trying(calls[s][t]) /\ Use(s, calls[s][t].at) /\ Answer(s, t, "text")
      /\ Fits(calls[s][t])
  BY DEF Opens, Trying
<1>2. QED
  BY <1>1, TryingFacts, UseOne, AnswerKeeps DEF Fits, Fate

(* The steps that use no key and send nothing. *)
QuietStep(s, t) ==
    \/ Scan(s, t) \/ Look(s, t) \/ Throws(s, t)
    \/ NextKeyMode1(s, t) \/ NextKeyMode2(s, t) \/ Retry(s, t)

LEMMA QuietKeeps ==
    ASSUME Parts, NEW s \in Side, NEW t \in Threads, QuietStep(s, t)
    PROVE  NoneSent /\ UNCHANGED used
<1>1. UNCHANGED used
  BY DEF QuietStep, Scan, Look, Throws, NextKeyMode1, NextKeyMode2, Retry
<1>2. CASE UNCHANGED msgs
  BY <1>1, <1>2 DEF NoneSent, Kept
<1>3. ASSUME NEW fate \in Fate, Answer(s, t, fate), Decrypting(calls[s][t])
      PROVE  NoneSent
  BY <1>3, AnswerKeeps
<1>4. \/ UNCHANGED msgs
      \/ /\ Decrypting(calls[s][t])
         /\ \E fate \in {"exception", "failed", "garbage"} : Answer(s, t, fate)
  BY DEF QuietStep, Scan, Look, Throws, NextKeyMode1, NextKeyMode2, Retry,
         Decrypting, Trying
<1>5. CASE /\ Decrypting(calls[s][t])
           /\ \E fate \in {"exception", "failed", "garbage"} : Answer(s, t, fate)
  <2>1. PICK fate \in {"exception", "failed", "garbage"} : Answer(s, t, fate)
    BY <1>5
  <2>2. fate \in Fate
    BY DEF Fate
  <2>3. QED
    BY <1>1, <1>3, <1>5, <2>1, <2>2
<1>6. QED
  BY <1>1, <1>2, <1>4, <1>5

LEMMA AddKeyKeeps ==
    ASSUME Parts, NEW s \in Side, AddKey(s)
    PROVE  /\ NoneSent /\ UNCHANGED <<calls, msgs>>
           /\ \A x \in Side :
                 /\ \A k \in DOMAIN used[x] : /\ k \in DOMAIN used'[x]
                                              /\ used'[x][k] = used[x][k]
                 /\ \A k \in DOMAIN used'[x] : used'[x][k] => k \in DOMAIN used[x]
<1>1. used \in [Side -> Seq(BOOLEAN)] /\ used[s] \in Seq(BOOLEAN)
  BY DEF Parts, Types
<1>2. UNCHANGED <<calls, msgs>> /\ used' = [used EXCEPT ![s] = Append(used[s], FALSE)]
  BY DEF AddKey
<1>3. NoneSent
  BY <1>2 DEF NoneSent, Kept
<1>4. used'[s] = Append(used[s], FALSE) /\ \A x \in Side : x # s => used'[x] = used[x]
  BY <1>1, <1>2
<1>5. /\ Len(used[s]) \in Nat
      /\ DOMAIN used[s] = 1 .. Len(used[s])
      /\ DOMAIN used'[s] = 1 .. Len(used[s]) + 1
      /\ used'[s][Len(used[s]) + 1] = FALSE
      /\ \A k \in 1 .. Len(used[s]) : used'[s][k] = used[s][k]
  BY <1>1, <1>4, AppendProperties
<1>6. \A k \in DOMAIN used'[s] : used'[s][k] => k \in DOMAIN used[s]
  BY <1>5
<1>7. ASSUME NEW x \in Side
      PROVE  /\ \A k \in DOMAIN used[x] : /\ k \in DOMAIN used'[x]
                                          /\ used'[x][k] = used[x][k]
             /\ \A k \in DOMAIN used'[x] : used'[x][k] => k \in DOMAIN used[x]
  <2>1. CASE x = s
    BY <1>5, <1>6, <2>1
  <2>2. CASE x # s
    BY <1>4, <2>2
  <2>3. QED
    BY <2>1, <2>2
<1>8. QED
  BY <1>2, <1>3, <1>7

-----------------------------------------------------------------------------
(* Mode 2.                                                                 *)

(* How a call gets to c, if c is an encryption: it begins, or it scans.     *)
Begins(c) == \E mode \in Modes : /\ c.mode = mode
                                 /\ c.step = IF mode = 1 THEN "mark" ELSE "scan"
                                 /\ c.begun = Len(msgs)

Finds(s, t, c) == /\ Scan(s, t)
                  /\ c.mode = calls[s][t].mode
                  /\ c.begun = calls[s][t].begun
                  /\ c.step = "mark" => ~used[s][c.at]

Reached(s, t, c) == \/ c.step \notin {"scan", "mark"}
                    \/ Begins(c)
                    \/ Finds(s, t, c)

Origin == \A x \in Side, u \in Threads :
             calls'[x][u] = calls[x][u] \/ Reached(x, u, calls'[x][u])

LEMMA CallOrigin ==
    ASSUME Parts, [Next]_vars
    PROVE  Origin
<1>1. ASSUME NEW s \in Side, NEW t \in Threads, NEW c, SetCall(s, t, c),
             Reached(s, t, c)
      PROVE  Origin
  <2>1. /\ calls'[s][t] = c
        /\ \A x \in Side, u \in Threads :
              x # s \/ u # t => calls'[x][u] = calls[x][u]
    BY <1>1 DEF Parts, Types, SetCall
  <2>2. SUFFICES ASSUME NEW x \in Side, NEW u \in Threads
                 PROVE  calls'[x][u] = calls[x][u] \/ Reached(x, u, calls'[x][u])
    BY DEF Origin
  <2>3. CASE x = s /\ u = t
    BY <1>1, <2>1, <2>3
  <2>4. CASE x # s \/ u # t
    BY <2>1, <2>4
  <2>5. QED
    BY <2>3, <2>4
<1>2. CASE UNCHANGED calls
  BY <1>2 DEF Origin
<1>3. ASSUME NEW s \in Side, NEW t \in Threads, NEW mode \in Modes,
             Encrypt(s, t, mode)
      PROVE  Origin
  <2> DEFINE c == [NoCall EXCEPT !.step = IF mode = 1 THEN "mark" ELSE "scan",
                                 !.mode = mode, !.begun = Len(msgs),
                                 !.at = Last(s)]
  <2>1. SetCall(s, t, c)
    BY <1>3 DEF Encrypt
  <2>2. /\ c.mode = mode /\ c.begun = Len(msgs)
        /\ c.step = IF mode = 1 THEN "mark" ELSE "scan"
    BY DEF NoCall
  <2>3. Reached(s, t, c)
    BY <2>2 DEF Reached, Begins
  <2>4. QED
    BY <1>1, <2>1, <2>3
<1>4. ASSUME NEW s \in Side, NEW t \in Threads, SetCall(s, t, NoCall)
      PROVE  Origin
  BY <1>1, <1>4 DEF NoCall, Reached
<1>5. ASSUME NEW s \in Side, NEW t \in Threads, NEW i \in DOMAIN msgs,
             Decrypt(s, t, i)
      PROVE  Origin
  <2> DEFINE c == [NoCall EXCEPT !.step = IF msgs[i].mode = 1 THEN "try" ELSE "look",
                                 !.mode = msgs[i].mode,
                                 !.msg = i, !.at = Last(s)]
  <2>1. SetCall(s, t, c) \/ UNCHANGED calls
    BY <1>5 DEF Decrypt
  <2>2. Reached(s, t, c)
    BY DEF NoCall, Reached
  <2>3. QED
    BY <1>1, <1>2, <2>1, <2>2
<1>6. ASSUME NEW s \in Side, NEW t \in Threads, Scan(s, t)
      PROVE  Origin
  <2> DEFINE c == calls[s][t]
             down == Down(c)
             mark == [c EXCEPT !.step = "mark"]
  <2>1. c \in Call /\ c.step = "scan"
    BY <1>6, HereFacts DEF Scan
  <2>2. \/ SetCall(s, t, NoCall)
        \/ SetCall(s, t, down)
        \/ SetCall(s, t, mark) /\ ~used[s][c.at]
    BY <1>6 DEF Scan
  <2>3. /\ down.mode = c.mode /\ down.step = "scan"
        /\ mark.mode = c.mode /\ mark.at = c.at
        /\ down.begun = c.begun /\ mark.begun = c.begun
    BY <2>1 DEF Call, Down
  <2>4. /\ Reached(s, t, down)
        /\ ~used[s][c.at] => Reached(s, t, mark)
    BY <1>6, <2>3 DEF Reached, Finds
  <2>5. QED
    BY <1>1, <1>4, <2>2, <2>4
<1>7. ASSUME NEW s \in Side, NEW t \in Threads,
             Mark(s, t) \/ Opens(s, t) \/ QuietStep(s, t), ~Scan(s, t)
      PROVE  Origin
  <2> DEFINE c == calls[s][t]
  <2>1. c \in Call
    BY HereFacts
  <2>2. ASSUME NEW d, SetCall(s, t, d), d.step \in {"look", "try", "retry"}
        PROVE  Origin
    BY <1>1, <2>2 DEF Reached
  <2>3. CASE Mark(s, t) \/ Opens(s, t) \/ Throws(s, t)
    BY <1>4, <2>3 DEF Mark, Opens, Throws, Answer
  <2>4. CASE Look(s, t)
    <3>1. \/ SetCall(s, t, [c EXCEPT !.step = "retry", !.at = 1])
          \/ SetCall(s, t, [Down(c) EXCEPT !.skips = @ + 1])
          \/ SetCall(s, t, [c EXCEPT !.step = "try"])
      BY <2>4 DEF Look
    <3>2. /\ [c EXCEPT !.step = "retry", !.at = 1].step = "retry"
          /\ [Down(c) EXCEPT !.skips = @ + 1].step = "look"
          /\ [c EXCEPT !.step = "try"].step = "try"
      BY <2>1, <2>4 DEF Look, Call, Down
    <3>3. QED
      BY <2>2, <3>1, <3>2
  <2>5. CASE NextKeyMode1(s, t)
    <3>1. \/ SetCall(s, t, NoCall)
          \/ SetCall(s, t, Down(c))
      BY <2>5 DEF NextKeyMode1, Answer
    <3>2. Down(c).step = "try"
      BY <2>1, <2>5 DEF NextKeyMode1, Call, Down
    <3>3. QED
      BY <1>4, <2>2, <3>1, <3>2
  <2>6. CASE NextKeyMode2(s, t)
    <3>1. \/ SetCall(s, t, [c EXCEPT !.step = "retry"])
          \/ SetCall(s, t, [Down(c) EXCEPT !.step = "look"])
      BY <2>6 DEF NextKeyMode2
    <3>2. /\ [c EXCEPT !.step = "retry"].step = "retry"
          /\ [Down(c) EXCEPT !.step = "look"].step = "look"
      BY <2>1 DEF Call
    <3>3. QED
      BY <2>2, <3>1, <3>2
  <2>7. CASE Retry(s, t)
    <3>1. SetCall(s, t, NoCall) \/ SetCall(s, t, [c EXCEPT !.at = @ + 1])
      BY <2>7 DEF Retry, Answer
    <3>2. [c EXCEPT !.at = @ + 1].step = "retry"
      BY <2>1, <2>7 DEF Retry, Call
    <3>3. QED
      BY <1>4, <2>2, <3>1, <3>2
  <2>8. QED
    BY <1>7, <2>3, <2>4, <2>5, <2>6, <2>7 DEF QuietStep
<1>8. QED
  BY <1>2, <1>3, <1>5, <1>6, <1>7 DEF Next, Continue, QuietStep, AddKey, vars

(* What the message m says for the key k that side s has counted. *)
Accounts(m, s, k) ==
    \/ m.key = k /\ m.from = s
    \/ m.key = k /\ m.fate = "text"
    \/ m.key < k /\ m.from = s /\ m.mode = 1

LEMMA NoKeyWastedStep ==
    ASSUME Parts, NoKeyWasted, [Next]_vars
    PROVE  NoKeyWasted'
<1>1. \A s \in Side : \A k \in DOMAIN used[s] : used[s][k] =>
         \E i \in DOMAIN msgs : Accounts(msgs[i], s, k)
  BY DEF NoKeyWasted, Accounts
<1>2. (\A s \in Side : \A k \in DOMAIN used'[s] : used'[s][k] =>
          \E i \in DOMAIN msgs' : Accounts(msgs'[i], s, k)) => NoKeyWasted'
  BY DEF NoKeyWasted, Accounts
<1>3. ASSUME Kept, NEW x \in Side, NEW k, NEW i \in DOMAIN msgs,
             Accounts(msgs[i], x, k)
      PROVE  \E j \in DOMAIN msgs' : Accounts(msgs'[j], x, k)
  <2>1. i \in DOMAIN msgs' /\ Accounts(msgs'[i], x, k)
    BY <1>3 DEF Kept, Accounts
  <2>2. QED
    BY <2>1
<1>4. ASSUME NEW s \in Side, NEW k, OnlyUsed(s, k), Kept,
             \E i \in DOMAIN msgs' : Accounts(msgs'[i], s, k)
      PROVE  NoKeyWasted'
  BY <1>1, <1>2, <1>3, <1>4 DEF OnlyUsed
<1>5. CASE NoneSent /\ UNCHANGED used
  BY <1>1, <1>2, <1>3, <1>5 DEF NoneSent
<1>6. ASSUME NEW s \in Side, AddKey(s) PROVE NoKeyWasted'
  BY <1>6, AddKeyKeeps DEF NoKeyWasted
<1>7. ASSUME NEW s \in Side, NEW t \in Threads, Mark(s, t) PROVE NoKeyWasted'
  <2> DEFINE c == calls[s][t]
             n == Len(msgs) + 1
  <2>1. /\ OnlyUsed(s, Counted(s, c)) /\ Kept /\ n \in DOMAIN msgs'
        /\ msgs'[n].from = s /\ msgs'[n].key = c.at /\ msgs'[n].mode = c.mode
    BY <1>7, MarkSends
  <2>2. /\ c.at \in 1 .. Len(used[s]) /\ Len(used[s]) \in Nat
        /\ c.mode \in {1, 2}
    BY <1>7, HereFacts DEF Mark, CallOK
  <2>3. Accounts(msgs'[n], s, Counted(s, c))
    <3>1. CASE c.mode = 2
      BY <2>1, <3>1 DEF Counted, Accounts
    <3>2. CASE c.mode = 1
      <4>1. Counted(s, c) = Len(used[s])
        BY <3>2 DEF Counted, Last
      <4>2. c.at = Len(used[s]) \/ c.at < Len(used[s])
        BY <2>2
      <4>3. QED
        BY <2>1, <3>2, <4>1, <4>2 DEF Accounts
    <3>3. QED
      BY <2>2, <3>1, <3>2
  <2>4. QED
    BY <1>4, <2>1, <2>3
<1>8. ASSUME NEW s \in Side, NEW t \in Threads, Opens(s, t) PROVE NoKeyWasted'
  <2>1. OnlyUsed(s, calls[s][t].at) /\ Kept
    BY <1>8, OpensKeeps DEF NoneSent
  <2>2. \E i \in DOMAIN msgs' :
           msgs'[i].key = calls[s][t].at /\ msgs'[i].fate = "text"
    BY <1>8, OpensKeeps DEF NoneSent, Kept
  <2>3. QED
    BY <1>4, <2>1, <2>2 DEF Accounts
<1>9. ASSUME NEW s \in Side, NEW t \in Threads, QuietStep(s, t) PROVE NoKeyWasted'
  BY <1>5, <1>9, QuietKeeps
<1>10. ASSUME NEW s \in Side, NEW t \in Threads, NEW mode \in Modes,
              Encrypt(s, t, mode)
       PROVE  NoKeyWasted'
  BY <1>5, <1>10 DEF Encrypt, NoneSent, Kept
<1>11. ASSUME NEW s \in Side, NEW t \in Threads, NEW i \in DOMAIN msgs,
              Decrypt(s, t, i)
       PROVE  NoKeyWasted'
  BY <1>5, <1>11, DecryptKeeps
<1>12. CASE UNCHANGED vars
  BY <1>5, <1>12 DEF vars, NoneSent, Kept
<1>13. QED
  BY <1>6, <1>7, <1>8, <1>9, <1>10, <1>11, <1>12 DEF Next, Continue, QuietStep

(* NoKeyWasted: in either mode a key that counts as used has been, but for  *)
(* one that arrives between the two looks of mode 1 at the last key.       *)
THEOREM NoKeyIsWasted == Spec => []NoKeyWasted
<1>1. Init => NoKeyWasted
  <2>1. ASSUME Init PROVE \A s \in Side : DOMAIN used[s] = {}
    BY <2>1 DEF Init
  <2>2. QED
    BY <2>1 DEF NoKeyWasted
<1>2. SearchInvariant => Parts
  BY SameParts
<1>3. QED
  BY <1>1, <1>2, NoKeyWastedStep, RingsInvariant, PTL DEF Spec

-----------------------------------------------------------------------------
(* What any step leaves alone.                                             *)

Grows == \A x \in Side : \A k \in DOMAIN used[x] :
            k \in DOMAIN used'[x] /\ (used[x][k] => used'[x][k])

LEMMA StepKeeps ==
    ASSUME Parts, [Next]_vars
    PROVE  /\ Kept /\ Grows
           /\ \A i \in DOMAIN msgs' : \/ i \in DOMAIN msgs
                                      \/ /\ i = Len(msgs) + 1
                                         /\ \E s \in Side, t \in Threads : Mark(s, t)
<1> DEFINE New == \A i \in DOMAIN msgs' : i \in DOMAIN msgs
<1>1. NoneSent => Kept /\ New
  BY DEF NoneSent
<1>2. UNCHANGED used => Grows
  BY DEF Grows
<1>3. \A s \in Side : \A k : OnlyUsed(s, k) => Grows
  BY DEF OnlyUsed, Grows
<1>4. ASSUME NEW s \in Side, AddKey(s) PROVE Kept /\ Grows /\ New
  BY <1>1, <1>4, AddKeyKeeps DEF Grows
<1>5. ASSUME NEW s \in Side, NEW t \in Threads, Opens(s, t)
      PROVE  Kept /\ Grows /\ New
  BY <1>1, <1>3, <1>5, OpensKeeps
<1>6. ASSUME NEW s \in Side, NEW t \in Threads,
             \/ QuietStep(s, t)
             \/ \E mode \in Modes : Encrypt(s, t, mode)
             \/ \E i \in DOMAIN msgs : Decrypt(s, t, i)
      PROVE  Kept /\ Grows /\ New
  <2>1. NoneSent /\ UNCHANGED used
    BY <1>6, QuietKeeps, DecryptKeeps DEF Encrypt, NoneSent, Kept
  <2>2. QED
    BY <1>1, <1>2, <2>1
<1>7. CASE UNCHANGED vars
  BY <1>1, <1>2, <1>7 DEF vars, NoneSent, Kept
<1>8. ASSUME NEW s \in Side, NEW t \in Threads, Mark(s, t)
      PROVE  /\ Kept /\ Grows
             /\ \A i \in DOMAIN msgs' : i \in DOMAIN msgs \/ i = Len(msgs) + 1
  <2>1. Kept /\ Grows
    BY <1>3, <1>8, MarkSends
  <2>2. QED
    BY <1>8, <2>1, MarkSends
<1>9. QED
  BY <1>4, <1>5, <1>6, <1>7, <1>8 DEF Next, Continue, QuietStep

(* The key of a message is in the ring it comes from, and in the one it is  *)
(* for, if it was there when decryption began.                             *)
LEMMA MessageKey ==
    ASSUME Parts, NEW i \in DOMAIN msgs
    PROVE  /\ i \in 1 .. Len(msgs) /\ Len(msgs) \in Nat
           /\ msgs[i].from \in Side /\ Other(msgs[i].from) \in Side
           /\ msgs[i].key \in Nat \ {0} /\ msgs[i].had \in Nat
           /\ msgs[i].key \in DOMAIN used[msgs[i].from]
           /\ msgs[i].key <= msgs[i].had =>
                 msgs[i].key \in DOMAIN used[Other(msgs[i].from)]
<1> DEFINE x == msgs[i].from
           y == Other(x)
<1>1. /\ msgs[i] \in Message /\ x \in Side /\ y \in Side
      /\ msgs \in Seq(Message) /\ i \in 1 .. Len(msgs)
      /\ MessageOK(msgs[i], Sizes) /\ used \in [Side -> Seq(BOOLEAN)]
  BY MessageType, SideFacts DEF Parts, Types
<1>2. /\ msgs[i].key \in Nat \ {0} /\ msgs[i].had \in Nat
      /\ msgs[i].key <= Len(used[x]) /\ msgs[i].had <= Len(used[y])
  BY <1>1 DEF Message, MessageOK, Sizes
<1>3. /\ used[x] \in Seq(BOOLEAN) /\ used[y] \in Seq(BOOLEAN)
  BY <1>1
<1> HIDE DEF x, y
<1>4. /\ msgs[i].key \in DOMAIN used[x]
      /\ msgs[i].key <= msgs[i].had => msgs[i].key \in DOMAIN used[y]
  BY <1>2, <1>3
<1>5. QED
  BY <1>1, <1>2, <1>4 DEF x, y

LEMMA LengthGrows ==
    ASSUME Parts, Parts', Kept
    PROVE  Len(msgs) \in Nat /\ Len(msgs') \in Nat /\ Len(msgs) <= Len(msgs')
<1>1. msgs \in Seq(Message) /\ msgs' \in Seq(Message)
  BY DEF Parts, Types
<1>2. /\ DOMAIN msgs = 1 .. Len(msgs) /\ Len(msgs) \in Nat
      /\ DOMAIN msgs' = 1 .. Len(msgs') /\ Len(msgs') \in Nat
  BY <1>1
<1>3. CASE Len(msgs) = 0
  BY <1>2, <1>3
<1>4. CASE Len(msgs) # 0
  <2>1. Len(msgs) \in DOMAIN msgs
    BY <1>2, <1>4
  <2>2. Len(msgs) \in DOMAIN msgs'
    BY <2>1 DEF Kept
  <2>3. QED
    BY <1>2, <2>2
<1>5. QED
  BY <1>3, <1>4

-----------------------------------------------------------------------------
(* Keys and the threads that encrypt with them.                            *)

LEMMA KeysSpentStep ==
    ASSUME Parts, KeysSpent, [Next]_vars
    PROVE  KeysSpent'
<1>1. SUFFICES ASSUME NEW i \in DOMAIN msgs', msgs'[i].mode = 2
               PROVE  used'[msgs'[i].from][msgs'[i].key]
  BY DEF KeysSpent
<1>2. CASE i \in DOMAIN msgs
  <2>1. /\ msgs'[i].from = msgs[i].from /\ msgs'[i].key = msgs[i].key
        /\ msgs[i].mode = 2 /\ Grows
    BY <1>1, <1>2, StepKeeps DEF Kept
  <2>2. used[msgs[i].from][msgs[i].key]
    BY <1>2, <2>1 DEF KeysSpent
  <2>3. msgs[i].from \in Side /\ msgs[i].key \in DOMAIN used[msgs[i].from]
    BY <1>2, MessageKey
  <2>4. QED
    BY <2>1, <2>2, <2>3 DEF Grows
<1>3. CASE i \notin DOMAIN msgs
  <2>1. PICK s \in Side, t \in Threads : Mark(s, t) /\ i = Len(msgs) + 1
    BY <1>3, StepKeeps
  <2> DEFINE c == calls[s][t]
  <2>2. /\ msgs'[i].from = s /\ msgs'[i].key = c.at /\ msgs'[i].mode = c.mode
        /\ used'[s][Counted(s, c)]
    BY <2>1, MarkSends
  <2>3. Counted(s, c) = c.at
    BY <1>1, <2>2 DEF Counted
  <2>4. QED
    BY <2>2, <2>3
<1>4. QED
  BY <1>2, <1>3

LEMMA FirstWhenBegunStep ==
    ASSUME Parts, Parts', KeysSpent, FirstWhenBegun, [Next]_vars
    PROVE  FirstWhenBegun'
<1>1. SUFFICES ASSUME NEW s \in Side, NEW t \in Threads,
                      calls'[s][t].step \in {"scan", "mark"}
               PROVE  LET d == calls'[s][t]
                      IN  /\ d.begun <= Len(msgs')
                          /\ d.step = "mark" /\ d.mode = 2 =>
                                \A i \in DOMAIN msgs' :
                                   /\ msgs'[i].mode = 2 /\ msgs'[i].from = s
                                   /\ msgs'[i].key = d.at
                                   => d.begun < i
  BY DEF FirstWhenBegun
<1> DEFINE c == calls[s][t]
           d == calls'[s][t]
<1>2. /\ Kept /\ Len(msgs) \in Nat /\ Len(msgs') \in Nat
      /\ Len(msgs) <= Len(msgs')
      /\ \A i \in DOMAIN msgs' : i \in DOMAIN msgs \/ i = Len(msgs) + 1
  BY StepKeeps, LengthGrows
<1>3. c \in Call /\ d \in Call /\ c.begun \in Nat /\ d.begun \in Nat
  BY HereFacts DEF Parts, Types, Call
<1>4. CASE d = c
  <2>1. c.begun <= Len(msgs)
    BY <1>1, <1>4 DEF FirstWhenBegun
  <2>2. ASSUME NEW i \in DOMAIN msgs', d.step = "mark", d.mode = 2,
               msgs'[i].mode = 2, msgs'[i].from = s, msgs'[i].key = d.at
        PROVE  d.begun < i
    <3>1. CASE i \in DOMAIN msgs
      BY <1>2, <1>4, <2>2, <3>1 DEF Kept, FirstWhenBegun
    <3>2. CASE i = Len(msgs) + 1
      BY <1>2, <1>3, <1>4, <2>1, <3>2
    <3>3. QED
      BY <1>2, <3>1, <3>2
  <2>3. QED
    BY <1>2, <1>3, <1>4, <2>1, <2>2
<1>5. CASE Begins(d)
  BY <1>2, <1>5 DEF Begins
<1>6. CASE Finds(s, t, d)
  <2>1. Scan(s, t) /\ d.begun = c.begun /\ msgs' = msgs /\ c.step = "scan"
    BY <1>6 DEF Finds, Scan
  <2>2. c.begun <= Len(msgs)
    BY <2>1 DEF FirstWhenBegun
  <2>3. ASSUME NEW i \in DOMAIN msgs, d.step = "mark",
               msgs[i].mode = 2, msgs[i].from = s, msgs[i].key = d.at
        PROVE  FALSE
    <3>1. ~used[s][d.at]
      BY <1>6, <2>3 DEF Finds
    <3>2. used[s][d.at]
      BY <2>3 DEF KeysSpent
    <3>3. QED
      BY <3>1, <3>2
  <2>4. QED
    BY <2>1, <2>2, <2>3
<1>7. QED
  BY <1>1, <1>4, <1>5, <1>6, CallOrigin DEF Origin, Reached

LEMMA TogetherStep ==
    ASSUME Parts, FirstWhenBegun, TwiceOnlyTogether, [Next]_vars
    PROVE  TwiceOnlyTogether'
<1>1. SUFFICES ASSUME NEW i \in DOMAIN msgs', NEW j \in DOMAIN msgs',
                      msgs'[i].mode = 2, msgs'[j].mode = 2,
                      msgs'[i].key = msgs'[j].key,
                      msgs'[i].from = msgs'[j].from, i # j, i < j
               PROVE  msgs'[j].begun < i
  BY DEF TwiceOnlyTogether, SameKeyTwice
<1>2. /\ DOMAIN msgs = 1 .. Len(msgs) /\ Len(msgs) \in Nat
      /\ Kept
      /\ \A k \in DOMAIN msgs' : k \in DOMAIN msgs \/ k = Len(msgs) + 1
  BY StepKeeps DEF Parts, Types
<1>3. i \in DOMAIN msgs
  BY <1>1, <1>2
<1>4. CASE j \in DOMAIN msgs
  BY <1>1, <1>2, <1>3, <1>4 DEF Kept, TwiceOnlyTogether, SameKeyTwice
<1>5. CASE j \notin DOMAIN msgs
  <2>1. PICK s \in Side, t \in Threads : Mark(s, t) /\ j = Len(msgs) + 1
    BY <1>5, StepKeeps
  <2> DEFINE c == calls[s][t]
  <2>2. /\ msgs'[j].from = s /\ msgs'[j].key = c.at /\ msgs'[j].mode = c.mode
        /\ msgs'[j].begun = c.begun
    BY <2>1, MarkSends
  <2>3. /\ msgs[i].mode = 2 /\ msgs[i].from = s /\ msgs[i].key = c.at
    BY <1>1, <1>2, <1>3, <2>2 DEF Kept
  <2>4. c.step = "mark" /\ c.mode = 2
    BY <1>1, <2>1, <2>2 DEF Mark
  <2>5. c.begun < i
    BY <1>3, <2>3, <2>4 DEF FirstWhenBegun
  <2>6. QED
    BY <2>2, <2>5
<1>6. QED
  BY <1>4, <1>5

-----------------------------------------------------------------------------
(* The search of mode 2.                                                   *)

(* What a step knows of the call it goes on with. *)
LEMMA SearchHere ==
    ASSUME Parts, SearchedMode2, NEW s \in Side, NEW t \in Threads,
           Decrypting(calls[s][t])
    PROVE  LET c == calls[s][t]
               m == msgs[c.msg]
           IN  /\ c.msg \in DOMAIN msgs
               /\ m.fate = "opening" /\ m.mode = c.mode
               /\ m.from = Other(s) /\ Other(m.from) = s
               /\ m.key \in Nat \ {0} /\ m.had \in Nat
               /\ m.key <= m.had => m.key \in DOMAIN used[s]
               /\ SearchOK(c, m, used[s])
<1> DEFINE c == calls[s][t]
<1>1. /\ c.msg \in DOMAIN msgs /\ msgs[c.msg].fate = "opening"
      /\ msgs[c.msg].from = Other(s) /\ msgs[c.msg].mode = c.mode
  BY HereFacts DEF CallOK
<1>2. Other(msgs[c.msg].from) = s
  BY <1>1, SideFacts
<1>3. SearchOK(c, msgs[c.msg], used[s])
  BY DEF SearchedMode2
<1>4. QED
  BY <1>1, <1>2, <1>3, MessageKey

(* A step that leaves the call c behind: the others have lost nothing.      *)
LEMMA SearchStep ==
    ASSUME Parts, SearchedMode2, Kept, Grows,
           NEW s \in Side, NEW t \in Threads, NEW c,
           SetCall(s, t, c),
           Decrypting(c) => SearchOK(c, msgs'[c.msg], used'[s])
    PROVE  SearchedMode2'
<1>1. /\ calls'[s][t] = c
      /\ \A x \in Side, u \in Threads :
            x # s \/ u # t => calls'[x][u] = calls[x][u]
  BY DEF Parts, Types, SetCall
<1>2. SUFFICES ASSUME NEW x \in Side, NEW u \in Threads,
                      Decrypting(calls'[x][u])
               PROVE  SearchOK(calls'[x][u], msgs'[calls'[x][u].msg], used'[x])
  BY DEF SearchedMode2, Decrypting, SearchOK, Recent, Had
<1>3. CASE x = s /\ u = t
  BY <1>1, <1>2, <1>3
<1>4. CASE x # s \/ u # t
  <2> DEFINE d == calls[x][u]
             m == msgs[d.msg]
  <2>1. calls'[x][u] = d
    BY <1>1, <1>4
  <2>2. /\ d.msg \in DOMAIN msgs /\ m.fate = "opening"
        /\ m.key <= m.had => m.key \in DOMAIN used[x]
        /\ m.key \in Nat /\ m.had \in Nat
        /\ SearchOK(d, m, used[x])
    BY <1>2, <2>1, SearchHere
  <2>3. msgs'[d.msg].key = m.key /\ msgs'[d.msg].had = m.had
    BY <2>2 DEF Kept
  <2>4. m.key <= m.had /\ used[x][m.key] => used'[x][m.key]
    BY <2>2 DEF Grows
  <2> HIDE DEF d, m
  <2>5. SearchOK(d, msgs'[d.msg], used'[x])
    BY <2>2, <2>3, <2>4 DEF SearchOK, Recent, Had
  <2>6. QED
    BY <2>1, <2>5
<1>5. QED
  BY <1>3, <1>4

LEMMA DecryptSearch ==
    ASSUME Parts, SearchedMode2, Kept, Grows,
           NEW s \in Side, NEW t \in Threads, NEW i \in DOMAIN msgs,
           Decrypt(s, t, i), ~UNCHANGED calls
    PROVE  SearchedMode2'
<1> DEFINE n == Len(used[s])
           c == [NoCall EXCEPT !.step = IF msgs[i].mode = 1 THEN "try" ELSE "look",
                               !.mode = msgs[i].mode,
                               !.msg = i,
                               !.at = n]
<1>1. /\ SetCall(s, t, c)
      /\ msgs' = [msgs EXCEPT ![i].fate = "opening", ![i].had = n]
  BY DEF Decrypt, Last
<1>2. msgs \in Seq(Message) /\ msgs[i] \in Message /\ n \in Nat
  BY HereFacts, MessageType
<1>3. msgs'[i].had = n /\ msgs'[i].key \in Nat
  BY <1>1, <1>2 DEF Message
<1>4. /\ c.at = n /\ c.tries = 0 /\ c.msg = i
      /\ c.step = IF c.mode = 1 THEN "try" ELSE "look"
  BY DEF NoCall
<1> HIDE DEF n, c
<1>5. SearchOK(c, msgs'[i], used'[s])
  BY <1>2, <1>3, <1>4 DEF SearchOK
<1>6. QED
  BY <1>1, <1>4, <1>5, SearchStep

LEMMA LookSearch ==
    ASSUME Parts, SearchedMode2, Kept, Grows,
           NEW s \in Side, NEW t \in Threads, Look(s, t)
    PROVE  SearchedMode2'
<1> DEFINE c == calls[s][t]
           m == msgs[c.msg]
           r == used[s]
<1>1. /\ c.step = "look" /\ c \in Call /\ c.at \in Nat
      /\ c.tries \in 0 .. MaxAttempts /\ MaxAttempts \in Nat
      /\ c.mode = 2
  BY HereFacts DEF Look, CallOK
<1>2. /\ m.key \in Nat \ {0} /\ m.had \in Nat
      /\ c.at = m.had - c.tries
      /\ c.at < m.key /\ m.key <= m.had => r[m.key]
  BY <1>1, SearchHere DEF Decrypting, SearchOK
<1>3. msgs' = msgs /\ used'[s] = r
  BY DEF Look
<1>4. ASSUME NEW d, SetCall(s, t, d), d.msg = c.msg, SearchOK(d, m, r)
      PROVE  SearchedMode2'
  BY <1>3, <1>4, SearchStep
<1>5. CASE Exhausted(c) /\ SetCall(s, t, [c EXCEPT !.step = "retry", !.at = 1])
  <2> DEFINE d == [c EXCEPT !.step = "retry", !.at = 1]
  <2>1. d.step = "retry" /\ d.msg = c.msg
    BY <1>1 DEF Call
  <2>2. Recent(m) => r[m.key]
    <3>1. CASE c.at = 0
      BY <1>2, <3>1 DEF Recent, Had
    <3>2. CASE c.tries = MaxAttempts
      BY <1>1, <1>2, <3>2 DEF Recent, Had
    <3>3. QED
      BY <1>5, <3>1, <3>2 DEF Exhausted
  <2> HIDE DEF d, m, r, c
  <2>3. SearchOK(d, m, r)
    BY <2>1, <2>2 DEF SearchOK
  <2>4. QED
    BY <1>4, <1>5, <2>1, <2>3 DEF d
<1>6. CASE r[c.at] /\ SetCall(s, t, [Down(c) EXCEPT !.skips = @ + 1])
  <2> DEFINE d == [Down(c) EXCEPT !.skips = @ + 1]
  <2>1. /\ d.step = "look" /\ d.at = c.at - 1 /\ d.tries = c.tries + 1
        /\ d.msg = c.msg
    BY <1>1 DEF Call, Down
  <2> HIDE DEF d, m, r, c
  <2>2. /\ d.at = m.had - d.tries
        /\ d.at < m.key /\ m.key <= m.had => r[m.key]
    BY <1>1, <1>2, <1>6, <2>1
  <2>3. SearchOK(d, m, r)
    BY <2>1, <2>2 DEF SearchOK
  <2>4. QED
    BY <1>4, <1>6, <2>1, <2>3 DEF d
<1>7. CASE SetCall(s, t, [c EXCEPT !.step = "try"])
  <2> DEFINE d == [c EXCEPT !.step = "try"]
  <2>1. /\ d.step = "try" /\ d.at = c.at /\ d.tries = c.tries
        /\ d.msg = c.msg
    BY <1>1 DEF Call
  <2> HIDE DEF d, m, r, c
  <2>2. SearchOK(d, m, r)
    BY <1>2, <2>1 DEF SearchOK
  <2>3. QED
    BY <1>4, <1>7, <2>1, <2>2 DEF d
<1>8. QED
  BY <1>5, <1>6, <1>7 DEF Look

LEMMA NextKeyMode2Search ==
    ASSUME Parts, SearchedMode2, Kept, Grows,
           NEW s \in Side, NEW t \in Threads, NextKeyMode2(s, t)
    PROVE  SearchedMode2'
<1> DEFINE c == calls[s][t]
           m == msgs[c.msg]
           r == used[s]
<1>1. /\ c.step = "try" /\ c \in Call /\ c.at \in Nat /\ c.mode = 2
      /\ c.tries \in 0 .. MaxAttempts /\ MaxAttempts \in Nat
      /\ m.key # c.at
  BY HereFacts DEF NextKeyMode2, Fits
<1>2. /\ m.key \in Nat \ {0} /\ m.had \in Nat
      /\ c.at = m.had - c.tries
      /\ c.at < m.key /\ m.key <= m.had => r[m.key]
  BY <1>1, SearchHere DEF Decrypting, SearchOK
<1>3. msgs' = msgs /\ used'[s] = r
  BY DEF NextKeyMode2
<1>4. ASSUME NEW d, SetCall(s, t, d), d.msg = c.msg, SearchOK(d, m, r)
      PROVE  SearchedMode2'
  BY <1>3, <1>4, SearchStep
<1>5. CASE c.at = 1 /\ SetCall(s, t, [c EXCEPT !.step = "retry"])
  <2> DEFINE d == [c EXCEPT !.step = "retry"]
  <2>1. d.step = "retry" /\ d.msg = c.msg
    BY <1>1 DEF Call
  <2>2. Recent(m) => r[m.key]
    BY <1>1, <1>2, <1>5 DEF Recent, Had
  <2> HIDE DEF d, m, r, c
  <2>3. SearchOK(d, m, r)
    BY <2>1, <2>2 DEF SearchOK
  <2>4. QED
    BY <1>4, <1>5, <2>1, <2>3 DEF d
<1>6. CASE SetCall(s, t, [Down(c) EXCEPT !.step = "look"])
  <2> DEFINE d == [Down(c) EXCEPT !.step = "look"]
  <2>1. /\ d.step = "look" /\ d.at = c.at - 1 /\ d.tries = c.tries + 1
        /\ d.msg = c.msg
    BY <1>1 DEF Call, Down
  <2> HIDE DEF d, m, r, c
  <2>2. /\ d.at = m.had - d.tries
        /\ d.at < m.key /\ m.key <= m.had => r[m.key]
    BY <1>1, <1>2, <1>6, <2>1
  <2>3. SearchOK(d, m, r)
    BY <2>1, <2>2 DEF SearchOK
  <2>4. QED
    BY <1>4, <1>6, <2>1, <2>3 DEF d
<1>7. QED
  BY <1>5, <1>6 DEF NextKeyMode2, AtBottom

LEMMA RetrySearch ==
    ASSUME Parts, SearchedMode2, Kept, Grows,
           NEW s \in Side, NEW t \in Threads, Retry(s, t), ~SetCall(s, t, NoCall)
    PROVE  SearchedMode2'
<1> DEFINE c == calls[s][t]
           d == [c EXCEPT !.at = @ + 1]
<1>1. /\ c.step = "retry" /\ c \in Call
      /\ SetCall(s, t, d) /\ msgs' = msgs /\ used' = used
  BY HereFacts DEF Retry, Answer
<1>2. d.step = "retry" /\ d.mode = c.mode /\ d.msg = c.msg
  BY <1>1 DEF Call
<1>3. SearchOK(c, msgs[c.msg], used[s])
  BY <1>1, SearchHere DEF Decrypting
<1> HIDE DEF c, d
<1>4. SearchOK(d, msgs[c.msg], used[s])
  BY <1>1, <1>2, <1>3 DEF SearchOK
<1>5. QED
  BY <1>1, <1>2, <1>4, SearchStep

LEMMA SearchedMode2Step ==
    ASSUME Parts, SearchedMode2, [Next]_vars
    PROVE  SearchedMode2'
<1>1. Kept /\ Grows
  BY StepKeeps
<1>2. CASE UNCHANGED calls
  <2>1. SUFFICES ASSUME NEW s \in Side, NEW t \in Threads,
                        Decrypting(calls[s][t])
                 PROVE  SearchedMode2'
    BY <1>2 DEF SearchedMode2, Decrypting
  <2> DEFINE c == calls[s][t]
             m == msgs[c.msg]
  <2>2. /\ c.msg \in DOMAIN msgs /\ m.fate = "opening"
        /\ m.key <= m.had => m.key \in DOMAIN used[s]
        /\ m.key \in Nat /\ m.had \in Nat
        /\ SearchOK(c, m, used[s])
    BY <2>1, SearchHere
  <2>3. msgs'[c.msg].key = m.key /\ msgs'[c.msg].had = m.had
    BY <1>1, <2>2 DEF Kept
  <2>4. m.key <= m.had /\ used[s][m.key] => used'[s][m.key]
    BY <1>1, <2>2 DEF Grows
  <2>5. SetCall(s, t, c)
    BY <1>2 DEF SetCall, Parts, Types
  <2> HIDE DEF c, m
  <2>6. SearchOK(c, msgs'[c.msg], used'[s])
    BY <2>2, <2>3, <2>4 DEF SearchOK, Recent, Had
  <2>7. QED
    BY <1>1, <2>5, <2>6, SearchStep
<1>3. ASSUME NEW s \in Side, NEW t \in Threads, NEW c, SetCall(s, t, c),
             ~Decrypting(c) \/ c.mode = 1
      PROVE  SearchedMode2'
  BY <1>1, <1>3, SearchStep DEF SearchOK
<1>4. ASSUME NEW s \in Side, NEW t \in Threads, SetCall(s, t, NoCall)
      PROVE  SearchedMode2'
  BY <1>3, <1>4, NoCallType
<1>5. ASSUME NEW s \in Side, NEW t \in Threads, NEW mode \in Modes,
             Encrypt(s, t, mode)
      PROVE  SearchedMode2'
  <2> DEFINE c == [NoCall EXCEPT !.step = IF mode = 1 THEN "mark" ELSE "scan",
                                 !.mode = mode, !.begun = Len(msgs),
                                 !.at = Last(s)]
  <2>1. SetCall(s, t, c)
    BY <1>5 DEF Encrypt
  <2>2. ~Decrypting(c)
    BY DEF NoCall, Decrypting
  <2>3. QED
    BY <1>3, <2>1, <2>2
<1>6. ASSUME NEW s \in Side, NEW t \in Threads, Scan(s, t)
      PROVE  SearchedMode2'
  <2> DEFINE c == calls[s][t]
  <2>1. c \in Call /\ c.step = "scan"
    BY <1>6, HereFacts DEF Scan
  <2>2. \/ SetCall(s, t, NoCall)
        \/ SetCall(s, t, Down(c))
        \/ SetCall(s, t, [c EXCEPT !.step = "mark"])
    BY <1>6 DEF Scan
  <2>3. ~Decrypting(Down(c)) /\ ~Decrypting([c EXCEPT !.step = "mark"])
    BY <2>1 DEF Decrypting, Call, Down
  <2>4. QED
    BY <1>3, <1>4, <2>2, <2>3
<1>7. ASSUME NEW s \in Side, NEW t \in Threads, NextKeyMode1(s, t)
      PROVE  SearchedMode2'
  <2> DEFINE c == calls[s][t]
  <2>1. c \in Call /\ c.mode = 1
    BY <1>7, HereFacts DEF NextKeyMode1
  <2>2. SetCall(s, t, NoCall) \/ SetCall(s, t, Down(c))
    BY <1>7 DEF NextKeyMode1, Answer
  <2>3. Down(c).mode = 1
    BY <2>1 DEF Call, Down
  <2>4. QED
    BY <1>3, <1>4, <2>2, <2>3
<1>8. ASSUME NEW s \in Side, NEW t \in Threads, Mark(s, t) \/ Opens(s, t) \/ Throws(s, t)
      PROVE  SearchedMode2'
  BY <1>4, <1>8 DEF Mark, Opens, Throws, Answer
<1>9. ASSUME NEW s \in Side, NEW t \in Threads, Continue(s, t)
      PROVE  SearchedMode2'
  BY <1>1, <1>4, <1>6, <1>7, <1>8, <1>9, LookSearch, NextKeyMode2Search, RetrySearch
     DEF Continue
<1>10. ASSUME NEW s \in Side, NEW t \in Threads, NEW i \in DOMAIN msgs,
              Decrypt(s, t, i)
       PROVE  SearchedMode2'
  BY <1>1, <1>2, <1>10, DecryptSearch
<1>11. QED
  BY <1>2, <1>5, <1>9, <1>10 DEF Next, AddKey, vars

(* In mode 2 it is a search that is over that fails.                        *)
LEMMA FailsLast ==
    ASSUME Parts, [Next]_vars, NEW i \in DOMAIN msgs, msgs[i].mode = 2,
           msgs[i].fate # "failed", msgs'[i].fate = "failed"
    PROVE  \E s \in Side, t \in Threads :
              calls[s][t].step = "retry" /\ calls[s][t].msg = i
<1>1. ASSUME NEW s \in Side, NEW t \in Threads, NEW fate \in Fate,
             Answer(s, t, fate), Decrypting(calls[s][t])
      PROVE  fate = "failed" /\ calls[s][t].msg = i
  <2>1. msgs' = [msgs EXCEPT ![calls[s][t].msg].fate = fate]
    BY <1>1 DEF Answer
  <2>2. calls[s][t].msg = i
    BY <2>1
  <2>3. QED
    BY <1>1, <2>2, AnswerKeeps
<1>2. ~UNCHANGED msgs
  OBVIOUS
<1>3. ASSUME NEW s \in Side, NEW t \in Threads, NEW j \in DOMAIN msgs,
             Decrypt(s, t, j)
      PROVE  FALSE
  <2>1. msgs[j] \in Message
    BY HereFacts, MessageType
  <2>2. PICK m \in {[msgs[j] EXCEPT !.fate = "wait"],
                   [msgs[j] EXCEPT !.fate = "opening", !.had = Len(used[s])]} :
           msgs' = [msgs EXCEPT ![j] = m]
    BY <1>3, <2>1 DEF Decrypt, Message
  <2>3. m.fate \in {"wait", "opening"}
    BY <2>1 DEF Message
  <2>4. QED
    BY <2>2, <2>3
<1>4. ASSUME NEW s \in Side, NEW t \in Threads, Mark(s, t)
      PROVE  FALSE
  <2>1. msgs \in Seq(Message) /\ i \in 1 .. Len(msgs)
    BY <1>4, HereFacts, MessageType
  <2>2. \E m : msgs' = Append(msgs, m)
    BY <1>4 DEF Mark
  <2>3. msgs'[i] = msgs[i]
    BY <2>1, <2>2
  <2>4. QED
    BY <2>3
<1>5. ASSUME NEW s \in Side, NEW t \in Threads, Opens(s, t) \/ Throws(s, t)
      PROVE  FALSE
  <2>1. Decrypting(calls[s][t])
    BY <1>5 DEF Opens, Throws, Trying, Decrypting
  <2>2. \E fate \in {"text", "exception"} : Answer(s, t, fate)
    BY <1>5 DEF Opens, Throws
  <2>3. PICK fate \in {"text", "exception"} : Answer(s, t, fate)
    BY <2>2
  <2>4. fate \in Fate /\ fate # "failed"
    BY DEF Fate
  <2>5. QED
    BY <1>1, <2>1, <2>3, <2>4
<1>6. ASSUME NEW s \in Side, NEW t \in Threads, NextKeyMode1(s, t)
      PROVE  FALSE
  <2>1. /\ calls[s][t].step = "try" /\ calls[s][t].mode = 1
        /\ Decrypting(calls[s][t])
    BY <1>6 DEF NextKeyMode1, Decrypting
  <2>2. msgs[calls[s][t].msg].mode = 1
    BY <2>1, HereFacts DEF CallOK
  <2>3. \E fate \in {"failed", "garbage"} : Answer(s, t, fate)
    BY <1>2, <1>6 DEF NextKeyMode1
  <2>4. PICK fate \in {"failed", "garbage"} : Answer(s, t, fate)
    BY <2>3
  <2>5. calls[s][t].msg = i
    BY <1>1, <2>1, <2>4 DEF Fate
  <2>6. QED
    BY <2>2, <2>5
<1>7. ASSUME NEW s \in Side, NEW t \in Threads, Retry(s, t)
      PROVE  calls[s][t].step = "retry" /\ calls[s][t].msg = i
  <2>1. Answer(s, t, "failed") /\ calls[s][t].step = "retry"
    BY <1>2, <1>7 DEF Retry
  <2>2. QED
    BY <1>1, <2>1 DEF Decrypting, Fate
<1>8. QED
  BY <1>2, <1>3, <1>4, <1>5, <1>6, <1>7
     DEF Next, Continue, AddKey, Encrypt, Scan, Look, NextKeyMode2, vars

LEMMA Mode2HonestStep ==
    ASSUME Parts, SearchedMode2, Mode2Honest, [Next]_vars
    PROVE  Mode2Honest'
<1>1. SUFFICES ASSUME NEW i \in DOMAIN msgs', msgs'[i].mode = 2,
                      msgs'[i].fate = "failed", Recent(msgs'[i])
               PROVE  used'[Other(msgs'[i].from)][msgs'[i].key]
  BY DEF Mode2Honest, Recent, Had
<1>2. Kept /\ Grows
  BY StepKeeps
<1>3. i \in DOMAIN msgs
  <2>1. SUFFICES ASSUME i \notin DOMAIN msgs PROVE FALSE
    OBVIOUS
  <2>2. PICK s \in Side, t \in Threads : Mark(s, t) /\ i = Len(msgs) + 1
    BY <2>1, StepKeeps
  <2>3. QED
    BY <1>1, <2>2, MarkSends
<1> DEFINE m == msgs[i]
           y == Other(m.from)
<1>4. /\ msgs'[i].from = m.from /\ msgs'[i].key = m.key /\ m.mode = 2
      /\ m.fate # "sent" => msgs'[i].had = m.had
  BY <1>1, <1>2, <1>3 DEF Kept
<1>5. /\ y \in Side /\ m.key \in Nat /\ m.had \in Nat
      /\ m.key <= m.had => m.key \in DOMAIN used[y]
  BY <1>3, MessageKey
<1>6. m.fate # "sent" /\ used[y][m.key] => used'[y][m.key]
  <2>1. m.fate # "sent" => m.key <= m.had
    BY <1>1, <1>4 DEF Recent, Had
  <2>2. QED
    BY <1>2, <1>5, <2>1 DEF Grows
<1>7. CASE m.fate = "failed"
  <2>1. Recent(m)
    BY <1>1, <1>4, <1>7 DEF Recent, Had
  <2>2. used[y][m.key]
    BY <1>3, <1>4, <1>7, <2>1 DEF Mode2Honest
  <2>3. QED
    BY <1>4, <1>6, <1>7, <2>2
<1>8. CASE m.fate # "failed"
  <2>1. PICK s \in Side, t \in Threads :
           calls[s][t].step = "retry" /\ calls[s][t].msg = i
    BY <1>1, <1>3, <1>4, <1>8, FailsLast
  <2>2. /\ m.fate = "opening" /\ y = s /\ calls[s][t].mode = 2
        /\ SearchOK(calls[s][t], m, used[s])
    BY <1>4, <2>1, SearchHere DEF Decrypting
  <2>3. Recent(m)
    BY <1>1, <1>4, <2>2 DEF Recent, Had
  <2>4. used[y][m.key]
    BY <2>1, <2>2, <2>3 DEF SearchOK
  <2>5. QED
    BY <1>4, <1>6, <2>2, <2>4
<1>9. QED
  BY <1>7, <1>8

(* The whole invariant: what a call has ruled out in either mode, and that  *)
(* an encryption under way is the first with its key but for those that    *)
(* left while it was.                                                      *)
THEOREM CallsInvariant == Spec => []CryptInvariant
<1> DEFINE Uses == /\ SearchedMode2 /\ Mode2Honest
                   /\ KeysSpent /\ FirstWhenBegun /\ TwiceOnlyTogether
<1>1. Init => Uses
  <2> SUFFICES ASSUME Init PROVE Uses
    OBVIOUS
  <2>1. DOMAIN msgs = {} /\ \A s \in Side, t \in Threads : calls[s][t].step = "idle"
    BY DEF Init, NoCall
  <2>2. QED
    BY <2>1 DEF SearchedMode2, Mode2Honest, KeysSpent, FirstWhenBegun,
                TwiceOnlyTogether, Decrypting
<1>2. SearchInvariant /\ SearchInvariant' /\ Uses /\ [Next]_vars => Uses'
  <2> SUFFICES ASSUME SearchInvariant, SearchInvariant', Uses, [Next]_vars
               PROVE  Uses'
    OBVIOUS
  <2>1. Parts
    BY SameParts
  <2>2. Parts'
    BY <2>1, NextParts
  <2>3. QED
    BY <2>1, <2>2, SearchedMode2Step, Mode2HonestStep, KeysSpentStep,
       FirstWhenBegunStep, TogetherStep
<1>3. SearchInvariant /\ Uses => CryptInvariant
  BY DEF CryptInvariant
<1>4. QED
  BY <1>1, <1>2, <1>3, RingsInvariant, PTL DEF Spec

(* Mode2Honest: mode 2 fails only for keys the receiver did not have, keys  *)
(* out of its reach, and keys it has used itself.                          *)
THEOREM Mode2IsHonest == Spec => []Mode2Honest
<1>1. CryptInvariant => Mode2Honest
  BY DEF CryptInvariant
<1>2. QED
  BY <1>1, CallsInvariant, PTL

(* TwiceOnlyTogether: for any number of threads, a side encrypts twice with *)
(* a key in mode 2 only in calls that are under way at the same time.      *)
THEOREM TwiceIsTogether == Spec => []TwiceOnlyTogether
<1>1. CryptInvariant => TwiceOnlyTogether
  BY DEF CryptInvariant
<1>2. QED
  BY <1>1, CallsInvariant, PTL

-----------------------------------------------------------------------------
(* Calls end after a bounded number of steps.                              *)

LEMMA WorkType ==
    ASSUME NEW c \in Call
    PROVE  Work(c) \in 0 .. 3 * MaxAttempts + 2
<1>1. /\ c.step \in Step /\ c.at \in Nat
      /\ c.tries \in 0 .. MaxAttempts /\ c.skips \in 0 .. MaxAttempts
      /\ MaxAttempts \in Nat \ {0}
  BY CryptAssumption DEF Call
<1>2. QED
  BY <1>1 DEF Work, Step

LEMMA WorkLeft ==
    ASSUME NEW c \in Call, c.step # "idle"
    PROVE  0 < Work(c)
<1>1. /\ c.step \in Step /\ c.at \in Nat
      /\ c.tries \in 0 .. MaxAttempts /\ c.skips \in 0 .. MaxAttempts
      /\ MaxAttempts \in Nat \ {0}
  BY CryptAssumption DEF Call
<1>2. QED
  BY <1>1 DEF Work, Step

LEMMA DownFields ==
    ASSUME NEW c \in Call
    PROVE  /\ Down(c).step = c.step /\ Down(c).tries = c.tries + 1
           /\ [Down(c) EXCEPT !.skips = @ + 1].step = c.step
           /\ [Down(c) EXCEPT !.skips = @ + 1].tries = c.tries + 1
<1> DEFINE b == [c EXCEPT !.at = @ - 1]
<1>1. b = [c EXCEPT !.at = c.at - 1] /\ Down(c) = [c EXCEPT !.at = c.at - 1, !.tries = c.tries + 1]
  BY DEF Down
<1>2. Down(c) = [step |-> c.step, mode |-> c.mode, msg |-> c.msg,
                 begun |-> c.begun, at |-> c.at - 1, tries |-> c.tries + 1, skips |-> c.skips]
  BY <1>1 DEF Call
<1>3. QED
  BY <1>2

(* One attempt less, and never more steps than an attempt is worth.         *)
LEMMA DownShrinks ==
    ASSUME NEW c \in Call, NEW d \in Call, c.tries < MaxAttempts,
           d.tries = c.tries + 1, c.step \in {"scan", "look", "try"},
           d.step = c.step \/ (c.step = "try" /\ d.step = "look")
    PROVE  Work(d) < Work(c)
<1>1. MaxAttempts \in Nat /\ c.tries \in Nat /\ d.tries \in Nat
  BY CryptAssumption DEF Call
<1>2. QED
  BY <1>1 DEF Work

(* There are no more keys to try again than there were attempts. *)
LEMMA RetriesShrink ==
    ASSUME NEW c \in Call, NEW d \in Call, c.step \in {"look", "try"},
           c.step = "try" => c.tries < MaxAttempts,
           d.step = "retry", d.at = 1
    PROVE  Work(d) < Work(c)
<1>1. /\ c.tries \in 0 .. MaxAttempts /\ d.skips \in 0 .. MaxAttempts
      /\ MaxAttempts \in Nat \ {0}
  BY CryptAssumption DEF Call
<1>2. Work(d) <= MaxAttempts + 1
  BY <1>1 DEF Work
<1>3. CASE c.step = "look"
  <2>1. Work(c) = 2 * (MaxAttempts - c.tries) + MaxAttempts + 2
    BY <1>3 DEF Work
  <2>2. QED
    BY <1>1, <1>2, <2>1, WorkType
<1>4. CASE c.step = "try"
  <2>1. Work(c) = 2 * (MaxAttempts - c.tries) + MaxAttempts + 1
    BY <1>4 DEF Work
  <2>2. QED
    BY <1>1, <1>2, <1>4, <2>1, WorkType
<1>5. QED
  BY <1>3, <1>4

LEMMA ContinueShrinks ==
    ASSUME Parts, NEW s \in Side, NEW t \in Threads, Continue(s, t), Parts'
    PROVE  Work(calls'[s][t]) < Work(calls[s][t])
<1> DEFINE c == calls[s][t]
           d == calls'[s][t]
<1>1. /\ c \in Call /\ d \in Call
      /\ CallOK(s, c, Len(used[s]), msgs)
      /\ \A e : SetCall(s, t, e) => d = e
  BY HereFacts DEF Parts, Types, SetCall
<1>2. /\ c.at \in Nat /\ c.tries \in 0 .. MaxAttempts
      /\ c.skips \in 0 .. MaxAttempts /\ MaxAttempts \in Nat \ {0}
  BY HereFacts
<1>3. ASSUME SetCall(s, t, NoCall), c.step # "idle" PROVE Work(d) < Work(c)
  <2>1. Work(d) = 0
    BY <1>1, <1>3 DEF NoCall, Work
  <2>2. QED
    BY <1>1, <1>3, <2>1, WorkLeft
<1>4. ASSUME NEW fate, Answer(s, t, fate), c.step # "idle" PROVE Work(d) < Work(c)
  BY <1>3, <1>4 DEF Answer
<1>5. CASE Scan(s, t)
  <2>1. CASE SetCall(s, t, NoCall)
    BY <1>3, <1>5, <2>1 DEF Scan
  <2>2. CASE ~Exhausted(c) /\ SetCall(s, t, Down(c))
    <3>1. d.step = c.step /\ d.tries = c.tries + 1 /\ c.tries < MaxAttempts
      BY <1>1, <1>2, <2>2, DownFields DEF Exhausted
    <3>2. QED
      BY <1>1, <1>5, <3>1, DownShrinks DEF Scan
  <2>3. CASE SetCall(s, t, [c EXCEPT !.step = "mark"])
    <3>1. d.step = "mark" /\ c.step = "scan"
      BY <1>1, <1>5, <2>3 DEF Scan, Call
    <3>2. QED
      BY <1>2, <3>1 DEF Work
  <2>4. QED
    BY <1>5, <2>1, <2>2, <2>3 DEF Scan
<1>6. CASE Mark(s, t)
  BY <1>3, <1>6 DEF Mark
<1>7. CASE Look(s, t)
  <2>1. c.step = "look"
    BY <1>7 DEF Look
  <2>2. CASE SetCall(s, t, [c EXCEPT !.step = "retry", !.at = 1])
    <3>1. d.step = "retry" /\ d.at = 1 /\ d.skips = c.skips
      BY <1>1, <2>2 DEF Call
    <3>2. QED
      BY <1>1, <2>1, <3>1, RetriesShrink
  <2>3. CASE ~Exhausted(c) /\ SetCall(s, t, [Down(c) EXCEPT !.skips = @ + 1])
    <3>1. d = [Down(c) EXCEPT !.skips = @ + 1]
      BY <1>1, <2>3, Zenon
    <3>2. d.step = c.step /\ d.tries = c.tries + 1
      BY <1>1, <3>1, DownFields, Zenon
    <3>3. c.tries < MaxAttempts
      BY <1>2, <2>3 DEF Exhausted
    <3>4. QED
      BY <1>1, <2>1, <3>2, <3>3, DownShrinks
  <2>4. CASE SetCall(s, t, [c EXCEPT !.step = "try"])
    <3>1. d.step = "try" /\ d.tries = c.tries
      BY <1>1, <2>4 DEF Call
    <3>2. QED
      BY <1>2, <2>1, <3>1 DEF Work
  <2>5. QED
    BY <1>7, <2>2, <2>3, <2>4 DEF Look
<1>8. CASE Opens(s, t) \/ Throws(s, t)
  BY <1>4, <1>8 DEF Opens, Throws, Trying
<1>9. CASE NextKeyMode1(s, t)
  <2>1. CASE SetCall(s, t, Down(c))
    <3>1. c.step = "try" /\ c.tries < MaxAttempts
      BY <1>1, <1>9 DEF NextKeyMode1, CallOK
    <3>2. d.step = c.step /\ d.tries = c.tries + 1
      BY <1>1, <2>1, DownFields
    <3>3. QED
      BY <1>1, <3>1, <3>2, DownShrinks
  <2>2. QED
    BY <1>4, <1>9, <2>1 DEF NextKeyMode1
<1>10. CASE NextKeyMode2(s, t)
  <2>1. c.step = "try" /\ c.tries < MaxAttempts
    BY <1>1, <1>10 DEF NextKeyMode2, CallOK
  <2>2. CASE SetCall(s, t, [c EXCEPT !.step = "retry"]) /\ AtBottom(c)
    <3>1. d.step = "retry" /\ d.at = 1 /\ d.skips = c.skips
      BY <1>1, <2>2 DEF AtBottom, Call
    <3>2. QED
      BY <1>1, <2>1, <3>1, RetriesShrink
  <2>3. CASE SetCall(s, t, [Down(c) EXCEPT !.step = "look"])
    <3>1. d.step = "look" /\ d.tries = c.tries + 1
      BY <1>1, <2>3 DEF Down, Call
    <3>2. QED
      BY <1>1, <2>1, <3>1, DownShrinks
  <2>4. QED
    BY <1>10, <2>2, <2>3 DEF NextKeyMode2
<1>11. CASE Retry(s, t)
  <2>1. c.step = "retry"
    BY <1>11 DEF Retry
  <2>2. CASE c.at <= c.skips /\ SetCall(s, t, [c EXCEPT !.at = @ + 1])
    <3>1. d.step = "retry" /\ d.at = c.at + 1 /\ d.skips = c.skips
      BY <1>1, <2>1, <2>2 DEF Call
    <3>2. QED
      BY <1>2, <2>1, <2>2, <3>1 DEF Work
  <2>3. QED
    BY <1>4, <1>11, <2>1, <2>2 DEF Retry
<1>12. QED
  BY <1>5, <1>6, <1>7, <1>8, <1>9, <1>10, <1>11 DEF Continue

(* A step changes at most one call: one that begins, or one that goes on.   *)
LEMMA OthersCalls ==
    ASSUME Parts, NEW s \in Side, NEW t \in Threads, NEW c, SetCall(s, t, c),
           NEW r \in Side, NEW u \in Threads, calls'[r][u] # calls[r][u]
    PROVE  r = s /\ u = t
  BY DEF Parts, Types, SetCall

(* CallsShrink: no call is stuck in one of crypt's loops, however the       *)
(* threads run and however many keys arrive.                               *)
THEOREM CallsAreBounded == Spec => CallsShrink
<1>1. ASSUME Parts, Parts', [Next]_vars,
             NEW s \in Side, NEW t \in Threads,
             calls[s][t].step # "idle", calls'[s][t] # calls[s][t]
      PROVE  Work(calls'[s][t]) < Work(calls[s][t])
  <2>1. ASSUME NEW r \in Side, NEW u \in Threads, Continue(r, u)
        PROVE  r = s /\ u = t
    <3>1. \/ UNCHANGED calls
          \/ \E c : SetCall(r, u, c)
      BY <2>1 DEF Continue, Scan, Mark, Look, Opens, Throws, NextKeyMode1,
                  NextKeyMode2, Retry, Answer
    <3>2. QED
      BY <1>1, <3>1, OthersCalls
  <2>2. ASSUME NEW r \in Side, NEW u \in Threads, NEW mode \in Modes,
               Encrypt(r, u, mode)
        PROVE  FALSE
    <3>1. calls[r][u].step = "idle" /\ \E c : SetCall(r, u, c)
      BY <2>2 DEF Encrypt
    <3>2. QED
      BY <1>1, <3>1, OthersCalls
  <2>3. ASSUME NEW r \in Side, NEW u \in Threads, NEW i \in DOMAIN msgs,
               Decrypt(r, u, i)
        PROVE  FALSE
    <3>1. calls[r][u].step = "idle" /\ (UNCHANGED calls \/ \E c : SetCall(r, u, c))
      BY <2>3 DEF Decrypt
    <3>2. QED
      BY <1>1, <3>1, OthersCalls
  <2>4. ~UNCHANGED calls
    BY <1>1
  <2>5. PICK r \in Side : \/ AddKey(r)
                          \/ \E u \in Threads :
                                \/ \E mode \in Modes : Encrypt(r, u, mode)
                                \/ \E i \in DOMAIN msgs : Decrypt(r, u, i)
                                \/ Continue(r, u)
    BY <1>1, <2>4 DEF Next, vars
  <2>6. PICK u \in Threads : Continue(r, u)
    BY <2>2, <2>3, <2>4, <2>5 DEF AddKey
  <2>7. Continue(s, t)
    BY <2>1, <2>6
  <2>8. QED
    BY <1>1, <2>7, ContinueShrinks
<1>2. SearchInvariant /\ SearchInvariant' /\ [Next]_vars =>
         [\A s \in Side, t \in Threads :
             calls[s][t].step # "idle" /\ calls'[s][t] # calls[s][t] =>
                Work(calls'[s][t]) < Work(calls[s][t])]_vars
  <2>1. SearchInvariant' => Parts'
    BY SameParts, PTL
  <2>2. QED
    BY <1>1, <2>1, SameParts
<1>3. QED
  BY <1>2, RingsInvariant, PTL DEF Spec, CallsShrink
=============================================================================

-------------------------- MODULE SyncSessionProofs --------------------------
(***************************************************************************)
(* Proofs about SyncSession, for every size of machine, every iteration    *)
(* limit, every set of ids and every bound on the keys.                    *)
(***************************************************************************)
EXTENDS SyncSessionInv, TreeParityMachineProofs, SequenceTheorems

-----------------------------------------------------------------------------
(* Sides.                                                                  *)

LEMMA SideFacts ==
    /\ Initiator \in Side /\ Acceptor \in Side
    /\ Initiator # Acceptor
    /\ \A s \in Side : /\ Other(s) \in Side
                       /\ Other(s) # s
                       /\ Other(Other(s)) = s
                       /\ \A t \in Side : t = s \/ t = Other(s)
  BY DEF Side, Other, Initiator, Acceptor

-----------------------------------------------------------------------------
(* What the methods of SingleTpmNetworkHandler make of a machine.          *)

LEMMA ZeroWeights == [c \in Cell |-> 0] \in Weights
  BY TPMAssumption DEF Weights

LEMMA BlankType == Blank \in Machine
  BY ZeroWeights, SessionAssumption DEF Blank, Machine, PartnerIds

LEMMA NewMachineType ==
    ASSUME NEW i \in TpmIds, NEW v \in Weights
    PROVE  /\ NewMachine(i, v) \in Machine
           /\ NewMachine(i, v).id = i
           /\ NewMachine(i, v).iteration = 0
  BY BlankType DEF NewMachine, Blank, Machine

LEMMA SetPartnerType ==
    ASSUME NEW t \in Machine, NEW p \in PartnerIds
    PROVE  /\ SetPartner(t, p) \in Machine
           /\ SetPartner(t, p).partner = p
           /\ SetPartner(t, p).id = t.id
           /\ SetPartner(t, p).iteration = t.iteration
  BY DEF SetPartner, Machine

LEMMA ResetType ==
    ASSUME NEW t \in Machine, NEW v \in Weights
    PROVE  /\ Reset(t, v) \in Machine
           /\ Reset(t, v).iteration = 0
           /\ Reset(t, v).id = t.id
           /\ Reset(t, v).partner = t.partner
<1>1. 0 \in 0 .. MaxIterations
  BY SessionAssumption
<1>2. Reset(t, v) = [t EXCEPT !.iteration = 0, !.w = v]
  BY DEF Reset
<1>3. Reset(t, v) \in Machine
  BY <1>1, <1>2 DEF Machine
<1>4. QED
  BY <1>2, <1>3 DEF Machine

LEMMA ChallengeType ==
    ASSUME NEW t \in Machine, NEW v \in Vectors
    PROVE  /\ Challenge(t, v) \in Machine
           /\ Challenge(t, v).x = v
           /\ Challenge(t, v).h = HiddenOutputs(t.w, v)
           /\ Challenge(t, v).w = t.w
           /\ Challenge(t, v).id = t.id
           /\ Challenge(t, v).partner = t.partner
           /\ Challenge(t, v).iteration = t.iteration
  BY HiddenType DEF Challenge, Compute, SetInput, Machine

LEMMA UpdateType ==
    ASSUME NEW t \in Machine, t.x \in Vectors
    PROVE  /\ Update(t) \in Machine
           /\ Update(t).x = t.x
           /\ Update(t).id = t.id
           /\ Update(t).partner = t.partner
           /\ Update(t).iteration = t.iteration
<1>1. t.w \in Weights
  BY DEF Machine
<1>2. UpdateWeight(t.w, t.x, t.h) \in Weights
  BY <1>1, WeightsStayInRange
<1>3. QED
  BY <1>2 DEF Update, Machine

LEMMA HonourTellType ==
    ASSUME NEW t \in Machine, NEW m \in Message
    PROVE  /\ HonourTell(t, m) \in Machine
           /\ HonourTell(t, m).id = t.id
           /\ HonourTell(t, m).partner = t.partner
           /\ HonourTell(t, m).iteration = t.iteration
<1>1. CASE m.type = "advanced" /\ m.tell
  <2>1. m.old \in Vectors
    BY <1>1 DEF Message
  <2>2. SetInput(t, m.old) \in Machine /\ SetInput(t, m.old).x \in Vectors
    BY <2>1 DEF SetInput, Machine
  <2>3. /\ SetInput(t, m.old).id = t.id
        /\ SetInput(t, m.old).partner = t.partner
        /\ SetInput(t, m.old).iteration = t.iteration
    BY DEF SetInput, Machine
  <2>4. HonourTell(t, m) = Update(SetInput(t, m.old))
    BY <1>1 DEF HonourTell
  <2>5. QED
    BY <2>2, <2>3, <2>4, UpdateType
<1>2. CASE ~(m.type = "advanced" /\ m.tell)
  BY <1>2 DEF HonourTell
<1>3. QED
  BY <1>1, <1>2

LEMMA LearnType ==
    ASSUME NEW t \in Machine, NEW m \in Message, m.type \in {"one", "advanced"}
    PROVE  /\ Learn(t, m) \in Machine
           /\ Learn(t, m).id = t.id
           /\ Learn(t, m).partner = t.partner
           /\ Learn(t, m).iteration = t.iteration
           /\ ~Agrees(t, m) => Learn(t, m).w = t.w
<1>1. m.x \in Vectors
  BY DEF Message
<1>2. QED
  BY <1>1, ChallengeType, UpdateType DEF Learn

LEMMA IncreaseIterationType ==
    ASSUME NEW t \in Machine, NEW n \in IncreaseIteration(t)
    PROVE  /\ n \in Machine
           /\ n.id = t.id
           /\ n.partner = t.partner
           /\ ~Exhausted(t) => /\ n.iteration = t.iteration + 1
                               /\ n.w = t.w /\ n.x = t.x /\ n.h = t.h
           /\ Exhausted(t) => n.iteration = 0
<1>1. CASE Exhausted(t)
  BY <1>1, ResetType DEF IncreaseIteration
<1>2. CASE ~Exhausted(t)
  <2>1. t.iteration \in 0 .. MaxIterations /\ t.iteration # MaxIterations
    BY <1>2 DEF Exhausted, Machine
  <2>2. t.iteration + 1 \in 0 .. MaxIterations
    BY <2>1, SessionAssumption
  <2>3. n = [t EXCEPT !.iteration = t.iteration + 1]
    BY <1>2 DEF IncreaseIteration
  <2>4. QED
    BY <1>2, <2>2, <2>3 DEF Machine
<1>3. QED
  BY <1>1, <1>2

-----------------------------------------------------------------------------
(* The messages.                                                           *)

LEMMA MessageTypes ==
    ASSUME NEW i \in TpmIds
    PROVE  /\ InitMsg(i) \in Message
           /\ \A p \in PartnerIds : LinkMsg(i, p) \in Message
           /\ \A b \in BOOLEAN : ResetMsg(i, b) \in Message
  BY DEF InitMsg, LinkMsg, ResetMsg, Message

LEMMA SyncMessageTypes ==
    ASSUME NEW t \in Machine, t.id # NoId, t.x \in Vectors,
           NEW b \in BOOLEAN, NEW v \in Vectors
    PROVE  OneMsg(t) \in Message /\ AdvancedMsg(t, b, v) \in Message
<1>1. t.id \in TpmIds /\ t.w \in Weights
  BY DEF Machine
<1>2. TPMOutput(t.h) \in Spin
  BY OutputType
<1>3. QED
  BY <1>1, <1>2 DEF OneMsg, AdvancedMsg, Message

LEMMA MessageFields ==
    ASSUME NEW m \in Message
    PROVE  /\ m.id \in TpmIds
           /\ m.type \in {"init", "link", "one", "advanced", "reset"}
           /\ m.type = "link" => m.self \in PartnerIds
           /\ m.type \in {"one", "advanced"} => m.x \in Vectors
           /\ m.type = "advanced" => m.tell \in BOOLEAN /\ m.key \in Weights
           /\ m.type = "reset" => m.save \in BOOLEAN
  BY DEF Message

LEMMA SingleMessage ==
    ASSUME NEW q \in Seq(Message), Len(q) = 1
    PROVE  Tail(q) = <<>> /\ Head(q) \in Message
<1>1. q # <<>>
  BY EmptySeq
<1>2. /\ Head(q) \in Message
      /\ Tail(q) \in Seq(Message)
      /\ Len(Tail(q)) = 0
  BY <1>1, HeadTailProperties
<1>3. QED
  BY <1>2, EmptySeq

LEMMA OneAppended ==
    ASSUME NEW m
    PROVE  /\ Append(<<>>, m) = <<m>>
           /\ <<m>> # <<>>
           /\ Head(<<m>>) = m
           /\ Len(<<m>>) = 1
  OBVIOUS

-----------------------------------------------------------------------------
(* The end of a handler.                                                   *)

LEMMA HandlingFacts ==
    ASSUME TypeOK, Control, OneTurn, NEW s \in Side, pc[s] = "handling"
    PROVE  /\ Head(chan[s]) \in Message
           /\ Tail(chan[s]) = <<>>
           /\ chan[s] # <<>>
           /\ chan[Other(s)] = <<>>
           /\ link # "none"
           /\ tpm[s] \in Machine /\ tpm[Other(s)] \in Machine
           /\ link = "up" => started[s] /\ pc[Other(s)] # "gone"
<1>1. chan[s] \in Seq(Message) /\ chan[s] # <<>>
  BY DEF TypeOK, Control
<1>2. Len(chan[s]) = 1 /\ chan[Other(s)] = <<>>
  BY <1>1 DEF OneTurn
<1>3. link = "up" => started[s] /\ pc[Other(s)] # "gone"
  BY SideFacts DEF Control
<1>4. tpm[s] \in Machine /\ tpm[Other(s)] \in Machine
  BY SideFacts DEF TypeOK
<1>5. QED
  BY <1>1, <1>2, <1>3, <1>4, SingleMessage DEF Control

(* A handler's message replaces the one it has handled, or is lost; the    *)
(* other side is as it was.                                                *)
LEMMA Answered ==
    ASSUME TypeOK, Control, OneTurn,
           NEW s \in Side, NEW n \in Machine, NEW m \in Message,
           pc[s] = "handling", DoWrite(s, n, m), UNCHANGED <<started, link>>
    PROVE  /\ pc' \in [Side -> Operation]
           /\ tpm' \in [Side -> Machine]
           /\ chan' \in [Side -> Seq(Message)]
           /\ Control'
           /\ OneTurn'
           /\ chan'[s] = <<>>
           /\ tpm'[Other(s)] = tpm[Other(s)]
           /\ pc'[Other(s)] = pc[Other(s)]
           /\ IF link = "up" THEN chan'[Other(s)] = <<m>> /\ tpm'[s] = n
                             ELSE chan'[Other(s)] = <<>>
<1> DEFINE o == Other(s)
<1>1. /\ o \in Side /\ o # s /\ Other(o) = s
      /\ \A t \in Side : t = s \/ t = o
  BY SideFacts
<1>2. /\ Tail(chan[s]) = <<>> /\ chan[s] # <<>> /\ chan[o] = <<>>
      /\ link # "none"
      /\ link = "up" => started[s] /\ pc[o] # "gone"
  BY HandlingFacts
<1>3. /\ tpm' = [tpm EXCEPT ![s] = IF started[s] THEN n ELSE Blank]
      /\ pc' = [pc EXCEPT ![s] = IF started[s] THEN "writing" ELSE "gone"]
  BY DEF DoWrite
<1>4. /\ pc' \in [Side -> Operation]
      /\ tpm' \in [Side -> Machine]
      /\ tpm'[o] = tpm[o] /\ pc'[o] = pc[o]
      /\ tpm'[s] = IF started[s] THEN n ELSE Blank
      /\ pc'[s] = IF started[s] THEN "writing" ELSE "gone"
  BY <1>1, <1>3, BlankType DEF TypeOK, Operation
<1>5. chan' = [t \in Side |-> IF t = o /\ link = "up" THEN <<m>> ELSE <<>>]
  <2>1. \A t \in Side : (IF t = s THEN (IF chan[s] = <<>> THEN <<>> ELSE Tail(chan[s]))
                   ELSE IF started[s] /\ link = "up" THEN Append(chan[t], m)
                   ELSE chan[t]) = IF t = o /\ link = "up" THEN <<m>> ELSE <<>>
    BY <1>1, <1>2, OneAppended
  <2>2. QED
    BY <2>1 DEF DoWrite
<1>6. /\ chan'[s] = <<>>
      /\ chan'[o] = IF link = "up" THEN <<m>> ELSE <<>>
  BY <1>1, <1>5
<1>7. chan' \in [Side -> Seq(Message)]
  BY <1>5
<1>8. Control'
  <2>1. link' = link /\ started' = started
    OBVIOUS
  <2>2. pc[Initiator] \notin {"idle", "connecting", "failed"}
    BY <1>2 DEF Control
  <2>3. pc'[Initiator] \notin {"idle", "connecting", "failed"}
    BY <1>1, <1>4, <2>2, SideFacts
  <2>4. pc'[Acceptor] \notin {"connecting", "failed"}
    BY <1>1, <1>4, SideFacts DEF Control
  <2>5. ASSUME NEW t \in Side
        PROVE  /\ pc'[t] # "handling" 
               /\ pc'[t] = "gone" => chan'[t] = <<>> /\ ~started[t]
               /\ link = "up" /\ pc'[t] # "idle" => started[t]
    <3>1. CASE t = s
      BY <1>2, <1>4, <1>6, <3>1
    <3>2. CASE t = o
      BY <1>1, <1>2, <1>4, <1>6, <3>2 DEF Control
    <3>3. QED
      BY <1>1, <3>1, <3>2
  <2>6. QED
    BY <1>2, <2>1, <2>3, <2>4, <2>5 DEF Control
<1>9. OneTurn'
  BY <1>1, <1>6, OneAppended DEF OneTurn
<1>10. QED
  BY <1>2, <1>4, <1>6, <1>7, <1>8, <1>9

(* A handler preserves the invariant when what it sends fits the machine it *)
(* leaves behind, the machine on the other side and the logs.              *)
LEMMA HandlerStep ==
    ASSUME IInv,
           NEW s \in Side, NEW n \in Machine, NEW m \in Message,
           pc[s] = "handling", DoWrite(s, n, m),
           UNCHANGED <<started, link, registered>>,
           named' \in [Side -> BOOLEAN],
           ring' \in [Side -> Seq(Weights)],
           keyLog' \in [Side -> Seq(Weights)],
           LogsClose', Rings',
           link = "up" => /\ SenderIs(n, tpm[Other(s)], m)
                          /\ ReceiverIs(tpm[Other(s)], m)
                          /\ IF m.type = "reset" /\ m.save
                             THEN keyLog'[s] = Append(keyLog'[Other(s)], tpm[Other(s)].w)
                             ELSE LogsEqual'
    PROVE  IInv'
<1> DEFINE o == Other(s)
<1>1. /\ o \in Side /\ o # s /\ Other(o) = s
      /\ \A t \in Side : t = s \/ t = o
  BY SideFacts
<1>2. TypeOK /\ Control /\ OneTurn
  BY DEF IInv
<1>3. /\ pc' \in [Side -> Operation]
      /\ tpm' \in [Side -> Machine]
      /\ chan' \in [Side -> Seq(Message)]
      /\ Control'
      /\ OneTurn'
      /\ chan'[s] = <<>>
      /\ tpm'[o] = tpm[o]
      /\ IF link = "up" THEN chan'[o] = <<m>> /\ tpm'[s] = n
                        ELSE chan'[o] = <<>>
  BY <1>2, Answered
<1>4. TypeOK'
  BY <1>2, <1>3 DEF TypeOK
<1>5. Flight'
  <2> SUFFICES ASSUME NEW t \in Side, chan'[t] # <<>>
               PROVE  /\ SenderIs(tpm'[Other(t)], tpm'[t], Head(chan'[t]))
                      /\ ReceiverIs(tpm'[t], Head(chan'[t]))
                      /\ LogsAre(t, Head(chan[t]))'
    BY DEF Flight
  <2>1. t = o /\ Other(t) = s /\ link = "up"
    BY <1>1, <1>3
  <2>2. Head(chan'[t]) = m /\ tpm'[s] = n /\ tpm'[t] = tpm[o]
    BY <1>3, <2>1, OneAppended
  <2>3. LogsAre(t, Head(chan[t]))'
    BY <2>1, <2>2 DEF LogsAre
  <2>4. QED
    BY <2>1, <2>2, <2>3
<1>6. Before'
  BY <1>2, HandlingFacts DEF Before
<1>7. QED
  BY <1>3, <1>4, <1>5, <1>6 DEF IInv

-----------------------------------------------------------------------------
(* The handlers.                                                           *)

(* What the invariant says of the message that is being handled. *)
LEMMA HandledMessage ==
    ASSUME IInv, NEW s \in Side, pc[s] = "handling"
    PROVE  /\ Head(chan[s]) \in Message
           /\ tpm[s] \in Machine /\ tpm[Other(s)] \in Machine
           /\ link = "up" => SenderIs(tpm[Other(s)], tpm[s], Head(chan[s]))
           /\ ReceiverIs(tpm[s], Head(chan[s]))
           /\ LogsAre(s, Head(chan[s]))
  BY HandlingFacts DEF IInv, Flight

(* Logs and rings, when the handler leaves them alone. *)
LEMMA LogsUntouched ==
    ASSUME IInv, NEW s \in Side, pc[s] = "handling",
           Head(chan[s]).type = "reset" => ~Head(chan[s]).save,
           UNCHANGED <<registered, ring, keyLog>>
    PROVE  /\ LogsEqual' /\ LogsClose' /\ Rings'
           /\ ring' \in [Side -> Seq(Weights)]
           /\ keyLog' \in [Side -> Seq(Weights)]
<1>1. LogsEqual
  BY HandledMessage DEF LogsAre
<1>2. registered' = registered /\ ring' = ring /\ keyLog' = keyLog
  OBVIOUS
<1>3. LogsEqual' /\ LogsClose'
  BY <1>1, <1>2 DEF LogsEqual, LogsClose
<1>4. Rings'
  BY <1>2 DEF IInv, Rings
<1>5. QED
  BY <1>2, <1>3, <1>4 DEF IInv, TypeOK

LEMMA OnInitStep == ASSUME IInv, NEW s \in Side, OnInit(s) PROVE IInv'
<1> DEFINE o == Other(s)
           p == Head(chan[s]).id
<1>1. /\ pc[s] = "handling" /\ Head(chan[s]).type = "init"
      /\ UNCHANGED <<started, link, registered, ring, keyLog>>
      /\ named' \in [Side -> BOOLEAN]
  BY DEF OnInit, Handling, IInv, TypeOK, serviceVars
<1>2. PICK i \in TpmIds, v \in Weights :
          DoWrite(s, SetPartner(NewMachine(i, v), p), LinkMsg(i, p))
  BY DEF OnInit
<1> DEFINE n == SetPartner(NewMachine(i, v), p)
           m == LinkMsg(i, p)
<1>3. p \in TpmIds /\ p \in PartnerIds /\ p # NoId
  BY <1>1, HandledMessage, MessageFields, SessionAssumption DEF PartnerIds, NoId
<1>4. /\ n \in Machine /\ n.id = i /\ n.partner = p /\ n.iteration = 0
      /\ m \in Message
  <2>1. /\ NewMachine(i, v) \in Machine
        /\ NewMachine(i, v).id = i
        /\ NewMachine(i, v).iteration = 0
    BY NewMachineType
  <2>2. /\ n \in Machine /\ n.id = i /\ n.partner = p /\ n.iteration = 0
    BY <1>3, <2>1, SetPartnerType
  <2>3. m \in Message
    BY <1>3, MessageTypes
  <2>4. QED
    BY <2>2, <2>3
<1>5. /\ m.type = "link" /\ m.id = i /\ m.self = p
  BY DEF LinkMsg
<1>6. link = "up" => tpm[o].id = p /\ tpm[o].iteration = 0
  BY <1>1, HandledMessage DEF SenderIs
<1>7. link = "up" => SenderIs(n, tpm[o], m) /\ ReceiverIs(tpm[o], m)
  BY <1>3, <1>4, <1>5, <1>6 DEF SenderIs, ReceiverIs
<1>8. LogsEqual' /\ LogsClose' /\ Rings'
      /\ ring' \in [Side -> Seq(Weights)] /\ keyLog' \in [Side -> Seq(Weights)]
  BY <1>1, LogsUntouched
<1> HIDE DEF n, m
<1>9. QED
  BY <1>1, <1>2, <1>4, <1>5, <1>7, <1>8, HandlerStep DEF n, m

LEMMA OnLinkingStep == ASSUME IInv, NEW s \in Side, OnLinking(s) PROVE IInv'
<1> DEFINE o == Other(s)
           q == Head(chan[s])
<1>1. /\ pc[s] = "handling" /\ q.type = "link"
      /\ UNCHANGED <<started, link, registered, ring, keyLog>>
      /\ named' \in [Side -> BOOLEAN]
  BY DEF OnLinking, Handling, IInv, TypeOK, serviceVars, peerVars
<1>2. PICK t \in IncreaseIteration(tpm[s]), x \in Vectors :
          LET n == Challenge(SetPartner(t, q.id), x)
          IN  DoWrite(s, n, OneMsg(n))
  BY DEF OnLinking
<1> DEFINE n == Challenge(SetPartner(t, q.id), x)
           m == OneMsg(n)
<1>3. q.id \in TpmIds /\ q.id \in PartnerIds /\ tpm[s] \in Machine
  BY <1>1, HandledMessage, MessageFields DEF PartnerIds
<1>4. tpm[s].id # NoId /\ tpm[s].iteration = 0 /\ q.self = tpm[s].id
  BY <1>1, HandledMessage DEF ReceiverIs
<1>5. ~Exhausted(tpm[s])
  BY <1>4, SessionAssumption DEF Exhausted
<1>6. t \in Machine /\ t.id = tpm[s].id /\ t.iteration = 1
  BY <1>3, <1>4, <1>5, IncreaseIterationType
<1>7. /\ SetPartner(t, q.id) \in Machine
      /\ SetPartner(t, q.id).partner = q.id
      /\ SetPartner(t, q.id).id = tpm[s].id
      /\ SetPartner(t, q.id).iteration = 1
  BY <1>3, <1>6, SetPartnerType
<1>8. /\ n \in Machine /\ n.id = tpm[s].id /\ n.partner = q.id
      /\ n.iteration = 1 /\ n.x = x
      /\ n.h = HiddenOutputs(n.w, x)
  BY <1>7, ChallengeType
<1> HIDE DEF n
<1>9. m \in Message
  BY <1>4, <1>8, SyncMessageTypes
<1>10. m.type = "one" /\ m.id = n.id /\ m.x = n.x /\ m.out = TPMOutput(n.h)
  BY DEF OneMsg
<1>11. link = "up" =>
          tpm[o].id = q.id /\ tpm[o].partner = tpm[s].id /\ tpm[o].iteration = 0
  BY <1>1, HandledMessage DEF SenderIs
<1>12. q.id # NoId
  BY <1>3, SessionAssumption DEF NoId
<1>13. link = "up" => SenderIs(n, tpm[o], m) /\ ReceiverIs(tpm[o], m)
  BY <1>8, <1>10, <1>11, <1>12 DEF SenderIs, ReceiverIs
<1>14. LogsEqual' /\ LogsClose' /\ Rings'
      /\ ring' \in [Side -> Seq(Weights)] /\ keyLog' \in [Side -> Seq(Weights)]
  BY <1>1, LogsUntouched
<1>15. DoWrite(s, n, m)
  BY <1>2 DEF n
<1> HIDE DEF m
<1>16. m.type # "reset"
  BY <1>10
<1>17. QED
  BY <1>1, <1>8, <1>9, <1>13, <1>14, <1>15, <1>16, HandlerStep

(* on_sync and on_reset: the two machines are linked to each other. *)
LEMMA Linked ==
    ASSUME IInv, NEW s \in Side, pc[s] = "handling",
           Head(chan[s]).type \in {"one", "advanced", "reset"}
    PROVE  /\ tpm[s].id \in TpmIds /\ tpm[s].id # NoId
           /\ tpm[s].partner = Head(chan[s]).id
           /\ link = "up" => /\ tpm[Other(s)].id = tpm[s].partner
                             /\ tpm[Other(s)].id # NoId
                             /\ tpm[Other(s)].partner = tpm[s].id
<1>1. Head(chan[s]).id \in TpmIds /\ Head(chan[s]).id # NoId
  BY HandledMessage, MessageFields, SessionAssumption DEF NoId
<1>2. tpm[s].id # NoId /\ tpm[s].partner = Head(chan[s]).id
  BY HandledMessage DEF ReceiverIs
<1>3. tpm[s].id \in TpmIds
  BY <1>2, HandledMessage DEF Machine
<1>4. link = "up" => /\ tpm[Other(s)].id = Head(chan[s]).id
                     /\ tpm[Other(s)].partner = tpm[s].id
  BY HandledMessage DEF SenderIs
<1>5. QED
  BY <1>1, <1>2, <1>3, <1>4

LEMMA OnSyncExhaustedStep ==
    ASSUME IInv, NEW s \in Side, OnSyncExhausted(s) PROVE IInv'
<1> DEFINE o == Other(s)
           q == Head(chan[s])
<1>1. /\ pc[s] = "handling" /\ q.type \in {"one", "advanced"}
      /\ Exhausted(tpm[s])
      /\ UNCHANGED <<started, link, registered, ring, keyLog>>
      /\ named' \in [Side -> BOOLEAN]
  BY DEF OnSyncExhausted, Handling, IInv, TypeOK, serviceVars, peerVars
<1>2. PICK n \in IncreaseIteration(tpm[s]) :
          DoWrite(s, n, ResetMsg(n.id, FALSE))
  BY DEF OnSyncExhausted
<1> DEFINE m == ResetMsg(n.id, FALSE)
<1>3. /\ n \in Machine /\ n.id = tpm[s].id /\ n.partner = tpm[s].partner
      /\ n.iteration = 0
  BY <1>1, HandledMessage, IncreaseIterationType
<1>4. /\ tpm[s].id \in TpmIds /\ tpm[s].id # NoId
      /\ link = "up" => /\ tpm[o].id = tpm[s].partner
                        /\ tpm[o].id # NoId
                        /\ tpm[o].partner = tpm[s].id
  BY <1>1, Linked
<1>5. m \in Message
  BY <1>3, <1>4, MessageTypes
<1>6. m.type = "reset" /\ m.id = n.id /\ m.save = FALSE
  BY DEF ResetMsg
<1>7. link = "up" => SenderIs(n, tpm[o], m) /\ ReceiverIs(tpm[o], m)
  BY <1>3, <1>4, <1>6 DEF SenderIs, ReceiverIs
<1>8. LogsEqual' /\ LogsClose' /\ Rings'
      /\ ring' \in [Side -> Seq(Weights)] /\ keyLog' \in [Side -> Seq(Weights)]
  BY <1>1, LogsUntouched
<1>9. DoWrite(s, n, m)
  BY <1>2
<1> HIDE DEF m
<1>10. QED
  BY <1>1, <1>3, <1>5, <1>6, <1>7, <1>8, <1>9, HandlerStep

(* A key goes to the log of its side, and to the ring when there is one. *)
LEMMA KeyAdded ==
    ASSUME IInv, NEW s \in Side, NEW k \in Weights,
           AddKey(s, k), UNCHANGED registered
    PROVE  /\ ring' \in [Side -> Seq(Weights)]
           /\ keyLog' \in [Side -> Seq(Weights)]
           /\ Rings'
           /\ keyLog'[s] = Append(keyLog[s], k)
           /\ keyLog'[Other(s)] = keyLog[Other(s)]
<1>1. /\ ring \in [Side -> Seq(Weights)] /\ keyLog \in [Side -> Seq(Weights)]
      /\ \A t \in Side : registered[t] => ring[t] = keyLog[t]
  BY DEF IInv, TypeOK, Rings
<1>2. /\ keyLog' = [keyLog EXCEPT ![s] = Append(keyLog[s], k)]
      /\ ring' = IF registered[s] THEN [ring EXCEPT ![s] = Append(ring[s], k)]
                                  ELSE ring
  BY DEF AddKey
<1>3. Append(keyLog[s], k) \in Seq(Weights) /\ Append(ring[s], k) \in Seq(Weights)
  BY <1>1
<1>4. ring' \in [Side -> Seq(Weights)] /\ keyLog' \in [Side -> Seq(Weights)]
  BY <1>1, <1>2, <1>3
<1>5. /\ keyLog'[s] = Append(keyLog[s], k)
      /\ keyLog'[Other(s)] = keyLog[Other(s)]
  BY <1>1, <1>2, SideFacts
<1>6. ASSUME NEW t \in Side, registered[t] PROVE ring'[t] = keyLog'[t]
  BY <1>1, <1>2, <1>6
<1>7. QED
  BY <1>4, <1>5, <1>6 DEF Rings

LEMMA OnSyncKeyFoundStep ==
    ASSUME IInv, NEW s \in Side, OnSyncKeyFound(s) PROVE IInv'
<1> DEFINE o == Other(s)
           q == Head(chan[s])
           a == HonourTell(tpm[s], q)
<1>1. /\ pc[s] = "handling" /\ q.type = "advanced"
      /\ SameKey(tpm[s], q) /\ AddKey(s, a.w)
      /\ UNCHANGED <<started, link, registered>>
      /\ named' \in [Side -> BOOLEAN]
  BY DEF OnSyncKeyFound, Handling, IInv, TypeOK, peerVars
<1>2. PICK v \in Weights : DoWrite(s, Reset(a, v), ResetMsg(a.id, TRUE))
  BY DEF OnSyncKeyFound
<1> DEFINE n == Reset(a, v)
           m == ResetMsg(a.id, TRUE)
<1>3. q \in Message /\ tpm[s] \in Machine
  BY <1>1, HandledMessage
<1>4. a \in Machine /\ a.id = tpm[s].id /\ a.partner = tpm[s].partner
  BY <1>3, HonourTellType
<1>5. a.w \in Weights /\ a.w = q.key
  BY <1>1, <1>4 DEF SameKey, Machine
<1>6. /\ n \in Machine /\ n.id = tpm[s].id /\ n.partner = tpm[s].partner
      /\ n.iteration = 0
  BY <1>4, ResetType
<1>7. /\ tpm[s].id \in TpmIds /\ tpm[s].id # NoId
      /\ link = "up" => /\ tpm[o].id = tpm[s].partner
                        /\ tpm[o].id # NoId
                        /\ tpm[o].partner = tpm[s].id
  BY <1>1, Linked
<1>8. m \in Message
  BY <1>4, <1>7, MessageTypes
<1>9. m.type = "reset" /\ m.id = a.id /\ m.save = TRUE
  BY DEF ResetMsg
<1> HIDE DEF n, m
<1>10. link = "up" => SenderIs(n, tpm[o], m) /\ ReceiverIs(tpm[o], m)
  BY <1>4, <1>6, <1>7, <1>9 DEF SenderIs, ReceiverIs
<1>11. /\ ring' \in [Side -> Seq(Weights)] /\ keyLog' \in [Side -> Seq(Weights)]
       /\ Rings'
       /\ keyLog'[s] = Append(keyLog[s], a.w)
       /\ keyLog'[o] = keyLog[o]
  BY <1>1, <1>5, KeyAdded
<1>12. keyLog[s] = keyLog[o]
  BY <1>1, HandledMessage, SideFacts DEF LogsAre, LogsEqual
<1>13. keyLog'[s] = Append(keyLog'[o], a.w)
  BY <1>11, <1>12
<1>14. LogsClose'
  <2>1. OneLonger(keyLog'[s], keyLog'[o])
    BY <1>5, <1>13 DEF OneLonger
  <2>2. \/ s = Initiator /\ o = Acceptor
        \/ s = Acceptor /\ o = Initiator
    BY DEF Side, Other, Initiator, Acceptor
  <2>3. QED
    BY <2>1, <2>2 DEF LogsClose
<1>15. link = "up" => a.w = tpm[o].w
  BY <1>1, <1>5, HandledMessage DEF SenderIs
<1>16. DoWrite(s, n, m)
  BY <1>2 DEF n, m
<1>17. QED
  BY <1>1, <1>6, <1>8, <1>9, <1>10, <1>11, <1>13, <1>14, <1>15, <1>16, HandlerStep

LEMMA OnResetStep == ASSUME IInv, NEW s \in Side, OnReset(s) PROVE IInv'
<1> DEFINE o == Other(s)
           q == Head(chan[s])
<1>1. /\ pc[s] = "handling" /\ q.type = "reset"
      /\ IF q.save THEN AddKey(s, tpm[s].w) ELSE UNCHANGED <<ring, keyLog>>
      /\ UNCHANGED <<started, link, registered>>
      /\ named' \in [Side -> BOOLEAN]
  BY DEF OnReset, Handling, IInv, TypeOK, peerVars
<1>2. PICK v \in Weights, x \in Vectors :
          \E t \in IncreaseIteration(Reset(tpm[s], v)) :
             DoWrite(s, Challenge(t, x), OneMsg(Challenge(t, x)))
  BY DEF OnReset
<1>3. PICK t \in IncreaseIteration(Reset(tpm[s], v)) :
             DoWrite(s, Challenge(t, x), OneMsg(Challenge(t, x)))
  BY <1>2
<1> DEFINE r == Reset(tpm[s], v)
           n == Challenge(t, x)
           m == OneMsg(n)
<1>4. tpm[s] \in Machine /\ tpm[s].w \in Weights
  BY <1>1, HandledMessage DEF Machine
<1>5. /\ r \in Machine /\ r.id = tpm[s].id /\ r.partner = tpm[s].partner
      /\ r.iteration = 0
  BY <1>4, ResetType
<1>6. ~Exhausted(r)
  BY <1>5, SessionAssumption DEF Exhausted
<1>7. /\ t \in Machine /\ t.id = tpm[s].id /\ t.partner = tpm[s].partner
      /\ t.iteration = 1
  BY <1>5, <1>6, IncreaseIterationType
<1>8. /\ n \in Machine /\ n.id = tpm[s].id /\ n.partner = tpm[s].partner
      /\ n.iteration = 1 /\ n.x = x
      /\ n.h = HiddenOutputs(n.w, x)
  BY <1>7, ChallengeType
<1> HIDE DEF r, n
<1>9. /\ tpm[s].id \in TpmIds /\ tpm[s].id # NoId
      /\ link = "up" => /\ tpm[o].id = tpm[s].partner
                        /\ tpm[o].id # NoId
                        /\ tpm[o].partner = tpm[s].id
  BY <1>1, Linked
<1>10. m \in Message
  BY <1>8, <1>9, SyncMessageTypes
<1>11. m.type = "one" /\ m.id = n.id /\ m.x = n.x /\ m.out = TPMOutput(n.h)
  BY DEF OneMsg
<1>12. link = "up" => tpm[o].iteration = 0
  BY <1>1, HandledMessage DEF SenderIs
<1>13. link = "up" => SenderIs(n, tpm[o], m) /\ ReceiverIs(tpm[o], m)
  BY <1>8, <1>9, <1>11, <1>12 DEF SenderIs, ReceiverIs
<1>14. /\ LogsEqual' /\ LogsClose' /\ Rings'
       /\ ring' \in [Side -> Seq(Weights)] /\ keyLog' \in [Side -> Seq(Weights)]
  <2>1. CASE ~q.save
    BY <1>1, <2>1, LogsUntouched
  <2>2. CASE q.save
    <3>1. /\ ring' \in [Side -> Seq(Weights)]
          /\ keyLog' \in [Side -> Seq(Weights)]
          /\ Rings'
          /\ keyLog'[s] = Append(keyLog[s], tpm[s].w)
          /\ keyLog'[o] = keyLog[o]
      BY <1>1, <1>4, <2>2, KeyAdded
    <3>2. keyLog[o] = Append(keyLog[s], tpm[s].w)
      BY <1>1, <2>2, HandledMessage DEF LogsAre
    <3>3. LogsEqual'
      BY <3>1, <3>2 DEF LogsEqual, Side, Other, Initiator, Acceptor
    <3>4. QED
      BY <3>1, <3>3 DEF LogsClose
  <2>3. QED
    BY <2>1, <2>2
<1>15. DoWrite(s, n, m)
  BY <1>3 DEF n
<1> HIDE DEF m
<1>16. m.type # "reset"
  BY <1>11
<1>17. QED
  BY <1>1, <1>8, <1>10, <1>13, <1>14, <1>15, <1>16, HandlerStep

LEMMA OnSyncContinueStep ==
    ASSUME IInv, NEW s \in Side, OnSyncContinue(s) PROVE IInv'
<1> DEFINE o == Other(s)
           q == Head(chan[s])
<1>1. /\ pc[s] = "handling" /\ q.type \in {"one", "advanced"}
      /\ ~Exhausted(tpm[s])
      /\ UNCHANGED <<started, link, registered, ring, keyLog>>
      /\ named' \in [Side -> BOOLEAN]
  BY DEF OnSyncContinue, Handling, IInv, TypeOK, serviceVars, peerVars
<1>2. PICK t \in IncreaseIteration(tpm[s]), x \in Vectors :
          LET a == HonourTell(t, q)
              n == Challenge(Learn(a, q), x)
          IN  DoWrite(s, n, AdvancedMsg(n, Agrees(a, q), q.x))
  BY DEF OnSyncContinue
<1> DEFINE a == HonourTell(t, q)
           l == Learn(a, q)
           n == Challenge(l, x)
           m == AdvancedMsg(n, Agrees(a, q), q.x)
<1>3. q \in Message /\ q.x \in Vectors /\ tpm[s] \in Machine
  BY <1>1, HandledMessage, MessageFields
<1>4. /\ t \in Machine /\ t.id = tpm[s].id /\ t.partner = tpm[s].partner
      /\ t.iteration = tpm[s].iteration + 1
  BY <1>1, <1>3, IncreaseIterationType
<1>5. /\ a \in Machine /\ a.id = t.id /\ a.partner = t.partner
      /\ a.iteration = t.iteration
  BY <1>3, <1>4, HonourTellType
<1> HIDE DEF a
<1>6. /\ l \in Machine /\ l.id = t.id /\ l.partner = t.partner
      /\ l.iteration = t.iteration
      /\ ~Agrees(a, q) => l.w = a.w
  BY <1>1, <1>3, <1>5, LearnType
<1> HIDE DEF l
<1>7. /\ n \in Machine /\ n.id = tpm[s].id /\ n.partner = tpm[s].partner
      /\ n.iteration = tpm[s].iteration + 1 /\ n.x = x /\ n.w = l.w
      /\ n.h = HiddenOutputs(n.w, n.x)
  BY <1>4, <1>6, ChallengeType
<1> HIDE DEF n
<1>8. Agrees(a, q) \in BOOLEAN
  BY DEF Agrees
<1>9. /\ tpm[s].id \in TpmIds /\ tpm[s].id # NoId
      /\ link = "up" => /\ tpm[o].id = tpm[s].partner
                        /\ tpm[o].id # NoId
                        /\ tpm[o].partner = tpm[s].id
  BY <1>1, Linked
<1>10. m \in Message
  BY <1>3, <1>7, <1>8, <1>9, SyncMessageTypes
<1>11. /\ m.type = "advanced" /\ m.id = n.id /\ m.x = n.x
       /\ m.out = TPMOutput(n.h) /\ m.old = q.x /\ m.key = n.w
       /\ m.tell = Agrees(a, q)
  BY DEF AdvancedMsg
<1> HIDE DEF m
<1>12. link = "up" =>
          /\ tpm[o].iteration - tpm[s].iteration \in {0, 1}
          /\ tpm[o].x = q.x
          /\ tpm[o].h = HiddenOutputs(tpm[o].w, tpm[o].x)
          /\ q.out = TPMOutput(tpm[o].h)
  BY <1>1, HandledMessage DEF SenderIs
<1>13. link = "up" /\ ~Agrees(a, q) => tpm[o].w # n.w
  <2>1. SUFFICES ASSUME link = "up", tpm[o].w = a.w PROVE Agrees(a, q)
    BY <1>6, <1>7
  <2>2. Challenge(a, q.x).h = HiddenOutputs(a.w, q.x)
    BY <1>3, <1>5, ChallengeType
  <2>3. q.out = TPMOutput(HiddenOutputs(a.w, q.x))
    BY <1>12, <2>1
  <2>4. QED
    BY <2>2, <2>3 DEF Agrees
<1>14. link = "up" => n.iteration - tpm[o].iteration \in {0, 1}
  <2>1. tpm[s].iteration \in Int /\ tpm[o].iteration \in Int
    BY <1>1, HandledMessage, SessionAssumption DEF Machine
  <2>2. QED
    BY <1>7, <1>12, <2>1
<1>15. link = "up" => SenderIs(n, tpm[o], m)
  BY <1>7, <1>9, <1>11, <1>13, <1>14 DEF SenderIs
<1>16. link = "up" => ReceiverIs(tpm[o], m)
  BY <1>7, <1>9, <1>11, <1>12 DEF ReceiverIs
<1>17. LogsEqual' /\ LogsClose' /\ Rings'
      /\ ring' \in [Side -> Seq(Weights)] /\ keyLog' \in [Side -> Seq(Weights)]
  BY <1>1, LogsUntouched
<1>18. DoWrite(s, n, m)
  BY <1>2 DEF n, l, a, m
<1>19. m.type # "reset"
  BY <1>11
<1>20. QED
  BY <1>1, <1>7, <1>10, <1>15, <1>16, <1>17, <1>18, <1>19, HandlerStep

-----------------------------------------------------------------------------
(* The other steps: none of them sends a message once the session is up.   *)

(* A step that sends nothing, and touches no machine that is still alive or *)
(* has a message waiting, leaves what is outstanding as it was.            *)
LEMMA NothingSent ==
    ASSUME IInv,
           \A s \in Side : chan'[s] \in {chan[s], <<>>},
           \A s \in Side : chan'[s] # <<>> => tpm'[s] = tpm[s],
           \A s \in Side : pc'[s] # "gone" => pc[s] # "gone" /\ tpm'[s] = tpm[s],
           link' = "up" => link = "up" /\ chan' = chan,
           link' = "none" => link = "none" /\ tpm'[Acceptor] = tpm[Acceptor],
           UNCHANGED keyLog
    PROVE  OneTurn' /\ Flight' /\ LogsClose' /\ Before'
<1>1. LogsClose'
  BY DEF IInv, LogsClose, LogsEqual
<1>2. OneTurn'
  BY SideFacts DEF IInv, OneTurn
<1>3. ASSUME NEW s \in Side, chan'[s] # <<>>
      PROVE  /\ pc'[Other(s)] # "gone" =>
                   SenderIs(tpm'[Other(s)], tpm'[s], Head(chan'[s]))
             /\ ReceiverIs(tpm'[s], Head(chan'[s]))
             /\ LogsAre(s, Head(chan[s]))'
  <2>1. chan'[s] = chan[s] /\ chan[s] # <<>> /\ tpm'[s] = tpm[s]
    BY <1>3
  <2>2. pc'[Other(s)] # "gone" =>
            pc[Other(s)] # "gone" /\ tpm'[Other(s)] = tpm[Other(s)]
    BY SideFacts
  <2>3. /\ pc[Other(s)] # "gone" =>
              SenderIs(tpm[Other(s)], tpm[s], Head(chan[s]))
        /\ ReceiverIs(tpm[s], Head(chan[s]))
        /\ LogsAre(s, Head(chan[s]))
    BY <2>1 DEF IInv, Flight
  <2>4. LogsAre(s, Head(chan[s]))'
    BY <2>1, <2>3 DEF LogsAre, LogsEqual
  <2>5. QED
    BY <2>1, <2>2, <2>3, <2>4
<1>4. Flight'
  BY <1>3 DEF Flight
<1>5. Before'
  BY DEF IInv, Before, LogsEqual
<1>6. QED
  BY <1>1, <1>2, <1>4, <1>5

LEMMA StopRings ==
    ASSUME IInv, NEW s \in Side, Stop(s), UNCHANGED keyLog
    PROVE  /\ Rings'
           /\ started' \in [Side -> BOOLEAN]
           /\ started'[s] = FALSE
           /\ started'[Other(s)] = started[Other(s)]
           /\ link' \in {"none", "closed", "silent"}
           /\ link' = "none" <=> link = "none"
           /\ registered' \in [Side -> BOOLEAN]
           /\ ring' \in [Side -> Seq(Weights)]
<1>1. /\ started \in [Side -> BOOLEAN]
      /\ link \in {"none", "up", "closed", "silent"}
      /\ registered \in [Side -> BOOLEAN]
      /\ ring \in [Side -> Seq(Weights)]
      /\ \A t \in Side : registered[t] => ring[t] = keyLog[t]
  BY DEF IInv, TypeOK, Rings
<1>2. /\ started' = [started EXCEPT ![s] = FALSE]
      /\ link' = IF link = "up" THEN "closed" ELSE link
      /\ registered' = [registered EXCEPT ![s] = registered[s] /\ ~named[s]]
      /\ ring' = [ring EXCEPT ![s] = IF named[s] THEN <<>> ELSE ring[s]]
  BY DEF Stop
<1>3. registered' \in [Side -> BOOLEAN]
  <2>1. (registered[s] /\ ~named[s]) \in BOOLEAN
    OBVIOUS
  <2>2. QED
    BY <1>1, <1>2, <2>1
<1>4. ring' \in [Side -> Seq(Weights)]
  <2>1. (IF named[s] THEN <<>> ELSE ring[s]) \in Seq(Weights)
    BY <1>1
  <2>2. QED
    BY <1>1, <1>2, <2>1
<1>5. ASSUME NEW t \in Side, registered'[t] PROVE ring'[t] = keyLog[t]
  <2>1. CASE t = s
    BY <1>1, <1>2, <1>5, <2>1
  <2>2. CASE t # s
    BY <1>1, <1>2, <1>5, <2>2
  <2>3. QED
    BY <2>1, <2>2
<1>6. Rings'
  BY <1>5 DEF Rings
<1>7. QED
  BY <1>1, <1>2, <1>3, <1>4, <1>6, SideFacts

LEMMA BeginStep ==
    ASSUME IInv, BeginSync \/ BeginSyncBadAddress PROVE IInv'
<1>1. /\ pc[Initiator] = "idle"
      /\ pc' = [pc EXCEPT ![Initiator] = pc'[Initiator]]
      /\ pc'[Initiator] \in {"connecting", "failed"}
      /\ started' = [started EXCEPT ![Initiator] = TRUE]
      /\ named' = [named EXCEPT ![Initiator] = TRUE]
      /\ UNCHANGED <<tpm, link, chan, registered, ring, keyLog>>
  BY SideFacts DEF BeginSync, BeginSyncBadAddress, serviceVars, IInv, TypeOK
<1>2. TypeOK'
  BY <1>1 DEF IInv, TypeOK, Operation
<1>3. Control'
  BY <1>1, SideFacts DEF IInv, TypeOK, Control
<1>4. OneTurn' /\ Flight' /\ LogsClose' /\ Before'
  <2>1. \A s \in Side : pc'[s] # "gone" => pc[s] # "gone"
    BY <1>1 DEF IInv, TypeOK
  <2>2. QED
    BY <1>1, <2>1, NothingSent
<1>5. Rings'
  BY <1>1 DEF IInv, Rings
<1>6. QED
  BY <1>2, <1>3, <1>4, <1>5 DEF IInv

LEMMA ConnectOkStep == ASSUME IInv, OnConnectOk PROVE IInv'
<1> USE SideFacts
<1>1. /\ pc[Initiator] = "connecting" /\ link = "none"
      /\ \A s \in Side : chan[s] = <<>>
      /\ link' = IF started[Initiator] THEN "up" ELSE "closed"
      /\ UNCHANGED <<started, named, registered, ring, keyLog>>
  BY DEF OnConnectOk, peerVars, serviceVars, IInv, Control
<1>2. LogsEqual' /\ LogsClose' /\ Rings'
  BY <1>1 DEF IInv, Before, LogsEqual, LogsClose, Rings
<1>3. CASE started[Initiator]
  <2>1. PICK i \in TpmIds, v \in Weights :
           /\ tpm' = [tpm EXCEPT ![Initiator] = NewMachine(i, v)]
           /\ pc' = [pc EXCEPT ![Initiator] = "writing"]
           /\ chan' = [chan EXCEPT ![Acceptor] = Append(chan[Acceptor], InitMsg(i))]
    BY <1>3 DEF OnConnectOk
  <2> DEFINE n == NewMachine(i, v)
             m == InitMsg(i)
  <2>2. n \in Machine /\ n.id = i /\ n.iteration = 0
    BY NewMachineType
  <2>3. m \in Message /\ m.type = "init" /\ m.id = i
    BY MessageTypes DEF InitMsg
  <2> HIDE DEF n, m
  <2>4. /\ chan' = [chan EXCEPT ![Acceptor] = <<m>>]
        /\ chan'[Acceptor] = <<m>> /\ chan'[Initiator] = <<>>
    BY <1>1, <2>1, OneAppended DEF IInv, TypeOK, m
  <2>5. /\ tpm' = [tpm EXCEPT ![Initiator] = n]
        /\ tpm'[Initiator] = n /\ tpm'[Acceptor] = tpm[Acceptor]
    BY <2>1 DEF IInv, TypeOK, n
  <2>6. TypeOK'
    <3>1. tpm' \in [Side -> Machine]
      BY <2>2, <2>5 DEF IInv, TypeOK
    <3>2. chan' \in [Side -> Seq(Message)]
      BY <2>3, <2>4 DEF IInv, TypeOK
    <3>3. pc' \in [Side -> Operation]
      BY <2>1 DEF IInv, TypeOK, Operation
    <3>4. QED
      BY <1>1, <3>1, <3>2, <3>3 DEF IInv, TypeOK
  <2>7. Control'
    <3>1. pc'[Initiator] = "writing" /\ pc'[Acceptor] = "idle"
      BY <1>1, <2>1 DEF IInv, TypeOK, Control
    <3>2. \A s \in Side : s = Initiator \/ s = Acceptor
      BY DEF Side
    <3>3. link' = "up" /\ started' = started
      BY <1>1, <1>3
    <3>4. QED
      BY <1>3, <3>1, <3>2, <3>3 DEF Control
  <2>8. OneTurn'
    BY <2>4, OneAppended DEF OneTurn
  <2>9. tpm[Acceptor].id = NoId
    BY <1>1 DEF IInv, Before
  <2>10. SenderIs(n, tpm[Acceptor], m) /\ ReceiverIs(tpm[Acceptor], m)
    BY <2>2, <2>3, <2>9 DEF SenderIs, ReceiverIs
  <2>11. LogsAre(Acceptor, m)'
    BY <1>2, <2>3 DEF LogsAre
  <2>12. Flight'
    <3> SUFFICES ASSUME NEW s \in Side, chan'[s] # <<>>
                 PROVE  /\ SenderIs(tpm'[Other(s)], tpm'[s], Head(chan'[s]))
                        /\ ReceiverIs(tpm'[s], Head(chan'[s]))
                        /\ LogsAre(s, Head(chan[s]))'
      BY DEF Flight
    <3>1. s = Acceptor /\ Other(s) = Initiator
      BY <2>4 DEF Side, Other
    <3>2. Head(chan'[s]) = m
      BY <2>4, <3>1, OneAppended
    <3>3. LogsAre(s, Head(chan[s]))'
      BY <1>2, <2>3, <3>2 DEF LogsAre
    <3>4. QED
      BY <2>5, <2>10, <3>1, <3>2, <3>3
  <2>13. Before'
    BY <1>1, <1>3 DEF Before
  <2>14. QED
    BY <1>2, <2>6, <2>7, <2>8, <2>12, <2>13 DEF IInv
<1>4. CASE ~started[Initiator]
  <2>1. /\ pc' = [pc EXCEPT ![Initiator] = "gone"]
        /\ link' = "closed"
        /\ UNCHANGED <<tpm, chan>>
    BY <1>1, <1>4 DEF OnConnectOk
  <2>2. TypeOK'
    BY <1>1, <2>1 DEF IInv, TypeOK, Operation
  <2>3. Control'
    BY <1>1, <1>4, <2>1 DEF IInv, TypeOK, Control
  <2>4. \A s \in Side : pc'[s] # "gone" => pc[s] # "gone"
    BY <1>1, <2>1 DEF IInv, TypeOK
  <2>5. OneTurn' /\ Flight' /\ Before'
    BY <1>1, <2>1, <2>4, NothingSent
  <2>6. QED
    BY <1>2, <2>2, <2>3, <2>5 DEF IInv
<1>5. QED
  BY <1>3, <1>4

LEMMA ConnectErrStep == ASSUME IInv, OnConnectErr PROVE IInv'
<1> USE SideFacts
<1>1. /\ pc[Initiator] = "connecting" /\ link = "none"
      /\ \A s \in Side : chan[s] = <<>>
      /\ pc' = [pc EXCEPT ![Initiator] = "gone"]
      /\ Stop(Initiator)
      /\ UNCHANGED <<named, tpm, chan, keyLog>>
  BY DEF OnConnectErr, IInv, Control
<1>2. /\ Rings'
      /\ started' \in [Side -> BOOLEAN]
      /\ started'[Initiator] = FALSE
      /\ started'[Other(Initiator)] = started[Other(Initiator)]
      /\ link' = "none"
      /\ registered' \in [Side -> BOOLEAN]
      /\ ring' \in [Side -> Seq(Weights)]
  BY <1>1, StopRings
<1>3. TypeOK'
  BY <1>1, <1>2 DEF IInv, TypeOK, Operation
<1>4. Control'
  <2>1. pc'[Initiator] = "gone" /\ pc'[Acceptor] = pc[Acceptor]
    BY <1>1 DEF IInv, TypeOK
  <2>2. Other(Initiator) = Acceptor
    BY DEF Other
  <2>3. \A s \in Side : s = Initiator \/ s = Acceptor
    BY DEF Side
  <2>4. QED
    BY <1>1, <1>2, <2>1, <2>2, <2>3 DEF IInv, Control
<1>5. \A s \in Side : pc'[s] # "gone" => pc[s] # "gone"
  BY <1>1 DEF IInv, TypeOK
<1>6. OneTurn' /\ Flight' /\ LogsClose' /\ Before'
  BY <1>1, <1>2, <1>5, NothingSent
<1>7. QED
  BY <1>2, <1>3, <1>4, <1>6 DEF IInv

LEMMA AcceptStep == ASSUME IInv, Accept PROVE IInv'
<1> USE SideFacts
<1>1. /\ pc[Acceptor] = "idle" /\ link # "none"
      /\ pc' = [pc EXCEPT ![Acceptor] = "reading"]
      /\ started' = [started EXCEPT ![Acceptor] = TRUE]
      /\ UNCHANGED <<named, tpm, link, chan, registered, ring, keyLog>>
  BY DEF Accept, serviceVars
<1>2. TypeOK'
  BY <1>1 DEF IInv, TypeOK, Operation
<1>3. Control'
  BY <1>1 DEF IInv, TypeOK, Control
<1>4. \A s \in Side : pc'[s] # "gone" => pc[s] # "gone"
  BY <1>1 DEF IInv, TypeOK
<1>5. OneTurn' /\ Flight' /\ LogsClose' /\ Before'
  BY <1>1, <1>4, NothingSent
<1>6. Rings'
  BY <1>1 DEF IInv, Rings
<1>7. QED
  BY <1>2, <1>3, <1>5, <1>6 DEF IInv

LEMMA ReadWriteStep ==
    ASSUME IInv, NEW s \in Side, OnRead(s) \/ OnWrite(s) PROVE IInv'
<1>1. /\ pc[s] \in {"reading", "writing"}
      /\ pc' = [pc EXCEPT ![s] = pc'[s]]
      /\ \/ pc'[s] = "handling" /\ chan[s] # <<>>
         \/ pc'[s] = "reading"
      /\ UNCHANGED <<started, named, tpm, link, chan, registered, ring, keyLog>>
  BY DEF OnRead, OnWrite, peerVars, serviceVars, IInv, TypeOK
<1>2. TypeOK'
  BY <1>1 DEF IInv, TypeOK, Operation
<1>3. Control'
  BY <1>1, SideFacts DEF IInv, TypeOK, Control
<1>4. \A t \in Side : pc'[t] # "gone" => pc[t] # "gone"
  BY <1>1 DEF IInv, TypeOK
<1>5. OneTurn' /\ Flight' /\ LogsClose' /\ Before'
  BY <1>1, <1>4, NothingSent
<1>6. Rings'
  BY <1>1 DEF IInv, Rings
<1>7. QED
  BY <1>2, <1>3, <1>5, <1>6 DEF IInv

LEMMA ReadErrorStep == ASSUME IInv, NEW s \in Side, OnReadError(s) PROVE IInv'
<1> USE SideFacts
<1> DEFINE o == Other(s)
<1>1. /\ pc[s] = "reading"
      /\ ~started[s] \/ link = "closed"
      /\ pc' = [pc EXCEPT ![s] = "gone"]
      /\ tpm' = [tpm EXCEPT ![s] = Blank]
      /\ chan' = [chan EXCEPT ![s] = <<>>]
      /\ UNCHANGED <<named, keyLog>>
  BY DEF OnReadError
<1>2. pc[s] # "idle" /\ (started[s] => link # "up")
  BY <1>1 DEF IInv, TypeOK
<1>3. link # "up"
  BY <1>1, <1>2 DEF IInv, Control
<1>4. /\ Rings'
      /\ started' \in [Side -> BOOLEAN]
      /\ started'[s] = FALSE
      /\ started'[o] = started[o]
      /\ link' = link
      /\ registered' \in [Side -> BOOLEAN]
      /\ ring' \in [Side -> Seq(Weights)]
  <2>1. CASE started[s]
    <3>1. Stop(s)
      BY <2>1 DEF OnReadError
    <3>2. link' = link
      BY <1>3, <3>1 DEF Stop
    <3>3. QED
      BY <1>1, <3>1, <3>2, StopRings
  <2>2. CASE ~started[s]
    <3>1. UNCHANGED <<started, link, registered, ring>>
      BY <2>2 DEF OnReadError, serviceVars
    <3>2. QED
      BY <1>1, <2>2, <3>1 DEF IInv, TypeOK, Rings
  <2>3. QED
    BY <2>1, <2>2
<1>5. /\ pc'[s] = "gone" /\ pc'[o] = pc[o]
      /\ chan'[s] = <<>> /\ chan'[o] = chan[o]
      /\ tpm'[s] = Blank /\ tpm'[o] = tpm[o]
  BY <1>1 DEF IInv, TypeOK
<1>6. TypeOK'
  <2>1. pc' \in [Side -> Operation]
    BY <1>1 DEF IInv, TypeOK, Operation
  <2>2. tpm' \in [Side -> Machine]
    BY <1>1, BlankType DEF IInv, TypeOK
  <2>3. chan' \in [Side -> Seq(Message)]
    BY <1>1 DEF IInv, TypeOK
  <2>4. QED
    BY <1>1, <1>4, <2>1, <2>2, <2>3 DEF IInv, TypeOK
<1>7. Control'
  <2>1. link = "none" => pc'[Acceptor] = "idle" /\ \A t \in Side : chan'[t] = <<>>
    BY <1>1, <1>2, <1>5 DEF IInv, Control
  <2>2. pc'[Initiator] \in {"idle", "connecting", "failed"} => link = "none"
    BY <1>5 DEF IInv, Control
  <2>3. pc'[Acceptor] \notin {"connecting", "failed"}
    BY <1>5 DEF IInv, Control
  <2>4. ASSUME NEW t \in Side
        PROVE  /\ pc'[t] = "handling" => chan'[t] # <<>>
               /\ pc'[t] = "gone" => chan'[t] = <<>> /\ ~started'[t]
    <3>1. CASE t = s
      BY <1>4, <1>5, <3>1
    <3>2. CASE t = o
      BY <1>4, <1>5, <3>2 DEF IInv, Control
    <3>3. QED
      BY <3>1, <3>2
  <2>5. QED
    BY <1>3, <1>4, <2>1, <2>2, <2>3, <2>4 DEF Control
<1>8. OneTurn' /\ Flight' /\ LogsClose' /\ Before'
  <2>1. link = "none" => s # Acceptor
    BY <1>1 DEF IInv, Control
  <2>2. link' = "none" => tpm'[Acceptor] = tpm[Acceptor]
    BY <1>4, <1>5, <2>1
  <2>3. \A t \in Side : t = s \/ t = o
    OBVIOUS
  <2>4. /\ \A t \in Side : chan'[t] \in {chan[t], <<>>}
        /\ \A t \in Side : chan'[t] # <<>> => tpm'[t] = tpm[t]
        /\ \A t \in Side :
              pc'[t] # "gone" => pc[t] # "gone" /\ tpm'[t] = tpm[t]
    BY <1>5, <2>3
  <2>5. QED
    BY <1>1, <1>3, <1>4, <2>2, <2>4, NothingSent
<1>9. QED
  BY <1>4, <1>6, <1>7, <1>8 DEF IInv

LEMMA LeaveStep == ASSUME IInv, NEW s \in Side, Leave(s) PROVE IInv'
<1> USE SideFacts
<1> DEFINE o == Other(s)
<1>1. /\ started[s]
      /\ Stop(s)
      /\ pc' = IF pc[s] = "failed" THEN [pc EXCEPT ![s] = "gone"] ELSE pc
      /\ UNCHANGED <<named, tpm, chan, keyLog>>
  BY DEF Leave
<1>2. /\ Rings'
      /\ started' \in [Side -> BOOLEAN]
      /\ started'[s] = FALSE
      /\ started'[o] = started[o]
      /\ link' \in {"none", "closed", "silent"}
      /\ link' = "none" <=> link = "none"
      /\ registered' \in [Side -> BOOLEAN]
      /\ ring' \in [Side -> Seq(Weights)]
  BY <1>1, StopRings
<1>3. TypeOK'
  <2>1. pc' \in [Side -> Operation]
    BY <1>1 DEF IInv, TypeOK, Operation
  <2>2. link' \in {"none", "up", "closed", "silent"}
    BY <1>2
  <2>3. QED
    BY <1>1, <1>2, <2>1, <2>2 DEF IInv, TypeOK
<1>4. /\ pc'[o] = pc[o]
      /\ pc'[s] = IF pc[s] = "failed" THEN "gone" ELSE pc[s]
  BY <1>1 DEF IInv, TypeOK
<1>5. pc[s] = "failed" => s = Initiator /\ link = "none"
  BY DEF IInv, Control, Side
<1>6. Control'
  <2>1. link' = "none" => pc'[Acceptor] = "idle" /\ \A t \in Side : chan'[t] = <<>>
    <3>1. link = "none" => pc[Acceptor] = "idle" /\ \A t \in Side : chan[t] = <<>>
      BY DEF IInv, Control
    <3>2. pc[Acceptor] = "idle" => pc'[Acceptor] = "idle"
      BY <1>4
    <3>3. QED
      BY <1>1, <1>2, <3>1, <3>2
  <2>2. pc'[Initiator] \in {"idle", "connecting", "failed"} => link' = "none"
    <3>1. pc[Initiator] \in {"idle", "connecting", "failed"} => link = "none"
      BY DEF IInv, Control
    <3>2. pc'[Initiator] \in {"gone", pc[Initiator]}
      BY <1>4
    <3>3. QED
      BY <1>2, <3>1, <3>2
  <2>3. pc'[Acceptor] \notin {"connecting", "failed"}
    <3>1. pc[Acceptor] \notin {"connecting", "failed"}
      BY DEF IInv, Control
    <3>2. pc'[Acceptor] \in {"gone", pc[Acceptor]}
      BY <1>4
    <3>3. QED
      BY <3>1, <3>2
  <2>4. ASSUME NEW t \in Side
        PROVE  /\ pc'[t] = "handling" => chan[t] # <<>>
               /\ pc'[t] = "gone" => chan[t] = <<>> /\ ~started'[t]
    <3>1. /\ pc[t] = "handling" => chan[t] # <<>>
          /\ pc[t] = "gone" => chan[t] = <<>> /\ ~started[t]
      BY DEF IInv, Control
    <3>2. CASE t = s
      <4>1. pc[s] = "failed" => chan[s] = <<>>
        BY <1>5 DEF IInv, Control
      <4>2. QED
        BY <1>2, <1>4, <3>1, <3>2, <4>1
    <3>3. CASE t = o
      BY <1>2, <1>4, <3>1, <3>3
    <3>4. QED
      BY <3>2, <3>3
  <2>5. QED
    BY <1>1, <1>2, <2>1, <2>2, <2>3, <2>4 DEF Control
<1>7. OneTurn' /\ Flight' /\ LogsClose' /\ Before'
  <2>1. \A t \in Side : pc'[t] # "gone" => pc[t] # "gone"
    BY <1>4
  <2>2. QED
    BY <1>1, <1>2, <2>1, NothingSent
<1>8. QED
  BY <1>2, <1>3, <1>6, <1>7 DEF IInv

LEMMA LinkStep == ASSUME IInv, Disconnect \/ GoSilent PROVE IInv'
<1>1. /\ link = "up" /\ link' \in {"closed", "silent"}
      /\ \A s \in Side : chan'[s] \in {chan[s], <<>>}
      /\ \A s \in Side : pc[s] = "handling" => chan'[s] = chan[s]
      /\ chan' \in [Side -> Seq(Message)]
      /\ UNCHANGED <<pc, started, named, tpm, registered, ring, keyLog>>
  <2>1. chan \in [Side -> Seq(Message)]
    BY DEF IInv, TypeOK
  <2>2. CASE Disconnect
    BY <2>1, <2>2 DEF Disconnect, peerVars, serviceVars
  <2>3. CASE GoSilent
    <3>1. chan' = [s \in Side |-> IF pc[s] = "handling" THEN chan[s] ELSE <<>>]
      BY <2>3 DEF GoSilent
    <3>2. \A s \in Side :
             (IF pc[s] = "handling" THEN chan[s] ELSE <<>>) \in Seq(Message)
      BY <2>1
    <3>3. chan' \in [Side -> Seq(Message)]
      BY <3>1, <3>2
    <3>4. QED
      BY <2>3, <3>1, <3>3 DEF GoSilent, peerVars, serviceVars
  <2>4. QED
    BY <2>2, <2>3
<1>2. TypeOK'
  BY <1>1 DEF IInv, TypeOK
<1>3. Control'
  <2>1. pc[Initiator] \notin {"idle", "connecting", "failed"}
    BY <1>1 DEF IInv, Control
  <2>2. \A s \in Side : /\ pc[s] = "handling" => chan[s] # <<>>
                        /\ pc[s] = "gone" => chan[s] = <<>> /\ ~started[s]
    BY DEF IInv, Control
  <2>3. \A s \in Side : /\ pc[s] = "handling" => chan'[s] # <<>>
                        /\ pc[s] = "gone" => chan'[s] = <<>>
    BY <1>1, <2>2
  <2>4. pc[Acceptor] \notin {"connecting", "failed"}
    BY DEF IInv, Control
  <2>5. link' # "none" /\ link' # "up" /\ pc' = pc /\ started' = started
    BY <1>1
  <2>6. QED
    BY <2>1, <2>2, <2>3, <2>4, <2>5 DEF Control
<1>4. OneTurn' /\ Flight' /\ LogsClose' /\ Before'
  BY <1>1, NothingSent
<1>5. Rings'
  BY <1>1 DEF IInv, Rings
<1>6. QED
  BY <1>2, <1>3, <1>4, <1>5 DEF IInv

LEMMA StutterStep == ASSUME IInv, UNCHANGED vars PROVE IInv'
<1>1. UNCHANGED <<pc, started, named, tpm, link, chan, registered, ring, keyLog>>
  BY DEF vars
<1>2. TypeOK' /\ Control' /\ Before' /\ Rings' /\ LogsClose'
  BY <1>1 DEF IInv, TypeOK, Control, Before, Rings, LogsClose, LogsEqual
<1>3. OneTurn' /\ Flight'
  BY <1>1, NothingSent
<1>4. QED
  BY <1>2, <1>3 DEF IInv

-----------------------------------------------------------------------------
(* The theorems.                                                           *)

LEMMA InvariantInit == Init => IInv
<1> SUFFICES ASSUME Init PROVE IInv
  OBVIOUS
<1> USE SideFacts DEF Init
<1>1. TypeOK
  BY BlankType DEF TypeOK, Operation
<1>2. \A s \in Side : pc[s] = "idle" /\ chan[s] = <<>> /\ keyLog[s] = <<>>
                      /\ ring[s] = <<>>
  OBVIOUS
<1>3. Control /\ OneTurn /\ Flight /\ Rings
  BY <1>2 DEF Control, OneTurn, Flight, Rings
<1>4. Before /\ LogsClose
  BY <1>2 DEF Before, LogsClose, LogsEqual, Blank
<1>5. QED
  BY <1>1, <1>3, <1>4 DEF IInv

LEMMA InvariantStep == IInv /\ [Next]_vars => IInv'
<1> SUFFICES ASSUME IInv, [Next]_vars PROVE IInv'
  OBVIOUS
<1>1. CASE BeginSync \/ BeginSyncBadAddress
  BY <1>1, BeginStep
<1>2. ASSUME NEW s \in Side, PeerStep(s) PROVE IInv'
  <2>1. CASE Connected
    BY <2>1, ConnectOkStep, ConnectErrStep DEF Connected
  <2>2. CASE Accept
    BY <2>2, AcceptStep
  <2>3. CASE OnRead(s) \/ OnWrite(s)
    BY <2>3, ReadWriteStep
  <2>4. CASE OnReadError(s)
    BY <2>4, ReadErrorStep
  <2>5. CASE Handler(s)
    BY <2>5, OnInitStep, OnLinkingStep, OnSyncExhaustedStep,
       OnSyncKeyFoundStep, OnSyncContinueStep, OnResetStep DEF Handler
  <2>6. QED
    BY <1>2, <2>1, <2>2, <2>3, <2>4, <2>5 DEF PeerStep
<1>3. ASSUME NEW s \in Side, Leave(s) PROVE IInv'
  BY <1>3, LeaveStep
<1>4. CASE Disconnect \/ GoSilent
  BY <1>4, LinkStep
<1>5. CASE UNCHANGED vars
  BY <1>5, StutterStep
<1>6. QED
  BY <1>1, <1>2, <1>3, <1>4, <1>5 DEF Next

(* What holds of every reachable state of every session. *)
THEOREM SessionInvariant == Spec => []IInv
  BY InvariantInit, InvariantStep, PTL DEF Spec
=============================================================================

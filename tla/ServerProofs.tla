---------------------------- MODULE ServerProofs ----------------------------
(***************************************************************************)
(* Proofs about Server, for any number of REST threads, peers, names and   *)
(* registrations.                                                          *)
(***************************************************************************)
EXTENDS ServerInv, SequenceTheorems, FiniteSetTheorems, TLAPS

-----------------------------------------------------------------------------
LEMMA ActorFacts ==
    /\ Actor = Rest \union Peer /\ Peer = Dialers \union Listeners
    /\ \A t \in Rest : t \in Actor /\ t \notin Peer
    /\ \A p \in Peer : p \in Actor /\ p \notin Rest /\ p # NoPeer
    /\ Dialers \intersect Listeners = {}
    /\ NoName \notin Names /\ Asked \subseteq Names
    /\ Longer \in [Names -> SUBSET Names]
    /\ MaxServices \in Nat
  BY ServerAssumption DEF Actor, Peer

LEMMA CallFacts ==
    ASSUME call \in [Actor -> Call], NEW a \in Actor, NEW c, SetCall(a, c)
    PROVE  /\ call'[a] = c
           /\ \A b \in Actor : b # a => call'[b] = call[b]
           /\ c \in Call => call' \in [Actor -> Call]
  BY DEF SetCall

LEMMA IdleFacts ==
    /\ Idle \in Call
    /\ Idle.at = "idle" /\ Idle.name = NoName /\ Idle.serial = 0
    /\ Idle.peer = NoPeer /\ ~Idle.early /\ Idle.left = {} /\ Idle.due = {}
  BY DEF Idle, Call, Step, RestStep, MaybeName

-----------------------------------------------------------------------------
(* Services.                                                               *)

LEMMA SlotFacts ==
    ASSUME NEW s \in Seq(Slot)
    PROVE  /\ Len(s) \in Nat /\ DOMAIN s = 1 .. Len(s)
           /\ \A i \in DOMAIN s : /\ s[i] \in Slot
                                  /\ s[i].name \in MaybeName
                                  /\ s[i].serial \in Serial
                                  /\ s[i].data \in SUBSET Serial
<1>1. \A i \in 1 .. Len(s) : s[i] \in Slot
  BY ElementOfSeq
<1>2. Len(s) \in Nat /\ DOMAIN s = 1 .. Len(s)
  BY LenProperties
<1>3. QED
  BY <1>1, <1>2 DEF Slot

LEMMA Appending ==
    ASSUME NEW s \in Seq(Slot), NEW x \in Slot
    PROVE  LET r == Append(s, x)
           IN  /\ r \in Seq(Slot) /\ Len(r) = Len(s) + 1
               /\ DOMAIN r = 1 .. Len(s) + 1
               /\ r[Len(s) + 1] = x
               /\ \A i \in DOMAIN s : r[i] = s[i]
<1>1. Len(s) \in Nat /\ DOMAIN s = 1 .. Len(s)
  BY SlotFacts
<1>2. QED
  BY <1>1, AppendProperties

LEMMA NameWritten ==
    ASSUME NEW s \in Seq(Slot), NEW i, NEW n \in MaybeName
    PROVE  LET r == [s EXCEPT ![i].name = n]
           IN  /\ r \in Seq(Slot) /\ Len(r) = Len(s) /\ DOMAIN r = DOMAIN s
               /\ \A j \in DOMAIN s : /\ r[j].serial = s[j].serial
                                      /\ r[j].data = s[j].data
                                      /\ j # i => r[j] = s[j]
                                      /\ j = i => r[j].name = n
<1> DEFINE r == [s EXCEPT ![i].name = n]
<1>1. \A j \in DOMAIN s : s[j] \in Slot
  BY SlotFacts
<1>2. DOMAIN r = DOMAIN s /\ s \in [DOMAIN s -> Slot]
  BY <1>1, SlotFacts
<1>3. \A j \in DOMAIN s : r[j] = IF j = i THEN [s[j] EXCEPT !.name = n] ELSE s[j]
  BY <1>2
<1>4. \A j \in DOMAIN s : /\ r[j] \in Slot
                          /\ r[j].serial = s[j].serial
                          /\ r[j].data = s[j].data
                          /\ j # i => r[j] = s[j]
                          /\ j = i => r[j].name = n
  BY <1>1, <1>3 DEF Slot
<1>5. r \in [1 .. Len(s) -> Slot] /\ Len(s) \in Nat
  BY <1>2, <1>4, SlotFacts
<1>6. r \in Seq(Slot) /\ Len(r) = Len(s)
  BY <1>5, SlotFacts
<1>7. QED
  BY <1>2, <1>4, <1>6

LEMMA Writing ==
    ASSUME NEW s \in Seq(Slot), NEW i, NEW n \in Serial
    PROVE  LET r == [s EXCEPT ![i].data = @ \union {n}]
           IN  /\ r \in Seq(Slot) /\ Len(r) = Len(s) /\ DOMAIN r = DOMAIN s
               /\ \A j \in DOMAIN s : /\ r[j].serial = s[j].serial
                                      /\ r[j].name = s[j].name
                                      /\ j # i => r[j] = s[j]
                                      /\ j = i => r[j].data = s[j].data \union {n}
<1> DEFINE r == [s EXCEPT ![i].data = @ \union {n}]
<1>1. \A j \in DOMAIN s : s[j] \in Slot
  BY SlotFacts
<1>2. DOMAIN r = DOMAIN s /\ s \in [DOMAIN s -> Slot]
  BY <1>1, SlotFacts
<1>3. \A j \in DOMAIN s :
         r[j] = IF j = i THEN [s[j] EXCEPT !.data = @ \union {n}] ELSE s[j]
  BY <1>2
<1>4. \A j \in DOMAIN s : /\ r[j] \in Slot
                          /\ r[j].serial = s[j].serial
                          /\ r[j].name = s[j].name
                          /\ j # i => r[j] = s[j]
                          /\ j = i => r[j].data = s[j].data \union {n}
  BY <1>1, <1>3 DEF Slot
<1>5. r \in [1 .. Len(s) -> Slot] /\ Len(s) \in Nat
  BY <1>2, <1>4, SlotFacts
<1>6. r \in Seq(Slot) /\ Len(r) = Len(s)
  BY <1>5, SlotFacts
<1>7. QED
  BY <1>2, <1>4, <1>6

(* Erasing the slot i: the others move up, and stay apart.                  *)
LEMMA Erasing ==
    ASSUME NEW s \in Seq(Slot), NEW i \in DOMAIN s
    PROVE  LET r == RemoveAt(s, i)
           IN  /\ r \in Seq(Slot) /\ Len(r) = Len(s) - 1
               /\ DOMAIN r = 1 .. Len(s) - 1
               /\ \A j \in DOMAIN r :
                     r[j] = IF j < i THEN s[j] ELSE s[j + 1]
<1> DEFINE a == SubSeq(s, 1, i - 1)
           b == SubSeq(s, i + 1, Len(s))
           r == RemoveAt(s, i)
<1>1. Len(s) \in Nat /\ i \in 1 .. Len(s) /\ \A j \in 1 .. Len(s) : s[j] \in Slot
  BY SlotFacts
<1>2. /\ a \in Seq(Slot) /\ Len(a) = i - 1
      /\ \A j \in 1 .. i - 1 : a[j] = s[j]
  BY <1>1, SubSeqProperties
<1>3. /\ b \in Seq(Slot) /\ Len(b) = Len(s) - i
      /\ \A j \in 1 .. Len(s) - i : b[j] = s[i + j]
  BY <1>1, SubSeqProperties
<1>4. r = a \o b
  BY DEF RemoveAt
<1> HIDE DEF a, b, r
<1>5. /\ r \in Seq(Slot) /\ Len(r) = Len(s) - 1
      /\ \A j \in 1 .. Len(s) - 1 : r[j] = IF j <= i - 1 THEN a[j] ELSE b[j - (i - 1)]
  <2>1. Len(a) + Len(b) = Len(s) - 1
    BY <1>1, <1>2, <1>3
  <2>2. /\ a \o b \in Seq(Slot) /\ Len(a \o b) = Len(a) + Len(b)
        /\ \A j \in 1 .. Len(a) + Len(b) :
              (a \o b)[j] = IF j <= Len(a) THEN a[j] ELSE b[j - Len(a)]
    BY <1>2, <1>3, ConcatProperties
  <2>3. QED
    BY <1>2, <1>4, <2>1, <2>2
<1>6. ASSUME NEW j \in 1 .. Len(s) - 1
      PROVE  r[j] = IF j < i THEN s[j] ELSE s[j + 1]
  <2>1. CASE j < i
    BY <1>1, <1>2, <1>5, <2>1
  <2>2. CASE ~(j < i)
    <3>1. j - (i - 1) \in 1 .. Len(s) - i /\ i + (j - (i - 1)) = j + 1 /\ ~(j <= i - 1)
      BY <1>1, <2>2
    <3>2. r[j] = b[j - (i - 1)]
      BY <1>5, <3>1
    <3>3. b[j - (i - 1)] = s[i + (j - (i - 1))]
      BY <1>3, <3>1
    <3>4. QED
      BY <2>2, <3>1, <3>2, <3>3
  <2>3. QED
    BY <2>1, <2>2
<1>7. QED
  BY <1>5, <1>6, SlotFacts DEF r

-----------------------------------------------------------------------------
(* Calls.                                                                  *)

(* All but where the actors are has its type.                              *)
RestTyped == /\ services \in Seq(Slot) /\ tickets \subseteq Ticket
             /\ count \in 0 .. MaxServices
             /\ overlap \in BOOLEAN /\ reused \in BOOLEAN /\ met \in BOOLEAN

(* A REST thread goes on to c, and no peer changes.                        *)
LEMMA RestQuiet ==
    ASSUME Calls, NEW t \in Rest, NEW c \in Call, SetCall(t, c),
           UNCHANGED peerVars, RestTyped',
           call[t].at \notin {"begin", "unlist"},
           c.at \notin {"begin", "unlist"},
           c.at \in RestStep \union StopStep,
           ~c.early,
           c.at \in StopStep <=> c.peer # NoPeer,
           c.at = "idle" => c.name = NoName,
           c.at \in {"gen", "assign", "answer"} => c.name # NoName,
           c.at \in RestStep \ {"exit"} => c.due = {} /\ c.left = {},
           \A p \in c.left : call[p].at # "new",
           c.at \in StopStep => call[c.peer].at # "new",
           c.at \in {"remove", "erase"} =>
              /\ call[c.peer].at \notin {"new", "listed"}
              /\ ~started[c.peer] /\ c.peer \notin peers,
           \A p \in c.due : call[p].at \notin {"new", "listed"},
           \A p \in c.due : started[p] /\ c.name # NoName =>
              bears[p] = c.name /\ (p \in c.left \/ (c.at = "stop" /\ c.peer = p))
    PROVE  Calls'
<1>1. /\ call \in [Actor -> Call] /\ t \in Actor /\ t \notin Peer
      /\ \A p \in Peer : p \in Actor /\ p # t
      /\ \A u \in Rest : u \in Actor
  BY ActorFacts DEF Calls, TypeOK
<1>2. /\ call'[t] = c /\ call' \in [Actor -> Call]
      /\ \A b \in Actor : b # t => call'[b] = call[b]
  BY <1>1, CallFacts
<1>3. UNCHANGED <<peers, started, bears, session>>
  BY DEF peerVars
<1>4. TypeOK'
  BY <1>2, <1>3 DEF Calls, TypeOK, RestTyped
<1>5. RestCalls'
  BY <1>1, <1>2 DEF Calls, RestCalls
<1>6. Beginning'
  <2>1. \A p \in Dialers : call'[p] = call[p]
    BY <1>1, <1>2, ActorFacts
  <2>2. \A u \in Rest : call'[u].at = "begin" => call'[u] = call[u]
    BY <1>1, <1>2
  <2>3. QED
    BY <1>3, <2>1, <2>2 DEF Calls, Beginning
<1>7. PeerCalls'
  <2>1. \A p \in Peer : call'[p] = call[p]
    BY <1>1, <1>2
  <2>2. \A u \in Rest : call[u].at = "begin" => call'[u] = call[u]
    BY <1>1, <1>2
  <2>3. QED
    BY <1>3, <2>1, <2>2 DEF Calls, PeerCalls
<1>8. Stops'
  <2>1. \A p \in Peer : call'[p] = call[p]
    BY <1>1, <1>2
  <2>2. \A b \in Actor : Stopping(b)' => call'[b].peer \in Peer
    <3>1. ASSUME NEW u \in Rest, Stopping(u)' PROVE call'[u].peer \in Peer
      BY <1>1, <1>2, <1>5, <3>1 DEF RestCalls, Stopping, StopStep, Call
    <3>2. \A p \in Peer : call'[p].peer = p
      BY <2>1 DEF Calls, PeerCalls
    <3>3. QED
      BY <3>1, <3>2, ActorFacts
  <2>3. QED
    BY <1>1, <1>2, <1>3, <2>1, <2>2 DEF Calls, Stops, Stopping
<1>9. ErasesItself'
  BY <1>1, <1>2, <1>3 DEF Calls, ErasesItself
<1>10. Unlisted'
  <2>1. \A a \in Actor : call[a].at = "unlist" => call'[a] = call[a]
    BY <1>1, <1>2
  <2>2. \A p \in Peer : call'[p] = call[p]
    BY <1>1, <1>2
  <2>3. QED
    BY <1>3, <2>1, <2>2 DEF Calls, Unlisted
<1>11. DueAhead'
  BY <1>1, <1>2, <1>3 DEF Calls, DueAhead
<1>12. Reached'
  <2>1. \A p \in Peer : call'[p] = call[p]
    BY <1>1, <1>2
  <2>2. \A u \in Rest : /\ call'[u] \in Call
                        /\ call'[u].at \in StopStep => call'[u].peer \in Peer
    BY <1>2, <1>5, ActorFacts DEF RestCalls, Call
  <2>3. \A u \in Rest : call'[u].left \in SUBSET Peer /\ call'[u].due \in SUBSET Peer
    BY <2>2 DEF Call
  <2>4. QED
    BY <1>1, <1>2, <2>1, <2>2, <2>3 DEF Calls, Reached
<1>13. QED
  BY <1>4, <1>5, <1>6, <1>7, <1>8, <1>9, <1>10, <1>11, <1>12 DEF Calls

(* The handler of a peer goes on to c, and no peer changes.                *)
LEMMA PeerQuiet ==
    ASSUME Calls, NEW p \in Peer, NEW c \in Call, SetCall(p, c),
           UNCHANGED peerVars, RestTyped',
           call[p].at \notin {"new", "listed", "unlist"},
           c.at \notin {"new", "listed", "unlist"},
           c.at \in PeerStep \union StopStep,
           c.peer = p,
           c.at = "append" => bears[p] # NoName /\ c.serial = session[p],
           c.at = "gone" => ~started[p],
           c.early => c.at \in {"remove", "erase"},
           c.at \in {"remove", "erase"} /\ ~c.early => ~started[p] /\ p \notin peers
    PROVE  Calls'
<1>1. /\ call \in [Actor -> Call] /\ p \in Actor /\ p \notin Rest
      /\ \A q \in Peer : q \in Actor
      /\ \A u \in Rest : u \in Actor /\ u # p
  BY ActorFacts DEF Calls, TypeOK
<1>2. /\ call'[p] = c /\ call' \in [Actor -> Call]
      /\ \A b \in Actor : b # p => call'[b] = call[b]
  BY <1>1, CallFacts
<1>3. UNCHANGED <<peers, started, bears, session>>
  BY DEF peerVars
<1>4. TypeOK'
  BY <1>2, <1>3 DEF Calls, TypeOK, RestTyped
<1>5. RestCalls'
  BY <1>1, <1>2 DEF Calls, RestCalls
<1>6. Beginning'
  <2>1. \A u \in Rest : call'[u] = call[u]
    BY <1>1, <1>2
  <2>2. \A q \in Peer : call[q].at = "listed" => call'[q] = call[q]
    BY <1>1, <1>2
  <2>3. QED
    BY <1>3, <2>1, <2>2, ActorFacts DEF Calls, Beginning
<1>7. PeerCalls'
  <2>1. \A u \in Rest : call'[u] = call[u]
    BY <1>1, <1>2
  <2>2. ASSUME NEW q \in Peer, q # p
        PROVE  call'[q] = call[q]
    BY <1>1, <1>2, <2>2
  <2>3. c.at \notin {"new", "listed"}
    OBVIOUS
  <2>4. QED
    BY <1>2, <1>3, <2>1, <2>2, <2>3 DEF Calls, PeerCalls
<1>8. Stops'
  <2>1. \A q : call[q].at \notin {"new", "listed"} => call'[q].at \notin {"new", "listed"}
    BY <1>1, <1>2 DEF SetCall
  <2>2. ASSUME NEW b \in Actor, b # p
        PROVE  call'[b] = call[b]
    BY <1>2, <2>2
  <2>3. c.at # "unlist" /\ call'[p].at \notin {"new", "listed"}
    BY <1>2
  <2>4. QED
    BY <1>2, <1>3, <2>1, <2>2, <2>3 DEF Calls, Stops, Stopping
<1>9. ErasesItself'
  BY <1>1, <1>2, <1>3 DEF Calls, ErasesItself
<1>10. Unlisted'
  <2>1. \A a \in Actor : call[a].at = "unlist" => call'[a] = call[a]
    BY <1>1, <1>2
  <2>2. \A q \in Peer : call[q].at = "listed" <=> call'[q].at = "listed"
    BY <1>1, <1>2
  <2>3. QED
    BY <1>3, <2>1, <2>2 DEF Calls, Unlisted
<1>11. DueAhead'
  <2>1. \A u \in Rest : call'[u] = call[u]
    BY <1>1, <1>2
  <2>2. QED
    BY <1>3, <2>1 DEF Calls, DueAhead
<1>12. Reached'
  <2>1. \A u \in Rest : call'[u] = call[u]
    BY <1>1, <1>2
  <2>2. ASSUME NEW q \in Peer
        PROVE  /\ call[q].at # "new" => call'[q].at # "new"
               /\ call[q].at \notin {"new", "listed"} =>
                     call'[q].at \notin {"new", "listed"}
    BY <1>1, <1>2
  <2>3. ASSUME NEW u \in Rest
        PROVE  /\ call[u].left \in SUBSET Peer /\ call[u].due \in SUBSET Peer
               /\ call[u].at \in StopStep => call[u].peer \in Peer
    <3>1. call[u] \in Call
      BY <1>1
    <3>2. call[u].at \in StopStep => call[u].peer # NoPeer
      BY DEF Calls, RestCalls
    <3>3. QED
      BY <3>1, <3>2 DEF Call
  <2>4. QED
    BY <2>1, <2>2, <2>3 DEF Calls, Reached
<1>13. QED
  BY <1>4, <1>5, <1>6, <1>7, <1>8, <1>9, <1>10, <1>11, <1>12 DEF Calls

-----------------------------------------------------------------------------
LEMMA HereFacts ==
    ASSUME TypeOK
    PROVE  /\ call \in [Actor -> Call] /\ \A a \in Actor : call[a] \in Call
           /\ services \in Seq(Slot) /\ tickets \subseteq Ticket
           /\ count \in 0 .. MaxServices /\ RestTyped
           /\ \A p \in Peer : bears[p] \in MaybeName /\ session[p] \in Nat
  BY DEF TypeOK, RestTyped

LEMMA TouchFacts ==
    ASSUME NEW a \in Actor, overlap \in BOOLEAN, Touch(a)
    PROVE  /\ overlap' \in BOOLEAN
           /\ overlap => overlap'
           /\ ~overlap' => \A b \in Actor : b # a => ~Inside(b)
  BY DEF Touch

LEMMA NewServiceCalls ==
    ASSUME Calls, NEW t \in Rest, NEW n \in Asked, NewService(t, n)
    PROVE  Calls'
<1> DEFINE c == [Idle EXCEPT !.at = "gen", !.name = n, !.serial = count + 1,
                             !.index = Len(services) + 1]
           x == [name |-> NoName, serial |-> count + 1, data |-> {}]
<1>1. TypeOK /\ t \in Actor /\ n \in Names /\ n # NoName /\ MaxServices \in Nat
  BY ActorFacts DEF Calls
<1>2. /\ count \in Nat /\ count + 1 \in 1 .. MaxServices /\ Len(services) + 1 \in Nat
      /\ call[t].at = "idle"
  BY <1>1, HereFacts, SlotFacts DEF NewService
<1>3. /\ c \in Call
      /\ c.at = "gen" /\ c.name = n /\ ~c.early /\ c.peer = NoPeer
      /\ c.due = {} /\ c.left = {}
  <2>1. count + 1 \in Nat /\ "gen" \in Step /\ n \in MaybeName
    BY <1>1, <1>2 DEF Step, RestStep, MaybeName
  <2>2. QED
    BY <1>2, <2>1, IdleFacts DEF Call
<1>4. x \in Slot
  BY <1>2 DEF Slot, Serial, MaybeName
<1>5. RestTyped'
  BY <1>1, <1>2, <1>4, HereFacts, Appending, TouchFacts DEF NewService, RestTyped
<1>6. SetCall(t, c) /\ UNCHANGED peerVars
  BY DEF NewService
<1> HIDE DEF c
<1>7. QED
  BY <1>1, <1>2, <1>3, <1>5, <1>6, RestQuiet DEF RestStep, StopStep

LEMMA FreshFacts ==
    ASSUME NEW n \in Names
    PROVE  \A m \in Fresh(n) : /\ m \in Names /\ m \in MaybeName
                               /\ m # NoName /\ ~Registered(m)
  BY ActorFacts DEF Fresh, Registered, MaybeName

LEMMA GenNameCalls ==
    ASSUME Calls, NEW t \in Rest, GenName(t)
    PROVE  Calls'
<1>1. /\ TypeOK /\ t \in Actor /\ call[t] \in Call /\ call[t].at = "gen"
      /\ call[t].name \in Names
      /\ ~call[t].early /\ call[t].peer = NoPeer
  <2>1. TypeOK /\ t \in Actor /\ call[t].at = "gen"
    BY ActorFacts DEF Calls, GenName
  <2>2. call[t] \in Call /\ call[t].name # NoName
    BY <2>1, HereFacts DEF Calls, RestCalls
  <2>3. call[t].name \in Names
    BY <2>2 DEF Call, MaybeName
  <2>4. ~call[t].early /\ call[t].peer = NoPeer
    BY <2>1 DEF Calls, RestCalls, StopStep
  <2>5. QED
    BY <2>1, <2>2, <2>3, <2>4
<1>2. PICK n \in Fresh(call[t].name) :
         /\ SetCall(t, [call[t] EXCEPT !.at = "assign", !.name = n])
         /\ reused' = (reused \/ Borne(t, n))
  BY DEF GenName
<1> DEFINE c == [call[t] EXCEPT !.at = "assign", !.name = n]
<1>3. n \in MaybeName /\ n # NoName
  BY <1>1, FreshFacts
<1>4. /\ c \in Call
      /\ c.at = "assign" /\ c.name = n /\ ~c.early /\ c.peer = NoPeer
      /\ c.due = call[t].due /\ c.left = call[t].left
  <2>1. "assign" \in Step
    BY DEF Step, RestStep
  <2>2. QED
    BY <1>1, <1>3, <2>1 DEF Call
<1>5. SetCall(t, c) /\ UNCHANGED peerVars
  BY <1>2 DEF GenName
<1>6. RestTyped'
  BY <1>1, <1>2, HereFacts, TouchFacts DEF GenName, RestTyped, Borne
<1>7. call[t].due = {} /\ call[t].left = {}
  BY <1>1 DEF Calls, RestCalls, RestStep
<1> HIDE DEF c
<1>8. QED
  BY <1>1, <1>3, <1>4, <1>5, <1>6, <1>7, RestQuiet DEF RestStep, StopStep

LEMMA AssignCalls ==
    ASSUME Calls, NEW t \in Rest, Assign(t)
    PROVE  Calls'
<1> DEFINE c == [call[t] EXCEPT !.at = "answer"]
<1>1. /\ TypeOK /\ t \in Actor /\ call[t].at = "assign" /\ call[t] \in Call
  BY ActorFacts, HereFacts DEF Calls, Assign
<1>2. /\ call[t].name # NoName /\ ~call[t].early /\ call[t].peer = NoPeer
      /\ call[t].due = {} /\ call[t].left = {}
  BY <1>1 DEF Calls, RestCalls, RestStep, StopStep
<1>3. /\ c \in Call
      /\ c.at = "answer" /\ c.name # NoName /\ ~c.early /\ c.peer = NoPeer
      /\ c.due = {} /\ c.left = {}
  <2>1. "answer" \in Step
    BY DEF Step, RestStep
  <2>2. QED
    BY <1>1, <1>2, <2>1 DEF Call
<1>4. SetCall(t, c) /\ UNCHANGED peerVars
  BY DEF Assign
<1>5. RestTyped'
  <2>1. call[t].name \in MaybeName
    BY <1>1 DEF Call
  <2>2. PICK i : services' = [services EXCEPT ![i].name = call[t].name]
    BY DEF Assign
  <2> HIDE DEF c
  <2>3. services' \in Seq(Slot)
    BY <1>1, <2>1, <2>2, HereFacts, NameWritten
  <2>4. QED
    BY <1>1, <2>3, HereFacts, TouchFacts DEF Assign, RestTyped
<1> HIDE DEF c
<1>6. QED
  BY <1>1, <1>3, <1>4, <1>5, RestQuiet DEF RestStep, StopStep

LEMMA AnswerCalls ==
    ASSUME Calls, Registrations, NEW t \in Rest, Answer(t)
    PROVE  Calls'
<1>1. /\ TypeOK /\ t \in Actor /\ call[t].at = "answer" /\ call[t] \in Call
  BY ActorFacts, HereFacts DEF Calls, Answer
<1>2. call[t].serial \in Serial
  <2>1. count \in 0 .. MaxServices /\ MaxServices \in Nat
    BY <1>1, HereFacts, ActorFacts
  <2>2. call[t].serial \in 1 .. count
    BY <1>1 DEF Registrations, Numbers, MakingNumbers, Making
  <2>3. QED
    BY <2>1, <2>2 DEF Serial
<1>3. SetCall(t, Idle) /\ UNCHANGED peerVars
  BY DEF Answer
<1>4. tickets' \subseteq Ticket
  <2>1. CASE services = <<>>
    BY <1>1, <2>1, HereFacts DEF Answer
  <2>2. CASE services # <<>>
    <3>1. Len(services) \in DOMAIN services
      BY <1>1, <2>2, HereFacts, SlotFacts, EmptySeq
    <3>2. Last(services).name \in MaybeName
      BY <1>1, <3>1, HereFacts, SlotFacts DEF Last
    <3>3. [name |-> Last(services).name, serial |-> call[t].serial,
           held |-> TRUE] \in Ticket
      BY <1>2, <3>2 DEF Ticket
    <3>4. QED
      BY <1>1, <2>2, <3>3, HereFacts DEF Answer
  <2>3. QED
    BY <2>1, <2>2
<1>5. RestTyped'
  BY <1>1, <1>4, HereFacts, TouchFacts DEF Answer, RestTyped
<1>6. QED
  BY <1>1, <1>3, <1>5, IdleFacts, RestQuiet DEF RestStep, StopStep

LEMMA UpdatePartnerCalls ==
    ASSUME Calls, NEW t \in Rest, NEW k \in tickets, UpdatePartner(t, k)
    PROVE  Calls'
<1>1. /\ TypeOK /\ t \in Actor /\ call[t].at = "idle"
      /\ k \in Ticket
  BY ActorFacts, HereFacts DEF Calls, UpdatePartner
<1>2. PICK i \in DOMAIN services :
         SetCall(t, [Idle EXCEPT !.at = "write", !.name = k.name,
                                 !.serial = k.serial, !.index = i])
  BY DEF UpdatePartner
<1> DEFINE c == [Idle EXCEPT !.at = "write", !.name = k.name,
                             !.serial = k.serial, !.index = i]
<1>3. /\ k.name \in MaybeName /\ k.serial \in Nat
      /\ i \in Nat /\ "write" \in Step
  BY <1>1, HereFacts, SlotFacts DEF Ticket, Serial, Step, RestStep
<1>4. /\ c \in Call /\ c.at = "write" /\ ~c.early /\ c.peer = NoPeer
      /\ c.due = {} /\ c.left = {}
  BY <1>3, IdleFacts DEF Call
<1>5. SetCall(t, c) /\ UNCHANGED peerVars
  BY <1>2 DEF UpdatePartner
<1>6. RestTyped'
  BY <1>1, HereFacts, TouchFacts DEF UpdatePartner, RestTyped
<1> HIDE DEF c
<1>7. QED
  BY <1>1, <1>4, <1>5, <1>6, RestQuiet DEF RestStep, StopStep

(* What a REST thread but in new_service writes, it writes for a ticket.    *)
LEMMA TicketSerial ==
    ASSUME TypeOK, Registrations
    PROVE  /\ \A t \in Rest : ~Making(t) /\ call[t].at # "idle" =>
                 call[t].serial \in Serial
           /\ \A p \in Peer : bears[p] # NoName => session[p] \in Serial
  BY HereFacts DEF Registrations, Sessions, Knows, Ticket

LEMMA WritePartnerCalls ==
    ASSUME Calls, Registrations, NEW t \in Rest, WritePartner(t)
    PROVE  Calls'
<1>1. /\ TypeOK /\ t \in Actor /\ call[t].at = "write" /\ call[t].serial \in Serial
  BY ActorFacts, TicketSerial DEF Calls, WritePartner, Making
<1>2. SetCall(t, Idle) /\ UNCHANGED peerVars
  BY DEF WritePartner
<1>3. services' \in Seq(Slot)
  BY <1>1, HereFacts, Writing DEF WritePartner, Written
<1>4. RestTyped'
  BY <1>1, <1>3, HereFacts, TouchFacts DEF WritePartner, RestTyped
<1>5. QED
  BY <1>1, <1>2, <1>4, IdleFacts, RestQuiet DEF RestStep, StopStep

LEMMA LeaveCalls ==
    ASSUME Calls, NEW t \in Rest, NEW k \in tickets, Leave(t, k)
    PROVE  Calls'
<1> DEFINE c == [Idle EXCEPT !.at = "exit", !.name = k.name, !.serial = k.serial,
                             !.left = peers,
                             !.due = {p \in peers : started[p] /\ bears[p] = k.name}]
<1>1. /\ TypeOK /\ t \in Actor /\ call[t].at = "idle" /\ k \in Ticket
      /\ peers \in SUBSET Peer
  BY ActorFacts, HereFacts DEF Calls, Leave, TypeOK
<1>2. /\ k.name \in MaybeName /\ k.serial \in Nat /\ "exit" \in Step
      /\ [k EXCEPT !.held = FALSE] \in Ticket
  <2>1. k.name \in MaybeName /\ k.serial \in Serial
    BY <1>1 DEF Ticket
  <2>2. [k EXCEPT !.held = FALSE] \in Ticket
    BY <1>1 DEF Ticket
  <2>3. "exit" \in Step
    BY DEF Step, RestStep
  <2>4. QED
    BY <2>1, <2>2, <2>3 DEF Serial
<1>3. /\ c \in Call /\ c.at = "exit" /\ ~c.early /\ c.peer = NoPeer
      /\ c.name = k.name /\ c.left = peers
      /\ c.due = {p \in peers : started[p] /\ bears[p] = k.name}
  BY <1>1, <1>2, IdleFacts DEF Call
<1>4. SetCall(t, c) /\ UNCHANGED peerVars
  BY DEF Leave
<1>5. RestTyped'
  BY <1>1, <1>2, HereFacts DEF Leave, RestTyped
<1> HIDE DEF c
<1>6. \A p \in c.due : bears[p] = c.name /\ p \in c.left
  BY <1>3
<1>7. /\ \A p \in c.left : call[p].at # "new"
      /\ \A p \in c.due : call[p].at \notin {"new", "listed"}
  BY <1>1, <1>3 DEF Calls, PeerCalls
<1>8. QED
  BY <1>1, <1>3, <1>4, <1>5, <1>6, <1>7, RestQuiet DEF RestStep, StopStep

LEMMA NextPeerCalls ==
    ASSUME Calls, NEW t \in Rest, NextPeer(t)
    PROVE  Calls'
<1>1. /\ TypeOK /\ t \in Actor /\ call[t].at = "exit" /\ call[t] \in Call
      /\ ~call[t].early /\ call[t].peer = NoPeer /\ RestTyped
  BY ActorFacts, HereFacts DEF Calls, NextPeer, RestCalls, StopStep
<1>2. PICK p \in call[t].left :
         SetCall(t, [call[t] EXCEPT
                         !.left = @ \ {p},
                         !.at   = IF bears[p] = call[t].name THEN "stop" ELSE @,
                         !.peer = IF bears[p] = call[t].name THEN p ELSE @])
  BY DEF NextPeer
<1> DEFINE c == [call[t] EXCEPT
                    !.left = @ \ {p},
                    !.at   = IF bears[p] = call[t].name THEN "stop" ELSE @,
                    !.peer = IF bears[p] = call[t].name THEN p ELSE @]
<1>3. p \in Peer /\ p # NoPeer
  BY <1>1, <1>2, ActorFacts DEF Call
<1>4. /\ c.left = call[t].left \ {p} /\ c.due = call[t].due
      /\ c.name = call[t].name /\ ~c.early
      /\ \/ bears[p] = call[t].name /\ c.at = "stop" /\ c.peer = p
         \/ bears[p] # call[t].name /\ c.at = "exit" /\ c.peer = NoPeer
  BY <1>1 DEF Call
<1>5. c \in Call
  <2>1. "stop" \in Step /\ call[t].left \ {p} \in SUBSET Peer
    BY <1>1 DEF Step, StopStep, Call
  <2>2. QED
    BY <1>1, <1>3, <2>1 DEF Call
<1>6. SetCall(t, c) /\ UNCHANGED peerVars
  BY <1>2 DEF NextPeer
<1>7. RestTyped'
  BY <1>1 DEF NextPeer, RestTyped
<1> HIDE DEF c
<1>8. ASSUME NEW q \in c.due, started[q], c.name # NoName
      PROVE  bears[q] = c.name /\ (q \in c.left \/ (c.at = "stop" /\ c.peer = q))
  <2>1. bears[q] = call[t].name /\ q \in call[t].left
    BY <1>1, <1>4, <1>8 DEF Calls, DueAhead
  <2>2. QED
    BY <1>4, <2>1
<1>9. /\ (\A q \in c.left : call[q].at # "new") /\ call[p].at # "new"
      /\ \A q \in c.due : call[q].at \notin {"new", "listed"}
  BY <1>1, <1>2, <1>4 DEF Calls, Reached
<1>10. QED
  BY <1>1, <1>3, <1>4, <1>5, <1>6, <1>7, <1>8, <1>9, RestQuiet
     DEF RestStep, StopStep

LEMMA LeftCalls ==
    ASSUME Calls, NEW t \in Rest, Left(t)
    PROVE  Calls'
<1>1. /\ TypeOK /\ t \in Actor /\ call[t].at = "exit" /\ RestTyped
  BY ActorFacts, HereFacts DEF Calls, Left
<1>2. SetCall(t, Idle) /\ UNCHANGED peerVars /\ RestTyped'
  BY <1>1 DEF Left, RestTyped
<1>3. QED
  BY <1>1, <1>2, IdleFacts, RestQuiet DEF RestStep, StopStep

LEMMA ResumedFacts ==
    ASSUME NEW p \in Peer
    PROVE  LET c == Resumed(p)
           IN  /\ c \in Call
               /\ c.at = IF started[p] THEN "reading" ELSE "gone"
               /\ c.peer = p /\ ~c.early /\ c.name = NoName
<1>1. "reading" \in Step /\ "gone" \in Step /\ p \in Peer \union {NoPeer}
  BY DEF Step, PeerStep
<1>2. QED
  BY <1>1, IdleFacts DEF Call, Resumed

LEMMA PeerFacts ==
    ASSUME Calls, NEW p \in Peer
    PROVE  /\ TypeOK /\ p \in Actor /\ call[p] \in Call /\ call[p].peer = p
           /\ call[p].at \notin {"remove", "erase"} => ~call[p].early
           /\ RestTyped
  BY ActorFacts, HereFacts DEF Calls, PeerCalls

LEMMA ResumingCalls ==
    ASSUME Calls, NEW p \in Peer, SetCall(p, Resumed(p)), UNCHANGED peerVars,
           RestTyped', call[p].at \notin {"new", "listed", "unlist"}
    PROVE  Calls'
<1>1. /\ Resumed(p).at \notin {"new", "listed", "unlist", "append", "remove", "erase"}
      /\ Resumed(p).at \in PeerStep
      /\ Resumed(p).at = "gone" => ~started[p]
  BY ResumedFacts DEF PeerStep
<1>2. QED
  BY <1>1, ResumedFacts, PeerQuiet

(* The peer goes on to the step x with what it has. *)
LEMMA GoingOnCalls ==
    ASSUME Calls, NEW p \in Peer, NEW x \in {"handling", "stop"},
           SetCall(p, [call[p] EXCEPT !.at = x]), UNCHANGED peerVars, RestTyped',
           call[p].at = "reading"
    PROVE  Calls'
<1> DEFINE c == [call[p] EXCEPT !.at = x]
<1>1. /\ call[p] \in Call /\ call[p].peer = p /\ ~call[p].early
      /\ x \in Step /\ x \in PeerStep \union StopStep
  BY PeerFacts DEF Step, PeerStep, StopStep
<1>2. c \in Call /\ c.at = x /\ c.peer = p /\ ~c.early
  BY <1>1 DEF Call
<1> HIDE DEF c
<1>3. SetCall(p, c)
  BY DEF c
<1>4. QED
  BY <1>1, <1>2, <1>3, PeerQuiet

LEMMA OnConnectCalls ==
    ASSUME Calls, NEW p \in Peer, OnConnectOk(p) \/ OnConnectErr(p)
    PROVE  Calls'
<1>1. /\ call[p].at = "connecting" /\ UNCHANGED peerVars /\ RestTyped'
  BY PeerFacts DEF OnConnectOk, OnConnectErr, RestTyped
<1>2. CASE OnConnectOk(p)
  BY <1>1, <1>2, ResumingCalls DEF OnConnectOk
<1>3. CASE OnConnectErr(p)
  <2> DEFINE c == [call[p] EXCEPT !.at = "remove", !.early = TRUE]
  <2>1. /\ call[p] \in Call /\ call[p].peer = p
        /\ "remove" \in Step /\ "remove" \in StopStep
    BY PeerFacts DEF Step, StopStep
  <2>2. c \in Call /\ c.at = "remove" /\ c.peer = p /\ c.early
    BY <2>1 DEF Call
  <2>3. SetCall(p, c)
    BY <1>3 DEF OnConnectErr
  <2> HIDE DEF c
  <2>4. QED
    BY <1>1, <2>1, <2>2, <2>3, PeerQuiet
<1>4. QED
  BY <1>2, <1>3

LEMMA OnReadCalls ==
    ASSUME Calls, NEW p \in Peer, OnRead(p) \/ OnReadError(p)
    PROVE  Calls'
<1>1. /\ call[p].at = "reading" /\ UNCHANGED peerVars /\ RestTyped'
  BY PeerFacts DEF OnRead, OnReadError, RestTyped
<1>2. QED
  BY <1>1, GoingOnCalls DEF OnRead, OnReadError

LEMMA OnMessageCalls ==
    ASSUME Calls, NEW p \in Peer, OnMessage(p)
    PROVE  Calls'
<1>1. /\ call[p].at = "handling" /\ UNCHANGED peerVars /\ RestTyped'
      /\ SetCall(p, Resumed(p))
  BY PeerFacts DEF OnMessage, RestTyped
<1>2. QED
  BY <1>1, ResumingCalls

LEMMA OnKeyCalls ==
    ASSUME Calls, NEW p \in Peer, OnKey(p)
    PROVE  Calls'
<1>1. /\ call[p].at = "handling" /\ bears[p] # NoName /\ UNCHANGED peerVars
  BY DEF OnKey
<1>2. RestTyped'
  BY PeerFacts, HereFacts, TouchFacts DEF OnKey, RestTyped
<1>3. CASE SetCall(p, Resumed(p))
  BY <1>1, <1>2, <1>3, ResumingCalls
<1>4. ASSUME NEW i \in DOMAIN services,
             SetCall(p, [call[p] EXCEPT !.at = "append", !.serial = session[p],
                                        !.index = i])
      PROVE  Calls'
  <2> DEFINE c == [call[p] EXCEPT !.at = "append", !.serial = session[p], !.index = i]
  <2>1. /\ call[p] \in Call /\ call[p].peer = p /\ ~call[p].early
        /\ "append" \in Step /\ "append" \in PeerStep
        /\ i \in Nat /\ session[p] \in Nat
    BY <1>1, PeerFacts, HereFacts, SlotFacts DEF Step, PeerStep
  <2>2. /\ c \in Call /\ c.at = "append" /\ c.peer = p /\ ~c.early
        /\ c.serial = session[p]
    BY <2>1 DEF Call
  <2>3. SetCall(p, c)
    BY <1>4
  <2> HIDE DEF c
  <2>4. QED
    BY <1>1, <1>2, <2>1, <2>2, <2>3, PeerQuiet
<1>5. QED
  BY <1>3, <1>4 DEF OnKey

LEMMA AddKeyCalls ==
    ASSUME Calls, Registrations, NEW p \in Peer, AddKey(p)
    PROVE  Calls'
<1>1. call[p].at = "append" /\ UNCHANGED peerVars /\ SetCall(p, Resumed(p))
  BY DEF AddKey
<1>2. call[p].serial \in Serial
  <2>1. bears[p] # NoName /\ call[p].serial = session[p]
    BY <1>1 DEF Calls, PeerCalls
  <2>2. QED
    BY <2>1, PeerFacts, TicketSerial
<1>3. services' \in Seq(Slot)
  <2>1. services' = [services EXCEPT ![call[p].index].data = @ \union {call[p].serial}]
    BY DEF AddKey, Written
  <2>2. services \in Seq(Slot)
    BY PeerFacts, HereFacts
  <2>3. QED
    BY <1>2, <2>1, <2>2, Writing
<1>4. RestTyped'
  BY <1>3, PeerFacts, HereFacts, TouchFacts DEF AddKey, RestTyped
<1>5. QED
  BY <1>1, <1>4, ResumingCalls

-----------------------------------------------------------------------------
(* Where peer::stop and remove_service leave their caller.                  *)

LEMMA StoppedFacts ==
    ASSUME Calls, NEW a \in Actor
    PROVE  LET c == Stopped(a)
           IN  /\ c \in Call /\ ~c.early
               /\ a \in Rest => /\ c.at = "exit" /\ c.peer = NoPeer
                                /\ c.name = call[a].name /\ c.serial = call[a].serial
                                /\ c.left = call[a].left /\ c.due = call[a].due
               /\ a \in Peer => /\ c.at = "gone" /\ c.peer = a /\ c.name = NoName
<1>1. "exit" \in Step /\ "gone" \in Step
  BY DEF Step, RestStep, PeerStep
<1>2. CASE a \in Rest
  <2>1. call[a] \in Call /\ ~call[a].early /\ a \notin Peer
    BY <1>2, HereFacts, ActorFacts DEF Calls, RestCalls
  <2>2. QED
    BY <1>1, <1>2, <2>1 DEF Stopped, Call
<1>3. CASE a \in Peer
  BY <1>1, <1>3, ActorFacts, IdleFacts DEF Stopped, Call
<1>4. QED
  BY <1>2, <1>3, ActorFacts

LEMMA StoppedCalls ==
    ASSUME Calls, NEW a \in Actor, NEW c \in Call, SetCall(a, c),
           UNCHANGED peerVars, RestTyped',
           call[a].at \in {"stop", "remove", "erase"},
           ~started[call[a].peer], ~c.early,
           a \in Rest => /\ c.at = "exit" /\ c.peer = NoPeer
                        /\ c.name = call[a].name
                        /\ c.left = call[a].left /\ c.due = call[a].due,
           a \in Peer => c.at = "gone" /\ c.peer = a
    PROVE  Calls'
<1>1. CASE a \in Rest
  <2>1. ASSUME NEW p \in c.due, started[p], c.name # NoName
        PROVE  bears[p] = c.name /\ p \in c.left
    BY <1>1, <2>1 DEF Calls, DueAhead
  <2>2. /\ \A p \in c.left : call[p].at # "new"
        /\ \A p \in c.due : call[p].at \notin {"new", "listed"}
    BY <1>1 DEF Calls, Reached
  <2>3. QED
    BY <1>1, <2>1, <2>2, RestQuiet DEF RestStep, StopStep
<1>2. CASE a \in Peer
  <2>1. ~started[a]
    BY <1>2, PeerFacts
  <2>2. QED
    BY <1>2, <2>1, PeerQuiet DEF PeerStep
<1>3. QED
  BY <1>1, <1>2, ActorFacts

LEMMA ReturnedCalls ==
    ASSUME Calls, NEW a \in Actor, SetCall(a, Returned(a)),
           UNCHANGED peerVars, RestTyped', call[a].at \in {"remove", "erase"}
    PROVE  Calls'
<1>1. CASE call[a].early
  <2> DEFINE c == [Idle EXCEPT !.at = "stop", !.peer = a]
  <2>1. a \in Peer /\ a \in Peer \union {NoPeer} /\ "stop" \in Step /\ "stop" \in StopStep
    BY <1>1, ActorFacts DEF Calls, RestCalls, Step, StopStep
  <2>2. c \in Call /\ c.at = "stop" /\ c.peer = a /\ ~c.early
    BY <2>1, IdleFacts DEF Call
  <2>3. SetCall(a, c)
    BY <1>1 DEF Returned
  <2> HIDE DEF c
  <2>4. QED
    BY <2>1, <2>2, <2>3, PeerQuiet
<1>2. CASE ~call[a].early
  <2> DEFINE c == [Stopped(a) EXCEPT !.index = 0]
  <2>1. /\ c \in Call /\ c.at = Stopped(a).at /\ c.peer = Stopped(a).peer
        /\ c.early = Stopped(a).early /\ c.name = Stopped(a).name
        /\ c.left = Stopped(a).left /\ c.due = Stopped(a).due
    BY StoppedFacts DEF Call
  <2>2. SetCall(a, c)
    BY <1>2 DEF Returned
  <2>3. ~started[call[a].peer]
    BY <1>2 DEF Calls, Stops, Stopping
  <2> HIDE DEF c
  <2>4. QED
    BY <2>1, <2>2, <2>3, StoppedFacts, StoppedCalls
<1>3. QED
  BY <1>1, <1>2

LEMMA EraseCalls ==
    ASSUME Calls, NEW a \in Actor, Erase(a)
    PROVE  Calls'
<1>1. /\ call[a].at = "erase" /\ UNCHANGED peerVars /\ SetCall(a, Returned(a))
      /\ TypeOK
  BY DEF Erase, Calls
<1>2. services' \in Seq(Slot)
  BY <1>1, HereFacts, Erasing DEF Erase
<1>3. RestTyped'
  BY <1>1, <1>2, HereFacts, TouchFacts DEF Erase, RestTyped
<1>4. QED
  BY <1>1, <1>3, ReturnedCalls

LEMMA RemoveServiceCalls ==
    ASSUME Calls, NEW a \in Actor, RemoveService(a)
    PROVE  Calls'
<1>1. /\ call[a].at = "remove" /\ UNCHANGED peerVars /\ TypeOK
  BY DEF RemoveService, Calls
<1>2. RestTyped'
  BY <1>1, HereFacts, TouchFacts DEF RemoveService, RestTyped
<1>3. CASE SetCall(a, Returned(a))
  BY <1>1, <1>2, <1>3, ReturnedCalls
<1>4. ASSUME NEW i \in DOMAIN services,
             SetCall(a, [call[a] EXCEPT !.at = "erase", !.index = i])
      PROVE  Calls'
  <2> DEFINE c == [call[a] EXCEPT !.at = "erase", !.index = i]
  <2>1. call[a] \in Call /\ "erase" \in Step /\ "erase" \in StopStep /\ i \in Nat
    BY <1>1, HereFacts, SlotFacts DEF Step, StopStep
  <2>2. /\ c \in Call /\ c.at = "erase" /\ c.peer = call[a].peer
        /\ c.early = call[a].early /\ c.name = call[a].name
        /\ c.left = call[a].left /\ c.due = call[a].due
    BY <2>1 DEF Call
  <2>3. SetCall(a, c)
    BY <1>4
  <2>4. ~call[a].early => ~started[call[a].peer] /\ call[a].peer \notin peers
    BY <1>1 DEF Calls, Stops, Stopping
  <2> HIDE DEF c
  <2>5. CASE a \in Rest
    <3>1. ~call[a].early /\ call[a].peer # NoPeer
      BY <1>1, <2>5 DEF Calls, RestCalls, StopStep
    <3>2. ASSUME NEW p \in c.due, started[p], c.name # NoName
          PROVE  bears[p] = c.name /\ p \in c.left
      BY <1>1, <2>2, <2>5, <3>2 DEF Calls, DueAhead
    <3>3. /\ (\A p \in c.left : call[p].at # "new") /\ call[c.peer].at # "new"
          /\ \A p \in c.due : call[p].at \notin {"new", "listed"}
          /\ call[c.peer].at \notin {"new", "listed"}
      BY <1>1, <2>2, <2>5 DEF Calls, Reached, StopStep, Stops, Stopping
    <3>4. QED
      BY <1>1, <1>2, <2>1, <2>2, <2>3, <2>4, <2>5, <3>1, <3>2, <3>3, RestQuiet
         DEF RestStep
  <2>6. CASE a \in Peer
    BY <1>1, <1>2, <2>1, <2>2, <2>3, <2>4, <2>6, PeerFacts, PeerQuiet
  <2>7. QED
    BY <2>5, <2>6, ActorFacts
<1>5. QED
  BY <1>3, <1>4 DEF RemoveService

-----------------------------------------------------------------------------
(* Steps that change a peer.                                                *)

LEMMA TargetFacts ==
    ASSUME Calls
    PROVE  /\ \A t \in Rest : /\ call[t].left \in SUBSET Peer
                              /\ call[t].due \in SUBSET Peer
                              /\ call[t].at \in StopStep => call[t].peer \in Peer
           /\ \A a \in Actor : call[a].at \in StopStep => call[a].peer \in Peer
<1>1. ASSUME NEW t \in Rest
      PROVE  /\ call[t].left \in SUBSET Peer /\ call[t].due \in SUBSET Peer
             /\ call[t].at \in StopStep => call[t].peer \in Peer
  <2>1. call[t] \in Call
    BY ActorFacts, HereFacts DEF Calls
  <2>2. call[t].at \in StopStep => call[t].peer # NoPeer
    BY DEF Calls, RestCalls
  <2>3. QED
    BY <2>1, <2>2 DEF Call
<1>2. \A p \in Peer : call[p].peer = p
  BY DEF Calls, PeerCalls
<1>3. QED
  BY <1>1, <1>2, ActorFacts

LEMMA BeginSyncCalls ==
    ASSUME Calls, NEW t \in Rest, NEW k \in tickets, NEW p \in Dialers,
           BeginSync(t, k, p)
    PROVE  Calls'
<1> DEFINE c == [Idle EXCEPT !.at = "begin", !.name = k.name,
                             !.serial = k.serial, !.peer = p]
           d == [call[p] EXCEPT !.at = "listed"]
<1>1. /\ TypeOK /\ t \in Actor /\ p \in Peer /\ p \in Actor /\ p # t /\ p # NoPeer
      /\ call[t].at = "idle" /\ call[p].at = "new" /\ call[p] \in Call
      /\ k \in Ticket /\ call \in [Actor -> Call]
  BY ActorFacts, HereFacts DEF Calls, BeginSync
<1>2. /\ k.name \in MaybeName /\ k.serial \in 0 .. MaxServices /\ k.serial \in Nat
      /\ "begin" \in Step /\ "listed" \in Step
  BY <1>1, ActorFacts DEF Ticket, Serial, Step, RestStep, PeerStep
<1>3. /\ c \in Call /\ c.at = "begin" /\ c.peer = p /\ ~c.early /\ c.serial = k.serial
      /\ c.left = {} /\ c.due = {}
  BY <1>1, <1>2, IdleFacts DEF Call
<1>4. /\ d \in Call /\ d.at = "listed" /\ d.peer = p /\ ~d.early
  BY <1>1, <1>2, PeerFacts DEF Call
<1>5. call' = [call EXCEPT ![t] = c, ![p] = d]
  BY <1>1 DEF BeginSync
<1> HIDE DEF c, d
<1>6. /\ call' \in [Actor -> Call] /\ call'[t] = c /\ call'[p] = d
      /\ \A a \in Actor : a # t /\ a # p => call'[a] = call[a]
  BY <1>1, <1>3, <1>4, <1>5
<1>7. /\ peers' = peers \union {p} /\ UNCHANGED <<started, bears>>
      /\ session' \in [Peer -> 0 .. MaxServices] /\ session'[p] = k.serial
      /\ \A q \in Peer : q # p => session'[q] = session[q]
  BY <1>1, <1>2 DEF BeginSync, TypeOK
<1>8. /\ ~started[p] /\ bears[p] = NoName /\ session[p] = 0 /\ p \notin peers
      /\ p \notin Listeners
  BY <1>1, ActorFacts DEF Calls, PeerCalls
<1>9. /\ \A q \in Peer : q # p => call'[q] = call[q]
      /\ \A u \in Rest : u # t => call'[u] = call[u]
  BY <1>1, <1>6, ActorFacts
<1>10. TypeOK'
  <2>1. UNCHANGED <<services, tickets, count, overlap, reused, met>>
    BY DEF BeginSync
  <2>2. p \in Peer
    BY <1>1
  <2>3. QED
    BY <1>1, <1>6, <1>7, <2>1, <2>2 DEF TypeOK
<1>11. RestCalls'
  BY <1>1, <1>3, <1>6, <1>9 DEF Calls, RestCalls, RestStep, StopStep
<1>12. Beginning'
  <2>1. \A u \in Rest : u # t /\ call[u].at = "begin" =>
           call[u].peer # p /\ call[u].peer \in Dialers /\ call[u].peer \in Peer
    BY <1>1, ActorFacts DEF Calls, Beginning
  <2>2. QED
    BY <1>3, <1>4, <1>6, <1>7, <1>9, <2>1 DEF Calls, Beginning
<1>13. PeerCalls'
  <2>1. \A u \in Rest : call[u].at = "begin" => call'[u] = call[u]
    BY <1>1, <1>9
  <2>2. ASSUME NEW q \in Peer, q # p
        PROVE  q \in peers' <=> q \in peers
    BY <1>7, <2>2
  <2>3. p \in peers'
    BY <1>7
  <2>4. QED
    BY <1>3, <1>4, <1>6, <1>7, <1>8, <1>9, <2>1, <2>2, <2>3 DEF Calls, PeerCalls, PeerStep
<1>14. Reached'
  <2>1. ASSUME NEW q \in Peer
        PROVE  /\ call[q].at # "new" => call'[q].at # "new"
               /\ call[q].at \notin {"new", "listed"} =>
                     call'[q].at \notin {"new", "listed"}
    BY <1>1, <1>4, <1>6, <1>9
  <2>2. ASSUME NEW u \in Rest, u # t
        PROVE  /\ \A q \in call'[u].left : call'[q].at # "new"
               /\ \A q \in call'[u].due : call'[q].at \notin {"new", "listed"}
               /\ call'[u].at \in StopStep => call'[call'[u].peer].at # "new"
    BY <1>9, <2>1, <2>2, TargetFacts DEF Calls, Reached
  <2>3. QED
    BY <1>3, <1>6, <2>2 DEF Reached, StopStep
<1>15. ASSUME NEW a \in Actor, Stopping(a)'
       PROVE  call'[a] = call[a] /\ Stopping(a) /\ call[a].peer \in Peer /\ call[a].peer # p
  <2>1. call'[a] = call[a]
    BY <1>3, <1>4, <1>6, <1>15 DEF Stopping
  <2>2. QED
    BY <1>1, <1>15, <2>1, TargetFacts DEF Calls, Stops, Stopping, StopStep
<1>16. Stops'
  <2>1. ASSUME NEW a \in Actor, Stopping(a)'
        PROVE  /\ call'[a].at = "unlist" => ~call'[a].early
               /\ call'[call'[a].peer].at \notin {"new", "listed"}
               /\ ~call'[a].early => ~started'[call'[a].peer]
               /\ call'[a].at \in {"remove", "erase"} /\ ~call'[a].early =>
                     call'[a].peer \notin peers'
    BY <1>7, <1>9, <1>15, <2>1 DEF Calls, Stops
  <2>2. QED
    BY <2>1 DEF Stops, Stopping
<1>17. ErasesItself'
  BY <1>3, <1>4, <1>6, <1>7 DEF Calls, ErasesItself
<1>18. Unlisted'
  <2>1. \A a \in Actor : call[a].at = "unlist" => call'[a] = call[a]
    BY <1>1, <1>6
  <2>2. QED
    BY <1>4, <1>6, <1>7, <1>9, <2>1 DEF Calls, Unlisted
<1>19. DueAhead'
  BY <1>3, <1>6, <1>7, <1>9 DEF Calls, DueAhead
<1>20. QED
  BY <1>10, <1>11, <1>12, <1>13, <1>14, <1>16, <1>17, <1>18, <1>19 DEF Calls

LEMMA StartCalls ==
    ASSUME Calls, NEW t \in Rest, Start(t)
    PROVE  Calls'
<1> DEFINE p == call[t].peer
<1>1. /\ TypeOK /\ t \in Actor /\ call[t].at = "begin" /\ call \in [Actor -> Call]
      /\ p \in Dialers /\ p \in Peer /\ p \in Actor /\ p # t
      /\ call[p].at = "listed" /\ call[p] \in Call /\ call[t].name \in MaybeName
  <2>1. TypeOK /\ t \in Actor /\ call[t].at = "begin" /\ p \in Dialers
        /\ call[p].at = "listed"
    BY ActorFacts DEF Calls, Start, Beginning
  <2>2. p \in Peer /\ p \in Actor /\ p # t
    BY <2>1, ActorFacts
  <2>3. call \in [Actor -> Call] /\ call[t] \in Call /\ call[p] \in Call
    BY <2>1, <2>2, HereFacts
  <2>4. QED
    BY <2>1, <2>2, <2>3 DEF Call
<1>2. PICK next \in {"connecting", "failed"} :
         call' = [call EXCEPT ![t] = Idle, ![p].at = next]
  BY DEF Start
<1> DEFINE d == [call[p] EXCEPT !.at = next]
<1>3. /\ d \in Call /\ d.at = next /\ d.peer = p /\ ~d.early
  <2>1. next \in Step /\ call[p].peer = p /\ ~call[p].early
    BY <1>1, PeerFacts DEF Step, PeerStep
  <2>2. QED
    BY <1>1, <2>1 DEF Call
<1>4. call' = [call EXCEPT ![t] = Idle, ![p] = d]
  BY <1>1, <1>2
<1>5. /\ UNCHANGED <<services, peers, session, tickets, count, overlap, reused, met>>
      /\ started' = [started EXCEPT ![p] = TRUE]
      /\ bears' = [bears EXCEPT ![p] = call[t].name]
  BY DEF Start
<1>6. ~started[p] /\ bears[p] = NoName /\ p \in peers
  BY <1>1 DEF Calls, PeerCalls
<1> HIDE DEF d, p
<1>7. /\ call' \in [Actor -> Call] /\ call'[t] = Idle /\ call'[p] = d
      /\ \A a \in Actor : a # t /\ a # p => call'[a] = call[a]
      /\ \A q \in Peer : q # p => call'[q] = call[q]
      /\ \A u \in Rest : u # t => call'[u] = call[u]
  <2>1. call' \in [Actor -> Call] /\ call'[t] = Idle /\ call'[p] = d
    BY <1>1, <1>3, <1>4, IdleFacts
  <2>2. \A a \in Actor : a # t /\ a # p => call'[a] = call[a]
    BY <1>1, <1>4
  <2>3. QED
    BY <1>1, <2>1, <2>2, ActorFacts
<1>8. /\ started' \in [Peer -> BOOLEAN] /\ bears' \in [Peer -> MaybeName] /\ started'[p]
      /\ \A q \in Peer : q # p => started'[q] = started[q] /\ bears'[q] = bears[q]
  BY <1>1, <1>5 DEF TypeOK
<1>9. TypeOK'
  BY <1>1, <1>5, <1>7, <1>8 DEF TypeOK
<1>10. RestCalls'
  BY <1>7, IdleFacts DEF Calls, RestCalls, RestStep, StopStep
<1>11. Beginning'
  <2>1. \A u \in Rest : u # t /\ call[u].at = "begin" =>
           /\ call[u].peer # p /\ call[u].peer \in Dialers /\ call[u].peer \in Peer
    BY <1>1, ActorFacts DEF Calls, Beginning, p
  <2>2. QED
    BY <1>5, <1>7, <2>1, IdleFacts DEF Calls, Beginning
<1>12. PeerCalls'
  <2>1. ASSUME NEW q \in Peer, q # p, call[q].at = "listed", q \in Dialers
        PROVE  \E u \in Rest : call'[u].at = "begin" /\ call'[u].peer = q
    <3>1. PICK u \in Rest : call[u].at = "begin" /\ call[u].peer = q
      BY <2>1 DEF Calls, PeerCalls
    <3>2. u # t
      BY <2>1, <3>1 DEF p
    <3>3. QED
      BY <1>7, <3>1, <3>2
  <2>2. d.at \in PeerStep /\ d.at \notin {"new", "listed", "append", "gone"}
    BY <1>3 DEF PeerStep
  <2>3. QED
    BY <1>3, <1>5, <1>7, <1>8, <2>1, <2>2 DEF Calls, PeerCalls
<1>13. ASSUME NEW q \in Peer
       PROVE  /\ call[q].at # "new" => call'[q].at # "new"
              /\ call[q].at \notin {"new", "listed"} =>
                    q # p /\ call'[q].at \notin {"new", "listed"}
  BY <1>1, <1>3, <1>7
<1>14. Reached'
  <2>1. ASSUME NEW u \in Rest, u # t
        PROVE  /\ \A q \in call'[u].left : call'[q].at # "new"
               /\ \A q \in call'[u].due : call'[q].at \notin {"new", "listed"}
               /\ call'[u].at \in StopStep => call'[call'[u].peer].at # "new"
    BY <1>7, <1>13, <2>1, TargetFacts DEF Calls, Reached
  <2>2. QED
    BY <1>7, <2>1, IdleFacts DEF Reached, StopStep
<1>15. Stops'
  <2>1. ASSUME NEW a \in Actor, Stopping(a)'
        PROVE  /\ call'[a] = call[a] /\ call[a].peer \in Peer
               /\ call[call[a].peer].at \notin {"new", "listed"}
    <3>1. call'[a] = call[a]
      BY <1>3, <1>7, <2>1, IdleFacts DEF Stopping
    <3>2. QED
      BY <2>1, <3>1, TargetFacts DEF Calls, Stops, Stopping, StopStep
  <2>2. ASSUME NEW a \in Actor, Stopping(a)'
        PROVE  /\ call'[a].at = "unlist" => ~call'[a].early
               /\ call'[call'[a].peer].at \notin {"new", "listed"}
               /\ ~call'[a].early => ~started'[call'[a].peer]
               /\ call'[a].at \in {"remove", "erase"} /\ ~call'[a].early =>
                     call'[a].peer \notin peers'
    <3>1. call[a].peer # p /\ Stopping(a)
      BY <1>1, <2>1, <2>2 DEF Stopping
    <3>2. QED
      BY <1>5, <1>8, <1>13, <2>1, <2>2, <3>1 DEF Calls, Stops
  <2>3. QED
    BY <2>2 DEF Stops, Stopping
<1>16. ErasesItself'
  <2>1. \A a \in Actor : call'[a].at = "unlist" => call'[a] = call[a]
    BY <1>3, <1>7, IdleFacts
  <2>2. QED
    BY <1>5, <1>6, <1>8, <2>1 DEF Calls, ErasesItself
<1>17. Unlisted'
  <2>1. \A a \in Actor : call[a].at = "unlist" => call'[a] = call[a]
    BY <1>1, <1>7
  <2>2. QED
    BY <1>5, <1>7, <1>8, <2>1 DEF Calls, Unlisted
<1>18. DueAhead'
  <2>1. ASSUME NEW u \in Rest, u # t, NEW q \in call[u].due
        PROVE  q \in Peer /\ q # p
    BY <1>13, <2>1, TargetFacts DEF Calls, Reached
  <2>2. QED
    BY <1>7, <1>8, <2>1, IdleFacts DEF Calls, DueAhead
<1>19. QED
  BY <1>9, <1>10, <1>11, <1>12, <1>14, <1>15, <1>16, <1>17, <1>18 DEF Calls

(* A peer goes on to d, perhaps listed, started, named or in a session now. *)
LEMMA PeerOnward ==
    ASSUME Calls, NEW p \in Peer, NEW d \in Call, SetCall(p, d), RestTyped',
           peers' \in {peers, peers \union {p}},
           started' \in [Peer -> BOOLEAN], bears' \in [Peer -> MaybeName],
           session' \in [Peer -> 0 .. MaxServices],
           \A q \in Peer : q # p => /\ started'[q] = started[q]
                                   /\ bears'[q] = bears[q]
                                   /\ session'[q] = session[q],
           call[p].at \notin StopStep, call[p].at = "listed" => p \in Listeners,
           d.at \in PeerStep \ {"new", "append"}, d.peer = p, ~d.early,
           d.at = "listed" => /\ call[p].at = "new" /\ p \in Listeners /\ p \in peers'
                              /\ UNCHANGED <<started, bears, session>>,
           d.at = "gone" => ~started'[p],
           \/ started'[p] = started[p] /\ (d.at = "listed" \/ peers' = peers)
           \/ started'[p] /\ call[p].at = "listed",
           \/ call[p].at = "new" /\ d.at = "listed"
           \/ call[p].at \notin {"new", "listed"} /\ started'[p] = started[p]
           \/ call[p].at = "listed" /\ d.at # "listed" /\ started'[p],
           bears[p] # NoName => bears'[p] = bears[p]
    PROVE  Calls'
<1>1. /\ call \in [Actor -> Call] /\ p \in Actor /\ p \notin Rest
      /\ \A q \in Peer : q \in Actor
      /\ \A u \in Rest : u \in Actor /\ u # p
  BY ActorFacts DEF Calls, TypeOK
<1>2. /\ call'[p] = d /\ call' \in [Actor -> Call]
      /\ \A b \in Actor : b # p => call'[b] = call[b]
      /\ \A q \in Peer : q # p => call'[q] = call[q]
      /\ \A u \in Rest : call'[u] = call[u]
  BY <1>1, CallFacts
<1>3. d.at \notin {"new", "append", "stop", "unlist", "remove", "erase"}
  BY DEF PeerStep
<1>4. TypeOK'
  <2>1. peers' \subseteq Peer
    BY DEF Calls, TypeOK
  <2>2. QED
    BY <1>2, <2>1 DEF RestTyped, TypeOK
<1>5. RestCalls'
  BY <1>2 DEF Calls, RestCalls
<1>6. Beginning'
  <2>1. \A u \in Rest : call[u].at = "begin" =>
           call[u].peer \in Peer /\ call[u].peer # p
    BY ActorFacts DEF Calls, Beginning
  <2>2. QED
    BY <1>2, <2>1 DEF Calls, Beginning
<1>7. PeerCalls'
  <2>1. \A q \in Peer : q # p => (q \in peers' <=> q \in peers)
    OBVIOUS
  <2>2. p \notin Dialers \/ d.at # "listed"
    BY ActorFacts
  <2>3. d.at = "listed" => ~started[p] /\ bears[p] = NoName /\ session[p] = 0
    BY DEF Calls, PeerCalls
  <2>4. ASSUME NEW q \in Peer, q # p
        PROVE  /\ call'[q].at \in PeerStep \union StopStep
               /\ call'[q].peer = q
               /\ call'[q].at = "new" => q \notin peers'
               /\ call'[q].at \in {"new", "listed"} => ~started'[q] /\ bears'[q] = NoName
               /\ call'[q].at = "listed" => q \in peers'
               /\ call'[q].at = "listed" /\ q \in Dialers =>
                     \E t \in Rest : call'[t].at = "begin" /\ call'[t].peer = q
               /\ call'[q].at = "new" \/ (call'[q].at = "listed" /\ q \in Listeners) =>
                     session'[q] = 0
               /\ call'[q].at = "append" => /\ bears'[q] # NoName
                                            /\ call'[q].serial = session'[q]
               /\ call'[q].at = "gone" => ~started'[q]
               /\ call'[q].early => call'[q].at \in {"remove", "erase"}
    BY <1>2, <2>1, <2>4 DEF Calls, PeerCalls
  <2>5. /\ call'[p].at \in PeerStep \union StopStep
        /\ call'[p].peer = p
        /\ call'[p].at \notin {"new", "append"}
        /\ call'[p].at = "listed" =>
              /\ ~started'[p] /\ bears'[p] = NoName /\ p \in peers' /\ p \notin Dialers
              /\ session'[p] = 0
        /\ call'[p].at = "gone" => ~started'[p]
        /\ ~call'[p].early
    BY <1>2, <1>3, <2>2, <2>3
  <2>6. QED
    BY <2>4, <2>5 DEF PeerCalls
<1>8. ASSUME NEW q \in Peer
      PROVE  /\ call[q].at # "new" => call'[q].at # "new"
             /\ call[q].at \notin {"new", "listed"} =>
                   call'[q].at \notin {"new", "listed"}
  BY <1>2, <1>3
<1>9. Reached'
  BY <1>2, <1>8, TargetFacts DEF Calls, Reached
<1>10. ASSUME NEW a \in Actor, Stopping(a)'
       PROVE  /\ call'[a] = call[a] /\ Stopping(a) /\ call[a].peer \in Peer
              /\ call[call[a].peer].at \notin {"new", "listed"}
  <2>1. call'[a] = call[a] /\ Stopping(a)
    BY <1>2, <1>3, <1>10 DEF Stopping
  <2>2. QED
    BY <2>1, TargetFacts DEF Calls, Stops, Stopping, StopStep
<1>11. Stops'
  <2>1. ASSUME NEW a \in Actor, Stopping(a)'
        PROVE  /\ call'[a].at = "unlist" => ~call'[a].early
               /\ call'[call'[a].peer].at \notin {"new", "listed"}
               /\ ~call'[a].early => ~started'[call'[a].peer]
               /\ call'[a].at \in {"remove", "erase"} /\ ~call'[a].early =>
                     call'[a].peer \notin peers'
    <3> DEFINE q == call[a].peer
    <3>1. /\ call'[a] = call[a] /\ Stopping(a) /\ q \in Peer
          /\ call[q].at \notin {"new", "listed"}
      BY <1>10, <2>1
    <3>2. /\ call[a].at = "unlist" => ~call[a].early
          /\ ~call[a].early => ~started[q]
          /\ call[a].at \in {"remove", "erase"} /\ ~call[a].early => q \notin peers
      BY <3>1 DEF Calls, Stops
    <3>3. call'[q].at \notin {"new", "listed"}
      BY <1>8, <3>1
    <3>4. d.at = "listed" => call[p].at = "new"
      OBVIOUS
    <3>5. started'[q] = started[q] /\ (q \in peers' => q \in peers)
      <4>1. CASE q # p
        BY <3>1, <4>1
      <4>2. CASE q = p
        BY <3>1, <3>4, <4>2
      <4>3. QED
        BY <4>1, <4>2
    <3>6. QED
      BY <3>1, <3>2, <3>3, <3>5
  <2>2. QED
    BY <2>1 DEF Stops, Stopping
<1>12. ErasesItself'
  <2>1. \A a \in Actor : call'[a].at = "unlist" => call'[a] = call[a]
    BY <1>2, <1>3
  <2>2. call[p].at = "listed" => p \in peers
    BY DEF Calls, PeerCalls
  <2>3. \A q \in Peer : started'[q] => q \in peers'
    BY <2>2 DEF Calls, ErasesItself
  <2>4. QED
    BY <2>1, <2>3 DEF Calls, ErasesItself
<1>13. Unlisted'
  <2>1. \A a \in Actor : call[a].at = "unlist" => call'[a] = call[a]
    BY <1>1, <1>2 DEF StopStep
  <2>2. ASSUME p \in peers', ~started'[p], d.at # "listed"
        PROVE  \E a \in Actor : call'[a].at = "unlist" /\ call'[a].peer = p
    <3>1. call[p].at # "listed" /\ ~started[p] /\ p \in peers
      BY <2>2
    <3>2. QED
      BY <2>1, <3>1 DEF Calls, Unlisted
  <2>3. ASSUME NEW q \in Peer, q # p, q \in peers', ~started'[q], call'[q].at # "listed"
        PROVE  \E a \in Actor : call'[a].at = "unlist" /\ call'[a].peer = q
    BY <1>2, <2>1, <2>3 DEF Calls, Unlisted
  <2>4. QED
    BY <1>2, <2>2, <2>3 DEF Unlisted
<1>14. DueAhead'
  <2>1. ASSUME NEW u \in Rest, NEW q \in call[u].due, started'[q], call[u].name # NoName
        PROVE  /\ bears'[q] = call[u].name
               /\ q \in call[u].left \/ (call[u].at = "stop" /\ call[u].peer = q)
    <3>1. q \in Peer /\ call[q].at \notin {"new", "listed"}
      BY TargetFacts DEF Calls, Reached
    <3>2. started[q]
      BY <2>1, <3>1
    <3>3. QED
      BY <2>1, <3>1, <3>2 DEF Calls, DueAhead
  <2>2. QED
    BY <1>2, <2>1 DEF DueAhead
<1>15. QED
  BY <1>4, <1>5, <1>6, <1>7, <1>9, <1>11, <1>12, <1>13, <1>14 DEF Calls

LEMMA AcceptCalls ==
    ASSUME Calls, NEW p \in Listeners, Accept(p)
    PROVE  Calls'
<1> DEFINE d == [call[p] EXCEPT !.at = "listed"]
<1>1. /\ p \in Peer /\ call[p] \in Call /\ call[p].peer = p /\ ~call[p].early
      /\ call[p].at = "new" /\ TypeOK /\ "listed" \in Step /\ "listed" \in PeerStep
  BY ActorFacts, PeerFacts DEF Accept, Step, PeerStep
<1>2. d \in Call /\ d.at = "listed" /\ d.peer = p /\ ~d.early
  BY <1>1 DEF Call
<1>3. /\ SetCall(p, d) /\ peers' = peers \union {p}
      /\ UNCHANGED <<started, bears, session>> /\ RestTyped'
  BY <1>1, HereFacts DEF Accept, RestTyped
<1> HIDE DEF d
<1>4. /\ started' \in [Peer -> BOOLEAN] /\ bears' \in [Peer -> MaybeName]
      /\ session' \in [Peer -> 0 .. MaxServices] /\ p \in peers'
  BY <1>1, <1>3 DEF TypeOK
<1>5. QED
  BY <1>1, <1>2, <1>3, <1>4, PeerOnward DEF StopStep

LEMMA StartAcceptedCalls ==
    ASSUME Calls, NEW p \in Peer, StartAccepted(p)
    PROVE  Calls'
<1> DEFINE d == [call[p] EXCEPT !.at = "reading"]
<1>1. /\ p \in Listeners /\ call[p] \in Call /\ call[p].peer = p /\ ~call[p].early
      /\ call[p].at = "listed" /\ TypeOK /\ "reading" \in Step /\ "reading" \in PeerStep
  BY PeerFacts DEF StartAccepted, Step, PeerStep
<1>2. d \in Call /\ d.at = "reading" /\ d.peer = p /\ ~d.early
  BY <1>1 DEF Call
<1>3. /\ SetCall(p, d) /\ started' = [started EXCEPT ![p] = TRUE]
      /\ UNCHANGED <<peers, bears, session>> /\ RestTyped'
  BY <1>1, HereFacts DEF StartAccepted, RestTyped
<1> HIDE DEF d
<1>4. /\ started' \in [Peer -> BOOLEAN] /\ bears' \in [Peer -> MaybeName]
      /\ session' \in [Peer -> 0 .. MaxServices] /\ started'[p]
      /\ \A q \in Peer : q # p => started'[q] = started[q]
  BY <1>1, <1>3 DEF TypeOK
<1>5. QED
  BY <1>1, <1>2, <1>3, <1>4, PeerOnward DEF StopStep

LEMMA OnReadInitCalls ==
    ASSUME Calls, NEW p \in Peer, NEW k \in tickets, OnReadInit(p, k)
    PROVE  Calls'
<1> DEFINE d == [call[p] EXCEPT !.at = "handling", !.name = k.name]
<1>1. /\ call[p] \in Call /\ call[p].peer = p /\ ~call[p].early
      /\ call[p].at = "reading" /\ TypeOK /\ k \in Ticket
      /\ "handling" \in Step /\ "handling" \in PeerStep
  BY PeerFacts, HereFacts DEF OnReadInit, Step, PeerStep
<1>2. k.name \in MaybeName /\ k.serial \in 0 .. MaxServices
  BY <1>1, ActorFacts DEF Ticket, Serial
<1>3. d \in Call /\ d.at = "handling" /\ d.peer = p /\ ~d.early
  BY <1>1, <1>2 DEF Call
<1>4. /\ SetCall(p, d) /\ session' = [session EXCEPT ![p] = k.serial]
      /\ UNCHANGED <<peers, started, bears>> /\ RestTyped'
  BY <1>1, HereFacts DEF OnReadInit, RestTyped
<1> HIDE DEF d
<1>5. /\ started' \in [Peer -> BOOLEAN] /\ bears' \in [Peer -> MaybeName]
      /\ session' \in [Peer -> 0 .. MaxServices]
      /\ \A q \in Peer : q # p => session'[q] = session[q]
  BY <1>1, <1>2, <1>4 DEF TypeOK
<1>6. QED
  BY <1>1, <1>3, <1>4, <1>5, PeerOnward DEF StopStep

LEMMA OnInitCalls ==
    ASSUME Calls, NEW p \in Peer, OnInit(p)
    PROVE  Calls'
<1>1. /\ call[p] \in Call /\ call[p].at = "handling" /\ TypeOK /\ bears[p] = NoName
  BY PeerFacts DEF OnInit
<1>2. /\ SetCall(p, Resumed(p)) /\ bears' = [bears EXCEPT ![p] = call[p].name]
      /\ UNCHANGED <<peers, started, session>> /\ RestTyped'
  BY <1>1, HereFacts DEF OnInit, RestTyped
<1>3. call[p].name \in MaybeName
  BY <1>1 DEF Call
<1>4. /\ started' \in [Peer -> BOOLEAN] /\ bears' \in [Peer -> MaybeName]
      /\ session' \in [Peer -> 0 .. MaxServices]
      /\ \A q \in Peer : q # p => bears'[q] = bears[q]
  BY <1>1, <1>2, <1>3 DEF TypeOK
<1>5. /\ Resumed(p).at \in {"reading", "gone"} /\ (Resumed(p).at = "gone" => ~started[p])
      /\ Resumed(p).at \in PeerStep \ {"new", "append"}
  BY ResumedFacts DEF PeerStep
<1>6. QED
  BY <1>1, <1>2, <1>4, <1>5, ResumedFacts, PeerOnward DEF StopStep

(* A call of stop goes on to c, and the peer that it stops is not started   *)
(* any more, and perhaps not listed.                                       *)
LEMMA StopOnward ==
    ASSUME Calls, NEW a \in Actor, NEW next \in {"unlist", "remove"},
           SetCall(a, [call[a] EXCEPT !.at = next]),
           call[a].at \in {"stop", "unlist"}, ~call[a].early,
           UNCHANGED <<services, bears, session, tickets, count, overlap, reused, met>>,
           started' = [started EXCEPT ![call[a].peer] = FALSE],
           peers' \in {peers, peers \ {call[a].peer}},
           call[call[a].peer].at \notin {"new", "listed"}
    PROVE  /\ call' \in [Actor -> Call] /\ call[a].peer \in Peer
           /\ call'[a].at = next /\ ~call'[a].early
           /\ call'[a].peer = call[a].peer /\ call'[a].name = call[a].name
           /\ call'[a].left = call[a].left /\ call'[a].due = call[a].due
           /\ \A b \in Actor : b # a => call'[b] = call[b]
           /\ \A q \in Peer : started'[q] = (started[q] /\ q # call[a].peer)
           /\ \A q \in Peer : call'[q].at \in {"new", "listed"} <=>
                                 call[q].at \in {"new", "listed"}
           /\ TypeOK' /\ RestCalls' /\ Beginning' /\ PeerCalls' /\ Reached'
<1> DEFINE c == [call[a] EXCEPT !.at = next]
           p == call[a].peer
<1>1. TypeOK /\ call[a] \in Call /\ call \in [Actor -> Call] /\ p \in Peer
  BY HereFacts, TargetFacts DEF Calls, StopStep
<1>2. /\ next \in Step /\ next \in StopStep /\ next \notin {"new", "listed", "begin"}
      /\ call[a].at \notin {"new", "listed", "begin", "append", "gone"}
  BY DEF Step, StopStep
<1>3. /\ c \in Call /\ c.at = next /\ ~c.early /\ c.peer = p /\ c.name = call[a].name
      /\ c.left = call[a].left /\ c.due = call[a].due /\ c.serial = call[a].serial
  BY <1>1, <1>2 DEF Call
<1>4. SetCall(a, c)
  OBVIOUS
<1> HIDE DEF c
<1>5. /\ call' \in [Actor -> Call] /\ call'[a] = c
      /\ \A b \in Actor : b # a => call'[b] = call[b]
  BY <1>1, <1>3, <1>4, CallFacts
<1>6. /\ started' \in [Peer -> BOOLEAN] /\ peers' \subseteq Peer
      /\ \A q \in Peer : started'[q] = (started[q] /\ q # p)
  BY <1>1 DEF TypeOK
<1> HIDE DEF p
<1>7. TypeOK'
  BY <1>1, <1>5, <1>6 DEF TypeOK
<1>8. \A q \in Peer : call'[q].at # call[q].at => q = a
  BY <1>5, ActorFacts
<1>9. \A q \in Peer : call'[q].at \in {"new", "listed"} <=> call[q].at \in {"new", "listed"}
  BY <1>2, <1>3, <1>5, <1>8
<1>10. RestCalls'
  <2>1. /\ c.at \in RestStep \union StopStep /\ c.peer # NoPeer
        /\ c.at \in StopStep \union {"begin"}
        /\ c.at \notin RestStep
        /\ c.at \notin {"idle", "gen", "assign", "answer"}
    BY <1>1, <1>2, <1>3, ActorFacts DEF StopStep, RestStep, p
  <2>2. ASSUME NEW u \in Rest
        PROVE  /\ call'[u].at \in RestStep \union StopStep
               /\ ~call'[u].early
               /\ call'[u].at \in StopStep \union {"begin"} <=> call'[u].peer # NoPeer
               /\ call'[u].at = "idle" => call'[u].name = NoName
               /\ call'[u].at \in {"gen", "assign", "answer"} => call'[u].name # NoName
               /\ call'[u].at \in RestStep \ {"exit"} =>
                     call'[u].due = {} /\ call'[u].left = {}
    <3>1. CASE u = a
      BY <1>3, <1>5, <2>1, <3>1
    <3>2. CASE u # a
      <4>1. call'[u] = call[u]
        BY <1>5, <3>2, ActorFacts
      <4>2. QED
        BY <4>1 DEF Calls, RestCalls
    <3>3. QED
      BY <3>1, <3>2
  <2>3. QED
    BY <2>2 DEF RestCalls
<1>11. \A u \in Rest : /\ call[u].at = "begin" => call'[u] = call[u]
                       /\ call'[u].at = "begin" => call'[u] = call[u]
  BY <1>2, <1>3, <1>5, ActorFacts
<1>12. Beginning'
  <2>1. \A q \in Peer : call[q].at = "listed" => call'[q] = call[q]
    BY <1>2, <1>5, ActorFacts
  <2>2. QED
    BY <1>11, <2>1, ActorFacts DEF Calls, Beginning
<1>13. ASSUME NEW q \in Peer
       PROVE  /\ call'[q].at \in PeerStep \union StopStep
              /\ call'[q].peer = q
              /\ call'[q].at = "new" => q \notin peers'
              /\ call'[q].at \in {"new", "listed"} => ~started'[q] /\ bears'[q] = NoName
              /\ call'[q].at = "listed" => q \in peers'
              /\ call'[q].at = "listed" /\ q \in Dialers =>
                    \E t \in Rest : call'[t].at = "begin" /\ call'[t].peer = q
              /\ call'[q].at = "new" \/ (call'[q].at = "listed" /\ q \in Listeners) =>
                    session'[q] = 0
              /\ call'[q].at = "append" => /\ bears'[q] # NoName
                                           /\ call'[q].serial = session'[q]
              /\ call'[q].at = "gone" => ~started'[q]
              /\ call'[q].early => call'[q].at \in {"remove", "erase"}
  <2>1. CASE q = a
    <3>1. call'[q] = c /\ p = q
      BY <1>5, <2>1 DEF Calls, PeerCalls, p
    <3>2. QED
      BY <1>2, <1>3, <3>1
  <2>2. CASE q # a
    <3>1. call'[q] = call[q]
      BY <1>5, <2>2, ActorFacts
    <3>2. q \in peers' => q \in peers
      OBVIOUS
    <3>3. call[q].at = "listed" => q # p
      BY DEF p
    <3>4. q \in peers /\ q # p => q \in peers'
      BY DEF p
    <3>5. QED
      BY <1>6, <1>11, <3>1, <3>2, <3>3, <3>4 DEF Calls, PeerCalls
  <2>3. QED
    BY <2>1, <2>2
<1>14. PeerCalls'
  BY <1>13 DEF PeerCalls
<1>15. Reached'
  <2>1. \A q \in Peer : call[q].at # "new" => call'[q].at # "new"
    BY <1>2, <1>3, <1>5, <1>8
  <2>2. ASSUME NEW u \in Rest
        PROVE  /\ call'[u].left = call[u].left /\ call'[u].due = call[u].due
               /\ call'[u].at \in StopStep => call[u].at \in StopStep
               /\ call'[u].peer = call[u].peer
    BY <1>3, <1>5, ActorFacts DEF p, StopStep
  <2>3. QED
    BY <1>9, <2>1, <2>2, TargetFacts DEF Calls, Reached
<1>16. QED
  BY <1>1, <1>3, <1>5, <1>6, <1>7, <1>9, <1>10, <1>12, <1>14, <1>15 DEF p

LEMMA StopCalls ==
    ASSUME Calls, NEW a \in Actor, Stop(a)
    PROVE  Calls'
<1> DEFINE p == call[a].peer
<1>1. /\ TypeOK /\ RestTyped /\ call[a].at = "stop" /\ p \in Peer /\ ~call[a].early
      /\ a \in Peer => p = a
  BY HereFacts, TargetFacts, ActorFacts DEF Calls, Stop, StopStep, RestCalls, PeerCalls
<1>2. /\ UNCHANGED <<services, peers, bears, session, tickets, count, overlap, reused, met>>
      /\ started' = [started EXCEPT ![p] = FALSE]
      /\ SetCall(a, IF started[p] THEN [call[a] EXCEPT !.at = "unlist"] ELSE Stopped(a))
  BY DEF Stop
<1>3. CASE ~started[p]
  <2>1. started' = started
    BY <1>1, <1>2, <1>3 DEF TypeOK
  <2>2. UNCHANGED peerVars /\ RestTyped' /\ SetCall(a, Stopped(a))
    BY <1>1, <1>2, <1>3, <2>1 DEF peerVars, RestTyped
  <2>3. QED
    BY <1>1, <1>3, <2>2, StoppedFacts, StoppedCalls
<1>4. CASE started[p]
  <2>1. SetCall(a, [call[a] EXCEPT !.at = "unlist"])
    BY <1>2, <1>4
  <2>2. call[p].at \notin {"new", "listed"}
    BY <1>1, <1>4 DEF Calls, PeerCalls
  <2>3. /\ call' \in [Actor -> Call]
        /\ call'[a].at = "unlist" /\ ~call'[a].early
        /\ call'[a].peer = p /\ call'[a].name = call[a].name
        /\ call'[a].left = call[a].left /\ call'[a].due = call[a].due
        /\ \A b \in Actor : b # a => call'[b] = call[b]
        /\ \A q \in Peer : started'[q] = (started[q] /\ q # p)
        /\ \A q \in Peer : call'[q].at \in {"new", "listed"} <=>
                              call[q].at \in {"new", "listed"}
        /\ TypeOK' /\ RestCalls' /\ Beginning' /\ PeerCalls' /\ Reached'
    BY <1>1, <1>2, <2>1, <2>2, StopOnward
  <2>4. Stops'
    <3>1. ASSUME NEW b \in Actor, Stopping(b)'
          PROVE  /\ call'[b].at = "unlist" => ~call'[b].early
                 /\ call'[call'[b].peer].at \notin {"new", "listed"}
                 /\ ~call'[b].early => ~started'[call'[b].peer]
                 /\ call'[b].at \in {"remove", "erase"} /\ ~call'[b].early =>
                       call'[b].peer \notin peers'
      <4>1. CASE b = a
        BY <1>1, <2>2, <2>3, <4>1
      <4>2. CASE b # a
        <5>1. call'[b] = call[b] /\ Stopping(b) /\ call[b].peer \in Peer
          BY <2>3, <3>1, <4>2, TargetFacts DEF Stopping, StopStep
        <5>2. QED
          BY <1>2, <2>3, <5>1 DEF Calls, Stops
      <4>3. QED
        BY <4>1, <4>2
    <3>2. QED
      BY <3>1 DEF Stops, Stopping
  <2>5. ErasesItself'
    <3>1. p \in peers
      BY <1>1, <1>4 DEF Calls, ErasesItself
    <3>2. ASSUME NEW b \in Actor, call[b].at = "unlist"
          PROVE  call[b].peer # p
      BY <1>4, <3>2 DEF Calls, Stops, Stopping
    <3>3. QED
      BY <1>2, <2>3, <3>1, <3>2 DEF Calls, ErasesItself
  <2>6. Unlisted'
    <3>1. \A b \in Actor : call[b].at = "unlist" => call'[b] = call[b]
      BY <1>1, <2>3
    <3>2. \A q \in Peer : q = a => q = p
      BY <1>1
    <3>3. ASSUME NEW q \in Peer, q # p, q \in peers', ~started'[q], call'[q].at # "listed"
          PROVE  \E b \in Actor : call'[b].at = "unlist" /\ call'[b].peer = q
      BY <1>2, <2>3, <3>1, <3>2, <3>3, ActorFacts DEF Calls, Unlisted
    <3>4. QED
      BY <2>3, <3>3 DEF Unlisted
  <2>7. DueAhead'
    <3>1. ASSUME NEW t \in Rest, NEW q \in call'[t].due, started'[q],
                 call'[t].name # NoName
          PROVE  /\ bears'[q] = call'[t].name
                 /\ q \in call'[t].left \/ (call'[t].at = "stop" /\ call'[t].peer = q)
      <4>1. /\ call'[t].due = call[t].due /\ call'[t].name = call[t].name
            /\ call'[t].left = call[t].left /\ call[t].due \in SUBSET Peer
            /\ t # a => call'[t] = call[t]
        BY <2>3, ActorFacts, TargetFacts
      <4>2. q \in Peer /\ started[q] /\ q # p
        BY <2>3, <3>1, <4>1
      <4>3. /\ bears[q] = call[t].name
            /\ q \in call[t].left \/ (call[t].at = "stop" /\ call[t].peer = q)
        BY <3>1, <4>1, <4>2 DEF Calls, DueAhead
      <4>4. QED
        BY <1>2, <4>1, <4>2, <4>3
    <3>2. QED
      BY <3>1 DEF DueAhead
  <2>8. QED
    BY <2>3, <2>4, <2>5, <2>6, <2>7 DEF Calls
<1>5. QED
  BY <1>3, <1>4

LEMMA UnlistCalls ==
    ASSUME Calls, NEW a \in Actor, Unlist(a)
    PROVE  Calls'
<1> DEFINE p == call[a].peer
<1>1. /\ TypeOK /\ call[a].at = "unlist" /\ p \in Peer /\ ~call[a].early
      /\ ~started[p] /\ call[p].at \notin {"new", "listed"}
  BY TargetFacts DEF Calls, Unlist, Stops, Stopping, StopStep
<1>2. /\ UNCHANGED <<services, started, bears, session, tickets, count, overlap, reused, met>>
      /\ peers' = peers \ {p}
      /\ SetCall(a, [call[a] EXCEPT !.at = "remove"])
  BY DEF Unlist
<1>3. started' = [started EXCEPT ![p] = FALSE]
  BY <1>1, <1>2 DEF TypeOK
<1>4. /\ call' \in [Actor -> Call]
      /\ call'[a].at = "remove" /\ ~call'[a].early
      /\ call'[a].peer = p /\ call'[a].name = call[a].name
      /\ call'[a].left = call[a].left /\ call'[a].due = call[a].due
      /\ \A b \in Actor : b # a => call'[b] = call[b]
      /\ \A q \in Peer : started'[q] = (started[q] /\ q # p)
      /\ \A q \in Peer : call'[q].at \in {"new", "listed"} <=>
                            call[q].at \in {"new", "listed"}
      /\ TypeOK' /\ RestCalls' /\ Beginning' /\ PeerCalls' /\ Reached'
  BY <1>1, <1>2, <1>3, StopOnward
<1>5. Stops'
  <2>1. ASSUME NEW b \in Actor, Stopping(b)'
        PROVE  /\ call'[b].at = "unlist" => ~call'[b].early
               /\ call'[call'[b].peer].at \notin {"new", "listed"}
               /\ ~call'[b].early => ~started'[call'[b].peer]
               /\ call'[b].at \in {"remove", "erase"} /\ ~call'[b].early =>
                     call'[b].peer \notin peers'
    <3>1. CASE b = a
      BY <1>1, <1>2, <1>4, <3>1
    <3>2. CASE b # a
      <4>1. call'[b] = call[b] /\ Stopping(b) /\ call[b].peer \in Peer
        BY <1>4, <2>1, <3>2, TargetFacts DEF Stopping, StopStep
      <4>2. QED
        BY <1>2, <1>4, <4>1 DEF Calls, Stops
    <3>3. QED
      BY <3>1, <3>2
  <2>2. QED
    BY <2>1 DEF Stops, Stopping
<1>6. ErasesItself'
  <2>1. ASSUME NEW b \in Actor, call'[b].at = "unlist"
        PROVE  /\ call'[b] = call[b] /\ call[b].peer \in peers /\ call[b].peer # p
               /\ call[b].at = "unlist"
    <3>1. b # a /\ call'[b] = call[b]
      BY <1>4, <2>1
    <3>2. QED
      BY <1>1, <2>1, <3>1 DEF Calls, ErasesItself
  <2>2. \A q \in Peer : started'[q] => q \in peers'
    BY <1>2, <1>4 DEF Calls, ErasesItself
  <2>3. QED
    BY <1>2, <2>1, <2>2 DEF Calls, ErasesItself
<1>7. Unlisted'
  <2>1. ASSUME NEW q \in Peer, q \in peers', ~started'[q], call'[q].at # "listed"
        PROVE  \E b \in Actor : call'[b].at = "unlist" /\ call'[b].peer = q
    <3>1. q \in peers /\ q # p /\ ~started[q]
      BY <1>2, <1>4, <2>1
    <3>2. call[q].at # "listed"
      BY <1>1, <1>4, <2>1, <3>1, ActorFacts DEF Calls, PeerCalls
    <3>3. PICK b \in Actor : call[b].at = "unlist" /\ call[b].peer = q
      BY <3>1, <3>2 DEF Calls, Unlisted
    <3>4. QED
      BY <1>4, <3>1, <3>3
  <2>2. QED
    BY <2>1 DEF Unlisted
<1>8. DueAhead'
  <2>1. ASSUME NEW t \in Rest, NEW q \in call'[t].due, started'[q],
               call'[t].name # NoName
        PROVE  /\ bears'[q] = call'[t].name
               /\ q \in call'[t].left \/ (call'[t].at = "stop" /\ call'[t].peer = q)
    <3>1. /\ call'[t].due = call[t].due /\ call'[t].name = call[t].name
          /\ call'[t].left = call[t].left /\ call[t].due \in SUBSET Peer
          /\ t # a => call'[t] = call[t]
      BY <1>4, ActorFacts, TargetFacts
    <3>2. q \in Peer /\ started[q] /\ q # p
      BY <1>4, <2>1, <3>1
    <3>3. /\ bears[q] = call[t].name
          /\ q \in call[t].left \/ (call[t].at = "stop" /\ call[t].peer = q)
      BY <2>1, <3>1, <3>2 DEF Calls, DueAhead
    <3>4. QED
      BY <1>2, <3>1, <3>2, <3>3
  <2>2. QED
    BY <2>1 DEF DueAhead
<1>9. QED
  BY <1>4, <1>5, <1>6, <1>7, <1>8 DEF Calls

LEMMA InitCalls == Init => Calls
<1> SUFFICES ASSUME Init PROVE Calls
  OBVIOUS
<1>1. /\ \A t \in Rest : call[t] = Idle
      /\ \A p \in Peer : call[p] = [Idle EXCEPT !.at = "new", !.peer = p]
      /\ \A a \in Actor : call[a] = IF a \in Peer
                                    THEN [Idle EXCEPT !.at = "new", !.peer = a] ELSE Idle
  BY ActorFacts DEF Init
<1>2. \A p \in Peer : /\ call[p] \in Call /\ call[p].at = "new" /\ call[p].peer = p
                      /\ ~call[p].early
  <2>1. "new" \in Step
    BY DEF Step, PeerStep
  <2>2. ASSUME NEW p \in Peer
        PROVE  LET c == [Idle EXCEPT !.at = "new", !.peer = p]
               IN  c \in Call /\ c.at = "new" /\ c.peer = p /\ ~c.early
    BY <2>1, IdleFacts DEF Call
  <2>3. QED
    BY <1>1, <2>2
<1>3. /\ services = <<>> /\ peers = {} /\ tickets = {} /\ count = 0
      /\ overlap = FALSE /\ reused = FALSE /\ met = FALSE
      /\ \A p \in Peer : ~started[p] /\ bears[p] = NoName /\ session[p] = 0
  BY DEF Init
<1>4. TypeOK
  <2>1. call \in [Actor -> Call]
    BY <1>1, <1>2, IdleFacts DEF Init
  <2>2. <<>> \in Seq(Slot)
    BY EmptySeq
  <2>3. 0 \in 0 .. MaxServices /\ NoName \in MaybeName
    BY ActorFacts DEF MaybeName
  <2>4. /\ started \in [Peer -> BOOLEAN] /\ bears \in [Peer -> MaybeName]
        /\ session \in [Peer -> 0 .. MaxServices]
    BY <2>3 DEF Init
  <2>5. QED
    BY <1>3, <2>1, <2>2, <2>3, <2>4 DEF TypeOK
<1>5. RestCalls
  BY <1>1, IdleFacts DEF RestCalls, RestStep, StopStep
<1>6. PeerCalls
  BY <1>2, <1>3 DEF PeerCalls, PeerStep
<1>7. Beginning /\ Reached /\ DueAhead
  BY <1>1, IdleFacts DEF Beginning, Reached, DueAhead, StopStep
<1>8. \A a \in Actor : call[a].at \in {"idle", "new"}
  BY <1>1, <1>2, IdleFacts, ActorFacts
<1>9. Stops /\ ErasesItself /\ Unlisted
  BY <1>3, <1>8 DEF Stops, Stopping, ErasesItself, Unlisted
<1>10. QED
  BY <1>4, <1>5, <1>6, <1>7, <1>9 DEF Calls

-----------------------------------------------------------------------------
(* Registrations.                                                          *)

LEMMA RegistrationsKept ==
    ASSUME Calls, Registrations, NEW a \in Actor, NEW c, SetCall(a, c),
           UNCHANGED <<tickets, count, session, bears>>, SlotNumbers',
           a \in Rest =>
              /\ c.at \in {"gen", "assign", "answer"} =>
                    Making(a) /\ c.serial = call[a].serial
              /\ c.at \notin {"idle", "gen", "assign", "answer"} =>
                    Knows(c.name, c.serial),
           a \in Peer /\ c.at = "handling" => bears[a] # NoName
    PROVE  Registrations'
<1>1. /\ call'[a] = c
      /\ \A b \in Actor : b # a => call'[b] = call[b]
  BY CallFacts DEF Calls, TypeOK
<1>2. \A n, s : Knows(n, s)' <=> Knows(n, s)
  BY DEF Knows
<1>3. TicketNumbers'
  BY DEF Registrations, Numbers, TicketNumbers
<1>4. ASSUME NEW t \in Rest
      PROVE  /\ Making(t)' => Making(t) /\ call'[t].serial = call[t].serial
             /\ ~Making(t)' /\ call'[t].at # "idle" =>
                   Knows(call'[t].name, call'[t].serial)
  <2>1. CASE t = a
    BY <1>1, <2>1 DEF Making
  <2>2. CASE t # a
    <3>1. call'[t] = call[t]
      BY <1>1, <2>2, ActorFacts
    <3>2. QED
      BY <3>1 DEF Making, Registrations, Sessions
  <2>3. QED
    BY <2>1, <2>2
<1>5. MakingNumbers'
  BY <1>4 DEF Registrations, Numbers, MakingNumbers
<1>6. Sessions'
  <2>1. ASSUME NEW p \in Peer, call'[p].at = "handling", bears'[p] = NoName
        PROVE  Knows(call'[p].name, session'[p])
    <3>1. call'[p] = call[p]
      BY <1>1, <2>1, ActorFacts
    <3>2. QED
      BY <2>1, <3>1 DEF Registrations, Sessions
  <2>2. ASSUME NEW p \in Peer
        PROVE  /\ session'[p] # 0 => \E k \in tickets' : k.serial = session'[p]
               /\ bears'[p] # NoName => Knows(bears'[p], session'[p])
    BY DEF Registrations, Sessions
  <2>3. \A p, q \in Peer : session'[p] = session'[q] /\ session'[p] # 0 => p = q
    BY DEF Registrations, Sessions
  <2>4. QED
    BY <1>2, <1>4, <2>1, <2>2, <2>3 DEF Sessions
<1>7. QED
  BY <1>3, <1>5, <1>6 DEF Registrations, Numbers

LEMMA SlotsKept ==
    ASSUME Registrations, UNCHANGED <<services, count>>
    PROVE  SlotNumbers'
  BY DEF Registrations, Numbers, SlotNumbers

(* Slots keep their numbers when something else in them is written.         *)
LEMMA SlotsWritten ==
    ASSUME Registrations, UNCHANGED count, DOMAIN services' = DOMAIN services,
           \A i \in DOMAIN services : services'[i].serial = services[i].serial
    PROVE  SlotNumbers'
  BY DEF Registrations, Numbers, SlotNumbers

(* What a REST thread knows. *)
LEMMA KnownFacts ==
    ASSUME Calls, Registrations, NEW t \in Rest
    PROVE  /\ call[t] \in Call /\ t \in Actor /\ t \notin Peer /\ TypeOK
           /\ call[t].at \notin {"idle", "gen", "assign", "answer"} =>
                 Knows(call[t].name, call[t].serial)
  BY ActorFacts, HereFacts DEF Calls, Registrations, Sessions, Making

LEMMA RestRegistrations ==
    ASSUME Calls, Registrations, NEW t \in Rest,
           \/ GenName(t) \/ Assign(t) \/ WritePartner(t) \/ NextPeer(t) \/ Left(t)
           \/ \E k \in tickets : UpdatePartner(t, k)
    PROVE  Registrations'
<1>1. /\ call[t] \in Call /\ t \in Actor /\ t \notin Peer /\ TypeOK
      /\ call[t].at \notin {"idle", "gen", "assign", "answer"} =>
            Knows(call[t].name, call[t].serial)
  BY KnownFacts
<1>2. CASE GenName(t)
  <2>1. PICK n : SetCall(t, [call[t] EXCEPT !.at = "assign", !.name = n])
    BY <1>2 DEF GenName
  <2> DEFINE c == [call[t] EXCEPT !.at = "assign", !.name = n]
  <2>2. c.at = "assign" /\ c.serial = call[t].serial /\ Making(t)
    BY <1>1, <1>2 DEF Call, GenName, Making
  <2>3. SetCall(t, c) /\ UNCHANGED <<services, tickets, count, session, bears>>
    BY <1>2, <2>1 DEF GenName, peerVars
  <2> HIDE DEF c
  <2>4. QED
    BY <1>1, <2>2, <2>3, SlotsKept, RegistrationsKept
<1>3. CASE Assign(t)
  <2> DEFINE c == [call[t] EXCEPT !.at = "answer"]
  <2>1. c.at = "answer" /\ c.serial = call[t].serial /\ Making(t)
    BY <1>1, <1>3 DEF Call, Assign, Making
  <2>2. SetCall(t, c) /\ UNCHANGED <<tickets, count, session, bears>>
    BY <1>3 DEF Assign, peerVars
  <2> HIDE DEF c
  <2>3. SlotNumbers'
    <3>1. PICK i : services' = [services EXCEPT ![i].name = call[t].name]
      BY <1>3 DEF Assign
    <3>2. call[t].name \in MaybeName /\ services \in Seq(Slot)
      BY <1>1, HereFacts DEF Call
    <3>3. /\ DOMAIN services' = DOMAIN services
          /\ \A j \in DOMAIN services : services'[j].serial = services[j].serial
      BY <3>1, <3>2, NameWritten
    <3>4. QED
      BY <2>2, <3>3, SlotsWritten
  <2>4. QED
    BY <1>1, <2>1, <2>2, <2>3, RegistrationsKept
<1>4. ASSUME NEW k \in tickets, UpdatePartner(t, k)
      PROVE  Registrations'
  <2>1. PICK i : SetCall(t, [Idle EXCEPT !.at = "write", !.name = k.name,
                                         !.serial = k.serial, !.index = i])
    BY <1>4 DEF UpdatePartner
  <2> DEFINE c == [Idle EXCEPT !.at = "write", !.name = k.name,
                               !.serial = k.serial, !.index = i]
  <2>2. c.at = "write" /\ c.serial = k.serial /\ c.name = k.name
    BY DEF Idle
  <2>3. SetCall(t, c) /\ UNCHANGED <<services, tickets, count, session, bears>>
    BY <1>4, <2>1 DEF UpdatePartner, peerVars
  <2> HIDE DEF c
  <2>4. Knows(c.name, c.serial)
    BY <2>2 DEF Knows
  <2>5. QED
    BY <1>1, <2>2, <2>3, <2>4, SlotsKept, RegistrationsKept
<1>5. CASE WritePartner(t)
  <2>1. SetCall(t, Idle) /\ UNCHANGED <<tickets, count, session, bears>>
    BY <1>5 DEF WritePartner, peerVars
  <2>2. SlotNumbers'
    <3>1. call[t].serial \in Serial /\ services \in Seq(Slot)
      BY <1>1, <1>5, HereFacts, TicketSerial DEF WritePartner, Making
    <3>2. /\ DOMAIN services' = DOMAIN services
          /\ \A j \in DOMAIN services : services'[j].serial = services[j].serial
      BY <1>5, <3>1, Writing DEF WritePartner, Written
    <3>3. QED
      BY <2>1, <3>2, SlotsWritten
  <2>3. QED
    BY <1>1, <2>1, <2>2, IdleFacts, RegistrationsKept
<1>6. CASE NextPeer(t)
  <2>1. PICK p : SetCall(t, [call[t] EXCEPT
                         !.left = @ \ {p},
                         !.at   = IF bears[p] = call[t].name THEN "stop" ELSE @,
                         !.peer = IF bears[p] = call[t].name THEN p ELSE @])
    BY <1>6 DEF NextPeer
  <2> DEFINE c == [call[t] EXCEPT
                      !.left = @ \ {p},
                      !.at   = IF bears[p] = call[t].name THEN "stop" ELSE @,
                      !.peer = IF bears[p] = call[t].name THEN p ELSE @]
  <2>2. /\ call[t].at = "exit" /\ c.at \in {"stop", "exit"}
        /\ c.serial = call[t].serial /\ c.name = call[t].name
    BY <1>1, <1>6 DEF Call, NextPeer
  <2>3. SetCall(t, c) /\ UNCHANGED <<services, tickets, count, session, bears>>
    BY <1>6, <2>1 DEF NextPeer, peerVars
  <2> HIDE DEF c
  <2>4. QED
    BY <1>1, <2>2, <2>3, SlotsKept, RegistrationsKept
<1>7. CASE Left(t)
  BY <1>1, <1>7, IdleFacts, SlotsKept, RegistrationsKept DEF Left, peerVars
<1>8. QED
  BY <1>2, <1>3, <1>4, <1>5, <1>6, <1>7

LEMMA NewServiceRegistrations ==
    ASSUME Calls, Registrations, NEW t \in Rest, NEW n \in Asked, NewService(t, n)
    PROVE  Registrations'
<1> DEFINE c == [Idle EXCEPT !.at = "gen", !.name = n, !.serial = count + 1,
                             !.index = Len(services) + 1]
           x == [name |-> NoName, serial |-> count + 1, data |-> {}]
<1>1. /\ TypeOK /\ t \in Actor /\ count \in Nat /\ count + 1 \in Serial
      /\ services \in Seq(Slot) /\ tickets \subseteq Ticket
      /\ call \in [Actor -> Call]
  BY ActorFacts, HereFacts DEF Calls, NewService, Serial
<1>2. c.at = "gen" /\ c.serial = count + 1
  BY DEF Idle
<1>3. x \in Slot /\ x.serial = count + 1
  BY <1>1 DEF Slot, MaybeName
<1>4. /\ SetCall(t, c) /\ UNCHANGED <<session, bears, tickets>>
      /\ count' = count + 1 /\ services' = Append(services, x)
  BY DEF NewService, peerVars
<1> HIDE DEF c, x
<1>5. /\ call'[t] = c
      /\ \A u \in Rest : u # t => call'[u] = call[u]
      /\ \A p \in Peer : call'[p] = call[p]
  BY <1>1, <1>4, CallFacts, ActorFacts
<1>6. SlotNumbers'
  <2>1. /\ Len(services) \in Nat /\ DOMAIN services = 1 .. Len(services)
        /\ DOMAIN services' = 1 .. Len(services) + 1
        /\ services'[Len(services) + 1].serial = count + 1
        /\ \A i \in DOMAIN services : services'[i] = services[i]
    BY <1>1, <1>3, <1>4, Appending, SlotFacts
  <2>2. ASSUME NEW i \in DOMAIN services
        PROVE  services[i].serial \in Nat /\ services[i].serial <= count
    BY <1>1, SlotFacts DEF Registrations, Numbers, SlotNumbers, Serial
  <2>3. ASSUME NEW i \in DOMAIN services'
        PROVE  i \in DOMAIN services \/ i = Len(services) + 1
    BY <2>1
  <2>4. ASSUME NEW i \in DOMAIN services'
        PROVE  services'[i].serial <= count'
    BY <1>1, <1>4, <2>1, <2>2, <2>3
  <2>5. ASSUME NEW i \in DOMAIN services', NEW j \in DOMAIN services',
               services'[i].serial = services'[j].serial
        PROVE  i = j
    <3>1. CASE i \in DOMAIN services /\ j \in DOMAIN services
      BY <2>1, <2>5, <3>1 DEF Registrations, Numbers, SlotNumbers
    <3>2. CASE i \in DOMAIN services /\ j \notin DOMAIN services
      BY <1>1, <2>1, <2>2, <2>3, <2>5, <3>2
    <3>3. CASE i \notin DOMAIN services /\ j \in DOMAIN services
      BY <1>1, <2>1, <2>2, <2>3, <2>5, <3>3
    <3>4. QED
      BY <2>3, <3>1, <3>2, <3>3
  <2>6. QED
    BY <2>4, <2>5 DEF SlotNumbers
<1>7. \A k \in tickets : k.serial \in Nat /\ k.serial <= count
  BY <1>1 DEF Registrations, Numbers, TicketNumbers, Ticket, Serial
<1>8. TicketNumbers'
  BY <1>1, <1>4, <1>7 DEF Registrations, Numbers, TicketNumbers
<1>9. MakingNumbers'
  <2>1. ASSUME NEW u \in Rest, Making(u)', u # t
        PROVE  /\ Making(u) /\ call'[u].serial = call[u].serial
               /\ call[u].serial \in 1 .. count
    BY <1>5, <2>1 DEF Making, Registrations, Numbers, MakingNumbers
  <2>2. ASSUME NEW u \in Rest, Making(u)'
        PROVE  /\ call'[u].serial \in 1 .. count'
               /\ \A k \in tickets' : k.serial # call'[u].serial
    <3>1. CASE u = t
      BY <1>1, <1>2, <1>4, <1>5, <1>7, <3>1
    <3>2. CASE u # t
      BY <1>1, <1>4, <2>1, <2>2, <3>2 DEF Registrations, Numbers, MakingNumbers
    <3>3. QED
      BY <3>1, <3>2
  <2>3. ASSUME NEW u \in Rest, NEW v \in Rest, Making(u)', Making(v)',
               call'[u].serial = call'[v].serial
        PROVE  u = v
    <3>1. CASE u # t /\ v # t
      BY <2>1, <2>3, <3>1 DEF Registrations, Numbers, MakingNumbers
    <3>2. CASE (u = t) # (v = t)
      BY <1>1, <1>2, <1>5, <2>1, <2>3, <3>2
    <3>3. QED
      BY <3>1, <3>2
  <2>4. QED
    BY <2>2, <2>3 DEF MakingNumbers
<1>10. Sessions'
  BY <1>2, <1>4, <1>5 DEF Registrations, Sessions, Knows, Making
<1>11. QED
  BY <1>6, <1>8, <1>9, <1>10 DEF Registrations, Numbers

LEMMA AnswerRegistrations ==
    ASSUME Calls, Registrations, NEW t \in Rest, Answer(t)
    PROVE  Registrations'
<1> DEFINE s == call[t].serial
           n == Last(services).name
           new == [name |-> n, serial |-> s, held |-> TRUE]
<1>1. /\ TypeOK /\ t \in Actor /\ call[t].at = "answer" /\ call \in [Actor -> Call]
      /\ count \in Nat
  BY ActorFacts, HereFacts DEF Calls, Answer
<1>2. /\ SetCall(t, Idle) /\ UNCHANGED <<session, bears, services, count>>
      /\ tickets' \in {tickets, tickets \union {new}}
  BY DEF Answer, peerVars
<1>3. /\ call'[t] = Idle
      /\ \A u \in Rest : u # t => call'[u] = call[u]
      /\ \A p \in Peer : call'[p] = call[p]
  BY <1>1, <1>2, CallFacts, ActorFacts
<1>4. new.serial = s /\ new.name = n
  OBVIOUS
<1>5. /\ s \in 1 .. count
      /\ \A k \in tickets : k.serial # s
      /\ \A u \in Rest : Making(u) /\ call[u].serial = s => u = t
  BY <1>1 DEF Registrations, Numbers, MakingNumbers, Making
<1> HIDE DEF new, s, n
<1>6. TicketNumbers'
  <2>1. \A k \in tickets : k.serial <= count
    BY DEF Registrations, Numbers, TicketNumbers
  <2>2. \A k \in tickets' : k \in tickets \/ k = new
    BY <1>2
  <2>3. \A k, m \in tickets' : k.serial = m.serial => k = m
    BY <1>4, <1>5, <2>2 DEF Registrations, Numbers, TicketNumbers
  <2>4. QED
    BY <1>1, <1>2, <1>4, <1>5, <2>1, <2>2, <2>3 DEF TicketNumbers
<1>7. MakingNumbers'
  <2>1. ASSUME NEW u \in Rest, Making(u)'
        PROVE  u # t /\ call'[u] = call[u] /\ Making(u) /\ call[u].serial # s
    BY <1>3, <1>5, <2>1, IdleFacts DEF Making
  <2>2. QED
    BY <1>2, <1>4, <2>1 DEF Registrations, Numbers, MakingNumbers
<1>8. Sessions'
  <2>1. \A m, r : Knows(m, r) => Knows(m, r)'
    BY <1>2 DEF Knows
  <2>2. \A k \in tickets : k \in tickets'
    BY <1>2
  <2>3. ASSUME NEW u \in Rest, ~Making(u)', call'[u].at # "idle"
        PROVE  Knows(call[u].name, call[u].serial)'
    <3>1. u # t /\ call'[u] = call[u] /\ ~Making(u)
      BY <1>3, <2>3, IdleFacts DEF Making
    <3>2. QED
      BY <2>1, <2>3, <3>1 DEF Registrations, Sessions
  <2>4. ASSUME NEW p \in Peer
        PROVE  /\ session'[p] # 0 => \E k \in tickets' : k.serial = session'[p]
               /\ bears'[p] # NoName => Knows(bears[p], session[p])'
               /\ call'[p].at = "handling" /\ bears'[p] = NoName =>
                     Knows(call[p].name, session[p])'
    BY <1>2, <1>3, <2>1, <2>2 DEF Registrations, Sessions
  <2>5. \A p, q \in Peer : session'[p] = session'[q] /\ session'[p] # 0 => p = q
    BY <1>2 DEF Registrations, Sessions
  <2>6. QED
    BY <2>3, <2>4, <2>5 DEF Sessions
<1>9. SlotNumbers'
  BY <1>2, SlotsKept
<1>10. QED
  BY <1>6, <1>7, <1>8, <1>9 DEF Registrations, Numbers

LEMMA LeaveRegistrations ==
    ASSUME Calls, Registrations, NEW t \in Rest, NEW k \in tickets, Leave(t, k)
    PROVE  Registrations'
<1> DEFINE c == [Idle EXCEPT !.at = "exit", !.name = k.name, !.serial = k.serial,
                             !.left = peers,
                             !.due = {p \in peers : started[p] /\ bears[p] = k.name}]
           m == [k EXCEPT !.held = FALSE]
<1>1. /\ TypeOK /\ t \in Actor /\ call \in [Actor -> Call] /\ k \in Ticket
  BY ActorFacts, HereFacts DEF Calls
<1>2. /\ SetCall(t, c) /\ UNCHANGED <<session, bears, services, count>>
      /\ tickets' = (tickets \ {k}) \union {m}
  BY DEF Leave, peerVars
<1>3. c.at = "exit" /\ c.name = k.name /\ c.serial = k.serial
  BY DEF Idle
<1>4. m.name = k.name /\ m.serial = k.serial
  BY <1>1 DEF Ticket
<1> HIDE DEF c, m
<1>5. /\ call'[t] = c
      /\ \A u \in Rest : u # t => call'[u] = call[u]
      /\ \A p \in Peer : call'[p] = call[p]
  BY <1>1, <1>2, CallFacts, ActorFacts
<1>6. /\ m \in tickets'
      /\ \A j \in tickets' : j = m \/ (j \in tickets /\ j # k)
      /\ \A j \in tickets : j \in tickets' \/ j = k
  BY <1>2
<1>7. TicketNumbers'
  <2>1. \A j \in tickets' : j.serial = k.serial => j = m
    BY <1>4, <1>6 DEF Registrations, Numbers, TicketNumbers
  <2>2. QED
    BY <1>2, <1>4, <1>6, <2>1 DEF Registrations, Numbers, TicketNumbers
<1>8. MakingNumbers'
  <2>1. ASSUME NEW u \in Rest, Making(u)'
        PROVE  u # t /\ call'[u] = call[u] /\ Making(u)
    BY <1>3, <1>5, <2>1 DEF Making
  <2>2. QED
    BY <1>2, <1>4, <1>6, <2>1 DEF Registrations, Numbers, MakingNumbers
<1>9. Sessions'
  <2>1. \A n, s : Knows(n, s) => Knows(n, s)'
    BY <1>4, <1>6 DEF Knows
  <2>2. Knows(k.name, k.serial)'
    BY <1>4, <1>6 DEF Knows
  <2>3. ASSUME NEW u \in Rest, ~Making(u)', call'[u].at # "idle"
        PROVE  Knows(call[u].name, call[u].serial)'
    <3>1. CASE u = t
      BY <1>3, <1>5, <2>2, <3>1 DEF Knows
    <3>2. CASE u # t
      <4>1. call'[u] = call[u] /\ ~Making(u)
        BY <1>5, <2>3, <3>2 DEF Making
      <4>2. QED
        BY <2>1, <2>3, <4>1 DEF Registrations, Sessions
    <3>3. QED
      BY <3>1, <3>2
  <2>4. ASSUME NEW p \in Peer
        PROVE  /\ session'[p] # 0 => \E j \in tickets' : j.serial = session'[p]
               /\ bears'[p] # NoName => Knows(bears[p], session[p])'
               /\ call'[p].at = "handling" /\ bears'[p] = NoName =>
                     Knows(call[p].name, session[p])'
    BY <1>2, <1>4, <1>5, <1>6, <2>1 DEF Registrations, Sessions
  <2>5. \A p, q \in Peer : session'[p] = session'[q] /\ session'[p] # 0 => p = q
    BY <1>2 DEF Registrations, Sessions
  <2>6. QED
    BY <2>3, <2>4, <2>5 DEF Sessions
<1>10. SlotNumbers'
  BY <1>2, SlotsKept
<1>11. QED
  BY <1>7, <1>8, <1>9, <1>10 DEF Registrations, Numbers

(* Numbers do not change when no registration is made, asked for or left.   *)
LEMMA NumbersKept ==
    ASSUME Registrations, UNCHANGED <<services, tickets, count>>,
           \A t \in Rest : Making(t)' => Making(t) /\ call'[t] = call[t]
    PROVE  Numbers'
<1>1. MakingNumbers'
  BY DEF Registrations, Numbers, MakingNumbers
<1>2. TicketNumbers'
  BY DEF Registrations, Numbers, TicketNumbers
<1>3. QED
  BY <1>1, <1>2, SlotsKept DEF Numbers

(* A peer is in a session, or has a name, now. *)
LEMMA SessionsKept ==
    ASSUME Sessions, NEW p \in Peer, UNCHANGED tickets,
           \A t \in Rest : call'[t].at \notin {"idle", "gen", "assign", "answer"} =>
              Knows(call'[t].name, call'[t].serial),
           \A q \in Peer : q # p =>
              /\ session'[q] = session[q] /\ bears'[q] = bears[q]
              /\ call'[q] = call[q],
           session'[p] # 0 => \E k \in tickets : k.serial = session'[p],
           session'[p] # 0 => \A q \in Peer : q # p => session[q] # session'[p],
           bears'[p] # NoName => Knows(bears'[p], session'[p]),
           call'[p].at = "handling" /\ bears'[p] = NoName =>
              Knows(call'[p].name, session'[p])
    PROVE  Sessions'
<1>1. \A n, s : Knows(n, s)' <=> Knows(n, s)
  BY DEF Knows
<1>2. ASSUME NEW q \in Peer
      PROVE  /\ session'[q] # 0 => \E k \in tickets' : k.serial = session'[q]
             /\ bears'[q] # NoName => Knows(bears[q], session[q])'
             /\ call'[q].at = "handling" /\ bears'[q] = NoName =>
                   Knows(call[q].name, session[q])'
  BY <1>1 DEF Sessions
<1>3. \A q, r \in Peer : session'[q] = session'[r] /\ session'[q] # 0 => q = r
  BY DEF Sessions
<1>4. QED
  BY <1>1, <1>2, <1>3 DEF Sessions, Making

LEMMA BeginSyncRegistrations ==
    ASSUME Calls, Registrations, NEW t \in Rest, NEW k \in tickets, NEW p \in Dialers,
           BeginSync(t, k, p)
    PROVE  Registrations'
<1> DEFINE c == [Idle EXCEPT !.at = "begin", !.name = k.name,
                             !.serial = k.serial, !.peer = p]
           d == [call[p] EXCEPT !.at = "listed"]
<1>1. /\ TypeOK /\ t \in Actor /\ p \in Peer /\ p \in Actor /\ p # t
      /\ call[p] \in Call /\ call \in [Actor -> Call]
      /\ call[p].at = "new"
  BY ActorFacts, HereFacts DEF Calls, BeginSync
<1>2. c.at = "begin" /\ c.name = k.name /\ c.serial = k.serial /\ d.at = "listed"
  BY <1>1 DEF Idle, Call
<1>3. /\ call' = [call EXCEPT ![t] = c, ![p] = d] /\ ~Served(k.serial)
      /\ session' = [session EXCEPT ![p] = k.serial]
      /\ UNCHANGED <<services, bears, tickets, count>>
  BY <1>1 DEF BeginSync
<1> HIDE DEF c, d
<1>4. /\ call'[t] = c /\ call'[p] = d
      /\ \A q \in Peer : q # p => call'[q] = call[q]
      /\ \A u \in Rest : u # t => call'[u] = call[u]
  BY <1>1, <1>3, ActorFacts
<1>5. /\ session'[p] = k.serial /\ bears[p] = NoName
      /\ \A q \in Peer : q # p => session'[q] = session[q]
      /\ \A q \in Peer : session[q] # k.serial
  BY <1>1, <1>3 DEF Calls, PeerCalls, TypeOK, Served
<1>6. Numbers'
  BY <1>2, <1>3, <1>4, NumbersKept DEF Making
<1>7. Sessions'
  <2>1. Knows(c.name, c.serial)
    BY <1>2 DEF Knows
  <2>2. ASSUME NEW u \in Rest, call'[u].at \notin {"idle", "gen", "assign", "answer"}
        PROVE  Knows(call'[u].name, call'[u].serial)
    BY <1>4, <2>1, <2>2, KnownFacts
  <2>3. \E m \in tickets : m.serial = session'[p]
    BY <1>5
  <2>4. Sessions /\ bears'[p] = NoName /\ call'[p].at # "handling"
        /\ \A q \in Peer : q # p => /\ session'[q] = session[q]
                                    /\ bears'[q] = bears[q]
                                    /\ call'[q] = call[q]
        /\ \A r \in Peer : session[r] # session'[p]
    BY <1>2, <1>3, <1>4, <1>5 DEF Registrations
  <2>5. p \in Peer /\ tickets' = tickets
    BY <1>1, <1>3
  <2>6. QED
    BY <2>2, <2>3, <2>4, <2>5, SessionsKept
<1>8. QED
  BY <1>6, <1>7 DEF Registrations

LEMMA StartRegistrations ==
    ASSUME Calls, Registrations, NEW t \in Rest, Start(t)
    PROVE  Registrations'
<1> DEFINE p == call[t].peer
<1>1. /\ TypeOK /\ t \in Actor /\ call[t].at = "begin" /\ call \in [Actor -> Call]
      /\ p \in Peer /\ p \in Actor /\ p # t /\ session[p] = call[t].serial
  BY ActorFacts, HereFacts DEF Calls, Start, Beginning
<1>2. PICK next \in {"connecting", "failed"} :
         call' = [call EXCEPT ![t] = Idle, ![p].at = next]
  BY DEF Start
<1> DEFINE d == [call[p] EXCEPT !.at = next]
<1>3. d.at = next
  BY <1>1, HereFacts DEF Call
<1>4. /\ call' = [call EXCEPT ![t] = Idle, ![p] = d]
      /\ bears' = [bears EXCEPT ![p] = call[t].name]
      /\ UNCHANGED <<services, session, tickets, count>>
  BY <1>1, <1>2 DEF Start
<1> HIDE DEF d, p
<1>5. /\ call'[t] = Idle /\ call'[p] = d
      /\ \A q \in Peer : q # p => call'[q] = call[q]
      /\ \A u \in Rest : u # t => call'[u] = call[u]
  BY <1>1, <1>4, ActorFacts
<1>6. /\ bears'[p] = call[t].name /\ Knows(call[t].name, session[p])
      /\ \A q \in Peer : q # p => bears'[q] = bears[q]
  BY <1>1, <1>4, KnownFacts DEF TypeOK
<1>7. Numbers'
  BY <1>4, <1>5, IdleFacts, NumbersKept DEF Making
<1>8. Sessions'
  <2>1. ASSUME NEW u \in Rest, call'[u].at \notin {"idle", "gen", "assign", "answer"}
        PROVE  Knows(call'[u].name, call'[u].serial)
    BY <1>5, <2>1, IdleFacts, KnownFacts
  <2>2. /\ session[p] # 0 => \E k \in tickets : k.serial = session[p]
        /\ session[p] # 0 => \A q \in Peer : q # p => session[q] # session[p]
    BY <1>1 DEF Registrations, Sessions
  <2>3. d.at # "handling"
    BY <1>3
  <2>4. QED
    BY <1>1, <1>4, <1>5, <1>6, <2>1, <2>2, <2>3, SessionsKept DEF Registrations
<1>9. QED
  BY <1>7, <1>8 DEF Registrations

LEMMA OnReadInitRegistrations ==
    ASSUME Calls, Registrations, NEW p \in Peer, NEW k \in tickets, OnReadInit(p, k)
    PROVE  Registrations'
<1> DEFINE d == [call[p] EXCEPT !.at = "handling", !.name = k.name]
<1>1. /\ TypeOK /\ p \in Actor /\ call[p] \in Call /\ call \in [Actor -> Call]
  BY PeerFacts, HereFacts
<1>2. d.at = "handling" /\ d.name = k.name
  BY <1>1 DEF Call
<1>3. /\ SetCall(p, d) /\ session' = [session EXCEPT ![p] = k.serial]
      /\ UNCHANGED <<services, bears, tickets, count>>
      /\ bears[p] = NoName /\ ~Served(k.serial)
  BY DEF OnReadInit
<1> HIDE DEF d
<1>4. /\ call'[p] = d
      /\ \A q \in Peer : q # p => call'[q] = call[q]
      /\ \A u \in Rest : call'[u] = call[u]
  BY <1>1, <1>3, CallFacts, ActorFacts
<1>5. /\ session'[p] = k.serial
      /\ \A q \in Peer : q # p => session'[q] = session[q] /\ bears'[q] = bears[q]
      /\ \A q \in Peer : session[q] # k.serial
  BY <1>1, <1>3 DEF TypeOK, Served
<1>6. Numbers'
  BY <1>3, <1>4, NumbersKept DEF Making
<1>7. Sessions'
  <2>1. Knows(d.name, session'[p]) /\ \E m \in tickets : m.serial = session'[p]
    BY <1>2, <1>5 DEF Knows
  <2>2. ASSUME NEW u \in Rest, call'[u].at \notin {"idle", "gen", "assign", "answer"}
        PROVE  Knows(call'[u].name, call'[u].serial)
    BY <1>4, <2>2, KnownFacts
  <2>3. Sessions
    BY DEF Registrations
  <2>4. QED
    BY <1>3, <1>4, <1>5, <2>1, <2>2, <2>3, SessionsKept
<1>8. QED
  BY <1>6, <1>7 DEF Registrations

LEMMA OnInitRegistrations ==
    ASSUME Calls, Registrations, NEW p \in Peer, OnInit(p)
    PROVE  Registrations'
<1>1. /\ TypeOK /\ p \in Actor /\ call[p] \in Call /\ call \in [Actor -> Call]
  BY PeerFacts, HereFacts
<1>2. /\ SetCall(p, Resumed(p)) /\ bears' = [bears EXCEPT ![p] = call[p].name]
      /\ UNCHANGED <<services, session, tickets, count>>
      /\ bears[p] = NoName /\ call[p].at = "handling"
  BY DEF OnInit
<1>3. /\ call'[p].at # "handling"
      /\ \A q \in Peer : q # p => call'[q] = call[q]
      /\ \A u \in Rest : call'[u] = call[u]
  BY <1>1, <1>2, CallFacts, ActorFacts, ResumedFacts
<1>4. /\ bears'[p] = call[p].name
      /\ \A q \in Peer : q # p => session'[q] = session[q] /\ bears'[q] = bears[q]
  BY <1>1, <1>2 DEF TypeOK
<1>5. Numbers'
  BY <1>2, <1>3, NumbersKept DEF Making
<1>6. Sessions'
  <2>1. /\ Knows(bears'[p], session'[p])
        /\ session'[p] # 0 => \E k \in tickets : k.serial = session'[p]
        /\ session'[p] # 0 => \A q \in Peer : q # p => session[q] # session'[p]
    BY <1>2, <1>4 DEF Registrations, Sessions
  <2>2. ASSUME NEW u \in Rest, call'[u].at \notin {"idle", "gen", "assign", "answer"}
        PROVE  Knows(call'[u].name, call'[u].serial)
    BY <1>3, <2>2, KnownFacts
  <2>3. Sessions
    BY DEF Registrations
  <2>4. QED
    BY <1>2, <1>3, <1>4, <2>1, <2>2, <2>3, SessionsKept
<1>7. QED
  BY <1>5, <1>6 DEF Registrations

LEMMA AddKeySlots ==
    ASSUME Calls, Registrations, NEW p \in Peer, AddKey(p)
    PROVE  SlotNumbers'
<1>1. services' = [services EXCEPT ![call[p].index].data = @ \union {call[p].serial}]
  BY DEF AddKey, Written
<1>2. call[p].serial \in Serial /\ services \in Seq(Slot) /\ count' = count
  <2>1. bears[p] # NoName /\ call[p].serial = session[p]
    BY DEF Calls, PeerCalls, AddKey
  <2>2. QED
    BY <2>1, PeerFacts, HereFacts, TicketSerial DEF AddKey
<1>3. /\ DOMAIN services' = DOMAIN services
      /\ \A i \in DOMAIN services : services'[i].serial = services[i].serial
  BY <1>1, <1>2, Writing
<1>4. QED
  BY <1>2, <1>3, SlotsWritten

LEMMA PeerRegistrations ==
    ASSUME Calls, Registrations, NEW p \in Peer,
           \/ Accept(p) \/ StartAccepted(p) \/ OnConnectOk(p) \/ OnConnectErr(p)
           \/ OnRead(p) \/ OnReadError(p) \/ OnMessage(p) \/ OnKey(p) \/ AddKey(p)
    PROVE  Registrations'
<1>1. /\ TypeOK /\ p \in Actor /\ call[p] \in Call /\ p \notin Rest
      /\ Resumed(p).at # "handling"
  BY PeerFacts, ActorFacts, ResumedFacts
<1>2. CASE \/ Accept(p) \/ StartAccepted(p) \/ OnConnectErr(p) \/ OnReadError(p)
           \/ OnRead(p)
  <2>1. PICK x \in {"listed", "reading", "remove", "stop", "handling"}, e \in BOOLEAN :
           /\ SetCall(p, [call[p] EXCEPT !.at = x, !.early = e])
           /\ x = "handling" => bears[p] # NoName
    <3>1. call[p].early \in BOOLEAN
      BY <1>1 DEF Call
    <3>2. \A x : [call[p] EXCEPT !.at = x] =
                    [call[p] EXCEPT !.at = x, !.early = call[p].early]
      BY <1>1 DEF Call
    <3>3. QED
      BY <1>2, <3>1, <3>2 DEF Accept, StartAccepted, OnConnectErr, OnReadError, OnRead
  <2> DEFINE c == [call[p] EXCEPT !.at = x, !.early = e]
  <2>2. c.at = x
    BY <1>1 DEF Call
  <2>3. SetCall(p, c)
    BY <2>1
  <2>4. UNCHANGED <<services, tickets, count, session, bears>>
    BY <1>2 DEF Accept, StartAccepted, OnConnectErr, OnReadError, OnRead, peerVars
  <2> HIDE DEF c
  <2>5. QED
    BY <1>1, <2>1, <2>2, <2>3, <2>4, SlotsKept, RegistrationsKept
<1>3. CASE OnConnectOk(p) \/ OnMessage(p)
  BY <1>1, <1>3, SlotsKept, RegistrationsKept DEF OnConnectOk, OnMessage, peerVars
<1>4. CASE OnKey(p)
  <2>1. PICK c : SetCall(p, c) /\ c.at # "handling"
    <3>1. \A i, s : [call[p] EXCEPT !.at = "append", !.serial = s, !.index = i].at
                       = "append"
      BY <1>1 DEF Call
    <3>2. QED
      BY <1>1, <1>4, <3>1 DEF OnKey
  <2>2. UNCHANGED <<services, tickets, count, session, bears>>
    BY <1>4 DEF OnKey, peerVars
  <2>3. QED
    BY <1>1, <2>1, <2>2, SlotsKept, RegistrationsKept
<1>5. CASE AddKey(p)
  BY <1>1, <1>5, AddKeySlots, RegistrationsKept DEF AddKey, peerVars
<1>6. QED
  BY <1>2, <1>3, <1>4, <1>5

LEMMA StopRegistrations ==
    ASSUME Calls, Registrations, NEW a \in Actor, StopContinues(a)
    PROVE  Registrations'
<1>1. /\ TypeOK /\ call[a] \in Call /\ services \in Seq(Slot)
      /\ call[a].at \in {"stop", "unlist", "remove", "erase"}
  BY HereFacts DEF Calls, StopContinues, Stop, Unlist, RemoveService, Erase
<1>2. a \in Rest => Knows(call[a].name, call[a].serial) /\ ~call[a].early
  BY <1>1, KnownFacts DEF Calls, RestCalls
<1>3. /\ a \in Rest => /\ Stopped(a).at = "exit" /\ Stopped(a).name = call[a].name
                       /\ Stopped(a).serial = call[a].serial
      /\ a \in Peer => Stopped(a).at = "gone"
      /\ Stopped(a) \in Call
  BY StoppedFacts
<1>4. /\ a \in Rest => /\ Returned(a).at = "exit" /\ Returned(a).name = call[a].name
                       /\ Returned(a).serial = call[a].serial
      /\ a \in Peer => Returned(a).at \in {"gone", "stop"}
  <2>1. CASE call[a].early
    BY <1>2, <2>1, ActorFacts DEF Returned, Idle
  <2>2. CASE ~call[a].early
    BY <1>3, <2>2, ActorFacts DEF Returned, Call
  <2>3. QED
    BY <2>1, <2>2
<1>5. PICK c : /\ SetCall(a, c)
               /\ a \in Rest => /\ c.at \in {"exit", "unlist", "remove", "erase"}
                                /\ c.name = call[a].name /\ c.serial = call[a].serial
               /\ a \in Peer => c.at # "handling"
  <2>1. ASSUME NEW x \in {"unlist", "remove"}
        PROVE  LET c == [call[a] EXCEPT !.at = x]
               IN  c.at = x /\ c.name = call[a].name /\ c.serial = call[a].serial
    BY <1>1 DEF Call
  <2>2. ASSUME NEW i
        PROVE  LET c == [call[a] EXCEPT !.at = "erase", !.index = i]
               IN  /\ c.at = "erase" /\ c.name = call[a].name
                   /\ c.serial = call[a].serial
    BY <1>1 DEF Call
  <2>3. CASE Stop(a)
    <3>1. CASE started[call[a].peer]
      BY <2>1, <2>3, <3>1 DEF Stop
    <3>2. CASE ~started[call[a].peer]
      BY <1>3, <2>3, <3>2 DEF Stop
    <3>3. QED
      BY <3>1, <3>2
  <2>4. CASE Unlist(a)
    BY <2>1, <2>4 DEF Unlist
  <2>5. CASE RemoveService(a)
    BY <1>4, <2>2, <2>5 DEF RemoveService
  <2>6. CASE Erase(a)
    BY <1>4, <2>6 DEF Erase
  <2>7. QED
    BY <2>3, <2>4, <2>5, <2>6 DEF StopContinues
<1>6. UNCHANGED <<tickets, count, session, bears>>
  BY DEF StopContinues, Stop, Unlist, RemoveService, Erase, peerVars
<1>7. SlotNumbers'
  <2>1. CASE services' = services
    BY <1>6, <2>1, SlotsKept
  <2>2. CASE /\ call[a].index \in DOMAIN services
             /\ services' = RemoveAt(services, call[a].index)
    <3> DEFINE n == call[a].index
    <3>1. Len(services) \in Nat /\ DOMAIN services = 1 .. Len(services) /\ n \in Nat
      BY <1>1, <2>2, SlotFacts
    <3>2. /\ DOMAIN services' = 1 .. Len(services) - 1
          /\ \A j \in DOMAIN services' :
                services'[j] = IF j < n THEN services[j] ELSE services[j + 1]
      BY <1>1, <2>2, Erasing
    <3>3. ASSUME NEW j \in DOMAIN services'
          PROVE  \E i \in DOMAIN services : /\ services'[j] = services[i]
                                            /\ i = IF j < n THEN j ELSE j + 1
      BY <3>1, <3>2
    <3>4. ASSUME NEW i \in DOMAIN services', NEW j \in DOMAIN services',
                 services'[i].serial = services'[j].serial
          PROVE  i = j
      <4>1. (IF i < n THEN i ELSE i + 1) = (IF j < n THEN j ELSE j + 1)
        BY <3>3, <3>4 DEF Registrations, Numbers, SlotNumbers
      <4>2. QED
        BY <3>1, <3>2, <4>1
    <3>5. QED
      BY <1>6, <3>3, <3>4 DEF Registrations, Numbers, SlotNumbers
  <2>3. QED
    BY <2>1, <2>2 DEF StopContinues, Stop, Unlist, RemoveService, Erase
<1>8. a \in Rest => /\ c.at \in {"gen", "assign", "answer"} =>
                          Making(a) /\ c.serial = call[a].serial
                    /\ c.at \notin {"idle", "gen", "assign", "answer"} =>
                          Knows(c.name, c.serial)
  BY <1>2, <1>5
<1>9. SetCall(a, c) /\ (a \in Peer /\ c.at = "handling" => bears[a] # NoName)
  BY <1>5
<1>10. QED
  BY <1>6, <1>7, <1>8, <1>9, RegistrationsKept

LEMMA InitRegistrations == Init => Registrations
<1> SUFFICES ASSUME Init PROVE Registrations
  OBVIOUS
<1>1. /\ services = <<>> /\ tickets = {}
      /\ \A p \in Peer : bears[p] = NoName /\ session[p] = 0
  BY DEF Init
<1> DOMAIN services = {}
  BY <1>1, EmptySeq, SlotFacts
<1>2. \A t \in Rest : call[t].at = "idle"
  BY ActorFacts, IdleFacts DEF Init
<1>3. \A p \in Peer : call[p].at = "new"
  BY ActorFacts, IdleFacts DEF Init, Idle
<1>4. QED
  BY <1>1, <1>2, <1>3 DEF Registrations, Numbers, SlotNumbers, TicketNumbers,
     MakingNumbers, Making, Sessions

-----------------------------------------------------------------------------
(* The first two layers, and what they give.                               *)

LEMMA CallsStep ==
    ASSUME Calls, Registrations, Next
    PROVE  Calls' /\ Registrations'
<1>1. ASSUME NEW t \in Rest, Request(t)
      PROVE  Calls' /\ Registrations'
  <2>1. ASSUME NEW n \in Asked, NewService(t, n)
        PROVE  Calls' /\ Registrations'
    BY <2>1, NewServiceCalls, NewServiceRegistrations
  <2>2. ASSUME NEW k \in tickets, UpdatePartner(t, k)
        PROVE  Calls' /\ Registrations'
    BY <2>2, UpdatePartnerCalls, RestRegistrations
  <2>3. ASSUME NEW k \in tickets, NEW p \in Dialers, BeginSync(t, k, p)
        PROVE  Calls' /\ Registrations'
    BY <2>3, BeginSyncCalls, BeginSyncRegistrations
  <2>4. ASSUME NEW k \in tickets, Leave(t, k)
        PROVE  Calls' /\ Registrations'
    BY <2>4, LeaveCalls, LeaveRegistrations
  <2>5. QED
    BY <1>1, <2>1, <2>2, <2>3, <2>4 DEF Request
<1>2. ASSUME NEW t \in Rest, RestContinues(t)
      PROVE  Calls' /\ Registrations'
  <2>1. CASE GenName(t)
    BY <2>1, GenNameCalls, RestRegistrations
  <2>2. CASE Assign(t)
    BY <2>2, AssignCalls, RestRegistrations
  <2>3. CASE Answer(t)
    BY <2>3, AnswerCalls, AnswerRegistrations
  <2>4. CASE WritePartner(t)
    BY <2>4, WritePartnerCalls, RestRegistrations
  <2>5. CASE Start(t)
    BY <2>5, StartCalls, StartRegistrations
  <2>6. CASE NextPeer(t)
    BY <2>6, NextPeerCalls, RestRegistrations
  <2>7. CASE Left(t)
    BY <2>7, LeftCalls, RestRegistrations
  <2>8. QED
    BY <1>2, <2>1, <2>2, <2>3, <2>4, <2>5, <2>6, <2>7 DEF RestContinues
<1>3. ASSUME NEW p \in Peer, Event(p)
      PROVE  Calls' /\ Registrations'
  <2>1. CASE p \in Listeners /\ Accept(p)
    BY <2>1, AcceptCalls, PeerRegistrations
  <2>2. CASE OnRead(p) \/ OnReadError(p)
    BY <2>2, OnReadCalls, PeerRegistrations
  <2>3. ASSUME NEW k \in tickets, OnReadInit(p, k)
        PROVE  Calls' /\ Registrations'
    BY <2>3, OnReadInitCalls, OnReadInitRegistrations
  <2>4. QED
    BY <1>3, <2>1, <2>2, <2>3 DEF Event
<1>4. ASSUME NEW p \in Peer, PeerContinues(p)
      PROVE  Calls' /\ Registrations'
  <2>1. CASE StartAccepted(p)
    BY <2>1, StartAcceptedCalls, PeerRegistrations
  <2>2. CASE OnConnectOk(p) \/ OnConnectErr(p)
    BY <2>2, OnConnectCalls, PeerRegistrations
  <2>3. CASE OnInit(p)
    BY <2>3, OnInitCalls, OnInitRegistrations
  <2>4. CASE OnMessage(p)
    BY <2>4, OnMessageCalls, PeerRegistrations
  <2>5. CASE OnKey(p)
    BY <2>5, OnKeyCalls, PeerRegistrations
  <2>6. CASE AddKey(p)
    BY <2>6, AddKeyCalls, PeerRegistrations
  <2>7. QED
    BY <1>4, <2>1, <2>2, <2>3, <2>4, <2>5, <2>6 DEF PeerContinues
<1>5. ASSUME NEW a \in Actor, StopContinues(a)
      PROVE  Calls' /\ Registrations'
  <2>1. Calls'
    BY <1>5, StopCalls, UnlistCalls, RemoveServiceCalls, EraseCalls DEF StopContinues
  <2>2. QED
    BY <1>5, <2>1, StopRegistrations
<1>6. QED
  BY <1>1, <1>2, <1>3, <1>4, <1>5 DEF Next

LEMMA CallsStutter ==
    ASSUME UNCHANGED vars
    PROVE  /\ Calls => Calls'
           /\ Registrations => Registrations'
<1>1. UNCHANGED <<services, peers, started, bears, session, call, tickets, count,
                  overlap, reused, met>>
  BY DEF vars, peerVars
<1>2. Calls => Calls'
  BY <1>1 DEF Calls, TypeOK, RestCalls, Beginning, PeerCalls, Reached, Stops,
     Stopping, ErasesItself, Unlisted, DueAhead
<1>3. Registrations => Registrations'
  BY <1>1 DEF Registrations, Numbers, SlotNumbers, TicketNumbers, MakingNumbers,
     Making, Sessions, Knows
<1>4. QED
  BY <1>2, <1>3

LEMMA CallsInvariant == Spec => [](Calls /\ Registrations)
<1>1. Init => Calls /\ Registrations
  BY InitCalls, InitRegistrations
<1>2. Calls /\ Registrations /\ [Next]_vars => (Calls /\ Registrations)'
  BY CallsStep, CallsStutter
<1>3. QED
  BY <1>1, <1>2, PTL DEF Spec

(* The state has the types that TypeOK gives it.                            *)
THEOREM ServerTypeCorrect == Spec => []TypeOK
  BY CallsInvariant, PTL DEF Calls

(* peer::stop always finds the peer that it erases from the list            *)
(* (peer.cpp:71-72), whoever else stops it.                                *)
THEOREM StopErasesItself == Spec => []ErasesItself
  BY CallsInvariant, PTL DEF Calls

(* What another actor does does not change the call of a. *)
LEMMA OthersCalls ==
    ASSUME Calls, NEW a \in Actor, NEW b, NEW c, SetCall(b, c), b # a
    PROVE  call'[a] = call[a]
  BY ActorFacts DEF SetCall, Calls, TypeOK

(* Each thread gets through its calls by itself... *)
LEMMA OwnSteps ==
    ASSUME Calls, Next, NEW t \in Rest, call'[t] # call[t]
    PROVE  Request(t) \/ RestContinues(t) \/ StopContinues(t)
<1>1. call[t] \in Call /\ call \in [Actor -> Call] /\ t \in Actor /\ t \notin Peer
  BY ActorFacts, HereFacts DEF Calls
<1>2. ASSUME NEW u \in Rest, Request(u) \/ RestContinues(u), u # t
      PROVE  FALSE
  <2>1. CASE \/ \E n \in Asked : NewService(u, n)
             \/ \E k \in tickets : UpdatePartner(u, k) \/ Leave(u, k)
             \/ GenName(u) \/ Assign(u) \/ Answer(u) \/ WritePartner(u)
             \/ NextPeer(u) \/ Left(u)
    <3>1. \E c : SetCall(u, c)
      BY <2>1 DEF NewService, UpdatePartner, Leave, GenName, Assign, Answer,
         WritePartner, NextPeer, Left
    <3>2. QED
      BY <1>1, <1>2, <3>1, OthersCalls
  <2>2. ASSUME NEW k \in tickets, NEW p \in Dialers, BeginSync(u, k, p)
        PROVE  FALSE
    <3>1. p # t
      BY <1>1, ActorFacts
    <3>2. call'[t] = call[t]
      BY <1>1, <1>2, <2>2, <3>1 DEF BeginSync
    <3>3. QED
      BY <3>2
  <2>3. CASE Start(u)
    <3>1. call[u].peer # t
      BY <1>1, <2>3, ActorFacts DEF Start, Calls, Beginning
    <3>2. call'[t] = call[t]
      BY <1>1, <1>2, <2>3, <3>1 DEF Start
    <3>3. QED
      BY <3>2
  <2>4. QED
    BY <1>2, <2>1, <2>2, <2>3 DEF Request, RestContinues
<1>3. ASSUME NEW p \in Peer, Event(p) \/ PeerContinues(p)
      PROVE  FALSE
  <2>1. \E c : SetCall(p, c)
    BY <1>3 DEF Event, PeerContinues, Accept, OnRead, OnReadInit, OnReadError,
       StartAccepted, OnConnectOk, OnConnectErr, OnInit, OnMessage, OnKey, AddKey
  <2>2. QED
    BY <1>1, <2>1, OthersCalls
<1>4. ASSUME NEW a \in Actor, StopContinues(a)
      PROVE  a = t
  <2>1. \E c : SetCall(a, c)
    BY <1>4 DEF StopContinues, Stop, Unlist, RemoveService, Erase
  <2>2. QED
    BY <1>1, <2>1, OthersCalls
<1>5. QED
  BY <1>2, <1>3, <1>4 DEF Next

(* ... and a peer that has been started, too. *)
LEMMA OwnEvents ==
    ASSUME Calls, Next, NEW p \in Peer, call'[p] # call[p],
           call[p].at \notin {"new", "listed"}
    PROVE  Event(p) \/ PeerContinues(p) \/ StopContinues(p)
<1>1. call[p] \in Call /\ call \in [Actor -> Call] /\ p \in Actor /\ p \notin Rest
  BY ActorFacts, HereFacts DEF Calls
<1>2. ASSUME NEW u \in Rest, Request(u) \/ RestContinues(u)
      PROVE  FALSE
  <2>1. CASE \/ \E n \in Asked : NewService(u, n)
             \/ \E k \in tickets : UpdatePartner(u, k) \/ Leave(u, k)
             \/ GenName(u) \/ Assign(u) \/ Answer(u) \/ WritePartner(u)
             \/ NextPeer(u) \/ Left(u)
    <3>1. u # p /\ \E c : SetCall(u, c)
      BY <1>1, <2>1 DEF NewService, UpdatePartner, Leave, GenName, Assign, Answer,
         WritePartner, NextPeer, Left
    <3>2. QED
      BY <1>1, <3>1, OthersCalls
  <2>2. ASSUME NEW k \in tickets, NEW q \in Dialers, BeginSync(u, k, q)
        PROVE  FALSE
    <3>1. p # q /\ p # u
      BY <1>1, <2>2 DEF BeginSync
    <3>2. call'[p] = call[p]
      BY <1>1, <2>2, <3>1 DEF BeginSync
    <3>3. QED
      BY <3>2
  <2>3. CASE Start(u)
    <3>1. call[u].peer # p /\ p # u
      BY <1>1, <2>3 DEF Start, Calls, Beginning
    <3>2. call'[p] = call[p]
      BY <1>1, <2>3, <3>1 DEF Start
    <3>3. QED
      BY <3>2
  <2>4. QED
    BY <1>2, <2>1, <2>2, <2>3 DEF Request, RestContinues
<1>3. ASSUME NEW q \in Peer, Event(q) \/ PeerContinues(q)
      PROVE  q = p
  <2>1. \E c : SetCall(q, c)
    BY <1>3 DEF Event, PeerContinues, Accept, OnRead, OnReadInit, OnReadError,
       StartAccepted, OnConnectOk, OnConnectErr, OnInit, OnMessage, OnKey, AddKey
  <2>2. QED
    BY <1>1, <2>1, OthersCalls
<1>4. ASSUME NEW a \in Actor, StopContinues(a)
      PROVE  a = p
  <2>1. \E c : SetCall(a, c)
    BY <1>4 DEF StopContinues, Stop, Unlist, RemoveService, Erase
  <2>2. QED
    BY <1>1, <2>1, OthersCalls
<1>5. QED
  BY <1>2, <1>3, <1>4 DEF Next

(* stop_sync takes one peer off its copy, and stops it or goes on.          *)
LEMMA NextPeerFacts ==
    ASSUME Calls, NEW t \in Rest, NextPeer(t)
    PROVE  \E p \in call[t].left :
              /\ call'[t].left = call[t].left \ {p}
              /\ call'[t].at \in {"stop", "exit"}
<1>1. call[t] \in Call /\ call \in [Actor -> Call] /\ t \in Actor /\ call[t].at = "exit"
  BY ActorFacts, HereFacts DEF Calls, NextPeer
<1>2. PICK p \in call[t].left : SetCall(t, [call[t] EXCEPT
                     !.left = @ \ {p},
                     !.at   = IF bears[p] = call[t].name THEN "stop" ELSE @,
                     !.peer = IF bears[p] = call[t].name THEN p ELSE @])
  BY DEF NextPeer
<1>3. call'[t] = [call[t] EXCEPT
                     !.left = @ \ {p},
                     !.at   = IF bears[p] = call[t].name THEN "stop" ELSE @,
                     !.peer = IF bears[p] = call[t].name THEN p ELSE @]
  BY <1>1, <1>2 DEF SetCall
<1>4. call'[t].left = call[t].left \ {p} /\ call'[t].at \in {"stop", "exit"}
  BY <1>1, <1>3 DEF Call
<1>5. QED
  BY <1>4

(* stop_sync returns when nothing is left of its copy of the list. *)
LEMMA ExitEnds ==
    ASSUME Calls, [Next]_vars, NEW t \in Rest,
           call[t].at = "exit", call'[t].at = "idle"
    PROVE  call[t].left = {}
<1>1. call'[t] # call[t] /\ Next
  BY DEF vars
<1>2. Request(t) \/ RestContinues(t) \/ StopContinues(t)
  BY <1>1, OwnSteps
<1>3. NextPeer(t) \/ Left(t)
  BY <1>2 DEF Request, RestContinues, NewService, UpdatePartner, BeginSync, Leave,
     GenName, Assign, Answer, WritePartner, Start, StopContinues, Stop, Unlist,
     RemoveService, Erase
<1>4. ~NextPeer(t)
  BY NextPeerFacts
<1>5. QED
  BY <1>3, <1>4 DEF Left

(* When /exit answers, the peers that were running for the service when it  *)
(* was called have been stopped.                                           *)
THEOREM ExitStopsAll == Spec => ExitStops
<1>1. Calls /\ [Next]_vars =>
         [\A t \in Rest :
             call[t].at = "exit" /\ call[t].name # NoName /\ call'[t].at = "idle" =>
                \A p \in call[t].due : ~started[p]]_vars
  <2>1. ASSUME Calls, [Next]_vars, NEW t \in Rest, NEW p \in call[t].due,
               call[t].at = "exit", call[t].name # NoName, call'[t].at = "idle"
        PROVE  ~started[p]
    <3>1. call[t].left = {}
      BY <2>1, ExitEnds
    <3>2. QED
      BY <2>1, <3>1 DEF Calls, DueAhead
  <2>2. QED
    BY <2>1
<1>2. QED
  BY <1>1, CallsInvariant, PTL DEF Spec, ExitStops

-----------------------------------------------------------------------------
(* Requests, and peers that have been stopped, end after a bounded number   *)
(* of steps.                                                               *)

(* Only so many peers are ever listed or copied, however many there may be. *)
CopiesFinite == /\ IsFiniteSet(peers)
                /\ \A t \in Rest : IsFiniteSet(call[t].left)

(* What a step of a call of stop leaves behind. *)
LEMMA StopMoves ==
    ASSUME Calls, NEW a \in Actor, StopContinues(a)
    PROVE  /\ a \in Rest => /\ call'[a].left = call[a].left
                            /\ <<call[a].at, call'[a].at>> \in
                                  {<<"stop", "unlist">>, <<"stop", "exit">>,
                                   <<"unlist", "remove">>, <<"remove", "erase">>,
                                   <<"remove", "exit">>, <<"erase", "exit">>}
           /\ a \in Peer /\ ~started[a] =>
                 <<call[a].at, call'[a].at>> \in
                    {<<"stop", "gone">>, <<"unlist", "remove">>, <<"remove", "erase">>,
                     <<"remove", "stop">>, <<"remove", "gone">>,
                     <<"erase", "stop">>, <<"erase", "gone">>}
<1>1. /\ call[a] \in Call /\ call \in [Actor -> Call]
      /\ a \in Rest => a \notin Peer /\ ~call[a].early
      /\ a \in Peer => call[a].peer = a
  BY HereFacts, ActorFacts DEF Calls, RestCalls, PeerCalls
<1>2. \A c : SetCall(a, c) => call'[a] = c
  BY <1>1 DEF SetCall
<1>3. /\ a \in Rest => Stopped(a).at = "exit" /\ Stopped(a).left = call[a].left
      /\ a \in Peer => Stopped(a).at = "gone"
      /\ Stopped(a) \in Call
  BY StoppedFacts
<1>4. /\ a \in Rest => Returned(a).at = "exit" /\ Returned(a).left = call[a].left
      /\ a \in Peer => Returned(a).at \in {"stop", "gone"}
  <2>1. CASE call[a].early
    <3>1. a \notin Rest /\ Returned(a) = [Idle EXCEPT !.at = "stop", !.peer = a]
      BY <1>1, <2>1 DEF Returned
    <3>2. Returned(a).at = "stop"
      BY <3>1 DEF Idle
    <3>3. QED
      BY <3>1, <3>2
  <2>2. CASE ~call[a].early
    <3>1. Returned(a) = [Stopped(a) EXCEPT !.index = 0]
      BY <2>2 DEF Returned
    <3>2. Returned(a).at = Stopped(a).at /\ Returned(a).left = Stopped(a).left
      BY <1>3, <3>1 DEF Call
    <3>3. QED
      BY <1>3, <3>2
  <2>3. QED
    BY <2>1, <2>2
<1>5. \A x : /\ [call[a] EXCEPT !.at = x].at = x
             /\ [call[a] EXCEPT !.at = x].left = call[a].left
  BY <1>1 DEF Call
<1>6. CASE Stop(a)
  <2>1. CASE started[call[a].peer]
    <3>1. call[a].at = "stop" /\ call'[a] = [call[a] EXCEPT !.at = "unlist"]
      BY <1>2, <1>6, <2>1 DEF Stop
    <3>2. QED
      BY <1>1, <1>5, <2>1, <3>1
  <2>2. CASE ~started[call[a].peer]
    <3>1. call[a].at = "stop" /\ call'[a] = Stopped(a)
      BY <1>2, <1>6, <2>2 DEF Stop
    <3>2. QED
      BY <1>1, <1>3, <3>1
  <2>3. QED
    BY <2>1, <2>2
<1>7. CASE Unlist(a)
  <2>1. call[a].at = "unlist" /\ call'[a] = [call[a] EXCEPT !.at = "remove"]
    BY <1>2, <1>7 DEF Unlist
  <2>2. QED
    BY <1>1, <1>5, <2>1
<1>8. CASE RemoveService(a)
  <2>1. call[a].at = "remove"
    BY <1>8 DEF RemoveService
  <2>2. ASSUME NEW i \in DOMAIN services,
               SetCall(a, [call[a] EXCEPT !.at = "erase", !.index = i])
        PROVE  call'[a].at = "erase" /\ call'[a].left = call[a].left
    <3>1. call'[a] = [call[a] EXCEPT !.at = "erase", !.index = i]
      BY <1>2, <2>2
    <3>2. QED
      BY <1>1, <3>1 DEF Call
  <2>3. CASE SetCall(a, Returned(a))
    BY <1>1, <1>2, <1>4, <2>1, <2>3
  <2>4. QED
    BY <1>1, <1>8, <2>1, <2>2, <2>3 DEF RemoveService
<1>9. CASE Erase(a)
  <2>1. call[a].at = "erase" /\ call'[a] = Returned(a)
    BY <1>2, <1>9 DEF Erase
  <2>2. QED
    BY <1>1, <1>4, <2>1
<1>10. QED
  BY <1>6, <1>7, <1>8, <1>9 DEF StopContinues

(* What a step of a request leaves behind. *)
LEMMA RequestMoves ==
    ASSUME Calls, NEW t \in Rest, RestContinues(t)
    PROVE  \/ \E p \in call[t].left : /\ call[t].at = "exit"
                                      /\ call'[t].left = call[t].left \ {p}
                                      /\ call'[t].at \in {"stop", "exit"}
           \/ /\ <<call[t].at, call'[t].at>> \in
                    {<<"gen", "assign">>, <<"assign", "answer">>, <<"answer", "idle">>,
                     <<"write", "idle">>, <<"begin", "idle">>, <<"exit", "idle">>}
              /\ call'[t].left \in {call[t].left, {}}
<1>1. call[t] \in Call /\ call \in [Actor -> Call] /\ t \in Actor /\ t \notin Peer
  BY HereFacts, ActorFacts DEF Calls
<1>2. \A c : SetCall(t, c) => call'[t] = c
  BY <1>1 DEF SetCall
<1>3. Idle.at = "idle" /\ Idle.left = {}
  BY IdleFacts
<1>4. CASE GenName(t)
  <2>1. PICK n : call'[t] = [call[t] EXCEPT !.at = "assign", !.name = n]
    BY <1>2, <1>4 DEF GenName
  <2>2. call'[t].at = "assign" /\ call'[t].left = call[t].left
    BY <1>1, <2>1 DEF Call
  <2>3. QED
    BY <1>4, <2>2 DEF GenName
<1>5. CASE Assign(t)
  <2>1. call'[t] = [call[t] EXCEPT !.at = "answer"]
    BY <1>2, <1>5 DEF Assign
  <2>2. call'[t].at = "answer" /\ call'[t].left = call[t].left
    BY <1>1, <2>1 DEF Call
  <2>3. QED
    BY <1>5, <2>2 DEF Assign
<1>6. CASE Answer(t) \/ WritePartner(t) \/ Left(t)
  BY <1>2, <1>3, <1>6 DEF Answer, WritePartner, Left
<1>7. CASE Start(t)
  <2>1. call[t].peer # t
    BY <1>1, <1>7, ActorFacts DEF Start, Calls, Beginning
  <2>2. call'[t] = Idle
    BY <1>1, <1>7, <2>1 DEF Start
  <2>3. QED
    BY <1>3, <1>7, <2>2 DEF Start
<1>8. CASE NextPeer(t)
  BY <1>8, NextPeerFacts DEF NextPeer
<1>9. QED
  BY <1>4, <1>5, <1>6, <1>7, <1>8 DEF RestContinues

LEMMA CopiesStayFinite ==
    Calls /\ CopiesFinite /\ [Next]_vars => CopiesFinite'
<1> SUFFICES ASSUME Calls, CopiesFinite, [Next]_vars PROVE CopiesFinite'
  OBVIOUS
<1>1. CASE UNCHANGED vars
  BY <1>1 DEF vars, peerVars, CopiesFinite
<1>2. CASE Next
  <2>1. IsFiniteSet(peers')
    <3>1. ASSUME peers' = peers PROVE IsFiniteSet(peers')
      BY <3>1 DEF CopiesFinite
    <3>2. ASSUME NEW p, peers' = peers \union {p} PROVE IsFiniteSet(peers')
      BY <3>2, FS_AddElement DEF CopiesFinite
    <3>3. ASSUME NEW p, peers' = peers \ {p} PROVE IsFiniteSet(peers')
      BY <3>3, FS_RemoveElement DEF CopiesFinite
    <3>4. ASSUME NEW t \in Rest, Request(t) \/ RestContinues(t)
          PROVE  IsFiniteSet(peers')
      <4>1. peers' = peers \/ \E p : peers' = peers \union {p}
        BY <3>4 DEF Request, RestContinues, NewService, UpdatePartner, BeginSync,
           Leave, GenName, Assign, Answer, WritePartner, Start, NextPeer, Left,
           peerVars
      <4>2. QED
        BY <4>1, <3>1, <3>2
    <3>5. ASSUME NEW p \in Peer, Event(p) \/ PeerContinues(p)
          PROVE  IsFiniteSet(peers')
      <4>1. CASE Accept(p)
        BY <4>1, <3>2 DEF Accept
      <4>2. CASE \/ OnRead(p) \/ OnReadError(p)
                 \/ \E k \in tickets : OnReadInit(p, k)
        BY <4>2, <3>1 DEF OnRead, OnReadError, OnReadInit, peerVars
      <4>3. CASE PeerContinues(p)
        BY <4>3, <3>1 DEF PeerContinues, StartAccepted, OnConnectOk, OnConnectErr,
           OnInit, OnMessage, OnKey, AddKey, peerVars
      <4>4. QED
        BY <3>5, <4>1, <4>2, <4>3 DEF Event
    <3>6. ASSUME NEW a \in Actor, StopContinues(a) PROVE IsFiniteSet(peers')
      <4>1. CASE Unlist(a)
        BY <4>1, <3>3 DEF Unlist
      <4>2. CASE Stop(a) \/ RemoveService(a) \/ Erase(a)
        BY <4>2, <3>1 DEF Stop, RemoveService, Erase, peerVars
      <4>3. QED
        BY <3>6, <4>1, <4>2 DEF StopContinues
    <3>7. QED
      BY <1>2, <3>4, <3>5, <3>6 DEF Next
  <2>2. ASSUME NEW t \in Rest PROVE IsFiniteSet(call'[t].left)
    <3>1. CASE call'[t] = call[t]
      BY <3>1 DEF CopiesFinite
    <3>2. CASE Request(t)
      <4>1. /\ call[t] \in Call /\ call \in [Actor -> Call] /\ t \in Actor
            /\ t \notin Peer /\ Dialers \subseteq Peer
        BY HereFacts, ActorFacts DEF Calls
      <4>2. \A c : SetCall(t, c) => call'[t] = c
        BY <4>1 DEF SetCall
      <4>3. Idle.left = {} /\ Idle \in Call
        BY IdleFacts
      <4>4. CASE \E k \in tickets : Leave(t, k)
        <5>1. PICK k \in tickets : Leave(t, k)
          BY <4>4
        <5>2. PICK due : SetCall(t, [Idle EXCEPT !.at = "exit", !.name = k.name,
                                                 !.serial = k.serial, !.left = peers,
                                                 !.due = due])
          BY <5>1 DEF Leave
        <5>3. call'[t] = [Idle EXCEPT !.at = "exit", !.name = k.name,
                                      !.serial = k.serial, !.left = peers,
                                      !.due = due]
          BY <4>2, <5>2
        <5>4. call'[t].left = peers
          BY <5>3 DEF Idle
        <5>5. QED
          BY <5>4 DEF CopiesFinite
      <4>5. CASE \/ \E m \in Asked : NewService(t, m)
                 \/ \E k \in tickets : UpdatePartner(t, k)
        <5>1. call'[t].left = {}
          BY <4>2, <4>5 DEF NewService, UpdatePartner, Idle
        <5>2. QED
          BY <5>1, FS_EmptySet
      <4>6. ASSUME NEW k \in tickets, NEW p \in Dialers, BeginSync(t, k, p)
            PROVE  IsFiniteSet(call'[t].left)
        <5>1. p # t
          BY <4>1
        <5>2. call'[t].left = {}
          BY <4>1, <4>6, <5>1 DEF BeginSync, Idle
        <5>3. QED
          BY <5>2, FS_EmptySet
      <4>7. QED
        BY <3>2, <4>4, <4>5, <4>6 DEF Request
    <3>3. CASE RestContinues(t)
      BY <3>3, RequestMoves, FS_EmptySet, FS_RemoveElement DEF CopiesFinite
    <3>4. CASE StopContinues(t)
      BY <3>4, StopMoves, ActorFacts DEF CopiesFinite
    <3>5. QED
      BY <1>2, <3>1, <3>2, <3>3, <3>4, OwnSteps
  <2>3. QED
    BY <2>1, <2>2 DEF CopiesFinite
<1>3. QED
  BY <1>1, <1>2

(* RequestsShrink: /init, /init_config, /sync and /exit are through after a *)
(* number of steps that depends on the peers listed when they are called,  *)
(* and on nothing that happens meanwhile.                                  *)
THEOREM RequestsAreBounded == Spec => RequestsShrink
<1>1. ASSUME Calls, CopiesFinite, Next, NEW t \in Rest,
             call[t].at # "idle", call'[t] # call[t]
      PROVE  RequestWork(call'[t].at, Cardinality(call'[t].left))
                < RequestWork(call[t].at, Cardinality(call[t].left))
  <2> DEFINE n == Cardinality(call[t].left)
  <2>1. n \in Nat /\ IsFiniteSet(call[t].left)
    BY <1>1, FS_CardinalityType DEF CopiesFinite
  <2>2. Request(t) \/ RestContinues(t) \/ StopContinues(t)
    BY <1>1, OwnSteps
  <2>3. ~Request(t)
    BY <1>1 DEF Request, NewService, UpdatePartner, BeginSync, Leave
  <2>4. CASE StopContinues(t)
    <3>1. Cardinality(call'[t].left) = n
      BY <1>1, <2>4, StopMoves, ActorFacts
    <3>2. <<call[t].at, call'[t].at>> \in
             {<<"stop", "unlist">>, <<"stop", "exit">>, <<"unlist", "remove">>,
              <<"remove", "erase">>, <<"remove", "exit">>, <<"erase", "exit">>}
      BY <1>1, <2>4, StopMoves, ActorFacts
    <3> HIDE DEF n
    <3>3. QED
      BY <2>1, <3>1, <3>2 DEF RequestWork, n
  <2>5. ASSUME NEW p \in call[t].left, call[t].at = "exit",
               call'[t].left = call[t].left \ {p}, call'[t].at \in {"stop", "exit"}
        PROVE  RequestWork(call'[t].at, Cardinality(call'[t].left))
                  < RequestWork(call[t].at, n)
    <3>1. Cardinality(call'[t].left) = n - 1
      BY <2>1, <2>5, FS_RemoveElement
    <3> HIDE DEF n
    <3>2. QED
      BY <2>1, <2>5, <3>1 DEF RequestWork
  <2>6. ASSUME <<call[t].at, call'[t].at>> \in
                  {<<"gen", "assign">>, <<"assign", "answer">>, <<"answer", "idle">>,
                   <<"write", "idle">>, <<"begin", "idle">>, <<"exit", "idle">>}
        PROVE  RequestWork(call'[t].at, Cardinality(call'[t].left))
                  < RequestWork(call[t].at, n)
    <3> HIDE DEF n
    <3>1. QED
      BY <2>1, <2>6 DEF RequestWork
  <2>7. QED
    BY <1>1, <2>2, <2>3, <2>4, <2>5, <2>6, RequestMoves
<1>2. Init => CopiesFinite
  <2>1. SUFFICES ASSUME Init PROVE CopiesFinite
    OBVIOUS
  <2>2. peers = {} /\ \A t \in Rest : call[t].left = {}
    BY <2>1, ActorFacts, IdleFacts DEF Init
  <2>3. QED
    BY <2>2, FS_EmptySet DEF CopiesFinite
<1>3. Calls /\ CopiesFinite /\ [Next]_vars =>
         [\A t \in Rest :
             call[t].at # "idle" /\ call'[t] # call[t] =>
                RequestWork(call'[t].at, Cardinality(call'[t].left))
                   < RequestWork(call[t].at, Cardinality(call[t].left))]_vars
  BY <1>1
<1>4. QED
  BY <1>2, <1>3, CopiesStayFinite, CallsInvariant, PTL DEF Spec, RequestsShrink

(* What a step of an operation of a peer that has been stopped leaves behind. *)
LEMMA StoppedMoves ==
    ASSUME Calls, NEW p \in Peer, ~started[p],
           call[p].at \notin {"new", "listed"}, Event(p) \/ PeerContinues(p)
    PROVE  <<call[p].at, call'[p].at>> \in
              {<<"reading", "stop">>, <<"connecting", "gone">>,
               <<"connecting", "remove">>, <<"handling", "gone">>,
               <<"handling", "append">>, <<"append", "gone">>}
<1>1. call[p] \in Call /\ call \in [Actor -> Call] /\ p \in Actor
  BY HereFacts, ActorFacts DEF Calls
<1>2. \A c : SetCall(p, c) => call'[p] = c
  BY <1>1 DEF SetCall
<1>3. Resumed(p).at = "gone"
  BY ResumedFacts
<1>4. CASE OnReadError(p)
  <2>1. call'[p] = [call[p] EXCEPT !.at = "stop"]
    BY <1>2, <1>4 DEF OnReadError
  <2>2. call'[p].at = "stop"
    BY <1>1, <2>1 DEF Call
  <2>3. QED
    BY <1>4, <2>2 DEF OnReadError
<1>5. CASE OnConnectErr(p)
  <2>1. call'[p] = [call[p] EXCEPT !.at = "remove", !.early = TRUE]
    BY <1>2, <1>5 DEF OnConnectErr
  <2>2. call'[p].at = "remove"
    BY <1>1, <2>1 DEF Call
  <2>3. QED
    BY <1>5, <2>2 DEF OnConnectErr
<1>6. CASE OnConnectOk(p) \/ OnInit(p) \/ OnMessage(p) \/ AddKey(p)
  BY <1>2, <1>3, <1>6 DEF OnConnectOk, OnInit, OnMessage, AddKey
<1>7. CASE OnKey(p)
  <2>1. ASSUME NEW i \in DOMAIN services,
               SetCall(p, [call[p] EXCEPT !.at = "append", !.serial = session[p],
                                          !.index = i])
        PROVE  call'[p].at = "append"
    <3>1. call'[p] = [call[p] EXCEPT !.at = "append", !.serial = session[p],
                                     !.index = i]
      BY <1>2, <2>1
    <3>2. QED
      BY <1>1, <3>1 DEF Call
  <2>2. CASE SetCall(p, Resumed(p))
    BY <1>2, <1>3, <1>7, <2>2 DEF OnKey
  <2>3. QED
    BY <1>7, <2>1, <2>2 DEF OnKey
<1>8. QED
  BY <1>4, <1>5, <1>6, <1>7
  DEF Event, PeerContinues, Accept, OnRead, OnReadInit, StartAccepted

(* Only a peer that is listed, and has done nothing yet, is started. *)
LEMMA OnceStopped ==
    ASSUME Calls, Next, NEW p \in Peer, ~started[p],
           call[p].at \notin {"new", "listed"}
    PROVE  ~started'[p]
<1>1. started \in [Peer -> BOOLEAN] /\ call \in [Actor -> Call]
  BY DEF Calls, TypeOK
<1>2. ASSUME NEW q, started' = [started EXCEPT ![q] = FALSE]
      PROVE  ~started'[p]
  BY <1>1, <1>2
<1>3. ASSUME NEW q, q # p, started' = [started EXCEPT ![q] = TRUE]
      PROVE  ~started'[p]
  BY <1>1, <1>3
<1>4. ASSUME NEW t \in Rest, Request(t) \/ RestContinues(t)
      PROVE  ~started'[p]
  <2>1. CASE Start(t)
    <3>1. call[t].peer # p
      BY <2>1 DEF Start, Calls, Beginning
    <3>2. started' = [started EXCEPT ![call[t].peer] = TRUE]
      BY <2>1 DEF Start
    <3>3. QED
      BY <1>3, <3>1, <3>2
  <2>2. CASE Request(t) \/ (RestContinues(t) /\ ~Start(t))
    BY <2>2 DEF Request, RestContinues, NewService, UpdatePartner, BeginSync, Leave,
       GenName, Assign, Answer, WritePartner, NextPeer, Left, peerVars
  <2>3. QED
    BY <1>4, <2>1, <2>2
<1>5. ASSUME NEW q \in Peer, Event(q) \/ PeerContinues(q)
      PROVE  ~started'[p]
  <2>1. CASE StartAccepted(q)
    BY <1>3, <2>1 DEF StartAccepted
  <2>2. CASE Event(q)
    BY <2>2 DEF Event, Accept, OnRead, OnReadInit, OnReadError, peerVars
  <2>3. CASE PeerContinues(q) /\ ~StartAccepted(q)
    BY <2>3 DEF PeerContinues, OnConnectOk, OnConnectErr, OnInit, OnMessage, OnKey,
       AddKey, peerVars
  <2>4. QED
    BY <1>5, <2>1, <2>2, <2>3
<1>6. ASSUME NEW a \in Actor, StopContinues(a)
      PROVE  ~started'[p]
  <2>1. CASE Stop(a)
    BY <1>2, <2>1 DEF Stop
  <2>2. CASE Unlist(a) \/ RemoveService(a) \/ Erase(a)
    BY <2>2 DEF Unlist, RemoveService, Erase, peerVars
  <2>3. QED
    BY <1>6, <2>1, <2>2 DEF StopContinues
<1>7. QED
  BY <1>4, <1>5, <1>6 DEF Next

(* PeersWindDown: whoever stops a peer, and wherever its operation is then, *)
(* it is not started again, and gone after four steps (peer.cpp:71-88).    *)
THEOREM StoppedPeersWindDown == Spec => PeersWindDown
<1>1. ASSUME Calls, Next, NEW p \in Peer, ~started[p],
             call[p].at \notin {"new", "listed"}, call'[p] # call[p]
      PROVE  PeerWork(call'[p].at) < PeerWork(call[p].at)
  <2>1. p \in Actor
    BY ActorFacts
  <2>2. CASE Event(p) \/ PeerContinues(p)
    BY <1>1, <2>2, StoppedMoves DEF PeerWork
  <2>3. CASE StopContinues(p)
    <3>1. <<call[p].at, call'[p].at>> \in
             {<<"stop", "gone">>, <<"unlist", "remove">>, <<"remove", "erase">>,
              <<"remove", "stop">>, <<"remove", "gone">>,
              <<"erase", "stop">>, <<"erase", "gone">>}
      BY <1>1, <2>1, <2>3, StopMoves
    <3>2. QED
      BY <3>1 DEF PeerWork
  <2>4. QED
    BY <1>1, <2>2, <2>3, OwnEvents
<1>2. Calls /\ [Next]_vars =>
         [\A p \in Peer :
             call[p].at \notin {"new", "listed"} /\ ~started[p] =>
                /\ ~started'[p]
                /\ call'[p] # call[p] =>
                      PeerWork(call'[p].at) < PeerWork(call[p].at)]_vars
  BY <1>1, OnceStopped
<1>3. QED
  BY <1>2, CallsInvariant, PTL DEF Spec, PeersWindDown
=============================================================================

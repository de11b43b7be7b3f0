------------------------- MODULE SyncSessionTheorems -------------------------
(***************************************************************************)
(* What the invariant of SyncSessionProofs gives: each property that the   *)
(* runs check on a small instance, for every value of the constants, and   *)
(* that the session implements the abstract key exchange.                  *)
(***************************************************************************)
EXTENDS SyncSessionProofs

(* The state always has the types the code gives it: weights within the     *)
(* clamps of UpdateWeight, counters within the limit of iteration_increase, *)
(* and every message of a form its receiver can parse.                     *)
THEOREM TypeCorrect == Spec => []TypeOK
<1>1. IInv => TypeOK
  BY DEF IInv
<1>2. QED
  BY <1>1, SessionInvariant, PTL

(* The peers take turns (do_write, on_write, do_read): never do both talk   *)
(* at once, and never do both wait on a connection that is up.             *)
THEOREM TakingTurns == Spec => []OneTurn
<1>1. IInv => OneTurn
  BY DEF IInv
<1>2. QED
  BY <1>1, SessionInvariant, PTL

(* find_tpm always finds the machine that a message is about, so on_linking, *)
(* on_sync and on_reset never take their branches without a next operation. *)
THEOREM MessagesRouted == Spec => []Routed
<1>1. ASSUME IInv PROVE Routed
  <2> SUFFICES ASSUME NEW s \in Side, chan[s] # <<>>
               PROVE  /\ InFlight(s, {"init"}) => tpm[s].id = NoId
                      /\ InFlight(s, {"link"}) =>
                            /\ Head(chan[s]).self = tpm[s].id
                            /\ tpm[s].iteration = 0
                      /\ InFlight(s, {"one", "advanced", "reset"}) => FromPartner(s)
    BY DEF Routed, InFlight
  <2>1. ReceiverIs(tpm[s], Head(chan[s]))
    BY <1>1 DEF IInv, Flight
  <2>2. QED
    BY <2>1 DEF ReceiverIs, InFlight, FromPartner
<1>2. QED
  BY <1>1, SessionInvariant, PTL

(* An answer about a vector comes while that vector and the hidden outputs  *)
(* it produced are still in the machine (TpmNetworkHandler.cpp:227).       *)
THEOREM OldVectorLoaded == Spec => []OldVectorStillLoaded
<1>1. ASSUME IInv PROVE OldVectorStillLoaded
  <2> SUFFICES ASSUME NEW s \in Side, InFlight(s, {"advanced"})
               PROVE  /\ Head(chan[s]).old = tpm[s].x
                      /\ tpm[s].h = HiddenOutputs(tpm[s].w, tpm[s].x)
    BY DEF OldVectorStillLoaded
  <2>1. ReceiverIs(tpm[s], Head(chan[s]))
    BY <1>1 DEF IInv, Flight, InFlight
  <2>2. QED
    BY <2>1 DEF ReceiverIs, InFlight
<1>2. QED
  BY <1>1, SessionInvariant, PTL

(* on_sync compares keys only when the partner asks for an update; nothing  *)
(* is missed by that, because a partner that does not ask is different.    *)
THEOREM NothingMissed == Spec => []SyncedIsNoticed
<1>1. ASSUME IInv PROVE SyncedIsNoticed
  <2> SUFFICES ASSUME NEW s \in Side, InFlight(s, {"advanced"}),
                      ~Head(chan[s]).tell, pc[Other(s)] # "gone"
               PROVE  tpm[s].w # tpm[Other(s)].w
    BY DEF SyncedIsNoticed
  <2>1. SenderIs(tpm[Other(s)], tpm[s], Head(chan[s]))
    BY <1>1 DEF IInv, Flight, InFlight
  <2>2. QED
    BY <2>1 DEF SenderIs, InFlight
<1>2. QED
  BY <1>1, SessionInvariant, PTL

(* The two iteration counters stay level or one apart, through every reset  *)
(* (increase_iteration, reset_tpm).                                        *)
THEOREM CountersInStep == Spec => []IterationsInStep
<1>1. ASSUME IInv PROVE IterationsInStep
  <2> SUFFICES ASSUME NEW s \in Side, InFlight(s, {"one", "advanced"}),
                      pc[Other(s)] # "gone"
               PROVE  tpm[Other(s)].iteration - tpm[s].iteration \in {0, 1}
    BY DEF IterationsInStep
  <2>1. SenderIs(tpm[Other(s)], tpm[s], Head(chan[s]))
    BY <1>1 DEF IInv, Flight, InFlight
  <2>2. QED
    BY <2>1 DEF SenderIs, InFlight
<1>2. QED
  BY <1>1, SessionInvariant, PTL

-----------------------------------------------------------------------------
(* Keys.                                                                   *)

(* Both sides find the same keys in the same order; while they are          *)
(* connected the last one may be on its way in a reset message, to a       *)
(* machine that still holds it.                                            *)
THEOREM SameKeys == Spec => []KeysAgree
<1>1. ASSUME IInv, NEW s \in Side, keyLog[s] # keyLog[Other(s)],
             ~OneLonger(keyLog[s], keyLog[Other(s)])
      PROVE  /\ OneLonger(keyLog[Other(s)], keyLog[s])
             /\ link = "up" =>
                   /\ InFlight(s, {"reset"}) /\ Head(chan[s]).save
                   /\ keyLog[Other(s)] = Append(keyLog[s], tpm[s].w)
  <2> DEFINE o == Other(s)
  <2>1. /\ o \in Side /\ Other(o) = s
        /\ \A t \in Side : t = s \/ t = o
    BY SideFacts
  <2>2. OneLonger(keyLog[o], keyLog[s])
    BY <1>1, <2>1, SideFacts DEF IInv, LogsClose, LogsEqual
  <2>3. ~LogsEqual
    BY <1>1, <2>1, SideFacts DEF LogsEqual
  <2>4. ASSUME link = "up"
        PROVE  /\ InFlight(s, {"reset"}) /\ Head(chan[s]).save
               /\ keyLog[o] = Append(keyLog[s], tpm[s].w)
    <3>1. PICK t \in Side : chan[t] # <<>>
      BY <1>1, <2>4 DEF IInv, OneTurn
    <3>2. LogsAre(t, Head(chan[t]))
      BY <1>1, <3>1 DEF IInv, Flight
    <3>3. /\ Head(chan[t]).type = "reset" /\ Head(chan[t]).save
          /\ keyLog[Other(t)] = Append(keyLog[t], tpm[t].w)
      BY <2>3, <3>2 DEF LogsAre
    <3>4. tpm[t].w \in Weights
      BY <1>1 DEF IInv, TypeOK, Machine
    <3>5. t = s
      BY <1>1, <2>1, <3>3, <3>4 DEF OneLonger
    <3>6. QED
      BY <3>1, <3>3, <3>5 DEF InFlight
  <2>5. QED
    BY <2>2, <2>4
<1>2. IInv => KeysAgree
  BY <1>1 DEF KeysAgree
<1>3. QED
  BY <1>2, SessionInvariant, PTL

(* So do the rings of the two services, while both are registered: what one *)
(* encrypts with, the other has or is about to have (API_data::add_key).   *)
THEOREM SameRings == Spec => []RingsAgree
<1>1. ASSUME IInv PROVE RingsAgree
  <2> SUFFICES ASSUME \A s \in Side : registered[s]
               PROVE  \/ ring[Initiator] = ring[Acceptor]
                      \/ OneLonger(ring[Initiator], ring[Acceptor])
                      \/ OneLonger(ring[Acceptor], ring[Initiator])
    BY DEF RingsAgree
  <2>1. \A s \in Side : ring[s] = keyLog[s]
    BY <1>1 DEF IInv, Rings
  <2>2. QED
    BY <1>1, <2>1, SideFacts DEF IInv, LogsClose, LogsEqual
<1>2. QED
  BY <1>1, SessionInvariant, PTL

-----------------------------------------------------------------------------
(* Refinement.                                                             *)

(* The side whose on_sync finds the hashes equal leads. *)
LEMMA KeyFoundLeads ==
    ASSUME IInv, NEW s \in Side, OnSyncKeyFound(s)
    PROVE  \E p \in Side : \E k \in Weights : KX!Lead(p, k)
<1> DEFINE k == HonourTell(tpm[s], Head(chan[s])).w
<1>1. pc[s] = "handling" /\ Head(chan[s]).type = "advanced"
  BY DEF OnSyncKeyFound, Handling
<1>2. LogsEqual
  BY <1>1, HandledMessage DEF LogsAre
<1>3. \A q \in Side : keyLog[q] = keyLog[s]
  BY <1>2, SideFacts DEF LogsEqual, Side
<1>4. k \in Weights
  BY <1>1, HandledMessage, HonourTellType DEF Machine
<1>5. keyLog' = [keyLog EXCEPT ![s] = Append(keyLog[s], k)]
  BY DEF OnSyncKeyFound, AddKey, IInv, TypeOK
<1>6. KX!Lead(s, k)
  BY <1>3, <1>5 DEF KX!Lead
<1>7. QED
  BY <1>4, <1>6

(* The side whose on_reset is told to save follows. *)
LEMMA ResetFollows ==
    ASSUME IInv, NEW s \in Side, OnReset(s), ~UNCHANGED keyLog
    PROVE  \E p \in Side : \E q \in Side : KX!Follow(p, q)
<1> DEFINE o == Other(s)
<1>1. pc[s] = "handling" /\ Head(chan[s]).type = "reset"
  BY DEF OnReset, Handling
<1>2. Head(chan[s]).save /\ AddKey(s, tpm[s].w)
  BY DEF OnReset
<1>3. keyLog[o] = Append(keyLog[s], tpm[s].w) /\ tpm[s].w \in Weights
  BY <1>1, <1>2, HandledMessage DEF LogsAre, Machine
<1>4. keyLog' = [keyLog EXCEPT ![s] = Append(keyLog[s], tpm[s].w)]
  BY <1>2 DEF AddKey, IInv, TypeOK
<1>5. KX!Follow(s, o)
  BY <1>3, <1>4 DEF KX!Follow
<1>6. QED
  BY <1>5, SideFacts

LEMMA StepsMap == IInv /\ [Next]_vars => [KX!Next]_keyLog
<1> SUFFICES ASSUME IInv, [Next]_vars PROVE KX!Next \/ UNCHANGED keyLog
  OBVIOUS
<1>1. ASSUME NEW s \in Side, Handler(s) PROVE KX!Next \/ UNCHANGED keyLog
  <2>1. CASE OnSyncKeyFound(s)
    BY <2>1, KeyFoundLeads DEF KX!Next
  <2>2. CASE OnReset(s)
    BY <2>2, ResetFollows DEF KX!Next
  <2>3. CASE OnInit(s) \/ OnLinking(s) \/ OnSyncExhausted(s) \/ OnSyncContinue(s)
    BY <2>3 DEF OnInit, OnLinking, OnSyncExhausted, OnSyncContinue
  <2>4. QED
    BY <1>1, <2>1, <2>2, <2>3 DEF Handler
<1>2. ASSUME NEW s \in Side, PeerStep(s) PROVE KX!Next \/ UNCHANGED keyLog
  <2>1. CASE Connected \/ Accept
    BY <2>1 DEF Connected, OnConnectOk, OnConnectErr, Accept
  <2>2. CASE OnRead(s) \/ OnReadError(s) \/ OnWrite(s)
    BY <2>2 DEF OnRead, OnReadError, OnWrite
  <2>3. QED
    BY <1>1, <1>2, <2>1, <2>2 DEF PeerStep
<1>3. CASE BeginSync \/ BeginSyncBadAddress \/ Disconnect \/ GoSilent
  BY <1>3 DEF BeginSync, BeginSyncBadAddress, Disconnect, GoSilent
<1>4. ASSUME NEW s \in Side, Leave(s) PROVE UNCHANGED keyLog
  BY <1>4 DEF Leave
<1>5. CASE UNCHANGED vars
  BY <1>5 DEF vars
<1>6. QED
  BY <1>2, <1>3, <1>4, <1>5 DEF Next

(* The session implements KeyExchange: nothing two peers, their machines,   *)
(* a lost connection or an application that leaves can do makes a key      *)
(* appear out of order, twice, or on one side only while more are found.   *)
THEOREM SessionRefinesExchange == Spec => ImplementsKeyExchange
<1>1. Init => KX!Init
  BY DEF Init, KX!Init
<1>2. IInv /\ [Next]_vars => [KX!Next]_keyLog
  BY StepsMap
<1>3. QED
  BY <1>1, <1>2, SessionInvariant, PTL DEF Spec, KX!Spec, ImplementsKeyExchange
=============================================================================

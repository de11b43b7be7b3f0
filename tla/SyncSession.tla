----------------------------- MODULE SyncSession -----------------------------
(***************************************************************************)
(* One synchronisation session between two DynamiCrypt servers: the peer   *)
(* that was told to connect (begin_sync) and the peer that accepts its     *)
(* connection.  Each peer object owns one TpmNetworkHandler with one tree  *)
(* parity machine (MAX_TPMS_PER_PEER is 1), so a side is at once the peer, *)
(* its machine and the service the machine's keys go to.                   *)
(*                                                                         *)
(* A peer has at most one asynchronous operation outstanding; pc names it. *)
(* A handler runs to its end in one step, after a separate step in which   *)
(* on_read has found the peer started: a stop from a REST thread may come  *)
(* in between.                                                             *)
(***************************************************************************)
EXTENDS TreeParityMachine, Sequences

CONSTANTS
    MaxIterations, \* give up on a key after so many (the code: L^4 * N * K)
    TpmIds,        \* ids create_new_tpm draws from (rand() % 5000)
    MaxKeys,       \* bound: a side stops reading once it has found this many
    Faults         \* whether applications leave and connections fail midway

ASSUME SessionAssumption == /\ MaxIterations \in Nat \ {0}
                            /\ TpmIds \subseteq Nat
                            /\ TpmIds # {}
                            /\ MaxKeys \in Nat
                            /\ Faults \in BOOLEAN

Initiator == "initiator"
Acceptor  == "acceptor"
Side      == {Initiator, Acceptor}
Other(s)  == IF s = Initiator THEN Acceptor ELSE Initiator

NoId  == -1    \* the peer has not created its machine
Unset == <<>>  \* memory no code has written yet

(* The partner of a machine that is not linked is 0, which is also an id.   *)
PartnerIds == TpmIds \union {0}

Machine == [id        : TpmIds \union {NoId},
            partner   : PartnerIds,
            w         : Weights,
            h         : Outputs \union {Unset},
            x         : Vectors \union {Unset},
            iteration : 0 .. MaxIterations]

(* Message types 2, 3, 1 (of kind 1 and of kind 2) and 4.  The hash of a    *)
(* key stands for the key: it is compared, never inverted, and the nonce   *)
(* it is salted with travels in the clear beside it.  The iteration in     *)
(* each message is only printed by its receiver, and left out.             *)
(* Mistaken: says which vector was sent, not which was answered. *)
AdvancedMsgNewVector(t, told, v) ==
                    [type |-> "advanced", id |-> t.id,
                     x |-> t.x, out |-> TPMOutput(t.h),
                     tell |-> told, old |-> t.x, key |-> t.w]

InitMsg(i)       == [type |-> "init", id |-> i]
LinkMsg(i, p)    == [type |-> "link", id |-> i, self |-> p]
OneMsg(t)        == [type |-> "one", id |-> t.id,
                     x |-> t.x, out |-> TPMOutput(t.h)]
AdvancedMsg(t, told, v) ==
                    [type |-> "advanced", id |-> t.id,
                     x |-> t.x, out |-> TPMOutput(t.h),
                     tell |-> told, old |-> v, key |-> t.w]
ResetMsg(i, b)   == [type |-> "reset", id |-> i, save |-> b]

Message ==
    [type : {"init"}, id : TpmIds]
        \union [type : {"link"}, id : TpmIds, self : PartnerIds]
        \union [type : {"one"}, id : TpmIds, x : Vectors, out : Spin]
        \union [type : {"advanced"}, id : TpmIds, x : Vectors, out : Spin,
                tell : BOOLEAN, old : Vectors, key : Weights]
        \union [type : {"reset"}, id : TpmIds, save : BOOLEAN]

(* idle: no peer yet; failed: begin_sync has thrown; gone: no peer any more. *)
Operation == {"idle", "failed", "connecting", "reading", "handling",
              "writing", "gone"}

VARIABLES
    pc,          \* the peer's outstanding operation
    started,     \* peer::started_
    named,       \* peer::service_name_ is the name of this side's service
    tpm,         \* the machine in peer::tpm_handler
    link,        \* the TCP connection
    chan,        \* messages on their way to a side
    registered,  \* API_service_data_handler knows the service
    ring,        \* API_data::keys_ of the service
    keyLog       \* the keys SingleTpmNetworkHandler::key_log has recorded

vars == <<pc, started, named, tpm, link, chan, registered, ring, keyLog>>
peerVars    == <<started, named>>
serviceVars == <<registered, ring>>

Blank == [id |-> NoId, partner |-> 0, w |-> [c \in Cell |-> 0],
          h |-> Unset, x |-> Unset, iteration |-> 0]

(* The applications register their services through /init; nothing makes   *)
(* them do so before a session names the service.                          *)
Init == /\ pc = [s \in Side |-> "idle"]
        /\ started = [s \in Side |-> FALSE]
        /\ named = [s \in Side |-> FALSE]
        /\ tpm = [s \in Side |-> Blank]
        /\ link = "none"
        /\ chan = [s \in Side |-> <<>>]
        /\ registered \in [Side -> BOOLEAN]
        /\ ring = [s \in Side |-> <<>>]
        /\ keyLog = [s \in Side |-> <<>>]

-----------------------------------------------------------------------------
(* SingleTpmNetworkHandler: what each of its methods makes of a machine.   *)

NewMachine(i, v) == [Blank EXCEPT !.id = i, !.w = v]
(* Mistaken: the partner is not recorded. *)
PartnerForgotten(t, p) == t

SetPartner(t, p) == [t EXCEPT !.partner = p]
Reset(t, v)      == [t EXCEPT !.iteration = 0, !.w = v]
SetInput(t, v)   == [t EXCEPT !.x = v]
Compute(t)       == [t EXCEPT !.h = HiddenOutputs(t.w, t.x)]
Update(t)        == [t EXCEPT !.w = UpdateWeight(t.w, t.x, t.h)]

(* create_random_input_vector and compute_tpm_result. *)
Challenge(t, v) == Compute(SetInput(t, v))

Exhausted(t) == t.iteration = MaxIterations

(* TpmNetworkHandler::increase_iteration resets an exhausted machine.       *)
IncreaseIteration(t) ==
    IF Exhausted(t) THEN {Reset(t, v) : v \in Weights}
                    ELSE {[t EXCEPT !.iteration = @ + 1]}

(* sync_tpm_message_one_advanced, first half: when the partner updated on  *)
(* our last vector, so do we.                                              *)
HonourTell(t, m) ==
    IF m.type = "advanced" /\ m.tell THEN Update(SetInput(t, m.old)) ELSE t

(* Mistaken: takes the partner's word for it. *)
SameKeyAssumed(t, m) == m.type = "advanced" /\ m.tell

(* The machines hold the same key once the partner's update is applied.     *)
SameKey(t, m) == /\ m.type = "advanced"
                 /\ m.tell
                 /\ HonourTell(t, m).w = m.key

(* Mistaken: != for ==. *)
AgreesWhenDifferent(t, m) == TPMOutput(Challenge(t, m.x).h) # m.out

(* Second half: compute on the partner's vector and update on agreement.    *)
Agrees(t, m) == TPMOutput(Challenge(t, m.x).h) = m.out
Learn(t, m)  == LET c == Challenge(t, m.x)
                IN  IF Agrees(t, m) THEN Update(c) ELSE c

-----------------------------------------------------------------------------
(* Steps several operations share.                                         *)

(* The end of a handler: its message is consumed, the machine is left as    *)
(* n, and do_write sends m.  A stopped peer writes nothing; that was its   *)
(* last operation, and it goes with its machine.  What is written to a     *)
(* dead connection is lost.                                                *)
DoWrite(s, n, m) ==
    /\ tpm' = [tpm EXCEPT ![s] = IF started[s] THEN n ELSE Blank]
    /\ pc' = [pc EXCEPT ![s] = IF started[s] THEN "writing" ELSE "gone"]
    /\ chan' = [t \in Side |->
                   IF t = s THEN (IF chan[s] = <<>> THEN <<>> ELSE Tail(chan[s]))
                   ELSE IF started[s] /\ link = "up" THEN Append(chan[t], m)
                   ELSE chan[t]]

(* Mistaken: leaves the socket open. *)
StopWithoutClose(s) ==
    /\ started' = [started EXCEPT ![s] = FALSE]
    /\ link' = link
    /\ registered' = [registered EXCEPT ![s] = @ /\ ~named[s]]
    /\ ring' = [ring EXCEPT ![s] = IF named[s] THEN <<>> ELSE @]

(* peer::stop: once only; closes the socket and drops the service that the *)
(* peer is named after.                                                    *)
Stop(s) ==
    /\ started' = [started EXCEPT ![s] = FALSE]
    /\ link' = IF link = "up" THEN "closed" ELSE link
    /\ registered' = [registered EXCEPT ![s] = @ /\ ~named[s]]
    /\ ring' = [ring EXCEPT ![s] = IF named[s] THEN <<>> ELSE @]

(* Mistaken: the new key in front of the old ones. *)
AddKeyInFront(s, k) ==
    /\ keyLog' = [keyLog EXCEPT ![s] = <<k>> \o @]
    /\ ring' = IF registered[s] THEN [ring EXCEPT ![s] = <<k>> \o @] ELSE ring

(* add_key_to_proper_keys: log the key, and hand it to the service if the  *)
(* service is still there.                                                 *)
AddKey(s, k) ==
    /\ keyLog' = [keyLog EXCEPT ![s] = Append(@, k)]
    /\ ring' = IF registered[s] THEN [ring EXCEPT ![s] = Append(@, k)] ELSE ring

-----------------------------------------------------------------------------
(* Connecting.                                                             *)

(* begin_sync: the peer is listed and started before it connects.          *)
BeginSync ==
    /\ pc[Initiator] = "idle"
    /\ pc' = [pc EXCEPT ![Initiator] = "connecting"]
    /\ started' = [started EXCEPT ![Initiator] = TRUE]
    /\ named' = [named EXCEPT ![Initiator] = TRUE]
    /\ UNCHANGED <<tpm, link, chan, serviceVars, keyLog>>

(* from_string rejects the address: begin_sync swallows the exception and  *)
(* returns 0, which /sync ignores; the peer stays listed and started.      *)
BeginSyncBadAddress ==
    /\ pc[Initiator] = "idle"
    /\ pc' = [pc EXCEPT ![Initiator] = "failed"]
    /\ started' = [started EXCEPT ![Initiator] = TRUE]
    /\ named' = [named EXCEPT ![Initiator] = TRUE]
    /\ UNCHANGED <<tpm, link, chan, serviceVars, keyLog>>

(* Mistaken: introduces a second machine right away, as the loop over       *)
(* MAX_TPMS_PER_PEER would for more than one.                              *)
OnConnectOkTwice ==
    /\ pc[Initiator] = "connecting"
    /\ link' = "up"
    /\ \E i \in TpmIds, v \in Weights :
          /\ tpm' = [tpm EXCEPT ![Initiator] = NewMachine(i, v)]
          /\ pc' = [pc EXCEPT ![Initiator] = "writing"]
          /\ chan' = [chan EXCEPT ![Acceptor] = @ \o <<InitMsg(i), InitMsg(i)>>]
    /\ UNCHANGED <<peerVars, serviceVars, keyLog>>

(* Connected: create the machine and introduce it.  A peer that was stopped *)
(* meanwhile writes nothing, and its new machine goes with it.             *)
OnConnectOk ==
    /\ pc[Initiator] = "connecting"
    /\ link' = IF started[Initiator] THEN "up" ELSE "closed"
    /\ IF started[Initiator]
       THEN \E i \in TpmIds, v \in Weights :
               /\ tpm' = [tpm EXCEPT ![Initiator] = NewMachine(i, v)]
               /\ pc' = [pc EXCEPT ![Initiator] = "writing"]
               /\ chan' = [chan EXCEPT ![Acceptor] = Append(@, InitMsg(i))]
       ELSE /\ pc' = [pc EXCEPT ![Initiator] = "gone"]
            /\ UNCHANGED <<tpm, chan>>
    /\ UNCHANGED <<peerVars, serviceVars, keyLog>>

(* Refused, unreachable, or aborted by a stop: the service goes first, then *)
(* the peer stops, and the machine it has just created goes with it.       *)
OnConnectErr ==
    /\ pc[Initiator] = "connecting"
    /\ pc' = [pc EXCEPT ![Initiator] = "gone"]
    /\ Stop(Initiator)
    /\ UNCHANGED <<named, tpm, chan, keyLog>>

(* handle_accept starts the peer without a name. *)
Accept ==
    /\ pc[Acceptor] = "idle"
    /\ link # "none"
    /\ pc' = [pc EXCEPT ![Acceptor] = "reading"]
    /\ started' = [started EXCEPT ![Acceptor] = TRUE]
    /\ UNCHANGED <<named, tpm, link, chan, serviceVars, keyLog>>

-----------------------------------------------------------------------------
(* Reading and handling.                                                   *)

(* on_read, up to the dispatch.  A closed connection may still deliver what *)
(* was sent before.                                                        *)
OnRead(s) ==
    /\ pc[s] = "reading"
    /\ started[s]
    /\ chan[s] # <<>>
    /\ Len(keyLog[s]) < MaxKeys
    /\ pc' = [pc EXCEPT ![s] = "handling"]
    /\ UNCHANGED <<peerVars, tpm, link, chan, serviceVars, keyLog>>

(* on_read with an error: our own socket is closed, or the other end's is.  *)
(* No operation is left to keep the peer and its machine alive.            *)
OnReadError(s) ==
    /\ pc[s] = "reading"
    /\ ~started[s] \/ link = "closed"
    /\ pc' = [pc EXCEPT ![s] = "gone"]
    /\ IF started[s] THEN Stop(s)
                     ELSE UNCHANGED <<started, link, serviceVars>>
    /\ tpm' = [tpm EXCEPT ![s] = Blank]
    /\ chan' = [chan EXCEPT ![s] = <<>>]
    /\ UNCHANGED <<named, keyLog>>

Handling(s, types) == /\ pc[s] = "handling"
                      /\ Head(chan[s]).type \in types

(* The acceptor learns the name of its service and creates its machine.     *)
OnInit(s) ==
    /\ Handling(s, {"init"})
    /\ named' = [named EXCEPT ![s] = TRUE]
    /\ \E i \in TpmIds, v \in Weights :
          LET p == Head(chan[s]).id
          IN  DoWrite(s, SetPartner(NewMachine(i, v), p), LinkMsg(i, p))
    /\ UNCHANGED <<started, link, serviceVars, keyLog>>

(* The initiator finds its machine by the id it is told, links it, and     *)
(* sends the first vector.                                                 *)
OnLinking(s) ==
    /\ Handling(s, {"link"})
    /\ Head(chan[s]).self = tpm[s].id
    /\ \E t \in IncreaseIteration(tpm[s]), x \in Vectors :
          LET n == Challenge(SetPartner(t, Head(chan[s]).id), x)
          IN  DoWrite(s, n, OneMsg(n))
    /\ UNCHANGED <<peerVars, link, serviceVars, keyLog>>

(* on_sync and on_reset find the machine by its partner. *)
FromPartner(s) == Head(chan[s]).id = tpm[s].partner /\ tpm[s].id # NoId

(* on_sync when increase_iteration has given up on these weights.           *)
OnSyncExhausted(s) ==
    /\ Handling(s, {"one", "advanced"})
    /\ FromPartner(s)
    /\ Exhausted(tpm[s])
    /\ \E t \in IncreaseIteration(tpm[s]) : DoWrite(s, t, ResetMsg(t.id, FALSE))
    /\ UNCHANGED <<peerVars, link, serviceVars, keyLog>>

(* on_sync when the hashes match: keep the key and start over.              *)
OnSyncKeyFound(s) ==
    /\ Handling(s, {"advanced"})
    /\ FromPartner(s)
    /\ ~Exhausted(tpm[s])
    /\ LET n == HonourTell(tpm[s], Head(chan[s]))
       IN  /\ SameKey(tpm[s], Head(chan[s]))
           /\ AddKey(s, n.w)
           /\ \E v \in Weights : DoWrite(s, Reset(n, v), ResetMsg(n.id, TRUE))
    /\ UNCHANGED <<peerVars, link, registered>>

(* on_sync otherwise: one round of mutual learning. *)
OnSyncContinue(s) ==
    /\ Handling(s, {"one", "advanced"})
    /\ FromPartner(s)
    /\ ~Exhausted(tpm[s])
    /\ LET m == Head(chan[s])
       IN  /\ ~SameKey(tpm[s], m)
           /\ \E t \in IncreaseIteration(tpm[s]), x \in Vectors :
                 LET a == HonourTell(t, m)
                     n == Challenge(Learn(a, m), x)
                 IN  DoWrite(s, n, AdvancedMsg(n, Agrees(a, m), m.x))
    /\ UNCHANGED <<peerVars, link, serviceVars, keyLog>>

(* Mistaken: starts over without keeping the key. *)
OnResetWithoutSave(s) ==
    /\ Handling(s, {"reset"})
    /\ FromPartner(s)
    /\ \E v \in Weights, x \in Vectors :
          \E t \in IncreaseIteration(Reset(tpm[s], v)) :
             DoWrite(s, Challenge(t, x), OneMsg(Challenge(t, x)))
    /\ UNCHANGED <<peerVars, link, registered, ring, keyLog>>

(* Mistaken: keeps the key, but does not start over. *)
OnResetWithoutReset(s) ==
    /\ Handling(s, {"reset"})
    /\ FromPartner(s)
    /\ IF Head(chan[s]).save THEN AddKey(s, tpm[s].w)
                             ELSE UNCHANGED <<ring, keyLog>>
    /\ \E t \in IncreaseIteration(tpm[s]), x \in Vectors :
          DoWrite(s, Challenge(t, x), OneMsg(Challenge(t, x)))
    /\ UNCHANGED <<peerVars, link, registered>>

(* Mistaken: keeps the key whether or not the partner found one. *)
OnResetSavingAlways(s) ==
    /\ Handling(s, {"reset"})
    /\ FromPartner(s)
    /\ AddKey(s, tpm[s].w)
    /\ \E v \in Weights, x \in Vectors :
          \E t \in IncreaseIteration(Reset(tpm[s], v)) :
             DoWrite(s, Challenge(t, x), OneMsg(Challenge(t, x)))
    /\ UNCHANGED <<peerVars, link, registered>>

(* The partner started over: keep the key if it says so, start over too,    *)
(* and lead the next exchange.                                             *)
OnReset(s) ==
    /\ Handling(s, {"reset"})
    /\ FromPartner(s)
    /\ IF Head(chan[s]).save THEN AddKey(s, tpm[s].w)
                             ELSE UNCHANGED <<ring, keyLog>>
    /\ \E v \in Weights, x \in Vectors :
          \E t \in IncreaseIteration(Reset(tpm[s], v)) :
             DoWrite(s, Challenge(t, x), OneMsg(Challenge(t, x)))
    /\ UNCHANGED <<peerVars, link, registered>>

(* on_write reads next, whether or not the write went well. *)
OnWrite(s) ==
    /\ pc[s] = "writing"
    /\ pc' = [pc EXCEPT ![s] = "reading"]
    /\ UNCHANGED <<peerVars, tpm, link, chan, serviceVars, keyLog>>

-----------------------------------------------------------------------------
(* What may happen at any time.                                            *)

(* /exit: stop_sync stops the listed peers that bear the service's name.    *)
Leave(s) ==
    /\ Faults
    /\ started[s] /\ named[s]
    /\ Stop(s)
    /\ pc' = IF pc[s] = "failed" THEN [pc EXCEPT ![s] = "gone"] ELSE pc
    /\ UNCHANGED <<named, tpm, chan, keyLog>>

(* The connection is reset, and both ends will notice... *)
Disconnect == /\ Faults
              /\ link = "up"
              /\ link' = "closed"
              /\ UNCHANGED <<pc, peerVars, tpm, chan, serviceVars, keyLog>>

(* ... or packets just stop arriving: peers have no timeout to notice by.   *)
GoSilent == /\ Faults
            /\ link = "up"
            /\ link' = "silent"
            /\ chan' = [s \in Side |-> IF pc[s] = "handling" THEN chan[s] ELSE <<>>]
            /\ UNCHANGED <<pc, peerVars, tpm, serviceVars, keyLog>>

(* Completion handlers, run by the asio threads. *)
Connected == OnConnectOk \/ OnConnectErr
(* Mistaken: an exhausted machine is not answered for. *)
HandlerThatGivesUp(s) == \/ OnInit(s)
                         \/ OnLinking(s)
                         \/ OnSyncKeyFound(s)
                         \/ OnSyncContinue(s)
                         \/ OnReset(s)

Handler(s) == \/ OnInit(s)
              \/ OnLinking(s)
              \/ OnSyncExhausted(s)
              \/ OnSyncKeyFound(s)
              \/ OnSyncContinue(s)
              \/ OnReset(s)
PeerStep(s) == \/ s = Initiator /\ Connected
               \/ s = Acceptor /\ Accept
               \/ OnRead(s)
               \/ OnReadError(s)
               \/ Handler(s)
               \/ OnWrite(s)

Next == \/ BeginSync
        \/ BeginSyncBadAddress
        \/ \E s \in Side : PeerStep(s) \/ Leave(s)
        \/ Disconnect
        \/ GoSilent

Spec == Init /\ [][Next]_vars

(* The io_service runs every completion handler that is ready: no thread   *)
(* waits for the other end, so neither side can starve the other.          *)
FairSpec == Spec /\ \A s \in Side : WF_vars(PeerStep(s))
-----------------------------------------------------------------------------
(* Properties.                                                             *)

(* Type invariant: the state stays within the types the code gives it; in  *)
(* particular weights never leave -L..L (UpdateWeight) and an iteration    *)
(* counter never passes the limit (iteration_increase).                    *)
TypeOK == /\ pc \in [Side -> Operation]
          /\ started \in [Side -> BOOLEAN]
          /\ named \in [Side -> BOOLEAN]
          /\ tpm \in [Side -> Machine]
          /\ link \in {"none", "up", "closed", "silent"}
          /\ chan \in [Side -> Seq(Message)]
          /\ registered \in [Side -> BOOLEAN]
          /\ ring \in [Side -> Seq(Weights)]
          /\ keyLog \in [Side -> Seq(Weights)]

(* Some message of one of these types is on its way to s, or being handled. *)
InFlight(s, types) == chan[s] # <<>> /\ Head(chan[s]).type \in types

(* The two peers take turns: while the connection is up there is exactly    *)
(* one message outstanding between them, so they neither talk at once nor  *)
(* wait for each other (do_write, on_write, do_read).                      *)
OneTurn ==
    /\ \A s \in Side :
          chan[s] # <<>> => Len(chan[s]) = 1 /\ chan[Other(s)] = <<>>
    /\ link = "up" => \E s \in Side : chan[s] # <<>>

(* Every handler finds the machine its message is about, in the state it    *)
(* expects: the "no tpm found" branches of on_linking, on_sync and         *)
(* on_reset, which would leave the session without a reader or a writer,   *)
(* are never taken, and no exhausted machine is linked.                    *)
Routed ==
    \A s \in Side :
       /\ InFlight(s, {"init"}) => tpm[s].id = NoId
       /\ InFlight(s, {"link"}) => /\ Head(chan[s]).self = tpm[s].id
                                   /\ tpm[s].iteration = 0
       /\ InFlight(s, {"one", "advanced", "reset"}) => FromPartner(s)

(* When a partner answers, the vector and the hidden outputs its answer is  *)
(* about are still loaded: "update on old weight which should be still     *)
(* present in the tpm" (TpmNetworkHandler.cpp:227).                        *)
OldVectorStillLoaded ==
    \A s \in Side : InFlight(s, {"advanced"}) =>
       /\ Head(chan[s]).old = tpm[s].x
       /\ tpm[s].h = HiddenOutputs(tpm[s].w, tpm[s].x)

(* Equal machines do not go on unaware of it: an answer that does not ask   *)
(* for an update, for which on_sync makes no comparison, comes from a      *)
(* machine that differs from ours.  (Machines that become equal with the   *)
(* update that exhausts the limit are reset without a comparison.)         *)
SyncedIsNoticed ==
    \A s \in Side :
       InFlight(s, {"advanced"}) /\ ~Head(chan[s]).tell /\ pc[Other(s)] # "gone" =>
          tpm[s].w # tpm[Other(s)].w

(* The iteration counters never drift: the side that sent the outstanding   *)
(* sync message is level with its partner or one ahead, also across the    *)
(* resets that on_sync and on_reset make on the two sides.                 *)
IterationsInStep ==
    \A s \in Side : InFlight(s, {"one", "advanced"}) /\ pc[Other(s)] # "gone" =>
       tpm[Other(s)].iteration - tpm[s].iteration \in {0, 1}

(* Two key sequences agree up to a last key that only one of them has.      *)
OneLonger(a, b) == \E k \in Weights : a = Append(b, k)

(* Both sides find the same keys in the same order; while they are          *)
(* connected, a key only one of them has is announced to the other, whose  *)
(* machine still holds it (add_key_to_proper_keys in                       *)
(* sync_tpm_message_one_advanced and in on_reset).                         *)
KeysAgree ==
    \A s \in Side :
       LET o == Other(s)
       IN  \/ keyLog[s] = keyLog[o]
           \/ OneLonger(keyLog[s], keyLog[o])
           \/ /\ OneLonger(keyLog[o], keyLog[s])
              /\ link = "up" =>
                    /\ InFlight(s, {"reset"}) /\ Head(chan[s]).save
                    /\ keyLog[o] = Append(keyLog[s], tpm[s].w)

(* So do the key rings the two services encrypt and decrypt with.           *)
RingsAgree ==
    (\A s \in Side : registered[s]) =>
       \/ ring[Initiator] = ring[Acceptor]
       \/ OneLonger(ring[Initiator], ring[Acceptor])
       \/ OneLonger(ring[Acceptor], ring[Initiator])

(* The session implements the abstract key exchange: a side that finds the  *)
(* keys equal leads, a side told to save follows, all else is a stutter.   *)
KX == INSTANCE KeyExchange WITH Party <- Side, Key <- Weights, log <- keyLog
ImplementsKeyExchange == KX!Spec

(* No message is left lying: it is answered, unless the connection is lost  *)
(* (or the bound on keys stops the side it is for).                        *)
TurnPasses ==
    \A s \in Side :
       chan[s] # <<>> ~> \/ chan[Other(s)] # <<>>
                         \/ link # "up"
                         \/ Len(keyLog[s]) = MaxKeys

(* A key only one side has reaches the other, unless the connection is      *)
(* lost before the reset message is handled.                               *)
KeyCatchesUp ==
    \A s \in Side :
       OneLonger(keyLog[s], keyLog[Other(s)])
          ~> keyLog[s] = keyLog[Other(s)] \/ link # "up"

(* The peer was started, and is stopped. *)
Stopped(s) == pc[s] # "idle" /\ ~started[s]

(* A session that ends on one side ends on both: when one of two named      *)
(* peers has stopped, both services are removed (peer::stop, on_read).  A  *)
(* connection gone silent is exempt: nothing in the code notices it.       *)
StopPropagates ==
    named[Acceptor] /\ (\E s \in Side : Stopped(s))
        ~> link = "silent" \/ \A s \in Side : ~registered[s]

(* "it is necessary for the client to see if the connection between the     *)
(* tpms was successful if not then address or port could be wrong. this    *)
(* will be done by checking if the server_name exists"                     *)
(* (API_service.cpp:372-375): a service whose connection failed vanishes.  *)
StatusShowsFailure ==
    pc[Initiator] = "failed" ~> ~registered[Initiator]
=============================================================================

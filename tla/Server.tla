------------------------------- MODULE Server -------------------------------
(***************************************************************************)
(* One DynamiCrypt server: the services its applications register through  *)
(* the REST API (API_service, API_service_data_handler), and the peers     *)
(* that synchronise them (definitions.cpp, peer.cpp, main.cpp).            *)
(*                                                                         *)
(* The REST threads, and the handlers of the peers on four asio threads,   *)
(* meet in two containers.  peers is accessed under read_lock; services    *)
(* under no lock at all, and so a function of API_service_data_handler is  *)
(* a step for each time it looks at the vector.  What a race does to the   *)
(* vector itself is not modelled, only noted: overlap.                     *)
(*                                                                         *)
(* A session is cut down to what it does to these two (SyncSession has the *)
(* rest), and a service's partner name and keys to the registration they   *)
(* were meant for.                                                         *)
(***************************************************************************)
EXTENDS Integers, FiniteSets, SequencesExt

CONSTANTS
    Rest,         \* REST threads (two of them)
    Dialers,      \* peers that /sync creates
    Listeners,    \* peers that handle_accept creates
    NoPeer,
    Names,        \* service names
    Asked,        \* bound: those that applications ask for
    Longer,       \* what gen_name can make of a name by appending to it
    NoName,       \* the empty string, which names no service
    MaxServices   \* bound: registrations

Peer  == Dialers \union Listeners
Actor == Rest \union Peer

ASSUME ServerAssumption ==
    /\ Dialers \intersect Listeners = {}
    /\ Rest \intersect Peer = {}
    /\ NoPeer \notin Peer
    /\ NoName \notin Names
    /\ Asked \subseteq Names
    /\ Longer \in [Names -> SUBSET Names]
    /\ MaxServices \in Nat

MaybeName == Names \union {NoName}

(* Registrations are numbered (history); 0 is none of them.                 *)
Serial == 1 .. MaxServices

(* API_data.  data: whom its partner name and its keys were meant for.      *)
Slot == [name : MaybeName, serial : Serial, data : SUBSET Serial]

(* A name as an application got it from /init, and whether the application  *)
(* still holds it, that is, has not called /exit.                          *)
Ticket == [name : MaybeName, serial : Serial, held : BOOLEAN]

(* What a REST thread is in: new_service; update_partner; begin_sync; the   *)
(* loop of stop_sync.                                                      *)
RestStep == {"idle", "gen", "assign", "answer", "write", "begin", "exit"}

(* What a peer is in: not created; listed; its connection is awaited; a     *)
(* message is; the handler of a message; add_key in it.  Without an         *)
(* operation: gone, and failed, which is still listed.                     *)
PeerStep == {"new", "listed", "connecting", "reading", "handling", "append",
             "gone", "failed"}

(* What either is in: peer::stop; remove_service, called by it or before it.*)
StopStep == {"stop", "unlist", "remove", "erase"}

Step == RestStep \union PeerStep \union StopStep

(* The service and the registration a call is for, and the place it has    *)
(* found in services; the peer it starts or stops, and whether it is before*)
(* peer::stop; for stop_sync, the peers of its copy that it has yet to     *)
(* look at, and those it has to stop (history).                            *)
Call == [at : Step, name : MaybeName, serial : Nat, index : Nat,
         peer : Peer \union {NoPeer}, early : BOOLEAN,
         left : SUBSET Peer, due : SUBSET Peer]

Idle == [at |-> "idle", name |-> NoName, serial |-> 0, index |-> 0,
         peer |-> NoPeer, early |-> FALSE, left |-> {}, due |-> {}]

VARIABLES
    services,  \* API_service_data_handler::services
    peers,     \* the peers that are listed
    started,   \* peer::started_
    bears,     \* peer::service_name_
    session,   \* the registration a peer's session is for, or 0 (history)
    call,      \* what each actor is in
    tickets,   \* what /init has answered
    count,     \* registrations so far (history)
    overlap,   \* two actors have been inside services at once (history)
    reused,    \* gen_name has given out a name that is still borne (history)
    met        \* two /init have been in new_service at once (history)

peerVars == <<peers, started, bears, session>>
vars == <<services, peerVars, call, tickets, count, overlap, reused, met>>

Init == /\ services = <<>>
        /\ peers = {}
        /\ started = [p \in Peer |-> FALSE]
        /\ bears = [p \in Peer |-> NoName]
        /\ session = [p \in Peer |-> 0]
        /\ call = [a \in Actor |->
                      IF a \in Peer THEN [Idle EXCEPT !.at = "new", !.peer = a]
                      ELSE Idle]
        /\ tickets = {}
        /\ count = 0
        /\ overlap = FALSE
        /\ reused = FALSE
        /\ met = FALSE

-----------------------------------------------------------------------------
(* The registry.                                                           *)

InUse         == {services[i].name : i \in DOMAIN services}
Registered(n) == n \in InUse

(* The loop of remove_service and get_API_data finds the name n at i.       *)
Find(n, i) == /\ services[i].name = n
              /\ \A j \in 1 .. i - 1 : services[j].name # n

(* Mistaken: the first service is not compared.                             *)
FreshButFirst(n) == IF n \in {services[i].name : i \in DOMAIN services \ {1}}
                    THEN Longer[n] \ InUse ELSE {n}

(* gen_name appends random numbers until the name is not in use.            *)
Fresh(n) == IF Registered(n) THEN Longer[n] \ InUse ELSE {n}

SetCall(a, c) == call' = [call EXCEPT ![a] = c]

(* /init has a slot that is still without its name.                         *)
Naming(t) == call[t].at \in {"gen", "assign"}

(* a has looked at services, and is going to use what it has found.         *)
Inside(a) == call[a].at \in {"gen", "assign", "answer", "write", "append", "erase"}

(* a looks at services. *)
Touch(a) == overlap' = (overlap \/ \E b \in Actor \ {a} : Inside(b))

(* The name of the peer that a starts or stops. *)
PeerName(a) == IF call[a].peer = NoPeer THEN NoName ELSE bears[call[a].peer]

(* Somebody but t still goes by the name n: an application; a call for the  *)
(* service; a handler, or a call, of a peer of that name.                  *)
Borne(t, n) ==
    \/ \E k \in tickets : k.held /\ k.name = n
    \/ \E a \in Actor \ {t} : /\ call[a].at \notin {"gone", "failed"}
                              /\ n \in {call[a].name, PeerName(a)}

(* Mistaken: does not ask whether the peer has been stopped.                *)
ResumedAlways(p) == [Idle EXCEPT !.at = "reading", !.peer = p]

(* The handler of peer p ends: a peer that has been stopped writes nothing, *)
(* and that was its last operation.                                        *)
Resumed(p) == [Idle EXCEPT !.at = IF started[p] THEN "reading" ELSE "gone",
                           !.peer = p]

(* Where the caller of peer::stop goes on. *)
Stopped(a) == IF a \in Rest
              THEN [call[a] EXCEPT !.at = "exit", !.peer = NoPeer]
              ELSE [Idle EXCEPT !.at = "gone", !.peer = a]

(* Mistaken: on_connect's error handler does not stop.                      *)
ReturnedOnly(a) == [Stopped(a) EXCEPT !.index = 0]

(* And that of remove_service: on_connect's error handler stops next.       *)
Returned(a) == IF call[a].early THEN [Idle EXCEPT !.at = "stop", !.peer = a]
               ELSE [Stopped(a) EXCEPT !.index = 0]

-----------------------------------------------------------------------------
(* /init: new_service.                                                     *)

(* A slot without a name... *)
NewService(t, n) ==
    /\ call[t].at = "idle"
    /\ count < MaxServices
    /\ services' = Append(services, [name |-> NoName, serial |-> count + 1,
                                     data |-> {}])
    /\ count' = count + 1
    /\ SetCall(t, [Idle EXCEPT !.at = "gen", !.name = n,
                               !.serial = count + 1, !.index = Len(services) + 1])
    /\ met' = (met \/ \E u \in Rest \ {t} : Naming(u))
    /\ Touch(t)
    /\ UNCHANGED <<peerVars, tickets, reused>>

(* ... a name that no slot has... *)
GenName(t) ==
    /\ call[t].at = "gen"
    /\ \E n \in Fresh(call[t].name) :
          /\ SetCall(t, [call[t] EXCEPT !.at = "assign", !.name = n])
          /\ reused' = (reused \/ Borne(t, n))
    /\ Touch(t)
    /\ UNCHANGED <<services, peerVars, tickets, count, met>>

(* ... goes to services.back(), which is evaluated before gen_name or after *)
(* it, as the compiler likes...                                            *)
Assign(t) ==
    /\ call[t].at = "assign"
    /\ \E i \in {call[t].index, Len(services)} :
          services' = [services EXCEPT ![i].name = call[t].name]
    /\ SetCall(t, [call[t] EXCEPT !.at = "answer"])
    /\ Touch(t)
    /\ UNCHANGED <<peerVars, tickets, count, reused, met>>

(* ... and the name of services.back() is the answer. *)
Answer(t) ==
    /\ call[t].at = "answer"
    /\ tickets' = IF services = <<>> THEN tickets
                  ELSE tickets \union {[name |-> Last(services).name,
                                        serial |-> call[t].serial, held |-> TRUE]}
    /\ SetCall(t, Idle)
    /\ Touch(t)
    /\ UNCHANGED <<services, peerVars, count, reused, met>>

-----------------------------------------------------------------------------
(* /init_config.                                                           *)

(* check_service, and update_partner unless the service is gone by then.    *)
UpdatePartner(t, k) ==
    /\ call[t].at = "idle"
    /\ k.held
    /\ \E i \in DOMAIN services :
          /\ Find(k.name, i)
          /\ SetCall(t, [Idle EXCEPT !.at = "write", !.name = k.name,
                                     !.serial = k.serial, !.index = i])
    /\ Touch(t)
    /\ UNCHANGED <<services, peerVars, tickets, count, reused, met>>

(* Through the pointer that get_API_data has returned. *)
Written(a) == services' = [services EXCEPT ![call[a].index].data =
                                               @ \union {call[a].serial}]

WritePartner(t) ==
    /\ call[t].at = "write"
    /\ Written(t)
    /\ SetCall(t, Idle)
    /\ Touch(t)
    /\ UNCHANGED <<peerVars, tickets, count, reused, met>>

-----------------------------------------------------------------------------
(* Starting peers.                                                         *)

Served(serial) == \E p \in Peer : session[p] = serial

(* /sync: "one app essentially calls this".  The peer is listed first.      *)
BeginSync(t, k, p) ==
    /\ call[t].at = "idle"
    /\ call[p].at = "new"
    /\ k.held /\ ~Served(k.serial)
    /\ peers' = peers \union {p}
    /\ session' = [session EXCEPT ![p] = k.serial]
    /\ call' = [call EXCEPT ![t] = [Idle EXCEPT !.at = "begin", !.name = k.name,
                                                !.serial = k.serial, !.peer = p],
                            ![p].at = "listed"]
    /\ UNCHANGED <<services, started, bears, tickets, count, overlap, reused, met>>

(* The connection is attempted, or the address is none.                     *)
Start(t) ==
    LET p == call[t].peer
    IN  /\ call[t].at = "begin"
        /\ started' = [started EXCEPT ![p] = TRUE]
        /\ bears' = [bears EXCEPT ![p] = call[t].name]
        /\ \E next \in {"connecting", "failed"} :
              call' = [call EXCEPT ![t] = Idle, ![p].at = next]
        /\ UNCHANGED <<services, peers, session, tickets, count, overlap, reused, met>>

(* handle_accept: a peer without a name. *)
Accept(p) ==
    /\ call[p].at = "new"
    /\ peers' = peers \union {p}
    /\ SetCall(p, [call[p] EXCEPT !.at = "listed"])
    /\ UNCHANGED <<services, started, bears, session, tickets, count, overlap, reused, met>>

StartAccepted(p) ==
    /\ p \in Listeners
    /\ call[p].at = "listed"
    /\ started' = [started EXCEPT ![p] = TRUE]
    /\ SetCall(p, [call[p] EXCEPT !.at = "reading"])
    /\ UNCHANGED <<services, peers, bears, session, tickets, count, overlap, reused, met>>

OnConnectOk(p) ==
    /\ call[p].at = "connecting"
    /\ SetCall(p, Resumed(p))
    /\ UNCHANGED <<services, peerVars, tickets, count, overlap, reused, met>>

(* Refused, unreachable, or aborted by a stop: removes the service, then    *)
(* stops.                                                                  *)
OnConnectErr(p) ==
    /\ call[p].at = "connecting"
    /\ SetCall(p, [call[p] EXCEPT !.at = "remove", !.early = TRUE])
    /\ UNCHANGED <<services, peerVars, tickets, count, overlap, reused, met>>

-----------------------------------------------------------------------------
(* Messages.                                                               *)

(* on_read finds the peer started. *)
OnRead(p) ==
    /\ call[p].at = "reading"
    /\ started[p]
    /\ bears[p] # NoName
    /\ SetCall(p, [call[p] EXCEPT !.at = "handling"])
    /\ UNCHANGED <<services, peerVars, tickets, count, overlap, reused, met>>

(* Mistaken: the peer does not know yet which session this is.              *)
OnReadInitUnknown(p, k) ==
    /\ call[p].at = "reading"
    /\ started[p]
    /\ bears[p] = NoName
    /\ SetCall(p, [call[p] EXCEPT !.at = "handling", !.name = k.name])
    /\ UNCHANGED <<services, peerVars, tickets, count, overlap, reused, met>>

(* So does it with the first message of a connection, which names the       *)
(* service: the partner has the name from the application.                 *)
OnReadInit(p, k) ==
    /\ call[p].at = "reading"
    /\ started[p]
    /\ bears[p] = NoName
    /\ ~Served(k.serial)
    /\ session' = [session EXCEPT ![p] = k.serial]
    /\ SetCall(p, [call[p] EXCEPT !.at = "handling", !.name = k.name])
    /\ UNCHANGED <<services, peers, started, bears, tickets, count, overlap, reused, met>>

(* The connection is lost, or this end of it is closed. *)
OnReadError(p) ==
    /\ call[p].at = "reading"
    /\ SetCall(p, [call[p] EXCEPT !.at = "stop"])
    /\ UNCHANGED <<services, peerVars, tickets, count, overlap, reused, met>>

OnInit(p) ==
    /\ call[p].at = "handling"
    /\ bears[p] = NoName
    /\ bears' = [bears EXCEPT ![p] = call[p].name]
    /\ SetCall(p, Resumed(p))
    /\ UNCHANGED <<services, peers, started, session, tickets, count, overlap, reused, met>>

(* A handler that finds no key. *)
OnMessage(p) ==
    /\ call[p].at = "handling"
    /\ bears[p] # NoName
    /\ SetCall(p, Resumed(p))
    /\ UNCHANGED <<services, peerVars, tickets, count, overlap, reused, met>>

(* One that does: add_key. *)
OnKey(p) ==
    /\ call[p].at = "handling"
    /\ bears[p] # NoName
    /\ \/ \E i \in DOMAIN services :
             /\ Find(bears[p], i)
             /\ SetCall(p, [call[p] EXCEPT !.at = "append", !.serial = session[p],
                                           !.index = i])
       \/ /\ ~Registered(bears[p])
          /\ SetCall(p, Resumed(p))
    /\ Touch(p)
    /\ UNCHANGED <<services, peerVars, tickets, count, reused, met>>

AddKey(p) ==
    /\ call[p].at = "append"
    /\ Written(p)
    /\ SetCall(p, Resumed(p))
    /\ Touch(p)
    /\ UNCHANGED <<peerVars, tickets, count, reused, met>>

-----------------------------------------------------------------------------
(* Stopping.                                                               *)

(* /exit: stop_sync copies the list... *)
Leave(t, k) ==
    /\ call[t].at = "idle"
    /\ k.held
    /\ tickets' = (tickets \ {k}) \union {[k EXCEPT !.held = FALSE]}
    /\ SetCall(t, [Idle EXCEPT !.at = "exit", !.name = k.name,
                               !.serial = k.serial, !.left = peers,
                               !.due = {p \in peers : started[p] /\ bears[p] = k.name}])
    /\ UNCHANGED <<services, peerVars, count, overlap, reused, met>>

(* Mistaken: the iterator is not advanced past peers of other names.        *)
NextPeerStuck(t) ==
    /\ call[t].at = "exit"
    /\ \E p \in call[t].left :
          SetCall(t, IF bears[p] = call[t].name
                     THEN [call[t] EXCEPT !.left = @ \ {p}, !.at = "stop", !.peer = p]
                     ELSE call[t])
    /\ UNCHANGED <<services, peerVars, tickets, count, overlap, reused, met>>

(* Mistaken: the iterator is not advanced past peers that are stopped.      *)
NextPeerAgain(t) ==
    /\ call[t].at = "exit"
    /\ \E p \in call[t].left :
          SetCall(t, IF bears[p] = call[t].name
                     THEN [call[t] EXCEPT !.at = "stop", !.peer = p]
                     ELSE [call[t] EXCEPT !.left = @ \ {p}])
    /\ UNCHANGED <<services, peerVars, tickets, count, overlap, reused, met>>

(* ... looks at one peer after the other, and stops those of the name.      *)
NextPeer(t) ==
    /\ call[t].at = "exit"
    /\ \E p \in call[t].left :
          SetCall(t, [call[t] EXCEPT
                         !.left = @ \ {p},
                         !.at   = IF bears[p] = call[t].name THEN "stop" ELSE @,
                         !.peer = IF bears[p] = call[t].name THEN p ELSE @])
    /\ UNCHANGED <<services, peerVars, tickets, count, overlap, reused, met>>

(* Mistaken: the last peer of the copy is not looked at.                    *)
LeftEarly(t) ==
    /\ call[t].at = "exit"
    /\ Cardinality(call[t].left) <= 1
    /\ SetCall(t, Idle)
    /\ UNCHANGED <<services, peerVars, tickets, count, overlap, reused, met>>

Left(t) ==
    /\ call[t].at = "exit"
    /\ call[t].left = {}
    /\ SetCall(t, Idle)
    /\ UNCHANGED <<services, peerVars, tickets, count, overlap, reused, met>>

(* Mistaken: whoever comes second does it all again.                        *)
StopTwice(a) ==
    /\ call[a].at = "stop"
    /\ started' = [started EXCEPT ![call[a].peer] = FALSE]
    /\ SetCall(a, [call[a] EXCEPT !.at = "unlist"])
    /\ UNCHANGED <<services, peers, bears, session, tickets, count, overlap, reused, met>>

(* Mistaken: waits until the peer is started.                               *)
StopWaits(a) ==
    /\ call[a].at = "stop"
    /\ started[call[a].peer]
    /\ started' = [started EXCEPT ![call[a].peer] = FALSE]
    /\ SetCall(a, [call[a] EXCEPT !.at = "unlist"])
    /\ UNCHANGED <<services, peers, bears, session, tickets, count, overlap, reused, met>>

(* peer::stop: under read_lock, the first to come closes the socket...      *)
Stop(a) ==
    LET p == call[a].peer
    IN  /\ call[a].at = "stop"
        /\ started' = [started EXCEPT ![p] = FALSE]
        /\ SetCall(a, IF started[p] THEN [call[a] EXCEPT !.at = "unlist"]
                      ELSE Stopped(a))
        /\ UNCHANGED <<services, peers, bears, session, tickets, count, overlap, reused, met>>

(* Mistaken: leaves the service to stop_sync.                               *)
UnlistOnly(a) ==
    /\ call[a].at = "unlist"
    /\ peers' = peers \ {call[a].peer}
    /\ SetCall(a, Stopped(a))
    /\ UNCHANGED <<services, started, bears, session, tickets, count, overlap, reused, met>>

(* ... under read_lock again, takes the peer off the list... *)
Unlist(a) ==
    LET p == call[a].peer
    IN  /\ call[a].at = "unlist"
        /\ peers' = peers \ {p}
        /\ SetCall(a, [call[a] EXCEPT !.at = "remove"])
        /\ UNCHANGED <<services, started, bears, session, tickets, count, overlap, reused, met>>

(* ... and removes the service by its name: remove_service finds it...      *)
RemoveService(a) ==
    /\ call[a].at = "remove"
    /\ \/ \E i \in DOMAIN services :
             /\ Find(PeerName(a), i)
             /\ SetCall(a, [call[a] EXCEPT !.at = "erase", !.index = i])
       \/ /\ ~Registered(PeerName(a))
          /\ SetCall(a, Returned(a))
    /\ Touch(a)
    /\ UNCHANGED <<services, peerVars, tickets, count, reused, met>>

(* Mistaken: erases the last service.                                       *)
EraseLast(a) ==
    /\ call[a].at = "erase"
    /\ services' = IF services = <<>> THEN services ELSE Front(services)
    /\ SetCall(a, Returned(a))
    /\ Touch(a)
    /\ UNCHANGED <<peerVars, tickets, count, reused, met>>

(* ... and erases what is in its place. *)
Erase(a) ==
    /\ call[a].at = "erase"
    /\ services' = IF call[a].index \in DOMAIN services
                   THEN RemoveAt(services, call[a].index) ELSE services
    /\ SetCall(a, Returned(a))
    /\ Touch(a)
    /\ UNCHANGED <<peerVars, tickets, count, reused, met>>

-----------------------------------------------------------------------------
(* What a REST thread is asked to do. *)
Request(t) == \/ \E n \in Asked : NewService(t, n)
              \/ \E k \in tickets : \/ UpdatePartner(t, k)
                                    \/ \E p \in Dialers : BeginSync(t, k, p)
                                    \/ Leave(t, k)

(* What happens on a peer's connection. *)
Event(p) == \/ p \in Listeners /\ Accept(p)
            \/ OnRead(p)
            \/ \E k \in tickets : OnReadInit(p, k)
            \/ OnReadError(p)

RestContinues(t) == \/ GenName(t) \/ Assign(t) \/ Answer(t)
                    \/ WritePartner(t)
                    \/ Start(t)
                    \/ NextPeer(t) \/ Left(t)

PeerContinues(p) == \/ StartAccepted(p)
                    \/ OnConnectOk(p) \/ OnConnectErr(p)
                    \/ OnInit(p) \/ OnMessage(p) \/ OnKey(p) \/ AddKey(p)

StopContinues(a) == Stop(a) \/ Unlist(a) \/ RemoveService(a) \/ Erase(a)

Next == \/ \E t \in Rest : Request(t) \/ RestContinues(t)
        \/ \E p \in Peer : Event(p) \/ PeerContinues(p)
        \/ \E a \in Actor : StopContinues(a)

Spec == Init /\ [][Next]_vars

(* A thread that is in a call or a handler goes on with it; an attempt to   *)
(* connect ends; and reading from a closed socket does.                    *)
FairSpec ==
    /\ Spec
    /\ \A t \in Rest : WF_vars(RestContinues(t) \/ StopContinues(t))
    /\ \A p \in Peer : WF_vars(\/ PeerContinues(p)
                               \/ StopContinues(p)
                               \/ ~started[p] /\ OnReadError(p))
-----------------------------------------------------------------------------
(* Properties.                                                             *)

(* Type invariant. *)
TypeOK == /\ services \in Seq(Slot)
          /\ peers \subseteq Peer
          /\ started \in [Peer -> BOOLEAN]
          /\ bears \in [Peer -> MaybeName]
          /\ session \in [Peer -> 0 .. MaxServices]
          /\ call \in [Actor -> Call]
          /\ tickets \subseteq Ticket
          /\ count \in 0 .. MaxServices
          /\ overlap \in BOOLEAN
          /\ reused \in BOOLEAN
          /\ met \in BOOLEAN

(* peer::stop erases what std::find has found without a look at it          *)
(* (peer.cpp:71-72): a peer is always still listed there, though a REST     *)
(* thread, and another, and its own handler may stop it at once.           *)
ErasesItself ==
    /\ \A p \in Peer : started[p] => p \in peers
    /\ \A a \in Actor : call[a].at = "unlist" => call[a].peer \in peers
    /\ \A a, b \in Actor :
          /\ call[a].at = "unlist" /\ call[b].at = "unlist"
          /\ call[a].peer = call[b].peer
          => a = b

(* When /exit answers, every peer that was running for the service when it  *)
(* was called has been stopped, whatever was listed or unlisted meanwhile,  *)
(* and whoever else was stopping them (stop_sync).                         *)
ExitStops ==
    [][\A t \in Rest :
          call[t].at = "exit" /\ call[t].name # NoName /\ call'[t].at = "idle" =>
             \A p \in call[t].due : ~started[p]]_vars

(* "better to generate this here though to avoid conflicts"                 *)
(* (API_service.cpp:126): no two services have the same name.              *)
NoConflicts ==
    \A i, j \in DOMAIN services :
       services[i].name = services[j].name /\ services[i].name # NoName => i = j

(* Only those two get into each other's way: whatever stops, removals, keys *)
(* and updates run between the steps of an /init, names are unique until   *)
(* two /init have been in new_service at once (new_service, gen_name).     *)
UniqueNames == ~met => NoConflicts

(* The peer's session goes on. *)
Running(p) == /\ started[p]
              /\ bears[p] # NoName
              /\ call[p].at \in {"connecting", "reading", "handling", "append",
                                 "failed"}

(* Nothing in the code keeps actors from being inside services together     *)
(* (overlap), or gen_name from giving out a name that an application, a     *)
(* peer or a call still goes by (reused); but no other way leads from one   *)
(* session to another.  Until one of the two has happened each session has *)
(* its service until it stops, however others stop and whatever they       *)
(* remove by name, and what is meant for one never gets to another.        *)
OwnService ==
    ~overlap /\ ~reused =>
       /\ \A i \in DOMAIN services : services[i].data \subseteq {services[i].serial}
       /\ \A p \in Peer : Running(p) =>
             \E i \in DOMAIN services : /\ services[i].serial = session[p]
                                       /\ services[i].name = bears[p]

(* A peer that has been stopped, once all calls of stop that were to do it  *)
(* have returned, is not listed, and its service is gone with it           *)
(* (peer::stop).                                                           *)
StopForgets ==
    \A p \in Peer :
       /\ bears[p] # NoName /\ ~started[p]
       /\ \A a \in Actor : ~(/\ call[a].at \in {"unlist", "remove", "erase"}
                             /\ call[a].peer = p)
       => /\ p \notin peers
          /\ overlap \/ \A i \in DOMAIN services : services[i].serial # session[p]

(* A bound for the steps that a request still takes, where stop_sync has    *)
(* n peers of its copy left: each is looked at and stopped once.           *)
RequestWork(at, n) ==
    CASE at = "gen"    -> 3
      [] at = "assign" -> 2
      [] at \in {"answer", "write", "begin"} -> 1
      [] at = "exit"   -> 5 * n + 1
      [] at = "erase"  -> 5 * n + 2
      [] at = "remove" -> 5 * n + 3
      [] at = "unlist" -> 5 * n + 4
      [] at = "stop"   -> 5 * n + 5
      [] OTHER -> 0

(* Every step of a request brings its answer nearer, whatever peers come,   *)
(* go and stop while it runs: an /exit that finds n peers is through with  *)
(* them in 5 * n + 1 (stop_sync).                                          *)
RequestsShrink ==
    [][\A t \in Rest :
          call[t].at # "idle" /\ call'[t] # call[t] =>
             RequestWork(call'[t].at, Cardinality(call'[t].left))
                < RequestWork(call[t].at, Cardinality(call[t].left))]_vars

(* Every request is answered: gen_name finds a name, stop_sync comes to its *)
(* end, nobody waits for anybody.                                          *)
RequestsEnd ==
    \A t \in Rest : call[t].at # "idle" ~> call[t].at = "idle"

(* A bound for the steps that a stopped peer still takes. *)
PeerWork(at) ==
    CASE at \in {"gone", "failed"}  -> 0
      [] at \in {"append", "stop"}  -> 1
      [] at \in {"handling", "erase"} -> 2
      [] at \in {"remove", "reading"} -> 3
      [] at \in {"unlist", "connecting"} -> 4
      [] OTHER -> 5

(* A peer that has been stopped, from wherever and at whatever point, only  *)
(* winds down: nobody starts it again, it takes up no new operation, and   *)
(* it is gone after four steps at most (on_read and do_write ask started). *)
PeersWindDown ==
    [][\A p \in Peer :
          call[p].at \notin {"new", "listed"} /\ ~started[p] =>
             /\ ~started'[p]
             /\ call'[p] # call[p] =>
                   PeerWork(call'[p].at) < PeerWork(call[p].at)]_vars

(* A peer that has been stopped, from wherever and at whatever point, ends  *)
(* its own operation too, and with it the last reference to the peer.       *)
SessionsEnd ==
    \A p \in Peer :
       call[p].at \notin {"new", "listed"} /\ ~started[p] ~>
          call[p].at \in {"gone", "failed"}
=============================================================================

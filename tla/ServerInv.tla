------------------------------ MODULE ServerInv ------------------------------
(***************************************************************************)
(* An inductive invariant of Server, in layers, each on top of the one     *)
(* before: where the calls and the peers are; whose the registrations are;  *)
(* what a call knows about the services while no other is inside; and what *)
(* it knows besides while no name is given out that is still borne.  Next  *)
(* to these two, what keeps names apart in all other races.                *)
(***************************************************************************)
EXTENDS Server

-----------------------------------------------------------------------------
(* Calls and peers.                                                        *)

Stopping(a) == call[a].at \in {"unlist", "remove", "erase"}

(* The last reference to the list entry and the service of a peer: a call  *)
(* that has found it started.                                              *)
Ending(a, p) == /\ Stopping(a) /\ ~call[a].early
                /\ call[a].peer = p

RestCalls ==
    \A t \in Rest :
       /\ call[t].at \in RestStep \union StopStep
       /\ ~call[t].early
       /\ call[t].at \in StopStep \union {"begin"} <=> call[t].peer # NoPeer
       /\ call[t].at = "idle" => call[t].name = NoName
       /\ call[t].at \in {"gen", "assign", "answer"} => call[t].name # NoName
       /\ call[t].at \in RestStep \ {"exit"} =>
             call[t].due = {} /\ call[t].left = {}

Beginning ==
    \A t \in Rest : call[t].at = "begin" =>
       /\ call[t].peer \in Dialers
       /\ call[call[t].peer].at = "listed"
       /\ session[call[t].peer] = call[t].serial
       /\ \A u \in Rest : call[u].at = "begin" /\ call[u].peer = call[t].peer => u = t

PeerCalls ==
    \A p \in Peer :
       /\ call[p].at \in PeerStep \union StopStep
       /\ call[p].peer = p
       /\ call[p].at = "new" => p \notin peers
       /\ call[p].at \in {"new", "listed"} => ~started[p] /\ bears[p] = NoName
       /\ call[p].at = "listed" => p \in peers
       /\ call[p].at = "listed" /\ p \in Dialers =>
             \E t \in Rest : call[t].at = "begin" /\ call[t].peer = p
       /\ call[p].at = "new" \/ (call[p].at = "listed" /\ p \in Listeners) =>
             session[p] = 0
       /\ call[p].at = "append" => /\ bears[p] # NoName
                                   /\ call[p].serial = session[p]
       /\ call[p].at = "gone" => ~started[p]
       /\ call[p].early => call[p].at \in {"remove", "erase"}

(* stop_sync looks at peers that have been listed. *)
Reached ==
    \A t \in Rest :
       /\ \A p \in call[t].left : call[p].at # "new"
       /\ \A p \in call[t].due : call[p].at \notin {"new", "listed"}
       /\ call[t].at \in StopStep => call[call[t].peer].at # "new"

(* What a call of stop has behind it.                                       *)
Stops ==
    \A a \in Actor :
       /\ call[a].at = "unlist" => ~call[a].early
       /\ Stopping(a) => call[call[a].peer].at \notin {"new", "listed"}
       /\ Stopping(a) /\ ~call[a].early => ~started[call[a].peer]
       /\ call[a].at \in {"remove", "erase"} /\ ~call[a].early =>
             call[a].peer \notin peers

(* A stopped peer is on the list only until the one who stops it gets there.*)
Unlisted ==
    \A p \in Peer :
       /\ p \in peers /\ ~started[p]
       /\ call[p].at # "listed"
       => \E a \in Actor : call[a].at = "unlist" /\ call[a].peer = p

(* The peers that stop_sync has to stop are ahead of it, or stopped.        *)
DueAhead ==
    \A t \in Rest : \A p \in call[t].due :
       started[p] /\ call[t].name # NoName =>
          /\ bears[p] = call[t].name
          /\ \/ p \in call[t].left
             \/ call[t].at = "stop" /\ call[t].peer = p

Calls == TypeOK /\ RestCalls /\ Beginning /\ PeerCalls /\ Reached /\ Stops
            /\ ErasesItself /\ Unlisted /\ DueAhead
-----------------------------------------------------------------------------
(* Registrations.                                                          *)

(* /init has answered that registration s is named n.                       *)
Knows(n, s) == \E k \in tickets : k.name = n /\ k.serial = s

Making(t) == call[t].at \in {"gen", "assign", "answer"}

SlotNumbers ==
    /\ \A i \in DOMAIN services : services[i].serial <= count
    /\ \A i, j \in DOMAIN services : services[i].serial = services[j].serial => i = j

TicketNumbers ==
    /\ \A k \in tickets : k.serial <= count
    /\ \A k, m \in tickets : k.serial = m.serial => k = m

(* A registration that is being made has not been answered.                 *)
MakingNumbers ==
    \A t \in Rest : Making(t) =>
       /\ call[t].serial \in 1 .. count
       /\ \A k \in tickets : k.serial # call[t].serial
       /\ \A u \in Rest : Making(u) /\ call[u].serial = call[t].serial => u = t

Numbers == SlotNumbers /\ TicketNumbers /\ MakingNumbers

(* Sessions and calls are for registrations that have been, a registration  *)
(* has no two sessions, and who has the name of one has the right one.      *)
Sessions ==
    /\ \A p \in Peer :
          /\ session[p] # 0 => \E k \in tickets : k.serial = session[p]
          /\ bears[p] # NoName => Knows(bears[p], session[p])
          /\ call[p].at = "handling" /\ bears[p] = NoName =>
                Knows(call[p].name, session[p])
    /\ \A p, q \in Peer : session[p] = session[q] /\ session[p] # 0 => p = q
    /\ \A t \in Rest : ~Making(t) /\ call[t].at # "idle" =>
          Knows(call[t].name, call[t].serial)

Registrations == Numbers /\ Sessions
-----------------------------------------------------------------------------
(* While no two /init have been in new_service at once, a name that has     *)
(* been chosen stays free until it is written, whatever others do.          *)
NamesApart ==
    ~met =>
       /\ \A t, u \in Rest : Naming(t) /\ Naming(u) => t = u
       /\ \A t \in Rest : call[t].at = "assign" => ~Registered(call[t].name)
       /\ NoConflicts
-----------------------------------------------------------------------------
(* While no two actors have been inside services at once.                   *)

OneInside == \A a, b \in Actor : Inside(a) /\ Inside(b) => a = b

(* The slot of a registration that is being made is the last...             *)
FoundLast(a) ==
    LET n == Len(services)
    IN  /\ Making(a) => /\ n \in DOMAIN services
                        /\ call[a].index = n
                        /\ services[n].serial = call[a].serial
        /\ call[a].at \in {"gen", "assign"} => services[n].name = NoName
        /\ call[a].at = "assign" => ~Registered(call[a].name)
        /\ call[a].at = "answer" => services[n].name = call[a].name

(* ... and what a call has found by a name is still there.                  *)
FoundNamed(a) ==
    /\ call[a].at \in {"write", "append", "erase"} =>
          call[a].index \in DOMAIN services
    /\ call[a].at = "write" => services[call[a].index].name = call[a].name
    /\ call[a].at \in {"append", "erase"} =>
          /\ services[call[a].index].name = PeerName(a)
          /\ PeerName(a) # NoName

Found == \A a \in Actor : FoundLast(a) /\ FoundNamed(a)

Unique == \A i, j \in DOMAIN services : services[i].name = services[j].name => i = j

Nameless == Registered(NoName) => \E t \in Rest : Naming(t)

Answered == \A k \in tickets :
               /\ k.name # NoName
               /\ \A i \in DOMAIN services :
                     services[i].serial = k.serial => services[i].name = k.name

(* An accepted peer is not stopped by others before it has a name.          *)
UnnamedPeer(p) ==
    /\ call[p].at = "reading" => session[p] = 0 /\ started[p]
    /\ call[p].at = "handling" => started[p]
    /\ call[p].at \in {"new", "listed", "reading", "handling", "gone"} \union StopStep
    /\ call[p].at \in {"gone"} \union StopStep => session[p] = 0

Unnamed == \A p \in Peer : bears[p] = NoName => UnnamedPeer(p)

(* A REST thread stops peers of its own name.                               *)
NameSakes ==
    \A t \in Rest : call[t].at \in StopStep => bears[call[t].peer] = call[t].name

(* The service of a peer that has been stopped is gone when all who stop it *)
(* are through.                                                            *)
Forgotten ==
    \A p \in Peer :
       /\ bears[p] # NoName /\ ~started[p]
       /\ \A a \in Actor : ~Ending(a, p)
       => \A i \in DOMAIN services : services[i].serial # session[p]

Alone == /\ OneInside /\ Found
         /\ Unique /\ Nameless /\ Answered
         /\ Unnamed /\ NameSakes /\ Forgotten

Undisturbed == ~overlap => Alone
-----------------------------------------------------------------------------
(* While, besides, no name has been given out that was borne.               *)

Present(n, s) == \E i \in DOMAIN services : /\ services[i].name = n
                                           /\ services[i].serial = s

(* Who has not begun to stop has its service.                               *)
Kept ==
    /\ \A p \in Peer :
          /\ Running(p) => Present(bears[p], session[p])
          /\ call[p].at = "handling" /\ bears[p] = NoName =>
                Present(call[p].name, session[p])
    /\ \A t \in Rest : call[t].at = "begin" => Present(call[t].name, call[t].serial)
    /\ \A k \in tickets : ~Served(k.serial) => Present(k.name, k.serial)

(* An application, a call, or a peer, means the registration s by n.        *)
TicketMeans(n, s) == \E k \in tickets : k.held /\ k.name = n /\ k.serial = s

CallMeans(n, s) == \E t \in Rest : /\ call[t].at \notin {"idle", "gen"}
                                   /\ call[t].name = n /\ call[t].serial = s

PeerMeans(n, s) ==
    \E p \in Peer :
       /\ session[p] = s
       /\ \/ call[p].at \notin {"gone", "failed"} /\ bears[p] = n
          \/ call[p].at = "handling" /\ bears[p] = NoName /\ call[p].name = n

Means(n, s) == TicketMeans(n, s) \/ CallMeans(n, s) \/ PeerMeans(n, s)
                  \/ Present(n, s)

(* Whoever goes by a name means the same by it. *)
OneMeaning == \A n \in Names : \A s, r \in Serial : Means(n, s) /\ Means(n, r) => s = r

(* A REST thread stops the peer of its own registration. *)
OwnPeer == \A t \in Rest : Stopping(t) => session[call[t].peer] = call[t].serial

Data == \A i \in DOMAIN services : services[i].data \subseteq {services[i].serial}

Separate == Kept /\ OneMeaning /\ OwnPeer /\ Data

Apart == ~overlap /\ ~reused => Separate

ServerInvariant == Calls /\ Registrations /\ NamesApart /\ Undisturbed /\ Apart
=============================================================================

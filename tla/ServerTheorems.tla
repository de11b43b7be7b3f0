--------------------------- MODULE ServerTheorems ---------------------------
(***************************************************************************)
(* More about Server: that names stay apart in any race but that of two     *)
(* /init; what holds as long as no two actors have been inside services at *)
(* once; and what holds as long as, besides, no name has been given out    *)
(* that is still borne.  For any number of REST threads, peers, names and  *)
(* registrations.                                                          *)
(***************************************************************************)
EXTENDS ServerProofs

-----------------------------------------------------------------------------
OthersOutside(a) == \A b \in Actor : b # a => ~Inside(b)

LEMMA NamedFacts ==
    ASSUME Calls, Registrations, Answered
    PROVE  /\ \A k \in tickets : k.name \in Names /\ k.serial \in Serial
           /\ \A n, s : Knows(n, s) => n \in Names /\ s \in Serial
           /\ \A p \in Peer : bears[p] # NoName =>
                 bears[p] \in Names /\ session[p] \in Serial
           /\ \A p \in Peer : call[p].at = "handling" /\ bears[p] = NoName =>
                 call[p].name \in Names /\ session[p] \in Serial
           /\ \A t \in Rest : call[t].at \notin {"idle", "gen"} =>
                 call[t].name \in Names /\ call[t].serial \in Serial
<1>1. \A k \in tickets : k.name \in Names /\ k.serial \in Serial
  BY HereFacts DEF Calls, Answered, Ticket, MaybeName
<1>2. \A n, s : Knows(n, s) => n \in Names /\ s \in Serial
  BY <1>1 DEF Knows
<1>3. \A p \in Peer : /\ bears[p] # NoName => Knows(bears[p], session[p])
                      /\ call[p].at = "handling" /\ bears[p] = NoName =>
                            Knows(call[p].name, session[p])
  BY DEF Registrations, Sessions
<1>4. ASSUME NEW t \in Rest, call[t].at \notin {"idle", "gen"}
      PROVE  call[t].name \in Names /\ call[t].serial \in Serial
  <2>1. CASE Making(t)
    <3>1. call[t].serial \in 1 .. count /\ count \in 0 .. MaxServices /\ MaxServices \in Nat
      BY <2>1, HereFacts, ActorFacts DEF Calls, Registrations, Numbers, MakingNumbers
    <3>2. call[t].name # NoName /\ call[t] \in Call
      BY <2>1, HereFacts, ActorFacts DEF Calls, RestCalls, Making
    <3>3. QED
      BY <3>1, <3>2 DEF Serial, Call, MaybeName
  <2>2. CASE ~Making(t)
    BY <1>2, <1>4, <2>2 DEF Registrations, Sessions
  <2>3. QED
    BY <2>1, <2>2
<1>5. QED
  BY <1>1, <1>2, <1>3, <1>4

-----------------------------------------------------------------------------
(* The third layer.                                                        *)

(* Those who are inside have not changed. *)
LEMMA InsideKept ==
    ASSUME Calls, OneInside, Found, services' = services,
           \A b \in Actor : Inside(b)' => call'[b] = call[b],
           \A p \in Peer : bears[p] # NoName => bears'[p] = bears[p]
    PROVE  OneInside' /\ Found'
<1>1. OneInside'
  BY DEF OneInside, Inside
<1>2. ASSUME NEW b \in Actor
      PROVE  FoundLast(b)' /\ FoundNamed(b)'
  <2>1. CASE Inside(b)'
    <3>1. call'[b] = call[b] /\ call[b] \in Call /\ FoundLast(b) /\ FoundNamed(b)
      BY <2>1, HereFacts DEF Calls, Found
    <3>2. PeerName(b) # NoName => PeerName(b)' = PeerName(b)
      BY <3>1 DEF PeerName, Call
    <3>3. FoundLast(b)'
      BY <3>1 DEF FoundLast, Making, Registered, InUse
    <3>4. FoundNamed(b)'
      BY <3>1, <3>2 DEF FoundNamed
    <3>5. QED
      BY <3>3, <3>4
  <2>2. CASE ~Inside(b)'
    BY <2>2 DEF Inside, FoundLast, FoundNamed, Making
  <2>3. QED
    BY <2>1, <2>2
<1>3. QED
  BY <1>1, <1>2 DEF Found

(* Nobody else is inside. *)
LEMMA InsideAlone ==
    ASSUME NEW a \in Actor, OthersOutside(a),
           \A b \in Actor : b # a => call'[b] = call[b],
           Inside(a)' => FoundLast(a)' /\ FoundNamed(a)'
    PROVE  OneInside' /\ Found'
<1>1. \A b \in Actor : b # a => ~Inside(b)'
  BY DEF OthersOutside, Inside
<1>2. ASSUME NEW b \in Actor
      PROVE  FoundLast(b)' /\ FoundNamed(b)'
  <2>1. CASE Inside(b)'
    BY <1>1, <2>1
  <2>2. CASE ~Inside(b)'
    BY <2>2 DEF Inside, FoundLast, FoundNamed, Making
  <2>3. QED
    BY <2>1, <2>2
<1>3. QED
  BY <1>1, <1>2 DEF OneInside, Found

(* What a peer's own call, and its names, may do to the third layer: a, who *)
(* may be it, goes on to c.                                                *)
LEMMA AloneStep ==
    ASSUME Calls, Registrations, Alone, NEW a \in Actor, NEW c \in Call, SetCall(a, c),
           OthersOutside(a) \/ (services' = services /\ ~Inside(a)'),
           Inside(a)' => FoundLast(a)' /\ FoundNamed(a)',
           Unique', Nameless', Answered',
           \A p \in Peer :
              /\ p # a => session'[p] = session[p] /\ bears'[p] = bears[p]
              /\ bears[p] # NoName => session'[p] = session[p] /\ bears'[p] = bears[p]
              /\ bears'[p] # bears[p] => started'[p]
              /\ started'[p] # started[p] => p = a \/ bears[p] # NoName,
           a \in Peer /\ bears'[a] = NoName => UnnamedPeer(a)',
           a \in Rest /\ c.at \in StopStep => c.peer \in Peer /\ bears[c.peer] = c.name,
           \A p \in Peer : bears[p] # NoName =>
              /\ started[p] /\ ~started'[p] => Ending(a, p)'
              /\ Ending(a, p) /\ ~Ending(a, p)' =>
                    \A i \in DOMAIN services' : services'[i].serial # session[p],
           \A i \in DOMAIN services' :
              \/ \E j \in DOMAIN services : services[j].serial = services'[i].serial
              \/ \A p \in Peer : session[p] # services'[i].serial
    PROVE  Alone'
<1>1. /\ call'[a] = c
      /\ \A b \in Actor : b # a => call'[b] = call[b]
  BY CallFacts DEF Calls, TypeOK
<1>2. OneInside' /\ Found'
  <2>1. CASE OthersOutside(a)
    BY <1>1, <2>1, InsideAlone
  <2>2. CASE services' = services /\ ~Inside(a)'
    BY <1>1, <2>2, InsideKept DEF Alone
  <2>3. QED
    BY <2>1, <2>2
<1>3. Unnamed'
  <2>1. ASSUME NEW p \in Peer, bears'[p] = NoName, p # a
        PROVE  UnnamedPeer(p)'
    <3>1. bears[p] = NoName /\ session'[p] = session[p] /\ started'[p] = started[p]
      BY <2>1
    <3>2. call'[p] = call[p]
      BY <1>1, <2>1, ActorFacts
    <3>3. UnnamedPeer(p)
      BY <3>1 DEF Alone, Unnamed
    <3>4. QED
      BY <3>1, <3>2, <3>3 DEF UnnamedPeer
  <2>2. QED
    BY <2>1 DEF Unnamed
<1>4. NameSakes'
  <2>1. ASSUME NEW t \in Rest, call'[t].at \in StopStep, t # a
        PROVE  bears'[call'[t].peer] = call'[t].name
    <3>1. call'[t] = call[t] /\ t \in Actor
      BY <1>1, <2>1, ActorFacts
    <3>2. call[t].peer \in Peer /\ bears[call[t].peer] = call[t].name
      BY <2>1, <3>1, TargetFacts DEF Alone, NameSakes
    <3>3. call[t].at \notin {"idle", "gen"}
      BY <2>1, <3>1 DEF StopStep
    <3>4. call[t].name \in Names
      BY <3>3, NamedFacts DEF Alone
    <3>5. bears[call[t].peer] # NoName
      BY <3>2, <3>4, ActorFacts
    <3>6. QED
      BY <3>1, <3>2, <3>5
  <2>2. ASSUME a \in Rest, c.at \in StopStep
        PROVE  bears'[c.peer] = c.name
    BY <2>2, ActorFacts
  <2>3. QED
    BY <1>1, <2>1, <2>2 DEF NameSakes
<1>5. Forgotten'
  <2>1. SUFFICES ASSUME NEW p \in Peer, bears'[p] # NoName, ~started'[p],
                        \A b \in Actor : ~Ending(b, p)',
                        NEW i \in DOMAIN services'
                 PROVE  services'[i].serial # session'[p]
    BY DEF Forgotten
  <2>2. bears[p] # NoName /\ session'[p] = session[p]
    BY <2>1
  <2>3. ~started[p]
    BY <2>1, <2>2
  <2>4. ASSUME NEW b \in Actor, Ending(b, p), b # a
        PROVE  FALSE
    BY <1>1, <2>1, <2>4 DEF Ending, Stopping
  <2>5. CASE Ending(a, p)
    BY <2>1, <2>2, <2>5
  <2>6. CASE ~Ending(a, p)
    <3>1. \A j \in DOMAIN services : services[j].serial # session[p]
      BY <2>2, <2>3, <2>4, <2>6 DEF Alone, Forgotten
    <3>2. QED
      BY <2>1, <2>2, <3>1
  <2>7. QED
    BY <2>5, <2>6
<1>6. QED
  BY <1>2, <1>3, <1>4, <1>5 DEF Alone

(* While the slots keep their names and numbers, and who makes one goes on. *)
SameSlots == /\ DOMAIN services' = DOMAIN services
             /\ \A i \in DOMAIN services : /\ services'[i].name = services[i].name
                                           /\ services'[i].serial = services[i].serial

SameTickets == \A k \in tickets' : \E m \in tickets :
                  /\ m.name = k.name /\ m.serial = k.serial
                  /\ k.held => m.held

LEMMA NamesKept ==
    ASSUME Unique, Nameless, Answered, SameSlots, SameTickets,
           \A t \in Rest : call[t].at \in {"gen", "assign"} =>
                              call'[t].at \in {"gen", "assign"}
    PROVE  Unique' /\ Nameless' /\ Answered'
<1>1. Unique'
  BY DEF Unique, SameSlots
<1>2. Nameless'
  <2>1. SUFFICES ASSUME Registered(NoName)'
                 PROVE  \E t \in Rest : call'[t].at \in {"gen", "assign"}
    BY DEF Nameless, Naming
  <2>2. Registered(NoName)
    BY <2>1 DEF Registered, InUse, SameSlots
  <2>3. QED
    BY <2>2 DEF Nameless, Naming
<1>3. Answered'
  BY DEF Answered, SameSlots, SameTickets
<1>4. QED
  BY <1>1, <1>2, <1>3

-----------------------------------------------------------------------------
(* The fourth layer.                                                       *)

(* Whatever is meant has been meant before. *)
LEMMA MeansKept ==
    ASSUME OneMeaning,
           \A k \in tickets' : k.held => Means(k.name, k.serial),
           \A t \in Rest : call'[t].at \notin {"idle", "gen"} =>
              Means(call'[t].name, call'[t].serial),
           \A p \in Peer :
              /\ call'[p].at \notin {"gone", "failed"} /\ bears'[p] # NoName =>
                    Means(bears'[p], session'[p])
              /\ call'[p].at = "handling" /\ bears'[p] = NoName =>
                    Means(call'[p].name, session'[p]),
           \A i \in DOMAIN services' : services'[i].name # NoName =>
              Means(services'[i].name, services'[i].serial)
    PROVE  OneMeaning'
<1>1. ASSUME NEW n \in Names, NEW s \in Serial, Means(n, s)'
      PROVE  Means(n, s)
  <2>1. n # NoName
    BY ActorFacts
  <2>2. CASE TicketMeans(n, s)'
    BY <2>2 DEF TicketMeans
  <2>3. CASE CallMeans(n, s)'
    BY <2>3 DEF CallMeans
  <2>4. CASE PeerMeans(n, s)'
    BY <2>1, <2>4 DEF PeerMeans
  <2>5. CASE Present(n, s)'
    BY <2>1, <2>5 DEF Present
  <2>6. QED
    BY <1>1, <2>2, <2>3, <2>4, <2>5 DEF Means
<1>2. QED
  BY <1>1 DEF OneMeaning

(* What is meant now. *)
LEMMA Meaning ==
    /\ \A k \in tickets : k.held => Means(k.name, k.serial)
    /\ \A t \in Rest : call[t].at \notin {"idle", "gen"} =>
          Means(call[t].name, call[t].serial)
    /\ \A p \in Peer :
          /\ call[p].at \notin {"gone", "failed"} =>
                Means(bears[p], session[p])
          /\ call[p].at = "handling" /\ bears[p] = NoName =>
                Means(call[p].name, session[p])
    /\ \A i \in DOMAIN services : Means(services[i].name, services[i].serial)
    /\ \A n, s : Present(n, s) => Means(n, s)
  BY DEF Means, TicketMeans, CallMeans, PeerMeans, Present

Stays(n, s) == \E i \in DOMAIN services' : /\ services'[i].name = n
                                            /\ services'[i].serial = s

(* The services that are named stay, and nobody is given another. *)
LEMMA KeptStep ==
    ASSUME Calls, Registrations, Answered, Kept,
           \A n \in Names : \A s : Present(n, s) => Stays(n, s),
           \A p \in Peer :
              /\ Running(p)' => \/ /\ Running(p)
                                   /\ bears'[p] = bears[p] /\ session'[p] = session[p]
                                \/ Stays(bears'[p], session'[p])
              /\ call'[p].at = "handling" /\ bears'[p] = NoName =>
                    \/ /\ call[p].at = "handling" /\ bears[p] = NoName
                       /\ call'[p].name = call[p].name /\ session'[p] = session[p]
                    \/ Stays(call'[p].name, session'[p]),
           \A t \in Rest : call'[t].at = "begin" =>
              \/ call[t].at = "begin" /\ call'[t] = call[t]
              \/ Stays(call'[t].name, call'[t].serial),
           \A k \in tickets' : ~Served(k.serial)' =>
              \/ /\ ~Served(k.serial)
                 /\ \E m \in tickets : m.name = k.name /\ m.serial = k.serial
              \/ Stays(k.name, k.serial)
    PROVE  Kept'
<1>1. ASSUME NEW p \in Peer
      PROVE  /\ Running(p)' => Stays(bears'[p], session'[p])
             /\ call'[p].at = "handling" /\ bears'[p] = NoName =>
                   Stays(call'[p].name, session'[p])
  <2>1. ASSUME Running(p), bears'[p] = bears[p], session'[p] = session[p]
        PROVE  Stays(bears'[p], session'[p])
    <3>1. Present(bears[p], session[p]) /\ bears[p] \in Names
      BY <2>1, NamedFacts DEF Kept, Running
    <3>2. QED
      BY <2>1, <3>1
  <2>2. ASSUME call[p].at = "handling", bears[p] = NoName,
               call'[p].name = call[p].name, session'[p] = session[p]
        PROVE  Stays(call'[p].name, session'[p])
    <3>1. Present(call[p].name, session[p]) /\ call[p].name \in Names
      BY <2>2, NamedFacts DEF Kept
    <3>2. QED
      BY <2>2, <3>1
  <2>3. QED
    BY <2>1, <2>2
<1>2. ASSUME NEW t \in Rest, call'[t].at = "begin"
      PROVE  Stays(call'[t].name, call'[t].serial)
  <2>1. ASSUME call[t].at = "begin", call'[t] = call[t]
        PROVE  Stays(call'[t].name, call'[t].serial)
    <3>1. Present(call[t].name, call[t].serial) /\ call[t].name \in Names
      BY <2>1, NamedFacts DEF Kept
    <3>2. QED
      BY <2>1, <3>1
  <2>2. QED
    BY <1>2, <2>1
<1>3. ASSUME NEW k \in tickets', ~Served(k.serial)'
      PROVE  Stays(k.name, k.serial)
  <2>1. ASSUME ~Served(k.serial), NEW m \in tickets, m.name = k.name, m.serial = k.serial
        PROVE  Stays(k.name, k.serial)
    <3>1. Present(m.name, m.serial) /\ m.name \in Names
      BY <2>1, NamedFacts DEF Kept
    <3>2. QED
      BY <2>1, <3>1
  <2>2. QED
    BY <1>3, <2>1
<1>4. QED
  BY <1>1, <1>2, <1>3 DEF Kept, Stays, Present

LEMMA SlotsStay ==
    ASSUME SameSlots
    PROVE  /\ \A n, s : Present(n, s) => Stays(n, s)
           /\ \A i \in DOMAIN services' : Means(services'[i].name, services'[i].serial)
           /\ \A i \in DOMAIN services' :
                 \E j \in DOMAIN services : services[j].serial = services'[i].serial
  BY Meaning DEF SameSlots, Present, Stays

(* Steps of a, who goes on to c, that leave the names of services, and the  *)
(* sessions and names of peers, alone.                                     *)
LEMMA SeparateStep ==
    ASSUME Calls, Registrations, Alone, Separate,
           NEW a \in Actor, NEW c \in Call, SetCall(a, c), UNCHANGED <<session, bears>>,
           \A n \in Names : \A s : Present(n, s) => Stays(n, s),
           \A i \in DOMAIN services' : services'[i].name # NoName =>
              Means(services'[i].name, services'[i].serial),
           Data', SameTickets,
           \A p \in Peer : started'[p] /\ bears[p] # NoName => started[p],
           a \in Peer =>
              /\ c.at \in {"gone", "failed"} \/ call[a].at \notin {"gone", "failed"}
              /\ c.at \in {"connecting", "reading", "handling", "append", "failed"} =>
                    \/ bears[a] = NoName
                    \/ call[a].at \in {"connecting", "reading", "handling", "append"}
              /\ c.at = "handling" => bears[a] # NoName,
           a \in Rest =>
              /\ c.at # "begin"
              /\ c.at \notin {"idle", "gen"} => Means(c.name, c.serial)
              /\ Stopping(a)' => session[c.peer] = c.serial
    PROVE  Separate'
<1>1. /\ call'[a] = c
      /\ \A b \in Actor : b # a => call'[b] = call[b]
  BY CallFacts DEF Calls, TypeOK
<1>2. \A s : Served(s)' <=> Served(s)
  BY DEF Served
<1>3. ASSUME NEW p \in Peer
      PROVE  /\ Running(p)' => Running(p)
             /\ call'[p].at = "handling" /\ bears'[p] = NoName => call'[p] = call[p]
             /\ call'[p].at \notin {"gone", "failed"} => call[p].at \notin {"gone", "failed"}
  <2>1. CASE p = a
    BY <1>1, <2>1 DEF Running
  <2>2. CASE p # a
    <3>1. call'[p] = call[p]
      BY <1>1, <2>2, ActorFacts
    <3>2. QED
      BY <3>1 DEF Running
  <2>3. QED
    BY <2>1, <2>2
<1>4. ASSUME NEW t \in Rest
      PROVE  /\ call'[t].at = "begin" => call'[t] = call[t]
             /\ call'[t].at \notin {"idle", "gen"} => Means(call'[t].name, call'[t].serial)
             /\ Stopping(t)' => session[call'[t].peer] = call'[t].serial
  <2>1. CASE t = a
    BY <1>1, <2>1
  <2>2. CASE t # a
    <3>1. call'[t] = call[t]
      BY <1>1, <2>2, ActorFacts
    <3>2. Stopping(t)' => session[call[t].peer] = call[t].serial
      BY <3>1 DEF Stopping, Separate, OwnPeer
    <3>3. QED
      BY <3>1, <3>2, Meaning
  <2>3. QED
    BY <2>1, <2>2
<1>5. Kept'
  <2>1. ASSUME NEW k \in tickets', ~Served(k.serial)'
        PROVE  /\ ~Served(k.serial)
               /\ \E m \in tickets : m.name = k.name /\ m.serial = k.serial
    BY <1>2, <2>1 DEF SameTickets
  <2>2. \A p \in Peer :
           /\ Running(p)' => /\ Running(p)
                             /\ bears'[p] = bears[p] /\ session'[p] = session[p]
           /\ call'[p].at = "handling" /\ bears'[p] = NoName =>
                 /\ call[p].at = "handling" /\ bears[p] = NoName
                 /\ call'[p].name = call[p].name /\ session'[p] = session[p]
    BY <1>3
  <2>3. \A t \in Rest : call'[t].at = "begin" =>
           call[t].at = "begin" /\ call'[t] = call[t]
    BY <1>4
  <2>4. Answered /\ Kept
    BY DEF Alone, Separate
  <2>5. QED
    BY <2>1, <2>2, <2>3, <2>4, KeptStep
<1>6. OneMeaning'
  <2>1. ASSUME NEW k \in tickets', k.held PROVE Means(k.name, k.serial)
    BY <2>1, Meaning DEF SameTickets
  <2>2. \A p \in Peer :
           /\ call'[p].at \notin {"gone", "failed"} /\ bears'[p] # NoName =>
                 Means(bears'[p], session'[p])
           /\ call'[p].at = "handling" /\ bears'[p] = NoName =>
                 Means(call'[p].name, session'[p])
    BY <1>3, Meaning
  <2>3. QED
    BY <1>4, <2>1, <2>2, MeansKept DEF Separate
<1>7. OwnPeer'
  BY <1>4 DEF OwnPeer
<1>8. QED
  BY <1>5, <1>6, <1>7 DEF Separate

-----------------------------------------------------------------------------
(* Both layers, for steps that leave the services, and the names and        *)
(* sessions of peers, alone.                                               *)

LEMMA PeerSafe ==
    ASSUME Calls, Registrations, Alone,
           NEW p \in Peer, NEW c \in Call, SetCall(p, c), c.peer = p,
           UNCHANGED <<session, bears, tickets>>, SameSlots,
           OthersOutside(p) \/ (services' = services /\ ~Inside(p)'),
           Inside(p)' => FoundLast(p)' /\ FoundNamed(p)',
           bears[p] = NoName => UnnamedPeer(p)',
           \A q \in Peer : started'[q] # started[q] =>
              /\ q = p
              /\ IF started'[p] THEN bears[p] = NoName ELSE Ending(p, p)',
           bears[p] # NoName /\ Ending(p, p) /\ ~Ending(p, p)' =>
              \A i \in DOMAIN services : services[i].serial # session[p],
           c.at \in {"gone", "failed"} \/ call[p].at \notin {"gone", "failed"},
           c.at \in {"connecting", "reading", "handling", "append", "failed"} =>
              \/ bears[p] = NoName
              \/ call[p].at \in {"connecting", "reading", "handling", "append"},
           c.at = "handling" => bears[p] # NoName,
           Separate => Data'
    PROVE  Alone' /\ (Separate => Separate')
<1>1. p \in Actor /\ p \notin Rest /\ call \in [Actor -> Call] /\ call[p].peer = p
  BY ActorFacts, PeerFacts, HereFacts
<1>2. \A t \in Rest : call'[t] = call[t]
  BY <1>1, CallFacts, ActorFacts
<1>3. SameTickets
  BY DEF SameTickets
<1>4. Unique' /\ Nameless' /\ Answered'
  BY <1>2, <1>3, NamesKept DEF Alone
<1>5. \A q \in Peer : Ending(p, q) => q = p
  BY <1>1 DEF Ending
<1>6. \A i \in DOMAIN services' :
         \E j \in DOMAIN services : services[j].serial = services'[i].serial
  BY SlotsStay
<1>7. ASSUME NEW q \in Peer, bears[q] # NoName
      PROVE  /\ started[q] /\ ~started'[q] => Ending(p, q)'
             /\ Ending(p, q) /\ ~Ending(p, q)' =>
                   \A i \in DOMAIN services' : services'[i].serial # session[q]
  BY <1>5, <1>7 DEF SameSlots
<1>8. Alone'
  <2>1. \A q \in Peer :
           /\ q # p => session'[q] = session[q] /\ bears'[q] = bears[q]
           /\ bears[q] # NoName => session'[q] = session[q] /\ bears'[q] = bears[q]
           /\ bears'[q] # bears[q] => started'[q]
           /\ started'[q] # started[q] => q = p \/ bears[q] # NoName
    OBVIOUS
  <2>2. p \in Peer /\ bears'[p] = NoName => UnnamedPeer(p)'
    OBVIOUS
  <2>3. QED
    BY <1>1, <1>4, <1>6, <1>7, <2>1, <2>2, AloneStep
<1>9. ASSUME Separate
      PROVE  Separate'
  <2>1. \A q \in Peer : started'[q] /\ bears[q] # NoName => started[q]
    BY <1>1, HereFacts DEF Calls, TypeOK
  <2>2. /\ \A n \in Names : \A s : Present(n, s) => Stays(n, s)
        /\ \A i \in DOMAIN services' : Means(services'[i].name, services'[i].serial)
    BY SlotsStay
  <2>3. QED
    BY <1>1, <1>3, <1>9, <2>1, <2>2, SeparateStep
<1>10. QED
  BY <1>8, <1>9

LEMMA RestSafe ==
    ASSUME Calls, Registrations, Alone,
           NEW t \in Rest, NEW c \in Call, SetCall(t, c),
           UNCHANGED <<session, bears>>, SameTickets, SameSlots,
           OthersOutside(t) \/ (services' = services /\ ~Inside(t)'),
           Inside(t)' => FoundLast(t)' /\ FoundNamed(t)',
           call[t].at \in {"gen", "assign"} => c.at \in {"gen", "assign"},
           c.at \in StopStep => c.peer \in Peer /\ bears[c.peer] = c.name,
           \A q \in Peer : started'[q] # started[q] =>
              ~started'[q] /\ bears[q] # NoName /\ Ending(t, q)',
           \A q \in Peer : bears[q] # NoName /\ Ending(t, q) /\ ~Ending(t, q)' =>
              \A i \in DOMAIN services : services[i].serial # session[q],
           c.at # "begin",
           Separate => /\ c.at \notin {"idle", "gen"} => Means(c.name, c.serial)
                       /\ Stopping(t)' => session[c.peer] = c.serial
                       /\ Data'
    PROVE  Alone' /\ (Separate => Separate')
<1>1. t \in Actor /\ t \notin Peer /\ call \in [Actor -> Call]
  BY ActorFacts, HereFacts DEF Calls
<1>2. call'[t] = c /\ \A u \in Rest : u # t => call'[u] = call[u]
  BY <1>1, CallFacts, ActorFacts
<1>3. Unique' /\ Nameless' /\ Answered'
  BY <1>2, NamesKept DEF Alone
<1>4. \A i \in DOMAIN services' :
         \E j \in DOMAIN services : services[j].serial = services'[i].serial
  BY SlotsStay
<1>5. ASSUME NEW q \in Peer, bears[q] # NoName
      PROVE  /\ started[q] /\ ~started'[q] => Ending(t, q)'
             /\ Ending(t, q) /\ ~Ending(t, q)' =>
                   \A i \in DOMAIN services' : services'[i].serial # session[q]
  BY <1>5 DEF SameSlots
<1>6. Alone'
  <2>1. \A q \in Peer :
           /\ q # t => session'[q] = session[q] /\ bears'[q] = bears[q]
           /\ bears[q] # NoName => session'[q] = session[q] /\ bears'[q] = bears[q]
           /\ bears'[q] # bears[q] => started'[q]
           /\ started'[q] # started[q] => q = t \/ bears[q] # NoName
    OBVIOUS
  <2>2. QED
    BY <1>1, <1>3, <1>4, <1>5, <2>1, AloneStep
<1>7. ASSUME Separate
      PROVE  Separate'
  <2>1. \A q \in Peer : started'[q] /\ bears[q] # NoName => started[q]
    BY HereFacts DEF Calls, TypeOK
  <2>2. /\ \A n \in Names : \A s : Present(n, s) => Stays(n, s)
        /\ \A i \in DOMAIN services' : Means(services'[i].name, services'[i].serial)
    BY SlotsStay
  <2>3. QED
    BY <1>1, <1>7, <2>1, <2>2, SeparateStep
<1>8. QED
  BY <1>6, <1>7

LEMMA SameServices ==
    ASSUME services' = services
    PROVE  SameSlots /\ (Separate => Data')
  BY DEF SameSlots, Separate, Data

(* Nobody else is inside when a looks at services without overlap.          *)
LEMMA TouchedAlone ==
    ASSUME Calls, NEW a \in Actor, Touch(a), ~overlap'
    PROVE  OthersOutside(a)
  BY TouchFacts DEF Calls, TypeOK, OthersOutside

LEMMA PeerGoesOnSafe ==
    ASSUME Calls, Registrations, Alone, NEW p \in Peer,
           \/ Accept(p) \/ StartAccepted(p) \/ OnConnectErr(p) \/ OnRead(p)
           \/ OnReadError(p)
    PROVE  Alone' /\ (Separate => Separate')
<1>1. /\ call[p] \in Call /\ call[p].peer = p /\ p \in Actor
      /\ call[p].early \in BOOLEAN /\ call \in [Actor -> Call]
  BY PeerFacts, HereFacts DEF Call
<1>2. PICK x \in {"listed", "reading", "remove", "stop", "handling"}, e \in BOOLEAN :
         SetCall(p, [call[p] EXCEPT !.at = x, !.early = e])
  <2>1. \A x : [call[p] EXCEPT !.at = x] =
                  [call[p] EXCEPT !.at = x, !.early = call[p].early]
    BY <1>1 DEF Call
  <2>2. QED
    BY <1>1, <2>1 DEF Accept, StartAccepted, OnConnectErr, OnReadError, OnRead
<1> DEFINE c == [call[p] EXCEPT !.at = x, !.early = e]
<1>3. /\ c \in Call /\ c.at = x /\ c.peer = p /\ c.early = e
  <2>1. x \in Step
    BY DEF Step, PeerStep, StopStep
  <2>2. QED
    BY <1>1, <2>1 DEF Call
<1>4. SetCall(p, c)
  BY <1>2
<1> HIDE DEF c
<1>5. call'[p] = c
  BY <1>1, <1>4, CallFacts
<1>6. UNCHANGED <<services, tickets, session, bears>>
  BY DEF Accept, StartAccepted, OnConnectErr, OnReadError, OnRead, peerVars
<1>7. /\ c.at \notin {"gone", "failed", "append"} /\ ~Inside(p)' /\ ~Ending(p, p)
      /\ call[p].at \notin {"gone", "failed"}
  BY <1>3, <1>5 DEF Accept, StartAccepted, OnConnectErr, OnReadError, OnRead, Ending,
     Stopping, Inside
<1>8. \/ /\ c.at = "listed" /\ bears[p] = NoName /\ started' = started
      \/ /\ c.at = "reading" /\ bears[p] = NoName /\ session[p] = 0
         /\ started' = [started EXCEPT ![p] = TRUE]
      \/ /\ c.at = "remove" /\ bears[p] # NoName /\ started' = started
      \/ /\ c.at = "handling" /\ bears[p] # NoName /\ started' = started
         /\ call[p].at = "reading"
      \/ /\ c.at = "stop" /\ started' = started
         /\ bears[p] = NoName => session[p] = 0
  <2>1. CASE Accept(p)
    <3>1. c.at = "listed"
      BY <1>1, <1>5, <2>1, CallFacts DEF Accept, Call
    <3>2. QED
      BY <2>1, <3>1 DEF Accept, Calls, PeerCalls
  <2>2. CASE StartAccepted(p)
    <3>1. c.at = "reading"
      BY <1>1, <1>5, <2>2, CallFacts DEF StartAccepted, Call
    <3>2. QED
      BY <2>2, <3>1 DEF StartAccepted, Calls, PeerCalls
  <2>3. CASE OnConnectErr(p)
    <3>1. c.at = "remove"
      <4>1. call'[p] = [call[p] EXCEPT !.at = "remove", !.early = TRUE]
        BY <1>1, <2>3 DEF OnConnectErr, SetCall
      <4>2. QED
        BY <1>1, <1>5, <4>1 DEF Call
    <3>2. bears[p] # NoName
      BY <2>3 DEF OnConnectErr, Alone, Unnamed, UnnamedPeer, StopStep
    <3>3. QED
      BY <2>3, <3>1, <3>2 DEF OnConnectErr, peerVars
  <2>4. CASE OnRead(p)
    <3>1. c.at = "handling"
      BY <1>1, <1>5, <2>4, CallFacts DEF OnRead, Call
    <3>2. QED
      BY <2>4, <3>1 DEF OnRead, peerVars
  <2>5. CASE OnReadError(p)
    <3>1. c.at = "stop"
      BY <1>1, <1>5, <2>5, CallFacts DEF OnReadError, Call
    <3>2. bears[p] = NoName => session[p] = 0
      BY <2>5 DEF OnReadError, Alone, Unnamed, UnnamedPeer
    <3>3. QED
      BY <2>5, <3>1, <3>2 DEF OnReadError, peerVars
  <2>6. QED
    BY <2>1, <2>2, <2>3, <2>4, <2>5
<1>9. started \in [Peer -> BOOLEAN]
  BY DEF Calls, TypeOK
<1>10. bears[p] = NoName => UnnamedPeer(p)'
  BY <1>5, <1>6, <1>8, <1>9 DEF UnnamedPeer, StopStep
<1>11. \A q \in Peer : started'[q] # started[q] =>
          q = p /\ started'[p] /\ bears[p] = NoName
  BY <1>8, <1>9
<1>12. c.at \in {"connecting", "reading", "handling", "append", "failed"} =>
              \/ bears[p] = NoName
              \/ call[p].at \in {"connecting", "reading", "handling", "append"}
  BY <1>8
<1>13. c.at = "handling" => bears[p] # NoName
  BY <1>8
<1>14. QED
  BY <1>3, <1>4, <1>6, <1>7, <1>10, <1>11, <1>12, <1>13, SameServices, PeerSafe

(* A handler that ends. *)
LEMMA ResumingSafe ==
    ASSUME Calls, Registrations, Alone, NEW p \in Peer, SetCall(p, Resumed(p)),
           UNCHANGED <<session, bears, tickets, started>>, SameSlots,
           Separate => Data',
           OthersOutside(p) \/ services' = services,
           bears[p] # NoName,
           call[p].at \in {"connecting", "handling", "append"}
    PROVE  Alone' /\ (Separate => Separate')
<1> DEFINE c == Resumed(p)
<1>1. c \in Call /\ c.peer = p /\ c.at \in {"reading", "gone"}
  BY ResumedFacts
<1>2. call'[p] = c
  BY PeerFacts, HereFacts, CallFacts
<1>3. SetCall(p, c)
  OBVIOUS
<1> HIDE DEF c
<1>4. ~Inside(p)' /\ ~Ending(p, p)
  BY <1>1, <1>2 DEF Inside, Ending, Stopping
<1>5. QED
  BY <1>1, <1>3, <1>4, PeerSafe

LEMMA OnMessageSafe ==
    ASSUME Calls, Registrations, Alone, NEW p \in Peer, OnConnectOk(p) \/ OnMessage(p)
    PROVE  Alone' /\ (Separate => Separate')
<1>1. /\ SetCall(p, Resumed(p)) /\ UNCHANGED <<services, session, bears, tickets, started>>
      /\ call[p].at \in {"connecting", "handling"}
  BY DEF OnConnectOk, OnMessage, peerVars
<1>2. bears[p] # NoName
  BY DEF OnConnectOk, OnMessage, Alone, Unnamed, UnnamedPeer, StopStep
<1>3. QED
  BY <1>1, <1>2, SameServices, ResumingSafe

LEMMA OnKeySafe ==
    ASSUME Calls, Registrations, Alone, NEW p \in Peer, OnKey(p), ~overlap'
    PROVE  Alone' /\ (Separate => Separate')
<1>1. /\ call[p].at = "handling" /\ bears[p] # NoName /\ p \in Actor
      /\ UNCHANGED <<services, session, bears, tickets, started>>
      /\ call[p] \in Call /\ call[p].peer = p /\ OthersOutside(p)
      /\ call \in [Actor -> Call]
  BY PeerFacts, HereFacts, TouchedAlone DEF OnKey, peerVars
<1>2. CASE SetCall(p, Resumed(p))
  BY <1>1, <1>2, SameServices, ResumingSafe
<1>3. ASSUME NEW i \in DOMAIN services, Find(bears[p], i),
             SetCall(p, [call[p] EXCEPT !.at = "append", !.serial = session[p],
                                        !.index = i])
      PROVE  Alone' /\ (Separate => Separate')
  <2> DEFINE c == [call[p] EXCEPT !.at = "append", !.serial = session[p], !.index = i]
  <2>1. "append" \in Step /\ i \in Nat /\ session[p] \in Nat
    BY PeerFacts, HereFacts, SlotFacts DEF Step, PeerStep
  <2>2. c \in Call /\ c.at = "append" /\ c.peer = p /\ c.index = i
    BY <1>1, <2>1 DEF Call
  <2>3. SetCall(p, c)
    BY <1>3
  <2> HIDE DEF c
  <2>4. call'[p] = c
    BY <1>1, <2>3, CallFacts
  <2>5. services[i].name = bears[p] /\ PeerName(p)' = bears[p]
    BY <1>1, <1>3, <2>2, <2>4, ActorFacts DEF Find, PeerName
  <2>6. FoundLast(p)' /\ FoundNamed(p)'
    BY <1>1, <2>2, <2>4, <2>5 DEF FoundLast, FoundNamed, Making
  <2>7. ~Ending(p, p)
    BY <1>1 DEF Ending, Stopping
  <2>8. QED
    BY <1>1, <2>2, <2>3, <2>6, <2>7, SameServices, PeerSafe
<1>4. QED
  BY <1>2, <1>3 DEF OnKey

(* A slot is the service that its name means. *)
LEMMA OwnSlot ==
    ASSUME Calls, Separate, NEW i \in DOMAIN services, NEW s \in Serial,
           services[i].name \in Names, Means(services[i].name, s)
    PROVE  services[i].serial = s
<1>1. services[i].serial \in Serial
  BY HereFacts, SlotFacts DEF Calls
<1>2. Means(services[i].name, services[i].serial)
  BY Meaning
<1>3. QED
  BY <1>1, <1>2 DEF Separate, OneMeaning

LEMMA WrittenFacts ==
    ASSUME Calls, NEW a \in Actor, Written(a), call[a].serial \in Serial,
           Separate => /\ call[a].index \in DOMAIN services
                       /\ services[call[a].index].serial = call[a].serial
    PROVE  SameSlots /\ (Separate => Data')
<1> DEFINE n == call[a].index
           x == call[a].serial
<1>1. services \in Seq(Slot) /\ services' = [services EXCEPT ![n].data = @ \union {x}]
  BY HereFacts DEF Calls, Written
<1>2. /\ DOMAIN services' = DOMAIN services
      /\ \A j \in DOMAIN services : /\ services'[j].serial = services[j].serial
                                    /\ services'[j].name = services[j].name
                                    /\ j # n => services'[j] = services[j]
                                    /\ j = n => services'[j].data =
                                                   services[j].data \union {x}
  BY <1>1, Writing
<1>3. SameSlots
  BY <1>2 DEF SameSlots
<1>4. ASSUME Separate, NEW j \in DOMAIN services'
      PROVE  services'[j].data \subseteq {services'[j].serial}
  <2>1. services[j].data \subseteq {services[j].serial}
    BY <1>2, <1>4 DEF Separate, Data
  <2>2. CASE j = n
    BY <1>2, <1>4, <2>1, <2>2
  <2>3. CASE j # n
    BY <1>2, <2>1, <2>3
  <2>4. QED
    BY <2>2, <2>3
<1>5. QED
  BY <1>3, <1>4 DEF Data

LEMMA AddKeySafe ==
    ASSUME Calls, Registrations, Alone, NEW p \in Peer, AddKey(p), ~overlap'
    PROVE  Alone' /\ (Separate => Separate')
<1>1. /\ call[p].at = "append" /\ p \in Actor /\ call[p].peer = p
      /\ UNCHANGED <<session, bears, tickets, started>>
      /\ OthersOutside(p) /\ Written(p) /\ SetCall(p, Resumed(p))
  BY PeerFacts, TouchedAlone DEF AddKey, peerVars
<1>2. /\ bears[p] # NoName /\ call[p].serial = session[p]
      /\ bears[p] \in Names /\ session[p] \in Serial
  BY <1>1, NamedFacts DEF Calls, PeerCalls, Alone
<1>3. /\ call[p].index \in DOMAIN services
      /\ services[call[p].index].name = bears[p]
  BY <1>1, ActorFacts DEF Alone, Found, FoundNamed, PeerName
<1>4. ASSUME Separate
      PROVE  services[call[p].index].serial = session[p]
  <2>1. Means(bears[p], session[p])
    BY <1>1, Meaning
  <2>2. QED
    BY <1>2, <1>3, <1>4, <2>1, OwnSlot
<1>5. SameSlots /\ (Separate => Data')
  BY <1>1, <1>2, <1>3, <1>4, WrittenFacts
<1>6. QED
  BY <1>1, <1>2, <1>5, ResumingSafe

-----------------------------------------------------------------------------
(* REST threads. *)

LEMMA GenNameEffect ==
    ASSUME Calls, NEW t \in Rest, GenName(t)
    PROVE  \E n \in Fresh(call[t].name), c \in Call :
              /\ SetCall(t, c) /\ call'[t] = c
              /\ c.at = "assign" /\ c.name = n
              /\ c.serial = call[t].serial /\ c.index = call[t].index
              /\ n \in Names /\ ~Registered(n)
              /\ ~reused' => ~Borne(t, n)
<1>1. /\ t \in Actor /\ call[t] \in Call /\ call[t].at = "gen" /\ call[t].name # NoName
      /\ call \in [Actor -> Call] /\ reused \in BOOLEAN
  BY ActorFacts, HereFacts DEF Calls, TypeOK, GenName, RestCalls
<1>2. call[t].name \in Names
  BY <1>1 DEF Call, MaybeName
<1>3. PICK n \in Fresh(call[t].name) :
         /\ SetCall(t, [call[t] EXCEPT !.at = "assign", !.name = n])
         /\ reused' = (reused \/ Borne(t, n))
  BY DEF GenName
<1> DEFINE c == [call[t] EXCEPT !.at = "assign", !.name = n]
<1>4. n \in Names /\ n \in MaybeName /\ ~Registered(n)
  BY <1>2, FreshFacts
<1>5. /\ c \in Call /\ c.at = "assign" /\ c.name = n
      /\ c.serial = call[t].serial /\ c.index = call[t].index
  <2>1. "assign" \in Step
    BY DEF Step, RestStep
  <2>2. QED
    BY <1>1, <1>4, <2>1 DEF Call
<1>6. SetCall(t, c)
  BY <1>3
<1> HIDE DEF c
<1>7. call'[t] = c
  BY <1>1, <1>6, CallFacts
<1>8. ~reused' => ~Borne(t, n)
  BY <1>3
<1>9. QED
  BY <1>4, <1>5, <1>6, <1>7, <1>8

(* A name that is neither borne nor registered means nothing yet. *)
LEMMA FreshMeansNothing ==
    ASSUME Calls, NEW t \in Rest, call[t].at = "gen",
           NEW n \in Names, ~Registered(n), ~Borne(t, n)
    PROVE  \A s : ~Means(n, s)
<1>1. /\ \A k \in tickets : k.held => k.name # n
      /\ \A a \in Actor : a # t /\ call[a].at \notin {"gone", "failed"} =>
            call[a].name # n /\ PeerName(a) # n
  BY DEF Borne
<1>2. n # NoName
  BY ActorFacts
<1>3. \A p \in Peer : PeerName(p) = bears[p] /\ p \in Actor /\ p # t
  BY PeerFacts, ActorFacts DEF PeerName
<1>4. ASSUME NEW u \in Rest, call[u].at \notin {"idle", "gen"}
      PROVE  call[u].name # n
  <2>1. u # t /\ u \in Actor /\ call[u].at \notin {"gone", "failed"}
    BY <1>4, ActorFacts DEF Calls, RestCalls, RestStep, StopStep
  <2>2. QED
    BY <1>1, <2>1
<1>5. \A s : ~TicketMeans(n, s) /\ ~CallMeans(n, s)
  BY <1>1, <1>4 DEF TicketMeans, CallMeans
<1>6. \A s : ~PeerMeans(n, s)
  BY <1>1, <1>3 DEF PeerMeans
<1>7. \A s : ~Present(n, s)
  BY DEF Present, Registered, InUse
<1>8. QED
  BY <1>5, <1>6, <1>7 DEF Means

LEMMA GenNameSafe ==
    ASSUME Calls, Registrations, Alone, NEW t \in Rest, GenName(t), ~overlap'
    PROVE  Alone' /\ (Separate /\ ~reused' => Separate')
<1>1. PICK n \in Fresh(call[t].name), c \in Call :
         /\ SetCall(t, c) /\ call'[t] = c
         /\ c.at = "assign" /\ c.name = n
         /\ c.serial = call[t].serial /\ c.index = call[t].index
         /\ n \in Names /\ ~Registered(n)
         /\ ~reused' => ~Borne(t, n)
  BY GenNameEffect
<1>2. /\ UNCHANGED <<services, session, bears, tickets, started>>
      /\ t \in Actor /\ t \notin Peer /\ call[t].at = "gen" /\ OthersOutside(t)
      /\ call \in [Actor -> Call]
  BY ActorFacts, HereFacts, TouchedAlone DEF GenName, peerVars, Calls
<1>3. SameTickets /\ SameSlots
  BY <1>2 DEF SameTickets, SameSlots
<1>4. FoundLast(t)' /\ FoundNamed(t)'
  <2>1. FoundLast(t)
    BY <1>2 DEF Alone, Found
  <2>2. ~Registered(n)'
    BY <1>1, <1>2 DEF Registered, InUse
  <2>3. QED
    BY <1>1, <1>2, <2>1, <2>2 DEF FoundLast, FoundNamed, Making, Registered
<1>5. \A u \in Rest : u # t => call'[u] = call[u]
  BY <1>1, <1>2, CallFacts, ActorFacts
<1>6. \A p \in Peer : call'[p] = call[p]
  BY <1>1, <1>2, CallFacts, ActorFacts
<1>7. Alone'
  <2>1. Unique' /\ Nameless' /\ Answered'
    BY <1>1, <1>3, <1>5, NamesKept DEF Alone
  <2>2. \A p \in Peer : ~Ending(t, p)
    BY <1>2 DEF Ending, Stopping
  <2>3. \A p \in Peer :
           /\ p # t => session'[p] = session[p] /\ bears'[p] = bears[p]
           /\ bears[p] # NoName => session'[p] = session[p] /\ bears'[p] = bears[p]
           /\ bears'[p] # bears[p] => started'[p]
           /\ started'[p] # started[p] => p = t \/ bears[p] # NoName
    BY <1>2
  <2>4. \A p \in Peer : bears[p] # NoName =>
              /\ started[p] /\ ~started'[p] => Ending(t, p)'
              /\ Ending(t, p) /\ ~Ending(t, p)' =>
                    \A i \in DOMAIN services' : services'[i].serial # session[p]
    BY <1>2, <2>2
  <2>5. /\ \A i \in DOMAIN services' :
              \E j \in DOMAIN services : services[j].serial = services'[i].serial
        /\ c.at \notin StopStep
    BY <1>1, <1>2 DEF StopStep
  <2>6. QED
    BY <1>1, <1>2, <1>4, <2>1, <2>3, <2>4, <2>5, AloneStep
<1>8. ASSUME Separate, ~reused'
      PROVE  Separate'
  <2>1. \A s : ~Means(n, s)
    BY <1>1, <1>2, <1>8, FreshMeansNothing
  <2>2. Kept'
    <3>1. \A s : Served(s)' <=> Served(s)
      BY <1>2 DEF Served
    <3>2. \A m \in Names : \A s : Present(m, s) => Stays(m, s)
      BY <1>3, SlotsStay
    <3>3. \A p \in Peer : Running(p)' => Running(p)
      BY <1>2, <1>6 DEF Running
    <3>4. \A u \in Rest : call'[u].at = "begin" => call[u].at = "begin" /\ call'[u] = call[u]
      BY <1>1, <1>5
    <3>5. \A p \in Peer :
             /\ Running(p)' => /\ Running(p)
                               /\ bears'[p] = bears[p] /\ session'[p] = session[p]
             /\ call'[p].at = "handling" /\ bears'[p] = NoName =>
                   /\ call[p].at = "handling" /\ bears[p] = NoName
                   /\ call'[p].name = call[p].name /\ session'[p] = session[p]
      BY <1>2, <1>6, <3>3
    <3>6. \A k \in tickets' : ~Served(k.serial)' =>
             /\ ~Served(k.serial)
             /\ \E m \in tickets : m.name = k.name /\ m.serial = k.serial
      BY <1>3, <3>1 DEF SameTickets
    <3>7. QED
      BY <1>8, <3>2, <3>4, <3>5, <3>6, KeptStep DEF Alone, Separate
  <2>3. OneMeaning'
    <3>1. ASSUME NEW m \in Names, NEW s \in Serial, Means(m, s)'
          PROVE  Means(m, s) \/ (m = n /\ s = c.serial)
      <4>1. TicketMeans(m, s)' => TicketMeans(m, s)
        BY <1>2 DEF TicketMeans
      <4>2. CallMeans(m, s)' => CallMeans(m, s) \/ (m = n /\ s = c.serial)
        BY <1>1, <1>5 DEF CallMeans
      <4>3. PeerMeans(m, s)' => PeerMeans(m, s)
        BY <1>2, <1>6 DEF PeerMeans
      <4>4. Present(m, s)' => Present(m, s)
        BY <1>2 DEF Present
      <4>5. QED
        BY <3>1, <4>1, <4>2, <4>3, <4>4 DEF Means
    <3>2. QED
      BY <1>8, <2>1, <3>1 DEF OneMeaning, Separate
  <2>4. OwnPeer'
    <3>1. \A u \in Rest : Stopping(u)' => Stopping(u) /\ call'[u] = call[u]
      BY <1>1, <1>5 DEF Stopping
    <3>2. QED
      BY <1>2, <1>8, <3>1 DEF OwnPeer, Separate
  <2>5. Data'
    BY <1>2, <1>8, SameServices
  <2>6. QED
    BY <2>2, <2>3, <2>4, <2>5 DEF Separate
<1>9. QED
  BY <1>7, <1>8

LEMMA RestFacts ==
    ASSUME Calls, NEW t \in Rest
    PROVE  /\ t \in Actor /\ t \notin Peer /\ call[t] \in Call /\ TypeOK
           /\ call \in [Actor -> Call]
           /\ services \in Seq(Slot) /\ Len(services) \in Nat
           /\ \A q \in Peer : ~Stopping(t) => ~Ending(t, q)
  BY ActorFacts, HereFacts, SlotFacts DEF Calls, Ending

(* A REST thread's call ends, or comes to what it does alone. *)
LEMMA IdlingSafe ==
    ASSUME Calls, Registrations, Alone, NEW t \in Rest, SetCall(t, Idle),
           UNCHANGED <<session, bears, tickets, started>>, SameSlots,
           OthersOutside(t) \/ services' = services,
           call[t].at \in {"write", "exit"},
           Separate => Data'
    PROVE  Alone' /\ (Separate => Separate')
<1>1. /\ Idle \in Call /\ Idle.at = "idle" /\ t \in Actor
      /\ \A q \in Peer : ~Ending(t, q)
  BY IdleFacts, RestFacts DEF Stopping
<1>2. call'[t] = Idle
  BY RestFacts, CallFacts
<1>3. ~Inside(t)' /\ ~Stopping(t)'
  BY <1>1, <1>2 DEF Inside, Stopping
<1>4. SameTickets /\ Idle.at \notin StopStep
  BY <1>1 DEF SameTickets, StopStep
<1>5. QED
  BY <1>1, <1>3, <1>4, RestSafe

LEMMA LeftSafe ==
    ASSUME Calls, Registrations, Alone, NEW t \in Rest, Left(t)
    PROVE  Alone' /\ (Separate => Separate')
  BY SameServices, IdlingSafe DEF Left, peerVars

LEMMA WritePartnerSafe ==
    ASSUME Calls, Registrations, Alone, NEW t \in Rest, WritePartner(t), ~overlap'
    PROVE  Alone' /\ (Separate => Separate')
<1>1. /\ call[t].at = "write" /\ t \in Actor /\ Written(t) /\ SetCall(t, Idle)
      /\ UNCHANGED <<session, bears, tickets, started>> /\ OthersOutside(t)
  BY RestFacts, TouchedAlone DEF WritePartner, peerVars
<1>2. call[t].name \in Names /\ call[t].serial \in Serial
  BY <1>1, NamedFacts DEF Alone
<1>3. /\ call[t].index \in DOMAIN services
      /\ services[call[t].index].name = call[t].name
  BY <1>1 DEF Alone, Found, FoundNamed
<1>4. ASSUME Separate
      PROVE  services[call[t].index].serial = call[t].serial
  <2>1. Means(call[t].name, call[t].serial)
    BY <1>1, Meaning
  <2>2. QED
    BY <1>2, <1>3, <1>4, <2>1, OwnSlot
<1>5. SameSlots /\ (Separate => Data')
  BY <1>1, <1>2, <1>3, <1>4, WrittenFacts
<1>6. QED
  BY <1>1, <1>5, IdlingSafe

LEMMA UpdatePartnerSafe ==
    ASSUME Calls, Registrations, Alone, NEW t \in Rest, NEW k \in tickets,
           UpdatePartner(t, k), ~overlap'
    PROVE  Alone' /\ (Separate => Separate')
<1>1. /\ call[t].at = "idle" /\ k.held /\ t \in Actor /\ OthersOutside(t)
      /\ UNCHANGED <<services, session, bears, tickets, started>>
      /\ k \in Ticket /\ call \in [Actor -> Call]
  BY RestFacts, HereFacts, TouchedAlone DEF UpdatePartner, peerVars
<1>2. PICK i \in DOMAIN services :
         /\ Find(k.name, i)
         /\ SetCall(t, [Idle EXCEPT !.at = "write", !.name = k.name,
                                    !.serial = k.serial, !.index = i])
  BY DEF UpdatePartner
<1> DEFINE c == [Idle EXCEPT !.at = "write", !.name = k.name,
                             !.serial = k.serial, !.index = i]
<1>3. /\ k.name \in MaybeName /\ k.serial \in Nat /\ i \in Nat /\ "write" \in Step
  BY <1>1, HereFacts, SlotFacts DEF Calls, Ticket, Serial, Step, RestStep
<1>4. /\ c \in Call /\ c.at = "write" /\ c.name = k.name /\ c.serial = k.serial
      /\ c.index = i
  BY <1>3, IdleFacts DEF Call
<1>5. SetCall(t, c)
  BY <1>2
<1> HIDE DEF c
<1>6. call'[t] = c
  BY <1>1, <1>5, CallFacts
<1>7. FoundLast(t)' /\ FoundNamed(t)'
  BY <1>1, <1>2, <1>4, <1>6 DEF FoundLast, FoundNamed, Making, Find
<1>8. Means(c.name, c.serial)
  BY <1>1, <1>4, Meaning
<1>9. /\ ~Stopping(t)' /\ c.at \notin StopStep /\ \A q \in Peer : ~Ending(t, q)
      /\ SameTickets
  BY <1>1, <1>4, <1>6 DEF Stopping, StopStep, Ending, SameTickets
<1>10. QED
  BY <1>1, <1>4, <1>5, <1>7, <1>8, <1>9, SameServices, RestSafe

LEMMA LeaveSafe ==
    ASSUME Calls, Registrations, Alone, NEW t \in Rest, NEW k \in tickets, Leave(t, k)
    PROVE  Alone' /\ (Separate => Separate')
<1> DEFINE due == {p \in peers : started[p] /\ bears[p] = k.name}
           c == [Idle EXCEPT !.at = "exit", !.name = k.name, !.serial = k.serial,
                             !.left = peers, !.due = due]
<1>1. /\ call[t].at = "idle" /\ k.held /\ t \in Actor
      /\ UNCHANGED <<services, session, bears, started>>
      /\ tickets' = (tickets \ {k}) \union {[k EXCEPT !.held = FALSE]}
      /\ k \in Ticket /\ call \in [Actor -> Call] /\ peers \in SUBSET Peer
  BY RestFacts, HereFacts DEF Leave, peerVars, TypeOK
<1>2. k.name \in MaybeName /\ k.serial \in Nat /\ "exit" \in Step
  BY <1>1 DEF Ticket, Serial, Step, RestStep
<1>3. c \in Call /\ c.at = "exit" /\ c.name = k.name /\ c.serial = k.serial
  <2>1. due \in SUBSET Peer
    BY <1>1
  <2> HIDE DEF due
  <2>2. QED
    BY <1>1, <1>2, <2>1, IdleFacts DEF Call
<1>4. SetCall(t, c)
  BY DEF Leave
<1> HIDE DEF c
<1>5. call'[t] = c
  BY <1>1, <1>4, CallFacts
<1>6. SameTickets
  <2>1. LET m == [k EXCEPT !.held = FALSE]
        IN  m.name = k.name /\ m.serial = k.serial /\ ~m.held
    BY <1>1 DEF Ticket
  <2>2. QED
    BY <1>1, <2>1 DEF SameTickets
<1>7. Means(c.name, c.serial)
  BY <1>1, <1>3, Meaning
<1>8. /\ ~Inside(t)' /\ ~Stopping(t)' /\ c.at \notin StopStep
      /\ \A q \in Peer : ~Ending(t, q)
  BY <1>1, <1>3, <1>5 DEF Inside, Stopping, StopStep, Ending
<1>9. QED
  BY <1>1, <1>3, <1>4, <1>6, <1>7, <1>8, SameServices, RestSafe

LEMMA NextPeerSafe ==
    ASSUME Calls, Registrations, Alone, NEW t \in Rest, NextPeer(t)
    PROVE  Alone' /\ (Separate => Separate')
<1>1. /\ call[t].at = "exit" /\ t \in Actor /\ call[t] \in Call
      /\ UNCHANGED <<services, session, bears, tickets, started>>
      /\ call \in [Actor -> Call]
  BY RestFacts DEF NextPeer, peerVars
<1>2. PICK p \in call[t].left :
         SetCall(t, [call[t] EXCEPT
                        !.left = @ \ {p},
                        !.at   = IF bears[p] = call[t].name THEN "stop" ELSE @,
                        !.peer = IF bears[p] = call[t].name THEN p ELSE @])
  BY DEF NextPeer
<1> DEFINE c == [call[t] EXCEPT
                    !.left = @ \ {p},
                    !.at   = IF bears[p] = call[t].name THEN "stop" ELSE @,
                    !.peer = IF bears[p] = call[t].name THEN p ELSE @]
<1>3. /\ p \in Peer /\ "stop" \in Step /\ "exit" \in Step
  BY <1>2, TargetFacts DEF Step, StopStep, RestStep
<1>4. /\ c \in Call /\ c.at \in {"stop", "exit"}
      /\ c.name = call[t].name /\ c.serial = call[t].serial
      /\ c.at = "stop" => c.peer = p /\ bears[p] = c.name
  BY <1>1, <1>3 DEF Call
<1>5. SetCall(t, c)
  BY <1>2
<1> HIDE DEF c
<1>6. call'[t] = c
  BY <1>1, <1>5, CallFacts
<1>7. /\ ~Inside(t)' /\ ~Stopping(t)' /\ SameTickets
      /\ \A q \in Peer : ~Ending(t, q)
      /\ c.at \in StopStep => c.peer \in Peer /\ bears[c.peer] = c.name
  BY <1>1, <1>3, <1>4, <1>6 DEF Inside, Stopping, StopStep, Ending, SameTickets
<1>8. Means(c.name, c.serial) /\ c.at # "begin"
  BY <1>1, <1>4, Meaning
<1>9. QED
  BY <1>1, <1>4, <1>5, <1>7, <1>8, SameServices, RestSafe

(* new_service appends while no other slot is without a name. *)
LEMMA NewServiceSafe ==
    ASSUME Calls, Registrations, Alone, NEW t \in Rest, NEW n \in Asked,
           NewService(t, n), ~overlap'
    PROVE  Alone' /\ (Separate => Separate')
<1> DEFINE c == [Idle EXCEPT !.at = "gen", !.name = n, !.serial = count + 1,
                             !.index = Len(services) + 1]
           x == [name |-> NoName, serial |-> count + 1, data |-> {}]
<1>1. /\ t \in Actor /\ t \notin Peer /\ call[t].at = "idle" /\ OthersOutside(t)
      /\ UNCHANGED <<session, bears, tickets, started>>
      /\ call \in [Actor -> Call] /\ services \in Seq(Slot)
      /\ count \in Nat /\ count + 1 \in Serial /\ Len(services) + 1 \in Nat
      /\ \A q \in Peer : ~Ending(t, q)
  <2>1. TypeOK /\ t \in Actor /\ t \notin Peer /\ call[t].at = "idle"
    BY RestFacts DEF NewService
  <2>2. count \in Nat /\ MaxServices \in Nat /\ count < MaxServices
    BY <2>1, HereFacts, ActorFacts DEF NewService
  <2>3. count + 1 \in Serial
    BY <2>2 DEF Serial
  <2>4. OthersOutside(t) /\ \A q \in Peer : ~Ending(t, q)
    BY <2>1, RestFacts, TouchedAlone DEF NewService, Stopping
  <2>5. QED
    BY <2>1, <2>2, <2>3, <2>4, RestFacts DEF NewService, peerVars
<1>2. /\ c \in Call /\ c.at = "gen" /\ c.serial = count + 1
      /\ c.index = Len(services) + 1
  <2>1. n \in MaybeName /\ "gen" \in Step /\ count + 1 \in Nat
    BY <1>1, ActorFacts DEF MaybeName, Step, RestStep
  <2>2. QED
    BY <1>1, <2>1, IdleFacts DEF Call
<1>3. x \in Slot /\ x.name = NoName /\ x.serial = count + 1 /\ x.data = {}
  BY <1>1 DEF Slot, MaybeName
<1>4. SetCall(t, c) /\ services' = Append(services, x)
  BY DEF NewService
<1> HIDE DEF c, x
<1>5. call'[t] = c /\ \A u \in Rest : u # t => call'[u] = call[u]
  BY <1>1, <1>4, CallFacts, ActorFacts
<1>6. /\ Len(services') = Len(services) + 1
      /\ DOMAIN services = 1 .. Len(services)
      /\ DOMAIN services' = 1 .. Len(services) + 1
      /\ services'[Len(services) + 1] = x
      /\ \A i \in DOMAIN services : services'[i] = services[i]
      /\ \A i \in DOMAIN services' : i \in DOMAIN services \/ i = Len(services) + 1
  BY <1>1, <1>3, <1>4, Appending, SlotFacts
<1>7. ~Registered(NoName)
  <2>1. ASSUME NEW u \in Rest, call[u].at \in {"gen", "assign"} PROVE FALSE
    <3>1. Inside(u) /\ u \in Actor
      BY <2>1, ActorFacts DEF Inside
    <3>2. QED
      BY <1>1, <2>1, <3>1 DEF OthersOutside
  <2>2. QED
    BY <2>1 DEF Alone, Nameless, Naming
<1>8. \A i \in DOMAIN services : services[i].name # NoName
  BY <1>7 DEF Registered, InUse
<1>9. FoundLast(t)' /\ FoundNamed(t)'
  <2>1. Len(services') \in DOMAIN services'
    BY <1>1, <1>6
  <2>2. FoundLast(t)'
    BY <1>2, <1>3, <1>5, <1>6, <2>1 DEF FoundLast, Making
  <2>3. FoundNamed(t)'
    BY <1>2, <1>5 DEF FoundNamed
  <2>4. QED
    BY <2>2, <2>3
<1>10. Unique' /\ Nameless' /\ Answered'
  <2>1. Unique'
    BY <1>3, <1>6, <1>8 DEF Alone, Unique
  <2>2. Nameless'
    BY <1>2, <1>5 DEF Nameless, Naming
  <2>3. Answered'
    <3>1. \A k \in tickets : k.serial # count + 1
      BY <1>1, NamedFacts DEF Alone, Registrations, Numbers, TicketNumbers, Serial
    <3>2. QED
      BY <1>1, <1>3, <1>6, <3>1 DEF Alone, Answered
  <2>4. QED
    BY <2>1, <2>2, <2>3
<1>11. ASSUME NEW i \in DOMAIN services'
       PROVE  \/ \E j \in DOMAIN services : services[j].serial = services'[i].serial
              \/ \A p \in Peer : session[p] # services'[i].serial
  <2>1. \A p \in Peer : session[p] # count + 1
    BY <1>1, NamedFacts DEF Alone, Registrations, Sessions, Numbers, TicketNumbers, Serial
  <2>2. QED
    BY <1>3, <1>6, <2>1
<1>12. Alone'
  <2>1. /\ \A p \in Peer :
             /\ p # t => session'[p] = session[p] /\ bears'[p] = bears[p]
             /\ bears[p] # NoName => session'[p] = session[p] /\ bears'[p] = bears[p]
             /\ bears'[p] # bears[p] => started'[p]
             /\ started'[p] # started[p] => p = t \/ bears[p] # NoName
        /\ \A p \in Peer : bears[p] # NoName =>
              /\ started[p] /\ ~started'[p] => Ending(t, p)'
              /\ Ending(t, p) /\ ~Ending(t, p)' =>
                    \A i \in DOMAIN services' : services'[i].serial # session[p]
        /\ c.at \notin StopStep
    BY <1>1, <1>2 DEF StopStep
  <2>2. QED
    BY <1>1, <1>2, <1>4, <1>9, <1>10, <1>11, <2>1, AloneStep
<1>13. ASSUME Separate
       PROVE  Separate'
  <2>1. \A m \in Names : \A s : Present(m, s) => Stays(m, s)
    BY <1>6 DEF Present, Stays
  <2>2. \A i \in DOMAIN services' : services'[i].name # NoName =>
              Means(services'[i].name, services'[i].serial)
    BY <1>3, <1>6, Meaning
  <2>3. Data'
    BY <1>3, <1>6, <1>13 DEF Separate, Data
  <2>4. SameTickets /\ ~Stopping(t)'
    BY <1>1, <1>2, <1>5 DEF SameTickets, Stopping
  <2>5. \A p \in Peer : started'[p] /\ bears[p] # NoName => started[p]
    BY <1>1
  <2>6. QED
    BY <1>1, <1>2, <1>4, <1>13, <2>1, <2>2, <2>3, <2>4, <2>5, SeparateStep
<1>14. QED
  BY <1>12, <1>13

(* The slot that new_service has appended gets a name that no other has. *)
LEMMA AssignSafe ==
    ASSUME Calls, Registrations, Alone, NEW t \in Rest, Assign(t), ~overlap'
    PROVE  Alone' /\ (Separate => Separate')
<1> DEFINE c == [call[t] EXCEPT !.at = "answer"]
           n == Len(services)
           m == call[t].name
<1>1. /\ t \in Actor /\ t \notin Peer /\ call[t].at = "assign" /\ OthersOutside(t)
      /\ UNCHANGED <<session, bears, tickets, started>>
      /\ call \in [Actor -> Call] /\ call[t] \in Call /\ services \in Seq(Slot)
      /\ \A q \in Peer : ~Ending(t, q)
  BY RestFacts, TouchedAlone DEF Assign, peerVars, Stopping
<1>2. /\ c \in Call /\ c.at = "answer" /\ c.serial = call[t].serial
      /\ c.index = call[t].index /\ c.name = m
  <2>1. "answer" \in Step
    BY DEF Step, RestStep
  <2>2. QED
    BY <1>1, <2>1 DEF Call
<1>3. SetCall(t, c)
  BY DEF Assign
<1> HIDE DEF c
<1>4. call'[t] = c /\ \A u \in Rest : u # t => call'[u] = call[u]
  BY <1>1, <1>3, CallFacts, ActorFacts
<1>5. /\ n \in DOMAIN services /\ call[t].index = n
      /\ services[n].serial = call[t].serial /\ services[n].name = NoName
      /\ ~Registered(m) /\ m \in Names /\ m # NoName
  <2>1. FoundLast(t)
    BY <1>1 DEF Alone, Found
  <2>2. m \in Names
    BY <1>1, NamedFacts DEF Alone
  <2>3. QED
    BY <1>1, <2>1, <2>2, ActorFacts DEF FoundLast, Making
<1>6. services' = [services EXCEPT ![n].name = m]
  BY <1>5 DEF Assign
<1>7. /\ Len(services') = n /\ DOMAIN services' = DOMAIN services
      /\ \A j \in DOMAIN services : /\ services'[j].serial = services[j].serial
                                    /\ services'[j].data = services[j].data
                                    /\ j # n => services'[j] = services[j]
                                    /\ j = n => services'[j].name = m
  <2>1. m \in MaybeName
    BY <1>5 DEF MaybeName
  <2>2. QED
    BY <1>1, <1>6, <2>1, NameWritten
<1> HIDE DEF n, m
<1>8. FoundLast(t)' /\ FoundNamed(t)'
  BY <1>2, <1>4, <1>5, <1>7 DEF FoundLast, FoundNamed, Making
<1>9. /\ \A j \in DOMAIN services : services[j].name # m
      /\ \A j \in DOMAIN services : j # n => services[j].name # NoName
  BY <1>5 DEF Registered, InUse, Alone, Unique
<1>10. Unique' /\ Nameless' /\ Answered'
  <2>1. Unique'
    BY <1>7, <1>9 DEF Alone, Unique
  <2>2. ~Registered(NoName)'
    BY <1>5, <1>7, <1>9 DEF Registered, InUse
  <2>3. Answered'
    <3>1. \A k \in tickets : k.serial # call[t].serial
      BY <1>1 DEF Registrations, Numbers, MakingNumbers, Making
    <3>2. QED
      BY <1>1, <1>5, <1>7, <3>1 DEF Alone, Answered
  <2>4. QED
    BY <2>1, <2>2, <2>3 DEF Nameless, Naming
<1>11. Alone'
  <2>1. /\ \A p \in Peer :
             /\ p # t => session'[p] = session[p] /\ bears'[p] = bears[p]
             /\ bears[p] # NoName => session'[p] = session[p] /\ bears'[p] = bears[p]
             /\ bears'[p] # bears[p] => started'[p]
             /\ started'[p] # started[p] => p = t \/ bears[p] # NoName
        /\ \A p \in Peer : bears[p] # NoName =>
              /\ started[p] /\ ~started'[p] => Ending(t, p)'
              /\ Ending(t, p) /\ ~Ending(t, p)' =>
                    \A i \in DOMAIN services' : services'[i].serial # session[p]
        /\ c.at \notin StopStep
        /\ \A i \in DOMAIN services' :
              \E j \in DOMAIN services : services[j].serial = services'[i].serial
    BY <1>1, <1>2, <1>7 DEF StopStep
  <2>2. QED
    BY <1>1, <1>2, <1>3, <1>8, <1>10, <2>1, AloneStep
<1>12. ASSUME Separate
       PROVE  Separate'
  <2>1. Means(m, call[t].serial)
    BY <1>1, Meaning DEF m
  <2>2. \A k \in Names : \A s : Present(k, s) => Stays(k, s)
    BY <1>5, <1>7, ActorFacts DEF Present, Stays
  <2>3. \A i \in DOMAIN services' : Means(services'[i].name, services'[i].serial)
    BY <1>5, <1>7, <2>1, Meaning
  <2>4. Data'
    BY <1>7, <1>12 DEF Separate, Data
  <2>5. SameTickets /\ ~Stopping(t)'
    BY <1>1, <1>2, <1>4 DEF SameTickets, Stopping
  <2>6. \A p \in Peer : started'[p] /\ bears[p] # NoName => started[p]
    BY <1>1
  <2>7. Means(c.name, c.serial)
    BY <1>2, <2>1
  <2>8. QED
    BY <1>1, <1>2, <1>3, <1>12, <2>2, <2>3, <2>4, <2>5, <2>6, <2>7, SeparateStep
<1>13. QED
  BY <1>11, <1>12

(* /init answers with what it has made. *)
LEMMA AnswerSafe ==
    ASSUME Calls, Registrations, Alone, NEW t \in Rest, Answer(t), ~overlap'
    PROVE  Alone' /\ (Separate => Separate')
<1> DEFINE n == Len(services)
           m == call[t].name
           s == call[t].serial
           k == [name |-> Last(services).name, serial |-> s, held |-> TRUE]
<1>1. /\ t \in Actor /\ t \notin Peer /\ call[t].at = "answer" /\ OthersOutside(t)
      /\ UNCHANGED <<services, session, bears, started>> /\ SetCall(t, Idle)
      /\ call \in [Actor -> Call] /\ services \in Seq(Slot)
      /\ \A q \in Peer : ~Ending(t, q)
  BY RestFacts, TouchedAlone DEF Answer, peerVars, Stopping
<1>2. /\ call'[t] = Idle /\ \A u \in Rest : u # t => call'[u] = call[u]
      /\ \A p \in Peer : call'[p] = call[p]
      /\ Idle \in Call /\ Idle.at = "idle"
  BY <1>1, CallFacts, ActorFacts, IdleFacts
<1>3. /\ n \in DOMAIN services /\ services[n].serial = s /\ services[n].name = m
      /\ m \in Names /\ m # NoName
  <2>1. FoundLast(t) /\ m \in Names
    BY <1>1, NamedFacts DEF Alone, Found
  <2>2. QED
    BY <1>1, <2>1, ActorFacts DEF FoundLast, Making
<1>4. tickets' = tickets \union {k} /\ k.name = m /\ k.serial = s
  <2>1. services # <<>>
    BY <1>1, <1>3, EmptySeq, SlotFacts
  <2>2. Last(services) = services[n]
    BY DEF Last
  <2>3. QED
    BY <1>3, <2>1, <2>2 DEF Answer
<1> HIDE DEF n, m, s, k
<1>5. Unique' /\ Nameless' /\ Answered'
  <2>1. Unique'
    BY <1>1 DEF Alone, Unique
  <2>2. Nameless'
    <3>1. SUFFICES ASSUME Registered(NoName)'
                   PROVE  \E u \in Rest : call'[u].at \in {"gen", "assign"}
      BY DEF Nameless, Naming
    <3>2. PICK u \in Rest : call[u].at \in {"gen", "assign"}
      BY <1>1, <3>1 DEF Registered, InUse, Alone, Nameless, Naming
    <3>3. QED
      BY <1>1, <1>2, <3>2
  <2>3. Answered'
    <3>1. ASSUME NEW i \in DOMAIN services, services[i].serial = s
          PROVE  services[i].name = m
      BY <1>3, <3>1 DEF Registrations, Numbers, SlotNumbers
    <3>2. QED
      BY <1>1, <1>3, <1>4, <3>1 DEF Alone, Answered
  <2>4. QED
    BY <2>1, <2>2, <2>3
<1>6. Alone'
  <2>1. /\ \A p \in Peer :
             /\ p # t => session'[p] = session[p] /\ bears'[p] = bears[p]
             /\ bears[p] # NoName => session'[p] = session[p] /\ bears'[p] = bears[p]
             /\ bears'[p] # bears[p] => started'[p]
             /\ started'[p] # started[p] => p = t \/ bears[p] # NoName
        /\ \A p \in Peer : bears[p] # NoName =>
              /\ started[p] /\ ~started'[p] => Ending(t, p)'
              /\ Ending(t, p) /\ ~Ending(t, p)' =>
                    \A i \in DOMAIN services' : services'[i].serial # session[p]
        /\ \A i \in DOMAIN services' :
              \E j \in DOMAIN services : services[j].serial = services'[i].serial
        /\ Idle.at \notin StopStep /\ ~Inside(t)'
    BY <1>1, <1>2 DEF StopStep, Inside
  <2>2. QED
    BY <1>1, <1>2, <1>5, <2>1, AloneStep
<1>7. ASSUME Separate
      PROVE  Separate'
  <2>1. Kept'
    <3>1. /\ \A x \in Names : \A r : Present(x, r) => Stays(x, r)
          /\ Stays(m, s)
      BY <1>1, <1>3 DEF Present, Stays
    <3>2. \A p \in Peer : Running(p)' => Running(p)
      BY <1>1, <1>2 DEF Running
    <3>3. \A p \in Peer :
             /\ Running(p)' => /\ Running(p)
                               /\ bears'[p] = bears[p] /\ session'[p] = session[p]
             /\ call'[p].at = "handling" /\ bears'[p] = NoName =>
                   /\ call[p].at = "handling" /\ bears[p] = NoName
                   /\ call'[p].name = call[p].name /\ session'[p] = session[p]
      BY <1>1, <1>2, <3>2
    <3>4. \A u \in Rest : call'[u].at = "begin" => call[u].at = "begin" /\ call'[u] = call[u]
      BY <1>2
    <3>5. \A r : Served(r)' <=> Served(r)
      BY <1>1 DEF Served
    <3>6. \A j \in tickets' : ~Served(j.serial)' =>
             \/ /\ ~Served(j.serial)
                /\ \E i \in tickets : i.name = j.name /\ i.serial = j.serial
             \/ Stays(j.name, j.serial)
      BY <1>4, <3>1, <3>5
    <3>7. QED
      BY <1>7, <3>1, <3>3, <3>4, <3>6, KeptStep DEF Alone, Separate
  <2>2. OneMeaning'
    <3>1. Means(m, s)
      BY <1>3, Meaning
    <3>2. \A j \in tickets' : j.held => Means(j.name, j.serial)
      BY <1>4, <3>1, Meaning
    <3>3. \A u \in Rest : call'[u].at \notin {"idle", "gen"} =>
             Means(call'[u].name, call'[u].serial)
      BY <1>2, Meaning
    <3>4. \A p \in Peer :
             /\ call'[p].at \notin {"gone", "failed"} /\ bears'[p] # NoName =>
                   Means(bears'[p], session'[p])
             /\ call'[p].at = "handling" /\ bears'[p] = NoName =>
                   Means(call'[p].name, session'[p])
      BY <1>1, <1>2, Meaning
    <3>5. \A i \in DOMAIN services' : Means(services'[i].name, services'[i].serial)
      BY <1>1, Meaning
    <3>6. QED
      BY <1>7, <3>2, <3>3, <3>4, <3>5, MeansKept DEF Separate
  <2>3. OwnPeer'
    <3>1. \A u \in Rest : Stopping(u)' => Stopping(u) /\ call'[u] = call[u]
      BY <1>2 DEF Stopping
    <3>2. QED
      BY <1>1, <1>7, <3>1 DEF OwnPeer, Separate
  <2>4. Data'
    BY <1>1, <1>7, SameServices
  <2>5. QED
    BY <2>1, <2>2, <2>3, <2>4 DEF Separate
<1>8. QED
  BY <1>6, <1>7

-----------------------------------------------------------------------------
(* Peers that get a session or a name.                                      *)

(* A session is for a registration: one that is served stays served when a  *)
(* peer without a session gets one.                                        *)
LEMMA StaysServed ==
    ASSUME NEW p \in Peer, session[p] = 0,
           \A q \in Peer : q # p => session'[q] = session[q]
    PROVE  \A s \in Serial : Served(s) => Served(s)'
  BY DEF Served, Serial

LEMMA OnReadInitSafe ==
    ASSUME Calls, Registrations, Alone, NEW p \in Peer, NEW k \in tickets,
           OnReadInit(p, k)
    PROVE  Alone' /\ (Separate => Separate')
<1> DEFINE c == [call[p] EXCEPT !.at = "handling", !.name = k.name]
<1>1. /\ call[p].at = "reading" /\ started[p] /\ bears[p] = NoName
      /\ ~Served(k.serial) /\ session' = [session EXCEPT ![p] = k.serial]
      /\ UNCHANGED <<services, bears, started, tickets>> /\ SetCall(p, c)
  BY DEF OnReadInit
<1>2. /\ p \in Actor /\ call[p] \in Call /\ call[p].peer = p
      /\ call \in [Actor -> Call] /\ session[p] = 0
      /\ session \in [Peer -> 0 .. MaxServices]
  BY <1>1, PeerFacts, HereFacts DEF Calls, TypeOK, Alone, Unnamed, UnnamedPeer
<1>3. k.name \in Names /\ k.name \in MaybeName /\ k.serial \in Serial
  BY NamedFacts DEF Alone, MaybeName
<1>4. c \in Call /\ c.at = "handling" /\ c.name = k.name
  <2>1. "handling" \in Step
    BY DEF Step, PeerStep
  <2>2. QED
    BY <1>2, <1>3, <2>1 DEF Call
<1> HIDE DEF c
<1>5. /\ call'[p] = c /\ \A t \in Rest : call'[t] = call[t]
      /\ \A q \in Peer : q # p => call'[q] = call[q] /\ session'[q] = session[q]
      /\ session'[p] = k.serial
  BY <1>1, <1>2, CallFacts, ActorFacts
<1>6. SameSlots /\ SameTickets
  BY <1>1 DEF SameSlots, SameTickets
<1>7. Alone'
  <2>1. Unique' /\ Nameless' /\ Answered'
    BY <1>5, <1>6, NamesKept DEF Alone
  <2>2. UnnamedPeer(p)' /\ ~Inside(p)' /\ \A q \in Peer : ~Ending(p, q)
    BY <1>1, <1>4, <1>5 DEF UnnamedPeer, StopStep, Inside, Ending, Stopping
  <2>3. /\ \A q \in Peer :
             /\ q # p => session'[q] = session[q] /\ bears'[q] = bears[q]
             /\ bears[q] # NoName => session'[q] = session[q] /\ bears'[q] = bears[q]
             /\ bears'[q] # bears[q] => started'[q]
             /\ started'[q] # started[q] => q = p \/ bears[q] # NoName
        /\ \A q \in Peer : bears[q] # NoName =>
              /\ started[q] /\ ~started'[q] => Ending(p, q)'
              /\ Ending(p, q) /\ ~Ending(p, q)' =>
                    \A i \in DOMAIN services' : services'[i].serial # session[q]
        /\ \A i \in DOMAIN services' :
              \E j \in DOMAIN services : services[j].serial = services'[i].serial
        /\ p \notin Rest
    BY <1>1, <1>5, <2>2, ActorFacts
  <2>4. QED
    BY <1>1, <1>2, <1>4, <2>1, <2>2, <2>3, AloneStep
<1>8. ASSUME Separate
      PROVE  Separate'
  <2>1. Present(k.name, k.serial)
    BY <1>1, <1>8 DEF Separate, Kept
  <2>2. \A x \in Names : \A r : Present(x, r) => Stays(x, r)
    BY <1>6, SlotsStay
  <2>3. Kept'
    <3>1. ASSUME NEW q \in Peer
          PROVE  /\ Running(q)' => /\ Running(q)
                                   /\ bears'[q] = bears[q] /\ session'[q] = session[q]
                 /\ call'[q].at = "handling" /\ bears'[q] = NoName =>
                       \/ /\ call[q].at = "handling" /\ bears[q] = NoName
                          /\ call'[q].name = call[q].name /\ session'[q] = session[q]
                       \/ Stays(call'[q].name, session'[q])
      <4>1. CASE q = p
        BY <1>1, <1>3, <1>4, <1>5, <2>1, <2>2, <4>1 DEF Running
      <4>2. CASE q # p
        BY <1>1, <1>5, <4>2 DEF Running
      <4>3. QED
        BY <4>1, <4>2
    <3>2. \A t \in Rest : call'[t].at = "begin" => call[t].at = "begin" /\ call'[t] = call[t]
      BY <1>5
    <3>3. \A s \in Serial : Served(s) => Served(s)'
      BY <1>2, <1>5, StaysServed
    <3>4. \A j \in tickets' : ~Served(j.serial)' =>
             /\ ~Served(j.serial)
             /\ \E i \in tickets : i.name = j.name /\ i.serial = j.serial
      BY <1>1, <3>3, NamedFacts DEF Alone
    <3>5. QED
      BY <1>8, <2>2, <3>1, <3>2, <3>4, KeptStep DEF Alone, Separate
  <2>4. OneMeaning'
    <3>1. Means(k.name, k.serial)
      BY <2>1, Meaning
    <3>2. /\ \A j \in tickets' : j.held => Means(j.name, j.serial)
          /\ \A t \in Rest : call'[t].at \notin {"idle", "gen"} =>
                Means(call'[t].name, call'[t].serial)
          /\ \A i \in DOMAIN services' : Means(services'[i].name, services'[i].serial)
      BY <1>1, <1>5, Meaning
    <3>3. ASSUME NEW q \in Peer
          PROVE  /\ call'[q].at \notin {"gone", "failed"} /\ bears'[q] # NoName =>
                       Means(bears'[q], session'[q])
                 /\ call'[q].at = "handling" /\ bears'[q] = NoName =>
                       Means(call'[q].name, session'[q])
      <4>1. CASE q = p
        BY <1>1, <1>4, <1>5, <3>1, <4>1
      <4>2. CASE q # p
        BY <1>1, <1>5, <4>2, Meaning
      <4>3. QED
        BY <4>1, <4>2
    <3>4. QED
      BY <1>8, <3>2, <3>3, MeansKept DEF Separate
  <2>5. OwnPeer'
    <3>1. ASSUME NEW t \in Rest, Stopping(t)'
          PROVE  session'[call'[t].peer] = call'[t].serial
      <4>1. call'[t] = call[t] /\ Stopping(t) /\ call[t].at \in StopStep
        BY <1>5, <3>1 DEF Stopping, StopStep
      <4>2. call[t].peer \in Peer /\ bears[call[t].peer] = call[t].name
        BY <4>1, TargetFacts DEF Alone, NameSakes
      <4>3. call[t].at \notin {"idle", "gen"}
        BY <4>1 DEF StopStep
      <4>4. call[t].name # NoName
        BY <4>3, NamedFacts, ActorFacts DEF Alone
      <4>5. call[t].peer # p
        BY <1>1, <4>2, <4>4
      <4>6. session[call[t].peer] = call[t].serial
        BY <1>8, <4>1 DEF Separate, OwnPeer
      <4>7. QED
        BY <1>5, <4>1, <4>2, <4>5, <4>6
    <3>2. QED
      BY <3>1 DEF OwnPeer
  <2>6. Data'
    BY <1>1, <1>8, SameServices
  <2>7. QED
    BY <2>3, <2>4, <2>5, <2>6 DEF Separate
<1>9. QED
  BY <1>7, <1>8

LEMMA OnInitSafe ==
    ASSUME Calls, Registrations, Alone, NEW p \in Peer, OnInit(p)
    PROVE  Alone' /\ (Separate => Separate')
<1> DEFINE c == Resumed(p)
           n == call[p].name
<1>1. /\ call[p].at = "handling" /\ bears[p] = NoName /\ started[p]
      /\ UNCHANGED <<services, session, started, tickets>> /\ SetCall(p, c)
      /\ bears' = [bears EXCEPT ![p] = n]
  BY DEF OnInit, Alone, Unnamed, UnnamedPeer
<1>2. /\ p \in Actor /\ call \in [Actor -> Call] /\ bears \in [Peer -> MaybeName]
      /\ n \in Names /\ n # NoName
  BY <1>1, PeerFacts, HereFacts, NamedFacts, ActorFacts DEF Calls, TypeOK, Alone
<1>3. c \in Call /\ c.at = "reading"
  BY <1>1, ResumedFacts
<1> HIDE DEF c, n
<1>4. /\ call'[p] = c /\ \A t \in Rest : call'[t] = call[t]
      /\ \A q \in Peer : q # p => call'[q] = call[q] /\ bears'[q] = bears[q]
      /\ bears'[p] = n
  BY <1>1, <1>2, CallFacts, ActorFacts
<1>5. SameSlots /\ SameTickets
  BY <1>1 DEF SameSlots, SameTickets
<1>6. Alone'
  <2>1. Unique' /\ Nameless' /\ Answered'
    BY <1>4, <1>5, NamesKept DEF Alone
  <2>2. ~Inside(p)' /\ \A q \in Peer : ~Ending(p, q)
    BY <1>1, <1>3, <1>4 DEF Inside, Ending, Stopping
  <2>3. /\ \A q \in Peer :
             /\ q # p => session'[q] = session[q] /\ bears'[q] = bears[q]
             /\ bears[q] # NoName => session'[q] = session[q] /\ bears'[q] = bears[q]
             /\ bears'[q] # bears[q] => started'[q]
             /\ started'[q] # started[q] => q = p \/ bears[q] # NoName
        /\ \A q \in Peer : bears[q] # NoName =>
              /\ started[q] /\ ~started'[q] => Ending(p, q)'
              /\ Ending(p, q) /\ ~Ending(p, q)' =>
                    \A i \in DOMAIN services' : services'[i].serial # session[q]
        /\ \A i \in DOMAIN services' :
              \E j \in DOMAIN services : services[j].serial = services'[i].serial
        /\ p \notin Rest
    BY <1>1, <1>4, <2>2, ActorFacts
  <2>4. bears'[p] # NoName
    BY <1>2, <1>4
  <2>5. QED
    BY <1>1, <1>2, <1>3, <2>1, <2>2, <2>3, <2>4, AloneStep
<1>7. ASSUME Separate
      PROVE  Separate'
  <2>1. \A x \in Names : \A r : Present(x, r) => Stays(x, r)
    BY <1>5, SlotsStay
  <2>2. Kept'
    <3>1. Present(n, session[p])
      BY <1>1, <1>7 DEF Separate, Kept, n
    <3>2. ASSUME NEW q \in Peer
          PROVE  /\ Running(q)' => \/ /\ Running(q)
                                      /\ bears'[q] = bears[q] /\ session'[q] = session[q]
                                   \/ Stays(bears'[q], session'[q])
                 /\ call'[q].at = "handling" /\ bears'[q] = NoName =>
                       /\ call[q].at = "handling" /\ bears[q] = NoName
                       /\ call'[q].name = call[q].name /\ session'[q] = session[q]
      <4>1. CASE q = p
        BY <1>1, <1>2, <1>3, <1>4, <2>1, <3>1, <4>1
      <4>2. CASE q # p
        BY <1>1, <1>4, <4>2 DEF Running
      <4>3. QED
        BY <4>1, <4>2
    <3>3. \A t \in Rest : call'[t].at = "begin" => call[t].at = "begin" /\ call'[t] = call[t]
      BY <1>4
    <3>4. \A j \in tickets' : ~Served(j.serial)' =>
             /\ ~Served(j.serial)
             /\ \E i \in tickets : i.name = j.name /\ i.serial = j.serial
      BY <1>1 DEF Served
    <3>5. QED
      BY <1>7, <2>1, <3>2, <3>3, <3>4, KeptStep DEF Alone, Separate
  <2>3. OneMeaning'
    <3>1. Means(n, session[p])
      BY <1>1, Meaning DEF n
    <3>2. /\ \A j \in tickets' : j.held => Means(j.name, j.serial)
          /\ \A t \in Rest : call'[t].at \notin {"idle", "gen"} =>
                Means(call'[t].name, call'[t].serial)
          /\ \A i \in DOMAIN services' : Means(services'[i].name, services'[i].serial)
      BY <1>1, <1>4, Meaning
    <3>3. ASSUME NEW q \in Peer
          PROVE  /\ call'[q].at \notin {"gone", "failed"} /\ bears'[q] # NoName =>
                       Means(bears'[q], session'[q])
                 /\ call'[q].at = "handling" /\ bears'[q] = NoName =>
                       Means(call'[q].name, session'[q])
      <4>1. CASE q = p
        BY <1>1, <1>3, <1>4, <3>1, <4>1
      <4>2. CASE q # p
        BY <1>1, <1>4, <4>2, Meaning
      <4>3. QED
        BY <4>1, <4>2
    <3>4. QED
      BY <1>7, <3>2, <3>3, MeansKept DEF Separate
  <2>4. OwnPeer'
    BY <1>1, <1>4, <1>7 DEF Separate, OwnPeer, Stopping
  <2>5. Data'
    BY <1>1, <1>7, SameServices
  <2>6. QED
    BY <2>2, <2>3, <2>4, <2>5 DEF Separate
<1>8. QED
  BY <1>6, <1>7

LEMMA BeginSyncSafe ==
    ASSUME Calls, Registrations, Alone, NEW t \in Rest, NEW k \in tickets,
           NEW p \in Dialers, BeginSync(t, k, p)
    PROVE  Alone' /\ (Separate => Separate')
<1> DEFINE c == [Idle EXCEPT !.at = "begin", !.name = k.name,
                             !.serial = k.serial, !.peer = p]
           d == [call[p] EXCEPT !.at = "listed"]
<1>1. /\ t \in Actor /\ t \notin Peer /\ p \in Peer /\ p \in Actor /\ p \notin Rest
      /\ call[t].at = "idle" /\ call[p].at = "new" /\ call[p] \in Call
      /\ call \in [Actor -> Call] /\ session \in [Peer -> 0 .. MaxServices]
      /\ k.held /\ ~Served(k.serial) /\ session' = [session EXCEPT ![p] = k.serial]
      /\ UNCHANGED <<services, started, bears, tickets>>
      /\ call' = [call EXCEPT ![t] = c, ![p] = d]
  <2>1. t \in Actor /\ t \notin Peer /\ p \in Peer /\ p \in Actor /\ p \notin Rest /\ p # t
    BY ActorFacts
  <2>2. call' = [call EXCEPT ![t] = c, ![p] = d]
    BY <2>1 DEF BeginSync
  <2>3. QED
    BY <2>1, <2>2, HereFacts DEF BeginSync, Calls, TypeOK
<1>2. bears[p] = NoName /\ session[p] = 0
  BY <1>1 DEF Calls, PeerCalls
<1>3. c.at = "begin" /\ c.name = k.name /\ c.serial = k.serial /\ d.at = "listed"
  BY <1>1, IdleFacts DEF Call, Idle
<1> HIDE DEF c, d
<1>4. /\ call'[t] = c /\ call'[p] = d
      /\ \A u \in Rest : u # t => call'[u] = call[u]
      /\ \A q \in Peer : q # p => call'[q] = call[q] /\ session'[q] = session[q]
      /\ \A b \in Actor : b # t /\ b # p => call'[b] = call[b]
  BY <1>1, ActorFacts
<1>5. SameSlots /\ SameTickets
  BY <1>1 DEF SameSlots, SameTickets
<1>6. ~Inside(t)' /\ ~Inside(p)' /\ ~Stopping(t)' /\ ~Stopping(p)'
      /\ ~Stopping(t) /\ ~Stopping(p)
  BY <1>1, <1>3, <1>4 DEF Inside, Stopping
<1>7. Alone'
  <2>1. Unique' /\ Nameless' /\ Answered'
    <3>1. \A u \in Rest : call[u].at \in {"gen", "assign"} =>
                             call'[u].at \in {"gen", "assign"}
      BY <1>1, <1>4
    <3>2. QED
      BY <1>5, <3>1, NamesKept DEF Alone
  <2>2. OneInside' /\ Found'
    <3>1. \A b \in Actor : Inside(b)' => call'[b] = call[b]
      BY <1>4, <1>6
    <3>2. QED
      BY <1>1, <3>1, InsideKept DEF Alone
  <2>3. Unnamed'
    <3>1. UnnamedPeer(p)'
      BY <1>3, <1>4 DEF UnnamedPeer, StopStep
    <3>2. ASSUME NEW q \in Peer, q # p, bears'[q] = NoName
          PROVE  UnnamedPeer(q)'
      BY <1>1, <1>4, <3>2 DEF Alone, Unnamed, UnnamedPeer
    <3>3. QED
      BY <3>1, <3>2 DEF Unnamed
  <2>4. NameSakes'
    BY <1>1, <1>3, <1>4 DEF Alone, NameSakes, StopStep
  <2>5. Forgotten'
    <3>1. \A b \in Actor, q \in Peer : Ending(b, q) => Ending(b, q)'
      BY <1>4, <1>6 DEF Ending, Stopping
    <3>2. QED
      BY <1>1, <1>2, <1>4, <3>1 DEF Alone, Forgotten
  <2>6. QED
    BY <2>1, <2>2, <2>3, <2>4, <2>5 DEF Alone
<1>8. ASSUME Separate
      PROVE  Separate'
  <2>1. Present(k.name, k.serial) /\ k.name \in Names
    BY <1>1, <1>8, NamedFacts DEF Separate, Kept, Alone
  <2>2. \A x \in Names : \A r : Present(x, r) => Stays(x, r)
    BY <1>5, SlotsStay
  <2>3. Kept'
    <3>1. \A q \in Peer :
             /\ Running(q)' => /\ Running(q)
                               /\ bears'[q] = bears[q] /\ session'[q] = session[q]
             /\ call'[q].at = "handling" /\ bears'[q] = NoName =>
                   /\ call[q].at = "handling" /\ bears[q] = NoName
                   /\ call'[q].name = call[q].name /\ session'[q] = session[q]
      BY <1>1, <1>3, <1>4 DEF Running
    <3>2. \A u \in Rest : call'[u].at = "begin" =>
             \/ call[u].at = "begin" /\ call'[u] = call[u]
             \/ Stays(call'[u].name, call'[u].serial)
      BY <1>3, <1>4, <2>1, <2>2
    <3>3. \A s \in Serial : Served(s) => Served(s)'
      BY <1>1, <1>2, <1>4, StaysServed
    <3>4. \A j \in tickets' : ~Served(j.serial)' =>
             /\ ~Served(j.serial)
             /\ \E i \in tickets : i.name = j.name /\ i.serial = j.serial
      BY <1>1, <3>3, NamedFacts DEF Alone
    <3>5. QED
      BY <1>8, <2>2, <3>1, <3>2, <3>4, KeptStep DEF Alone, Separate
  <2>4. OneMeaning'
    <3>1. Means(k.name, k.serial)
      BY <1>1, Meaning
    <3>2. /\ \A j \in tickets' : j.held => Means(j.name, j.serial)
          /\ \A i \in DOMAIN services' : Means(services'[i].name, services'[i].serial)
      BY <1>1, Meaning
    <3>3. \A u \in Rest : call'[u].at \notin {"idle", "gen"} =>
             Means(call'[u].name, call'[u].serial)
      BY <1>3, <1>4, <3>1, Meaning
    <3>4. \A q \in Peer :
             /\ call'[q].at \notin {"gone", "failed"} /\ bears'[q] # NoName =>
                   Means(bears'[q], session'[q])
             /\ call'[q].at = "handling" /\ bears'[q] = NoName =>
                   Means(call'[q].name, session'[q])
      BY <1>1, <1>2, <1>3, <1>4, Meaning
    <3>5. QED
      BY <1>8, <3>2, <3>3, <3>4, MeansKept DEF Separate
  <2>5. OwnPeer'
    <3>1. ASSUME NEW u \in Rest, Stopping(u)'
          PROVE  session'[call'[u].peer] = call'[u].serial
      <4>1. call'[u] = call[u] /\ Stopping(u) /\ call[u].at \in StopStep /\ u \in Actor
        BY <1>4, <1>6, <3>1, ActorFacts DEF Stopping, StopStep
      <4>2. call[u].peer \in Peer /\ call[u].peer # p
        BY <1>1, <4>1, TargetFacts DEF Calls, Stops
      <4>3. QED
        BY <1>4, <1>8, <4>1, <4>2 DEF Separate, OwnPeer
    <3>2. QED
      BY <3>1 DEF OwnPeer
  <2>6. Data'
    BY <1>1, <1>8, SameServices
  <2>7. QED
    BY <2>3, <2>4, <2>5, <2>6 DEF Separate
<1>9. QED
  BY <1>7, <1>8

LEMMA StartSafe ==
    ASSUME Calls, Registrations, Alone, NEW t \in Rest, Start(t)
    PROVE  Alone' /\ (Separate => Separate')
<1>0. PICK p, n : p = call[t].peer /\ n = call[t].name
  OBVIOUS
<1>1. /\ t \in Actor /\ t \notin Peer /\ p \in Peer /\ p \in Actor /\ p \notin Rest
      /\ call[t].at = "begin" /\ call[p].at = "listed" /\ call[p] \in Call
      /\ session[p] = call[t].serial /\ bears[p] = NoName
      /\ call \in [Actor -> Call] /\ bears \in [Peer -> MaybeName]
      /\ started \in [Peer -> BOOLEAN]
      /\ n \in Names /\ n # NoName
  <2>1. call[t].at = "begin"
    BY DEF Start
  <2>2. p \in Dialers /\ call[p].at = "listed" /\ session[p] = call[t].serial
    BY <1>0, <2>1 DEF Calls, Beginning
  <2>3. bears[p] = NoName
    BY <2>2, ActorFacts DEF Calls, PeerCalls
  <2>4. n \in Names
    BY <1>0, <2>1, NamedFacts DEF Alone
  <2>5. QED
    BY <2>1, <2>2, <2>3, <2>4, ActorFacts, HereFacts DEF Calls, TypeOK
<1>2. PICK x \in {"connecting", "failed"} :
         call' = [call EXCEPT ![t] = Idle, ![p].at = x]
  BY <1>0 DEF Start
<1>3. /\ UNCHANGED <<services, session, tickets>>
      /\ started' = [started EXCEPT ![p] = TRUE] /\ bears' = [bears EXCEPT ![p] = n]
  BY <1>0 DEF Start
<1>4. Present(n, call[t].serial) \/ ~Separate
  BY <1>0, <1>1 DEF Separate, Kept
<1>5. Means(n, call[t].serial)
  BY <1>0, <1>1, Meaning
<1>6. /\ call'[t] = Idle /\ Idle.at = "idle" /\ call'[p].at = x
      /\ \A u \in Rest : u # t => call'[u] = call[u]
      /\ \A b \in Actor : b # t /\ b # p => call'[b] = call[b]
  BY <1>1, <1>2, ActorFacts, IdleFacts DEF Call
<1>7. /\ bears'[p] = n /\ started'[p]
      /\ \A q \in Peer : q # p => /\ call'[q] = call[q] /\ bears'[q] = bears[q]
                                  /\ started'[q] = started[q]
  BY <1>1, <1>3, <1>6, ActorFacts
<1>8. SameSlots /\ SameTickets
  BY <1>3 DEF SameSlots, SameTickets
<1>9. /\ ~Inside(t)' /\ ~Inside(p)'
      /\ ~Stopping(t) /\ ~Stopping(p) /\ ~Stopping(t)'
  <2>1. x \notin {"gen", "assign", "answer", "write", "append", "erase"}
    BY <1>2
  <2>2. QED
    BY <1>1, <1>6, <2>1 DEF Inside, Stopping
<1>10. Alone'
  <2>1. Unique' /\ Nameless' /\ Answered'
    <3>1. \A u \in Rest : call[u].at \in {"gen", "assign"} =>
                             call'[u].at \in {"gen", "assign"}
      BY <1>1, <1>6
    <3>2. QED
      BY <1>8, <3>1, NamesKept DEF Alone
  <2>2. OneInside' /\ Found'
    <3>1. ASSUME NEW b \in Actor, Inside(b)' PROVE call'[b] = call[b]
      <4>1. b # t /\ b # p
        BY <1>9, <3>1
      <4>2. QED
        BY <1>6, <4>1
    <3>2. \A q \in Peer : bears[q] # NoName => bears'[q] = bears[q]
      BY <1>1, <1>7
    <3>3. QED
      BY <1>3, <3>1, <3>2, InsideKept DEF Alone
  <2>3. Unnamed'
    BY <1>1, <1>3, <1>7 DEF Alone, Unnamed, UnnamedPeer
  <2>4. NameSakes'
    <3>1. ASSUME NEW u \in Rest, call'[u].at \in StopStep
          PROVE  bears'[call'[u].peer] = call'[u].name
      <4>1. u # t /\ call'[u] = call[u]
        BY <1>6, <3>1 DEF StopStep
      <4>2. call[u].peer \in Peer /\ bears[call[u].peer] = call[u].name
        BY <3>1, <4>1, TargetFacts DEF Alone, NameSakes
      <4>3. call[u].at \notin {"idle", "gen"}
        BY <3>1, <4>1 DEF StopStep
      <4>4. call[u].name # NoName
        BY <4>3, NamedFacts, ActorFacts DEF Alone
      <4>5. QED
        BY <1>1, <1>7, <4>1, <4>2, <4>4
    <3>2. QED
      BY <3>1 DEF NameSakes
  <2>5. Forgotten'
    <3>1. \A b \in Actor, q \in Peer : Ending(b, q) => Ending(b, q)'
      BY <1>6, <1>9 DEF Ending, Stopping
    <3>2. QED
      BY <1>1, <1>3, <1>7, <3>1 DEF Alone, Forgotten
  <2>6. QED
    BY <2>1, <2>2, <2>3, <2>4, <2>5 DEF Alone
<1>11. ASSUME Separate
       PROVE  Separate'
  <2>1. \A y \in Names : \A r : Present(y, r) => Stays(y, r)
    BY <1>8, SlotsStay
  <2>2. Kept'
    <3>1. ASSUME NEW q \in Peer
          PROVE  /\ Running(q)' => \/ /\ Running(q)
                                      /\ bears'[q] = bears[q] /\ session'[q] = session[q]
                                   \/ Stays(bears'[q], session'[q])
                 /\ call'[q].at = "handling" /\ bears'[q] = NoName =>
                       /\ call[q].at = "handling" /\ bears[q] = NoName
                       /\ call'[q].name = call[q].name /\ session'[q] = session[q]
      <4>1. CASE q = p
        BY <1>1, <1>3, <1>4, <1>7, <1>11, <2>1, <4>1
      <4>2. CASE q # p
        BY <1>3, <1>7, <4>2 DEF Running
      <4>3. QED
        BY <4>1, <4>2
    <3>2. \A u \in Rest : call'[u].at = "begin" => call[u].at = "begin" /\ call'[u] = call[u]
      BY <1>6
    <3>3. \A j \in tickets' : ~Served(j.serial)' =>
             /\ ~Served(j.serial)
             /\ \E i \in tickets : i.name = j.name /\ i.serial = j.serial
      BY <1>3 DEF Served
    <3>4. QED
      BY <1>11, <2>1, <3>1, <3>2, <3>3, KeptStep DEF Alone, Separate
  <2>3. OneMeaning'
    <3>1. /\ \A j \in tickets' : j.held => Means(j.name, j.serial)
          /\ \A i \in DOMAIN services' : Means(services'[i].name, services'[i].serial)
      BY <1>3, Meaning
    <3>2. \A u \in Rest : call'[u].at \notin {"idle", "gen"} =>
             Means(call'[u].name, call'[u].serial)
      BY <1>6, Meaning
    <3>3. ASSUME NEW q \in Peer
          PROVE  /\ call'[q].at \notin {"gone", "failed"} /\ bears'[q] # NoName =>
                       Means(bears'[q], session'[q])
                 /\ call'[q].at = "handling" /\ bears'[q] = NoName =>
                       Means(call'[q].name, session'[q])
      <4>1. CASE q = p
        BY <1>1, <1>3, <1>5, <1>6, <1>7, <4>1
      <4>2. CASE q # p
        BY <1>3, <1>7, <4>2, Meaning
      <4>3. QED
        BY <4>1, <4>2
    <3>4. QED
      BY <1>11, <3>1, <3>2, <3>3, MeansKept DEF Separate
  <2>4. OwnPeer'
    <3>1. \A u \in Rest : Stopping(u)' => Stopping(u) /\ call'[u] = call[u]
      BY <1>6, <1>9 DEF Stopping
    <3>2. QED
      BY <1>3, <1>11, <3>1 DEF OwnPeer, Separate
  <2>5. Data'
    BY <1>3, <1>11, SameServices
  <2>6. QED
    BY <2>2, <2>3, <2>4, <2>5 DEF Separate
<1>12. QED
  BY <1>10, <1>11

-----------------------------------------------------------------------------
(* Stopping.                                                               *)

LEMMA StopFacts ==
    ASSUME Calls, Registrations, Alone, NEW a \in Actor, call[a].at \in StopStep
    PROVE  /\ call[a] \in Call /\ call \in [Actor -> Call]
           /\ call[a].peer \in Peer /\ PeerName(a) = bears[call[a].peer]
           /\ call[a].at \in {"stop", "unlist"} => ~call[a].early
           /\ a \in Peer => call[a].peer = a /\ a \notin Rest
           /\ a \in Rest => /\ ~call[a].early /\ a \notin Peer
                            /\ bears[call[a].peer] = call[a].name
                            /\ call[a].name \in Names /\ call[a].name # NoName
                            /\ call[a].serial \in Serial
                            /\ Means(call[a].name, call[a].serial)
<1>1. /\ call[a] \in Call /\ call \in [Actor -> Call] /\ call[a].peer \in Peer
      /\ call[a].peer # NoPeer
  BY HereFacts, TargetFacts, ActorFacts DEF Calls
<1>2. PeerName(a) = bears[call[a].peer]
  BY <1>1 DEF PeerName
<1>3. a \in Peer => call[a].peer = a /\ a \notin Rest
  BY PeerFacts, ActorFacts
<1>4. ASSUME a \in Rest
      PROVE  /\ ~call[a].early /\ a \notin Peer
             /\ bears[call[a].peer] = call[a].name
             /\ call[a].name \in Names /\ call[a].name # NoName
             /\ call[a].serial \in Serial
             /\ Means(call[a].name, call[a].serial)
  <2>1. call[a].at \notin {"idle", "gen"}
    BY DEF StopStep
  <2>2. call[a].name \in Names /\ call[a].serial \in Serial
    BY <1>4, <2>1, NamedFacts DEF Alone
  <2>3. QED
    BY <1>4, <2>1, <2>2, ActorFacts, Meaning DEF Calls, RestCalls, Alone, NameSakes
<1>5. call[a].at \in {"stop", "unlist"} => ~call[a].early
  <2>1. CASE a \in Peer
    BY <2>1 DEF Calls, PeerCalls
  <2>2. CASE a \in Rest
    BY <1>4, <2>2
  <2>3. QED
    BY <2>1, <2>2, ActorFacts
<1>6. QED
  BY <1>1, <1>2, <1>3, <1>4, <1>5

LEMMA ReturnedFacts ==
    ASSUME Calls, Registrations, Alone, NEW a \in Actor, call[a].at \in {"remove", "erase"}
    PROVE  LET c == Returned(a)
           IN  /\ c \in Call
               /\ a \in Rest => /\ c.at = "exit"
                                /\ c.name = call[a].name /\ c.serial = call[a].serial
               /\ a \in Peer => c.at \in {"stop", "gone"} /\ c.peer = a
<1>1. call[a].at \in StopStep
  BY DEF StopStep
<1>2. CASE call[a].early
  <2>1. a \in Peer /\ a \notin Rest /\ "stop" \in Step
    BY <1>1, <1>2, StopFacts, ActorFacts DEF Step, StopStep
  <2>2. Returned(a) = [Idle EXCEPT !.at = "stop", !.peer = a]
    BY <1>2 DEF Returned
  <2>3. QED
    BY <2>1, <2>2, IdleFacts DEF Call
<1>3. CASE ~call[a].early
  <2>1. Returned(a) = [Stopped(a) EXCEPT !.index = 0]
    BY <1>3 DEF Returned
  <2>2. QED
    BY <2>1, StoppedFacts DEF Call
<1>4. QED
  BY <1>2, <1>3

(* The peer that a REST thread finds started is that of its registration.   *)
LEMMA StartedOwn ==
    ASSUME Calls, Registrations, Alone, Separate, NEW t \in Rest, call[t].at \in StopStep,
           started[call[t].peer]
    PROVE  session[call[t].peer] = call[t].serial
<1> DEFINE p == call[t].peer
           n == call[t].name
<1>1. /\ p \in Peer /\ bears[p] = n /\ n \in Names /\ n # NoName
      /\ call[t].serial \in Serial /\ Means(n, call[t].serial)
  BY ActorFacts, StopFacts
<1>2. session[p] \in Serial
  BY <1>1, NamedFacts DEF Alone
<1>3. Means(n, session[p])
  <2>1. call[p].at # "gone"
    BY <1>1 DEF Calls, PeerCalls
  <2>2. CASE call[p].at = "failed"
    <3>1. Present(bears[p], session[p])
      BY <1>1, <2>2 DEF Separate, Kept, Running
    <3>2. QED
      BY <1>1, <3>1, Meaning
  <2>3. CASE call[p].at # "failed"
    BY <1>1, <2>1, <2>3, Meaning
  <2>4. QED
    BY <2>2, <2>3
<1>4. QED
  BY <1>1, <1>2, <1>3 DEF Separate, OneMeaning

LEMMA StopSafe ==
    ASSUME Calls, Registrations, Alone, NEW a \in Actor, Stop(a)
    PROVE  Alone' /\ (Separate => Separate')
<1>0. PICK p : p = call[a].peer
  OBVIOUS
<1>1. /\ call[a].at = "stop" /\ call[a].at \in StopStep
      /\ started' = [started EXCEPT ![p] = FALSE]
      /\ SetCall(a, IF started[p] THEN [call[a] EXCEPT !.at = "unlist"] ELSE Stopped(a))
      /\ UNCHANGED <<services, bears, session, tickets>>
      /\ started \in [Peer -> BOOLEAN]
  BY <1>0 DEF Stop, StopStep, Calls, TypeOK
<1>2. /\ call[a] \in Call /\ call \in [Actor -> Call] /\ p \in Peer /\ ~call[a].early
      /\ \A q \in Peer : ~Ending(a, q)
  BY <1>0, <1>1, StopFacts DEF Ending, Stopping
<1>3. /\ \A q \in Peer : q # p => started'[q] = started[q]
      /\ ~started'[p] /\ SameTickets
  BY <1>1, <1>2 DEF SameTickets
<1>4. CASE started[p]
  <2> DEFINE c == [call[a] EXCEPT !.at = "unlist"]
  <2>1. /\ c \in Call /\ c.at = "unlist" /\ c.peer = p /\ ~c.early
        /\ c.name = call[a].name /\ c.serial = call[a].serial
    <3>1. "unlist" \in Step
      BY DEF Step, StopStep
    <3>2. QED
      BY <1>0, <1>2, <3>1 DEF Call
  <2>2. SetCall(a, c)
    BY <1>1, <1>4
  <2> HIDE DEF c
  <2>3. call'[a] = c
    BY <1>2, <2>2, CallFacts
  <2>4. Ending(a, p)' /\ ~Inside(a)' /\ c.at \in StopStep
    BY <2>1, <2>3 DEF Ending, Stopping, Inside, StopStep
  <2>5. CASE a \in Peer
    <3>1. p = a /\ (bears[a] = NoName => session[a] = 0)
      BY <1>0, <1>1, <2>5, StopFacts DEF Alone, Unnamed, UnnamedPeer
    <3>2. bears[a] = NoName => UnnamedPeer(a)'
      BY <1>1, <2>1, <2>3, <2>4, <3>1 DEF UnnamedPeer
    <3>3. \A q \in Peer : started'[q] # started[q] =>
             /\ q = a
             /\ IF started'[a] THEN bears[a] = NoName ELSE Ending(a, a)'
      BY <1>3, <2>4, <3>1
    <3>4. SameSlots /\ (Separate => Data')
      BY <1>1, SameServices
    <3>5. c.peer = a /\ ~Ending(a, a) /\ UNCHANGED <<session, bears, tickets>>
      BY <1>1, <1>2, <2>1, <3>1
    <3>6. /\ c.at \notin {"connecting", "reading", "handling", "append", "failed"}
          /\ call[a].at \notin {"gone", "failed"}
      BY <1>1, <2>1
    <3>7. QED
      BY <1>1, <2>1, <2>2, <2>4, <2>5, <3>2, <3>3, <3>4, <3>5, <3>6, PeerSafe
  <2>6. CASE a \in Rest
    <3>1. bears[p] = c.name /\ bears[p] # NoName /\ Means(c.name, c.serial)
      BY <1>0, <1>1, <2>1, <2>6, StopFacts
    <3>2. Separate => session[p] = c.serial
      BY <1>0, <1>1, <1>4, <2>1, <2>6, StartedOwn
    <3>3. \A q \in Peer : started'[q] # started[q] =>
              ~started'[q] /\ bears[q] # NoName /\ Ending(a, q)'
      BY <1>3, <2>4, <3>1
    <3>4. QED
      BY <1>1, <1>2, <1>3, <2>1, <2>2, <2>4, <2>6, <3>1, <3>2, <3>3, SameServices,
         RestSafe
  <2>7. QED
    BY <2>5, <2>6, ActorFacts
<1>5. CASE ~started[p]
  <2> DEFINE c == Stopped(a)
  <2>1. /\ c \in Call
        /\ a \in Rest => /\ c.at = "exit"
                         /\ c.name = call[a].name /\ c.serial = call[a].serial
        /\ a \in Peer => c.at = "gone" /\ c.peer = a
    BY StoppedFacts
  <2>2. SetCall(a, c)
    BY <1>1, <1>5
  <2> HIDE DEF c
  <2>3. call'[a] = c
    BY <1>2, <2>2, CallFacts
  <2>4. ~Inside(a)' /\ ~Stopping(a)' /\ c.at \notin StopStep
    BY <2>1, <2>3, ActorFacts DEF Stopping, Inside, StopStep
  <2>5. \A q \in Peer : started'[q] = started[q]
    BY <1>1, <1>3, <1>5
  <2>6. CASE a \in Peer
    <3>1. bears[a] = NoName => session[a] = 0
      BY <1>1, <2>6 DEF Alone, Unnamed, UnnamedPeer
    <3>2. bears[a] = NoName => UnnamedPeer(a)'
      BY <1>1, <2>1, <2>3, <2>6, <3>1 DEF UnnamedPeer
    <3>3. QED
      BY <1>1, <1>2, <2>1, <2>2, <2>4, <2>5, <2>6, <3>2, SameServices, PeerSafe
  <2>7. CASE a \in Rest
    <3>1. Means(c.name, c.serial)
      BY <1>1, <2>1, <2>7, StopFacts
    <3>2. QED
      BY <1>1, <1>2, <1>3, <2>1, <2>2, <2>4, <2>5, <2>7, <3>1, SameServices, RestSafe
  <2>8. QED
    BY <2>6, <2>7, ActorFacts
<1>6. QED
  BY <1>4, <1>5

(* A call of stop, or of remove_service, that goes on. *)
LEMMA StopGoesOnSafe ==
    ASSUME Calls, Registrations, Alone, NEW a \in Actor,
           call[a].at \in {"unlist", "remove"},
           NEW c \in Call, SetCall(a, c), c.at \in {"remove", "erase"},
           c.peer = call[a].peer, c.early = call[a].early,
           c.name = call[a].name, c.serial = call[a].serial,
           UNCHANGED <<services, session, bears, tickets, started>>,
           OthersOutside(a) \/ ~Inside(a)',
           Inside(a)' => FoundLast(a)' /\ FoundNamed(a)'
    PROVE  Alone' /\ (Separate => Separate')
<1>1. /\ call[a].at \in StopStep /\ c.at \in StopStep /\ Stopping(a)
      /\ c.at \notin {"gone", "failed", "connecting", "reading", "handling", "append",
                      "begin"}
      /\ call[a].at \notin {"gone", "failed", "gen", "assign"}
  BY DEF StopStep, Stopping
<1>2. call'[a] = c
  BY <1>1, StopFacts, CallFacts
<1>3. \A q \in Peer : Ending(a, q) => Ending(a, q)'
  BY <1>2 DEF Ending, Stopping
<1>4. SameSlots /\ (Separate => Data') /\ SameTickets
  BY SameServices DEF SameTickets
<1>5. CASE a \in Peer
  <2>1. bears[a] = NoName => session[a] = 0
    BY <1>1, <1>5 DEF Alone, Unnamed, UnnamedPeer
  <2>2. bears[a] = NoName => UnnamedPeer(a)'
    BY <1>1, <1>2, <2>1 DEF UnnamedPeer
  <2>3. c.peer = a
    BY <1>1, <1>5, StopFacts
  <2>4. QED
    BY <1>1, <1>3, <1>4, <1>5, <2>2, <2>3, PeerSafe
<1>6. CASE a \in Rest
  <2>1. /\ c.peer \in Peer /\ bears[c.peer] = c.name
        /\ Means(c.name, c.serial)
    BY <1>1, <1>6, StopFacts
  <2>2. Separate => session[c.peer] = c.serial
    BY <1>1, <1>6 DEF Separate, OwnPeer
  <2>3. QED
    BY <1>1, <1>3, <1>4, <1>6, <2>1, <2>2, RestSafe
<1>7. QED
  BY <1>5, <1>6, ActorFacts

LEMMA UnlistSafe ==
    ASSUME Calls, Registrations, Alone, NEW a \in Actor, Unlist(a)
    PROVE  Alone' /\ (Separate => Separate')
<1> DEFINE c == [call[a] EXCEPT !.at = "remove"]
<1>1. /\ call[a].at = "unlist" /\ call[a].at \in StopStep
      /\ UNCHANGED <<services, session, bears, tickets, started>>
      /\ SetCall(a, c) /\ "remove" \in Step
  BY DEF Unlist, StopStep, Step
<1>2. call[a] \in Call /\ call \in [Actor -> Call]
  BY <1>1, StopFacts
<1>3. /\ c \in Call /\ c.at = "remove"
      /\ c.peer = call[a].peer /\ c.early = call[a].early
      /\ c.name = call[a].name /\ c.serial = call[a].serial
  BY <1>1, <1>2 DEF Call
<1> HIDE DEF c
<1>4. ~Inside(a)'
  BY <1>1, <1>2, <1>3, CallFacts DEF Inside
<1>5. QED
  BY <1>1, <1>3, <1>4, StopGoesOnSafe

(* Back from remove_service, which has not changed the services.            *)
LEMMA ReturnedSafe ==
    ASSUME Calls, Registrations, Alone, NEW a \in Actor, call[a].at = "remove",
           SetCall(a, Returned(a)),
           UNCHANGED <<services, session, bears, tickets, started>>,
           ~Registered(PeerName(a))
    PROVE  Alone' /\ (Separate => Separate')
<1> DEFINE c == Returned(a)
<1>1. /\ call[a].at \in StopStep /\ c \in Call
      /\ a \in Rest => /\ c.at = "exit"
                       /\ c.name = call[a].name /\ c.serial = call[a].serial
      /\ a \in Peer => c.at \in {"stop", "gone"} /\ c.peer = a
      /\ SetCall(a, c)
  BY ReturnedFacts DEF StopStep
<1> HIDE DEF c
<1>2. call'[a] = c /\ PeerName(a) = bears[call[a].peer] /\ call[a].peer \in Peer
  BY <1>1, StopFacts, CallFacts
<1>3. c.at \in {"exit", "stop", "gone"}
  BY <1>1, ActorFacts
<1>4. ~Inside(a)' /\ ~Stopping(a)' /\ \A q \in Peer : ~Ending(a, q)'
  BY <1>2, <1>3 DEF Inside, Stopping, Ending
<1>5. SameSlots /\ (Separate => Data') /\ SameTickets
  BY SameServices DEF SameTickets
<1>6. ASSUME NEW q \in Peer, bears[q] # NoName, Ending(a, q), NEW i \in DOMAIN services
      PROVE  services[i].serial # session[q]
  <2>1. services[i].name # bears[q]
    BY <1>2, <1>6 DEF Ending, Registered, InUse
  <2>2. PICK k \in tickets : k.name = bears[q] /\ k.serial = session[q]
    BY <1>6 DEF Registrations, Sessions, Knows
  <2>3. QED
    BY <2>1, <2>2 DEF Alone, Answered
<1>7. CASE a \in Peer
  <2>1. bears[a] = NoName => session[a] = 0
    BY <1>1, <1>7 DEF Alone, Unnamed, UnnamedPeer
  <2>2. bears[a] = NoName => UnnamedPeer(a)'
    BY <1>1, <1>2, <1>7, <2>1 DEF UnnamedPeer, StopStep
  <2>3. QED
    BY <1>1, <1>3, <1>4, <1>5, <1>6, <1>7, <2>2, PeerSafe
<1>8. CASE a \in Rest
  <2>1. Means(c.name, c.serial) /\ c.at \notin StopStep /\ c.at # "begin"
    BY <1>1, <1>8, StopFacts DEF StopStep
  <2>2. QED
    BY <1>1, <1>4, <1>5, <1>6, <1>8, <2>1, RestSafe
<1>9. QED
  BY <1>7, <1>8, ActorFacts

LEMMA RemoveServiceSafe ==
    ASSUME Calls, Registrations, Alone, NEW a \in Actor, RemoveService(a), ~overlap'
    PROVE  Alone' /\ (Separate => Separate')
<1>1. /\ call[a].at = "remove" /\ call[a].at \in StopStep /\ OthersOutside(a)
      /\ UNCHANGED <<services, session, bears, tickets, started>>
      /\ call[a] \in Call /\ call \in [Actor -> Call] /\ call[a].peer \in Peer
  BY TouchedAlone, StopFacts DEF RemoveService, StopStep, peerVars
<1>2. CASE SetCall(a, Returned(a)) /\ ~Registered(PeerName(a))
  BY <1>1, <1>2, ReturnedSafe
<1>3. ASSUME NEW i \in DOMAIN services, Find(PeerName(a), i),
             SetCall(a, [call[a] EXCEPT !.at = "erase", !.index = i])
      PROVE  Alone' /\ (Separate => Separate')
  <2> DEFINE c == [call[a] EXCEPT !.at = "erase", !.index = i]
  <2>1. "erase" \in Step /\ i \in Nat
    BY <1>1, HereFacts, SlotFacts DEF Calls, Step, StopStep
  <2>2. /\ c \in Call /\ c.at = "erase" /\ c.index = i
        /\ c.peer = call[a].peer /\ c.early = call[a].early
        /\ c.name = call[a].name /\ c.serial = call[a].serial
    BY <1>1, <2>1 DEF Call
  <2>3. SetCall(a, c)
    BY <1>3
  <2> HIDE DEF c
  <2>4. call'[a] = c
    BY <1>1, <2>3, CallFacts
  <2>5. services[i].name = PeerName(a) /\ PeerName(a)' = PeerName(a)
    BY <1>1, <1>3, <2>2, <2>4 DEF Find, PeerName
  <2>6. PeerName(a) # NoName
    <3>1. SUFFICES ASSUME PeerName(a) = NoName PROVE FALSE
      OBVIOUS
    <3>2. Registered(NoName)
      BY <2>5, <3>1 DEF Registered, InUse
    <3>3. PICK t \in Rest : call[t].at \in {"gen", "assign"}
      BY <3>2 DEF Alone, Nameless, Naming
    <3>4. t \in Actor /\ Inside(t) /\ t # a
      BY <1>1, <3>3, ActorFacts DEF Inside
    <3>5. QED
      BY <1>1, <3>4 DEF OthersOutside
  <2>7. FoundLast(a)' /\ FoundNamed(a)'
    BY <1>1, <2>2, <2>4, <2>5, <2>6 DEF FoundLast, FoundNamed, Making
  <2>8. QED
    BY <1>1, <2>2, <2>3, <2>7, StopGoesOnSafe
<1>4. QED
  BY <1>2, <1>3 DEF RemoveService

(* The slots but one are there as before. *)
LEMMA ErasedSlots ==
    ASSUME Calls, NEW i \in DOMAIN services, services' = RemoveAt(services, i)
    PROVE  /\ \A j \in DOMAIN services' :
                 \E k \in DOMAIN services : k # i /\ services'[j] = services[k]
           /\ \A k \in DOMAIN services : k # i =>
                 \E j \in DOMAIN services' : services'[j] = services[k]
           /\ Unique => Unique'
<1>1. /\ services \in Seq(Slot) /\ Len(services) \in Nat
      /\ DOMAIN services = 1 .. Len(services)
      /\ DOMAIN services' = 1 .. Len(services) - 1
      /\ \A j \in DOMAIN services' :
            services'[j] = IF j < i THEN services[j] ELSE services[j + 1]
  <2>1. services \in Seq(Slot)
    BY HereFacts DEF Calls
  <2>2. QED
    BY <2>1, SlotFacts, Erasing
<1>2. ASSUME NEW j \in DOMAIN services'
      PROVE  \E k \in DOMAIN services : k # i /\ services'[j] = services[k]
  <2>1. CASE j < i
    <3>1. j \in DOMAIN services /\ j # i /\ services'[j] = services[j]
      BY <1>1, <2>1
    <3>2. QED
      BY <3>1
  <2>2. CASE ~(j < i)
    <3>1. j + 1 \in DOMAIN services /\ j + 1 # i /\ services'[j] = services[j + 1]
      BY <1>1, <2>2
    <3>2. QED
      BY <3>1
  <2>3. QED
    BY <2>1, <2>2
<1>3. ASSUME NEW k \in DOMAIN services, k # i
      PROVE  \E j \in DOMAIN services' : services'[j] = services[k]
  <2>1. CASE k < i
    <3>1. k \in DOMAIN services' /\ services'[k] = services[k]
      BY <1>1, <2>1
    <3>2. QED
      BY <3>1
  <2>2. CASE ~(k < i)
    <3>1. k - 1 \in DOMAIN services' /\ ~(k - 1 < i) /\ (k - 1) + 1 = k
      BY <1>1, <1>3, <2>2
    <3>2. services'[k - 1] = services[k]
      BY <1>1, <3>1
    <3>3. QED
      BY <3>1, <3>2
  <2>3. QED
    BY <2>1, <2>2
<1>4. ASSUME Unique, NEW j \in DOMAIN services', NEW k \in DOMAIN services',
             services'[j].name = services'[k].name
      PROVE  j = k
  <2> DEFINE at(m) == IF m < i THEN m ELSE m + 1
  <2>1. \A m \in DOMAIN services' :
           at(m) \in DOMAIN services /\ services'[m] = services[at(m)]
    BY <1>1
  <2>2. at(j) = at(k)
    BY <1>4, <2>1 DEF Unique
  <2>3. QED
    BY <1>1, <2>2
<1>5. QED
  BY <1>2, <1>3, <1>4 DEF Unique

(* Who is going to erase a service erases that of the peer which is stopped. *)
LEMMA EraseFacts ==
    ASSUME Calls, Registrations, Alone, NEW a \in Actor, Erase(a), ~overlap',
           NEW i, i = call[a].index, NEW p, p = call[a].peer
    PROVE  /\ i \in DOMAIN services /\ services' = RemoveAt(services, i)
           /\ p \in Peer /\ bears[p] = services[i].name
           /\ bears[p] \in Names /\ bears[p] # NoName /\ session[p] \in Serial
           /\ p # a => ~started[p]
           /\ OthersOutside(a) /\ SetCall(a, Returned(a))
           /\ UNCHANGED <<session, bears, tickets, started>>
           /\ \A k \in DOMAIN services : services[k].serial = session[p] => k = i
           /\ Separate => services[i].serial = session[p]
<1>1. /\ call[a].at = "erase" /\ call[a].at \in StopStep /\ Stopping(a)
      /\ OthersOutside(a) /\ SetCall(a, Returned(a))
      /\ UNCHANGED <<session, bears, tickets, started>>
  BY TouchedAlone DEF Erase, StopStep, peerVars, Stopping
<1>2. p \in Peer /\ PeerName(a) = bears[p]
  BY <1>1, StopFacts
<1>3. /\ i \in DOMAIN services /\ services' = RemoveAt(services, i)
      /\ bears[p] = services[i].name /\ bears[p] # NoName
  BY <1>1, <1>2 DEF Erase, Alone, Found, FoundNamed
<1>4. bears[p] \in Names /\ session[p] \in Serial
  BY <1>2, <1>3, NamedFacts DEF Alone
<1>5. p # a => ~started[p]
  <2>1. p # a => a \in Rest
    BY <1>1, StopFacts, ActorFacts
  <2>2. p # a => ~call[a].early
    BY <1>1, <2>1, StopFacts
  <2>3. QED
    BY <1>1, <2>2 DEF Calls, Stops
<1>6. ASSUME NEW k \in DOMAIN services, services[k].serial = session[p]
      PROVE  k = i
  <2>1. PICK m \in tickets : m.name = bears[p] /\ m.serial = session[p]
    BY <1>2, <1>3 DEF Registrations, Sessions, Knows
  <2>2. services[k].name = services[i].name
    BY <1>3, <1>6, <2>1 DEF Alone, Answered
  <2>3. QED
    BY <1>3, <2>2 DEF Alone, Unique
<1>7. ASSUME Separate
      PROVE  services[i].serial = session[p]
  <2>1. CASE a \in Peer
    <3>1. p = a
      BY <1>1, <2>1, StopFacts
    <3>2. Means(bears[p], session[p])
      BY <1>1, <2>1, <3>1, Meaning
    <3>3. QED
      BY <1>3, <1>4, <1>7, <3>2, OwnSlot
  <2>2. CASE a \in Rest
    <3>1. session[p] = call[a].serial
      BY <1>1, <1>7, <2>2 DEF Separate, OwnPeer
    <3>2. Means(bears[p], session[p])
      BY <1>1, <2>2, <3>1, StopFacts
    <3>3. QED
      BY <1>3, <1>4, <1>7, <3>2, OwnSlot
  <2>3. QED
    BY <2>1, <2>2, ActorFacts
<1>8. QED
  BY <1>1, <1>2, <1>3, <1>4, <1>5, <1>6, <1>7

LEMMA EraseSafe ==
    ASSUME Calls, Registrations, Alone, NEW a \in Actor, Erase(a), ~overlap'
    PROVE  Alone' /\ (Separate => Separate')
<1>1. PICK i, p : i = call[a].index /\ p = call[a].peer
  OBVIOUS
<1>2. /\ i \in DOMAIN services /\ services' = RemoveAt(services, i)
      /\ p \in Peer /\ bears[p] = services[i].name
      /\ bears[p] \in Names /\ bears[p] # NoName /\ session[p] \in Serial
      /\ p # a => ~started[p]
      /\ OthersOutside(a) /\ SetCall(a, Returned(a))
      /\ UNCHANGED <<session, bears, tickets, started>>
      /\ \A k \in DOMAIN services : services[k].serial = session[p] => k = i
      /\ Separate => services[i].serial = session[p]
  BY <1>1, EraseFacts
<1>3. /\ \A j \in DOMAIN services' :
            \E k \in DOMAIN services : k # i /\ services'[j] = services[k]
      /\ \A k \in DOMAIN services : k # i =>
            \E j \in DOMAIN services' : services'[j] = services[k]
      /\ Unique'
  BY <1>2, ErasedSlots DEF Alone
<1> DEFINE c == Returned(a)
<1>4. /\ call[a].at = "erase" /\ call[a].at \in StopStep /\ SetCall(a, c)
      /\ c \in Call
      /\ a \in Rest => /\ c.at = "exit"
                       /\ c.name = call[a].name /\ c.serial = call[a].serial
      /\ a \in Peer => c.at \in {"stop", "gone"} /\ c.peer = a
  BY <1>2, ReturnedFacts DEF Erase, StopStep
<1> HIDE DEF c
<1>5. /\ call'[a] = c /\ call \in [Actor -> Call]
      /\ \A b \in Actor : b # a => call'[b] = call[b]
  BY <1>4, StopFacts, CallFacts
<1>6. c.at \in {"exit", "stop", "gone"} /\ ~Inside(a)' /\ ~Stopping(a)'
  <2>1. c.at \in {"exit", "stop", "gone"}
    BY <1>4, ActorFacts
  <2>2. QED
    BY <1>5, <2>1 DEF Inside, Stopping
<1>7. Alone'
  <2>1. Nameless'
    <3>1. SUFFICES ASSUME Registered(NoName)'
                   PROVE  \E t \in Rest : call'[t].at \in {"gen", "assign"}
      BY DEF Nameless, Naming
    <3>2. Registered(NoName)
      BY <1>3, <3>1 DEF Registered, InUse
    <3>3. PICK t \in Rest : call[t].at \in {"gen", "assign"}
      BY <3>2 DEF Alone, Nameless, Naming
    <3>4. call'[t] = call[t]
      BY <1>4, <1>5, <3>3, ActorFacts
    <3>5. QED
      BY <3>3, <3>4
  <2>2. Answered'
    BY <1>2, <1>3 DEF Alone, Answered
  <2>3. \A q \in Peer :
           /\ q # a => session'[q] = session[q] /\ bears'[q] = bears[q]
           /\ bears[q] # NoName => session'[q] = session[q] /\ bears'[q] = bears[q]
           /\ bears'[q] # bears[q] => started'[q]
           /\ started'[q] # started[q] => q = a \/ bears[q] # NoName
    BY <1>2
  <2>4. a \in Peer /\ bears'[a] = NoName => UnnamedPeer(a)'
    BY <1>1, <1>2, <1>4, StopFacts
  <2>5. a \in Rest /\ c.at \in StopStep => c.peer \in Peer /\ bears[c.peer] = c.name
    BY <1>4 DEF StopStep
  <2>6. ASSUME NEW q \in Peer
        PROVE  /\ started[q] /\ ~started'[q] => Ending(a, q)'
               /\ Ending(a, q) /\ ~Ending(a, q)' =>
                     \A j \in DOMAIN services' : services'[j].serial # session[q]
    <3>1. Ending(a, q) => q = p
      BY <1>1 DEF Ending
    <3>2. \A j \in DOMAIN services' : services'[j].serial # session[p]
      BY <1>2, <1>3
    <3>3. QED
      BY <1>2, <3>1, <3>2
  <2>7. \A j \in DOMAIN services' :
           \E k \in DOMAIN services : services[k].serial = services'[j].serial
    BY <1>3
  <2>8. QED
    BY <1>2, <1>3, <1>4, <1>6, <2>1, <2>2, <2>3, <2>4, <2>5, <2>6, <2>7, AloneStep
<1>8. ASSUME Separate
      PROVE  Separate'
  <2>1. ASSUME NEW n, NEW s, Present(n, s), s # session[p]
        PROVE  Stays(n, s)
    <3>1. PICK k \in DOMAIN services : services[k].name = n /\ services[k].serial = s
      BY <2>1 DEF Present
    <3>2. k # i
      BY <1>2, <1>8, <2>1, <3>1
    <3>3. QED
      BY <1>3, <3>1, <3>2 DEF Stays
  <2>2. \A q \in Peer : q # p => session[q] # session[p]
    <3>1. session[p] # 0
      BY <1>2 DEF Serial
    <3>2. QED
      BY <1>2, <3>1 DEF Registrations, Sessions
  <2>3. ASSUME NEW q \in Peer
        PROVE  /\ Running(q)' => Running(q) /\ q # p
               /\ call'[q].at = "handling" /\ bears'[q] = NoName =>
                     /\ call[q].at = "handling" /\ bears[q] = NoName
                     /\ call'[q].name = call[q].name /\ q # p
               /\ call'[q].at \notin {"gone", "failed"} =>
                     call[q].at \notin {"gone", "failed"}
    <3>1. CASE q = a
      BY <1>4, <1>5, <1>6, <3>1 DEF Running
    <3>2. CASE q # a
      <4>1. call'[q] = call[q]
        BY <1>5, <3>2, ActorFacts
      <4>2. Running(q)' => Running(q) /\ q # p
        BY <1>2, <3>2, <4>1 DEF Running
      <4>3. QED
        BY <1>2, <4>1, <4>2
    <3>3. QED
      BY <3>1, <3>2
  <2>4. Kept'
    <3>1. ASSUME NEW q \in Peer
          PROVE  /\ Running(q)' => Stays(bears'[q], session'[q])
                 /\ call'[q].at = "handling" /\ bears'[q] = NoName =>
                       Stays(call'[q].name, session'[q])
      <4>1. ASSUME Running(q)' PROVE Stays(bears'[q], session'[q])
        <5>1. Present(bears[q], session[q]) /\ session[q] # session[p]
          BY <1>8, <2>2, <2>3, <4>1 DEF Separate, Kept
        <5>2. QED
          BY <1>2, <2>1, <5>1
      <4>2. ASSUME call'[q].at = "handling", bears'[q] = NoName
            PROVE  Stays(call'[q].name, session'[q])
        <5>1. Present(call[q].name, session[q]) /\ session[q] # session[p]
          BY <1>8, <2>2, <2>3, <4>2 DEF Separate, Kept
        <5>2. QED
          BY <1>2, <2>1, <2>3, <4>2, <5>1
      <4>3. QED
        BY <4>1, <4>2
    <3>2. ASSUME NEW t \in Rest, call'[t].at = "begin"
          PROVE  Stays(call'[t].name, call'[t].serial)
      <4>1. t \in Actor /\ t # a /\ call'[t] = call[t]
        BY <1>5, <1>6, <3>2, ActorFacts
      <4>2. Present(call[t].name, call[t].serial)
        BY <1>8, <3>2, <4>1 DEF Separate, Kept
      <4>3. /\ call[t].peer \in Peer /\ bears[call[t].peer] = NoName
            /\ session[call[t].peer] = call[t].serial
        BY <3>2, <4>1, ActorFacts DEF Calls, Beginning, PeerCalls
      <4>4. call[t].serial # session[p]
        BY <1>2, <2>2, <4>3
      <4>5. QED
        BY <2>1, <4>1, <4>2, <4>4
    <3>3. ASSUME NEW k \in tickets', ~Served(k.serial)'
          PROVE  Stays(k.name, k.serial)
      <4>1. k \in tickets /\ ~Served(k.serial)
        BY <1>2, <3>3 DEF Served
      <4>2. Present(k.name, k.serial) /\ k.serial # session[p]
        BY <1>2, <1>8, <4>1 DEF Separate, Kept, Served
      <4>3. QED
        BY <2>1, <4>2
    <3>4. QED
      BY <3>1, <3>2, <3>3 DEF Kept, Stays, Present
  <2>5. OneMeaning'
    <3>1. \A k \in tickets' : k.held => Means(k.name, k.serial)
      BY <1>2, Meaning
    <3>2. ASSUME NEW t \in Rest, call'[t].at \notin {"idle", "gen"}
          PROVE  Means(call'[t].name, call'[t].serial)
      <4>1. CASE t = a
        BY <1>4, <1>5, <4>1, StopFacts
      <4>2. CASE t # a
        BY <1>5, <3>2, <4>2, ActorFacts, Meaning
      <4>3. QED
        BY <4>1, <4>2
    <3>3. \A q \in Peer :
             /\ call'[q].at \notin {"gone", "failed"} /\ bears'[q] # NoName =>
                   Means(bears'[q], session'[q])
             /\ call'[q].at = "handling" /\ bears'[q] = NoName =>
                   Means(call'[q].name, session'[q])
      BY <1>2, <2>3, Meaning
    <3>4. \A j \in DOMAIN services' : Means(services'[j].name, services'[j].serial)
      BY <1>3, Meaning
    <3>5. QED
      BY <1>8, <3>1, <3>2, <3>3, <3>4, MeansKept DEF Separate
  <2>6. OwnPeer'
    <3>1. ASSUME NEW t \in Rest, Stopping(t)'
          PROVE  Stopping(t) /\ call'[t] = call[t]
      <4>1. t \in Actor /\ t # a
        BY <1>6, <3>1, ActorFacts
      <4>2. call'[t] = call[t]
        BY <1>5, <4>1
      <4>3. QED
        BY <3>1, <4>2 DEF Stopping
    <3>2. QED
      BY <1>2, <1>8, <3>1 DEF OwnPeer, Separate
  <2>7. Data'
    BY <1>3, <1>8 DEF Separate, Data
  <2>8. QED
    BY <2>4, <2>5, <2>6, <2>7 DEF Separate
<1>9. QED
  BY <1>7, <1>8

-----------------------------------------------------------------------------
(* All layers.                                                             *)

-----------------------------------------------------------------------------
(* Names, in any race.                                                     *)

(* A step in which nobody begins or goes on with the making of a name, and  *)
(* no slot gets one.                                                       *)
NoNaming == /\ met' = met
            /\ \A u \in Rest : Naming(u)' => call'[u] = call[u]
            /\ InUse' \subseteq InUse
            /\ NoConflicts => NoConflicts'

LEMMA NoNamingApart ==
    ASSUME NamesApart, NoNaming
    PROVE  NamesApart'
<1>1. SUFFICES ASSUME ~met' PROVE
         /\ \A t, u \in Rest : Naming(t)' /\ Naming(u)' => t = u
         /\ \A t \in Rest : call'[t].at = "assign" => call'[t].name \notin InUse'
         /\ NoConflicts'
  BY DEF NamesApart, Registered
<1>2. /\ \A t, u \in Rest : Naming(t) /\ Naming(u) => t = u
      /\ \A t \in Rest : call[t].at = "assign" => call[t].name \notin InUse
      /\ NoConflicts
  BY <1>1 DEF NamesApart, NoNaming, Registered
<1>3. \A u \in Rest : Naming(u)' => Naming(u) /\ call'[u] = call[u]
  BY DEF NoNaming, Naming
<1>4. \A t \in Rest : call'[t].at = "assign" => Naming(t)'
  BY DEF Naming
<1>5. \A t \in Rest : call'[t].at = "assign" => call'[t].name \notin InUse'
  BY <1>2, <1>3, <1>4 DEF NoNaming
<1>6. QED
  BY <1>2, <1>3, <1>5 DEF NoNaming

(* Who goes on to a call that is not in new_service disturbs no name.       *)
LEMMA CallsNoName ==
    ASSUME Calls, NEW a \in Actor, NEW c, SetCall(a, c),
           a \in Peer \/ c.at \notin {"gen", "assign"}
    PROVE  \A u \in Rest : Naming(u)' => call'[u] = call[u]
<1>1. call'[a] = c /\ \A b \in Actor : b # a => call'[b] = call[b]
  BY CallFacts DEF Calls, TypeOK
<1>2. QED
  BY <1>1, ActorFacts DEF Naming

(* Nor does what writes partners and keys, ...                              *)
LEMMA SlotsNoName ==
    ASSUME DOMAIN services' = DOMAIN services,
           \A i \in DOMAIN services : services'[i].name = services[i].name
    PROVE  /\ InUse' \subseteq InUse
           /\ NoConflicts => NoConflicts'
  BY DEF InUse, NoConflicts

LEMMA WrittenNoName ==
    ASSUME Calls, NEW a \in Actor, Written(a), call[a].serial \in Serial
    PROVE  /\ InUse' \subseteq InUse
           /\ NoConflicts => NoConflicts'
<1>1. /\ services \in Seq(Slot)
      /\ services' = [services EXCEPT ![call[a].index].data =
                                         @ \union {call[a].serial}]
  BY HereFacts DEF Calls, Written
<1>2. /\ DOMAIN services' = DOMAIN services
      /\ \A i \in DOMAIN services : services'[i].name = services[i].name
  BY <1>1, Writing
<1>3. QED
  BY <1>2, SlotsNoName

(* ... or erases a slot.                                                    *)
LEMMA ErasedNoName ==
    ASSUME Calls, NEW k \in DOMAIN services, services' = RemoveAt(services, k)
    PROVE  /\ InUse' \subseteq InUse
           /\ NoConflicts => NoConflicts'
<1>1. /\ services \in Seq(Slot) /\ Len(services) \in Nat
      /\ DOMAIN services = 1 .. Len(services)
  BY HereFacts, SlotFacts DEF Calls
<1>2. /\ DOMAIN services' = 1 .. Len(services) - 1
      /\ \A j \in DOMAIN services' :
            services'[j] = IF j < k THEN services[j] ELSE services[j + 1]
  BY <1>1, Erasing
<1> DEFINE from(j) == IF j < k THEN j ELSE j + 1
<1>3. /\ \A j \in DOMAIN services' : /\ from(j) \in DOMAIN services
                                     /\ services'[j] = services[from(j)]
      /\ \A i, j \in DOMAIN services' : from(i) = from(j) => i = j
  BY <1>1, <1>2
<1> HIDE DEF from
<1>4. QED
  BY <1>3 DEF InUse, NoConflicts

LEMMA NewServiceApart ==
    ASSUME Calls, NamesApart, NEW t \in Rest, NEW n \in Asked, NewService(t, n)
    PROVE  NamesApart'
<1>1. SUFFICES ASSUME ~met' PROVE
         /\ \A v, u \in Rest : Naming(v)' /\ Naming(u)' => v = u
         /\ \A u \in Rest : call'[u].at = "assign" => call'[u].name \notin InUse'
         /\ NoConflicts'
  BY DEF NamesApart, Registered
<1>2. ~met /\ \A u \in Rest : u # t => ~Naming(u)
  BY <1>1 DEF NewService
<1>3. /\ t \in Actor /\ TypeOK /\ count + 1 \in 1 .. MaxServices
      /\ services \in Seq(Slot)
  <2>1. t \in Actor /\ TypeOK /\ count \in 0 .. MaxServices /\ MaxServices \in Nat
    BY ActorFacts, HereFacts DEF Calls
  <2>2. QED
    BY <2>1, HereFacts DEF NewService
<1> DEFINE x == [name |-> NoName, serial |-> count + 1, data |-> {}]
           c == [Idle EXCEPT !.at = "gen", !.name = n, !.serial = count + 1,
                             !.index = Len(services) + 1]
<1>4. x \in Slot /\ x.name = NoName
  BY <1>3 DEF Slot, Serial, MaybeName
<1>5. services' = Append(services, x) /\ SetCall(t, c) /\ c.at = "gen"
  BY DEF NewService, Idle
<1> HIDE DEF x, c
<1>6. /\ call'[t] = c /\ \A u \in Rest : u # t => call'[u] = call[u]
  BY <1>3, <1>5, CallFacts, ActorFacts DEF TypeOK
<1>7. \A u \in Rest : Naming(u)' => u = t
  BY <1>2, <1>6 DEF Naming
<1>8. \A u \in Rest : call'[u].at # "assign"
  BY <1>5, <1>6, <1>7 DEF Naming
<1>9. /\ DOMAIN services' = 1 .. Len(services) + 1
      /\ DOMAIN services = 1 .. Len(services) /\ Len(services) \in Nat
      /\ services'[Len(services) + 1] = x
      /\ \A i \in DOMAIN services : services'[i] = services[i]
  BY <1>3, <1>4, <1>5, Appending, SlotFacts
<1>10. \A i \in DOMAIN services' :
          services'[i].name # NoName =>
             i \in DOMAIN services /\ services'[i] = services[i]
  BY <1>4, <1>9
<1>11. NoConflicts
  BY <1>2 DEF NamesApart, Registered
<1>12. NoConflicts'
  BY <1>10, <1>11 DEF NoConflicts
<1>13. QED
  BY <1>7, <1>8, <1>12

LEMMA GenNameApart ==
    ASSUME Calls, NamesApart, NEW t \in Rest, GenName(t)
    PROVE  NamesApart'
<1>1. PICK n \in Fresh(call[t].name), c \in Call :
         /\ SetCall(t, c) /\ call'[t] = c
         /\ c.at = "assign" /\ c.name = n /\ n \notin InUse
  BY GenNameEffect DEF Registered
<1>2. /\ met' = met /\ services' = services /\ call[t].at = "gen" /\ t \in Actor
      /\ call \in [Actor -> Call]
  BY ActorFacts DEF GenName, Calls, TypeOK
<1>3. \A u \in Rest : u # t => call'[u] = call[u]
  BY <1>1, <1>2, CallFacts, ActorFacts
<1>4. /\ InUse' = InUse
      /\ NoConflicts' <=> NoConflicts
  BY <1>2 DEF InUse, NoConflicts
<1>5. SUFFICES ASSUME ~met PROVE
         /\ \A v, u \in Rest : Naming(v)' /\ Naming(u)' => v = u
         /\ \A u \in Rest : call'[u].at = "assign" => call'[u].name \notin InUse'
         /\ NoConflicts'
  BY <1>2 DEF NamesApart, Registered
<1>6. /\ \A v, u \in Rest : Naming(v) /\ Naming(u) => v = u
      /\ \A u \in Rest : call[u].at = "assign" => call[u].name \notin InUse
      /\ NoConflicts
  BY <1>5 DEF NamesApart, Registered
<1>7. \A u \in Rest : Naming(u)' => Naming(u)
  BY <1>1, <1>2, <1>3 DEF Naming
<1>8. QED
  BY <1>1, <1>3, <1>4, <1>6, <1>7

LEMMA AssignApart ==
    ASSUME Calls, NamesApart, NEW t \in Rest, Assign(t)
    PROVE  NamesApart'
<1>1. /\ t \in Actor /\ call[t].at = "assign" /\ call[t] \in Call
      /\ services \in Seq(Slot) /\ call[t].name \in MaybeName
      /\ met' = met
      /\ SetCall(t, [call[t] EXCEPT !.at = "answer"])
  BY ActorFacts, HereFacts DEF Calls, Assign, Call
<1>2. PICK i : services' = [services EXCEPT ![i].name = call[t].name]
  BY DEF Assign
<1>3. /\ DOMAIN services' = DOMAIN services
      /\ \A j \in DOMAIN services :
            services'[j].name = IF j = i THEN call[t].name ELSE services[j].name
  BY <1>1, <1>2, NameWritten
<1>4. call'[t].at = "answer" /\ \A u \in Rest : u # t => call'[u] = call[u]
  <2>1. [call[t] EXCEPT !.at = "answer"].at = "answer"
    BY <1>1 DEF Call
  <2>2. QED
    BY <1>1, <2>1, CallFacts, ActorFacts DEF Calls, TypeOK
<1>5. SUFFICES ASSUME ~met PROVE
         /\ \A v, u \in Rest : Naming(v)' /\ Naming(u)' => v = u
         /\ \A u \in Rest : call'[u].at = "assign" => call'[u].name \notin InUse'
         /\ NoConflicts'
  BY <1>1 DEF NamesApart, Registered
<1>6. /\ \A u \in Rest : Naming(u) => u = t
      /\ \A j \in DOMAIN services : services[j].name # call[t].name
      /\ NoConflicts
  BY <1>1, <1>5 DEF NamesApart, Naming, Registered, InUse
<1>7. \A u \in Rest : ~Naming(u)'
  BY <1>4, <1>6 DEF Naming
<1>8. NoConflicts'
  BY <1>3, <1>6 DEF NoConflicts
<1>9. QED
  BY <1>7, <1>8 DEF Naming

(* The other steps of REST threads. *)
LEMMA RestNoNaming ==
    ASSUME Calls, Registrations, NEW t \in Rest,
           \/ Answer(t) \/ WritePartner(t) \/ Start(t) \/ NextPeer(t) \/ Left(t)
           \/ \E k \in tickets : \/ UpdatePartner(t, k) \/ Leave(t, k)
                                \/ \E p \in Dialers : BeginSync(t, k, p)
    PROVE  NoNaming
<1>1. /\ t \in Actor /\ TypeOK /\ call[t] \in Call /\ call \in [Actor -> Call]
      /\ Idle.at = "idle" /\ Idle \in Call
  BY ActorFacts, HereFacts, IdleFacts DEF Calls
<1>2. ASSUME UNCHANGED <<services, met>>, NEW c, SetCall(t, c),
             c.at \notin {"gen", "assign"}
      PROVE  NoNaming
  BY <1>1, <1>2, CallsNoName, SlotsNoName DEF NoNaming
<1>3. CASE Answer(t) \/ Left(t)
  BY <1>1, <1>2, <1>3 DEF Answer, Left
<1>4. CASE WritePartner(t)
  <2>1. call[t].serial \in Serial
    BY <1>1, <1>4, TicketSerial DEF WritePartner, Making
  <2>2. Written(t) /\ SetCall(t, Idle) /\ met' = met
    BY <1>4 DEF WritePartner
  <2>3. QED
    BY <1>1, <2>1, <2>2, WrittenNoName, CallsNoName DEF NoNaming
<1>5. CASE NextPeer(t)
  <2>1. PICK p \in call[t].left :
           SetCall(t, [call[t] EXCEPT
                          !.left = @ \ {p},
                          !.at   = IF bears[p] = call[t].name THEN "stop" ELSE @,
                          !.peer = IF bears[p] = call[t].name THEN p ELSE @])
    BY <1>5 DEF NextPeer
  <2> DEFINE c == [call[t] EXCEPT
                      !.left = @ \ {p},
                      !.at   = IF bears[p] = call[t].name THEN "stop" ELSE @,
                      !.peer = IF bears[p] = call[t].name THEN p ELSE @]
  <2>2. c.at \notin {"gen", "assign"}
    BY <1>1, <1>5 DEF NextPeer, Call
  <2>3. UNCHANGED <<services, met>>
    BY <1>5 DEF NextPeer
  <2> HIDE DEF c
  <2>4. SetCall(t, c)
    BY <2>1 DEF c
  <2>5. QED
    BY <1>2, <2>2, <2>3, <2>4
<1>6. ASSUME NEW k \in tickets, UpdatePartner(t, k) \/ Leave(t, k)
      PROVE  NoNaming
  <2>1. CASE UpdatePartner(t, k)
    <3>1. PICK i \in DOMAIN services :
             SetCall(t, [Idle EXCEPT !.at = "write", !.name = k.name,
                                     !.serial = k.serial, !.index = i])
      BY <2>1 DEF UpdatePartner
    <3> DEFINE c == [Idle EXCEPT !.at = "write", !.name = k.name,
                                 !.serial = k.serial, !.index = i]
    <3>2. c.at = "write" /\ UNCHANGED <<services, met>>
      BY <2>1 DEF Idle, UpdatePartner
    <3> HIDE DEF c
    <3>3. SetCall(t, c)
      BY <3>1 DEF c
    <3>4. QED
      BY <1>2, <3>2, <3>3
  <2>2. CASE Leave(t, k)
    <3> DEFINE c == [Idle EXCEPT !.at = "exit", !.name = k.name,
                                 !.serial = k.serial, !.left = peers,
                                 !.due = {p \in peers : started[p] /\ bears[p] = k.name}]
    <3>1. c.at = "exit" /\ UNCHANGED <<services, met>> /\ SetCall(t, c)
      BY <2>2 DEF Idle, Leave
    <3> HIDE DEF c
    <3>2. QED
      BY <1>2, <3>1
  <2>3. QED
    BY <1>6, <2>1, <2>2
<1>7. ASSUME UNCHANGED <<services, met>>, NEW p \in Peer, NEW c, NEW d,
             c.at \notin {"gen", "assign"},
             call' = [call EXCEPT ![t] = c, ![p] = d]
      PROVE  NoNaming
  <2>1. \A u \in Rest : Naming(u)' => call'[u] = call[u]
    BY <1>1, <1>7, ActorFacts DEF Naming
  <2>2. QED
    BY <1>7, <2>1, SlotsNoName DEF NoNaming
<1>8. CASE Start(t)
  <2>1. PICK next \in {"connecting", "failed"} :
           call' = [call EXCEPT ![t] = Idle, ![call[t].peer].at = next]
    BY <1>8 DEF Start
  <2>2. UNCHANGED <<services, met>> /\ call[t].peer \in Peer
    BY <1>8, ActorFacts DEF Start, Calls, Beginning
  <2> DEFINE p == call[t].peer
  <2>3. p # t
    BY <2>2, ActorFacts
  <2>4. call' = [call EXCEPT ![t] = Idle, ![p] = [call[p] EXCEPT !.at = next]]
    BY <1>1, <2>1, <2>3
  <2>5. QED
    BY <1>1, <1>7, <2>2, <2>4
<1>9. ASSUME NEW k \in tickets, NEW p \in Dialers, BeginSync(t, k, p)
      PROVE  NoNaming
  <2> DEFINE c == [Idle EXCEPT !.at = "begin", !.name = k.name,
                               !.serial = k.serial, !.peer = p]
             d == [call[p] EXCEPT !.at = "listed"]
  <2>1. UNCHANGED <<services, met>> /\ p \in Peer /\ p # t /\ p \in Actor
    BY <1>9, ActorFacts DEF BeginSync
  <2>2. c.at = "begin"
    BY <1>1 DEF Call
  <2>3. call' = [call EXCEPT ![t] = c, ![p] = d]
    BY <1>1, <1>9, <2>1 DEF BeginSync
  <2> HIDE DEF c, d
  <2>4. QED
    BY <1>7, <2>1, <2>2, <2>3
<1>10. QED
  BY <1>3, <1>4, <1>5, <1>6, <1>8, <1>9

LEMMA PeerNoNaming ==
    ASSUME Calls, Registrations, NEW p \in Peer, Event(p) \/ PeerContinues(p)
    PROVE  NoNaming
<1>1. p \in Actor /\ TypeOK
  BY ActorFacts DEF Calls
<1>2. met' = met /\ \E c : SetCall(p, c)
  BY DEF Event, Accept, OnRead, OnReadInit, OnReadError, PeerContinues, StartAccepted,
         OnConnectOk, OnConnectErr, OnInit, OnMessage, OnKey, AddKey
<1>3. \A u \in Rest : Naming(u)' => call'[u] = call[u]
  BY <1>1, <1>2, CallsNoName
<1>4. CASE AddKey(p)
  <2>1. call[p].serial \in Serial /\ Written(p)
    BY <1>1, <1>4, TicketSerial DEF AddKey, Calls, PeerCalls
  <2>2. QED
    BY <1>1, <1>2, <1>3, <2>1, WrittenNoName DEF NoNaming
<1>5. CASE ~AddKey(p)
  <2>1. services' = services
    BY <1>5 DEF Event, Accept, OnRead, OnReadInit, OnReadError, PeerContinues,
       StartAccepted, OnConnectOk, OnConnectErr, OnInit, OnMessage, OnKey
  <2>2. QED
    BY <1>2, <1>3, <2>1, SlotsNoName DEF NoNaming
<1>6. QED
  BY <1>4, <1>5

LEMMA StopNoNaming ==
    ASSUME Calls, NEW a \in Actor, StopContinues(a)
    PROVE  NoNaming
<1>1. /\ call[a] \in Call /\ call[a].at \in StopStep /\ met' = met
      /\ Stopped(a).at \in {"exit", "gone"}
  BY HereFacts, StoppedFacts, ActorFacts
     DEF Calls, StopContinues, Stop, Unlist, RemoveService, Erase, StopStep, Actor
<1>2. Returned(a).at \in {"exit", "gone", "stop"}
  BY <1>1, IdleFacts, StoppedFacts DEF Returned, Call
<1>3. \E c : SetCall(a, c) /\ c.at \notin {"gen", "assign"}
  <2>1. \A i : [call[a] EXCEPT !.at = "erase", !.index = i].at = "erase"
    BY <1>1 DEF Call
  <2>2. /\ [call[a] EXCEPT !.at = "unlist"].at = "unlist"
        /\ [call[a] EXCEPT !.at = "remove"].at = "remove"
    BY <1>1 DEF Call
  <2>3. QED
    BY <1>1, <1>2, <2>1, <2>2 DEF StopContinues, Stop, Unlist, RemoveService, Erase
<1>4. \A u \in Rest : Naming(u)' => call'[u] = call[u]
  BY <1>3, CallsNoName
<1>5. CASE services' = services
  BY <1>1, <1>4, <1>5, SlotsNoName DEF NoNaming
<1>6. CASE services' # services
  <2>1. PICK k \in DOMAIN services : services' = RemoveAt(services, k)
    BY <1>6 DEF StopContinues, Stop, Unlist, RemoveService, Erase
  <2>2. QED
    BY <1>1, <1>4, <2>1, ErasedNoName DEF NoNaming
<1>7. QED
  BY <1>5, <1>6

LEMMA NamesApartStep ==
    ASSUME Calls, Registrations, NamesApart, [Next]_vars
    PROVE  NamesApart'
<1>1. ASSUME NEW t \in Rest, Request(t) \/ RestContinues(t)
      PROVE  NamesApart'
  <2>1. ASSUME NEW n \in Asked, NewService(t, n)
        PROVE  NamesApart'
    BY <2>1, NewServiceApart
  <2>2. CASE GenName(t)
    BY <2>2, GenNameApart
  <2>3. CASE Assign(t)
    BY <2>3, AssignApart
  <2>4. QED
    BY <1>1, <2>1, <2>2, <2>3, RestNoNaming, NoNamingApart DEF Request, RestContinues
<1>2. ASSUME NEW p \in Peer, Event(p) \/ PeerContinues(p)
      PROVE  NamesApart'
  BY <1>2, PeerNoNaming, NoNamingApart
<1>3. ASSUME NEW a \in Actor, StopContinues(a)
      PROVE  NamesApart'
  BY <1>3, StopNoNaming, NoNamingApart
<1>4. CASE UNCHANGED vars
  BY <1>4 DEF vars, NamesApart, Naming, Registered, InUse, NoConflicts
<1>5. QED
  BY <1>1, <1>2, <1>3, <1>4 DEF Next

-----------------------------------------------------------------------------
(* overlap and reused are history: they stay. *)
LEMMA HistoryKept ==
    ASSUME Calls, Next
    PROVE  /\ overlap => overlap'
           /\ reused => reused'
<1>1. overlap \in BOOLEAN /\ reused \in BOOLEAN
  BY DEF Calls, TypeOK
<1>2. \A a : Touch(a) /\ overlap => overlap'
  BY <1>1 DEF Touch
<1>3. ASSUME NEW t \in Rest, Request(t) \/ RestContinues(t)
      PROVE  (overlap => overlap') /\ (reused => reused')
  BY <1>1, <1>2, <1>3 DEF Request, NewService, UpdatePartner, BeginSync, Leave,
     RestContinues, GenName, Assign, Answer, WritePartner, Start, NextPeer, Left
<1>4. ASSUME NEW p \in Peer, Event(p) \/ PeerContinues(p)
      PROVE  (overlap => overlap') /\ (reused => reused')
  BY <1>1, <1>2, <1>4 DEF Event, PeerContinues, Accept, OnRead, OnReadInit,
     OnReadError, StartAccepted, OnConnectOk, OnConnectErr, OnInit, OnMessage, OnKey,
     AddKey
<1>5. ASSUME NEW a \in Actor, StopContinues(a)
      PROVE  (overlap => overlap') /\ (reused => reused')
  BY <1>1, <1>2, <1>5 DEF StopContinues, Stop, Unlist, RemoveService, Erase
<1>6. QED
  BY <1>3, <1>4, <1>5 DEF Next

LEMMA SafeStep ==
    ASSUME Calls, Registrations, Alone, Next, ~overlap'
    PROVE  Alone' /\ (Separate /\ ~reused' => Separate')
<1>1. ASSUME NEW t \in Rest, Request(t)
      PROVE  Alone' /\ (Separate => Separate')
  <2>1. ASSUME NEW n \in Asked, NewService(t, n)
        PROVE  Alone' /\ (Separate => Separate')
    BY <2>1, NewServiceSafe
  <2>2. ASSUME NEW k \in tickets, UpdatePartner(t, k)
        PROVE  Alone' /\ (Separate => Separate')
    BY <2>2, UpdatePartnerSafe
  <2>3. ASSUME NEW k \in tickets, NEW p \in Dialers, BeginSync(t, k, p)
        PROVE  Alone' /\ (Separate => Separate')
    BY <2>3, BeginSyncSafe
  <2>4. ASSUME NEW k \in tickets, Leave(t, k)
        PROVE  Alone' /\ (Separate => Separate')
    BY <2>4, LeaveSafe
  <2>5. QED
    BY <1>1, <2>1, <2>2, <2>3, <2>4 DEF Request
<1>2. ASSUME NEW t \in Rest, RestContinues(t)
      PROVE  Alone' /\ (Separate /\ ~reused' => Separate')
  <2>1. CASE GenName(t)
    BY <2>1, GenNameSafe
  <2>2. CASE Assign(t)
    BY <2>2, AssignSafe
  <2>3. CASE Answer(t)
    BY <2>3, AnswerSafe
  <2>4. CASE WritePartner(t)
    BY <2>4, WritePartnerSafe
  <2>5. CASE Start(t)
    BY <2>5, StartSafe
  <2>6. CASE NextPeer(t)
    BY <2>6, NextPeerSafe
  <2>7. CASE Left(t)
    BY <2>7, LeftSafe
  <2>8. QED
    BY <1>2, <2>1, <2>2, <2>3, <2>4, <2>5, <2>6, <2>7 DEF RestContinues
<1>3. ASSUME NEW p \in Peer, Event(p)
      PROVE  Alone' /\ (Separate => Separate')
  <2>1. CASE Accept(p) \/ OnRead(p) \/ OnReadError(p)
    BY <2>1, PeerGoesOnSafe
  <2>2. ASSUME NEW k \in tickets, OnReadInit(p, k)
        PROVE  Alone' /\ (Separate => Separate')
    BY <2>2, OnReadInitSafe
  <2>3. QED
    BY <1>3, <2>1, <2>2 DEF Event
<1>4. ASSUME NEW p \in Peer, PeerContinues(p)
      PROVE  Alone' /\ (Separate => Separate')
  <2>1. CASE StartAccepted(p) \/ OnConnectErr(p)
    BY <2>1, PeerGoesOnSafe
  <2>2. CASE OnConnectOk(p) \/ OnMessage(p)
    BY <2>2, OnMessageSafe
  <2>3. CASE OnInit(p)
    BY <2>3, OnInitSafe
  <2>4. CASE OnKey(p)
    BY <2>4, OnKeySafe
  <2>5. CASE AddKey(p)
    BY <2>5, AddKeySafe
  <2>6. QED
    BY <1>4, <2>1, <2>2, <2>3, <2>4, <2>5 DEF PeerContinues
<1>5. ASSUME NEW a \in Actor, StopContinues(a)
      PROVE  Alone' /\ (Separate => Separate')
  BY <1>5, StopSafe, UnlistSafe, RemoveServiceSafe, EraseSafe DEF StopContinues
<1>6. QED
  BY <1>1, <1>2, <1>3, <1>4, <1>5 DEF Next

LEMMA SafeStutter ==
    ASSUME UNCHANGED vars
    PROVE  /\ Undisturbed => Undisturbed'
           /\ Apart => Apart'
<1>1. UNCHANGED <<services, peers, started, bears, session, call, tickets, count,
                  overlap, reused, met>>
  BY DEF vars, peerVars
<1>2. Unique' = Unique /\ Nameless' = Nameless /\ Answered' = Answered
  BY <1>1 DEF Unique, Nameless, Naming, Answered, Registered, InUse
<1>3. OneInside' = OneInside /\ Found' = Found
  BY <1>1 DEF OneInside, Inside, Found, FoundLast, FoundNamed, Making, PeerName,
     Registered, InUse
<1>4. Unnamed' = Unnamed /\ NameSakes' = NameSakes /\ Forgotten' = Forgotten
  BY <1>1 DEF Unnamed, UnnamedPeer, NameSakes, Forgotten, Ending, Stopping
<1>5. Kept' = Kept /\ OwnPeer' = OwnPeer /\ Data' = Data
  BY <1>1 DEF Kept, Running, Served, Present, OwnPeer, Stopping, Data
<1>6. OneMeaning' = OneMeaning
  BY <1>1 DEF OneMeaning, Means, TicketMeans, CallMeans, PeerMeans, Present
<1>7. QED
  BY <1>1, <1>2, <1>3, <1>4, <1>5, <1>6 DEF Undisturbed, Alone, Apart, Separate

LEMMA InitSafe == Init => Alone /\ Separate
<1> SUFFICES ASSUME Init PROVE Alone /\ Separate
  OBVIOUS
<1>1. /\ services = <<>> /\ tickets = {}
      /\ \A p \in Peer : bears[p] = NoName /\ session[p] = 0 /\ ~started[p]
  BY DEF Init
<1>2. DOMAIN services = {}
  BY <1>1, EmptySeq, SlotFacts
<1>3. \A t \in Rest : call[t].at = "idle"
  BY ActorFacts, IdleFacts DEF Init
<1>4. \A p \in Peer : call[p].at = "new"
  BY ActorFacts, IdleFacts DEF Init, Idle
<1>5. \A a \in Actor : call[a].at \in {"idle", "new"}
  BY <1>3, <1>4, ActorFacts
<1>6. OneInside /\ Found
  BY <1>5 DEF OneInside, Inside, Found, FoundLast, FoundNamed, Making
<1>7. Unique /\ Nameless /\ Answered
  BY <1>1, <1>2 DEF Unique, Nameless, Naming, Answered, Registered, InUse
<1>8. Unnamed /\ NameSakes /\ Forgotten
  BY <1>1, <1>2, <1>3, <1>4 DEF Unnamed, UnnamedPeer, NameSakes, Forgotten, StopStep
<1>9. Kept /\ OwnPeer /\ Data
  BY <1>1, <1>2, <1>3, <1>4 DEF Kept, Running, OwnPeer, Stopping, Data
<1>10. OneMeaning
  <2>1. ASSUME NEW n \in Names, NEW s \in Serial
        PROVE  ~Means(n, s)
    BY <1>1, <1>2, <1>3, <2>1 DEF Means, TicketMeans, CallMeans, PeerMeans, Present,
       Serial
  <2>2. QED
    BY <2>1 DEF OneMeaning
<1>11. QED
  BY <1>6, <1>7, <1>8, <1>9, <1>10 DEF Alone, Separate

(* The invariant: ServerInv.  It is what the handlers and the REST threads  *)
(* rely on when they use by name, or by place, what they have looked up.    *)
THEOREM ServerInvariantHolds == Spec => []ServerInvariant
<1>1. Init => ServerInvariant
  <2>1. ASSUME Init PROVE NamesApart
    <3>1. \A t \in Rest : call[t].at = "idle"
      BY <2>1, ActorFacts DEF Init, Idle
    <3>2. DOMAIN services = {}
      <4>1. services = <<>>
        BY <2>1 DEF Init
      <4>2. QED
        BY <4>1
    <3>3. \A t \in Rest : ~Naming(t) /\ call[t].at # "assign"
      BY <3>1 DEF Naming
    <3>4. NoConflicts
      BY <3>2 DEF NoConflicts
    <3>5. QED
      BY <3>3, <3>4 DEF NamesApart
  <2>2. QED
    BY <2>1, InitCalls, InitRegistrations, InitSafe DEF ServerInvariant, Undisturbed, Apart
<1>2. ASSUME ServerInvariant, [Next]_vars
      PROVE  ServerInvariant'
  <2> NamesApart'
    BY <1>2, NamesApartStep DEF ServerInvariant
  <2>1. CASE UNCHANGED vars
    BY <1>2, <2>1, CallsStutter, SafeStutter DEF ServerInvariant
  <2>2. CASE Next
    <3>1. Calls' /\ Registrations'
      BY <1>2, <2>2, CallsStep DEF ServerInvariant
    <3>2. (overlap => overlap') /\ (reused => reused')
      BY <1>2, <2>2, HistoryKept DEF ServerInvariant
    <3>3. ASSUME ~overlap'
          PROVE  Alone' /\ (~reused' => Separate')
      <4>1. Calls /\ Registrations /\ Alone
        BY <1>2, <3>2, <3>3 DEF ServerInvariant, Undisturbed
      <4>2. ~reused' => Separate
        BY <1>2, <3>2, <3>3 DEF ServerInvariant, Apart
      <4>3. Alone' /\ (Separate /\ ~reused' => Separate')
        BY <2>2, <3>3, <4>1, SafeStep
      <4>4. QED
        BY <4>2, <4>3
    <3>4. QED
      BY <3>1, <3>3 DEF ServerInvariant, Undisturbed, Apart
  <2>3. QED
    BY <1>2, <2>1, <2>2
<1>3. QED
  BY <1>1, <1>2, PTL DEF Spec

-----------------------------------------------------------------------------
(* UniqueNames: for any number of REST threads and peers, gen_name keeps    *)
(* names apart in every race but that of two /init in new_service.         *)
THEOREM NamesAreUnique == Spec => []UniqueNames
<1>1. ServerInvariant => UniqueNames
  BY DEF ServerInvariant, NamesApart, UniqueNames
<1>2. QED
  BY <1>1, ServerInvariantHolds, PTL

(* peer::stop, by whomever it is called, leaves neither the peer on the     *)
(* list nor its service among the services.                                *)
THEOREM StoppedIsForgotten == Spec => []StopForgets
<1>1. ASSUME ServerInvariant, NEW p \in Peer, bears[p] # NoName, ~started[p],
             \A a \in Actor : ~(/\ call[a].at \in {"unlist", "remove", "erase"}
                                /\ call[a].peer = p)
      PROVE  /\ p \notin peers
             /\ overlap \/ \A i \in DOMAIN services : services[i].serial # session[p]
  <2>1. call[p].at # "listed"
    BY <1>1 DEF ServerInvariant, Calls, PeerCalls
  <2>2. p \notin peers
    BY <1>1, <2>1 DEF ServerInvariant, Calls, Unlisted
  <2>3. \A a \in Actor : ~Ending(a, p)
    BY <1>1 DEF Ending, Stopping
  <2>4. QED
    BY <1>1, <2>2, <2>3 DEF ServerInvariant, Undisturbed, Alone, Forgotten
<1>2. ServerInvariant => StopForgets
  BY <1>1 DEF StopForgets
<1>3. QED
  BY <1>2, ServerInvariantHolds, PTL
=============================================================================

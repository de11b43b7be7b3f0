# TLA+ specification of DynamiCrypt

Two DynamiCrypt servers train a pair of tree parity machines over TCP until
the machines hold the same weights; the weights are hashed into an AES key,
handed to a *service*, and the machines start over.  An application registers
its service through a REST API and encrypts and decrypts with the keys.
This directory holds TLA+ modules for that system, TLC configurations that
check them on small instances, and TLAPS proofs.  `src/` below is the
repository; all C++ files are in `src/DynamiCrypt/`.

## The system

| component | state | operations | interacts with |
|---|---|---|---|
| tree parity machine (`TreeParityMachine`, `TpmHandler`, `TPMInputVector`) | weights `W`, hidden outputs `H`, output `TPMOutput`, vector `X` | compute, update, random weights and vectors, vector to and from text | owned by the TPM handler |
| TPM handler (`SingleTpmNetworkHandler`, `TpmNetworkHandler`) | id, partner id, iteration, one machine | create, find, link, iterate, reset, compare keys, record a key | called by the peer's handlers; calls `add_key` |
| peer (`peer.cpp`, `definitions.cpp`, `main.cpp`) | socket, read and write buffers, `started_`, `service_name_`, its TPM handler; the global list `peers` | start, stop, `on_connect`, `on_read` and the four message handlers, `on_write` | four asio threads run the handlers; REST threads call `begin_sync` and `stop_sync` |
| service registry (`API_service_data_handler`) | `services`: name, partner, key ring with use counts | new, update, remove, check, `add_key`, `crypt` | written by the asio threads and the REST threads, no lock |
| REST API (`API_service`, `APIServer`) | none | `/init`, `/init_config`, `/sync`, `/status`, `/encrypt`, `/exit` | the registry, `begin_sync`, `stop_sync` |
| NodeApp (`src/NodeApp`) | module-level variables: `services`, `current_service_name`, flags | forms, `/encrypt`, `/decrypt`, start and stop | REST API of its own server; the other NodeApp |

What makes the code hard:

* *Half-duplex protocol.*  A peer either reads or writes; it is alive only
  while an asynchronous operation holds it.  A handler that writes nothing, or
  writes twice, ends or garbles the session.
* *Stale machine state.*  One round of learning spans two messages.  The
  machine updates with the `H` it computed before the previous message, on a
  vector it gets back from the partner.
* *A key is recorded twice*, by the side that notices equality and, one message
  later, by the other; a stop or a lost connection may come in between.
* *Counters on both sides* decide, each alone, when to give up on a key.
* *Threads.*  REST threads stop peers and remove services while asio threads
  run handlers.  The list of peers has a lock, which `stop` lets go halfway;
  the services have none, and everybody finds them again by name.
* *Decryption guesses the key.*  A message does not say which key it was
  encrypted with; the receiver tries its last ten, and in mode 2 takes its own
  use counts for the partner's.
* *No timeouts.*  A dead connection that nobody closes is never noticed.

## Modules

| module | what it is |
|---|---|
| `TreeParityMachine` | the machine as operators on weights, vectors and hidden outputs |
| `Wire` | the text of a vector in a message, of the weights in a key, and the cipher's key made of it |
| `Training` | one machine trained on arbitrary vectors; what the rest of the program takes from the two above |
| `KeyExchange` | abstract: two parties collect the same keys in the same order, one at most a key ahead; `SyncSession` implements it |
| `SyncSession` | one session: both peers, their machines, the connection, the services' rings |
| `SyncSessionInv` | the inductive invariant of `SyncSession` |
| `MCSyncSession` | small instances of the two above |
| `Crypt` | encryption and decryption with the rings of two services that keep growing |
| `CryptInv` | the inductive invariant of `Crypt` |
| `MCCrypt` | small instances of the two above |
| `Server` | one process: REST threads, any number of peers, the list of peers, the services |
| `ServerInv` | the inductive invariant of `Server`, in layers |
| `MCServer` | small instances of the two above |
| `TreeParityMachineProofs`, `TrainingProofs`, `KeyExchangeProofs`, `SyncSessionProofs`, `SyncSessionTheorems`, `CryptProofs`, `ServerProofs`, `ServerTheorems` | theorems |

### SyncSession and the code

A *side* is a peer with its machine and its service.  That is exact for one
session: `tpm_handler` is a member of `peer` (peer.hpp:114) and a peer has
`MAX_TPMS_PER_PEER` = 1 machines.

| variable | code |
|---|---|
| `pc` | the asynchronous operation that holds the peer: connect, read, a handler, write; `gone` when none does, and the peer and its machine have been destroyed |
| `started`, `named` | `started_`; whether `service_name_` is set (an accepting peer learns it in `on_init`) |
| `tpm` | `SingleTpmNetworkHandler`: id, partner, weights, hidden outputs, vector, iteration |
| `link` | the TCP connection: `none`, `up`, `closed`, or `silent` (packets no longer arrive, and nobody knows) |
| `chan` | messages on their way to a side; the head stays while it is handled |
| `registered`, `ring` | the service in `API_service_data_handler`, and its `keys_` |
| `keyLog` | every key `add_key_to_proper_keys` has recorded |

Each completion handler is one action, to the end of `do_write`.  `on_read` is
a step of its own up to the dispatch, so that a stop from a REST thread can
come between its `started()` check and the handler.  A stopped peer's handler
still runs, but `do_write` sends nothing.  `on_sync` is three actions, one for
each way it ends: limit reached, key found, next round.  `peer::stop` is part
of whatever calls it.

What is abstracted:

* a key's hash stands for the key: it is compared and never inverted.  The
  nonce is sent beside it; leaving it out loses nothing.  (The generator of
  the nonce, TpmNetworkHandler.cpp:135-158, assigns with `==` and always reads
  `Dictionary[-1]`: fifty copies of one undefined character.)
* the iteration number in each message is only printed by its receiver.
* random weights, vectors and ids are choices over all of them.
* `MaxIterations` is a constant; the code computes L^4 * N * K = 18432.
* one session, one service on each side.  The services are registered before
  or never; how sessions and services of one process meet is `Server`.
* the key counter and the timing only produce output.  So does the terminal
  log, which is on by default (definitions.cpp:24), but for one thing: when its
  file cannot be opened the process exits (SingleTpmNetworkHandler.cpp:53-55).
  That end of both the process and all its sessions is not modelled; nor is
  that of a message longer than the buffer (peer.cpp:310-312), which no message
  reaches.
* a connection that is silent stays so.  TCP's retransmissions would in the end
  tell a side that has written; to leave that out only makes the model wait
  longer than the code.

The "no tpm found" branches of the handlers are not actions.  That they cannot
be reached is the invariant `Routed`: were one reachable, `Routed` would fail.

### TreeParityMachine, Wire and Training and the code

`TreeParityMachine` and `Wire` have no state: a loop of the code is a
recursive function there, with the loop's variables after `i` turns as its
value at `i` (`LocalField`, `Joined`, `ReadVector`, `GenKey`).  `Training`
gives them one: `w`, `x` and `h` are `W.Z`, `X.Z` and `H.Z`, and a step is
`UpdateWeight`, a new vector, and `ComputeTPMResult`, as the peers' handlers
call them.  It holds the properties that the other modules rely on when they
send vectors and keys as values: a vector read back is the vector written, and
the text of a key determines the weights.  The latter needs L <= 4 (the program
ships 4): shifted weights are then single digits.  `GenKey` is what `gen_key`
makes of that text; digits stand for their characters, whose sums stay below
256 just as well.

### Crypt and the code

`Crypt` starts where `SyncSession` ends: `AddKey` is a session's call of
`add_key`, and since both rings get the same keys in the same order, a key is
named by its place.  That much is taken from `SyncSession`; how far one ring is
ahead of the other is not, and `AddKey` lets either grow as it likes.  A *side*
is a service on its server.

| variable | code |
|---|---|
| `used` | per side, for every key of `keys_`, whether `uses` is above 0 (the count itself is only printed) |
| `calls` | the call of `crypt` each REST thread is in: its step, `mode`, the message, `number_of_keys` (`at`, counted from 1), the number of attempts (`tries`), and the size of `skipped_keys` (`skips`) |
| `msgs` | the messages encrypted so far: key, mode, and what became of them; `had`, the size of the receiver's ring when decryption began, and `begun`, how many messages had left when the encryption began, are history |

The functions take no lock, and so a call is a step for each time it looks at
the ring: `Encrypt` finds it not empty, `Scan` looks at one key, `Mark` counts
a use, `Decrypt` reads the size, `Look` looks at one key, and `Opens`,
`Throws`, `NextKeyMode1`, `NextKeyMode2` and `Retry` are the outcomes of one
attempt.  The base64 and JSON around them follow in the same step.

What is abstracted:

* the NodeApps carry an encrypted message to the other server's `/encrypt`
  with operation 1 (api.js:288-441).  Any order and any delay is possible; a
  message that is lost is one that is never decrypted.
* a key opens its own messages only.  With another key CBC padding is wrong,
  and Crypto++'s `StreamTransformationFilter` throws; that is external.  Once
  in about 256 times it happens to be valid, and the hash is wrong.  Both are
  outcomes of every such attempt.
* two calls that count the same key at once may lose an increment; the key
  counts as used all the same.
* services stay registered, and a ring that is reallocated while a call reads
  it stays readable.

### Server and the code

`Server` puts the actors of one process side by side: the REST threads, and
the peers, each with its handlers.  A peer is a *dialler*, which `/sync`
creates, or a *listener*, which `handle_accept` does.

| variable | code |
|---|---|
| `services` | the vector: per slot its name, the number of its registration, and whom the partner name and the keys in it were meant for |
| `peers` | the peers that are listed |
| `started`, `bears` | `started_`, `service_name_` |
| `call` | what each actor is in: the step, the service's name, the place found in `services`, the peer it starts or stops, what `stop_sync` has left of its copy of the list |
| `tickets` | what `/init` has answered, and whether the application has called `/exit` since |
| `session`, `count` | history: the registration a session is for; registrations so far |
| `overlap`, `reused`, `met` | history: see below |

`peers` is used under `read_lock`, and so what is done between two locks is a
step: `Stop` (the first to come finds `started_` and closes the socket) and
`Unlist` are two, and anybody may come in between.  `services` is used under
no lock, and so a function of `API_service_data_handler` is a step for each
time it looks at the vector: `new_service` is `NewService`, `GenName`,
`Assign` and `Answer`; `update_partner` is `UpdatePartner` and `WritePartner`;
`add_key` is `OnKey` and `AddKey`; `remove_service` is `RemoveService` and
`Erase`.  `services.back().name = gen_name(...)` leaves to the compiler which
side is evaluated first, and `Assign` takes either.

Registrations are numbered, which the code does not do; the numbers let a
property say *whose* service, key or session it is, where the code only has
names.

What is abstracted:

* what a race does to the memory of the vector.  Two actors *inside*
  `services` at once, one of them going to use what it has found, is noted in
  `overlap`; the model goes on as if the vector stayed whole.  Properties that
  need it to have stayed whole say so.  `crypt`'s looks at the vector do not
  count as being inside: it has a module of its own.
* a session is cut down to what it does to peers and services: its messages
  are `OnInit`, one that finds a key (`OnKey`) or one that does not
  (`OnMessage`).
* the partner names the service that the application named to it: the name of
  the first message comes from a ticket.  A registration has one session: the
  comment of `/sync` has one application call it (API_service.cpp:279).
* `gen_name` may give out a name whose service is gone while somebody still
  goes by it.  `reused` notes it.  Nothing in the code prevents that, or an
  `overlap`; `OwnService` says that these two are the only ways for one session
  to get at another's service, and nothing about what follows them.
* two `/init` in `new_service` at once are noted in `met`.  That is the only
  way for two services to get the same name (`UniqueNames`), whatever else runs
  between the steps of an `/init`: this one holds in an `overlap` too, as far
  as the vector stays whole.
* an application names its own service in `/exit`.  The name "" would match
  every accepted peer that has none yet; NodeApp never sends it.
* `update_peers_changed` sets a flag that nothing reads; requests that lack a
  field change nothing.
* `stop_sync` looks at its copy in any order.

### Mistakes

Operators whose comment begins with "Mistaken:" are plausible mistakes.  No
action uses them; substituting one for its neighbour shows that a property
notices.

## Runs

| run | constants | checks |
|---|---|---|
| `session_learning` | K=2, N=1, L=1, limit 2, ids {0,1}, one key, no faults | `TypeOK`, `OldVectorStillLoaded`, `SyncedIsNoticed`, `Routed` |
| `session_faults` | K=N=1, L=2, limit 2, one id, two keys, faults | `OneTurn`, `IterationsInStep`, `KeysAgree`, `RingsAgree`, `IInv`, `ImplementsKeyExchange` |
| `session_live` | K=N=L=1, limit 2, one id, one key, faults, fair | `TurnPasses`, `KeyCatchesUp`, `StopPropagates` |
| `session_status` | as `session_live` | `StatusShowsFailure` (violated) |
| `crypt_mixed` | window 2, two threads, modes 1 and 2, 3 keys, 2 messages, fair | `TypeOK`, `Mode1Honest`, `Mode2Honest`, `TwiceOnlyTogether`, `NoKeyWasted`, `CryptInvariant`, `CallsShrink`, `CallsEnd` |
| `crypt_race` | two threads, mode 2, 1 key, 2 messages | `OncePerSide` (violated) |
| `crypt_recent` | one thread, mode 1, 2 keys, 1 message | `RecentKeyOpens` (violated) |
| `crypt_skipped` | one thread, mode 2, 2 keys, 2 messages | `SkippedKeysTried` (violated) |
| `server` | a REST thread, a dialler, a listener, two names, 2 registrations, fair | `TypeOK`, `ErasesItself`, `OwnService`, `StopForgets`, `ServerInvariant`, `ExitStops`, `RequestsEnd`, `SessionsEnd`, `RequestsShrink`, `PeersWindDown` |
| `server_names` | two REST threads, a listener, two names, 2 registrations | `UniqueNames`, `ServerInvariant` |
| `server_conflict` | as `server`, with two REST threads | `NoConflicts` (violated) |
| `tpm_training` | K=3, N=2, L=1 | `WeightsBounded`, `OutputIsProduct`, `UpdateIsStable`, `WireRoundTrip`, `KeyIdentifiesWeights`, `GenKeyDropsTwo` |

*Bounds.*  Two hidden units are the least for which the machine's output can
differ from a unit's, so that an update moves some units and not others.  One
weight in -2..2 is enough for two machines to differ, to agree and still
differ, to be clamped and to become equal (with -1..1 machines that agree once
are equal, and the comparison of keys would never fail).  A limit of two iterations makes give-up, key found and
give-up again all happen within one session; two keys make a key follow a key.
Ids {0,1} collide with each other and with the 0 that an unlinked machine has
for a partner.  `MaxKeys` only stops a side from reading more messages; it
never stops a connection from closing.  `Faults` says whether applications
leave and connections break, at any step; without them a session with larger
machines fits.  A session really stops, so the session runs do not look for
deadlock; that the two peers never wait for each other is `OneTurn` and
`TurnPasses`.

In `Training` three hidden units of two inputs give local fields of zero, units
that agree with the machine beside units that do not, and a key text of six
characters, of which `gen_key` can make two bytes with its loop starting over.
The proofs cover the sizes the program ships.

In `Crypt` the window of ten attempts is two, so that with three keys a key
can fall out of it and a ring be shorter than it.  Two threads are all that a
server has (APIServer.cpp:22).  Two messages cross, or meet in one ring.
`crypt_mixed` checks liveness and so does without symmetry; `crypt_race` uses
it, since threads are interchangeable.  The two that show a message that is
not opened keep the rings within one key of each other (`SessionRings`), so
that their counterexamples are ones a session leads to.  Once the messages are
used up nothing is left to do, so these runs do not look for deadlock; that
calls end is `CallsEnd`.

In `Server` three actors are enough for each pair that meets in the code: a
REST thread and either kind of peer, and the two peers.  Applications ask for
one name, and `gen_name` can make one other of it, so that two registrations
want the same name, and a name can be given out again.  A third
registration would need a name that the instance does not have.  `server`
checks liveness, so it stays small.  `server_names` has the second REST thread
instead of the dialler: an `/init` of one thread meets an `/exit`, an
`/init_config` or another `/init` of the other, and a listener that is stopped
with or without a name.  `server_conflict` shows what two `/init` do to each
other.  The proofs need no bound.

*Fairness.*  In `Crypt`: weak fairness of `Continue(s, t)`, the thread that
runs a call goes on running it.  In `Server`: the same of each REST thread in a
request and of each peer in a handler or a call of `stop`; an attempt to
connect ends; and reading from a socket that `stop` has closed ends with an
error.  Nobody has to send anything or to call anything.  In `SyncSession`: weak fairness of `PeerStep(s)` on each side: the four threads in
`io_service::run` (main.cpp:67-74) run every completion handler that becomes
ready, a connect attempt ends in success or an error, and TCP delivers what was
sent while the connection is up.  Nothing is assumed of applications, faults,
or of the learning: nobody promises that two machines ever become equal, so no
property says so.

*Liveness.*  `StopPropagates` speaks of connections that close.  A silent one
is exempt from all three properties; the code has no timeout to notice it.
`RequestsEnd` and `SessionsEnd` say that neither `read_lock` nor a peer that is
being stopped by several at once keeps anybody for ever.  `CallsShrink`,
`RequestsShrink` and `PeersWindDown` say the same without fairness: a bound
that every step of a call, a request or a stopped peer lowers.

*Divergences.*  Where the code does not do what the repository says of it, a
run shows it:

* `session_status`: `/sync` ignores the result of `begin_sync`
  (API_service.cpp:353).  When the address does not parse, the exception is
  swallowed after the peer has been listed, and the service stays registered,
  although the comment of `/status` (API_service.cpp:372-375) has the client
  detect a wrong address by the service's absence.
* `crypt_race`: two threads find the same key unused before either counts it
  (API_service_data_handler.cpp:106-108), although mode 2 is commented
  "security - different key each time" (:93).  `TwiceOnlyTogether` shows, and
  `TwiceIsTogether` proves, that it takes two encryptions under way at once.
* `crypt_recent`: "try 10 times to decrypt" (:58) ends at the first wrong key,
  because the cipher's exception is not caught.
* `crypt_skipped`: "check for skipped keys" (:232) tries `keys_.at(i)` instead
  of `keys_.at(skipped_keys[i])`.
* `server_conflict`: a name that two applications ask for at once goes to both,
  because `gen_name` (API_service_data_handler.cpp:19) looks at the services
  before the other `/init` has written the name it got; the name is generated
  there "to avoid conflicts" (API_service.cpp:126).

The model also has behaviours that no run singles out.  Messages that cross
may be encrypted with one key in mode 2 (send_messages.py:10 says "only use 1
key once"): nothing in the protocol tells one side which keys the other has
taken.  A message may overtake the reset that announces its key and find the
ring empty ("shouldn't happen", API_service_data_handler.cpp:152).  And after
its last attempt mode 1 answers with whatever that attempt gave, where :58 says
"then give up".  In both modes a key may count as used that was not: mode 1
calls `back()` twice (:84-85).

What mode 1 does promise in spite of these is `Mode1Honest`: it fails only for
a key it did not have, and a wrong text is possible only for such a key or one
beyond the window; it allows the wrong text itself.  Of mode 2 `Mode2Honest`
says the same of a failure, which keys used on this side may cause as well.

Likewise outside `Crypt`: two characters of a key's text never reach the
cipher's key (`GenKeyDropsTwo`; of 72 characters those at 32 and 39).  `/exit`
before `/sync` leaves the service registered, since removing it is commented
out (definitions.cpp:61).  `/init_config` answers with status 1 though the
service may have gone before the name is written (API_service.cpp:254).

## Proofs

For all K, N, L, iteration limits, id sets and key bounds, from
`TPMAssumption` and `SessionAssumption` (sizes are positive, ids are naturals):

* `SessionInvariant`: `Spec => []IInv`.  The properties are not inductive by
  themselves.  That `on_reset` may save a key depends on the weights being what
  the partner compared, that on the update being the one the partner made,
  that on the vector still being loaded, and so on back to the linking
  messages.  `IInv` therefore has, for every type of message, what its sender
  (`SenderIs`) and its receiver (`ReceiverIs`) look like while it is
  outstanding and how the two logs stand (`LogsAre`); `OneTurn` makes that
  message the only one; `Control` ties operations to the connection;
  `LogsClose` and `Rings` remain once nothing is outstanding.  The proof has a
  lemma for each action.  Handlers share `HandlerStep`: it is enough that what
  is sent fits the machine left behind, the machine at the other end and the
  logs.
* `TypeCorrect`, `TakingTurns`, `MessagesRouted`, `OldVectorLoaded`,
  `NothingMissed`, `CountersInStep`, `SameKeys`, `SameRings`: the safety
  properties of the runs, each from `IInv`.
* `SessionRefinesExchange`: the session implements `KeyExchange`.  A key found
  is `Lead`, a key saved by `on_reset` is `Follow`, the rest stutters.
* `ExchangeAgrees`: the abstract exchange keeps any number of parties within
  one key of each other.

For all K, N and L, from `TPMAssumption`:

* `WeightsStayInRange`: an update keeps every weight in -L..L.
* `UpdateKeepsOutputs`: an update leaves every hidden output as it was.  A unit
  that moves, moves each term of its local field in the direction of its output
  or leaves it where the clamp does (`TermMoves`); so the field moves that way,
  cell by cell (`FieldsCompare`), and keeps its sign, zero counting as negative.
  The other units keep their weights.
* `ProductIsParity`: the product that the code accumulates is the parity that
  `TPMOutput` computes.  Each unit with -1 adds one to a cardinality and turns
  the sign (`ParityStep`).
* `VectorSurvivesWire`: reading the text of a vector is, up to the end of each
  cell, the cells up to there: `TextsArePrefixes` says that the text of some
  cells begins the text of all, `ReadSteps` what one character does.
* `KeyText`: for L <= 4 the text of a key is the shifted weights, one character
  each; `KeysCompareAsWeights`: so equal keys mean equal weights, which is how
  `SyncSession` compares them.
* `KeyBytes`: the bytes of the cipher's key after each turn of `gen_key`'s loop
  (`MixedStep`, `GenKeyBytes`), and which of them a character reaches
  (`ByteChanges`): every character but the one at `max` and the one that is
  added to it, where the text is long enough for the loop to start over once.
* `TrainingInvariant`: `Spec => []Trained`; from it and the above
  `TrainingStaysInRange`, `OutputIsAlwaysProduct`, `UpdatesAreStable`,
  `VectorsSurviveWire`, `KeysIdentifyWeights` and `KeyBytesDropTwo`: every
  property of the run `tpm_training`, for machines of every size.

What a loop computes is proved by induction over its turns.  The library's
induction theorems take the formula as an operator parameter, which no
installed prover instantiates; `NatSetInduction` and `UptoInduction` say the
same of a *set* of numbers (a counterexample would have a least one, by
`WFMin`), and `Iterates` says of any recursive function on `0 .. n` that it has
the value at 0 and takes the steps that its definition gives it.

For any number of attempts, threads, keys and messages, from
`CryptAssumption` (at least one attempt, finitely many threads):

* `RingsInvariant`: `Spec => []SearchInvariant`.  `Mode1Honest` depends on what
  a call has ruled out: in mode 1 it is `tries` below the size the ring had,
  and its key is none of those above (`Searched`), whatever arrives meanwhile.
  That needs each decryption to own its message (`Assigned`, `Apart`).  That
  places stay in the ring needs the sum of place and skipped keys to stay
  below its size (`Places`).  The proof restates the invariant per call and
  per message (`Parts`); `CallStep` reduces an action to the one call and the
  one message it changes.
* `CallsInvariant`: `Spec => []CryptInvariant`, on top of it.  `Mode2Honest`
  needs that a key passed over by the first pass was either tried or already
  used (`SearchedMode2`), and that a use once counted stays counted, so the
  keys that other threads use meanwhile only weaken the claim.
  `TwiceOnlyTogether` needs that the keys of mode 2's messages count as used
  (`KeysSpent`), so that whoever finds its key unused is the first but for
  messages that left after it had begun (`FirstWhenBegun`).
* `StaysInRing`, `Mode1IsHonest`, `Mode2IsHonest`, `TwiceIsTogether`: the
  safety properties, each from those invariants.
* `NoKeyIsWasted`: a key counts as used only for a message, but for the second
  look of mode 1; a step accounts for the one key whose use it counts.
* `CallsAreBounded`: each step of a call lowers `Work`, which is between 0 and
  3 * `MaxAttempts` + 2 (`WorkType`), and the steps of others leave it.  A step
  down the ring uses up an attempt (`DownShrinks`); the second pass of mode 2
  goes through the keys that the first has skipped (`RetriesShrink`), and there
  are no more of them than attempts.

For any number of REST threads, peers, names and registrations, from
`ServerAssumption` (the sets are disjoint, `gen_name` makes names of names):

* `ServerInvariantHolds`: `Spec => []ServerInvariant`, in four layers, each
  proved on top of the one before, and a fifth beside the last two.
  1. `Calls`: where calls and peers are.  At most one call has found a peer
     started, and it alone takes the peer off the list; a peer that is stopped
     and listed has such a call; the peers that `stop_sync` has to stop are
     ahead of it, or stopped (`DueAhead`).
  2. `Registrations`: numbers are not given twice, a registration has one
     session, and who has a registration's name has the right one.
  3. `Undisturbed`: as long as `overlap` is false, only one actor is inside, so
     what it has found by name or place is still there (`Found`); names are
     unique; a stopped peer's service is gone once all who stop it are through
     (`Forgotten`).
  4. `Apart`: as long as, besides, `reused` is false, whoever goes by a name
     means the same registration by it: applications, calls, peers, and the
     slot itself (`Means`, `OneMeaning`).  That is why a removal *by name*
     takes the right service, and why what has not begun to stop keeps its
     service (`Kept`).  Only `GenName` introduces a name, and it is fresh.

  5. `NamesApart`: as long as `met` is false, only one `/init` has a slot to
     name, and the name it has chosen stays free until it is written: nobody
     else writes a name, and what others erase or append has none or takes one
     away.  It needs neither the third nor the fourth layer, and so holds in
     any other race.

  The third and the fourth layer are proved together, with a lemma per action;
  `AloneStep`, `KeptStep` and `MeansKept` say once what a step may do.
* `RequestsAreBounded`: each step of a request lowers `RequestWork`.  `/exit`
  takes five steps for each peer of its copy, and the copy only shrinks
  (`RequestMoves`, `StopMoves`); it is finite, because at any time only
  finitely many peers have been listed (`CopiesStayFinite`), so the bound is a
  number even where the set of peers has no end.
* `StoppedPeersWindDown`: a stopped peer is not started again, since only a
  peer that has done nothing yet is (`OnceStopped`); its handlers write nothing
  (`StoppedMoves`), and what is left of its own call of `stop` is at most four
  steps.
* `ServerTypeCorrect`, `StopErasesItself`, the action property `ExitStopsAll`
  and the two bounds above follow from the first two layers, so they hold
  however the threads run; `NamesAreUnique` from the fifth, and
  `StoppedIsForgotten` from the third.

Every invariant, action property and refinement that a passing run checks is
also proved; `OwnService` has no theorem of its own, being what the fourth layer
says.  Only model-checked are the six liveness properties (`TurnPasses`,
`KeyCatchesUp`, `StopPropagates`, `CallsEnd`, `RequestsEnd`, `SessionsEnd`):
reasoning from fairness needs ENABLED, which the prover does not support.  Of
the last three, the half that needs no fairness is proved: by `CallsAreBounded`,
`RequestsAreBounded` and `StoppedPeersWindDown` only so many steps are left,
and no other actor adds to them.  What TLC adds is that the next one can always
be taken.

## Not modelled

* The NodeApp: an example of a client.  What it may ask of a server, and what it
  carries from one to the other, is in `Server` and `Crypt`; its routes and
  their shared variables are not.
* The memory of `services` and of the key rings under a race, and the global
  `rand`.
* Two sessions for one registration: the comment of `/sync` excludes it
  (API_service.cpp:279).
* Short writes: `async_write_some` may send less than it is given
  (peer.cpp:315); messages are below 1 KiB.
* The text of messages other than vectors and keys, JSON, AES, SHA-256,
  base64, terminals, scripts, build files.

## Plan

1. *Done.* `TreeParityMachine`, `KeyExchange`, `SyncSession`, its invariant, its
   proofs and the refinement.
2. *Done.* `Crypt`, its invariant and its proofs.
3. *Done.* The registry from several threads: names, `gen_name`, removal and
   registration, places kept across an erase, the late `on_connect` error
   (`Server`).
4. *Done.* The list of peers, `stop` split at its locks, `stop_sync` against
   `start`, and the sessions of one process with its services (`Server`).
5. *Done.* What the loops over cells and texts compute, for machines of every
   size (`Training`).
6. Left out: the NodeApp's routes (above).

# DIST_WORKSHOPS: TLA+ models, checks and proofs

The repository holds the exercises of a course on distributed systems: seven
workshops, each a small system of its own. This directory models those whose
behaviour is decided by interleavings, messages, time-outs and failures, checks
them with TLC on small instances, and proves the central properties with TLAPS
for all values of the parameters.

## 1. Inventory

| Part | State | Operations | What is hard | What makes it correct |
|---|---|---|---|---|
| **Peer nodes** `workshop4/part2` | per node: drift, offset, stop event, server socket, local variables of a cycle | drift, read clock, ask each peer (REQ, time-out), average, adjust; server thread answers (REP); launcher starts, joins, stops | two threads per node, answers computed from clocks that are being adjusted, silent peers, late answers, shutdown order | averaging never leaves the range of the clocks; one correction is bounded; everybody ends; servers outlive the cycles |
| **Central server** `workshop4/Part4` `central_server.py` | holder, queue; state and turns left of each process | request, release, in turns | two records of who holds the resource; grants in the middle of a round | mutual exclusion, coherence, bounded waiting |
| **Token ring** `workshop4/Part4` `token_ring.py` | position of the token | use or pass on | one token, never lost | mutual exclusion, the token comes round |
| **Vector clocks** `workshop4/Part3` | clock, inbox and history of each process | local event, send, receive | order of merge and tick, copies of clocks | clock comparison equals causality |
| **UTC server** `workshop4/part1` | REP socket | answer every request; clients with a time-out | a REP socket that misses an answer is stuck | every request is answered or times out |
| **TCP servers** `workshop1` (Python and C) | backlog, connections, handler threads | accept, recv, answer, close; connect, send, recv, retry | blocking recv, head-of-line blocking, thread per client, interrupts, vanished clients | the right answer to the right client, no connection leaked, nobody starved without cause |
| **Chord** `workshop3/chord.py` | sorted node list | successor, finger table, lookup | wrap-around of intervals, choice of the finger | a lookup ends at the successor, each hop halving the way |
| **Location service** `workshop3/hls_*.py` | tree, entities, pointers | register, unregister, move, lookup | stale pointers after moves | pointers lead to entities and only there; a lookup ends, finds what there is and takes no detour |
| **Forwarding pointers** `workshop3/forwarding*.py` | pointer chain | resolve, shortcut, delete | broken chains | resolution ends at an address |
| **Directory and publish/subscribe** `workshop3_part2`, `workshop2/Part4` | LDAP entries, subscriptions | register (add, delete, add), resolve, publish | registration in several steps, stale entries, late subscribers | a registered name is not lost; a sole provider is listed where it is; who connects and subscribes hears |
| **Pipeline** `workshop2/Part6` | queues of the broker | push, proxy, pull | workers that die | no job is done twice; which jobs can be lost |
| **Ingestion** `workshop7` | sequence number per partition, message ids of the mock | webhook routes: parse, validate, ingest; messages; clients, demos and benchmark send and judge | time-outs that say nothing, requests handled late, repeated runs, restarts | gap-free numbers; a run ingests a message once; rejected messages use no number; verdicts do not depend on what runs next to a program |
| **Database lab** `workshop5` | rows, locks, replicas, shards | SQL sessions | lock waits, deadlock, replica lag | one deadlock victim; reads after GTID wait are fresh |

The parts are independent programs: the workshops do not call each other. Inside
a part the interactions are messages over sockets (peer nodes, TCP servers, UTC
server, publish/subscribe, pipeline, ingestion), shared variables of threads
(the offset, drift and stop event of a peer node; `connectionSocket` of the
threaded server) or calls in one timeline (the simulations).

`PROJECT.json` lists every part with its status, and every hazard at its line
with the properties that would catch it.

## 2. Modules

| Module | What it is |
|---|---|
| `PeerNode` | the peer nodes and their launcher |
| `MCPeerNode` | instances of it for TLC |
| `PeerNodeProofs` | proofs about it |
| `Mutex` | abstract: what a mutual exclusion promises |
| `CentralServer` | the central server and its processes |
| `CentralServerProofs` | proofs, and that it implements `Mutex` |
| `VectorClockSim`, `VectorClockSimProofs` | vector clocks and their simulation; proofs |
| `SocketServers`, `SocketServersProofs` | the three TCP servers and their clients, both languages; proofs |
| `UtcServer`, `UtcServerProofs` | the UTC server, the client program with its threads, other clients; proofs |
| `Locator` | abstract: what a location service promises |
| `LocationService`, `MCLocationService` | the hierarchical location service; the tree of the program |
| `LocationServiceProofs` | proofs for any tree, and that it implements `Locator` |
| `Chord`, `MCChord` | lookup on a Chord ring; the rings looked at |
| `Forwarding` | forwarding pointers |
| `Directory`, `MCDirectory` | publishers and subscribers, with and without the LDAP directory; the services offered |
| `NamingProofs` | proofs about `Directory` and about `Chord`, which share no state |
| `Ingestion`, `MCIngestion`, `IngestionProofs` | the ingestion service, the mock and the five programs that use them; which run together; proofs |

Definitions whose comment begins with `MISTAKE` state a plausible mistake in the
piece of code modelled right after them. They are used nowhere; replacing the
correct piece by the mistake breaks the property the piece is there for.

### PeerNode

`drift`, `offset` and `stop` are `_drift`, `_offset` and `_stop` of each node;
`cycle`, `own`, `total`, `count`, `idx`, `t0` are the local variables of `run()`
and `ask_peer()` (`total` and `count` stand for the list of samples). `pc` and
`srv` are the places of the main and the server thread, `launch` that of the
launcher, or `"cli"` when every node is a process of its own. `requests` and
`replies` are what ZMQ has under way. A request names the socket it was sent on
by its client, cycle and position, because `ask_peer` opens one for each call;
`LostWithSocket` and `AfterClose` are what closing it throws away.

One action stands for each stretch of a thread between two points where another
thread or a message can interfere: `BeginCycle` (drift and `own_time`),
`SendRequest`, `ReceiveReply`, `Timeout`, `Adjust`, `Wake`, `Finish`,
`Interrupt`; `Bind`, `BindFails`, `Serve`, `ServerExits`; and the steps of the
launcher. The launcher starts one thread after the other; an interrupt between two
starts leaves nodes that never run, while a started thread may begin `run()` only
later. A request can be answered at any moment after it was sent, or never.

Time is an integer counted in the resolution of the timestamps. `Elapse` lets it
pass, and `Timeout` moves it to the moment at which `recv` gives up. Division is
rounded down, where the code uses floats; the bounds are integers, so rounding
down keeps an average inside them. `drifted` and `late` are history variables:
the injected drift, and the time by which corrections may be ahead because
`own_time` is read first.

A list of peers is any list of nodes, with repetitions and the node itself: the
code compares endpoints as text, and knows only some spellings of its own host.

Left out: the syntax of messages and options (the model has the values that
pass; a timestamp `nan`, which no node sends, would pass too), the upper limits of parameters, ZMQ errors inside a running server loop.

### CentralServer, Mutex

`holder` and `queue` are the server's, `state` and `hold_left` those of `main()`.
`Next` has one action per branch of the turn loop, calls of `request()` and
`release()` included. `place` and `waited` are history variables. `Mutex` says
that at most one process is in its critical section, that only a process that
asked gets in, and that a released resource goes to a waiting process if there
is one; the refinement mapping takes the processes' `state`, not the server's
`holder`, as what really happens.

### VectorClockSim

`clocks`, `inboxes`, `turn_count`, `history` are the lists of `main()`. The
history variable `past` carries, beside every clock, the set of events that really
precede; it is computed without looking at clocks. The model needs two
processes at least: with one, `random.choice` of no targets raises an exception.

### SocketServers

`kind` chooses the pair of programs, `lang` the port; they differ in what an
interrupt does to running handlers and in what a client does after a reset.
`backlog`, `main`, `socket`, `stage` and `data` are the server (`stage[k]` is
where the code is with connection `k`, in the accept loop or in its handler
thread), `pc`, `conn`, `sent`, `todo`, `got` the clients. The bytes on a
connection are the sequence of sentences they encode and `recv` takes all of
them, so sentences that were not kept apart would arrive run together.

TCP is external: connect succeeds while there is room in the backlog (one more
than `listen` asks for, as Linux does) and may fail from the requested number on
(as Windows does); a closed end shows as the end of the stream or as a reset.
Clients may die while connected, the server may be interrupted once. Left out:
sentences longer than the buffer of 1024 bytes, failures while the server socket
is set up.

### UtcServer

`srv` is where the server is and `serving` the peer its REP socket owes an
answer; a REP socket receives only when that is nobody, so what a rejection
leaves in `serving` (`AfterReject`) decides whether anybody is served again.
`main` is the main thread of the client program, `pc` and `outcome` its threads,
each with a socket of its own; strangers are other programs on the same port, which
may send anything and have no time-out. `pending` and `answers` are what ZeroMQ
has under way; a closed socket loses its part of it. Texts are three: one that is
valid only after `upper()`, a valid one, and one that stands for everything
`validate_request` rejects.

### LocationService, Locator, Chord, Forwarding

All three are single-threaded programs whose hazards are long sequences of
operations. `LocationService` has an action for each turn of the loops of
`register`, `unregister` and `lookup`; the entities may start anywhere or nowhere
and be moved and looked up in any order. The tree is a constant: `parent_of` is
computed from it as `build_parents` does. `Locator` knows of no tree: an entity is in
a domain or nowhere, a move changes that in one step, a lookup is asked and answered.
The refinement mapping takes an entity to be in its new domain from the moment
`move_entity` pops it from the old one, and a lookup to be answered when its loop
ends. `Chord` takes one lookup at a time on
any ring; `next_node` is the inner loop over the reversed finger table, a hop one
turn of the outer loop. `Forwarding` resolves, shortens and deletes in any order,
where the program does each once.

### Directory

A publisher goes through `add_s`, `delete_s`, `add_s` and `bind` one call at a
time (`pub` says which is next), then publishes; it may be started again at
another address, and die anywhere. `known` and `orphaned` are history: the names
ever registered, and those deleted by a publisher that died before it added them
again. A subscriber resolves topic by topic, connects and receives.
`ldap = FALSE` are the programs of workshop 2: publishers bind at once and register
nothing, and a subscriber is given any list of addresses, whatever its topics.

`Addresses` are those of the LAN, `Loopback` gives the loopback address with the same
port, which is equal for hosts that use one port. `bound` says which of the two a
publisher listens at, or both for `0.0.0.0`, and the one it registers is among
them. A connection through the loopback address ends on the subscriber's own host:
`Reaches` needs the pair in `Near`.

slapd and ZeroMQ are external: an LDAP call is atomic; a connection is
made while somebody listens at the address (also later, also again) and drops
messages when `HWM` are queued; a topic is compared with the beginning of a message.

### Ingestion

Each program is a sequence of exchanges (`Script`): where it sends, what, whether
it validates first, and which outcome it expects. `requests` are those the
services may still handle: a time-out leaves them there or loses them. A handler
is one action, because it does not await anything after the body. The
schemas are abstracted to whether a message is valid; a response is accepted,
rejected, the broken one of the fault route, or something else. `ingested` is
history: what was given which number, in which life of the service. The demos try
four bad messages each, for which one stands here.

## 3. Runs

| Run | Instance | Checks |
|---|---|---|
| `peer_safety` | 2 nodes under the launcher, 2 cycles, initial skews at both ends of the spread, drift in the second cycle, time-out 2 | `TypeOK`, `Envelope`, `BoundedCorrection` |
| `peer_liveness` | 2 nodes as processes and under the launcher, bind failures, interrupts, also of a launcher that has started one node | `ServersOutliveCycles`, `Termination` |
| `peer_stale` | 3 synchronised nodes, no drift | `SilentPeerIgnored` is violated, see below |
| `central_server` | 3 processes, 8 rounds, uses of 1 to 3 turns | `TypeOK`, `Coherent`, `BoundedWait`, `ImplementsMutex` |
| `vector_clocks` | 3 processes, 6 rounds | `TypeOK`, `CausalityExact`, `PromisedRelations` |
| `socket_servers` | 3 kinds, 2 languages, 2 clients, 2 connections, 3 sentences | `TypeOK`, `RightAnswer`, `OnlyInterruptsCut`, `HandlersFinish`, `StarvedOnlyBySilence`, `ConnectionsReleased` |
| `utc_server` | 2 client threads, 2 strangers, ports given as none, another and out of range, counts right and too large | `TypeOK`, `OwnRequestAccepted`, `EveryRequestAnswered`, `ClientProgramEnds` |
| `location_service` | the tree of the program (7 domains), 2 entities anywhere or nowhere, any moves and lookups | `TypeOK`, `PointersExact`, `LookupComplete`, `NoDetour`, `ImplementsLocator`, `LookupEnds` |
| `chord` | every ring of 2, 4 and 8 positions, the ring of the program, keys up to twice around, every first node | `RingTypeOK`, `EndsAtOwner`, `HopsHalveTheWay` |
| `directory` | 2 publishers of one name or of two of which one begins the other, 2 starts each, 2 hosts with one port, 1 subscriber on one of them to any topics, queue of 1 | `TypeOK`, `SoleProviderListed`, `MissingOnlyMidway`, `Heard` |
| `ingestion` | three pairs of programs, 2 messages per client, 1 round of the benchmark, 2 partitions, a second run, a restart | `TypeOK`, `NumbersExact`, `IngestedOnce`, `Verdicts`, `ProgramsEnd` |
| `forwarding` | the chain of the program | `BrokenPointerNoticed` is violated, see below |

Why the bounds are enough:

- `peer_safety`: skews of -3 and 3 with `MaxSkew` 2 give pairs of clocks that
  believe each other and pairs that do not; the second cycle uses clocks that the
  first has adjusted, after drift; with a time-out of 2 an answer can be late,
  and `MaxNow` 1 lets answers take time. Two nodes suffice for corrections
  computed from each other; they ask each other, so exchanging them changes
  nothing and the run uses that symmetry. The theorems cover every other
  instance.
- `peer_liveness` has no skew: values do not influence who waits for whom.
- `central_server`: three processes give a holder and two in the queue; with
  eight rounds every process can wait through two full uses of three turns.
- `vector_clocks`: three processes are the least in which knowledge can arrive
  through a third party and two messages can wait in one inbox.
- `socket_servers`: two clients are enough for one to be held up by the other,
  for answers to be mixed up, and for the backlog of one to be full; the second
  connection lets a client return before the server has closed the first. A
  client that blocks in connect because the backlog is full beyond the extra
  place does not occur with two.

- `utc_server`: two threads are what joining in order and closing in any order
  needs; two strangers let a request of one wait behind the other's. The arguments
  are one per branch of the validators. `MaxClients` is 2 where the code has 50.
- `location_service`: the tree has a leaf and an inner domain at each level, so that
  moves go up, down, sideways and to the place an entity is at; an entity without
  a domain is the failing lookup. Domains off the tree are not moved to. Entities
  do not share pointers; two show that an operation leaves the other alone.
- `chord`: all sets of nodes include single nodes, neighbours and full rings.
  `MaxLaps` 2 has keys on, just before and beyond the size of the ring. The count
  of hops stops at `M + 2`, one more than `RingTypeOK` allows.
- `directory`: a race for one name has two publishers; a second start gives stale
  entries and reconnections; a queue of one is full after one message. With one port
the loopback addresses of the hosts are equal, so one read from the directory may
lead to another publisher, or nowhere. `HWM` is
  1000 in ZeroMQ. A third publisher would only repeat what a second can do, as
  each LDAP call depends on the listed entry and not on who listed it.
- `ingestion`: the pairs are those whose requests meet, at one route or at one
  service by two routes; a benchmark and a demo meet only through numbers, as
  the other pairs do. Two messages, one inside and one outside the 24 hours; two
  partitions, with both customers in one or in two. One repeated run and one
  restart each give a request that is handled in a later run or not at all.

Deadlock checking is off where the programs end by themselves: all of them do.

**Fairness.** `FairSpec` of `PeerNode` has weak fairness for the main thread, the
server thread of each node and the launcher: they are operating system threads,
and every wait in them has a time-out. Nothing makes a user press Ctrl+C, or time
pass between steps. `SocketServers` has weak fairness for the programs' own
steps; nothing is assumed of prompts waiting for a user, interrupts, deaths or
resets. `UtcServer`: weak fairness for server, threads and main thread, whose waits
end by themselves or by a time-out, and strong fairness for receiving from
each peer, because ZeroMQ takes requests from its peers in turn (a REP socket
fair-queues). `LocationService`: a program that has begun an operation
goes on. `Directory`: weak fairness for the programs' own steps and for ZeroMQ's
connecting and delivering; nobody need start, stop or die. `Ingestion`: weak
fairness for the services and for each program at work; a request may
still be lost.

**The violated runs.** `peer_stale`: `run()` reads `own_time` (`peer_node.py:319`) before it asks
the peers in turn. A peer that does not answer costs 1500 ms, and the answers
that follow are that much newer than `own_time`; their difference is taken for
an error of the clock. The message says that the peer is "ignored this cycle"
(`peer_node.py:281`), but its silence moves the clock forward. `Envelope` holds
because it allows for that time (`late`); `SilentPeerIgnored` does not.

`forwarding`: `resolve()` follows pointers `while location in locations`
(`forwarding_rename.py:10`), so a chain that leads to a deleted node ends there and
its name is returned as the final address. The handler for the KeyError of a
"Broken pointer, missing node" (`forwarding_rename.py:42`) is never reached.

**Seen while modelling, as the properties state them.** A lookup does not find what
is stored at the top of the tree, or looked for from there, and passes an entity
stored above its first domain (`LookupComplete` and `NoDetour` name these cases).
A publisher that dies between `delete_s` and `add_s` takes the name of the others
with it (`orphaned`). A program of workshop 7 that is run again after a time-out
has its messages ingested a second time: `IngestedOnce` holds per run, since
nothing compares message ids.

## 4. Proofs

| Module | Theorem | For every value of the constants |
|---|---|---|
| `PeerNodeProofs` | `TypeCorrect` | `Spec => []TypeOK` |
| | `ClocksStayInEnvelope` | `Spec => []Envelope` |
| | `CorrectionsAreBounded` | `Spec => BoundedCorrection` |
| | `NoServerClosesEarly` | `Spec => []ServersOutliveCycles` |
| `CentralServerProofs` | `TypeCorrect` | `Spec => []TypeOK` |
| | `AlwaysCoherent` | `Spec => []Coherent` |
| | `NoStarvation` | `Spec => []BoundedWait` |
| | `Implementation` | `Spec => ImplementsMutex` |
| `VectorClockSimProofs` | `TypeCorrect` | `Spec => []TypeOK` |
| | `ClocksTellCausality` | `Spec => []CausalityExact` |
| | `SummaryHasWhatItPromises` | `Spec => []PromisedRelations` |
| `SocketServersProofs` | `TypeCorrect` | `Spec => []TypeOK` |
| | `AnswersAreRight` | `Spec => []RightAnswer` |
| | `OnlyInterruptsCutOff` | `Spec => []OnlyInterruptsCut` |
| | `HandlersAnswer` | `Spec => []HandlersFinish` |
| `UtcServerProofs` | `TypeCorrect` | `Spec => []TypeOK` |
| | `OwnRequestAlwaysAccepted` | `Spec => []OwnRequestAccepted` |
| `LocationServiceProofs` | `TypeCorrect` | `Spec => []TypeOK` |
| | `PointersAlwaysExact` | `Spec => []PointersExact` |
| | `LookupsComplete` | `Spec => []LookupComplete` |
| | `LookupsMakeNoDetour` | `Spec => NoDetour` |
| | `Implementation` | `Spec => ImplementsLocator` |
| `NamingProofs` | `TypeCorrect` | `Spec => []TypeOK` |
| | `SoleProviderAlwaysListed` | `Spec => []SoleProviderListed` |
| | `NamesSurviveRaces` | `Spec => []MissingOnlyMidway` |
| | `RingTypeCorrect` | `ChordSpec => []RingTypeOK` |
| | `LookupsEndAtOwner` | `ChordSpec => []EndsAtOwner` |
| | `HopsAlwaysHalveTheWay` | `ChordSpec => HopsHalveTheWay` |
| `IngestionProofs` | `TypeCorrect` | `Spec => []TypeOK` |
| | `NumbersAlwaysExact` | `Spec => []NumbersExact` |
| | `MessagesIngestedOnce` | `Spec => []IngestedOnce` |
| | `VerdictsAsMeant` | `Spec => []Verdicts` |

The assumptions are the named ones of the modules: `ConfigAssumption` is what
`PeerNode.__init__` and the validators let through (any set of nodes, any
peer lists but empty ones, any limits), `ServerAssumption` that there is at least one process
and a use lasts at least one turn, `SimulationAssumption` that there are two
processes, as sending needs. `TreeAssumption` says that the domains are a tree
below `ROOT` and says nothing of its shape. `SocketAssumption`, `UtcAssumption`,
`DirectoryAssumption` and `IngestionAssumption` give the types of the parameters
and keep peers, addresses and the values for "none" apart. `ChordAssumption` lets a
ring have any number of bits from one on and any nodes but none.

**Peer nodes.** `Envelope` is not inductive: an adjustment comes from samples of
earlier steps, which come from replies of still earlier ones. The invariant `Inv`
follows that chain. `CycleOK`: `own_time` was read before the question was asked,
and that before now. `RepliesOK`: a reply under way belongs to an open socket and
was a clock inside the envelope at a time after the question. `SamplesOK`: the
sum of the samples lies between `count` times the lowest and the highest value a
sample can have now; `FilteredOK` the same for the plausibility limit. `Adjust`
then divides: the average is inside, so is the new clock. `BoundedCorrection`
follows from `FilteredOK`. TLC has checked `Inv` on the instance of `peer_safety`.
`ServersOutliveCycles` rests on an invariant of its own, `OnlyFailuresStop`: while the
launcher runs, an event that is set belongs to a server that could not bind, so no
server loop has seen one; a node that has not begun `run()` has no server to lose.

**Central server.** `Coherent` is inductive with the types. `BoundedWait` is not,
as it does not say how much of a wait is left. `WaitBudget` adds, for the process
at position i, the turns of the i - 1 uses before it, the rest of the holder's,
and one more when the waiting process moves before the holder in the round.
The implementation theorem maps initial state and steps, using `Coherent` to
show that a grant never meets another critical process.

**Vector clocks.** A clock and the past it stands for are a `Snapshot`, whether a
process has them, a message or the history: the clock counts exactly the events of
the past and is not below any of their clocks. Hence an event is in a past exactly
when its number is within the clock, and comparing clocks is comparing pasts.
`Acyclic` (no two events are in each other's past) excludes that both compare as
"before"; it is kept because a new event is counted nowhere yet. For the promised
relations, `InTurn` and `MessageFlows` follow the message of `P0`'s second turn
until it is received, or another one was before.

**TCP servers.** Nothing on a connection marks where a sentence ends. Answers are
right because at most one sentence is on its way (`SentBy`, for each client): in the
stream, in the handler or, as an answer, back. `PendingOK`, `ServedOK` and `FreshOK`
say that a connection is handed to one handler once and that none touches it after
closing; `DownOK` that a server that is down has nothing pending. `HandlersFinish`
and `OnlyInterruptsCut` follow from what `SentBy` says of a connection that a
handler has left.

**UTC server.** `OwnRequestAccepted` is about what a thread prints. `ClientsServed`
follows its request there and back: the text of a client never changes, so the only
answer ever sent to it is a time. `TypeOK` is inductive by itself.

**Location service.** `PointersExact` holds between operations; `OnTheWayUp` says
what holds during one. `unregister` has exact pointers except that the entity is
nowhere and the chain above the current domain still leads there (`LeavingOK`);
`register` has exact pointers up to the current domain and none above it
(`ArrivingOK`). That nothing of the old chain is left when the walk has reached the
top, and that no pointer leads around, uses that every domain has one way to `ROOT`;
the domains above one are defined as an intersection of closed sets, which needs no
recursion over the tree. A lookup keeps that what it seeks
is below the domain it has reached, once it goes down.

`NoDetour` is about steps, and needs to know what a lookup has passed (`PathOK`): a
climb only domains below it, none with a pointer but perhaps the first; a descent
domains above it, besides what the climb passed. A step up leaves everything passed
below, and a step down meets a domain with a pointer or with the entity, which of
those passed only the first can be. The same invariant shows for `Implementation`
that pointers end where the entity is, so that an answer is the one `Locator` gives;
that one giving up may be a `Miss` follows as `LookupsComplete` does.

**Directory.** Both properties are about entries only. They are inductive with the
types, once it is known that a publisher that registers has an address to register
(`RunningOK`) and
that a name is known when it is listed or deleted for a moment (`KnownOK`).

**Chord.** `lookup` computes with remainders, `in_interval` with three cases of how
an interval lies around zero. `AheadFacts` reduces both to one measure, the steps
clockwise to the next occurrence of a position: a finger is between here and the key
when it is ahead by less. From there `FingerFacts` says that no node lies between
`2 ** (i - 1)` ahead and the i-th finger, so the farthest finger before the key
(`HopFacts`) leaves less than half of the way to the last node before it; `HereFacts`
that a lookup stops exactly at that node; `OwnerFacts` that its successor is the node
the key belongs to. The inductive invariant adds `WayLeft` to types and answer: after
some hops less than `2 ** (M - hops)` of the way is left, which bounds them by `M`.
Powers of two are a recursive function, so that such a step needs induction over the
bits. The library's induction theorems take an operator, which cannot be supplied
here; `Induction` is derived instead, for sets of numbers, from the theorem that
the order of the natural numbers is well-founded, and `Recursion` says from it that a
function so defined satisfies its equation.

**Ingestion.** `NumbersExact` needs that `ingested` is finite and that its messages
have a customer with a partition. The others follow a request: it is of an exchange
its program is at, or of an earlier run, and not yet ingested (`RequestsOK`); what
was ingested was due and lies behind or at the place of its program (`IngestedOK`);
and the exchanges a program has behind it are ingested when due (`BehindOK`). The
programs enter by one lemma, `ScriptFacts`: each exchange has a route, a message and
an expectation that fit, but for the last of `demo_validation`. TLC has checked this
invariant on the instance of `ingestion` before it was proved.

**Only model-checked.** Liveness (`Termination`, `StarvedOnlyBySilence`,
`ConnectionsReleased`, `EveryRequestAnswered`, `ClientProgramEnds`, `LookupEnds`,
`Heard`, `ProgramsEnd`), which is out of the prover's reach. That a Chord lookup ends
needs no such property: the proved `RingTypeOK` bounds its turns. `Forwarding` is a
program of fixed size, for which the run is complete.

## 5. Plan

1. Done: peer nodes, central server, vector clocks, TCP servers, UTC server, Chord,
   location service, forwarding pointers, directory and publish/subscribe, ingestion;
   the proofs above.
2. Done: the proofs, for every safety and action property that a passing run
   checks. Left for the provers: nothing but liveness.
3. `Pipeline` with dying workers, and the SQL sessions of workshop 5, if they can be
   given properties as deep as those checked now.

## 6. Not modelled

- Token ring (workshop 4, part 4): one loop moves the token, so exclusion and order
  hold by its shape; there are no messages and no second actor.
- Pipeline (workshop 2, part 6): what a job does after a crash is ZeroMQ's alone;
  the programs have no acknowledgement and no retry, so nothing is promised.
- Database lab (workshop 5): SQL scripts a person runs by hand in two sessions; the
  behaviour is that of MySQL and not of code in the repository.
- Matrix manager: a numerical library behind one request; its socket behaviour is
  that of workshop 1.
- Broadcast location: a datagram and its answer. DNS and LDAP scripts: calls of a
  library in a row.
- Statistics, figures and timings of workshop 7, prompts, payloads and output formats.

------------------------------ MODULE PeerNode ------------------------------
(***************************************************************************)
(* Workshop 4, part 2: a global time without a UTC server.                 *)
(*                                                                         *)
(* Every node keeps its own logical clock, time.time() + drift + offset.   *)
(* Its main thread runs cycles: it may inject drift, reads its own clock,  *)
(* asks every peer in turn for the time over a fresh REQ socket that times *)
(* out, averages the samples and adds (average - own) to its offset.  Its  *)
(* server thread (a REP socket) answers the other nodes meanwhile.  A node *)
(* is either a process of its own (peer_node.py, launch = "cli") or a      *)
(* thread of the launcher run_peers.py, which stops every node at the end. *)
(*                                                                         *)
(* Clock values are integers: a reply carries its timestamp with a fixed   *)
(* number of decimals, and the unit of the model is that resolution.       *)
(***************************************************************************)
EXTENDS Integers, Sequences, FiniteSets

CONSTANTS
  Node,         \* the node names (the same set of ports and REP servers)
  Peers,        \* Peers[n]: the endpoints node n asks, in the order of its list
  Cycles,       \* cycles each node runs; 0 means for ever
  K,            \* drift is injected every K cycles
  DriftMax,     \* largest drift of one injection
  DriftSteps,   \* the injections the model tries, within -DriftMax..DriftMax
  HalfSpread,   \* half of the initial desynchronisation (spread / 2)
  InitSkews,    \* the initial skews the model tries, within the spread
  MaxSkew,      \* MAX_PLAUSIBLE_SKEW_S: farther replies are discarded
  RecvTimeout,  \* RECV_TIMEOUT_MS
  Modes,        \* how the nodes are run: "cli" processes, a "running" launcher
  MaxNow        \* bound: real time passes on its own only up to MaxNow

\* What validate_number accepts: a value within a closed range.
ValidNumber(x, lo, hi) == x \in Int /\ lo <= x /\ x <= hi

\* What validate_peers guarantees: at least one peer.  It compares endpoints as
\* text and knows only some spellings of the own host, so under another
\* spelling the list may name a node twice, or the node itself.
ValidPeers(n) ==
  /\ Peers[n] \in Seq(Node)
  /\ Len(Peers[n]) >= 1

\* What PeerNode.__init__ lets through; -K..K style ranges are closed, and the
\* upper limits of the code (10000 cycles, k <= 1000, ...) are not needed here.
ASSUME ConfigAssumption ==
  /\ Peers \in [Node -> Seq(Node)]
  /\ \A n \in Node : ValidPeers(n)
  /\ Cycles \in Nat
  /\ K \in Nat \ {0}
  /\ DriftMax \in Nat
  /\ \A d \in DriftSteps : ValidNumber(d, -DriftMax, DriftMax)
  /\ HalfSpread \in Nat
  /\ \A s \in InitSkews : ValidNumber(s, -HalfSpread, HalfSpread)
  /\ MaxSkew \in Nat
  /\ RecvTimeout \in Nat
  /\ Modes \subseteq {"cli", "running"}
  /\ MaxNow \in Nat

VARIABLES
  now,       \* time.time(): the operating system's clock, shared by all nodes
  drift,     \* _drift of each node
  offset,    \* _offset of each node
  stop,      \* the _stop event of each node
  srv,       \* server thread: "off", "binding", "up", "closed" or "failed"
  pc,        \* main thread of each node
  cycle,     \* the local variable cycle of run()
  idx,       \* position in self.peers of the peer asked next, or being asked
  own,       \* own_time of the current cycle
  total,     \* sum(samples) of the current cycle
  count,     \* len(samples) of the current cycle
  t0,        \* t0 of the current ask_peer call
  requests,  \* time requests that no server has answered yet
  replies,   \* replies on their way to a socket that is still open
  launch,    \* "cli", or the launcher: "running", "stopping", "done"
  drifted,   \* history: sum of the magnitudes of the injected drift
  late       \* history: how much the corrections so far may be ahead because
             \* own_time is read before the peers are asked (see Adjust)

clockVars == <<drift, offset, drifted, late>>
cycleVars == <<cycle, idx, own, total, count, t0>>
netVars   == <<requests, replies>>
vars == <<now, stop, srv, pc, launch, clockVars, cycleVars, netVars>>

InCycle == {"ask", "wait"}

Request == [client : Node, server : Node, cycle : Nat, idx : Nat]
Reply   == [client : Node, time : Int]

Skew(n) == drift[n] + offset[n]

LocalTime(n) == now + Skew(n)

\* The real time at which n read own_time: only n's main thread changes n's
\* clock, and it does not between that reading and the adjustment.
ReadAt(n) == own[n] - Skew(n)

\* A symmetric magnitude, for the history of the injected drift.
Abs(x) == IF x < 0 THEN -x ELSE x

-----------------------------------------------------------------------------
(* The guards of the code that a property hangs on, one operator each, and *)
(* the same with a plausible mistake.                                      *)

\* m was sent on the socket its client has open now: ask_peer opens a socket
\* for every request and closes it before returning.
SameSocket(m) ==
  /\ pc[m.client] = "wait"
  /\ m.cycle = cycle[m.client]
  /\ m.idx = idx[m.client]

\* MISTAKE: one REQ socket for the whole run instead of one per ask_peer call.
SocketKept(n) == {}

\* The replies that are lost when n closes its REQ socket.
LostWithSocket(n) == {r \in replies : r.client = n}

\* MISTAKE: every reply that parses is accepted.
PlausibleAlways(n, time) == TRUE

\* The last test of parse_reply, against the clock of n as it is now.
Plausible(n, time) == Abs(time - LocalTime(n)) <= MaxSkew

\* MISTAKE: the launcher lets each node stop its own server.
StopWhenDoneAlways == TRUE

\* stop_when_done: run() is called with the default by main() and with False
\* by the launcher.
StopWhenDone == launch = "cli"

\* MISTAKE: the REQ socket has no RCVTIMEO, so recv() never gives up.
NoRecvTimeout(n) == FALSE

\* zmq.Again can be raised for n: it waits, and nobody else's receive times out
\* before.
RecvTimesOut(n) ==
  /\ pc[n] = "wait"
  /\ \A m \in Node : pc[m] = "wait" => t0[n] <= t0[m]

\* MISTAKE: the peer after the one that has just been asked is skipped.
SkipPeer(n) == idx[n] + 2

NextPeer(n) == idx[n] + 1

Average(n) == total[n] \div count[n]

\* n closes its REQ socket: with LINGER 0 a request that has not reached a
\* bound server is discarded.
AfterClose(n) ==
  {r \in requests : r.client = n => srv[r.server] = "up"}

\* ask_peer returns and the loop over the peers goes on; t0 is dead.
LeaveAskPeer(n) ==
  /\ t0' = [t0 EXCEPT ![n] = 0]
  /\ idx' = [idx EXCEPT ![n] = NextPeer(n)]
  /\ pc' = [pc EXCEPT ![n] = "ask"]

\* The local variables of a cycle are dead once it is over.
EndOfCycle(n) ==
  /\ idx' = [idx EXCEPT ![n] = 1]
  /\ own' = [own EXCEPT ![n] = 0]
  /\ total' = [total EXCEPT ![n] = 0]
  /\ count' = [count EXCEPT ![n] = 0]

-----------------------------------------------------------------------------
Init ==
  /\ now = 0
  /\ drift \in [Node -> InitSkews]       \* preset_skew
  /\ offset = [n \in Node |-> 0]
  /\ stop = [n \in Node |-> FALSE]
  /\ srv = [n \in Node |-> "off"]
  /\ pc = [n \in Node |-> "idle"]
  /\ cycle = [n \in Node |-> 0]
  /\ idx = [n \in Node |-> 1]
  /\ own = [n \in Node |-> 0]
  /\ total = [n \in Node |-> 0]
  /\ count = [n \in Node |-> 0]
  /\ t0 = [n \in Node |-> 0]
  /\ requests = {}
  /\ replies = {}
  /\ launch \in Modes
  /\ drifted = 0
  /\ late = 0

\* The clock of the operating system advances while nothing else happens, but
\* not past the moment at which a waiting recv() times out.
Elapse ==
  /\ now < MaxNow
  /\ \A n \in Node : pc[n] = "wait" => now < t0[n] + RecvTimeout
  /\ now' = now + 1
  /\ UNCHANGED <<stop, srv, pc, launch, clockVars, cycleVars, netVars>>

-----------------------------------------------------------------------------
(* Server thread *)

\* run() starts the server thread, then sleeps so that it can bind.  It is
\* called by main(), or is the body of a thread that the launcher has started,
\* perhaps only after the launcher has been interrupted.
Start(n) ==
  /\ pc[n] = "started" \/ (launch = "cli" /\ pc[n] = "idle")
  /\ srv' = [srv EXCEPT ![n] = "binding"]
  /\ pc' = [pc EXCEPT ![n] = "loop"]
  /\ UNCHANGED <<now, stop, launch, clockVars, cycleVars, netVars>>

Bind(n) ==
  /\ srv[n] = "binding"
  /\ srv' = [srv EXCEPT ![n] = "up"]
  /\ UNCHANGED <<now, stop, pc, launch, clockVars, cycleVars, netVars>>

\* The port is taken: the thread gives up and stops the whole node.
BindFails(n) ==
  /\ srv[n] = "binding"
  /\ srv' = [srv EXCEPT ![n] = "failed"]
  /\ stop' = [stop EXCEPT ![n] = TRUE]
  /\ UNCHANGED <<now, pc, launch, clockVars, cycleVars, netVars>>

\* One pass of the server loop.  The answer is the server's logical clock at
\* that moment; a reply to a socket that has been closed is lost.  Then the
\* loop tests the event again.
Serve(n) ==
  /\ srv[n] = "up"
  /\ \E r \in requests :
       /\ r.server = n
       /\ requests' = requests \ {r}
       /\ replies' =
            IF SameSocket(r)
            THEN replies \union {[client |-> r.client, time |-> LocalTime(n)]}
            ELSE replies
  /\ srv' = [srv EXCEPT ![n] = IF stop[n] THEN "closed" ELSE "up"]
  /\ UNCHANGED <<now, stop, pc, launch, clockVars, cycleVars>>

\* The loop looks at the event at least every SERVER_POLL_MS.  Requests that
\* have reached the socket are lost with it.
ServerExits(n) ==
  /\ srv[n] = "up"
  /\ stop[n]
  /\ srv' = [srv EXCEPT ![n] = "closed"]
  /\ requests' = {r \in requests : r.server # n}
  /\ UNCHANGED <<now, stop, pc, launch, clockVars, cycleVars, replies>>

-----------------------------------------------------------------------------
(* Main thread *)

\* inject_drift(), every K cycles and only when there is drift to inject.
InjectDrift(n) ==
  IF (cycle[n] + 1) % K = 0 /\ DriftMax > 0
  THEN \E d \in DriftSteps :
         /\ drift' = [drift EXCEPT ![n] = @ + d]
         /\ drifted' = drifted + Abs(d)
  ELSE UNCHANGED <<drift, drifted>>

\* The head of a cycle: the drift, then own_time, the first of the samples.
BeginCycle(n) ==
  /\ pc[n] = "loop"
  /\ ~stop[n]
  /\ cycle' = [cycle EXCEPT ![n] = @ + 1]
  /\ InjectDrift(n)
  /\ own' = [own EXCEPT ![n] = now + drift'[n] + offset[n]]
  /\ total' = [total EXCEPT ![n] = own'[n]]
  /\ count' = [count EXCEPT ![n] = 1]
  /\ idx' = [idx EXCEPT ![n] = 1]
  /\ pc' = [pc EXCEPT ![n] = "ask"]
  /\ UNCHANGED <<now, offset, late, t0, stop, srv, launch, netVars>>

\* while not self._stop.is_set() ends.
LeaveLoop(n) ==
  /\ pc[n] = "loop"
  /\ stop[n]
  /\ pc' = [pc EXCEPT ![n] = "finish"]
  /\ UNCHANGED <<now, stop, srv, launch, clockVars, cycleVars, netVars>>

\* ask_peer up to its recv(): a new socket, t0, the request.
SendRequest(n) ==
  /\ pc[n] = "ask"
  /\ idx[n] <= Len(Peers[n])
  /\ t0' = [t0 EXCEPT ![n] = now]
  /\ requests' = requests \union
       {[client |-> n, server |-> Peers[n][idx[n]], cycle |-> cycle[n],
         idx |-> idx[n]]}
  /\ pc' = [pc EXCEPT ![n] = "wait"]
  /\ UNCHANGED <<now, stop, srv, launch, clockVars, cycle, idx, own, total,
                 count, replies>>

\* recv() returns: a plausible time, moved forward by half of the round trip,
\* becomes a sample; an implausible one is dropped.  The socket is closed.
ReceiveReply(n) ==
  /\ pc[n] = "wait"
  /\ \E r \in replies :
       /\ r.client = n
       /\ replies' = replies \ ({r} \union LostWithSocket(n))
       /\ IF Plausible(n, r.time)
          THEN /\ total' = [total EXCEPT
                              ![n] = @ + r.time + (now - t0[n]) \div 2]
               /\ count' = [count EXCEPT ![n] = @ + 1]
          ELSE UNCHANGED <<total, count>>
  /\ LeaveAskPeer(n)
  /\ UNCHANGED <<now, stop, srv, launch, clockVars, cycle, own, requests>>

\* recv() gives up: the peer counts for nothing in this cycle, the socket is
\* closed, and the time it took has passed.
Timeout(n) ==
  /\ RecvTimesOut(n)
  /\ now' = IF now < t0[n] + RecvTimeout THEN t0[n] + RecvTimeout ELSE now
  /\ replies' = replies \ LostWithSocket(n)
  /\ requests' = AfterClose(n)
  /\ LeaveAskPeer(n)
  /\ UNCHANGED <<stop, srv, launch, clockVars, cycle, own, total, count>>

\* The end of a cycle: with at least one answer the offset moves by the
\* difference between the average and own_time.  Then the last cycle ends the
\* loop and any other waits for the next.  late grows by the time since
\* own_time was read, and by half of it again for the compensation of the
\* round trips.
Adjust(n) ==
  /\ pc[n] = "ask"
  /\ idx[n] > Len(Peers[n])
  /\ IF count[n] = 1
     THEN UNCHANGED <<offset, late>>
     ELSE /\ offset' = [offset EXCEPT ![n] = @ + (Average(n) - own[n])]
          /\ late' = late + (now - ReadAt(n)) + (now - ReadAt(n)) \div 2
  /\ pc' = [pc EXCEPT ![n] = IF Cycles # 0 /\ cycle[n] >= Cycles
                             THEN "finish" ELSE "sleep"]
  /\ EndOfCycle(n)
  /\ UNCHANGED <<now, stop, srv, launch, drift, drifted, cycle, t0, netVars>>

\* _stop.wait(interval) returns, after the interval or because of the event.
Wake(n) ==
  /\ pc[n] = "sleep"
  /\ pc' = [pc EXCEPT ![n] = "loop"]
  /\ UNCHANGED <<now, stop, srv, launch, clockVars, cycleVars, netVars>>

\* The loop is over.  stop() also joins the server thread, but no longer than
\* 2 seconds, so run() returns whether or not that thread has ended.
Finish(n) ==
  /\ pc[n] = "finish"
  /\ stop' = [stop EXCEPT ![n] = @ \/ StopWhenDone]
  /\ pc' = [pc EXCEPT ![n] = "done"]
  /\ UNCHANGED <<now, srv, launch, clockVars, cycleVars, netVars>>

\* Ctrl+C, or any exception, inside the loop of a node that is a process: the
\* open socket is closed and the server is told to stop.
Interrupt(n) ==
  /\ launch = "cli"
  /\ pc[n] \in {"loop", "sleep"} \union InCycle
  /\ stop' = [stop EXCEPT ![n] = TRUE]
  /\ pc' = [pc EXCEPT ![n] = "done"]
  /\ replies' = replies \ LostWithSocket(n)
  /\ requests' = AfterClose(n)
  /\ EndOfCycle(n)
  /\ t0' = [t0 EXCEPT ![n] = 0]
  /\ UNCHANGED <<now, srv, launch, clockVars, cycle>>

-----------------------------------------------------------------------------
(* Launcher *)

\* t.start(): the thread exists, but its run() has not begun.
LauncherStarts(n) ==
  /\ launch = "running"
  /\ pc[n] = "idle"
  /\ pc' = [pc EXCEPT ![n] = "started"]
  /\ UNCHANGED <<now, stop, srv, launch, clockVars, cycleVars, netVars>>

\* All run() threads have been joined.
LauncherJoins ==
  /\ launch = "running"
  /\ \A n \in Node : pc[n] = "done"
  /\ launch' = "stopping"
  /\ UNCHANGED <<now, stop, srv, pc, clockVars, cycleVars, netVars>>

\* Ctrl+C reaches the thread that starts and joins the others, perhaps before
\* it has started all of them; those never run.
LauncherInterrupted ==
  /\ launch = "running"
  /\ launch' = "stopping"
  /\ UNCHANGED <<now, stop, srv, pc, clockVars, cycleVars, netVars>>

\* node.stop() for every node.
LauncherStops(n) ==
  /\ launch = "stopping"
  /\ ~stop[n]
  /\ stop' = [stop EXCEPT ![n] = TRUE]
  /\ UNCHANGED <<now, srv, pc, launch, clockVars, cycleVars, netVars>>

\* The threads are joined for at most 3 seconds and the results printed; the
\* join of a thread that never ran raises, which ends the launcher as well.
LauncherEnds ==
  /\ launch = "stopping"
  /\ \A n \in Node : stop[n]
  /\ launch' = "done"
  /\ UNCHANGED <<now, stop, srv, pc, clockVars, cycleVars, netVars>>

-----------------------------------------------------------------------------
MainThread(n) ==
  \/ Start(n)
  \/ BeginCycle(n)
  \/ LeaveLoop(n)
  \/ SendRequest(n)
  \/ ReceiveReply(n)
  \/ Timeout(n)
  \/ Adjust(n)
  \/ Wake(n)
  \/ Finish(n)

ServerThread(n) == Bind(n) \/ BindFails(n) \/ Serve(n) \/ ServerExits(n)

Launcher ==
  \/ LauncherJoins
  \/ LauncherEnds
  \/ \E n \in Node : LauncherStarts(n) \/ LauncherStops(n)

Next ==
  \/ Elapse
  \/ LauncherInterrupted
  \/ Launcher
  \/ \E n \in Node : MainThread(n) \/ ServerThread(n) \/ Interrupt(n)

\* The threads are scheduled by the operating system and every wait in them is
\* a timed one, so each thread that can step eventually does.  Nothing obliges
\* time to pass between steps, or a user to press Ctrl+C.
Fairness ==
  /\ \A n \in Node : WF_vars(MainThread(n)) /\ WF_vars(ServerThread(n))
  /\ WF_vars(Launcher)

Spec == Init /\ [][Next]_vars

FairSpec == Spec /\ Fairness

-----------------------------------------------------------------------------
(* Properties *)

ClockType ==
  /\ now \in Nat
  /\ drift \in [Node -> Int]
  /\ offset \in [Node -> Int]
  /\ drifted \in Nat
  /\ late \in Nat

ThreadType ==
  /\ stop \in [Node -> BOOLEAN]
  /\ srv \in [Node -> {"off", "binding", "up", "closed", "failed"}]
  /\ pc \in [Node -> {"idle", "started", "loop", "ask", "wait", "sleep",
                     "finish", "done"}]
  /\ launch \in {"cli", "running", "stopping", "done"}

CycleType ==
  /\ cycle \in [Node -> Nat]
  /\ idx \in [Node -> Nat \ {0}]
  /\ own \in [Node -> Int]
  /\ total \in [Node -> Int]
  /\ count \in [Node -> Nat]
  /\ t0 \in [Node -> Nat]
  /\ \A n \in Node : idx[n] <= Len(Peers[n]) + 1 /\ count[n] <= idx[n]

NetType ==
  /\ requests \subseteq Request
  /\ replies \subseteq Reply

\* The types of the variables; idx never points beyond the end of the list by
\* more than one, and a cycle has at most one sample of each peer.
TypeOK == ClockType /\ ThreadType /\ CycleType /\ NetType

\* No node's clock ever leaves the range the clocks started in, widened by the
\* drift injected anywhere and, upwards only, by late: averaging alone never
\* pushes a clock out of the range of the clocks, and a clock is never pulled
\* back because a peer's answer is old.
Envelope ==
  \A n \in Node :
    /\ -HalfSpread - drifted <= Skew(n)
    /\ Skew(n) <= HalfSpread + drifted + late

\* One correction of a node is limited by MAX_PLAUSIBLE_SKEW_S, plus the time
\* the cycle took: no single reply, however far off, can move the clock more.
CorrectionBound ==
  \A n \in Node :
    offset'[n] # offset[n] =>
      LET spent == now - ReadAt(n)
          correction == offset'[n] - offset[n]
      IN  /\ -MaxSkew <= correction
          /\ correction <= MaxSkew + spent + spent \div 2

BoundedCorrection == [][CorrectionBound]_vars

\* run(stop_when_done=False): while the launcher is running, a node that is
\* still asking never meets a peer whose server has been shut down; a peer is
\* silent only because its port could not be bound.
ServersOutliveCycles ==
  launch = "running" =>
    \A n \in Node : pc[n] \in InCycle =>
      \A i \in 1..Len(Peers[n]) : srv[Peers[n][i]] # "closed"

\* With a finite number of cycles every node that runs ends, whichever peers
\* are silent, and so do its server thread and the launcher; only an
\* interrupted launcher leaves nodes that never run.
Termination ==
  <>(/\ launch \in {"cli", "done"}
     /\ \A n \in Node :
          \/ pc[n] = "done" /\ srv[n] \in {"closed", "failed"}
          \/ pc[n] = "idle" /\ launch = "done")

\* "did not answer in 1500 ms (ignored this cycle)": the silence of a peer has
\* no influence, so without drift, and when answers take no time, every clock
\* stays in the range the clocks started in.
SilentPeerIgnored ==
  \A n \in Node : -HalfSpread <= Skew(n) /\ Skew(n) <= HalfSpread

=============================================================================

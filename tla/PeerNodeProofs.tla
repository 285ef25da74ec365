--------------------------- MODULE PeerNodeProofs ---------------------------
(***************************************************************************)
(* The clocks of PeerNode stay in their envelope, for every set of nodes,  *)
(* every topology and every value of the parameters.                       *)
(*                                                                         *)
(* Envelope is not inductive: an adjustment is computed from samples taken *)
(* in earlier steps, and those come from replies sent in still earlier     *)
(* ones.  The invariant below follows that chain: when own_time was read   *)
(* (CycleOK), what a reply on its way may say (RepliesOK), and what the    *)
(* samples add up to, measured against the clocks (SamplesOK) and against  *)
(* the plausibility filter (FilteredOK).                                   *)
(***************************************************************************)
EXTENDS PeerNode, TLAPS

\* Real time since n read own_time.
Spent(n) == now - ReadAt(n)

\* own_time is read before the peers are asked, and each question is asked
\* before its answer is awaited.
CycleOK ==
  \A n \in Node :
    /\ pc[n] \in InCycle => ReadAt(n) <= now /\ count[n] >= 1
    /\ pc[n] = "wait" =>
         idx[n] <= Len(Peers[n]) /\ ReadAt(n) <= t0[n] /\ t0[n] <= now

\* A reply on its way was produced while its socket was open, by a clock
\* inside the envelope.
RepliesOK ==
  \A r \in replies :
    /\ pc[r.client] = "wait"
    /\ t0[r.client] - HalfSpread - drifted <= r.time
    /\ r.time <= now + HalfSpread + drifted + late

SampleLow(n) == ReadAt(n) - HalfSpread - drifted

SampleHigh(n) ==
  ReadAt(n) + HalfSpread + drifted + late + Spent(n) + Spent(n) \div 2

FilterLow(n) == own[n] - MaxSkew

FilterHigh(n) == own[n] + MaxSkew + Spent(n) + Spent(n) \div 2

\* Every sample of the cycle is between these two bounds, so their sum is.
SamplesOK ==
  \A n \in Node : pc[n] \in InCycle =>
    /\ count[n] * SampleLow(n) <= total[n]
    /\ total[n] <= count[n] * SampleHigh(n)

\* The same against the bounds that parse_reply enforces.
FilteredOK ==
  \A n \in Node : pc[n] \in InCycle =>
    /\ count[n] * FilterLow(n) <= total[n]
    /\ total[n] <= count[n] * FilterHigh(n)

Inv ==
  /\ TypeOK
  /\ CycleOK
  /\ RepliesOK
  /\ Envelope
  /\ SamplesOK
  /\ FilteredOK

-----------------------------------------------------------------------------
(* Arithmetic *)

\* Scaling both sides by a natural number.
LEMMA ScaleMono ==
  ASSUME NEW c \in Nat, NEW a \in Int, NEW b \in Int, a <= b
  PROVE  c * a <= c * b
  OBVIOUS

\* One more term.
LEMMA ScaleStep ==
  ASSUME NEW c \in Nat, NEW a \in Int
  PROVE  (c + 1) * a = c * a + a
  OBVIOUS

\* The same samples against wider bounds.
LEMMA SameSamples ==
  ASSUME NEW c \in Nat, NEW s \in Int, NEW a \in Int, NEW b \in Int,
         NEW a2 \in Int, NEW b2 \in Int,
         c * a <= s, s <= c * b, a2 <= a, b <= b2
  PROVE  c * a2 <= s /\ s <= c * b2
<1>1. c * a2 <= c * a /\ c * b <= c * b2
  BY ScaleMono
<1>2. c * a \in Int /\ c * b \in Int /\ c * a2 \in Int /\ c * b2 \in Int
  OBVIOUS
<1>. QED BY <1>1, <1>2

\* One more sample, inside the wider bounds.
LEMMA OneMoreSample ==
  ASSUME NEW c \in Nat, NEW s \in Int, NEW a \in Int, NEW b \in Int,
         NEW a2 \in Int, NEW b2 \in Int, NEW x \in Int,
         c * a <= s, s <= c * b, a2 <= a, b <= b2, a2 <= x, x <= b2
  PROVE  (c + 1) * a2 <= s + x /\ s + x <= (c + 1) * b2
<1>1. c * a2 <= s /\ s <= c * b2
  BY SameSamples
<1>2. (c + 1) * a2 = c * a2 + a2 /\ (c + 1) * b2 = c * b2 + b2
  BY ScaleStep
<1>3. c * a2 \in Int /\ c * b2 \in Int
  OBVIOUS
<1>. QED BY <1>1, <1>2, <1>3

\* The average of c numbers is between the bounds of the numbers.
LEMMA AverageBounds ==
  ASSUME NEW c \in Nat \ {0}, NEW s \in Int, NEW a \in Int, NEW b \in Int,
         c * a <= s, s <= c * b
  PROVE  /\ s \div c \in Int
         /\ a <= s \div c
         /\ s \div c <= b
  OBVIOUS

\* Halving is monotone and stays in the integers.
LEMMA HalfMono ==
  ASSUME NEW a \in Int, NEW b \in Int, a <= b
  PROVE  a \div 2 \in Int /\ b \div 2 \in Int /\ a \div 2 <= b \div 2
  OBVIOUS

\* Half of a natural number, rounded down, is a natural number.
LEMMA HalfNat ==
  ASSUME NEW a \in Nat
  PROVE  a \div 2 \in Nat
  OBVIOUS

\* What validate_peers guarantees.
LEMMA PeerCount ==
  \A n \in Node : Len(Peers[n]) \in Nat /\ Len(Peers[n]) >= 1
<1>. SUFFICES ASSUME NEW n \in Node
              PROVE  Len(Peers[n]) \in Nat /\ Len(Peers[n]) >= 1
  OBVIOUS
<1>1. Peers[n] \in Seq(Node) /\ ValidPeers(n)
  BY ConfigAssumption
<1>2. Len(Peers[n]) >= 1
  BY <1>1 DEF ValidPeers
<1>. QED BY <1>1, <1>2

\* The endpoint a node is about to ask is a node.
LEMMA PeerIsNode ==
  ASSUME NEW n \in Node, NEW i \in 1..Len(Peers[n])
  PROVE  Peers[n][i] \in Node
<1>1. Peers[n] \in Seq(Node)
  BY ConfigAssumption
<1>. QED BY <1>1

-----------------------------------------------------------------------------
(* Initial states *)

\* The inductive invariant holds when the nodes are created.
LEMMA InitInv == Init => Inv
<1>. SUFFICES ASSUME Init PROVE Inv
  OBVIOUS
<1>1. TypeOK
  BY ConfigAssumption, PeerCount
  DEF Init, TypeOK, ClockType, ThreadType, CycleType, NetType, ValidNumber
<1>2. CycleOK /\ RepliesOK /\ SamplesOK /\ FilteredOK
  BY DEF Init, CycleOK, RepliesOK, SamplesOK, FilteredOK, InCycle
<1>3. Envelope
  BY ConfigAssumption DEF Init, Envelope, Skew, ValidNumber
<1>. QED BY <1>1, <1>2, <1>3 DEF Inv

-----------------------------------------------------------------------------
(* Types *)

\* The real time at which own_time was read is an integer.
LEMMA ReadAtInt ==
  ASSUME TypeOK, NEW n \in Node
  PROVE  ReadAt(n) \in Int /\ Skew(n) \in Int /\ own[n] = ReadAt(n) + Skew(n)
<1>1. own[n] \in Int
  BY DEF TypeOK, CycleType
<1>2. Skew(n) \in Int
  BY DEF TypeOK, ClockType, Skew
<1>. QED BY <1>1, <1>2 DEF ReadAt

\* During a cycle the time since own_time was read is a natural number.
LEMMA SpentNat ==
  ASSUME TypeOK, CycleOK, NEW n \in Node, pc[n] \in InCycle
  PROVE  Spent(n) \in Nat /\ Spent(n) \div 2 \in Nat
<1>1. ReadAt(n) <= now
  BY DEF CycleOK
<1>2. Spent(n) \in Nat
  BY <1>1, ReadAtInt DEF Spent, TypeOK, ClockType
<1>. QED BY <1>2, HalfNat

\* Dropping the local variables of a cycle keeps their types.
LEMMA EndOfCycleType ==
  ASSUME CycleType, NEW n \in Node, EndOfCycle(n), cycle' = cycle,
         t0' \in [Node -> Nat]
  PROVE  CycleType'
<1>1. \A m \in Node : idx'[m] <= Len(Peers[m]) + 1 /\ count'[m] <= idx'[m]
  BY PeerCount DEF CycleType, EndOfCycle
<1>2. idx' \in [Node -> Nat \ {0}] /\ count' \in [Node -> Nat]
  BY DEF CycleType, EndOfCycle
<1>3. own' \in [Node -> Int] /\ total' \in [Node -> Int]
  BY DEF CycleType, EndOfCycle
<1>. QED BY <1>1, <1>2, <1>3 DEF CycleType

\* ask_peer has returned, with at most one more sample than before.
LEMMA LeaveAskPeerType ==
  ASSUME CycleType, CycleOK, NEW n \in Node, LeaveAskPeer(n), pc[n] = "wait",
         cycle' = cycle, own' = own, total' \in [Node -> Int],
         count' = count \/ count' = [count EXCEPT ![n] = @ + 1]
  PROVE  CycleType'
<1>1. idx[n] <= Len(Peers[n])
  BY DEF CycleOK
<1>2. idx' = [idx EXCEPT ![n] = idx[n] + 1] /\ t0' = [t0 EXCEPT ![n] = 0]
  BY DEF LeaveAskPeer, NextPeer
<1>3. idx' \in [Node -> Nat \ {0}] /\ t0' \in [Node -> Nat]
  BY <1>2 DEF CycleType
<1>4. count' \in [Node -> Nat]
  <2>1. CASE count' = count
    BY <2>1 DEF CycleType
  <2>2. CASE count' = [count EXCEPT ![n] = @ + 1]
    BY <2>2 DEF CycleType
  <2>. QED BY <2>1, <2>2
<1>5. \A m \in Node : idx'[m] <= Len(Peers[m]) + 1
  <2>. TAKE m \in Node
  <2>1. CASE m = n
    BY <1>1, <1>2, <2>1 DEF CycleType
  <2>2. CASE m # n
    BY <1>2, <2>2 DEF CycleType
  <2>. QED BY <2>1, <2>2
<1>6. \A m \in Node : count'[m] <= idx'[m]
  BY <1>2 DEF CycleType
<1>. QED BY <1>3, <1>4, <1>5, <1>6 DEF CycleType

\* Every step keeps the types of the clocks and of the histories.
LEMMA ClockTypeStep ==
  ASSUME TypeOK, CycleOK, [Next]_vars
  PROVE  ClockType'
<1>. USE DEF clockVars, TypeOK
<1>1. CASE UNCHANGED <<now, clockVars>>
  BY <1>1 DEF ClockType
<1>2. CASE Elapse
  BY <1>2 DEF Elapse, ClockType
<1>3. ASSUME NEW n \in Node, BeginCycle(n) PROVE ClockType'
  <2>1. drift' \in [Node -> Int] /\ drifted' \in Nat
    <3>1. InjectDrift(n)
      BY <1>3 DEF BeginCycle
    <3>2. CASE UNCHANGED <<drift, drifted>>
      BY <3>2 DEF ClockType
    <3>3. ASSUME NEW d \in DriftSteps,
                 drift' = [drift EXCEPT ![n] = @ + d],
                 drifted' = drifted + Abs(d)
          PROVE  drift' \in [Node -> Int] /\ drifted' \in Nat
      <4>1. d \in Int /\ Abs(d) \in Nat
        BY ConfigAssumption DEF ValidNumber, Abs
      <4>. QED BY <3>3, <4>1 DEF ClockType
    <3>. QED BY <3>1, <3>2, <3>3 DEF InjectDrift
  <2>2. UNCHANGED <<now, offset, late>>
    BY <1>3 DEF BeginCycle
  <2>. QED BY <2>1, <2>2 DEF ClockType
<1>4. ASSUME NEW n \in Node, Timeout(n) PROVE ClockType'
  <2>1. t0[n] \in Nat /\ RecvTimeout \in Nat
    BY ConfigAssumption DEF CycleType
  <2>. QED BY <1>4, <2>1 DEF Timeout, ClockType
<1>5. ASSUME NEW n \in Node, Adjust(n) PROVE ClockType'
  <2>1. UNCHANGED <<now, drift, drifted>>
    BY <1>5 DEF Adjust
  <2>2. CASE count[n] = 1
    BY <1>5, <2>1, <2>2 DEF Adjust, ClockType
  <2>3. CASE count[n] # 1
    <3>1. count[n] \in Nat \ {0} /\ total[n] \in Int /\ own[n] \in Int
      BY <1>5 DEF Adjust, CycleType, CycleOK, InCycle
    <3>3. Spent(n) \in Nat /\ Spent(n) \div 2 \in Nat
      BY <1>5, SpentNat DEF Adjust, InCycle
    <3>4. Average(n) \in Int
      BY <3>1 DEF Average
    <3>5. late' = late + Spent(n) + Spent(n) \div 2
      BY <1>5, <2>3 DEF Adjust, Spent
    <3>6. offset' = [offset EXCEPT ![n] = @ + (Average(n) - own[n])]
      BY <1>5, <2>3 DEF Adjust
    <3>. QED BY <2>1, <3>1, <3>3, <3>4, <3>5, <3>6 DEF ClockType
  <2>. QED BY <2>2, <2>3
<1>. QED
  BY <1>1, <1>2, <1>3, <1>4, <1>5
  DEF Next, vars, MainThread, ServerThread, Launcher, Start, Bind, BindFails,
      Serve, ServerExits, LeaveLoop, SendRequest, ReceiveReply, Wake, Finish,
      Interrupt, LauncherJoins, LauncherInterrupted,
      LauncherStarts, LauncherStops,
      LauncherEnds

\* Every step keeps the types of the threads and of the launcher.
LEMMA ThreadTypeStep ==
  ASSUME ThreadType, [Next]_vars
  PROVE  ThreadType'
<1>. USE DEF ThreadType
<1>1. CASE UNCHANGED <<stop, srv, pc, launch>>
  BY <1>1
<1>2. ASSUME NEW n \in Node, ServerThread(n) PROVE ThreadType'
  BY <1>2 DEF ServerThread, Bind, BindFails, Serve, ServerExits
<1>3. ASSUME NEW n \in Node, MainThread(n) PROVE ThreadType'
  <2>1. CASE Start(n) \/ BeginCycle(n) \/ LeaveLoop(n) \/ SendRequest(n) \/ Wake(n)
    BY <2>1 DEF Start, BeginCycle, LeaveLoop, SendRequest, Wake
  <2>2. CASE ReceiveReply(n) \/ Timeout(n)
    BY <2>2 DEF ReceiveReply, Timeout, LeaveAskPeer
  <2>3. CASE Adjust(n)
    BY <2>3 DEF Adjust
  <2>4. CASE Finish(n)
    BY <2>4 DEF Finish, StopWhenDone
  <2>. QED BY <1>3, <2>1, <2>2, <2>3, <2>4 DEF MainThread
<1>4. ASSUME NEW n \in Node, Interrupt(n) PROVE ThreadType'
  BY <1>4 DEF Interrupt
<1>5. CASE LauncherInterrupted \/ Launcher
  BY <1>5 DEF Launcher, LauncherJoins, LauncherInterrupted,
              LauncherStarts, LauncherStops,
              LauncherEnds
<1>. QED
  BY <1>1, <1>2, <1>3, <1>4, <1>5 DEF Next, vars, Elapse

\* Every step keeps the types of the local variables of run() and ask_peer().
LEMMA CycleTypeStep ==
  ASSUME TypeOK, CycleOK, ClockType', [Next]_vars
  PROVE  CycleType'
<1>. USE DEF cycleVars, TypeOK
<1>1. CASE UNCHANGED cycleVars
  BY <1>1 DEF CycleType
<1>2. ASSUME NEW n \in Node, BeginCycle(n) PROVE CycleType'
  <2>1. /\ cycle' = [cycle EXCEPT ![n] = @ + 1]
        /\ own' = [own EXCEPT ![n] = now + drift'[n] + offset[n]]
        /\ total' = [total EXCEPT ![n] = own'[n]]
        /\ count' = [count EXCEPT ![n] = 1]
        /\ idx' = [idx EXCEPT ![n] = 1]
        /\ t0' = t0
    BY <1>2 DEF BeginCycle
  <2>2. own' \in [Node -> Int]
    BY <2>1 DEF ClockType, CycleType
  <2>3. total' \in [Node -> Int]
    BY <2>1, <2>2 DEF CycleType
  <2>4. \A m \in Node : idx'[m] <= Len(Peers[m]) + 1 /\ count'[m] <= idx'[m]
    BY <2>1, PeerCount DEF CycleType
  <2>5. /\ cycle' \in [Node -> Nat]
        /\ idx' \in [Node -> Nat \ {0}]
        /\ count' \in [Node -> Nat]
    BY <2>1 DEF CycleType
  <2>. QED BY <2>1, <2>2, <2>3, <2>4, <2>5 DEF CycleType
<1>3. ASSUME NEW n \in Node, SendRequest(n) PROVE CycleType'
  <2>1. t0' = [t0 EXCEPT ![n] = now] /\ UNCHANGED <<cycle, idx, own, total, count>>
    BY <1>3 DEF SendRequest
  <2>. QED BY <2>1 DEF CycleType, ClockType
<1>4. ASSUME NEW n \in Node, ReceiveReply(n) PROVE CycleType'
  <2>1. /\ LeaveAskPeer(n)
        /\ pc[n] = "wait"
        /\ UNCHANGED <<cycle, own>>
    BY <1>4 DEF ReceiveReply
  <2>2. PICK r \in replies :
          \/ /\ total' = [total EXCEPT ![n] = @ + r.time + (now - t0[n]) \div 2]
             /\ count' = [count EXCEPT ![n] = @ + 1]
          \/ UNCHANGED <<total, count>>
    BY <1>4 DEF ReceiveReply
  <2>3. r.time \in Int
    BY DEF NetType, Reply
  <2>4. (now - t0[n]) \div 2 \in Int
    BY DEF ClockType, CycleType
  <2>5. total' \in [Node -> Int]
    BY <2>2, <2>3, <2>4 DEF CycleType
  <2>. QED BY <2>1, <2>2, <2>5, LeaveAskPeerType
<1>5. ASSUME NEW n \in Node, Timeout(n) PROVE CycleType'
  <2>1. /\ LeaveAskPeer(n)
        /\ pc[n] = "wait"
        /\ UNCHANGED <<cycle, own, total, count>>
    BY <1>5 DEF Timeout, RecvTimesOut
  <2>2. total' \in [Node -> Int]
    BY <2>1 DEF CycleType
  <2>. QED BY <2>1, <2>2, LeaveAskPeerType
<1>6. ASSUME NEW n \in Node, Adjust(n) \/ Interrupt(n) PROVE CycleType'
  <2>1. EndOfCycle(n) /\ cycle' = cycle
    BY <1>6 DEF Adjust, Interrupt
  <2>2. CASE Adjust(n)
    <3>1. t0' = t0
      BY <2>2 DEF Adjust
    <3>. QED BY <2>1, <3>1, EndOfCycleType DEF CycleType
  <2>3. CASE Interrupt(n)
    <3>1. t0' = [t0 EXCEPT ![n] = 0]
      BY <2>3 DEF Interrupt
    <3>2. t0' \in [Node -> Nat]
      BY <3>1 DEF CycleType
    <3>. QED BY <2>1, <3>2, EndOfCycleType
  <2>. QED BY <1>6, <2>2, <2>3
<1>. QED
  BY <1>1, <1>2, <1>3, <1>4, <1>5, <1>6
  DEF Next, vars, MainThread, ServerThread, Launcher, Elapse, Start, Bind,
      BindFails, Serve, ServerExits, LeaveLoop, Wake, Finish, LauncherJoins,
      LauncherInterrupted, LauncherStarts, LauncherStops, LauncherEnds

\* Every step keeps the types of the messages.
LEMMA NetTypeStep ==
  ASSUME TypeOK, [Next]_vars
  PROVE  NetType'
<1>. USE DEF netVars, TypeOK
<1>1. CASE UNCHANGED netVars
  BY <1>1 DEF NetType
<1>2. ASSUME NEW n \in Node, Serve(n) PROVE NetType'
  <2>1. LocalTime(n) \in Int
    BY DEF LocalTime, Skew, ClockType
  <2>. QED BY <1>2, <2>1 DEF Serve, NetType, Request, Reply
<1>3. ASSUME NEW n \in Node, SendRequest(n) PROVE NetType'
  <2>1. Peers[n][idx[n]] \in Node
    <3>1. idx[n] \in 1..Len(Peers[n])
      BY <1>3, PeerCount DEF SendRequest, CycleType
    <3>. QED BY <3>1, PeerIsNode
  <2>2. cycle[n] \in Nat /\ idx[n] \in Nat
    BY DEF CycleType
  <2>3. [client |-> n, server |-> Peers[n][idx[n]], cycle |-> cycle[n],
         idx |-> idx[n]] \in Request
    BY <2>1, <2>2 DEF Request
  <2>. QED BY <1>3, <2>3 DEF SendRequest, NetType
<1>4. ASSUME NEW n \in Node,
             ReceiveReply(n) \/ Timeout(n) \/ Interrupt(n) \/ ServerExits(n)
      PROVE  NetType'
  <2>1. requests' \subseteq requests /\ replies' \subseteq replies
    BY <1>4 DEF ReceiveReply, Timeout, Interrupt, ServerExits, AfterClose
  <2>. QED BY <2>1 DEF NetType
<1>. QED
  BY <1>1, <1>2, <1>3, <1>4
  DEF Next, vars, MainThread, ServerThread, Launcher, Elapse, Start, Bind,
      BindFails, BeginCycle, LeaveLoop, Adjust, Wake, Finish, LauncherJoins,
      LauncherInterrupted, LauncherStarts, LauncherStops, LauncherEnds

\* Every step keeps the type invariant.
LEMMA TypeStep ==
  ASSUME TypeOK, CycleOK, [Next]_vars
  PROVE  TypeOK'
<1>1. ClockType'
  BY ClockTypeStep
<1>2. ThreadType'
  BY ThreadTypeStep DEF TypeOK
<1>3. CycleType'
  BY <1>1, CycleTypeStep
<1>4. NetType'
  BY NetTypeStep
<1>. QED BY <1>1, <1>2, <1>3, <1>4 DEF TypeOK

-----------------------------------------------------------------------------
(* What a step leaves alone *)

\* Time and the two histories never go back.
LEMMA Forward ==
  ASSUME TypeOK, CycleOK, TypeOK', [Next]_vars
  PROVE  now <= now' /\ drifted <= drifted' /\ late <= late'
<1>. USE DEF clockVars
<1>0. now \in Nat /\ drifted \in Nat /\ late \in Nat
  BY DEF TypeOK, ClockType
<1>1. CASE UNCHANGED <<now, clockVars>>
  BY <1>0, <1>1
<1>2. CASE Elapse
  BY <1>0, <1>2 DEF Elapse
<1>3. ASSUME NEW n \in Node, BeginCycle(n)
      PROVE  now <= now' /\ drifted <= drifted' /\ late <= late'
  <2>1. drifted <= drifted'
    <3>1. \A d \in DriftSteps : d \in Int /\ Abs(d) \in Nat
      BY ConfigAssumption DEF ValidNumber, Abs
    <3>. QED BY <1>0, <1>3, <3>1 DEF BeginCycle, InjectDrift
  <2>2. now' = now /\ late' = late
    BY <1>3 DEF BeginCycle
  <2>. QED BY <1>0, <2>1, <2>2
<1>4. ASSUME NEW n \in Node, Timeout(n)
      PROVE  now <= now' /\ drifted <= drifted' /\ late <= late'
  <2>1. now' = IF now < t0[n] + RecvTimeout THEN t0[n] + RecvTimeout ELSE now
    BY <1>4 DEF Timeout
  <2>2. t0[n] \in Nat /\ RecvTimeout \in Nat
    BY ConfigAssumption DEF TypeOK, CycleType
  <2>3. drifted' = drifted /\ late' = late
    BY <1>4 DEF Timeout
  <2>. QED BY <1>0, <2>1, <2>2, <2>3
<1>5. ASSUME NEW n \in Node, Adjust(n)
      PROVE  now <= now' /\ drifted <= drifted' /\ late <= late'
  <2>1. now' = now /\ drifted' = drifted
    BY <1>5 DEF Adjust
  <2>2. late' = late \/ late' = late + Spent(n) + Spent(n) \div 2
    BY <1>5 DEF Adjust, Spent
  <2>4. Spent(n) \in Nat /\ Spent(n) \div 2 \in Nat
    BY <1>5, SpentNat DEF Adjust, InCycle
  <2>. QED BY <1>0, <2>1, <2>2, <2>4
<1>. QED
  BY <1>1, <1>2, <1>3, <1>4, <1>5
  DEF Next, vars, MainThread, ServerThread, Launcher, Start, Bind, BindFails,
      Serve, ServerExits, LeaveLoop, SendRequest, ReceiveReply, Wake, Finish,
      Interrupt, LauncherJoins, LauncherInterrupted,
      LauncherStarts, LauncherStops,
      LauncherEnds

\* The clock of a node in the middle of a cycle is not touched.
LEMMA ClockUntouched ==
  ASSUME TypeOK, [Next]_vars, NEW m \in Node, pc'[m] \in InCycle
  PROVE  \/ BeginCycle(m)
         \/ /\ pc[m] \in InCycle
            /\ drift'[m] = drift[m]
            /\ offset'[m] = offset[m]
            /\ own'[m] = own[m]
<1>. USE DEF TypeOK, ClockType, ThreadType, CycleType, clockVars, cycleVars,
             InCycle
<1>1. CASE UNCHANGED <<pc, clockVars, cycleVars>>
  BY <1>1
<1>2. ASSUME NEW n \in Node, BeginCycle(n), n # m
      PROVE  /\ pc[m] \in InCycle
             /\ drift'[m] = drift[m]
             /\ offset'[m] = offset[m]
             /\ own'[m] = own[m]
  <2>1. pc'[m] = pc[m] /\ offset' = offset /\ own'[m] = own[m]
    BY <1>2 DEF BeginCycle
  <2>2. drift'[m] = drift[m]
    BY <1>2 DEF BeginCycle, InjectDrift
  <2>. QED BY <2>1, <2>2
<1>3. ASSUME NEW n \in Node, Adjust(n)
      PROVE  /\ pc[m] \in InCycle
             /\ drift'[m] = drift[m]
             /\ offset'[m] = offset[m]
             /\ own'[m] = own[m]
  <2>1. n # m
    BY <1>3 DEF Adjust
  <2>2. pc'[m] = pc[m] /\ drift' = drift
    BY <1>3, <2>1 DEF Adjust
  <2>3. offset'[m] = offset[m]
    BY <1>3, <2>1 DEF Adjust
  <2>4. own'[m] = own[m]
    BY <1>3, <2>1 DEF Adjust, EndOfCycle
  <2>. QED BY <2>2, <2>3, <2>4
<1>4. ASSUME NEW n \in Node, Interrupt(n)
      PROVE  /\ pc[m] \in InCycle
             /\ drift'[m] = drift[m]
             /\ offset'[m] = offset[m]
             /\ own'[m] = own[m]
  <2>1. n # m
    BY <1>4 DEF Interrupt
  <2>2. pc'[m] = pc[m] /\ drift' = drift /\ offset' = offset
    BY <1>4, <2>1 DEF Interrupt
  <2>3. own'[m] = own[m]
    BY <1>4, <2>1 DEF Interrupt, EndOfCycle
  <2>. QED BY <2>2, <2>3
<1>5. ASSUME NEW n \in Node,
             \/ Start(n) \/ LeaveLoop(n) \/ SendRequest(n) \/ ReceiveReply(n)
             \/ Timeout(n) \/ Wake(n) \/ Finish(n)
      PROVE  /\ pc[m] \in InCycle
             /\ drift'[m] = drift[m]
             /\ offset'[m] = offset[m]
             /\ own'[m] = own[m]
  <2>1. UNCHANGED <<drift, offset, own>>
    BY <1>5 DEF Start, LeaveLoop, SendRequest, ReceiveReply, Timeout, Wake, Finish
  <2>2. pc[m] \in InCycle
    BY <1>5 DEF Start, LeaveLoop, SendRequest, ReceiveReply, Timeout, Wake,
                Finish, LeaveAskPeer, RecvTimesOut
  <2>. QED BY <2>1, <2>2
<1>. QED
  BY <1>1, <1>2, <1>3, <1>4, <1>5
  DEF Next, vars, MainThread, ServerThread, Launcher, Elapse, Bind, BindFails,
      Serve, ServerExits, LauncherJoins, LauncherInterrupted,
      LauncherStarts, LauncherStops,
      LauncherEnds

\* Nor are its samples, except by its own reply.
LEMMA SamplesUntouched ==
  ASSUME TypeOK, [Next]_vars, NEW m \in Node, pc'[m] \in InCycle
  PROVE  \/ BeginCycle(m)
         \/ ReceiveReply(m)
         \/ count'[m] = count[m] /\ total'[m] = total[m]
<1>. USE DEF TypeOK, ThreadType, CycleType, cycleVars, InCycle
<1>1. CASE UNCHANGED <<count, total>>
  BY <1>1
<1>2. ASSUME NEW n \in Node, BeginCycle(n), n # m
      PROVE  count'[m] = count[m] /\ total'[m] = total[m]
  BY <1>2 DEF BeginCycle
<1>3. ASSUME NEW n \in Node, ReceiveReply(n), n # m
      PROVE  count'[m] = count[m] /\ total'[m] = total[m]
  BY <1>3 DEF ReceiveReply
<1>4. ASSUME NEW n \in Node, Adjust(n) \/ Interrupt(n)
      PROVE  count'[m] = count[m] /\ total'[m] = total[m]
  <2>1. n # m /\ EndOfCycle(n)
    BY <1>4 DEF Adjust, Interrupt
  <2>. QED BY <2>1 DEF EndOfCycle
<1>. QED
  BY <1>1, <1>2, <1>3, <1>4
  DEF Next, vars, MainThread, ServerThread, Launcher, Elapse, Start, Bind,
      BindFails, Serve, ServerExits, LeaveLoop, SendRequest, Timeout, Wake,
      Finish, LauncherJoins, LauncherInterrupted,
      LauncherStarts, LauncherStops, LauncherEnds

\* Nor is its open socket.
LEMMA SocketUntouched ==
  ASSUME TypeOK, [Next]_vars, NEW m \in Node, pc'[m] = "wait"
  PROVE  \/ SendRequest(m)
         \/ pc[m] = "wait" /\ t0'[m] = t0[m] /\ idx'[m] = idx[m]
<1>. USE DEF TypeOK, ThreadType, CycleType, cycleVars
<1>1. CASE UNCHANGED <<pc, t0, idx>>
  BY <1>1
<1>2. ASSUME NEW n \in Node, SendRequest(n), n # m
      PROVE  pc[m] = "wait" /\ t0'[m] = t0[m] /\ idx'[m] = idx[m]
  BY <1>2 DEF SendRequest
<1>3. ASSUME NEW n \in Node, ReceiveReply(n) \/ Timeout(n)
      PROVE  pc[m] = "wait" /\ t0'[m] = t0[m] /\ idx'[m] = idx[m]
  <2>1. LeaveAskPeer(n)
    BY <1>3 DEF ReceiveReply, Timeout
  <2>. QED BY <2>1 DEF LeaveAskPeer
<1>4. ASSUME NEW n \in Node, Adjust(n) \/ Interrupt(n)
      PROVE  pc[m] = "wait" /\ t0'[m] = t0[m] /\ idx'[m] = idx[m]
  <2>1. n # m /\ pc'[m] = pc[m] /\ t0'[m] = t0[m] /\ EndOfCycle(n)
    BY <1>4 DEF Adjust, Interrupt
  <2>. QED BY <2>1 DEF EndOfCycle
<1>5. ASSUME NEW n \in Node,
             Start(n) \/ BeginCycle(n) \/ LeaveLoop(n) \/ Wake(n) \/ Finish(n)
      PROVE  pc[m] = "wait" /\ t0'[m] = t0[m] /\ idx'[m] = idx[m]
  <2>1. n # m
    BY <1>5 DEF Start, BeginCycle, LeaveLoop, Wake, Finish
  <2>. QED BY <1>5, <2>1 DEF Start, BeginCycle, LeaveLoop, Wake, Finish
<1>. QED
  BY <1>1, <1>2, <1>3, <1>4, <1>5
  DEF Next, vars, MainThread, ServerThread, Launcher, Elapse, Bind, BindFails,
      Serve, ServerExits, LauncherJoins, LauncherInterrupted,
      LauncherStarts, LauncherStops,
      LauncherEnds

-----------------------------------------------------------------------------
(* The parts of the invariant, one lemma each *)

\* Of a node that is in a cycle before and after the step: own_time was read
\* at the same real moment, and its bounds only widen.
LEMMA BoundsWiden ==
  ASSUME TypeOK, CycleOK, TypeOK', [Next]_vars, NEW m \in Node,
         pc'[m] \in InCycle, ~BeginCycle(m)
  PROVE  /\ pc[m] \in InCycle
         /\ ReadAt(m)' = ReadAt(m)
         /\ Skew(m)' = Skew(m)
         /\ Spent(m) <= Spent(m)'
         /\ Spent(m)' \in Nat
         /\ SampleLow(m) \in Int /\ SampleLow(m)' \in Int
         /\ SampleHigh(m) \in Int /\ SampleHigh(m)' \in Int
         /\ FilterLow(m) \in Int /\ FilterLow(m)' \in Int
         /\ FilterHigh(m) \in Int /\ FilterHigh(m)' \in Int
         /\ SampleLow(m)' <= SampleLow(m)
         /\ SampleHigh(m) <= SampleHigh(m)'
         /\ FilterLow(m)' = FilterLow(m)
         /\ FilterHigh(m) <= FilterHigh(m)'
<1>1. /\ pc[m] \in InCycle
      /\ drift'[m] = drift[m] /\ offset'[m] = offset[m] /\ own'[m] = own[m]
  BY ClockUntouched
<1>2. Skew(m)' = Skew(m) /\ ReadAt(m)' = ReadAt(m)
  BY <1>1 DEF Skew, ReadAt
<1>3. now <= now' /\ drifted <= drifted' /\ late <= late'
  BY Forward
<1>4. /\ now \in Nat /\ drifted \in Nat /\ late \in Nat
      /\ now' \in Nat /\ drifted' \in Nat /\ late' \in Nat
      /\ HalfSpread \in Nat /\ MaxSkew \in Nat
      /\ own[m] \in Int /\ ReadAt(m) \in Int
  BY ReadAtInt, ConfigAssumption DEF TypeOK, ClockType, CycleType
<1>5. Spent(m) \in Nat /\ Spent(m) \div 2 \in Nat
  BY <1>1, SpentNat
<1>6. Spent(m)' = now' - ReadAt(m) /\ Spent(m) = now - ReadAt(m)
  BY <1>2 DEF Spent
<1>7. Spent(m) <= Spent(m)' /\ Spent(m)' \in Nat
  BY <1>3, <1>4, <1>5, <1>6
<1>8. Spent(m) \div 2 <= Spent(m)' \div 2 /\ Spent(m)' \div 2 \in Int
  BY <1>5, <1>7, HalfMono
<1>9. /\ SampleLow(m) \in Int /\ SampleLow(m)' \in Int
      /\ SampleLow(m)' <= SampleLow(m)
  BY <1>2, <1>3, <1>4 DEF SampleLow
<1>10. /\ SampleHigh(m) \in Int /\ SampleHigh(m)' \in Int
       /\ SampleHigh(m) <= SampleHigh(m)'
  BY <1>2, <1>3, <1>4, <1>5, <1>7, <1>8 DEF SampleHigh
<1>11. /\ FilterLow(m) \in Int /\ FilterLow(m)' \in Int
       /\ FilterLow(m)' = FilterLow(m)
  BY <1>1, <1>4 DEF FilterLow
<1>12. /\ FilterHigh(m) \in Int /\ FilterHigh(m)' \in Int
       /\ FilterHigh(m) <= FilterHigh(m)'
  BY <1>1, <1>4, <1>5, <1>7, <1>8 DEF FilterHigh
<1>. QED BY <1>1, <1>2, <1>7, <1>9, <1>10, <1>11, <1>12

\* A cycle that has just begun has one sample, the node's own clock.
LEMMA Begun ==
  ASSUME TypeOK, TypeOK', NEW n \in Node, BeginCycle(n)
  PROVE  /\ ReadAt(n)' = now /\ now' = now
         /\ pc'[n] = "ask"
         /\ count'[n] = 1
         /\ total'[n] = own'[n]
         /\ own'[n] = now + Skew(n)'
<1>1. /\ own'[n] = now + drift'[n] + offset'[n] /\ now' = now
      /\ pc'[n] = "ask" /\ count'[n] = 1 /\ total'[n] = own'[n]
  BY DEF BeginCycle, TypeOK, ThreadType, CycleType
<1>2. drift'[n] \in Int /\ offset'[n] \in Int /\ now \in Int
  BY DEF TypeOK, ClockType
<1>3. own'[n] = now + Skew(n)' /\ ReadAt(n)' = own'[n] - Skew(n)'
  BY <1>1, <1>2 DEF Skew, ReadAt
<1>4. Skew(n)' \in Int
  BY <1>2 DEF Skew
<1>. QED BY <1>1, <1>2, <1>3, <1>4

\* Every step keeps CycleOK: what a node in a cycle knows of its own readings.
LEMMA CycleStep ==
  ASSUME TypeOK, CycleOK, TypeOK', [Next]_vars
  PROVE  CycleOK'
<1>. SUFFICES ASSUME NEW m \in Node
              PROVE  /\ pc'[m] \in InCycle => ReadAt(m)' <= now' /\ count'[m] >= 1
                     /\ pc'[m] = "wait" => /\ idx'[m] <= Len(Peers[m])
                                           /\ ReadAt(m)' <= t0'[m]
                                           /\ t0'[m] <= now'
  BY DEF CycleOK
<1>0. now \in Nat /\ now' \in Nat /\ now <= now' /\ ReadAt(m) \in Int
  BY Forward, ReadAtInt DEF TypeOK, ClockType
<1>1. ASSUME pc'[m] \in InCycle PROVE ReadAt(m)' <= now'
  <2>1. CASE BeginCycle(m)
    BY <2>1, <1>0, Begun
  <2>2. CASE ~BeginCycle(m)
    <3>1. pc[m] \in InCycle /\ ReadAt(m)' = ReadAt(m)
      BY <1>1, <2>2, BoundsWiden
    <3>2. ReadAt(m) <= now
      BY <3>1 DEF CycleOK
    <3>. QED BY <3>1, <3>2, <1>0
  <2>. QED BY <2>1, <2>2
<1>2. ASSUME pc'[m] \in InCycle PROVE count'[m] >= 1
  <2>1. CASE BeginCycle(m)
    BY <2>1, Begun
  <2>2. CASE ReceiveReply(m)
    <3>1. pc[m] \in InCycle /\ count[m] \in Nat
      BY <2>2 DEF ReceiveReply, InCycle, TypeOK, CycleType
    <3>2. count'[m] = count[m] \/ count'[m] = count[m] + 1
      BY <2>2 DEF ReceiveReply, TypeOK, CycleType
    <3>. QED BY <3>1, <3>2 DEF CycleOK
  <2>3. CASE ~BeginCycle(m) /\ ~ReceiveReply(m)
    <3>1. pc[m] \in InCycle
      BY <1>2, <2>3, ClockUntouched
    <3>2. count'[m] = count[m]
      BY <1>2, <2>3, SamplesUntouched
    <3>. QED BY <3>1, <3>2 DEF CycleOK
  <2>. QED BY <2>1, <2>2, <2>3
<1>3. ASSUME pc'[m] = "wait"
      PROVE  idx'[m] <= Len(Peers[m]) /\ ReadAt(m)' <= t0'[m] /\ t0'[m] <= now'
  <2>0. pc'[m] \in InCycle /\ ~BeginCycle(m)
    BY <1>3, Begun DEF InCycle
  <2>1. pc[m] \in InCycle /\ ReadAt(m)' = ReadAt(m)
    BY <2>0, BoundsWiden
  <2>2. ReadAt(m) <= now
    BY <2>1 DEF CycleOK
  <2>3. CASE SendRequest(m)
    <3>1. t0'[m] = now /\ now' = now /\ idx'[m] = idx[m] /\ idx[m] <= Len(Peers[m])
      BY <2>3 DEF SendRequest, TypeOK, CycleType
    <3>. QED BY <3>1, <2>1, <2>2, <1>0
  <2>4. CASE ~SendRequest(m)
    <3>1. pc[m] = "wait" /\ t0'[m] = t0[m] /\ idx'[m] = idx[m]
      BY <1>3, <2>4, SocketUntouched
    <3>2. idx[m] <= Len(Peers[m]) /\ ReadAt(m) <= t0[m] /\ t0[m] <= now
      BY <3>1 DEF CycleOK
    <3>3. t0[m] \in Nat
      BY DEF TypeOK, CycleType
    <3>. QED BY <3>1, <3>2, <3>3, <2>1, <1>0
  <2>. QED BY <2>3, <2>4
<1>. QED BY <1>1, <1>2, <1>3

\* Only the head and the end of its own cycles move a node's clock.
LEMMA SkewUntouched ==
  ASSUME TypeOK, [Next]_vars, NEW m \in Node, ~BeginCycle(m), ~Adjust(m)
  PROVE  drift'[m] = drift[m] /\ offset'[m] = offset[m]
<1>1. CASE UNCHANGED <<drift, offset>>
  BY <1>1
<1>2. ASSUME NEW n \in Node, BeginCycle(n), n # m
      PROVE  drift'[m] = drift[m] /\ offset'[m] = offset[m]
  BY <1>2 DEF BeginCycle, InjectDrift, TypeOK, ClockType
<1>3. ASSUME NEW n \in Node, Adjust(n), n # m
      PROVE  drift'[m] = drift[m] /\ offset'[m] = offset[m]
  BY <1>3 DEF Adjust, TypeOK, ClockType
<1>. QED
  BY <1>1, <1>2, <1>3
  DEF Next, vars, clockVars, MainThread, ServerThread, Launcher, Elapse,
      Start, Bind, BindFails, Serve, ServerExits, LeaveLoop, SendRequest,
      ReceiveReply, Timeout, Wake, Finish, Interrupt, LauncherJoins,
      LauncherInterrupted, LauncherStarts, LauncherStops, LauncherEnds

\* What an adjustment does to the clock, in terms of the average.
LEMMA Adjusted ==
  ASSUME TypeOK, CycleOK, SamplesOK, FilteredOK, NEW n \in Node, Adjust(n),
         count[n] # 1
  PROVE  /\ Average(n) \in Int
         /\ SampleLow(n) <= Average(n) /\ Average(n) <= SampleHigh(n)
         /\ FilterLow(n) <= Average(n) /\ Average(n) <= FilterHigh(n)
         /\ offset'[n] = offset[n] + (Average(n) - own[n])
         /\ drift' = drift /\ drifted' = drifted
         /\ late' = late + Spent(n) + Spent(n) \div 2
         /\ Spent(n) \in Nat /\ Spent(n) \div 2 \in Nat
<1>1. pc[n] \in InCycle
  BY DEF Adjust, InCycle
<1>2. Spent(n) \in Nat /\ Spent(n) \div 2 \in Nat
  BY <1>1, SpentNat
<1>3. count[n] \in Nat \ {0} /\ total[n] \in Int /\ own[n] \in Int
  BY <1>1 DEF CycleOK, TypeOK, CycleType
<1>4. /\ now \in Nat /\ drifted \in Nat /\ late \in Nat
      /\ HalfSpread \in Nat /\ MaxSkew \in Nat /\ ReadAt(n) \in Int
  BY ReadAtInt, ConfigAssumption DEF TypeOK, ClockType
<1>5. /\ SampleLow(n) \in Int /\ SampleHigh(n) \in Int
      /\ FilterLow(n) \in Int /\ FilterHigh(n) \in Int
  BY <1>2, <1>3, <1>4 DEF SampleLow, SampleHigh, FilterLow, FilterHigh
<1>6. /\ count[n] * SampleLow(n) <= total[n]
      /\ total[n] <= count[n] * SampleHigh(n)
      /\ count[n] * FilterLow(n) <= total[n]
      /\ total[n] <= count[n] * FilterHigh(n)
  BY <1>1 DEF SamplesOK, FilteredOK
<1>7. /\ Average(n) \in Int
      /\ SampleLow(n) <= Average(n) /\ Average(n) <= SampleHigh(n)
  BY <1>3, <1>5, <1>6, AverageBounds DEF Average
<1>8. FilterLow(n) <= Average(n) /\ Average(n) <= FilterHigh(n)
  BY <1>3, <1>5, <1>6, AverageBounds DEF Average
<1>9. /\ offset'[n] = offset[n] + (Average(n) - own[n])
      /\ drift' = drift /\ drifted' = drifted
      /\ late' = late + Spent(n) + Spent(n) \div 2
  BY DEF Adjust, Spent, TypeOK, ClockType
<1>. QED BY <1>2, <1>7, <1>8, <1>9

\* Every step keeps every clock in the envelope.
LEMMA EnvelopeStep ==
  ASSUME Inv, TypeOK', [Next]_vars
  PROVE  Envelope'
<1>. USE DEF Inv
<1>. SUFFICES ASSUME NEW m \in Node
              PROVE  /\ -HalfSpread - drifted' <= Skew(m)'
                     /\ Skew(m)' <= HalfSpread + drifted' + late'
  BY DEF Envelope
<1>0. /\ now \in Nat /\ drifted \in Nat /\ late \in Nat
      /\ now' \in Nat /\ drifted' \in Nat /\ late' \in Nat
      /\ drift[m] \in Int /\ offset[m] \in Int
      /\ drifted <= drifted' /\ late <= late'
      /\ HalfSpread \in Nat
  BY Forward, ConfigAssumption DEF TypeOK, ClockType
<1>1. /\ Skew(m) = drift[m] + offset[m]
      /\ Skew(m)' = drift'[m] + offset'[m]
      /\ -HalfSpread - drifted <= Skew(m)
      /\ Skew(m) <= HalfSpread + drifted + late
  BY DEF Skew, Envelope
<1>2. CASE BeginCycle(m)
  <2>1. offset'[m] = offset[m] /\ late' = late
    BY <1>2 DEF BeginCycle
  <2>2. \/ drift'[m] = drift[m]
        \/ \E d \in DriftSteps : drift'[m] = drift[m] + d /\ drifted' = drifted + Abs(d)
    BY <1>2 DEF BeginCycle, InjectDrift, TypeOK, ClockType
  <2>3. ASSUME NEW d \in DriftSteps,
               drift'[m] = drift[m] + d, drifted' = drifted + Abs(d)
        PROVE  /\ -HalfSpread - drifted' <= Skew(m)'
               /\ Skew(m)' <= HalfSpread + drifted' + late'
    <3>1. d \in Int /\ Abs(d) \in Nat /\ -Abs(d) <= d /\ d <= Abs(d)
      BY ConfigAssumption DEF ValidNumber, Abs
    <3>. QED BY <1>0, <1>1, <2>1, <2>3, <3>1
  <2>4. CASE drift'[m] = drift[m]
    BY <1>0, <1>1, <2>1, <2>4
  <2>. QED BY <2>2, <2>3, <2>4
<1>3. CASE Adjust(m) /\ count[m] # 1
  <2>1. /\ Average(m) \in Int
        /\ SampleLow(m) <= Average(m) /\ Average(m) <= SampleHigh(m)
        /\ offset'[m] = offset[m] + (Average(m) - own[m])
        /\ drift' = drift /\ drifted' = drifted
        /\ late' = late + Spent(m) + Spent(m) \div 2
        /\ Spent(m) \in Nat /\ Spent(m) \div 2 \in Nat
    BY <1>3, Adjusted
  <2>2. own[m] = ReadAt(m) + Skew(m) /\ ReadAt(m) \in Int /\ Skew(m) \in Int
    BY ReadAtInt
  <2>3. Skew(m)' = Average(m) - ReadAt(m)
    BY <1>0, <1>1, <2>1, <2>2
  <2>. QED BY <1>0, <2>1, <2>2, <2>3 DEF SampleLow, SampleHigh
<1>4. CASE Adjust(m) /\ count[m] = 1
  BY <1>0, <1>1, <1>4 DEF Adjust
<1>5. CASE ~BeginCycle(m) /\ ~Adjust(m)
  <2>1. drift'[m] = drift[m] /\ offset'[m] = offset[m]
    BY <1>5, SkewUntouched
  <2>. QED BY <1>0, <1>1, <2>1
<1>. QED BY <1>2, <1>3, <1>4, <1>5

\* A reply on its way was there before the step, or a server has just sent it
\* to an open socket.
LEMMA WhereReplies ==
  ASSUME TypeOK, [Next]_vars, NEW r \in replies'
  PROVE  \/ r \in replies
         \/ \E n \in Node : /\ r.time = LocalTime(n)
                            /\ r.client \in Node
                            /\ pc[r.client] = "wait"
                            /\ UNCHANGED <<now, pc, clockVars, t0>>
<1>1. CASE replies' \subseteq replies
  BY <1>1
<1>2. ASSUME NEW n \in Node, Serve(n)
      PROVE  \/ r \in replies
             \/ /\ r.time = LocalTime(n)
                /\ r.client \in Node
                /\ pc[r.client] = "wait"
                /\ UNCHANGED <<now, pc, clockVars, t0>>
  <2>1. PICK q \in requests :
          replies' = IF SameSocket(q)
                     THEN replies \union {[client |-> q.client, time |-> LocalTime(n)]}
                     ELSE replies
    BY <1>2 DEF Serve
  <2>2. q.client \in Node
    BY DEF TypeOK, NetType, Request
  <2>3. UNCHANGED <<now, pc, clockVars, t0>>
    BY <1>2 DEF Serve, cycleVars
  <2>4. CASE r \notin replies
    <3>1. SameSocket(q) /\ r = [client |-> q.client, time |-> LocalTime(n)]
      BY <2>1, <2>4
    <3>. QED BY <2>2, <2>3, <3>1 DEF SameSocket
  <2>. QED BY <2>4
<1>. QED
  BY <1>1, <1>2
  DEF Next, vars, netVars, MainThread, ServerThread, Launcher, Elapse, Start,
      Bind, BindFails, ServerExits, BeginCycle, LeaveLoop, SendRequest,
      ReceiveReply, Timeout, Adjust, Wake, Finish, Interrupt, LauncherJoins,
      LauncherInterrupted, LauncherStarts, LauncherStops, LauncherEnds

\* The socket of a node that stops waiting is closed, with what it held.
LEMMA SocketClosed ==
  ASSUME TypeOK, [Next]_vars, NEW m \in Node, pc[m] = "wait", pc'[m] # "wait",
         NEW r \in replies'
  PROVE  r.client # m
<1>. USE DEF TypeOK, ThreadType
<1>1. CASE pc' = pc
  BY <1>1
<1>2. ASSUME NEW n \in Node, ReceiveReply(n) \/ Timeout(n) \/ Interrupt(n)
      PROVE  r.client # m
  <2>1. pc' = [pc EXCEPT ![n] = "ask"] \/ pc' = [pc EXCEPT ![n] = "done"]
    BY <1>2 DEF ReceiveReply, Timeout, Interrupt, LeaveAskPeer
  <2>2. n = m
    BY <2>1
  <2>3. replies' \subseteq replies \ LostWithSocket(n)
    BY <1>2 DEF ReceiveReply, Timeout, Interrupt
  <2>. QED BY <2>2, <2>3 DEF LostWithSocket
<1>3. ASSUME NEW n \in Node,
             \/ Start(n) \/ BeginCycle(n) \/ LeaveLoop(n) \/ SendRequest(n)
             \/ Adjust(n) \/ Wake(n) \/ Finish(n)
      PROVE  FALSE
  <2>1. pc[n] # "wait"
    BY <1>3 DEF Start, BeginCycle, LeaveLoop, SendRequest, Adjust, Wake, Finish
  <2>2. pc'[m] = pc[m]
    BY <1>3, <2>1
    DEF Start, BeginCycle, LeaveLoop, SendRequest, Adjust, Wake, Finish
  <2>. QED BY <2>2
<1>. QED
  BY <1>1, <1>2, <1>3
  DEF Next, vars, MainThread, ServerThread, Launcher, Elapse, Bind, BindFails,
      Serve, ServerExits, LauncherJoins, LauncherInterrupted,
      LauncherStarts, LauncherStops,
      LauncherEnds

\* Every step keeps RepliesOK: a reply on its way belongs to a socket that waits
\* for it and lies within the envelope.
LEMMA RepliesStep ==
  ASSUME Inv, TypeOK', [Next]_vars
  PROVE  RepliesOK'
<1>. USE DEF Inv
<1>. SUFFICES ASSUME NEW r \in replies'
              PROVE  /\ pc'[r.client] = "wait"
                     /\ t0'[r.client] - HalfSpread - drifted' <= r.time
                     /\ r.time <= now' + HalfSpread + drifted' + late'
  BY DEF RepliesOK
<1>0. /\ now \in Nat /\ drifted \in Nat /\ late \in Nat
      /\ now' \in Nat /\ drifted' \in Nat /\ late' \in Nat
      /\ now <= now' /\ drifted <= drifted' /\ late <= late'
      /\ HalfSpread \in Nat
  BY Forward, ConfigAssumption DEF TypeOK, ClockType
<1>1. CASE r \in replies
  <2>1. r.client \in Node /\ r.time \in Int
    BY <1>1 DEF TypeOK, NetType, Reply
  <2>2. /\ pc[r.client] = "wait"
        /\ t0[r.client] - HalfSpread - drifted <= r.time
        /\ r.time <= now + HalfSpread + drifted + late
    BY <1>1 DEF RepliesOK
  <2>3. pc'[r.client] = "wait"
    BY <2>1, <2>2, SocketClosed
  <2>4. t0'[r.client] = t0[r.client] /\ t0[r.client] \in Nat
    BY <2>1, <2>2, <2>3, SocketUntouched DEF SendRequest, TypeOK, CycleType
  <2>. QED BY <1>0, <2>1, <2>2, <2>3, <2>4
<1>2. ASSUME NEW n \in Node,
             r.time = LocalTime(n),
             r.client \in Node,
             pc[r.client] = "wait",
             UNCHANGED <<now, pc, clockVars, t0>>
      PROVE  /\ pc'[r.client] = "wait"
             /\ t0'[r.client] - HalfSpread - drifted' <= r.time
             /\ r.time <= now' + HalfSpread + drifted' + late'
  <2>1. t0[r.client] \in Nat /\ t0[r.client] <= now
    BY <1>2 DEF CycleOK, TypeOK, CycleType
  <2>2. /\ Skew(n) \in Int
        /\ -HalfSpread - drifted <= Skew(n)
        /\ Skew(n) <= HalfSpread + drifted + late
    BY ReadAtInt DEF Envelope
  <2>3. r.time = now + Skew(n)
    BY <1>2 DEF LocalTime
  <2>4. /\ pc' = pc /\ t0' = t0 /\ now' = now /\ drifted' = drifted
        /\ late' = late
    BY <1>2 DEF clockVars
  <2>. QED BY <1>0, <1>2, <2>1, <2>2, <2>3, <2>4
<1>. QED BY <1>1, <1>2, WhereReplies

\* A reply that is accepted: the sample is inside the bounds of both kinds.
LEMMA Accepted ==
  ASSUME Inv, NEW m \in Node, pc[m] = "wait", NEW r \in replies, r.client = m,
         Plausible(m, r.time)
  PROVE  LET x == r.time + (now - t0[m]) \div 2
         IN  /\ x \in Int
             /\ SampleLow(m) <= x /\ x <= SampleHigh(m)
             /\ FilterLow(m) <= x /\ x <= FilterHigh(m)
<1>. USE DEF Inv
<1>. DEFINE half == (now - t0[m]) \div 2
<1>1. /\ now \in Nat /\ drifted \in Nat /\ late \in Nat
      /\ t0[m] \in Nat /\ own[m] \in Int
      /\ HalfSpread \in Nat /\ MaxSkew \in Nat
      /\ r.time \in Int
  BY ConfigAssumption DEF TypeOK, ClockType, CycleType, NetType, Reply
<1>2. ReadAt(m) \in Int /\ Skew(m) \in Int /\ own[m] = ReadAt(m) + Skew(m)
  BY ReadAtInt
<1>3. ReadAt(m) <= t0[m] /\ t0[m] <= now
  BY DEF CycleOK
<1>4. /\ Spent(m) \in Nat /\ Spent(m) = now - ReadAt(m)
      /\ now - t0[m] \in Nat /\ now - t0[m] <= Spent(m)
  BY <1>1, <1>2, <1>3 DEF Spent
<1>5. half \in Nat /\ half <= Spent(m) \div 2 /\ Spent(m) \div 2 \in Nat
  BY <1>4, HalfMono, HalfNat
<1>6. /\ t0[m] - HalfSpread - drifted <= r.time
      /\ r.time <= now + HalfSpread + drifted + late
  BY DEF RepliesOK
<1>7. /\ r.time - (now + Skew(m)) <= MaxSkew
      /\ -MaxSkew <= r.time - (now + Skew(m))
  BY <1>1, <1>2 DEF Plausible, Abs, LocalTime
<1>. HIDE DEF half
<1>8. SampleLow(m) <= r.time + half /\ r.time + half <= SampleHigh(m)
  BY <1>1, <1>2, <1>3, <1>4, <1>5, <1>6 DEF SampleLow, SampleHigh
<1>9. FilterLow(m) <= r.time + half /\ r.time + half <= FilterHigh(m)
  BY <1>1, <1>2, <1>3, <1>4, <1>5, <1>7 DEF FilterLow, FilterHigh
<1>. QED BY <1>1, <1>5, <1>8, <1>9 DEF half

\* Every step keeps the sums of the samples within the bounds of the envelope.
LEMMA SamplesStep ==
  ASSUME Inv, TypeOK', CycleOK', Envelope', [Next]_vars
  PROVE  SamplesOK' /\ FilteredOK'
<1>. USE DEF Inv
<1>. SUFFICES ASSUME NEW m \in Node, pc'[m] \in InCycle
              PROVE  /\ count'[m] * SampleLow(m)' <= total'[m]
                     /\ total'[m] <= count'[m] * SampleHigh(m)'
                     /\ count'[m] * FilterLow(m)' <= total'[m]
                     /\ total'[m] <= count'[m] * FilterHigh(m)'
  BY DEF SamplesOK, FilteredOK
<1>0. count[m] \in Nat /\ total[m] \in Int
  BY DEF TypeOK, CycleType
<1>1. CASE BeginCycle(m)
  <2>1. /\ ReadAt(m)' = now /\ now' = now /\ count'[m] = 1
        /\ total'[m] = own'[m] /\ own'[m] = now + Skew(m)'
    BY <1>1, Begun
  <2>2. /\ now \in Nat /\ drifted' \in Nat /\ late' \in Nat
        /\ HalfSpread \in Nat /\ MaxSkew \in Nat
        /\ own'[m] \in Int /\ Skew(m)' \in Int
    <3>1. now \in Nat /\ drifted' \in Nat /\ late' \in Nat /\ Skew(m)' \in Int
      BY DEF TypeOK, ClockType, Skew
    <3>2. own'[m] \in Int
      BY DEF TypeOK, CycleType
    <3>. QED BY <3>1, <3>2, ConfigAssumption
  <2>3. /\ -HalfSpread - drifted' <= Skew(m)'
        /\ Skew(m)' <= HalfSpread + drifted' + late'
    BY DEF Envelope
  <2>4. Spent(m)' = 0 /\ Spent(m)' \div 2 = 0
    BY <2>1, <2>2 DEF Spent
  <2>5. /\ SampleLow(m)' <= total'[m] /\ total'[m] <= SampleHigh(m)'
        /\ FilterLow(m)' <= total'[m] /\ total'[m] <= FilterHigh(m)'
        /\ SampleLow(m)' \in Int /\ SampleHigh(m)' \in Int
        /\ FilterLow(m)' \in Int /\ FilterHigh(m)' \in Int
    BY <2>1, <2>2, <2>3, <2>4 DEF SampleLow, SampleHigh, FilterLow, FilterHigh
  <2>. QED BY <2>1, <2>5
<1>2. CASE ~BeginCycle(m)
  <2>1. /\ pc[m] \in InCycle
        /\ SampleLow(m) \in Int /\ SampleLow(m)' \in Int
        /\ SampleHigh(m) \in Int /\ SampleHigh(m)' \in Int
        /\ FilterLow(m) \in Int /\ FilterLow(m)' \in Int
        /\ FilterHigh(m) \in Int /\ FilterHigh(m)' \in Int
        /\ SampleLow(m)' <= SampleLow(m)
        /\ SampleHigh(m) <= SampleHigh(m)'
        /\ FilterLow(m)' <= FilterLow(m)
        /\ FilterHigh(m) <= FilterHigh(m)'
    BY <1>2, BoundsWiden
  <2>2. /\ count[m] * SampleLow(m) <= total[m]
        /\ total[m] <= count[m] * SampleHigh(m)
        /\ count[m] * FilterLow(m) <= total[m]
        /\ total[m] <= count[m] * FilterHigh(m)
    BY <2>1 DEF SamplesOK, FilteredOK
  <2>3. CASE count'[m] = count[m] /\ total'[m] = total[m]
    <3>1. /\ count[m] * SampleLow(m)' <= total[m]
          /\ total[m] <= count[m] * SampleHigh(m)'
      BY <1>0, <2>1, <2>2, SameSamples
    <3>2. /\ count[m] * FilterLow(m)' <= total[m]
          /\ total[m] <= count[m] * FilterHigh(m)'
      BY <1>0, <2>1, <2>2, SameSamples
    <3>. QED BY <2>3, <3>1, <3>2
  <2>4. CASE ReceiveReply(m)
    <3>1. PICK r \in replies :
            /\ r.client = m
            /\ IF Plausible(m, r.time)
               THEN /\ total' = [total EXCEPT
                                   ![m] = @ + r.time + (now - t0[m]) \div 2]
                    /\ count' = [count EXCEPT ![m] = @ + 1]
               ELSE UNCHANGED <<total, count>>
      BY <2>4 DEF ReceiveReply
    <3>2. CASE ~Plausible(m, r.time)
      BY <2>3, <3>1, <3>2
    <3>3. CASE Plausible(m, r.time)
      <4>. DEFINE half == (now - t0[m]) \div 2
                  x == r.time + half
      <4>1. pc[m] = "wait"
        BY <2>4 DEF ReceiveReply
      <4>2. /\ x \in Int
            /\ SampleLow(m) <= x /\ x <= SampleHigh(m)
            /\ FilterLow(m) <= x /\ x <= FilterHigh(m)
        BY <3>1, <3>3, <4>1, Accepted
      <4>3. r.time \in Int /\ half \in Int
        <5>1. r.time \in Int
          BY DEF TypeOK, NetType, Reply
        <5>2. now \in Nat
          BY DEF TypeOK, ClockType
        <5>3. t0[m] \in Nat
          BY DEF TypeOK, CycleType
        <5>. QED BY <5>1, <5>2, <5>3
      <4>4. count'[m] = count[m] + 1 /\ total'[m] = total[m] + r.time + half
        BY <3>1, <3>3 DEF TypeOK, CycleType
      <4>. HIDE DEF half
      <4>5. total'[m] = total[m] + x
        BY <1>0, <4>3, <4>4
      <4>. HIDE DEF x
      <4>6. /\ SampleLow(m)' <= x /\ x <= SampleHigh(m)'
            /\ FilterLow(m)' <= x /\ x <= FilterHigh(m)'
        BY <2>1, <4>2
      <4>7. /\ (count[m] + 1) * SampleLow(m)' <= total[m] + x
            /\ total[m] + x <= (count[m] + 1) * SampleHigh(m)'
        BY <1>0, <2>1, <2>2, <4>2, <4>6, OneMoreSample
      <4>8. /\ (count[m] + 1) * FilterLow(m)' <= total[m] + x
            /\ total[m] + x <= (count[m] + 1) * FilterHigh(m)'
        BY <1>0, <2>1, <2>2, <4>2, <4>6, OneMoreSample
      <4>. QED BY <4>4, <4>5, <4>7, <4>8
    <3>. QED BY <3>2, <3>3
  <2>. QED BY <1>2, <2>3, <2>4, SamplesUntouched
<1>. QED BY <1>1, <1>2

-----------------------------------------------------------------------------
(* Theorems *)

\* Inv is inductive: Init implies it and every step of Next keeps it.
THEOREM Invariance == Spec => []Inv
<1>1. Inv /\ [Next]_vars => Inv'
  <2>. SUFFICES ASSUME Inv, [Next]_vars PROVE Inv'
    OBVIOUS
  <2>1. TypeOK'
    BY TypeStep DEF Inv
  <2>2. CycleOK'
    BY <2>1, CycleStep DEF Inv
  <2>3. Envelope'
    BY <2>1, EnvelopeStep
  <2>4. RepliesOK'
    BY <2>1, RepliesStep
  <2>5. SamplesOK' /\ FilteredOK'
    BY <2>1, <2>2, <2>3, SamplesStep
  <2>. QED BY <2>1, <2>2, <2>3, <2>4, <2>5 DEF Inv
<1>. QED BY <1>1, InitInv, PTL DEF Spec

\* The variables keep their types, in particular the index of the peer stays
\* within one of the list run() iterates over, and late never decreases.
THEOREM TypeCorrect == Spec => []TypeOK
<1>1. Inv => TypeOK
  BY DEF Inv
<1>. QED BY <1>1, Invariance, PTL

\* The averaging of run() never takes a clock out of the range of the clocks,
\* but for injected drift and for the time between reading own_time and using
\* it.
THEOREM ClocksStayInEnvelope == Spec => []Envelope
<1>1. Inv => Envelope
  BY DEF Inv
<1>. QED BY <1>1, Invariance, PTL

\* No adjust() moves a clock by more than the plausibility filter of
\* parse_reply allows, plus one and a half times the duration of the cycle.
THEOREM CorrectionsAreBounded == Spec => BoundedCorrection
<1>1. Inv /\ [Next]_vars => [CorrectionBound]_vars
  <2>. SUFFICES ASSUME Inv, [Next]_vars,
                       NEW n \in Node, offset'[n] # offset[n]
                PROVE  /\ -MaxSkew <= offset'[n] - offset[n]
                       /\ offset'[n] - offset[n] <=
                            MaxSkew + Spent(n) + Spent(n) \div 2
    BY DEF CorrectionBound, Spent
  <2>1. Adjust(n) /\ count[n] # 1
    <3>1. ~BeginCycle(n)
      BY DEF BeginCycle
    <3>2. Adjust(n)
      BY <3>1, SkewUntouched DEF Inv
    <3>. QED BY <3>2 DEF Adjust
  <2>2. /\ Average(n) \in Int
        /\ FilterLow(n) <= Average(n) /\ Average(n) <= FilterHigh(n)
        /\ offset'[n] = offset[n] + (Average(n) - own[n])
        /\ Spent(n) \in Nat /\ Spent(n) \div 2 \in Nat
    BY <2>1, Adjusted DEF Inv
  <2>3. offset[n] \in Int /\ own[n] \in Int /\ MaxSkew \in Nat
    BY ConfigAssumption DEF Inv, TypeOK, ClockType, CycleType
  <2>. QED BY <2>2, <2>3 DEF FilterLow, FilterHigh
<1>. QED BY <1>1, Invariance, PTL DEF Spec, BoundedCorrection
-----------------------------------------------------------------------------
(* Servers under the launcher *)

\* While the launcher runs, the event of a node is set by nobody but a server
\* thread that could not bind, so no server has closed; a node that has not
\* begun run() has no server thread yet.
OnlyFailuresStop ==
  launch = "running" =>
    \A n \in Node :
      /\ stop[n] => srv[n] = "failed"
      /\ srv[n] # "closed"
      /\ pc[n] \in {"idle", "started"} => srv[n] = "off"

\* The main thread of a node, run with stop_when_done=False, sets no event.
LEMMA MainThreadStopsNothing ==
  ASSUME TypeOK, OnlyFailuresStop, NEW n \in Node, MainThread(n)
  PROVE  OnlyFailuresStop'
<1>. SUFFICES ASSUME launch' = "running", NEW m \in Node
              PROVE  /\ stop'[m] => srv'[m] = "failed"
                     /\ srv'[m] # "closed"
                     /\ pc'[m] \in {"idle", "started"} => srv'[m] = "off"
  BY DEF OnlyFailuresStop
<1>. USE DEF TypeOK, ThreadType
<1>1. launch' = launch
  BY DEF MainThread, Start, BeginCycle, LeaveLoop, SendRequest, ReceiveReply,
         Timeout, Adjust, Wake, Finish
<1>2. /\ stop[m] => srv[m] = "failed"
      /\ srv[m] # "closed"
      /\ pc[m] \in {"idle", "started"} => srv[m] = "off"
  BY <1>1 DEF OnlyFailuresStop
<1>3. CASE Start(n)
  BY <1>2, <1>3 DEF Start
<1>4. CASE Finish(n)
  BY <1>1, <1>2, <1>4 DEF Finish, StopWhenDone
<1>5. CASE ~Start(n) /\ ~Finish(n)
  <2>1. stop' = stop /\ srv' = srv
    BY <1>5 DEF MainThread, BeginCycle, LeaveLoop, SendRequest, ReceiveReply,
                Timeout, Adjust, Wake, clockVars, cycleVars, netVars
  <2>2. pc'[m] \in {"idle", "started"} => pc[m] = pc'[m]
    BY <1>5 DEF MainThread, BeginCycle, LeaveLoop, SendRequest, ReceiveReply,
                Timeout, Adjust, Wake, LeaveAskPeer
  <2>. QED BY <1>2, <2>1, <2>2
<1>. QED BY <1>3, <1>4, <1>5

\* A server thread sets the event only when it fails, and closes only after it.
LEMMA ServerThreadStopsItself ==
  ASSUME TypeOK, OnlyFailuresStop, NEW n \in Node, ServerThread(n)
  PROVE  OnlyFailuresStop'
<1>. SUFFICES ASSUME launch' = "running", NEW m \in Node
              PROVE  /\ stop'[m] => srv'[m] = "failed"
                     /\ srv'[m] # "closed"
                     /\ pc'[m] \in {"idle", "started"} => srv'[m] = "off"
  BY DEF OnlyFailuresStop
<1>. USE DEF TypeOK, ThreadType
<1>1. launch' = launch /\ pc' = pc
  BY DEF ServerThread, Bind, BindFails, Serve, ServerExits
<1>2. \A k \in Node : /\ stop[k] => srv[k] = "failed"
                      /\ srv[k] # "closed"
                      /\ pc[k] \in {"idle", "started"} => srv[k] = "off"
  BY <1>1 DEF OnlyFailuresStop
<1>3. CASE Bind(n)
  BY <1>1, <1>2, <1>3 DEF Bind
<1>4. CASE BindFails(n)
  BY <1>1, <1>2, <1>4 DEF BindFails
<1>5. CASE Serve(n)
  BY <1>1, <1>2, <1>5 DEF Serve
<1>6. CASE ServerExits(n)
  BY <1>2, <1>6 DEF ServerExits
<1>. QED BY <1>3, <1>4, <1>5, <1>6 DEF ServerThread

LEMMA StopStep ==
  ASSUME TypeOK, OnlyFailuresStop, [Next]_vars
  PROVE  OnlyFailuresStop'
<1>1. CASE \E n \in Node : MainThread(n)
  BY <1>1, MainThreadStopsNothing
<1>2. CASE \E n \in Node : ServerThread(n)
  BY <1>2, ServerThreadStopsItself
<1>3. CASE \E n \in Node : Interrupt(n)
  BY <1>3 DEF Interrupt, OnlyFailuresStop
<1>4. CASE \E n \in Node : LauncherStarts(n)
  <2>. SUFFICES ASSUME NEW n \in Node, LauncherStarts(n), NEW m \in Node,
                       launch = "running"
                PROVE  /\ stop'[m] => srv'[m] = "failed"
                       /\ srv'[m] # "closed"
                       /\ pc'[m] \in {"idle", "started"} => srv'[m] = "off"
    BY <1>4 DEF LauncherStarts, OnlyFailuresStop
  <2>1. pc'[m] \in {"idle", "started"} => pc[m] \in {"idle", "started"}
    BY DEF LauncherStarts, TypeOK, ThreadType
  <2>. QED BY <2>1 DEF LauncherStarts, OnlyFailuresStop
<1>6. CASE LauncherInterrupted \/ LauncherJoins \/ LauncherEnds
           \/ \E n \in Node : LauncherStops(n)
  BY <1>6 DEF LauncherJoins, LauncherEnds, LauncherStops,
              LauncherInterrupted, OnlyFailuresStop
<1>5. CASE Elapse \/ UNCHANGED vars
  BY <1>5 DEF Elapse, vars, OnlyFailuresStop
<1>. QED BY <1>1, <1>2, <1>3, <1>4, <1>5, <1>6 DEF Next, Launcher

\* run_peers.py passes stop_when_done=False and stops the nodes only after it
\* has left its joins: until then no node that asks meets a closed server.
THEOREM NoServerClosesEarly == Spec => []ServersOutliveCycles
<1>1. Init => OnlyFailuresStop
  BY DEF Init, OnlyFailuresStop
<1>2. TypeOK /\ OnlyFailuresStop /\ [Next]_vars => OnlyFailuresStop'
  BY StopStep
<1>3. TypeOK /\ OnlyFailuresStop => ServersOutliveCycles
  <2>. SUFFICES ASSUME TypeOK, OnlyFailuresStop, launch = "running",
                       NEW n \in Node, NEW i \in 1..Len(Peers[n])
                PROVE  srv[Peers[n][i]] # "closed"
    BY DEF ServersOutliveCycles
  <2>1. Peers[n][i] \in Node
    BY PeerIsNode
  <2>. QED BY <2>1 DEF OnlyFailuresStop
<1>. QED BY <1>1, <1>2, <1>3, TypeCorrect, PTL DEF Spec
=============================================================================

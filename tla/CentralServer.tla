--------------------------- MODULE CentralServer ---------------------------
(***************************************************************************)
(* Workshop 4, part 4: mutual exclusion through a central server.          *)
(*                                                                         *)
(* N processes take turns, in the order of their numbers, for Rounds       *)
(* rounds.  On its turn a process may ask the server for the resource,     *)
(* waits in the server's queue, or uses the resource for one more round    *)
(* and releases it when its time is up.  The processes know their own      *)
(* state; the server knows the holder and the queue.                       *)
(***************************************************************************)
EXTENDS Integers, Sequences

CONSTANTS
  N,        \* number of processes
  Rounds,   \* rounds to simulate
  MaxHold   \* a process uses the resource for 1..MaxHold of its turns

ASSUME ServerAssumption ==
  /\ N \in Nat \ {0}
  /\ Rounds \in Nat
  /\ MaxHold \in Nat \ {0}

Proc == 0..(N - 1)
None == -1

VARIABLES
  holder,     \* CentralServer.holder
  queue,      \* CentralServer.queue
  state,      \* state of each process: "idle", "waiting" or "holding"
  hold_left,  \* turns each process still uses the resource
  requests,   \* stats["requests"]
  grants,     \* stats["grants"]
  round,      \* round_num
  turn,       \* the process whose turn it is
  place,      \* history: position in the queue a process was given on arrival
  waited      \* history: turns a process has spent in the queue

serverVars == <<holder, queue>>
vars == <<serverVars, state, hold_left, requests, grants, round, turn, place,
          waited>>

-----------------------------------------------------------------------------
(* Pieces of the code a property hangs on, and plausible mistakes in them. *)

\* MISTAKE: the end of the range is off by one.
NextTurnTooFar == IF turn = N THEN 0 ELSE turn + 1

\* for pid in range(n), once per round.
NextTurn == IF turn = N - 1 THEN 0 ELSE turn + 1

\* MISTAKE: every request is granted.
AlwaysFree == TRUE

\* The test of CentralServer.request.
IsFree == holder = None

\* MISTAKE: a request goes to the head of the queue.
EnqueueFirst(p) == <<p>> \o queue

Enqueue(p) == Append(queue, p)

\* MISTAKE: the next process is looked up, but stays in the queue.
DequeueNothing == queue

\* queue.pop(0)
Dequeue == Tail(queue)

-----------------------------------------------------------------------------
Init ==
  /\ holder = None
  /\ queue = <<>>
  /\ state = [p \in Proc |-> "idle"]
  /\ hold_left = [p \in Proc |-> 0]
  /\ requests = 0
  /\ grants = 0
  /\ round = 1
  /\ turn = 0
  /\ place = [p \in Proc |-> 0]
  /\ waited = [p \in Proc |-> 0]

\* It is p's turn, and afterwards the next process's.
Turn(p) ==
  /\ round <= Rounds
  /\ turn = p
  /\ turn' = NextTurn
  /\ round' = IF NextTurn = 0 THEN round + 1 ELSE round

StayIdle(p) ==
  /\ Turn(p)
  /\ state[p] = "idle"
  /\ UNCHANGED <<serverVars, state, hold_left, requests, grants, place, waited>>

\* request() finds the resource free.
RequestGranted(p) ==
  /\ Turn(p)
  /\ state[p] = "idle"
  /\ IsFree
  /\ holder' = p
  /\ state' = [state EXCEPT ![p] = "holding"]
  /\ \E h \in 1..MaxHold : hold_left' = [hold_left EXCEPT ![p] = h]
  /\ requests' = requests + 1
  /\ grants' = grants + 1
  /\ UNCHANGED <<queue, place, waited>>

\* request() finds it taken.
RequestQueued(p) ==
  /\ Turn(p)
  /\ state[p] = "idle"
  /\ ~IsFree
  /\ queue' = Enqueue(p)
  /\ state' = [state EXCEPT ![p] = "waiting"]
  /\ requests' = requests + 1
  /\ place' = [place EXCEPT ![p] = Len(queue) + 1]
  /\ waited' = [waited EXCEPT ![p] = 0]
  /\ UNCHANGED <<holder, hold_left, grants>>

Wait(p) ==
  /\ Turn(p)
  /\ state[p] = "waiting"
  /\ waited' = [waited EXCEPT ![p] = @ + 1]
  /\ UNCHANGED <<serverVars, state, hold_left, requests, grants, place>>

\* The resource is used and kept.
Use(p) ==
  /\ Turn(p)
  /\ state[p] = "holding"
  /\ hold_left[p] # 1
  /\ hold_left' = [hold_left EXCEPT ![p] = @ - 1]
  /\ UNCHANGED <<serverVars, state, requests, grants, place, waited>>

\* The last turn of a use, nobody waits: release() returns None.
ReleaseToNobody(p) ==
  /\ Turn(p)
  /\ state[p] = "holding"
  /\ hold_left[p] = 1
  /\ queue = <<>>
  /\ holder' = None
  /\ state' = [state EXCEPT ![p] = "idle"]
  /\ hold_left' = [hold_left EXCEPT ![p] = 0]
  /\ UNCHANGED <<queue, requests, grants, place, waited>>

\* The last turn of a use: release() returns the process that waited longest,
\* which holds the resource from then on.
ReleaseToNext(p) ==
  /\ Turn(p)
  /\ state[p] = "holding"
  /\ hold_left[p] = 1
  /\ queue # <<>>
  /\ holder' = Head(queue)
  /\ queue' = Dequeue
  /\ state' = [state EXCEPT ![p] = "idle", ![Head(queue)] = "holding"]
  /\ \E h \in 1..MaxHold :
       hold_left' = [hold_left EXCEPT ![p] = 0, ![Head(queue)] = h]
  /\ grants' = grants + 1
  /\ UNCHANGED <<requests, place, waited>>

Next ==
  \E p \in Proc :
    \/ StayIdle(p)
    \/ RequestGranted(p)
    \/ RequestQueued(p)
    \/ Wait(p)
    \/ Use(p)
    \/ ReleaseToNobody(p)
    \/ ReleaseToNext(p)

Spec == Init /\ [][Next]_vars

-----------------------------------------------------------------------------
(* Properties *)

ProcessType ==
  /\ state \in [Proc -> {"idle", "waiting", "holding"}]
  /\ hold_left \in [Proc -> 0..MaxHold]
  /\ place \in [Proc -> Nat]
  /\ waited \in [Proc -> Nat]

\* The types of the variables.
TypeOK ==
  /\ ProcessType
  /\ holder \in Proc \union {None}
  /\ queue \in Seq(Proc)
  /\ requests \in Nat
  /\ grants \in Nat
  /\ round \in Nat
  /\ turn \in Proc

\* What the server knows is what the processes do: the holder is the only
\* process that uses the resource and has turns left, the queue lists exactly
\* the waiting processes and none of them twice, a free resource has no queue,
\* and every request was granted or is in the queue.
HolderAgrees ==
  \A p \in Proc :
    /\ (state[p] = "holding") <=> (holder = p)
    /\ state[p] = "holding" <=> hold_left[p] >= 1

QueueAgrees ==
  /\ \A i, j \in 1..Len(queue) : queue[i] = queue[j] => i = j
  /\ \A p \in Proc :
       state[p] = "waiting" <=> \E i \in 1..Len(queue) : queue[i] = p
  /\ holder = None => queue = <<>>

Accounted == requests = grants + Len(queue)

Coherent == HolderAgrees /\ QueueAgrees /\ Accounted

\* "Requests are granted in the order they arrive (FIFO queue), so no process
\* waits forever": a process that was given place k waits at most MaxHold of
\* its own turns for the holder and as many for each request before its own.
BoundedWait ==
  \A p \in Proc : state[p] = "waiting" => waited[p] <= MaxHold * place[p]

\* The processes' own view of who waits and who uses the resource.
M == INSTANCE Mutex WITH
       trying <- {p \in Proc : state[p] = "waiting"},
       critical <- {p \in Proc : state[p] = "holding"}

\* The simulation is a mutual exclusion: only one process may hold the
\* resource, and it must release before anyone else is granted access.
ImplementsMutex == M!MutexSpec
=============================================================================

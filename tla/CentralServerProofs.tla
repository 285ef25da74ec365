------------------------ MODULE CentralServerProofs ------------------------
(***************************************************************************)
(* The central server is a mutual exclusion with bounded waiting, for any  *)
(* number of processes, rounds and turns of use.                           *)
(*                                                                         *)
(* Coherent is inductive with the types.  BoundedWait is not: it says      *)
(* nothing about how much of the wait is still to come.  WaitBudget adds   *)
(* the turns the holder and the processes ahead may still take, and the    *)
(* order in which the holder and the waiting process move in a round.      *)
(***************************************************************************)
EXTENDS CentralServer, TLAPS

\* How many turns of other processes come before the next turn of p.
Dist(p) == IF p >= turn THEN p - turn ELSE p - turn + N

\* 1 if p moves before q does.
MovesFirst(p, q) == IF Dist(p) < Dist(q) THEN 1 ELSE 0

\* The turns that k uses may take.
Due(k) == MaxHold * k

\* What is left of the wait of the process at position i, beside what it has
\* waited, fits into the bound for its place.
WaitBudget ==
  \A i \in 1..Len(queue) :
    waited[queue[i]] + Due(i - 1) + hold_left[holder]
      + MovesFirst(queue[i], holder) <= Due(place[queue[i]])

Inv == TypeOK /\ Coherent /\ WaitBudget

-----------------------------------------------------------------------------
(* Numbers, sequences and turns *)

\* What one more use adds.
LEMMA DueFacts ==
  /\ \A k \in Nat : Due(k) \in Nat
  /\ \A k \in Nat : Due(k + 1) = Due(k) + MaxHold
<1>1. MaxHold \in Nat
  BY ServerAssumption
<1>. QED BY <1>1 DEF Due

\* A budget that covers one full use and a turn covers any use, whoever moves
\* first.
LEMMA BudgetShift ==
  ASSUME NEW w \in Nat, NEW c \in Nat, NEW x \in Nat, NEW y \in Nat,
         NEW b \in Nat, NEW k \in Int, NEW m \in Int,
         y = x + c, w + y + 1 <= b, k <= c, m <= 1
  PROVE  w + x + k + m <= b
  OBVIOUS

\* A queue after append.
LEMMA AppendFacts ==
  ASSUME NEW S, NEW q \in Seq(S), NEW e \in S
  PROVE  /\ Append(q, e) \in Seq(S)
         /\ Len(Append(q, e)) = Len(q) + 1
         /\ \A i \in 1..Len(q) : Append(q, e)[i] = q[i]
         /\ Append(q, e)[Len(q) + 1] = e
  OBVIOUS

\* A queue after pop(0).
LEMMA TailFacts ==
  ASSUME NEW S, NEW q \in Seq(S), q # <<>>
  PROVE  /\ Len(q) \in Nat /\ Len(q) >= 1
         /\ Head(q) = q[1] /\ Head(q) \in S
         /\ Tail(q) \in Seq(S)
         /\ Len(Tail(q)) = Len(q) - 1
         /\ \A i \in 1..(Len(q) - 1) : Tail(q)[i] = q[i + 1]
  OBVIOUS

\* The process whose turn it was is now the last to move, everybody else one
\* turn closer.
LEMMA TurnFacts ==
  ASSUME TypeOK, NEW p \in Proc, Turn(p)
  PROVE  /\ turn' \in Proc /\ round' \in Nat
         /\ Dist(p) = 0 /\ Dist(p)' = N - 1
         /\ \A q \in Proc : Dist(q) \in 0..(N - 1)
         /\ \A q \in Proc : q # p => Dist(q)' = Dist(q) - 1 /\ Dist(q) >= 1
<1>1. N \in Nat \ {0} /\ p \in Int /\ 0 <= p /\ p <= N - 1
  BY ServerAssumption DEF Proc
<1>2. turn = p /\ turn' = NextTurn /\ round' \in {round, round + 1}
  BY DEF Turn
<1>3. NextTurn = IF p = N - 1 THEN 0 ELSE p + 1
  BY <1>2 DEF NextTurn
<1>4. turn' \in Proc /\ round' \in Nat
  BY <1>1, <1>2, <1>3 DEF Proc, TypeOK
<1>5. Dist(p) = 0 /\ Dist(p)' = N - 1
  BY <1>1, <1>2, <1>3 DEF Dist
<1>6. ASSUME NEW q \in Proc
      PROVE  /\ Dist(q) \in 0..(N - 1)
             /\ q # p => Dist(q)' = Dist(q) - 1 /\ Dist(q) >= 1
  BY <1>1, <1>2, <1>3 DEF Dist, Proc
<1>. QED BY <1>4, <1>5, <1>6

\* How a turn of p changes who moves first.
LEMMA MovesFirstFacts ==
  ASSUME TypeOK, NEW p \in Proc, Turn(p), NEW a \in Proc, NEW b \in Proc, a # b
  PROVE  /\ a # p /\ b # p => MovesFirst(a, b)' = MovesFirst(a, b)
         /\ a = p => MovesFirst(a, b) = 1 /\ MovesFirst(a, b)' = 0
         /\ b = p => MovesFirst(a, b) = 0 /\ MovesFirst(a, b)' = 1
<1>1. N \in Nat \ {0}
  BY ServerAssumption
<1>2. /\ Dist(p) = 0 /\ Dist(p)' = N - 1
      /\ \A q \in Proc : Dist(q) \in 0..(N - 1)
      /\ \A q \in Proc : q # p => Dist(q)' = Dist(q) - 1 /\ Dist(q) >= 1
  BY TurnFacts
<1>3. Dist(a) \in 0..(N - 1) /\ Dist(b) \in 0..(N - 1)
  BY <1>2
<1>4. CASE a # p /\ b # p
  <2>1. Dist(a)' = Dist(a) - 1 /\ Dist(b)' = Dist(b) - 1
    BY <1>2, <1>4
  <2>. QED BY <1>1, <1>3, <1>4, <2>1 DEF MovesFirst
<1>5. CASE a = p
  <2>1. Dist(a) = 0 /\ Dist(a)' = N - 1 /\ Dist(b)' = Dist(b) - 1 /\ Dist(b) >= 1
    BY <1>2, <1>5
  <2>. QED BY <1>1, <1>3, <1>5, <2>1 DEF MovesFirst
<1>6. CASE b = p
  <2>1. Dist(b) = 0 /\ Dist(b)' = N - 1 /\ Dist(a)' = Dist(a) - 1 /\ Dist(a) >= 1
    BY <1>2, <1>6
  <2>. QED BY <1>1, <1>3, <1>6, <2>1 DEF MovesFirst
<1>. QED BY <1>4, <1>5, <1>6

\* MovesFirst is 0 or 1.
LEMMA MovesFirstBit ==
  \A a, b : MovesFirst(a, b) \in {0, 1}
  BY DEF MovesFirst

\* None is not a process.
LEMMA NoneIsNobody == None \notin Proc
  BY ServerAssumption DEF None, Proc

-----------------------------------------------------------------------------
\* The inductive invariant holds before the first round.
LEMMA InitInv == Init => Inv
<1>. SUFFICES ASSUME Init PROVE Inv
  OBVIOUS
<1>1. TypeOK
  BY ServerAssumption DEF Init, TypeOK, ProcessType, Proc
<1>2. Coherent
  BY NoneIsNobody DEF Init, Coherent, HolderAgrees, QueueAgrees, Accounted
<1>3. WaitBudget
  BY DEF Init, WaitBudget
<1>. QED BY <1>1, <1>2, <1>3 DEF Inv

\* Types, by the kind of turn.
LEMMA TypeStep ==
  ASSUME TypeOK, HolderAgrees, [Next]_vars
  PROVE  TypeOK'
<1>. USE DEF serverVars
<1>1. CASE UNCHANGED vars
  BY <1>1 DEF vars, TypeOK, ProcessType
<1>2. ASSUME NEW p \in Proc, StayIdle(p) PROVE TypeOK'
  BY <1>2, TurnFacts DEF StayIdle, TypeOK, ProcessType
<1>3. ASSUME NEW p \in Proc, RequestGranted(p) PROVE TypeOK'
  <2>1. ProcessType'
    BY <1>3, ServerAssumption DEF RequestGranted, TypeOK, ProcessType
  <2>. QED BY <1>3, <2>1, TurnFacts DEF RequestGranted, TypeOK
<1>4. ASSUME NEW p \in Proc, RequestQueued(p) PROVE TypeOK'
  <2>1. queue' \in Seq(Proc) /\ Len(queue) \in Nat
    BY <1>4, AppendFacts DEF RequestQueued, Enqueue, TypeOK
  <2>2. ProcessType'
    BY <1>4, <2>1 DEF RequestQueued, TypeOK, ProcessType
  <2>. QED BY <1>4, <2>1, <2>2, TurnFacts DEF RequestQueued, TypeOK
<1>5. ASSUME NEW p \in Proc, Wait(p) PROVE TypeOK'
  <2>1. ProcessType'
    BY <1>5 DEF Wait, TypeOK, ProcessType
  <2>. QED BY <1>5, <2>1, TurnFacts DEF Wait, TypeOK
<1>6. ASSUME NEW p \in Proc, Use(p) PROVE TypeOK'
  <2>1. hold_left[p] \in 0..MaxHold /\ hold_left[p] >= 1
    BY <1>6 DEF Use, HolderAgrees, TypeOK, ProcessType
  <2>2. ProcessType'
    BY <1>6, <2>1, ServerAssumption DEF Use, TypeOK, ProcessType
  <2>. QED BY <1>6, <2>2, TurnFacts DEF Use, TypeOK
<1>7. ASSUME NEW p \in Proc, ReleaseToNobody(p) PROVE TypeOK'
  <2>1. ProcessType'
    BY <1>7, ServerAssumption DEF ReleaseToNobody, TypeOK, ProcessType
  <2>. QED BY <1>7, <2>1, TurnFacts DEF ReleaseToNobody, TypeOK
<1>8. ASSUME NEW p \in Proc, ReleaseToNext(p) PROVE TypeOK'
  <2>1. Head(queue) \in Proc /\ queue' \in Seq(Proc)
    BY <1>8, TailFacts DEF ReleaseToNext, Dequeue, TypeOK
  <2>2. ProcessType'
    <3>1. PICK k \in 1..MaxHold :
            hold_left' = [hold_left EXCEPT ![p] = 0, ![Head(queue)] = k]
      BY <1>8 DEF ReleaseToNext
    <3>2. hold_left' \in [Proc -> 0..MaxHold]
      <4>1. 0 \in 0..MaxHold /\ k \in 0..MaxHold
        BY ServerAssumption
      <4>2. hold_left \in [Proc -> 0..MaxHold]
        BY DEF TypeOK, ProcessType
      <4>. QED BY <2>1, <3>1, <4>1, <4>2
    <3>3. state' \in [Proc -> {"idle", "waiting", "holding"}]
      BY <1>8 DEF ReleaseToNext, TypeOK, ProcessType
    <3>. QED BY <1>8, <3>2, <3>3 DEF ReleaseToNext, TypeOK, ProcessType
  <2>. QED BY <1>8, <2>1, <2>2, TurnFacts DEF ReleaseToNext, TypeOK
<1>. QED BY <1>1, <1>2, <1>3, <1>4, <1>5, <1>6, <1>7, <1>8 DEF Next

\* The server and the processes agree after every turn.
LEMMA CoherentStep ==
  ASSUME TypeOK, Coherent, TypeOK', [Next]_vars
  PROVE  Coherent'
<1>. USE DEF serverVars, Coherent
<1>1. CASE UNCHANGED <<serverVars, state, hold_left, requests, grants>>
  BY <1>1 DEF HolderAgrees, QueueAgrees, Accounted
<1>2. ASSUME NEW p \in Proc, RequestGranted(p) PROVE Coherent'
  <2>1. holder = None /\ queue = <<>> /\ queue' = <<>>
    BY <1>2 DEF RequestGranted, IsFree, QueueAgrees
  <2>2. HolderAgrees'
    BY <1>2, <2>1, NoneIsNobody
    DEF RequestGranted, HolderAgrees, TypeOK, ProcessType
  <2>3. QueueAgrees'
    BY <1>2, <2>1, NoneIsNobody
    DEF RequestGranted, QueueAgrees, TypeOK, ProcessType
  <2>4. Accounted'
    BY <1>2, <2>1 DEF RequestGranted, Accounted, TypeOK
  <2>. QED BY <2>2, <2>3, <2>4
<1>3. ASSUME NEW p \in Proc, RequestQueued(p) PROVE Coherent'
  <2>1. /\ Len(queue) \in Nat
        /\ Len(queue') = Len(queue) + 1
        /\ \A i \in 1..Len(queue) : queue'[i] = queue[i]
        /\ queue'[Len(queue) + 1] = p
    BY <1>3, AppendFacts DEF RequestQueued, Enqueue, TypeOK
  <2>2. HolderAgrees'
    BY <1>3 DEF RequestQueued, HolderAgrees, TypeOK, ProcessType
  <2>3. /\ state' = [state EXCEPT ![p] = "waiting"] /\ state[p] = "idle"
        /\ holder' = holder /\ holder # None
    BY <1>3 DEF RequestQueued, IsFree
  <2>4. \A i \in 1..Len(queue) : queue[i] # p
    BY <2>3 DEF QueueAgrees
  <2>5. \A i, j \in 1..Len(queue') : queue'[i] = queue'[j] => i = j
    BY <2>1, <2>4 DEF QueueAgrees
  <2>6. ASSUME NEW q \in Proc
        PROVE  state'[q] = "waiting" <=> \E i \in 1..Len(queue') : queue'[i] = q
    <3>1. CASE q = p
      <4>1. state'[q] = "waiting"
        BY <2>3, <3>1 DEF TypeOK, ProcessType
      <4>2. Len(queue) + 1 \in 1..Len(queue')
        BY <2>1
      <4>. QED BY <2>1, <3>1, <4>1, <4>2
    <3>2. CASE q # p
      <4>1. state'[q] = state[q]
        BY <2>3, <3>2 DEF TypeOK, ProcessType
      <4>2. (\E i \in 1..Len(queue') : queue'[i] = q)
              <=> \E i \in 1..Len(queue) : queue[i] = q
        BY <2>1, <3>2
      <4>. QED BY <4>1, <4>2 DEF QueueAgrees
    <3>. QED BY <3>1, <3>2
  <2>7. Accounted'
    BY <1>3, <2>1 DEF RequestQueued, Accounted, TypeOK
  <2>. QED BY <2>2, <2>3, <2>5, <2>6, <2>7 DEF QueueAgrees
<1>4. ASSUME NEW p \in Proc, Use(p) PROVE Coherent'
  <2>1. HolderAgrees'
    BY <1>4 DEF Use, HolderAgrees, TypeOK, ProcessType
  <2>2. QueueAgrees' /\ Accounted'
    BY <1>4 DEF Use, QueueAgrees, Accounted
  <2>. QED BY <2>1, <2>2
<1>5. ASSUME NEW p \in Proc, ReleaseToNobody(p) PROVE Coherent'
  <2>1. HolderAgrees'
    BY <1>5, NoneIsNobody DEF ReleaseToNobody, HolderAgrees, TypeOK, ProcessType
  <2>2. QueueAgrees'
    BY <1>5 DEF ReleaseToNobody, QueueAgrees, TypeOK, ProcessType
  <2>3. Accounted'
    BY <1>5 DEF ReleaseToNobody, Accounted
  <2>. QED BY <2>1, <2>2, <2>3
<1>6. ASSUME NEW p \in Proc, ReleaseToNext(p) PROVE Coherent'
  <2>. DEFINE h == Head(queue)
  <2>1. /\ Len(queue) \in Nat /\ Len(queue) >= 1
        /\ h = queue[1] /\ h \in Proc
        /\ Len(queue') = Len(queue) - 1
        /\ \A i \in 1..(Len(queue) - 1) : queue'[i] = queue[i + 1]
    BY <1>6, TailFacts DEF ReleaseToNext, Dequeue, TypeOK
  <2>2. /\ state[p] = "holding" /\ holder = p
        /\ holder' = h
        /\ state' = [state EXCEPT ![p] = "idle", ![h] = "holding"]
    BY <1>6 DEF ReleaseToNext, HolderAgrees
  <2>3. PICK k \in 1..MaxHold : hold_left' = [hold_left EXCEPT ![p] = 0, ![h] = k]
    BY <1>6 DEF ReleaseToNext
  <2>. HIDE DEF h
  <2>4. state[h] = "waiting" /\ h # p
    BY <2>1, <2>2 DEF QueueAgrees
  <2>5. HolderAgrees'
    <3>1. ASSUME NEW q \in Proc
          PROVE  /\ (state'[q] = "holding") <=> (holder' = q)
                 /\ state'[q] = "holding" <=> hold_left'[q] >= 1
      <4>1. CASE q = h
        BY <2>1, <2>2, <2>3, <2>4, <4>1 DEF TypeOK, ProcessType
      <4>2. CASE q = p
        BY <2>1, <2>2, <2>3, <2>4, <4>2 DEF TypeOK, ProcessType
      <4>3. CASE q # h /\ q # p
        <5>1. state'[q] = state[q] /\ hold_left'[q] = hold_left[q]
          BY <2>2, <2>3, <4>3 DEF TypeOK, ProcessType
        <5>. QED BY <2>2, <4>3, <5>1 DEF HolderAgrees
      <4>. QED BY <4>1, <4>2, <4>3
    <3>. QED BY <3>1 DEF HolderAgrees
  <2>6. \A i \in 2..Len(queue) : queue[i] # h
    BY <2>1 DEF QueueAgrees
  <2>7. \A i, j \in 1..Len(queue') : queue'[i] = queue'[j] => i = j
    <3>. SUFFICES ASSUME NEW i \in 1..Len(queue'), NEW j \in 1..Len(queue'),
                         queue'[i] = queue'[j]
                  PROVE  i = j
      OBVIOUS
    <3>1. /\ i + 1 \in 1..Len(queue) /\ j + 1 \in 1..Len(queue)
          /\ queue[i + 1] = queue[j + 1]
      BY <2>1
    <3>2. i + 1 = j + 1
      BY <3>1 DEF QueueAgrees
    <3>. QED BY <2>1, <3>2
  <2>8. ASSUME NEW q \in Proc
        PROVE  state'[q] = "waiting" <=> \E i \in 1..Len(queue') : queue'[i] = q
    <3>1. state[q] = "waiting" <=> \E i \in 1..Len(queue) : queue[i] = q
      BY DEF QueueAgrees
    <3>2. (\E i \in 1..Len(queue') : queue'[i] = q)
            <=> \E i \in 2..Len(queue) : queue[i] = q
      <4>1. ASSUME NEW i \in 1..Len(queue'), queue'[i] = q
            PROVE  \E j \in 2..Len(queue) : queue[j] = q
        <5>1. i + 1 \in 2..Len(queue) /\ queue[i + 1] = q
          BY <2>1, <4>1
        <5>. QED BY <5>1
      <4>2. ASSUME NEW i \in 2..Len(queue), queue[i] = q
            PROVE  \E j \in 1..Len(queue') : queue'[j] = q
        <5>1. i - 1 \in 1..Len(queue') /\ queue'[i - 1] = queue[(i - 1) + 1]
          BY <2>1
        <5>2. queue'[i - 1] = q
          BY <4>2, <5>1
        <5>. QED BY <5>1, <5>2
      <4>. QED BY <4>1, <4>2
    <3>3. CASE q = h
      BY <2>2, <2>4, <2>6, <3>2, <3>3 DEF TypeOK, ProcessType
    <3>4. CASE q = p
      <4>1. state'[q] = "idle" /\ state[q] = "holding"
        BY <2>2, <2>4, <3>4 DEF TypeOK, ProcessType
      <4>2. ~\E i \in 2..Len(queue) : queue[i] = q
        BY <2>1, <3>1, <4>1
      <4>. QED BY <3>2, <4>1, <4>2
    <3>5. CASE q # h /\ q # p
      <4>1. state'[q] = state[q]
        BY <2>2, <3>5 DEF TypeOK, ProcessType
      <4>2. (\E i \in 1..Len(queue) : queue[i] = q)
              <=> \E i \in 2..Len(queue) : queue[i] = q
        BY <2>1, <3>5
      <4>. QED BY <3>1, <3>2, <4>1, <4>2
    <3>. QED BY <3>3, <3>4, <3>5
  <2>9. holder' # None
    BY <2>1, <2>2, NoneIsNobody
  <2>10. Accounted'
    BY <1>6, <2>1 DEF ReleaseToNext, Accounted, TypeOK
  <2>. QED BY <2>5, <2>7, <2>8, <2>9, <2>10 DEF QueueAgrees
<1>. QED
  BY <1>1, <1>2, <1>3, <1>4, <1>5, <1>6 DEF Next, vars, StayIdle, Wait

\* What the processes in the queue are still owed, after every turn.
LEMMA BudgetStep ==
  ASSUME TypeOK, Coherent, WaitBudget, TypeOK', Coherent', [Next]_vars
  PROVE  WaitBudget'
<1>. USE DEF serverVars
<1>0. MaxHold \in Nat \ {0} /\ Len(queue) \in Nat
  BY ServerAssumption DEF TypeOK
<1>1. CASE UNCHANGED vars
  BY <1>1 DEF vars, WaitBudget, MovesFirst, Dist
<1>2. CASE queue' = <<>>
  BY <1>2 DEF WaitBudget
<1>3. ASSUME NEW i \in 1..Len(queue)
      PROVE  /\ queue[i] \in Proc /\ state[queue[i]] = "waiting"
             /\ holder \in Proc /\ holder # queue[i]
             /\ state[holder] = "holding"
             /\ hold_left[holder] \in 1..MaxHold
             /\ waited[queue[i]] \in Nat /\ place[queue[i]] \in Nat
             /\ waited[queue[i]] + Due(i - 1) + hold_left[holder]
                  + MovesFirst(queue[i], holder) <= Due(place[queue[i]])
  <2>1. queue[i] \in Proc /\ queue # <<>>
    BY DEF TypeOK
  <2>2. state[queue[i]] = "waiting" /\ holder # None
    BY <2>1 DEF Coherent, QueueAgrees
  <2>3. holder \in Proc /\ state[holder] = "holding"
    BY <2>2 DEF TypeOK, Coherent, HolderAgrees
  <2>4. hold_left[holder] >= 1 /\ hold_left[holder] \in 0..MaxHold
    BY <2>3 DEF TypeOK, ProcessType, Coherent, HolderAgrees
  <2>5. waited[queue[i]] \in Nat /\ place[queue[i]] \in Nat
    BY <2>1 DEF TypeOK, ProcessType
  <2>. QED BY <2>1, <2>2, <2>3, <2>4, <2>5 DEF WaitBudget
<1>4. SUFFICES ASSUME NEW p \in Proc, Turn(p),
                      \/ StayIdle(p) \/ RequestQueued(p) \/ Wait(p) \/ Use(p)
                      \/ ReleaseToNext(p),
                      NEW i \in 1..Len(queue'), NEW q \in Proc, q = queue'[i],
                      NEW h \in Proc, h = holder', h # q
               PROVE  waited'[q] + Due(i - 1) + hold_left'[h]
                        + MovesFirst(q, h)' <= Due(place'[q])
  <2>1. ASSUME NEW p \in Proc, RequestGranted(p) \/ ReleaseToNobody(p)
        PROVE  queue' = <<>>
    BY <2>1 DEF RequestGranted, ReleaseToNobody, IsFree, Coherent, QueueAgrees
  <2>2. ASSUME NEW i \in 1..Len(queue')
        PROVE  /\ queue'[i] \in Proc /\ holder' \in Proc /\ holder' # queue'[i]
               /\ MovesFirst(queue[i], holder)' =
                    IF Dist(queue[i])' < Dist(holder)' THEN 1 ELSE 0
    <3>1. queue'[i] \in Proc /\ queue' # <<>>
      BY DEF TypeOK
    <3>2. state'[queue'[i]] = "waiting" /\ holder' # None
      BY <3>1 DEF Coherent, QueueAgrees
    <3>3. holder' \in Proc /\ state'[holder'] = "holding"
      BY <3>2 DEF TypeOK, Coherent, HolderAgrees
    <3>. QED BY <3>1, <3>2, <3>3 DEF MovesFirst
  <2>3. ASSUME NEW p \in Proc,
               \/ StayIdle(p) \/ RequestQueued(p) \/ Wait(p) \/ Use(p)
               \/ ReleaseToNext(p)
        PROVE  Turn(p)
    BY <2>3 DEF StayIdle, RequestQueued, Wait, Use, ReleaseToNext
  <2>. QED BY <1>1, <1>2, <2>1, <2>2, <2>3 DEF Next, WaitBudget, MovesFirst, Dist
<1>. USE <1>4
<1>10. i \in Nat /\ i - 1 \in Nat /\ (i - 1) + 1 = i
  BY DEF TypeOK
<1>11. Due(i) = Due(i - 1) + MaxHold /\ Due(i - 1) \in Nat /\ Due(i) \in Nat
  BY <1>10, DueFacts
<1>12. place[q] \in Nat /\ Due(place[q]) \in Nat
  BY DueFacts DEF TypeOK, ProcessType
<1>5. CASE StayIdle(p)
  <2>1. state[p] = "idle" /\ UNCHANGED <<holder, queue, hold_left, place, waited>>
    BY <1>5 DEF StayIdle
  <2>2. q # p /\ h # p
    BY <1>3, <2>1
  <2>3. MovesFirst(q, h)' = MovesFirst(q, h)
    BY <2>2, MovesFirstFacts
  <2>. QED BY <1>3, <2>1, <2>3
<1>6. CASE RequestQueued(p)
  <2>1. /\ state[p] = "idle" /\ holder' = holder /\ hold_left' = hold_left
        /\ queue' = Append(queue, p)
        /\ waited' = [waited EXCEPT ![p] = 0]
        /\ place' = [place EXCEPT ![p] = Len(queue) + 1]
    BY <1>6 DEF RequestQueued, Enqueue
  <2>2. /\ Len(queue') = Len(queue) + 1
        /\ \A k \in 1..Len(queue) : queue'[k] = queue[k]
        /\ queue'[Len(queue) + 1] = p
    BY <2>1, AppendFacts DEF TypeOK
  <2>3. h # p /\ hold_left[h] \in 0..MaxHold
    BY <2>1 DEF Coherent, HolderAgrees, TypeOK, ProcessType
  <2>4. CASE i = Len(queue) + 1
    <3>1. q = p
      BY <2>2, <2>4
    <3>2. MovesFirst(q, h)' = 0
      BY <2>3, <3>1, MovesFirstFacts
    <3>3. waited'[q] = 0 /\ place'[q] = i
      BY <2>1, <2>4, <3>1 DEF TypeOK, ProcessType
    <3>. QED BY <1>0, <1>11, <2>1, <2>3, <3>2, <3>3
  <2>5. CASE i # Len(queue) + 1
    <3>1. i \in 1..Len(queue) /\ q = queue[i]
      BY <1>0, <2>2, <2>5
    <3>2. q # p
      BY <1>3, <2>1, <3>1
    <3>3. MovesFirst(q, h)' = MovesFirst(q, h)
      BY <2>3, <3>2, MovesFirstFacts
    <3>4. waited'[q] = waited[q] /\ place'[q] = place[q]
      BY <2>1, <3>2 DEF TypeOK, ProcessType
    <3>. QED BY <1>3, <2>1, <3>1, <3>3, <3>4
  <2>. QED BY <2>4, <2>5
<1>7. CASE Wait(p)
  <2>1. /\ state[p] = "waiting" /\ UNCHANGED <<holder, queue, hold_left, place>>
        /\ waited' = [waited EXCEPT ![p] = @ + 1]
    BY <1>7 DEF Wait
  <2>2. h # p
    BY <1>3, <2>1
  <2>3. CASE q = p
    <3>1. MovesFirst(q, h) = 1 /\ MovesFirst(q, h)' = 0
      BY <2>3, MovesFirstFacts
    <3>2. waited'[q] = waited[q] + 1
      BY <2>1, <2>3 DEF TypeOK, ProcessType
    <3>3. /\ waited[q] \in Nat /\ hold_left[h] \in Nat /\ place[q] \in Nat
          /\ waited[q] + Due(i - 1) + hold_left[h] + 1 <= Due(place[q])
      BY <1>3, <2>1, <3>1
    <3>. QED BY <1>11, <1>12, <2>1, <3>1, <3>2, <3>3
  <2>4. CASE q # p
    <3>1. MovesFirst(q, h)' = MovesFirst(q, h)
      BY <2>2, <2>4, MovesFirstFacts
    <3>2. waited'[q] = waited[q]
      BY <2>1, <2>4 DEF TypeOK, ProcessType
    <3>. QED BY <1>3, <2>1, <3>1, <3>2
  <2>. QED BY <2>3, <2>4
<1>8. CASE Use(p)
  <2>1. /\ state[p] = "holding" /\ UNCHANGED <<holder, queue, place, waited>>
        /\ hold_left' = [hold_left EXCEPT ![p] = @ - 1]
    BY <1>8 DEF Use
  <2>2. h = p
    BY <2>1 DEF Coherent, HolderAgrees
  <2>3. MovesFirst(q, h) = 0 /\ MovesFirst(q, h)' = 1
    BY <2>2, MovesFirstFacts
  <2>4. hold_left'[h] = hold_left[h] - 1
    BY <2>1, <2>2 DEF TypeOK, ProcessType
  <2>5. /\ waited[q] \in Nat /\ hold_left[h] \in Nat /\ place[q] \in Nat
        /\ waited[q] + Due(i - 1) + hold_left[h] + 0 <= Due(place[q])
    BY <1>3, <2>1, <2>3
  <2>. QED BY <1>11, <1>12, <2>1, <2>3, <2>4, <2>5
<1>9. CASE ReleaseToNext(p)
  <2>1. /\ state[p] = "holding" /\ hold_left[p] = 1 /\ queue # <<>>
        /\ queue' = Tail(queue) /\ UNCHANGED <<place, waited>>
    BY <1>9 DEF ReleaseToNext, Dequeue
  <2>2. /\ Len(queue') = Len(queue) - 1
        /\ i + 1 \in 1..Len(queue) /\ q = queue[i + 1]
    BY <1>0, <2>1, TailFacts DEF TypeOK
  <2>3. holder = p
    BY <2>1 DEF Coherent, HolderAgrees
  <2>4. /\ waited[q] \in Nat /\ place[q] \in Nat
        /\ waited[q] + Due(i) + 1 + MovesFirst(q, p) <= Due(place[q])
    <3>1. (i + 1) - 1 = i
      OBVIOUS
    <3>. QED BY <1>3, <2>1, <2>2, <2>3, <3>1
  <2>5. hold_left'[h] \in 0..MaxHold
    BY DEF TypeOK, ProcessType
  <2>6. MovesFirst(q, h)' \in {0, 1} /\ MovesFirst(q, p) \in {0, 1}
    BY DEF MovesFirst
  <2>8. waited'[q] = waited[q] /\ place'[q] = place[q]
    BY <2>1
  <2>9. waited[q] + Due(i - 1) + hold_left'[h] + MovesFirst(q, h)'
          <= Due(place[q])
    <3>1. hold_left'[h] \in Int /\ hold_left'[h] <= MaxHold
      BY <1>0, <2>5
    <3>2. MovesFirst(q, h)' \in Int /\ MovesFirst(q, h)' <= 1
      BY <2>6
    <3>3. waited[q] + Due(i) + 1 <= Due(place[q])
      BY <1>11, <1>12, <2>4, <2>6
    <3>4. waited[q] \in Nat /\ MaxHold \in Nat
      BY <1>0, <2>4
    <3>. QED BY <1>11, <1>12, <3>1, <3>2, <3>3, <3>4, BudgetShift, Zenon
  <2>. QED BY <2>8, <2>9
<1>. QED BY <1>5, <1>6, <1>7, <1>8, <1>9

-----------------------------------------------------------------------------
(* Theorems *)

\* Inv is inductive.
THEOREM Invariance == Spec => []Inv
<1>1. Inv /\ [Next]_vars => Inv'
  <2>. SUFFICES ASSUME Inv, [Next]_vars PROVE Inv'
    OBVIOUS
  <2>1. TypeOK'
    BY TypeStep DEF Inv, Coherent
  <2>2. Coherent'
    BY <2>1, CoherentStep DEF Inv
  <2>3. WaitBudget'
    BY <2>1, <2>2, BudgetStep DEF Inv
  <2>. QED BY <2>1, <2>2, <2>3 DEF Inv
<1>. QED BY <1>1, InitInv, PTL DEF Spec

\* The variables keep their types.
THEOREM TypeCorrect == Spec => []TypeOK
<1>1. Inv => TypeOK
  BY DEF Inv
<1>. QED BY <1>1, Invariance, PTL

\* The server's holder and queue always agree with what the processes do, and
\* every request is accounted for.
THEOREM AlwaysCoherent == Spec => []Coherent
<1>1. Inv => Coherent
  BY DEF Inv
<1>. QED BY <1>1, Invariance, PTL

\* A request in place k is granted before its process has waited MaxHold * k
\* turns.
THEOREM NoStarvation == Spec => []BoundedWait
<1>1. Inv => BoundedWait
  <2>. SUFFICES ASSUME Inv, NEW p \in Proc, state[p] = "waiting"
                PROVE  waited[p] <= MaxHold * place[p]
    BY DEF BoundedWait
  <2>1. PICK i \in 1..Len(queue) : queue[i] = p
    BY DEF Inv, Coherent, QueueAgrees
  <2>2. waited[p] + Due(i - 1) + hold_left[holder] + MovesFirst(p, holder)
          <= Due(place[p])
    BY <2>1 DEF Inv, WaitBudget
  <2>3. i - 1 \in Nat
    BY DEF Inv, TypeOK
  <2>6. MovesFirst(p, holder) \in {0, 1}
    BY DEF MovesFirst
  <2>7. holder \in Proc
    <3>1. holder # None
      BY <2>1 DEF Inv, TypeOK, Coherent, QueueAgrees
    <3>. QED BY <3>1 DEF Inv, TypeOK
  <2>8. hold_left[holder] \in Nat /\ waited[p] \in Nat /\ place[p] \in Nat
    BY <2>7 DEF Inv, TypeOK, ProcessType
  <2>9. Due(i - 1) \in Nat /\ Due(place[p]) \in Nat
    BY <2>3, <2>8, DueFacts
  <2>10. waited[p] <= Due(place[p])
    BY <2>2, <2>6, <2>8, <2>9
  <2>. QED BY <2>10 DEF Due
<1>. QED BY <1>1, Invariance, PTL

\* Seen from the processes, the simulation implements Mutex: each turn is one
\* of its steps, or none.
THEOREM Implementation == Spec => ImplementsMutex
<1>1. Init => M!MutexInit
  BY DEF Init, M!MutexInit
<1>2. Inv /\ [Next]_vars => [M!MutexNext]_(M!mutexVars)
  <2>. SUFFICES ASSUME Inv, [Next]_vars PROVE [M!MutexNext]_(M!mutexVars)
    OBVIOUS
  <2>. USE DEF Inv
  <2>. DEFINE trying == {q \in Proc : state[q] = "waiting"}
              critical == {q \in Proc : state[q] = "holding"}
  <2>1. CASE UNCHANGED state
    BY <2>1 DEF M!mutexVars
  <2>2. ASSUME NEW p \in Proc, RequestGranted(p) PROVE M!Enter(p)
    <3>1. queue = <<>> /\ holder = None
      BY <2>2 DEF RequestGranted, IsFree, Coherent, QueueAgrees
    <3>2. trying = {} /\ critical = {}
      BY <3>1, NoneIsNobody DEF Coherent, QueueAgrees, HolderAgrees
    <3>3. state' = [state EXCEPT ![p] = "holding"]
      BY <2>2 DEF RequestGranted
    <3>4. critical' = {p} /\ trying' = trying
      BY <3>2, <3>3 DEF TypeOK, ProcessType
    <3>. QED BY <3>2, <3>4 DEF M!Enter
  <2>3. ASSUME NEW p \in Proc, RequestQueued(p) PROVE M!Try(p)
    <3>1. holder \in Proc
      BY <2>3 DEF RequestQueued, IsFree, TypeOK
    <3>2. critical # {}
      BY <3>1 DEF Coherent, HolderAgrees
    <3>3. state[p] = "idle" /\ state' = [state EXCEPT ![p] = "waiting"]
      BY <2>3 DEF RequestQueued
    <3>4. p \notin trying \union critical
      BY <3>3
    <3>5. critical' = critical /\ trying' = trying \union {p}
      BY <3>3 DEF TypeOK, ProcessType
    <3>. QED BY <3>2, <3>4, <3>5 DEF M!Try
  <2>4. ASSUME NEW p \in Proc, ReleaseToNobody(p) PROVE M!Leave(p)
    <3>1. state[p] = "holding" /\ queue = <<>> /\ state' = [state EXCEPT ![p] = "idle"]
      BY <2>4 DEF ReleaseToNobody
    <3>2. trying = {} /\ critical = {p}
      BY <3>1 DEF Coherent, QueueAgrees, HolderAgrees
    <3>3. critical' = {} /\ trying' = trying
      BY <3>1, <3>2 DEF TypeOK, ProcessType
    <3>. QED BY <3>2, <3>3 DEF M!Leave
  <2>5. ASSUME NEW p \in Proc, ReleaseToNext(p) PROVE M!Leave(p)
    <3>1. Head(queue) = queue[1] /\ Head(queue) \in Proc /\ 1 \in 1..Len(queue)
      BY <2>5, TailFacts DEF ReleaseToNext, TypeOK
    <3>2. PICK h \in Proc : h = Head(queue)
      BY <3>1
    <3>3. /\ state[p] = "holding" /\ state[h] = "waiting"
          /\ state' = [state EXCEPT ![p] = "idle", ![h] = "holding"]
      BY <2>5, <3>1, <3>2 DEF ReleaseToNext, Coherent, QueueAgrees
    <3>4. critical = {p} /\ h \in trying
      BY <3>3 DEF Coherent, HolderAgrees
    <3>5. critical' = {h}
      BY <3>3, <3>4 DEF TypeOK, ProcessType
    <3>6. trying' = trying \ {h}
      BY <3>3 DEF TypeOK, ProcessType
    <3>. QED BY <3>4, <3>5, <3>6 DEF M!Leave
  <2>. QED
    BY <2>1, <2>2, <2>3, <2>4, <2>5
    DEF Next, vars, StayIdle, Wait, Use, M!MutexNext
<1>. QED BY <1>1, <1>2, Invariance, PTL DEF Spec, ImplementsMutex, M!MutexSpec
=============================================================================

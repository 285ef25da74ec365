------------------------ MODULE VectorClockSimProofs ------------------------
(***************************************************************************)
(* Vector clocks tell causality exactly, for any number of processes and   *)
(* rounds, and the summary of the simulation shows what it promises.       *)
(*                                                                         *)
(* A clock with the past it stands for is a snapshot, wherever it is kept: *)
(* by a process, in a message or in the history.  A snapshot counts the    *)
(* events of its past and no others, and dominates their clocks.  That no  *)
(* two events are in each other's past is the other half: a new event is   *)
(* counted nowhere yet.                                                    *)
(***************************************************************************)
EXTENDS VectorClockSim, TLAPS

Kinds == {"RECV", "SEND", "LOCAL"}
EventRecords == [kind : Kinds, clock : Clock, past : SUBSET Event]
Messages == [sender : Proc, clock : Clock, past : SUBSET Event]

\* The events of P are the first v[q] events of each process q.
Counts(v, P) ==
  /\ \A e \in P : e \in Event /\ e[2] \in 1..v[e[1]]
  /\ \A q \in Proc : \A i \in 1..v[q] : <<q, i>> \in P

\* They are in the history h, and their clocks are not beyond v.
Dominates(v, h) ==
  \A q \in Proc :
    /\ v[q] <= Len(h[q])
    /\ \A i \in 1..v[q] : \A r \in Proc : h[q][i].clock[r] <= v[r]

Snapshot(v, P, h) == v \in Clock /\ Counts(v, P) /\ Dominates(v, h)

Snapshots ==
  /\ \A p \in Proc : Snapshot(clocks[p], past[p], history)
  /\ \A p \in Proc : \A k \in 1..Len(inboxes[p]) :
       Snapshot(inboxes[p][k].clock, inboxes[p][k].past, history)
  /\ \A p \in Proc : \A i \in 1..Len(history[p]) :
       /\ Snapshot(history[p][i].clock, history[p][i].past, history)
       /\ history[p][i].clock[p] = i

\* No two events are in each other's past.
Acyclic ==
  \A p, q \in Proc : \A i \in 1..Len(history[p]), j \in 1..Len(history[q]) :
    p # q => ~(i <= history[q][j].clock[p] /\ j <= history[p][i].clock[q])

\* Turns are taken in order; nobody has heard of anybody until P0 sends.
InTurn ==
  /\ round >= 1
  /\ \A p \in Proc : turn_count[p] = round - (IF p < turn THEN 0 ELSE 1)
  /\ round = 1 \/ (round = 2 /\ turn = 0) =>
       /\ \A p \in Proc : inboxes[p] = <<>>
       /\ \A p, q \in Proc : p # q => clocks[p][q] = 0

FirstAlone ==
  \A p, q \in Proc : p # q /\ history[p] # <<>> => history[p][1].clock[q] = 0

SomeReceived == \E p \in Proc : \E i \in 1..Len(history[p]) : history[p][i].kind = "RECV"

\* The message of P0's second turn waits for a process that has yet to move, or
\* some message has been received.
MessageFlows ==
  round > 2 \/ (round = 2 /\ turn > 0) =>
    \/ SomeReceived
    \/ round = 2 /\ \E t \in Proc : t >= turn /\ inboxes[t] # <<>>

Inv == TypeOK /\ Snapshots /\ Acyclic /\ InTurn /\ FirstAlone /\ MessageFlows

-----------------------------------------------------------------------------
(* Sequences and clocks *)

LEMMA ProcFacts == N \in Nat /\ N >= 2 /\ 0 \in Proc /\ Proc \subseteq Nat
  BY SimulationAssumption DEF Proc

\* A sequence after append.
LEMMA AppendFacts ==
  ASSUME NEW S, NEW s \in Seq(S), NEW e \in S
  PROVE  /\ Append(s, e) \in Seq(S)
         /\ Len(s) \in Nat /\ Len(Append(s, e)) = Len(s) + 1
         /\ \A i \in 1..Len(s) : Append(s, e)[i] = s[i]
         /\ Append(s, e)[Len(s) + 1] = e
  OBVIOUS

\* An inbox after pop(0).
LEMMA TailFacts ==
  ASSUME NEW S, NEW s \in Seq(S), s # <<>>
  PROVE  /\ Len(s) \in Nat /\ Len(s) >= 1
         /\ Head(s) = s[1] /\ Head(s) \in S
         /\ Tail(s) \in Seq(S)
         /\ Len(Tail(s)) = Len(s) - 1
         /\ \A i \in 1..(Len(s) - 1) : Tail(s)[i] = s[i + 1]
  OBVIOUS

LEMMA MergeFacts ==
  ASSUME NEW v \in Clock, NEW w \in Clock
  PROVE  /\ merge(v, w) \in Clock
         /\ \A q \in Proc : /\ v[q] <= merge(v, w)[q] /\ w[q] <= merge(v, w)[q]
                            /\ merge(v, w)[q] = v[q] \/ merge(v, w)[q] = w[q]
  BY DEF Clock, merge

LEMMA TickFacts ==
  ASSUME NEW v \in Clock, NEW p \in Proc
  PROVE  /\ tick(v, p) \in Clock
         /\ tick(v, p)[p] = v[p] + 1
         /\ \A q \in Proc : q # p => tick(v, p)[q] = v[q]
         /\ \A q \in Proc : v[q] <= tick(v, p)[q]
  BY DEF Clock, tick

Histories == [Proc -> Seq(EventRecords)]

\* An entry of a history.
LEMMA EntryFacts ==
  ASSUME NEW h \in Histories, NEW q \in Proc, NEW i \in 1..Len(h[q])
  PROVE  /\ h[q][i] \in EventRecords /\ h[q][i].clock \in Clock
         /\ h[q][i].past \in SUBSET Event
         /\ \A r \in Proc : h[q][i].clock[r] \in Nat
<1>1. h[q] \in Seq(EventRecords)
  BY DEF Histories
<1>2. h[q][i] \in EventRecords
  BY <1>1
<1>3. h[q][i].clock \in Clock /\ h[q][i].past \in SUBSET Event
  BY <1>2 DEF EventRecords
<1>. QED BY <1>2, <1>3 DEF Clock

\* What a merged clock stands for.
LEMMA MergedSnapshot ==
  ASSUME NEW v, NEW P, NEW w, NEW Q, NEW h \in Histories,
         Snapshot(v, P, h), Snapshot(w, Q, h)
  PROVE  Snapshot(merge(v, w), P \union Q, h)
<1>. DEFINE u == merge(v, w)
<1>1. v \in Clock /\ w \in Clock
  BY DEF Snapshot
<1>2. /\ u \in Clock
      /\ \A q \in Proc : /\ v[q] <= u[q] /\ w[q] <= u[q]
                         /\ u[q] = v[q] \/ u[q] = w[q]
  BY <1>1, MergeFacts
<1>3. \A q \in Proc : v[q] \in Nat /\ w[q] \in Nat /\ u[q] \in Nat
  BY <1>1, <1>2 DEF Clock
<1>. HIDE DEF u
<1>4. Counts(u, P \union Q)
  <2>1. \A e \in P \union Q : e \in Event /\ e[2] \in 1..u[e[1]]
    <3>1. SUFFICES ASSUME NEW e \in P \union Q
                   PROVE  e \in Event /\ e[2] \in 1..u[e[1]]
      OBVIOUS
    <3>2. e \in Event /\ (e[2] \in 1..v[e[1]] \/ e[2] \in 1..w[e[1]])
      BY DEF Snapshot, Counts
    <3>3. e[1] \in Proc
      BY <3>2 DEF Event
    <3>. QED BY <1>2, <1>3, <3>2, <3>3
  <2>2. ASSUME NEW q \in Proc, NEW i \in 1..u[q]
        PROVE  <<q, i>> \in P \union Q
    <3>1. i \in 1..v[q] \/ i \in 1..w[q]
      BY <1>2
    <3>. QED BY <3>1 DEF Snapshot, Counts
  <2>. QED BY <2>1, <2>2 DEF Counts
<1>5. Dominates(u, h)
  <2>1. ASSUME NEW q \in Proc
        PROVE  u[q] <= Len(h[q])
    BY <1>2 DEF Snapshot, Dominates
  <2>2. ASSUME NEW q \in Proc, NEW i \in 1..u[q], NEW r \in Proc
        PROVE  h[q][i].clock[r] <= u[r]
    <3>1. Len(h[q]) \in Nat
      BY DEF Histories
    <3>2. i \in 1..v[q] \/ i \in 1..w[q]
      BY <1>2
    <3>3. i \in 1..Len(h[q])
      BY <1>3, <2>1, <3>1
    <3>4. h[q][i].clock[r] \in Nat
      BY <3>3, EntryFacts
    <3>5. h[q][i].clock[r] <= v[r] \/ h[q][i].clock[r] <= w[r]
      BY <3>2 DEF Snapshot, Dominates
    <3>. QED BY <1>2, <1>3, <3>4, <3>5
  <2>. QED BY <2>1, <2>2 DEF Dominates
<1>. QED BY <1>2, <1>4, <1>5 DEF Snapshot, u
-----------------------------------------------------------------------------
(* One more event *)

\* What Record does to the history.
LEMMA RecordFacts ==
  ASSUME TypeOK, NEW p \in Proc, NEW kind \in Kinds, Record(p, kind),
         clocks'[p] \in Clock, past'[p] \in SUBSET Event
  PROVE  /\ history' \in Histories
         /\ \A q \in Proc : Len(history[q]) \in Nat
         /\ \A q \in Proc : q # p => history'[q] = history[q]
         /\ Len(history'[p]) = Len(history[p]) + 1
         /\ \A i \in 1..Len(history[p]) : history'[p][i] = history[p][i]
         /\ history'[p][Len(history[p]) + 1] =
              [kind |-> kind, clock |-> clocks'[p], past |-> past'[p]]
<1>. DEFINE e == [kind |-> kind, clock |-> clocks'[p], past |-> past'[p]]
<1>1. history \in Histories
  BY DEF TypeOK, Histories, EventRecords, Kinds
<1>2. e \in EventRecords
  BY DEF EventRecords
<1>3. history' = [history EXCEPT ![p] = Append(@, e)]
  BY DEF Record
<1>. HIDE DEF e
<1>4. \A q \in Proc : history[q] \in Seq(EventRecords) /\ Len(history[q]) \in Nat
  BY <1>1 DEF Histories
<1>5. history'[p] = Append(history[p], e)
  BY <1>1, <1>3 DEF Histories
<1>6. \A q \in Proc : q # p => history'[q] = history[q]
  BY <1>1, <1>3 DEF Histories
<1>7. /\ Append(history[p], e) \in Seq(EventRecords)
      /\ Len(Append(history[p], e)) = Len(history[p]) + 1
      /\ \A i \in 1..Len(history[p]) : Append(history[p], e)[i] = history[p][i]
      /\ Append(history[p], e)[Len(history[p]) + 1] = e
  BY <1>2, <1>4, AppendFacts
<1>8. history' \in Histories
  BY <1>1, <1>3, <1>7 DEF Histories
<1>. QED BY <1>4, <1>5, <1>6, <1>7, <1>8 DEF e

\* A history that is longer stands for the same snapshots.
LEMMA StillSnapshot ==
  ASSUME NEW h \in Histories, NEW g \in Histories, NEW v, NEW P, Snapshot(v, P, h),
         \A q \in Proc : /\ Len(h[q]) <= Len(g[q])
                        /\ \A i \in 1..Len(h[q]) : g[q][i] = h[q][i]
  PROVE  Snapshot(v, P, g)
<1>1. ASSUME NEW q \in Proc
      PROVE  /\ v[q] \in Nat /\ Len(h[q]) \in Nat /\ Len(g[q]) \in Nat
             /\ v[q] <= Len(h[q]) /\ v[q] <= Len(g[q])
  <2>1. v[q] \in Nat /\ v[q] <= Len(h[q])
    BY DEF Snapshot, Dominates, Clock
  <2>2. Len(h[q]) \in Nat /\ Len(g[q]) \in Nat
    BY DEF Histories
  <2>. QED BY <2>1, <2>2
<1>2. ASSUME NEW q \in Proc, NEW i \in 1..v[q], NEW r \in Proc
      PROVE  g[q][i].clock[r] <= v[r]
  <2>1. i \in 1..Len(h[q])
    BY <1>1
  <2>2. g[q][i] = h[q][i]
    BY <2>1
  <2>. QED BY <2>2 DEF Snapshot, Dominates
<1>. QED BY <1>1, <1>2 DEF Snapshot, Dominates

\* The snapshot u becomes the event that p makes, which ticks the clock.
LEMMA NewSnapshot ==
  ASSUME NEW h \in Histories, NEW g \in Histories, NEW p \in Proc,
         NEW u, NEW P, Snapshot(u, P, h), u[p] = Len(h[p]),
         \A q \in Proc : q # p => g[q] = h[q],
         Len(g[p]) = Len(h[p]) + 1,
         \A i \in 1..Len(h[p]) : g[p][i] = h[p][i],
         g[p][Len(h[p]) + 1].clock = tick(u, p)
  PROVE  Snapshot(tick(u, p), P \union {<<p, Len(h[p]) + 1>>}, g)
<1>. DEFINE v == tick(u, p)
            e == <<p, Len(h[p]) + 1>>
<1>1. u \in Clock /\ \A q \in Proc : u[q] \in Nat /\ Len(h[q]) \in Nat /\ Len(g[q]) \in Nat
  BY DEF Snapshot, Clock, Histories
<1>2. /\ v \in Clock
      /\ v[p] = u[p] + 1 /\ \A q \in Proc : q # p => v[q] = u[q]
      /\ \A q \in Proc : u[q] <= v[q] /\ v[q] \in Nat
  <2>1. v \in Clock
    BY <1>1, TickFacts
  <2>2. \A q \in Proc : v[q] \in Nat
    BY <2>1 DEF Clock
  <2>. QED BY <1>1, <2>1, <2>2, TickFacts
<1>3. g[p][Len(h[p]) + 1].clock = v
  OBVIOUS
<1>. HIDE DEF v
<1>4. Counts(v, P \union {e})
  <2>1. ASSUME NEW x \in P \union {e}
        PROVE  x \in Event /\ x[2] \in 1..v[x[1]]
    <3>1. CASE x \in P
      <4>1. x \in Event /\ x[2] \in 1..u[x[1]]
        BY <3>1 DEF Snapshot, Counts
      <4>2. x[1] \in Proc
        BY <4>1 DEF Event
      <4>. QED BY <1>1, <1>2, <4>1, <4>2
    <3>2. CASE x = e
      BY <1>1, <1>2, <3>2 DEF Event
    <3>. QED BY <3>1, <3>2
  <2>2. ASSUME NEW q \in Proc, NEW i \in 1..v[q]
        PROVE  <<q, i>> \in P \union {e}
    <3>1. i \in 1..u[q] \/ (q = p /\ i = Len(h[p]) + 1)
      BY <1>1, <1>2
    <3>. QED BY <3>1 DEF Snapshot, Counts
  <2>. QED BY <2>1, <2>2 DEF Counts
<1>5. ASSUME NEW q \in Proc
      PROVE  v[q] <= Len(g[q])
  <2>1. u[q] <= Len(h[q])
    BY DEF Snapshot, Dominates
  <2>. QED BY <1>1, <1>2, <2>1
<1>6. ASSUME NEW q \in Proc, NEW i \in 1..v[q], NEW r \in Proc
      PROVE  g[q][i].clock[r] <= v[r]
  <2>1. CASE i \in 1..u[q]
    <3>1. i \in 1..Len(h[q])
      BY <1>1, <2>1 DEF Snapshot, Dominates
    <3>2. g[q][i] = h[q][i]
      BY <3>1
    <3>3. h[q][i].clock[r] \in Nat
      BY <3>1, EntryFacts
    <3>4. h[q][i].clock[r] <= u[r]
      BY <2>1 DEF Snapshot, Dominates
    <3>. QED BY <1>1, <1>2, <3>2, <3>3, <3>4
  <2>2. CASE i \notin 1..u[q]
    <3>1. q = p /\ i = Len(h[p]) + 1
      BY <1>1, <1>2, <2>2
    <3>. QED BY <1>2, <1>3, <3>1
  <2>. QED BY <2>1, <2>2
<1>. QED BY <1>2, <1>4, <1>5, <1>6 DEF Snapshot, Dominates, v
\* p makes an event of what it knows, clock u and past P.
Makes(p, u, P, kind) ==
  /\ Snapshot(u, P, history) /\ u[p] = Len(history[p])
  /\ clocks' = [clocks EXCEPT ![p] = tick(u, p)]
  /\ past' = [past EXCEPT ![p] = P \union {ThisEvent(p)}]
  /\ Record(p, kind)

LEMMA TypeFacts ==
  ASSUME TypeOK
  PROVE  /\ history \in Histories
         /\ clocks \in [Proc -> Clock] /\ past \in [Proc -> SUBSET Event]
         /\ inboxes \in [Proc -> Seq(Messages)]
         /\ \A p \in Proc : Len(history[p]) \in Nat
<1>1. history \in Histories
  BY DEF TypeOK, Histories, EventRecords, Kinds
<1>2. \A p \in Proc : Len(history[p]) \in Nat
  BY <1>1 DEF Histories
<1>. QED BY <1>1, <1>2 DEF TypeOK, Messages

LEMMA MadeFacts ==
  ASSUME Inv, NEW p \in Proc, NEW u, NEW P, NEW kind \in Kinds, Makes(p, u, P, kind)
  PROVE  /\ clocks' \in [Proc -> Clock] /\ past' \in [Proc -> SUBSET Event]
         /\ clocks'[p] = tick(u, p) /\ clocks'[p][p] = Len(history[p]) + 1
         /\ \A q \in Proc : q # p => clocks'[q] = clocks[q] /\ past'[q] = past[q]
         /\ history' \in Histories
         /\ \A q \in Proc : q # p => history'[q] = history[q]
         /\ Len(history'[p]) = Len(history[p]) + 1
         /\ \A i \in 1..Len(history[p]) : history'[p][i] = history[p][i]
         /\ history'[p][Len(history[p]) + 1].kind = kind
         /\ history'[p][Len(history[p]) + 1].clock = clocks'[p]
         /\ history'[p][Len(history[p]) + 1].past = past'[p]
         /\ Snapshot(clocks'[p], past'[p], history')
         /\ \A v, Q : Snapshot(v, Q, history) => Snapshot(v, Q, history')
<1>0. TypeOK
  BY DEF Inv
<1>1. /\ history \in Histories /\ clocks \in [Proc -> Clock] /\ past \in [Proc -> SUBSET Event]
      /\ \A q \in Proc : Len(history[q]) \in Nat
  BY <1>0, TypeFacts
<1>2. u \in Clock /\ tick(u, p) \in Clock /\ tick(u, p)[p] = Len(history[p]) + 1
  BY TickFacts DEF Makes, Snapshot
<1>3. P \union {ThisEvent(p)} \in SUBSET Event
  BY <1>1 DEF Makes, Snapshot, Counts, ThisEvent, Event
<1>4. /\ clocks' \in [Proc -> Clock] /\ past' \in [Proc -> SUBSET Event]
      /\ clocks'[p] = tick(u, p) /\ past'[p] = P \union {<<p, Len(history[p]) + 1>>}
      /\ \A q \in Proc : q # p => clocks'[q] = clocks[q] /\ past'[q] = past[q]
  <2>1. /\ clocks' \in [Proc -> Clock] /\ clocks'[p] = tick(u, p)
        /\ \A q \in Proc : q # p => clocks'[q] = clocks[q]
    BY <1>1, <1>2 DEF Makes
  <2>2. /\ past' \in [Proc -> SUBSET Event] /\ past'[p] = P \union {ThisEvent(p)}
        /\ \A q \in Proc : q # p => past'[q] = past[q]
    BY <1>1, <1>3 DEF Makes
  <2>. QED BY <2>1, <2>2 DEF ThisEvent
<1>5. /\ history' \in Histories
      /\ \A q \in Proc : q # p => history'[q] = history[q]
      /\ Len(history'[p]) = Len(history[p]) + 1
      /\ \A i \in 1..Len(history[p]) : history'[p][i] = history[p][i]
      /\ history'[p][Len(history[p]) + 1] =
           [kind |-> kind, clock |-> clocks'[p], past |-> past'[p]]
  <2>1. clocks'[p] \in Clock /\ past'[p] \in SUBSET Event /\ Record(p, kind)
    BY <1>4 DEF Makes
  <2>. QED BY <1>0, <2>1, RecordFacts
<1>6. /\ history'[p][Len(history[p]) + 1].kind = kind
      /\ history'[p][Len(history[p]) + 1].clock = clocks'[p]
      /\ history'[p][Len(history[p]) + 1].past = past'[p]
  BY <1>5
<1>7. Snapshot(clocks'[p], past'[p], history')
  <2>1. Snapshot(u, P, history) /\ u[p] = Len(history[p])
    BY DEF Makes
  <2>2. history'[p][Len(history[p]) + 1].clock = tick(u, p)
    BY <1>4, <1>5
  <2>3. Snapshot(tick(u, p), P \union {<<p, Len(history[p]) + 1>>}, history')
    BY <1>1, <1>5, <2>1, <2>2, NewSnapshot
  <2>. QED BY <1>4, <2>3
<1>8. ASSUME NEW v, NEW Q, Snapshot(v, Q, history)
      PROVE  Snapshot(v, Q, history')
  <2>1. \A q \in Proc : /\ Len(history[q]) <= Len(history'[q])
                       /\ \A i \in 1..Len(history[q]) : history'[q][i] = history[q][i]
    BY <1>1, <1>5
  <2>. QED BY <1>1, <1>5, <1>8, <2>1, StillSnapshot
<1>. QED BY <1>2, <1>4, <1>5, <1>6, <1>7, <1>8

\* The messages there are afterwards: those of before, and p's new one.
OldOrNew(p) ==
  \A q \in Proc : \A k \in 1..Len(inboxes'[q]) :
    \/ \E j \in 1..Len(inboxes[q]) : inboxes'[q][k] = inboxes[q][j]
    \/ inboxes'[q][k].clock = clocks'[p] /\ inboxes'[q][k].past = past'[p]

LEMMA SnapshotsStep ==
  ASSUME Inv, NEW p \in Proc, NEW u, NEW P, NEW kind \in Kinds, Makes(p, u, P, kind),
         OldOrNew(p)
  PROVE  Snapshots'
<1>0. \A q \in Proc : Len(history[q]) \in Nat
  BY TypeFacts DEF Inv
<1>1. /\ clocks'[p][p] = Len(history[p]) + 1
      /\ \A q \in Proc : q # p => /\ clocks'[q] = clocks[q] /\ past'[q] = past[q]
                                /\ history'[q] = history[q]
      /\ Len(history'[p]) = Len(history[p]) + 1
      /\ \A i \in 1..Len(history[p]) : history'[p][i] = history[p][i]
      /\ history'[p][Len(history[p]) + 1].clock = clocks'[p]
      /\ history'[p][Len(history[p]) + 1].past = past'[p]
      /\ Snapshot(clocks'[p], past'[p], history')
      /\ \A v, Q : Snapshot(v, Q, history) => Snapshot(v, Q, history')
  BY MadeFacts
<1>2. ASSUME NEW q \in Proc
      PROVE  Snapshot(clocks'[q], past'[q], history')
  <2>1. CASE q # p
    BY <1>1, <2>1 DEF Inv, Snapshots
  <2>2. CASE q = p
    BY <1>1, <2>2
  <2>. QED BY <2>1, <2>2
<1>3. ASSUME NEW q \in Proc, NEW k \in 1..Len(inboxes'[q])
      PROVE  Snapshot(inboxes'[q][k].clock, inboxes'[q][k].past, history')
  <2>1. CASE \E j \in 1..Len(inboxes[q]) : inboxes'[q][k] = inboxes[q][j]
    BY <1>1, <2>1 DEF Inv, Snapshots
  <2>2. CASE inboxes'[q][k].clock = clocks'[p] /\ inboxes'[q][k].past = past'[p]
    BY <1>1, <2>2
  <2>. QED BY <2>1, <2>2 DEF OldOrNew
<1>4. ASSUME NEW q \in Proc, NEW i \in 1..Len(history'[q])
      PROVE  /\ Snapshot(history'[q][i].clock, history'[q][i].past, history')
             /\ history'[q][i].clock[q] = i
  <2>1. CASE q = p /\ i = Len(history[p]) + 1
    BY <1>1, <2>1
  <2>2. CASE ~(q = p /\ i = Len(history[p]) + 1)
    <3>1. i \in 1..Len(history[q]) /\ history'[q][i] = history[q][i]
      BY <1>0, <1>1, <2>2
    <3>. QED BY <1>1, <3>1 DEF Inv, Snapshots
  <2>. QED BY <2>1, <2>2
<1>. QED BY <1>2, <1>3, <1>4 DEF Snapshots

LEMMA AcyclicStep ==
  ASSUME Inv, NEW p \in Proc, NEW u, NEW P, NEW kind \in Kinds, Makes(p, u, P, kind)
  PROVE  Acyclic'
<1>0. history \in Histories /\ \A q \in Proc : Len(history[q]) \in Nat
  BY TypeFacts DEF Inv
<1>1. /\ \A q \in Proc : q # p => history'[q] = history[q]
      /\ Len(history'[p]) = Len(history[p]) + 1
      /\ \A i \in 1..Len(history[p]) : history'[p][i] = history[p][i]
  BY MadeFacts
<1>2. ASSUME NEW q \in Proc, NEW j \in 1..Len(history[q])
      PROVE  history[q][j].clock[p] \in Nat /\ history[q][j].clock[p] < Len(history[p]) + 1
  <2>1. history[q][j].clock[p] \in Nat
    BY <1>0, EntryFacts
  <2>2. history[q][j].clock[p] <= Len(history[p])
    BY DEF Inv, Snapshots, Snapshot, Dominates
  <2>. QED BY <1>0, <2>1, <2>2
<1>3. SUFFICES ASSUME NEW a \in Proc, NEW b \in Proc, a # b,
                      NEW i \in 1..Len(history'[a]), NEW j \in 1..Len(history'[b]),
                      i <= history'[b][j].clock[a], j <= history'[a][i].clock[b]
               PROVE  FALSE
  BY DEF Acyclic
<1>4. CASE a = p /\ i = Len(history[p]) + 1
  <2>1. history'[b] = history[b]
    BY <1>1, <1>3, <1>4
  <2>. QED BY <1>0, <1>2, <1>3, <1>4, <2>1
<1>5. CASE b = p /\ j = Len(history[p]) + 1
  <2>1. history'[a] = history[a]
    BY <1>1, <1>3, <1>5
  <2>. QED BY <1>0, <1>2, <1>3, <1>5, <2>1
<1>6. CASE ~(a = p /\ i = Len(history[p]) + 1) /\ ~(b = p /\ j = Len(history[p]) + 1)
  <2>1. i \in 1..Len(history[a]) /\ history'[a][i] = history[a][i]
    BY <1>0, <1>1, <1>6
  <2>2. j \in 1..Len(history[b]) /\ history'[b][j] = history[b][j]
    BY <1>0, <1>1, <1>6
  <2>. QED BY <1>3, <2>1, <2>2 DEF Inv, Acyclic
<1>. QED BY <1>4, <1>5, <1>6

LEMMA EmptyFacts ==
  ASSUME NEW S, NEW s \in Seq(S)
  PROVE  /\ Len(s) \in Nat
         /\ s = <<>> <=> Len(s) = 0
  OBVIOUS

LEMMA FirstAloneStep ==
  ASSUME Inv, NEW p \in Proc, NEW u, NEW P, NEW kind \in Kinds, Makes(p, u, P, kind),
         history[p] = <<>> => \A q \in Proc \ {p} : u[q] = 0
  PROVE  FirstAlone'
<1>1. /\ \A q \in Proc : q # p => history'[q] = history[q]
      /\ \A i \in 1..Len(history[p]) : history'[p][i] = history[p][i]
      /\ history'[p][Len(history[p]) + 1].clock = clocks'[p] /\ clocks'[p] = tick(u, p)
  BY MadeFacts
<1>2. SUFFICES ASSUME NEW a \in Proc, NEW b \in Proc, a # b, history'[a] # <<>>
               PROVE  history'[a][1].clock[b] = 0
  BY DEF FirstAlone
<1>3. CASE a # p
  BY <1>1, <1>2, <1>3 DEF Inv, FirstAlone
<1>4. CASE a = p /\ history[p] # <<>>
  <2>1. history[p] \in Seq(EventRecords)
    BY TypeFacts DEF Inv, Histories
  <2>2. Len(history[p]) \in Nat /\ Len(history[p]) # 0
    BY <1>4, <2>1, EmptyFacts
  <2>3. history'[p][1] = history[p][1]
    BY <1>1, <2>2
  <2>. QED BY <1>2, <1>4, <2>3 DEF Inv, FirstAlone
<1>5. CASE a = p /\ history[p] = <<>>
  <2>1. history'[p][1].clock = tick(u, p)
    BY <1>1, <1>5
  <2>2. tick(u, p)[b] = u[b]
    BY <1>2, <1>5, TickFacts DEF Makes, Snapshot
  <2>. QED BY <1>2, <1>5, <2>1, <2>2
<1>. QED BY <1>3, <1>4, <1>5
-----------------------------------------------------------------------------
(* Turns *)

LEMMA TurnFacts ==
  ASSUME TypeOK, NEW p \in Proc, Turn(p)
  PROVE  /\ turn = p /\ turn' \in Proc /\ round' \in Nat
         /\ turn_count' \in [Proc -> Nat] /\ turn_count'[p] = turn_count[p] + 1
         /\ \A q \in Proc : q # p => turn_count'[q] = turn_count[q]
         /\ \/ turn < N - 1 /\ turn' = turn + 1 /\ round' = round
            \/ turn = N - 1 /\ turn' = 0 /\ round' = round + 1
  BY ProcFacts DEF TypeOK, Turn, Proc

LEMMA OwnTurn ==
  ASSUME Inv, NEW p \in Proc, Turn(p)
  PROVE  round \in Nat /\ round >= 1 /\ turn_count[p] = round - 1
<1>1. turn = p /\ p \in Nat
  BY TurnFacts, ProcFacts DEF Inv
<1>2. turn_count[p] = round - (IF p < turn THEN 0 ELSE 1)
  BY DEF Inv, InTurn
<1>3. round \in Nat /\ round >= 1
  BY DEF Inv, TypeOK, InTurn
<1>. QED BY <1>1, <1>2, <1>3

\* In the first round all take their first turn, which is a local event.
LEMMA FirstRoundLocal ==
  ASSUME Inv, NEW p \in Proc, Turn(p), round = 1, Recv(p) \/ Send(p) \/ Local(p)
  PROVE  Local(p)
<1>1. inboxes[p] = <<>>
  BY DEF Inv, InTurn
<1>2. turn_count[p] = 0
  BY ProcFacts, TurnFacts DEF Inv, InTurn
<1>. QED BY <1>1, <1>2 DEF Recv, Send, Decide

LEMMA InTurnStep ==
  ASSUME Inv, NEW p \in Proc, Turn(p), Recv(p) \/ Send(p) \/ Local(p)
  PROVE  InTurn'
<1>1. /\ turn = p /\ turn' \in Proc /\ round' \in Nat
      /\ turn_count'[p] = turn_count[p] + 1
      /\ \A q \in Proc : q # p => turn_count'[q] = turn_count[q]
      /\ \/ turn < N - 1 /\ turn' = turn + 1 /\ round' = round
         \/ turn = N - 1 /\ turn' = 0 /\ round' = round + 1
  BY TurnFacts DEF Inv
<1>2. round \in Nat /\ round >= 1 /\ turn_count \in [Proc -> Nat]
  BY DEF Inv, TypeOK, InTurn
<1>3. round' >= 1
  BY <1>1, <1>2
<1>4. ASSUME NEW q \in Proc
      PROVE  turn_count'[q] = round' - (IF q < turn' THEN 0 ELSE 1)
  <2>1. turn_count[q] = round - (IF q < turn THEN 0 ELSE 1)
    BY DEF Inv, InTurn
  <2>2. q \in Nat /\ q <= N - 1 /\ turn \in Nat /\ N \in Nat
    BY <1>1, ProcFacts DEF Proc
  <2>3. CASE q = p
    BY <1>1, <1>2, <2>1, <2>2, <2>3
  <2>4. CASE q # p
    BY <1>1, <1>2, <2>1, <2>2, <2>4
  <2>. QED BY <2>3, <2>4
<1>5. ASSUME round' = 1 \/ (round' = 2 /\ turn' = 0)
      PROVE  /\ \A q \in Proc : inboxes'[q] = <<>>
             /\ \A q, r \in Proc : q # r => clocks'[q][r] = 0
  <2>1. round = 1
    BY <1>1, <1>2, <1>5, ProcFacts DEF Proc
  <2>2. Local(p)
    BY <2>1, FirstRoundLocal
  <2>3. inboxes' = inboxes /\ clocks' = [clocks EXCEPT ![p] = tick(@, p)]
    BY <2>2 DEF Local, OwnEvent
  <2>4. clocks \in [Proc -> Clock] /\ clocks[p] \in Clock
    BY DEF Inv, TypeOK
  <2>5. \A r \in Proc : r # p => tick(clocks[p], p)[r] = clocks[p][r]
    BY <2>4, TickFacts
  <2>6. /\ \A q \in Proc : inboxes[q] = <<>>
        /\ \A q, r \in Proc : q # r => clocks[q][r] = 0
    BY <2>1 DEF Inv, InTurn
  <2>7. /\ clocks'[p] = tick(clocks[p], p)
        /\ \A q \in Proc : q # p => clocks'[q] = clocks[q]
    BY <2>3, <2>4
  <2>. QED BY <2>3, <2>5, <2>6, <2>7
<1>. QED BY <1>3, <1>4, <1>5 DEF InTurn

-----------------------------------------------------------------------------
(* The three kinds of turns *)

\* What an event and a turn keep of the invariant.
LEMMA MadeInv ==
  ASSUME Inv, NEW p \in Proc, NEW u, NEW P, NEW kind \in Kinds, Makes(p, u, P, kind),
         Turn(p), OldOrNew(p), inboxes' \in [Proc -> Seq(Messages)],
         history[p] = <<>> => \A q \in Proc \ {p} : u[q] = 0
  PROVE  TypeOK' /\ Snapshots' /\ Acyclic' /\ FirstAlone'
<1>1. /\ clocks' \in [Proc -> Clock] /\ past' \in [Proc -> SUBSET Event]
      /\ history' \in Histories
      /\ clocks'[p][p] = Len(history[p]) + 1
      /\ \A q \in Proc : q # p => clocks'[q] = clocks[q] /\ history'[q] = history[q]
      /\ Len(history'[p]) = Len(history[p]) + 1
  BY MadeFacts
<1>2. /\ turn' \in Proc /\ round' \in Nat
      /\ turn_count' \in [Proc -> Nat] /\ turn_count'[p] = turn_count[p] + 1
      /\ \A q \in Proc : q # p => turn_count'[q] = turn_count[q]
  BY TurnFacts DEF Inv
<1>3. \A q \in Proc : Len(history'[q]) = clocks'[q][q] /\ Len(history'[q]) = turn_count'[q]
  BY <1>1, <1>2 DEF Inv, TypeOK
<1>4. TypeOK'
  BY <1>1, <1>2, <1>3 DEF TypeOK, Histories, EventRecords, Kinds, Messages
<1>. QED BY <1>4, SnapshotsStep, AcyclicStep, FirstAloneStep

LEMMA RecvInv ==
  ASSUME Inv, NEW p \in Proc, Recv(p)
  PROVE  Inv'
<1>. DEFINE m == Head(inboxes[p])
            u == merge(clocks[p], m.clock)
            P == past[p] \union m.past
<1>0. TypeOK /\ clocks \in [Proc -> Clock] /\ inboxes \in [Proc -> Seq(Messages)]
      /\ history \in Histories /\ past \in [Proc -> SUBSET Event]
      /\ \A q \in Proc : Len(history[q]) \in Nat
  BY TypeFacts DEF Inv
<1>1. Turn(p) /\ inboxes[p] # <<>> /\ inboxes[p] \in Seq(Messages)
  BY <1>0 DEF Recv
<1>2. /\ Len(inboxes[p]) \in Nat /\ Len(inboxes[p]) >= 1
      /\ m = inboxes[p][1] /\ m \in Messages
      /\ Tail(inboxes[p]) \in Seq(Messages)
      /\ Len(Tail(inboxes[p])) = Len(inboxes[p]) - 1
      /\ \A i \in 1..(Len(inboxes[p]) - 1) : Tail(inboxes[p])[i] = inboxes[p][i + 1]
  BY <1>1, TailFacts
<1>3. /\ clocks' = [clocks EXCEPT ![p] = tick(u, p)]
      /\ past' = [past EXCEPT ![p] = P \union {ThisEvent(p)}]
      /\ inboxes' = [inboxes EXCEPT ![p] = Tail(@)] /\ Record(p, "RECV")
  BY <1>0 DEF Recv, MessageClock
<1>4. Snapshot(clocks[p], past[p], history) /\ Snapshot(m.clock, m.past, history)
  BY <1>2 DEF Inv, Snapshots
<1>5. Snapshot(u, P, history)
  BY <1>0, <1>4, MergedSnapshot
<1>6. u[p] = Len(history[p])
  <2>1. clocks[p][p] = Len(history[p])
    BY DEF Inv, TypeOK
  <2>2. m.clock[p] <= Len(history[p]) /\ m.clock[p] \in Nat
    BY <1>4 DEF Snapshot, Dominates, Clock
  <2>. QED BY <1>0, <2>1, <2>2 DEF merge
<1>. HIDE DEF m, u, P
<1>7. Makes(p, u, P, "RECV")
  BY <1>3, <1>5, <1>6 DEF Makes
<1>8. /\ inboxes' \in [Proc -> Seq(Messages)] /\ inboxes'[p] = Tail(inboxes[p])
      /\ \A q \in Proc : q # p => inboxes'[q] = inboxes[q]
  BY <1>0, <1>2, <1>3
<1>9. OldOrNew(p)
  <2>1. SUFFICES ASSUME NEW q \in Proc, NEW k \in 1..Len(inboxes'[q])
                 PROVE  \E j \in 1..Len(inboxes[q]) : inboxes'[q][k] = inboxes[q][j]
    BY DEF OldOrNew
  <2>2. CASE q = p
    <3>1. k \in 1..(Len(inboxes[p]) - 1) /\ inboxes'[p][k] = Tail(inboxes[p])[k]
      BY <1>2, <1>8, <2>2
    <3>2. Tail(inboxes[p])[k] = inboxes[p][k + 1]
      BY <1>2, <3>1
    <3>3. k + 1 \in 1..Len(inboxes[p])
      BY <1>2, <3>1
    <3>. QED BY <2>2, <3>1, <3>2, <3>3
  <2>3. CASE q # p
    BY <1>8, <2>3
  <2>. QED BY <2>2, <2>3
<1>10. history[p] # <<>>
  <2>1. round # 1
    BY <1>1 DEF Inv, InTurn
  <2>2. turn_count[p] # 0
    BY <1>1, <2>1, OwnTurn
  <2>3. Len(history[p]) # 0
    BY <1>0, <2>2 DEF TypeOK
  <2>4. history[p] \in Seq(EventRecords)
    BY <1>0 DEF Histories
  <2>. QED BY <2>3, <2>4, EmptyFacts
<1>11. TypeOK' /\ Snapshots' /\ Acyclic' /\ FirstAlone'
  BY <1>1, <1>7, <1>8, <1>9, <1>10, MadeInv DEF Kinds
<1>12. InTurn'
  BY <1>1, InTurnStep
<1>13. MessageFlows'
  <2>1. /\ Len(history'[p]) = Len(history[p]) + 1
        /\ history'[p][Len(history[p]) + 1].kind = "RECV"
    BY <1>7, MadeFacts DEF Kinds
  <2>2. Len(history[p]) + 1 \in 1..Len(history'[p])
    BY <1>0, <2>1
  <2>3. SomeReceived'
    BY <2>1, <2>2 DEF SomeReceived
  <2>. QED BY <2>3 DEF MessageFlows
<1>. QED BY <1>11, <1>12, <1>13 DEF Inv

\* What p can tell of when it makes an event of its own.
LEMMA OwnMade ==
  ASSUME Inv, NEW p \in Proc, NEW kind \in Kinds, OwnEvent(p), Record(p, kind)
  PROVE  /\ Turn(p) /\ Makes(p, clocks[p], past[p], kind)
         /\ history[p] = <<>> => \A q \in Proc \ {p} : clocks[p][q] = 0
<1>1. Turn(p) /\ TypeOK
  BY DEF OwnEvent, Inv
<1>2. Makes(p, clocks[p], past[p], kind)
  <2>1. Snapshot(clocks[p], past[p], history) /\ clocks[p][p] = Len(history[p])
    BY DEF Inv, Snapshots, TypeOK
  <2>2. /\ clocks' = [clocks EXCEPT ![p] = tick(clocks[p], p)]
        /\ past' = [past EXCEPT ![p] = past[p] \union {ThisEvent(p)}]
    BY DEF OwnEvent, Inv, TypeOK
  <2>. QED BY <2>1, <2>2 DEF Makes
<1>3. ASSUME history[p] = <<>>
      PROVE  \A q \in Proc \ {p} : clocks[p][q] = 0
  <2>1. turn_count[p] = 0
    BY <1>3 DEF Inv, TypeOK
  <2>2. round = 1
    BY <1>1, <2>1, OwnTurn
  <2>. QED BY <2>2 DEF Inv, InTurn
<1>. QED BY <1>1, <1>2, <1>3

\* A message on its way stays there until its receiver moves, and what was
\* received stays in the history.
LEMMA FlowsOn ==
  ASSUME Inv, NEW p \in Proc, NEW kind \in Kinds, OwnEvent(p), Record(p, kind),
         \A q \in Proc : inboxes[q] # <<>> => inboxes'[q] # <<>>,
         round = 2 /\ turn = 0 => \E t \in Proc \ {p} : inboxes'[t] # <<>>
  PROVE  MessageFlows'
<1>1. Turn(p) /\ Makes(p, clocks[p], past[p], kind)
  BY OwnMade
<1>2. /\ turn = p /\ turn' \in Proc
      /\ \/ turn < N - 1 /\ turn' = turn + 1 /\ round' = round
         \/ turn = N - 1 /\ turn' = 0 /\ round' = round + 1
  BY <1>1, TurnFacts DEF Inv
<1>3. round \in Nat /\ round >= 1 /\ turn \in Nat /\ N \in Nat /\ N >= 2
  BY <1>2, ProcFacts DEF Inv, TypeOK, InTurn
<1>4. ASSUME SomeReceived
      PROVE  SomeReceived'
  <2>1. /\ \A q \in Proc : q # p => history'[q] = history[q]
        /\ Len(history'[p]) = Len(history[p]) + 1
        /\ \A i \in 1..Len(history[p]) : history'[p][i] = history[p][i]
    BY <1>1, MadeFacts
  <2>2. PICK q \in Proc : \E i \in 1..Len(history[q]) : history[q][i].kind = "RECV"
    BY <1>4 DEF SomeReceived
  <2>3. Len(history[q]) \in Nat
    BY TypeFacts DEF Inv
  <2>4. PICK i \in 1..Len(history[q]) : history[q][i].kind = "RECV"
    BY <2>2
  <2>5. i \in 1..Len(history'[q]) /\ history'[q][i] = history[q][i]
    BY <2>1, <2>3
  <2>. QED BY <2>4, <2>5 DEF SomeReceived
<1>5. SUFFICES ASSUME round' > 2 \/ (round' = 2 /\ turn' > 0), ~SomeReceived
               PROVE  round' = 2 /\ \E t \in Proc : t >= turn' /\ inboxes'[t] # <<>>
  BY <1>4 DEF MessageFlows
<1>6. CASE round = 2 /\ turn = 0
  <2>1. PICK t \in Proc \ {p} : inboxes'[t] # <<>>
    BY <1>6
  <2>2. t >= turn' /\ round' = 2
    BY <1>2, <1>3, <1>6, <2>1 DEF Proc
  <2>. QED BY <2>1, <2>2
<1>7. CASE ~(round = 2 /\ turn = 0)
  <2>1. round > 2 \/ (round = 2 /\ turn > 0)
    BY <1>2, <1>3, <1>5, <1>7
  <2>2. round = 2
    BY <1>5, <2>1 DEF Inv, MessageFlows
  <2>3. PICK t \in Proc : t >= turn /\ inboxes[t] # <<>>
    BY <1>5, <2>1 DEF Inv, MessageFlows
  <2>4. t # p
    BY <2>3 DEF OwnEvent
  <2>5. t >= turn' /\ round' = 2
    BY <1>2, <1>3, <2>2, <2>3, <2>4 DEF Proc
  <2>. QED BY <2>3, <2>5
<1>. QED BY <1>6, <1>7

LEMMA SendInv ==
  ASSUME Inv, NEW p \in Proc, Send(p)
  PROVE  Inv'
<1>0. /\ inboxes \in [Proc -> Seq(Messages)]
      /\ "SEND" \in Kinds
  BY TypeFacts DEF Inv, Kinds
<1>1. /\ OwnEvent(p) /\ Record(p, "SEND") /\ Turn(p)
      /\ Makes(p, clocks[p], past[p], "SEND")
      /\ history[p] = <<>> => \A q \in Proc \ {p} : clocks[p][q] = 0
  BY <1>0, OwnMade DEF Send
<1>. DEFINE m == [sender |-> p, clock |-> clocks'[p], past |-> past'[p]]
<1>2. PICK target \in Proc \ {p} : inboxes' = [inboxes EXCEPT ![target] = Append(@, m)]
  BY DEF Send
<1>3. m \in Messages
  <2>1. clocks'[p] \in Clock /\ past'[p] \in SUBSET Event
    BY <1>0, <1>1, MadeFacts
  <2>. QED BY <2>1 DEF Messages
<1>4. m.clock = clocks'[p] /\ m.past = past'[p]
  OBVIOUS
<1>. HIDE DEF m
<1>5. inboxes[target] \in Seq(Messages)
  BY <1>0
<1>6. /\ Append(inboxes[target], m) \in Seq(Messages)
      /\ Len(inboxes[target]) \in Nat
      /\ Len(Append(inboxes[target], m)) = Len(inboxes[target]) + 1
      /\ \A i \in 1..Len(inboxes[target]) : Append(inboxes[target], m)[i] = inboxes[target][i]
      /\ Append(inboxes[target], m)[Len(inboxes[target]) + 1] = m
  BY <1>3, <1>5, AppendFacts
<1>7. /\ inboxes' \in [Proc -> Seq(Messages)]
      /\ inboxes'[target] = Append(inboxes[target], m)
      /\ \A q \in Proc : q # target => inboxes'[q] = inboxes[q]
  BY <1>0, <1>2, <1>6
<1>8. OldOrNew(p)
  <2>1. SUFFICES ASSUME NEW q \in Proc, NEW k \in 1..Len(inboxes'[q])
                 PROVE  \/ \E j \in 1..Len(inboxes[q]) : inboxes'[q][k] = inboxes[q][j]
                        \/ inboxes'[q][k] = m
    BY <1>4 DEF OldOrNew
  <2>2. CASE q # target
    BY <1>7, <2>2
  <2>3. CASE q = target
    <3>1. k \in 1..Len(inboxes[q]) \/ k = Len(inboxes[q]) + 1
      BY <1>6, <1>7, <2>3
    <3>. QED BY <1>6, <1>7, <2>3, <3>1
  <2>. QED BY <2>2, <2>3
<1>9. inboxes'[target] # <<>>
  <2>1. inboxes'[target] \in Seq(Messages) /\ Len(inboxes'[target]) # 0
    BY <1>6, <1>7
  <2>. QED BY <2>1, EmptyFacts
<1>10. TypeOK' /\ Snapshots' /\ Acyclic' /\ FirstAlone'
  BY <1>0, <1>1, <1>7, <1>8, MadeInv
<1>11. InTurn'
  BY <1>1, InTurnStep
<1>12. MessageFlows'
  <2>1. \A q \in Proc : inboxes[q] # <<>> => inboxes'[q] # <<>>
    BY <1>7, <1>9
  <2>. QED BY <1>0, <1>1, <1>9, <2>1, FlowsOn
<1>. QED BY <1>10, <1>11, <1>12 DEF Inv

LEMMA LocalInv ==
  ASSUME Inv, NEW p \in Proc, Local(p)
  PROVE  Inv'
<1>0. inboxes \in [Proc -> Seq(Messages)] /\ "LOCAL" \in Kinds
  BY TypeFacts DEF Inv, Kinds
<1>1. /\ OwnEvent(p) /\ Record(p, "LOCAL") /\ Turn(p)
      /\ Makes(p, clocks[p], past[p], "LOCAL")
      /\ history[p] = <<>> => \A q \in Proc \ {p} : clocks[p][q] = 0
  BY <1>0, OwnMade DEF Local
<1>2. inboxes' = inboxes
  BY DEF Local
<1>3. OldOrNew(p)
  BY <1>2 DEF OldOrNew
<1>4. TypeOK' /\ Snapshots' /\ Acyclic' /\ FirstAlone'
  BY <1>0, <1>1, <1>2, <1>3, MadeInv
<1>5. InTurn'
  BY <1>1, InTurnStep
<1>6. ~(round = 2 /\ turn = 0)
  <2>1. SUFFICES ASSUME round = 2, turn = 0
                 PROVE  FALSE
    OBVIOUS
  <2>2. p = 0 /\ turn_count[p] = 1
    BY <1>1, <2>1, ProcFacts, TurnFacts DEF Inv, InTurn
  <2>. QED BY <2>2 DEF Local, Decide
<1>7. MessageFlows'
  BY <1>0, <1>1, <1>2, <1>6, FlowsOn
<1>. QED BY <1>4, <1>5, <1>7 DEF Inv
-----------------------------------------------------------------------------
(* Theorems *)

LEMMA InitInv == ASSUME Init PROVE Inv
<1>. USE DEF Init
<1>1. /\ clocks \in [Proc -> Clock] /\ past \in [Proc -> SUBSET Event]
      /\ \A p, q \in Proc : clocks[p][q] = 0
      /\ \A p \in Proc : clocks[p] \in Clock /\ past[p] = {} /\ turn_count[p] = 0
  BY DEF new_clock, Clock
<1>2. \A p \in Proc : /\ inboxes[p] = <<>> /\ Len(inboxes[p]) = 0
                     /\ history[p] = <<>> /\ Len(history[p]) = 0
  OBVIOUS
<1>3. TypeOK
  BY <1>1, <1>2, ProcFacts DEF TypeOK
<1>4. Snapshots
  <2>1. ASSUME NEW p \in Proc
        PROVE  Snapshot(clocks[p], past[p], history)
    BY <1>1, <1>2 DEF Snapshot, Counts, Dominates
  <2>. QED BY <1>2, <2>1 DEF Snapshots
<1>5. Acyclic
  BY <1>2 DEF Acyclic
<1>6. InTurn
  BY <1>1, <1>2, ProcFacts DEF InTurn
<1>7. FirstAlone
  BY <1>2 DEF FirstAlone
<1>8. MessageFlows
  BY DEF MessageFlows
<1>. QED BY <1>3, <1>4, <1>5, <1>6, <1>7, <1>8 DEF Inv

LEMMA NextInv ==
  ASSUME Inv, [Next]_vars
  PROVE  Inv'
<1>1. CASE UNCHANGED vars
  BY <1>1 DEF vars, Inv, TypeOK, Snapshots, Acyclic, InTurn, FirstAlone, MessageFlows,
       SomeReceived
<1>2. CASE Next
  BY <1>2, RecvInv, SendInv, LocalInv DEF Next
<1>. QED BY <1>1, <1>2

THEOREM Invariance == Spec => []Inv
<1>1. Init => Inv
  BY InitInv
<1>2. Inv /\ [Next]_vars => Inv'
  BY NextInv
<1>. QED BY <1>1, <1>2, PTL DEF Spec

\* The variables keep their types, and a process counts its own events.
THEOREM TypeCorrect == Spec => []TypeOK
<1>1. Inv => TypeOK
  BY DEF Inv
<1>. QED BY <1>1, Invariance, PTL

\* An event's clock dominates another's exactly when that event is in its past.
LEMMA PastIsOrder ==
  ASSUME Inv, NEW p \in Proc, NEW q \in Proc,
         NEW i \in 1..Len(history[p]), NEW j \in 1..Len(history[q])
  PROVE  LET v == history[p][i].clock
             w == history[q][j].clock
         IN /\ (\A r \in Proc : v[r] <= w[r]) <=> i <= w[p]
            /\ <<p, i>> \in history[q][j].past <=> i <= w[p]
<1>. DEFINE v == history[p][i].clock
            w == history[q][j].clock
<1>1. v \in Clock /\ w \in Clock /\ Len(history[p]) \in Nat
  BY TypeFacts, EntryFacts DEF Inv
<1>2. v[p] = i /\ Snapshot(w, history[q][j].past, history)
  BY DEF Inv, Snapshots
<1>. HIDE DEF w
<1>3. ASSUME i <= w[p]
      PROVE  \A r \in Proc : v[r] <= w[r]
  <2>1. i \in 1..w[p]
    BY <1>1, <1>3 DEF Clock
  <2>. QED BY <1>2, <2>1 DEF Snapshot, Dominates
<1>4. ASSUME \A r \in Proc : v[r] <= w[r]
      PROVE  i <= w[p]
  BY <1>2, <1>4
<1>5. ASSUME i <= w[p]
      PROVE  <<p, i>> \in history[q][j].past
  BY <1>1, <1>2, <1>5 DEF Snapshot, Counts, Clock
<1>6. ASSUME <<p, i>> \in history[q][j].past
      PROVE  i <= w[p]
  BY <1>1, <1>2, <1>6 DEF Snapshot, Counts, Clock
<1>. QED BY <1>3, <1>4, <1>5, <1>6 DEF w

\* compare_clocks tells how any two events are related: neither a dependency is
\* missed nor one reported that is none, for any number of processes and rounds.
THEOREM ClocksTellCausality == Spec => []CausalityExact
<1>1. ASSUME Inv
      PROVE  CausalityExact
  <2>1. SUFFICES ASSUME NEW p \in Proc, NEW q \in Proc,
                        NEW i \in 1..Len(history[p]), NEW j \in 1..Len(history[q])
                 PROVE  compare_clocks(history[p][i].clock, history[q][j].clock)
                          = Relation(p, i, q, j)
    BY DEF CausalityExact
  <2>. DEFINE v == history[p][i].clock
              w == history[q][j].clock
              Before == \A r \in Proc : v[r] <= w[r]
              After == \A r \in Proc : w[r] <= v[r]
  <2>2. v \in Clock /\ w \in Clock /\ Len(history[p]) \in Nat /\ Len(history[q]) \in Nat
    BY <1>1, TypeFacts, EntryFacts DEF Inv
  <2>3. /\ Before <=> i <= w[p]
        /\ After <=> j <= v[q]
        /\ <<p, i>> \in history[q][j].past <=> i <= w[p]
        /\ <<q, j>> \in history[p][i].past <=> j <= v[q]
    BY <1>1, PastIsOrder
  <2>4. v[p] = i /\ w[q] = j
    BY <1>1 DEF Inv, Snapshots
  <2>5. p # q => ~(i <= w[p] /\ j <= v[q])
    BY <1>1 DEF Inv, Acyclic
  <2>6. After <=> \A r \in Proc : v[r] >= w[r]
    BY <2>2 DEF Clock
  <2>7. compare_clocks(v, w) = IF Before /\ After THEN "equal"
                               ELSE IF Before THEN "before"
                               ELSE IF After THEN "after" ELSE "concurrent"
    BY <2>6 DEF compare_clocks
  <2>. HIDE DEF v, w, Before, After
  <2>8. CASE p = q
    <3>1. Before <=> i <= j
      BY <2>3, <2>4, <2>8
    <3>2. After <=> j <= i
      BY <2>3, <2>4, <2>8
    <3>3. i \in Int /\ j \in Int
      OBVIOUS
    <3>4. i = j <=> Before /\ After
      BY <3>1, <3>2, <3>3
    <3>. QED BY <2>3, <2>7, <2>8, <3>4 DEF Relation, v, w
  <2>9. CASE p # q
    BY <2>3, <2>5, <2>7, <2>9 DEF Relation, v, w
  <2>. QED BY <2>8, <2>9
<1>. QED BY <1>1, Invariance, PTL

\* The summary shows concurrent events and, after the second round, a received
\* message, whatever the processes decide.
THEOREM SummaryHasWhatItPromises == Spec => []PromisedRelations
<1>1. ASSUME Inv
      PROVE  PromisedRelations
  <2>1. ASSUME NEW p \in Proc, NEW q \in Proc, p # q, history[p] # <<>>, history[q] # <<>>
        PROVE  compare_clocks(history[p][1].clock, history[q][1].clock) = "concurrent"
    <3>1. \A r \in Proc : /\ Len(history[r]) \in Nat
                         /\ history[r] = <<>> <=> Len(history[r]) = 0
      <4>1. \A r \in Proc : history[r] \in Seq(EventRecords)
        BY <1>1, TypeFacts DEF Inv, Histories
      <4>. QED BY <4>1, EmptyFacts
    <3>2. 1 \in 1..Len(history[p]) /\ 1 \in 1..Len(history[q])
      BY <2>1, <3>1
    <3>3. history[p][1].clock[p] = 1 /\ history[q][1].clock[q] = 1
      BY <1>1, <3>2 DEF Inv, Snapshots
    <3>4. history[p][1].clock[q] = 0 /\ history[q][1].clock[p] = 0
      BY <1>1, <2>1 DEF Inv, FirstAlone
    <3>. QED BY <3>3, <3>4 DEF compare_clocks
  <2>2. ASSUME round > 2
        PROVE  SomeReceived
    BY <1>1, <2>2 DEF Inv, MessageFlows, TypeOK
  <2>. QED BY <2>1, <2>2 DEF PromisedRelations, SomeReceived
<1>. QED BY <1>1, Invariance, PTL
=============================================================================

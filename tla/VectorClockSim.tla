--------------------------- MODULE VectorClockSim ---------------------------
(***************************************************************************)
(* Workshop 4, part 3: vector clocks (vector_clock.py) and the simulation  *)
(* of N processes that keep them (simulation.py).                          *)
(*                                                                         *)
(* The processes take turns for Rounds rounds.  A process with a message   *)
(* in its inbox receives it; otherwise it makes a local event or sends its *)
(* clock to another process.  At the end the clocks of all events are      *)
(* compared to show which events are causally related.                     *)
(***************************************************************************)
EXTENDS Integers, Sequences

CONSTANTS
  N,       \* number of processes; random.choice needs another one to send to
  Rounds   \* rounds to simulate

ASSUME SimulationAssumption ==
  /\ N \in Nat /\ N >= 2
  /\ Rounds \in Nat

Proc == 0..(N - 1)
Clock == [Proc -> Nat]

VARIABLES
  clocks,      \* clocks[p]: the vector clock of p
  inboxes,     \* inboxes[p]: messages p has not received, oldest first
  turn_count,  \* turns each process has taken
  history,     \* history[p]: the events of p, in order, with their clocks
  round,       \* round_num
  turn,        \* the process whose turn it is
  past         \* ghost: the events that p's next event will depend on, each
               \* a pair of a process and a position in its history

vars == <<clocks, inboxes, turn_count, history, round, turn, past>>

-----------------------------------------------------------------------------
(* vector_clock.py, and plausible mistakes in it and in its use *)

new_clock == [q \in Proc |-> 0]

tick(clock, p) == [clock EXCEPT ![p] = @ + 1]

\* MISTAKE: the received clock replaces the own one.
Overwrite(clock, received) == received

merge(clock, received) ==
  [q \in Proc |-> IF clock[q] >= received[q] THEN clock[q] ELSE received[q]]

compare_clocks(v1, v2) ==
  LET le == \A q \in Proc : v1[q] <= v2[q]
      ge == \A q \in Proc : v1[q] >= v2[q]
  IN  IF le /\ ge THEN "equal"
      ELSE IF le THEN "before"
      ELSE IF ge THEN "after"
      ELSE "concurrent"

\* MISTAKE: the message holds the sender's list itself, not a copy of it, so
\* that the receiver sees what the sender did since.
SharedClock(m) == clocks[m.sender]

\* clocks[pid].copy() was put into the message when it was sent.
MessageClock(m) == m.clock

\* MISTAKE: the rule for the first turn is missing.
NoFirstRule(p) == {"local", "send"}

\* decide_action without an incoming message: the actions p may take.
Decide(p) ==
  IF turn_count[p] = 0 THEN {"local"}
  ELSE IF p = 0 /\ turn_count[p] = 1 THEN {"send"}
  ELSE {"local", "send"}

-----------------------------------------------------------------------------
Init ==
  /\ clocks = [p \in Proc |-> new_clock]
  /\ inboxes = [p \in Proc |-> <<>>]
  /\ turn_count = [p \in Proc |-> 0]
  /\ history = [p \in Proc |-> <<>>]
  /\ round = 1
  /\ turn = 0
  /\ past = [p \in Proc |-> {}]

\* It is p's turn, and afterwards the next process's.
Turn(p) ==
  /\ round <= Rounds
  /\ turn = p
  /\ turn' = IF turn = N - 1 THEN 0 ELSE turn + 1
  /\ round' = IF turn = N - 1 THEN round + 1 ELSE round
  /\ turn_count' = [turn_count EXCEPT ![p] = @ + 1]

\* The event of p that is being made.
ThisEvent(p) == <<p, Len(history[p]) + 1>>

\* history[pid].append(...), once p's clock and past are those of the event.
Record(p, kind) ==
  history' = [history EXCEPT
                ![p] = Append(@, [kind |-> kind, clock |-> clocks'[p],
                                  past |-> past'[p]])]

Recv(p) ==
  /\ Turn(p)
  /\ inboxes[p] # <<>>
  /\ LET m == Head(inboxes[p])
     IN  /\ clocks' = [clocks EXCEPT ![p] = tick(merge(@, MessageClock(m)), p)]
         /\ past' = [past EXCEPT ![p] = @ \union m.past \union {ThisEvent(p)}]
  /\ inboxes' = [inboxes EXCEPT ![p] = Tail(@)]
  /\ Record(p, "RECV")

\* An event that depends on nothing but what p already knows.
OwnEvent(p) ==
  /\ Turn(p)
  /\ inboxes[p] = <<>>
  /\ clocks' = [clocks EXCEPT ![p] = tick(@, p)]
  /\ past' = [past EXCEPT ![p] = @ \union {ThisEvent(p)}]

Send(p) ==
  /\ "send" \in Decide(p)
  /\ OwnEvent(p)
  /\ \E target \in Proc \ {p} :
       inboxes' = [inboxes EXCEPT
                     ![target] = Append(@, [sender |-> p, clock |-> clocks'[p],
                                            past |-> past'[p]])]
  /\ Record(p, "SEND")

Local(p) ==
  /\ "local" \in Decide(p)
  /\ OwnEvent(p)
  /\ Record(p, "LOCAL")
  /\ UNCHANGED inboxes

Next == \E p \in Proc : Recv(p) \/ Send(p) \/ Local(p)

Spec == Init /\ [][Next]_vars

-----------------------------------------------------------------------------
(* Properties *)

Event == Proc \X Nat

\* The types of the variables; the length of a history is the process's own
\* component of its clock and the number of its turns.
TypeOK ==
  /\ clocks \in [Proc -> Clock]
  /\ past \in [Proc -> SUBSET Event]
  /\ inboxes \in [Proc -> Seq([sender : Proc, clock : Clock,
                                past : SUBSET Event])]
  /\ history \in [Proc -> Seq([kind : {"RECV", "SEND", "LOCAL"}, clock : Clock,
                                past : SUBSET Event])]
  /\ round \in Nat
  /\ turn \in Proc
  /\ turn_count \in [Proc -> Nat]
  /\ \A p \in Proc : /\ Len(history[p]) = clocks[p][p]
                     /\ Len(history[p]) = turn_count[p]

\* What the events of the two histories really have to do with each other.
Relation(p, i, q, j) ==
  IF p = q /\ i = j THEN "equal"
  ELSE IF <<p, i>> \in history[q][j].past THEN "before"
  ELSE IF <<q, j>> \in history[p][i].past THEN "after"
  ELSE "concurrent"

\* compare_clocks on the clocks of two events says exactly how the events are
\* related: "before" when the one can have influenced the other through the
\* turns of a process and messages, "concurrent" when neither can.
CausalityExact ==
  \A p, q \in Proc :
    \A i \in 1..Len(history[p]), j \in 1..Len(history[q]) :
      compare_clocks(history[p][i].clock, history[q][j].clock)
        = Relation(p, i, q, j)

\* What the summary is promised to show.  "Every process starts with a unit vector
\* ... guarantees a CONCURRENT pair": the first events of any two processes.  And
\* "guaranteeing at least one real message flows, so its eventual RECV": from the
\* end of the second round on, some process has received a message.
PromisedRelations ==
  /\ \A p, q \in Proc :
       p # q /\ history[p] # <<>> /\ history[q] # <<>> =>
         compare_clocks(history[p][1].clock, history[q][1].clock) = "concurrent"
  /\ round > 2 =>
       \E p \in Proc : \E i \in 1..Len(history[p]) : history[p][i].kind = "RECV"
=============================================================================

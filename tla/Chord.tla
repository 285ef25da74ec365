------------------------------- MODULE Chord -------------------------------
(***************************************************************************)
(* Workshop 3: key lookup on a Chord ring.                                 *)
(*                                                                         *)
(* Positions 0..2^M - 1 form a ring.  A key belongs to its successor, the  *)
(* first node at or after it, going around.  lookup() hops from node to    *)
(* node through their finger tables.  One step is one turn of its loop.    *)
(***************************************************************************)
EXTENDS Integers, FiniteSets, FiniteSetsExt

CONSTANTS
  Rings,    \* rings to look at: records of M and the nodes of the sorted list
  MaxLaps   \* keys up to MaxLaps times the size of the ring are looked up

\* 2 ** i
Power2[i \in Nat] == IF i = 0 THEN 1 ELSE 2 * Power2[i - 1]

ASSUME ChordAssumption ==
  /\ \A r \in Rings : r.M \in Nat \ {0} /\ r.nodes \subseteq 0..(Power2[r.M] - 1)
                      /\ r.nodes # {} /\ IsFiniteSet(r.nodes)
  /\ MaxLaps \in Nat \ {0}

VARIABLES
  ring,     \* the ring of this program
  key,      \* the argument of lookup
  current,  \* its loop variable
  hops,     \* nodes appended to its path
  found     \* the last node of the path once it returns, else -1

ringVars == <<ring, key, current, hops, found>>

M == ring.M
nodes == ring.nodes
RING_SIZE == Power2[M]

\* The counter of hops stops here, beyond what a lookup may take.
MaxHops == M + 2

\* Steps clockwise from a to b.
Distance(a, b) == (b - a) % RING_SIZE

-----------------------------------------------------------------------------
\* MISTAKE: the first node after k.
successorAfter(k) ==
  IF \E n \in nodes : n > k THEN Min({n \in nodes : n > k}) ELSE Min(nodes)

\* The first node at or after k, else the first node of the list.
successor(k) ==
  IF \E n \in nodes : n >= k THEN Min({n \in nodes : n >= k}) ELSE Min(nodes)

\* The targets of the finger table of n, by number.
finger_table(n) == [i \in 1..M |-> successor((n + Power2[i - 1]) % RING_SIZE)]

\* MISTAKE: the end of the interval belongs to it.
InIntervalClosed(x, a, b) ==
  LET a1 == a % RING_SIZE  b1 == b % RING_SIZE  x1 == x % RING_SIZE
  IN IF a1 < b1 THEN a1 < x1 /\ x1 <= b1 ELSE x1 > a1 \/ x1 <= b1

\* x lies between a and b, both excluded, clockwise; the whole ring when a = b.
in_interval(x, a, b) ==
  LET a1 == a % RING_SIZE  b1 == b % RING_SIZE  x1 == x % RING_SIZE
  IN IF a1 < b1 THEN a1 < x1 /\ x1 < b1 ELSE x1 > a1 \/ x1 < b1

\* MISTAKE: the table is searched from the near end.
FirstFinger(candidates) == Min(candidates)

\* reversed(finger_table(...)): the farthest finger first.
Preferred(candidates) == Max(candidates)

\* The next node: the preferred finger before the key, or none.
next_node ==
  LET table == finger_table(current)
      before == {i \in 1..M : in_interval(table[i], current, key)}
  IN IF before = {} THEN current ELSE table[Preferred(before)]

-----------------------------------------------------------------------------
\* print_lookup with any key, from any node of any ring.
RingInit ==
  /\ ring \in Rings
  /\ key \in 0..(MaxLaps * RING_SIZE)
  /\ current \in nodes
  /\ hops = 0
  /\ found = -1

succ == finger_table(current)[1]

\* The key lies between this node and the next.
IsHere == key % RING_SIZE = succ \/ in_interval(key, current, succ)

\* The loop returns the successor of the current node: the key is here, or no
\* finger leads on.
Return ==
  /\ found = -1
  /\ IsHere \/ next_node = current
  /\ hops' = Min({hops + 1, MaxHops})
  /\ found' = succ
  /\ UNCHANGED <<ring, key, current>>

Hop ==
  /\ found = -1
  /\ ~IsHere /\ next_node # current
  /\ hops' = Min({hops + 1, MaxHops})
  /\ current' = next_node
  /\ UNCHANGED <<ring, key, found>>

LookupStep == Return \/ Hop

ChordSpec == RingInit /\ [][LookupStep]_ringVars

-----------------------------------------------------------------------------
(* Properties *)

\* The types of the variables; a lookup takes at most one hop per bit of a
\* position, and one to return.  As every turn of the loop counts one, no lookup
\* goes around for ever.
RingTypeOK ==
  /\ ring \in Rings
  /\ key \in 0..(MaxLaps * RING_SIZE)
  /\ current \in nodes
  /\ hops \in 0..(M + 1)
  /\ found \in nodes \union {-1}

\* The node a key belongs to, by definition: the first one clockwise.
Owner(k) == CHOOSE n \in nodes : \A m \in nodes : Distance(k, n) <= Distance(k, m)

\* A lookup ends at the node the key belongs to, from whatever node it starts,
\* for keys beyond the ring too; within the ring that is what successor(), which
\* the program prints next to it, says of the key.
EndsAtOwner ==
  found # -1 => /\ found = Owner(key)
                /\ key < RING_SIZE => found = successor(key)

\* The last node before a key, which knows its owner as its own successor.
Predecessor(k) ==
  CHOOSE n \in nodes : \A m \in nodes : Distance(n, k - 1) <= Distance(m, k - 1)

\* Every hop stays before the key and leaves less than half of the way to the last
\* node before it, and lookup() returns only because the key is here: that no
\* finger leads on, which would end the search at a wrong node, never happens.
HopsHalveTheWay ==
  [][LET way == Distance(current, Predecessor(key))
     IN /\ current' # current => 2 * Distance(current', Predecessor(key)) < way
        /\ found' # found => IsHere /\ way = 0]_ringVars
=============================================================================

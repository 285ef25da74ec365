----------------------------- MODULE Forwarding -----------------------------
(***************************************************************************)
(* Workshop 3: forwarding pointers.  Each name leads to the next or to an  *)
(* address; resolve() follows them, a shortcut replaces the pointer of a   *)
(* name by the address it resolved to, and a node may disappear.           *)
(***************************************************************************)
EXTENDS Integers

Names == {"A", "B", "C", "D"}
Address == "192.168.1.50:5000"

VARIABLES
  locations,  \* the pointer of each name that has a node
  pc,         \* "idle", "follow" or "resolved"
  asked,      \* the name that is resolved
  location,   \* the loop variable of resolve, and its result
  hops

vars == <<locations, pc, asked, location, hops>>

Init ==
  /\ locations = [n \in Names |-> CASE n = "A" -> "B" [] n = "B" -> "C"
                                    [] n = "C" -> "D" [] n = "D" -> Address]
  /\ pc = "idle" /\ asked = "A" /\ location = "A" /\ hops = 0

\* resolve(n) begins.
Resolve(n) ==
  /\ pc = "idle"
  /\ pc' = "follow" /\ asked' = n /\ location' = n /\ hops' = 0
  /\ UNCHANGED locations

\* while location in locations
Follow ==
  /\ pc = "follow" /\ location \in DOMAIN locations
  /\ location' = locations[location] /\ hops' = hops + 1
  /\ UNCHANGED <<locations, pc, asked>>

Return ==
  /\ pc = "follow" /\ location \notin DOMAIN locations
  /\ pc' = "resolved"
  /\ UNCHANGED <<locations, asked, location, hops>>

\* locations["A"] = address
Shortcut ==
  /\ pc = "resolved" /\ asked \in DOMAIN locations
  /\ locations' = [locations EXCEPT ![asked] = location]
  /\ pc' = "idle"
  /\ UNCHANGED <<asked, location, hops>>

\* The result is only printed.
Report ==
  /\ pc = "resolved"
  /\ pc' = "idle"
  /\ UNCHANGED <<locations, asked, location, hops>>

\* del locations["C"]: a node fails.
Delete(n) ==
  /\ pc = "idle" /\ n \in DOMAIN locations
  /\ locations' = [m \in DOMAIN locations \ {n} |-> locations[m]]
  /\ UNCHANGED <<pc, asked, location, hops>>

Next ==
  \/ Follow \/ Return \/ Shortcut \/ Report
  \/ \E n \in Names : Resolve(n) \/ Delete(n)

Spec == Init /\ [][Next]_vars

-----------------------------------------------------------------------------
\* "except KeyError as e: print("Broken pointer, missing node:", e)": a chain that
\* leads to a node that is gone raises an error, so what resolve() returns for a
\* name that has a node is the address at the end of the chain.
BrokenPointerNoticed ==
  pc = "resolved" /\ asked \in DOMAIN locations => location = Address
=============================================================================

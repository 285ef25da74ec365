------------------------------- MODULE Mutex -------------------------------
(***************************************************************************)
(* What the rules of Workshop 4, part 4 promise of a coordinator: at most  *)
(* one process uses the resource, only a process that asked gets it, and a *)
(* resource that is released is handed at once to somebody who waits, if   *)
(* anybody does.                                                           *)
(***************************************************************************)
CONSTANT Proc

VARIABLES
  trying,   \* processes that have asked and wait
  critical  \* processes that use the resource

mutexVars == <<trying, critical>>

MutexInit == trying = {} /\ critical = {}

\* The resource is free and nobody waits for it.
Enter(p) ==
  /\ trying = {}
  /\ critical = {}
  /\ critical' = {p}
  /\ UNCHANGED trying

Try(p) ==
  /\ critical # {}
  /\ p \notin trying \union critical
  /\ trying' = trying \union {p}
  /\ UNCHANGED critical

Leave(p) ==
  /\ critical = {p}
  /\ \/ /\ trying = {}
        /\ critical' = {}
        /\ UNCHANGED trying
     \/ \E q \in trying :
          /\ critical' = {q}
          /\ trying' = trying \ {q}

MutexNext == \E p \in Proc : Enter(p) \/ Try(p) \/ Leave(p)

MutexSpec == MutexInit /\ [][MutexNext]_mutexVars
=============================================================================

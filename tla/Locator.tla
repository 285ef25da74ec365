------------------------------ MODULE Locator ------------------------------
(***************************************************************************)
(* What the hierarchical location service of workshop 3 promises: every    *)
(* entity is in one domain or nowhere, a move takes it to another domain   *)
(* at once, and a lookup answers where it is while nothing moves.  How the *)
(* answer is found, by pointers in a tree, is not said here.               *)
(***************************************************************************)
EXTENDS Sequences

CONSTANTS Entities, Domains, ROOT, None

VARIABLES
  where,   \* the domain of each entity, or None
  lookup   \* <<>>, a lookup <<entity, first domain>>, or one with its answer

locatorVars == <<where, lookup>>

LocatorInit ==
  /\ where \in [Entities -> Domains \union {None}]
  /\ lookup = <<>>

Relocate(e, d) ==
  /\ lookup = <<>>
  /\ where[e] # None
  /\ where' = [where EXCEPT ![e] = d]
  /\ UNCHANGED lookup

Ask(e, d) ==
  /\ lookup = <<>>
  /\ lookup' = <<e, d>>
  /\ UNCHANGED where

\* An entity in the first domain is seen there at once.
AskHere(e, d) ==
  /\ lookup = <<>>
  /\ where[e] = d
  /\ lookup' = <<e, d, d>>
  /\ UNCHANGED where

Answer ==
  /\ Len(lookup) = 2
  /\ where[lookup[1]] # None
  /\ lookup' = Append(lookup, where[lookup[1]])
  /\ UNCHANGED where

\* Only an entity that is nowhere is missed, and one at or looked for from the top.
Miss ==
  /\ Len(lookup) = 2
  /\ where[lookup[1]] = None \/ ROOT \in {where[lookup[1]], lookup[2]}
  /\ lookup' = Append(lookup, None)
  /\ UNCHANGED where

Forget ==
  /\ Len(lookup) = 3
  /\ lookup' = <<>>
  /\ UNCHANGED where

LocatorNext ==
  \/ \E e \in Entities, d \in Domains : Relocate(e, d) \/ Ask(e, d) \/ AskHere(e, d)
  \/ Answer \/ Miss \/ Forget

LocatorSpec == LocatorInit /\ [][LocatorNext]_locatorVars
=============================================================================

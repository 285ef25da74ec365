-------------------------- MODULE LocationService --------------------------
(***************************************************************************)
(* Workshop 3: the hierarchical location service.                          *)
(*                                                                         *)
(* An entity is stored in one domain of a tree, and every domain above it  *)
(* keeps a pointer to the child that leads there.  Moving an entity walks  *)
(* up from its old domain to remove pointers and up from its new domain to *)
(* set them; a lookup climbs until it meets a pointer and follows it down. *)
(* Every action is one turn of a loop of the (single-threaded) program.    *)
(***************************************************************************)

CONSTANTS
  Entities,  \* servers, among them some that are nowhere
  Domains,   \* the names in the tree
  ROOT,      \* its top
  tree,      \* the children of each domain
  None       \* Python's None

\* The nested dictionary is a tree: every domain but the top is the child of
\* exactly one other, and the top is reached from everywhere.
ASSUME TreeAssumption ==
  /\ ROOT \in Domains /\ None \notin Domains
  /\ tree \in [Domains -> SUBSET (Domains \ {ROOT})]
  /\ \A d \in Domains \ {ROOT} :
       \E p \in Domains : \A q \in Domains : d \in tree[q] <=> q = p
  /\ \A S \in SUBSET (Domains \ {ROOT}) :
       S # {} => \E d \in S, p \in Domains \ S : d \in tree[p]

\* The result of build_parents.
parent_of ==
  [d \in Domains |-> IF d = ROOT THEN None
                     ELSE CHOOSE p \in Domains : d \in tree[p]]

VARIABLES
  entities,  \* the entities stored in each domain
  pointers,  \* pointers[d][e]: the child to follow from d, or None
  todo,      \* entities the program has still to register when it starts
  pc,        \* where the program is
  entity,    \* the entity of the operation at work
  current,   \* its loop variable
  target,    \* the new domain of a move, the first domain of a lookup
  path       \* the domains a lookup has visited

data == <<entities, pointers, todo>>
locals == <<pc, entity, current, target, path>>
vars == <<data, locals>>

Stored(e, d) == e \in entities[d]
LookingUp == pc \in {"up", "down", "found", "not found"}

-----------------------------------------------------------------------------
(* Pieces of the code a property hangs on, and plausible mistakes in them. *)

\* MISTAKE: unregister stops at the first domain above the old one.
LeadsThereOnce == pointers[parent_of[current]][entity] = current /\ current = target

\* MISTAKE: no pointer is removed, since register overwrites them.
NothingToRemove == FALSE

\* The test of unregister: the pointer above leads where we come from.
LeadsHere == pointers[parent_of[current]][entity] = current

\* MISTAKE: after a pointer is met the search still goes up.
AlwaysUp(d) == "up"

\* What a lookup does after climbing to d.
AfterClimb(d) == IF pointers[d][entity] # None THEN "down" ELSE "up"

\* MISTAKE: the entity is copied, not popped.
CopiedFrom(d, e) == entities[d]

\* entities[old_domain].pop(entity)
PoppedFrom(d, e) == entities[d] \ {e}

-----------------------------------------------------------------------------
\* The dictionaries as the program text gives them; entities may be absent.
Init ==
  /\ \E at \in [Entities -> Domains \union {None}] :
       /\ entities = [d \in Domains |-> {e \in Entities : at[e] = d}]
       /\ todo = {e \in Entities : at[e] # None}
  /\ pointers = [d \in Domains |-> [e \in Entities |-> None]]
  /\ pc = "start"
  /\ entity = None /\ current = None /\ target = None
  /\ path = {}

\* The loop over all entities when the program starts.
RegisterFirst(e) ==
  /\ pc = "start" /\ e \in todo
  /\ todo' = todo \ {e}
  /\ pc' = "register"
  /\ entity' = e
  /\ \E d \in Domains : Stored(e, d) /\ current' = d
  /\ UNCHANGED <<entities, pointers, target, path>>

Started ==
  /\ pc = "start" /\ todo = {}
  /\ pc' = "idle"
  /\ UNCHANGED <<data, entity, current, target, path>>

\* register: a pointer at the parent of the current domain.
Register ==
  /\ pc = "register" /\ parent_of[current] # None
  /\ pointers' = [pointers EXCEPT ![parent_of[current]][entity] = current]
  /\ current' = parent_of[current]
  /\ UNCHANGED <<entities, todo, pc, entity, target, path>>

Registered ==
  /\ pc = "register" /\ parent_of[current] = None
  /\ pc' = "start"
  /\ entity' = None /\ current' = None /\ target' = None
  /\ UNCHANGED <<data, path>>

\* move_entity up to its call of unregister.  An old domain that does not hold
\* the entity is a KeyError that changes nothing.
Move(e, old, new) ==
  /\ pc = "idle"
  /\ Stored(e, old)
  /\ entities' = [entities EXCEPT ![old] = PoppedFrom(old, e)]
  /\ pc' = "unregister"
  /\ entity' = e /\ current' = old /\ target' = new
  /\ UNCHANGED <<pointers, todo, path>>

\* unregister: the pointer at the parent, if it leads to the current domain.
Unregister ==
  /\ pc = "unregister" /\ parent_of[current] # None
  /\ pointers' = IF LeadsHere
                 THEN [pointers EXCEPT ![parent_of[current]][entity] = None]
                 ELSE pointers
  /\ current' = parent_of[current]
  /\ UNCHANGED <<entities, todo, pc, entity, target, path>>

\* The rest of move_entity: the entity is stored, and registered.
Unregistered ==
  /\ pc = "unregister" /\ parent_of[current] = None
  /\ entities' = [entities EXCEPT ![target] = @ \union {entity}]
  /\ pc' = "register"
  /\ current' = target
  /\ UNCHANGED <<pointers, todo, entity, target, path>>

\* lookup looks in the first domain itself.
Lookup(e, start) ==
  /\ pc = "idle"
  /\ pc' = IF Stored(e, start) THEN "found" ELSE "up"
  /\ entity' = e /\ current' = start /\ target' = start
  /\ path' = {start}
  /\ UNCHANGED data

Climb ==
  /\ pc = "up" /\ current # ROOT
  /\ current' = parent_of[current]
  /\ path' = path \union {parent_of[current]}
  /\ pc' = AfterClimb(parent_of[current])
  /\ UNCHANGED <<data, entity, target>>

Follow ==
  /\ pc = "down" /\ pointers[current][entity] # None
  /\ current' = pointers[current][entity]
  /\ path' = path \union {pointers[current][entity]}
  /\ UNCHANGED <<data, pc, entity, target>>

\* The end of the pointers: the entity is there, or the search goes on upwards.
EndOfPointers ==
  /\ pc = "down" /\ pointers[current][entity] = None
  /\ pc' = IF Stored(entity, current) THEN "found" ELSE "up"
  /\ UNCHANGED <<data, entity, current, target, path>>

NotFound ==
  /\ pc = "up" /\ current = ROOT
  /\ pc' = "not found"
  /\ UNCHANGED <<data, entity, current, target, path>>

\* run_lookup prints the result.
Report ==
  /\ pc \in {"found", "not found"}
  /\ pc' = "idle"
  /\ entity' = None /\ current' = None /\ target' = None
  /\ path' = {}
  /\ UNCHANGED data

\* The steps of an operation that has begun, and the operations a caller may begin.
Step ==
  \/ \E e \in Entities : RegisterFirst(e)
  \/ Started \/ Register \/ Registered \/ Unregister \/ Unregistered
  \/ Climb \/ Follow \/ EndOfPointers \/ NotFound \/ Report

Next ==
  \/ Step
  \/ \E e \in Entities, d \in Domains : Lookup(e, d) \/ \E old \in Domains : Move(e, old, d)

\* The program runs on until an operation is over; what is asked next is open.
Spec == Init /\ [][Next]_vars /\ WF_vars(Step)

-----------------------------------------------------------------------------
(* Properties *)

\* The types of the variables; an entity is in at most one domain.
TypeOK ==
  /\ entities \in [Domains -> SUBSET Entities]
  /\ \A e \in Entities, c, d \in Domains : Stored(e, c) /\ Stored(e, d) => c = d
  /\ pointers \in [Domains -> [Entities -> Domains \union {None}]]
  /\ todo \subseteq Entities
  /\ pc \in {"start", "idle", "register", "unregister", "up", "down", "found", "not found"}
  /\ entity \in Entities \union {None}
  /\ {current, target} \subseteq Domains \union {None}
  /\ path \subseteq Domains

\* Between operations a domain points to its child d for an entity exactly when
\* the entity is in d or d points on: after any sequence of moves no pointer is
\* left behind, none is missing, and none leads to a domain without the entity.
PointersExact ==
  pc = "idle" =>
    \A e \in Entities :
      /\ \A p, d \in Domains : pointers[p][e] = d => d \in tree[p]
      /\ \A d \in Domains \ {ROOT} :
           (pointers[parent_of[d]][e] = d) <=> (Stored(e, d) \/ pointers[d][e] # None)

\* A lookup that ends found the entity where it is, and gives up only on an
\* entity that is nowhere, or that is at or looked for from the top, where
\* `while current != "ROOT"` keeps the code from looking.
LookupComplete ==
  /\ pc = "found" => Stored(entity, current)
  /\ pc = "not found" =>
       \A d \in Domains : Stored(entity, d) => ROOT \in {d, target}

\* A lookup visits no domain twice, whatever moves came before it: it climbs to
\* the first domain above both ends and descends from there.  The exceptions are
\* an entity above the first domain, passed on the way up because a climb looks
\* for pointers and not for the entity, and a first domain above the entity, whose
\* own pointer is looked at only on the way back.
NoDetour ==
  [][LookingUp /\ current' # current /\ current' \in path
       => \/ Stored(entity, current')
          \/ current' = target /\ pointers[target][entity] # None]_vars

\* Where a caller takes an entity to be: a move has it in the new domain at once.
Where(e) ==
  IF pc = "unregister" /\ e = entity THEN target
  ELSE IF \E d \in Domains : Stored(e, d) THEN CHOOSE d \in Domains : Stored(e, d)
  ELSE None

Asked ==
  CASE pc \in {"up", "down"} -> <<entity, target>>
    [] pc = "found" -> <<entity, target, current>>
    [] pc = "not found" -> <<entity, target, None>>
    [] OTHER -> <<>>

L == INSTANCE Locator WITH where <- [e \in Entities |-> Where(e)], lookup <- Asked

\* The service keeps the promise of Locator: for all the walks up and down the tree
\* (move_entity, unregister, register, lookup), a move is one change of one domain,
\* none is lost or undone, and a lookup answers with what the last move left.
ImplementsLocator == L!LocatorSpec

\* Every lookup ends.  It has no bound of its own: pointers that led to a domain
\* without the entity would send it up and down for ever.
LookupEnds == LookingUp ~> pc = "idle"
=============================================================================

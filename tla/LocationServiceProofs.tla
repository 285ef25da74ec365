----------------------- MODULE LocationServiceProofs -----------------------
(***************************************************************************)
(* On any tree, for any entities and after any sequence of moves, pointers *)
(* are exact between operations and lookups miss nothing they could find.  *)
(*                                                                         *)
(* PointersExact says nothing of an operation at work.  OnTheWayUp does:   *)
(* unregister has exact pointers except that the entity is nowhere and the *)
(* chain above the current domain still leads there; register has exact    *)
(* pointers up to the current domain and none above it.  That none is left *)
(* when the one walk has reached the top and the other begins is where the *)
(* shape of the tree comes in.                                             *)
(***************************************************************************)
EXTENDS LocationService, SequenceTheorems, TLAPS

\* The domains on the way from d to the top, d among them.
Above(d) ==
  {p \in Domains : \A S \in SUBSET Domains :
     d \in S /\ (\A x \in S \ {ROOT} : parent_of[x] \in S) => p \in S}

ProperlyAbove(d) == IF d = ROOT THEN {} ELSE Above(parent_of[d])

HasPointer(e, d) == pointers[d][e] # None
LedTo(e, d) == pointers[parent_of[d]][e] = d

\* What PointersExact says of one entity, and that pointers end where it is.
Exact(e) ==
  /\ \A d \in Domains \ {ROOT} : LedTo(e, d) <=> (Stored(e, d) \/ HasPointer(e, d))
  /\ \A d \in Domains : Stored(e, d) => ~HasPointer(e, d)

\* The entity of unregister.
LeavingOK ==
  /\ \A d \in Domains : ~Stored(entity, d)
  /\ ~HasPointer(entity, current)
  /\ \A d \in Domains \ {ROOT} : LedTo(entity, d) <=> (d = current \/ HasPointer(entity, d))

\* The entity of register.
ArrivingOK ==
  /\ Stored(entity, current) \/ HasPointer(entity, current)
  /\ \A d \in Domains \ {ROOT, current} :
       LedTo(entity, d) <=> (Stored(entity, d) \/ HasPointer(entity, d))
  /\ \A d \in Domains : Stored(entity, d) => ~HasPointer(entity, d)
  /\ \A d \in ProperlyAbove(current) : ~Stored(entity, d) /\ ~HasPointer(entity, d)

OnTheWayUp ==
  /\ pc = "unregister" => LeavingOK
  /\ pc = "register" => ArrivingOK
  /\ \A e \in Entities :
       IF e \in todo THEN \A d \in Domains : ~HasPointer(e, d)
       ELSE (pc \in {"register", "unregister"} /\ e = entity) \/ Exact(e)

\* The local variables of an operation at work.
LocalsOK ==
  /\ pc \notin {"start", "register"} => todo = {}
  /\ pc \notin {"start", "idle"} => entity \in Entities \ todo /\ current \in Domains
  /\ pc \notin {"start", "idle", "register"} => target \in Domains

\* A pointer leads to a child.
PointersDown ==
  \A p, d \in Domains, e \in Entities : pointers[p][e] = d => d \in tree[p]

\* A lookup goes up only from where it began or where there is no pointer.
UpOK == pc = "up" => current = target \/ ~HasPointer(entity, current)

Inv == TypeOK /\ LocalsOK /\ PointersDown /\ OnTheWayUp /\ UpOK /\ LookupComplete

-----------------------------------------------------------------------------
(* The tree *)

\* parent_of is what the dictionary says.
LEMMA ParentFacts ==
  /\ ROOT \in Domains /\ None \notin Domains /\ parent_of[ROOT] = None
  /\ \A d \in Domains \ {ROOT} : parent_of[d] \in Domains /\ d \in tree[parent_of[d]]
  /\ \A d, p \in Domains : d \in tree[p] => d # ROOT /\ parent_of[d] = p
<1>1. ROOT \in Domains /\ None \notin Domains /\ parent_of[ROOT] = None
  BY TreeAssumption DEF parent_of
<1>2. ASSUME NEW d \in Domains \ {ROOT}
      PROVE  /\ parent_of[d] \in Domains /\ d \in tree[parent_of[d]]
             /\ \A p \in Domains : d \in tree[p] => parent_of[d] = p
  <2>1. parent_of[d] = CHOOSE p \in Domains : d \in tree[p]
    BY DEF parent_of
  <2>2. PICK p \in Domains : \A q \in Domains : d \in tree[q] <=> q = p
    BY TreeAssumption
  <2>. QED BY <2>1, <2>2
<1>3. \A p \in Domains : ROOT \notin tree[p]
  BY TreeAssumption
<1>. QED BY <1>1, <1>2, <1>3

\* Every set of domains without the top has a member whose parent is outside.
LEMMA WayOut ==
  ASSUME NEW S \in SUBSET (Domains \ {ROOT}), S # {}
  PROVE  \E d \in S : parent_of[d] \notin S
<1>1. PICK d \in S, p \in Domains \ S : d \in tree[p]
  BY TreeAssumption
<1>. QED BY <1>1, ParentFacts

LEMMA AboveSelf ==
  ASSUME NEW d \in Domains
  PROVE  d \in Above(d)
  BY DEF Above

LEMMA AboveRoot == Above(ROOT) = {ROOT}
<1>1. ASSUME NEW p \in Above(ROOT)
      PROVE  p \in {ROOT}
  <2>1. /\ {ROOT} \in SUBSET Domains /\ ROOT \in {ROOT}
        /\ \A x \in {ROOT} \ {ROOT} : parent_of[x] \in {ROOT}
    BY ParentFacts
  <2>. QED BY <2>1 DEF Above
<1>. QED BY <1>1, AboveSelf, ParentFacts

\* One step up.
LEMMA AboveStep ==
  ASSUME NEW d \in Domains \ {ROOT}
  PROVE  Above(d) = {d} \union Above(parent_of[d])
<1>1. ASSUME NEW p \in Above(parent_of[d])
      PROVE  p \in Above(d)
  BY <1>1 DEF Above
<1>2. ASSUME NEW p \in Above(d), p # d
      PROVE  p \in Above(parent_of[d])
  <2>1. SUFFICES ASSUME NEW S \in SUBSET Domains, parent_of[d] \in S,
                        \A x \in S \ {ROOT} : parent_of[x] \in S
                 PROVE  p \in S
    BY <1>2 DEF Above
  <2>2. /\ S \union {d} \in SUBSET Domains /\ d \in S \union {d}
        /\ \A x \in (S \union {d}) \ {ROOT} : parent_of[x] \in S \union {d}
    BY <2>1
  <2>3. p \in S \union {d}
    BY <2>2, <1>2 DEF Above
  <2>. QED BY <2>3, <1>2
<1>. QED BY <1>1, <1>2, AboveSelf

\* The way up does not come back.
LEMMA NoCycle ==
  ASSUME NEW d \in Domains
  PROVE  d \notin ProperlyAbove(d)
<1>1. SUFFICES ASSUME d # ROOT, d \in Above(parent_of[d])
               PROVE  FALSE
  BY DEF ProperlyAbove
<1>. DEFINE S == {x \in Domains \ {ROOT} : d \in Above(x)}
<1>2. d \in S
  BY <1>1, AboveSelf
<1>3. PICK x \in S : parent_of[x] \notin S
  BY <1>2, WayOut
<1>4. parent_of[x] \in Domains
  BY ParentFacts
<1>5. d \in Above(parent_of[x])
  <2>1. CASE x = d
    BY <2>1, <1>1
  <2>2. CASE x # d
    BY <2>2, AboveStep
  <2>. QED BY <2>1, <2>2
<1>6. parent_of[x] # ROOT
  BY <1>5, <1>1, AboveRoot
<1>. QED BY <1>3, <1>4, <1>5, <1>6

\* The domains above a domain's parent are above the domain, which is not
\* among them and neither is the parent.
LEMMA AboveParent ==
  ASSUME NEW d \in Domains \ {ROOT}
  PROVE  LET p == parent_of[d]
         IN /\ p \in Domains /\ p # d
            /\ p \in ProperlyAbove(d)
            /\ ProperlyAbove(p) \subseteq ProperlyAbove(d)
            /\ p \notin ProperlyAbove(p) /\ d \notin ProperlyAbove(p)
<1>. DEFINE p == parent_of[d]
<1>1. p \in Domains
  BY ParentFacts
<1>2. ProperlyAbove(d) = Above(p)
  BY DEF ProperlyAbove
<1>3. p \in Above(p)
  BY <1>1, AboveSelf
<1>4. ProperlyAbove(p) \subseteq Above(p)
  <2>1. CASE p = ROOT
    BY <2>1 DEF ProperlyAbove
  <2>2. CASE p # ROOT
    BY <2>2, <1>1, AboveStep DEF ProperlyAbove
  <2>. QED BY <2>1, <2>2
<1>5. d \notin ProperlyAbove(d) /\ p \notin ProperlyAbove(p)
  BY <1>1, NoCycle
<1>. HIDE DEF p
<1>6. p # d /\ d \notin ProperlyAbove(p)
  BY <1>2, <1>3, <1>4, <1>5
<1>. QED BY <1>1, <1>2, <1>3, <1>4, <1>5, <1>6 DEF p

-----------------------------------------------------------------------------
(* Consequences of the invariant for one entity *)

\* Without a pointer at the top, exact pointers are no pointers at all, and the
\* entity is at the top or nowhere.
LEMMA NothingBelow ==
  ASSUME NEW e \in Entities, ~HasPointer(e, ROOT),
         \A d \in Domains \ {ROOT} : HasPointer(e, d) => LedTo(e, d)
  PROVE  \A d \in Domains : ~HasPointer(e, d)
<1>. DEFINE S == {d \in Domains \ {ROOT} : HasPointer(e, d)}
<1>1. SUFFICES ASSUME S # {}
               PROVE  FALSE
  OBVIOUS
<1>2. PICK d \in S : parent_of[d] \notin S
  BY <1>1, WayOut
<1>3. HasPointer(e, parent_of[d])
  BY ParentFacts DEF LedTo, HasPointer
<1>. QED BY <1>2, <1>3, ParentFacts

\* What is not found from the top is not below it.
LEMMA NothingStored ==
  ASSUME NEW e \in Entities, Exact(e), ~HasPointer(e, ROOT)
  PROVE  \A d \in Domains \ {ROOT} : ~Stored(e, d)
<1>1. \A d \in Domains : ~HasPointer(e, d)
  BY NothingBelow DEF Exact
<1>2. \A d \in Domains \ {ROOT} : ~LedTo(e, d)
  BY <1>1, ParentFacts DEF LedTo, HasPointer
<1>. QED BY <1>2 DEF Exact

\* Between operations every entity is exact.
LEMMA IdleExact ==
  ASSUME Inv, pc \notin {"start", "register", "unregister"}
  PROVE  \A e \in Entities : Exact(e)
  BY DEF Inv, LocalsOK, OnTheWayUp

-----------------------------------------------------------------------------
(* The actions *)

LEMMA InitInv == ASSUME Init PROVE Inv
<1>. PICK at \in [Entities -> Domains \union {None}] :
       /\ entities = [d \in Domains |-> {e \in Entities : at[e] = d}]
       /\ todo = {e \in Entities : at[e] # None}
  BY DEF Init
<1>. USE DEF Init
<1>1. \A e \in Entities, d \in Domains : Stored(e, d) <=> at[e] = d
  BY DEF Stored
<1>2. \A e \in Entities, d \in Domains : ~HasPointer(e, d)
  BY DEF HasPointer
<1>3. TypeOK
  BY <1>1 DEF TypeOK, Stored
<1>4. LocalsOK /\ UpOK /\ LookupComplete
  BY DEF LocalsOK, UpOK, LookupComplete
<1>5. PointersDown
  BY ParentFacts DEF PointersDown
<1>6. OnTheWayUp
  <2>1. ASSUME NEW e \in Entities, e \notin todo
        PROVE  Exact(e)
    <3>1. \A d \in Domains : ~Stored(e, d)
      BY <2>1, <1>1, ParentFacts
    <3>2. \A d \in Domains \ {ROOT} : ~LedTo(e, d)
      BY ParentFacts DEF LedTo
    <3>. QED BY <3>1, <3>2, <1>2 DEF Exact
  <2>. QED BY <2>1, <1>2 DEF OnTheWayUp
<1>. QED BY <1>3, <1>4, <1>5, <1>6 DEF Inv

LEMMA RegisterFirstInv ==
  ASSUME Inv, NEW e \in Entities, RegisterFirst(e)
  PROVE  Inv'
<1>. USE DEF Inv, RegisterFirst
<1>0. PICK d \in Domains : Stored(e, d) /\ current' = d
  OBVIOUS
<1>1. /\ entity' = e /\ e \in todo /\ pc' = "register" /\ todo' = todo \ {e}
      /\ pointers' = pointers /\ entities' = entities
  OBVIOUS
<1>2. TypeOK'
  BY <1>0 DEF TypeOK, Stored
<1>3. LocalsOK' /\ PointersDown' /\ UpOK' /\ LookupComplete'
  BY <1>0, <1>1 DEF LocalsOK, PointersDown, UpOK, LookupComplete
<1>4. \A c \in Domains : ~HasPointer(e, c)
  BY <1>1 DEF OnTheWayUp
<1>5. \A c \in Domains \ {ROOT} : ~LedTo(e, c)
  BY <1>4, ParentFacts DEF LedTo, HasPointer
<1>6. \A c \in Domains : Stored(e, c) => c = d
  BY <1>0 DEF TypeOK
<1>7. ProperlyAbove(d) \subseteq Domains /\ d \notin ProperlyAbove(d)
  BY NoCycle DEF ProperlyAbove, Above
<1>8. ArrivingOK'
  BY <1>0, <1>1, <1>4, <1>5, <1>6, <1>7 DEF ArrivingOK, HasPointer, LedTo, Stored
<1>9. OnTheWayUp'
  BY <1>1, <1>8 DEF OnTheWayUp, Exact, HasPointer, LedTo, Stored
<1>. QED BY <1>2, <1>3, <1>9

LEMMA StartedInv ==
  ASSUME Inv, Started
  PROVE  Inv'
<1>. USE DEF Inv, Started, data
<1>1. TypeOK'
  BY DEF TypeOK, Stored
<1>2. LocalsOK' /\ PointersDown' /\ UpOK' /\ LookupComplete'
  BY DEF LocalsOK, PointersDown, UpOK, LookupComplete
<1>3. OnTheWayUp'
  BY DEF OnTheWayUp, Exact, HasPointer, LedTo, Stored
<1>. QED BY <1>1, <1>2, <1>3

LEMMA RegisterInv ==
  ASSUME Inv, Register
  PROVE  Inv'
<1>. USE DEF Inv, Register
<1>. PICK e, c, p : e = entity /\ c = current /\ p = parent_of[c]
  OBVIOUS
<1>1. /\ c \in Domains \ {ROOT} /\ e \in Entities /\ e \notin todo
      /\ p \in Domains /\ c \in tree[p]
  BY ParentFacts DEF LocalsOK
<1>2. /\ current' = p /\ entity' = e /\ pc' = "register"
      /\ entities' = entities /\ todo' = todo
  OBVIOUS
<1>3. /\ pointers'[p][e] = c /\ c # None
      /\ \A x \in Domains, f \in Entities :
           x # p \/ f # e => pointers'[x][f] = pointers[x][f]
  BY <1>1, ParentFacts DEF TypeOK
<1>4. TypeOK'
  BY <1>1 DEF TypeOK, Stored
<1>5. LocalsOK' /\ UpOK' /\ LookupComplete'
  BY <1>1 DEF LocalsOK, UpOK, LookupComplete
<1>6. PointersDown'
  BY <1>1, <1>3 DEF PointersDown
<1>7. ArrivingOK
  BY DEF OnTheWayUp
<1>8. /\ p # c /\ p \in ProperlyAbove(c) /\ p \notin ProperlyAbove(p)
      /\ ProperlyAbove(p) \subseteq ProperlyAbove(c) /\ ProperlyAbove(p) \subseteq Domains
  BY <1>1, AboveParent DEF ProperlyAbove, Above
<1>9. ~Stored(e, p) /\ ~HasPointer(e, p)
  BY <1>7, <1>8 DEF ArrivingOK
<1>10. ArrivingOK'
  <2>1. HasPointer(e, p)'
    BY <1>2, <1>3 DEF HasPointer
  <2>2. ASSUME NEW d \in Domains \ {ROOT, p}
        PROVE  (LedTo(e, d) <=> (Stored(e, d) \/ HasPointer(e, d)))'
    <3>1. /\ HasPointer(e, d)' <=> HasPointer(e, d)
          /\ Stored(e, d)' <=> Stored(e, d)
      BY <1>1, <1>2, <1>3 DEF HasPointer, Stored
    <3>2. CASE d = c
      BY <3>1, <3>2, <1>2, <1>3, <1>7 DEF LedTo, ArrivingOK
    <3>3. CASE d # c /\ parent_of[d] = p
      BY <3>1, <3>3, <1>2, <1>3, <1>7, <1>9, ParentFacts DEF LedTo, HasPointer, ArrivingOK
    <3>4. CASE d # c /\ parent_of[d] # p
      BY <3>1, <3>4, <1>1, <1>2, <1>3, <1>7, ParentFacts DEF LedTo, ArrivingOK
    <3>. QED BY <3>2, <3>3, <3>4
  <2>3. ASSUME NEW d \in Domains, Stored(e, d)'
        PROVE  ~HasPointer(e, d)'
    BY <2>3, <1>1, <1>2, <1>3, <1>7, <1>9 DEF HasPointer, Stored, ArrivingOK
  <2>4. ASSUME NEW d \in ProperlyAbove(p)
        PROVE  ~Stored(e, d)' /\ ~HasPointer(e, d)'
    BY <1>1, <1>2, <1>3, <1>7, <1>8 DEF HasPointer, Stored, ArrivingOK
  <2>. QED BY <1>2, <2>1, <2>2, <2>3, <2>4 DEF ArrivingOK
<1>11. OnTheWayUp'
  <2>1. ASSUME NEW f \in Entities, f # e
        PROVE  /\ Exact(f)' <=> Exact(f)
               /\ \A d \in Domains : HasPointer(f, d)' <=> HasPointer(f, d)
    <3>1. \A d \in Domains : pointers'[d][f] = pointers[d][f]
      BY <2>1, <1>3
    <3>2. \A d \in Domains : /\ HasPointer(f, d)' <=> HasPointer(f, d)
                             /\ Stored(f, d)' <=> Stored(f, d)
      BY <3>1, <1>2 DEF HasPointer, Stored
    <3>3. \A d \in Domains \ {ROOT} : LedTo(f, d)' <=> LedTo(f, d)
      BY <3>1, ParentFacts DEF LedTo
    <3>. QED BY <3>2, <3>3 DEF Exact
  <2>. QED BY <2>1, <1>1, <1>2, <1>10 DEF OnTheWayUp
<1>. QED BY <1>4, <1>5, <1>6, <1>11

LEMMA RegisteredInv ==
  ASSUME Inv, Registered
  PROVE  Inv'
<1>. USE DEF Inv, Registered, data
<1>. PICK e : e = entity
  OBVIOUS
<1>1. current = ROOT /\ e \in Entities \ todo
  BY ParentFacts DEF LocalsOK
<1>2. TypeOK'
  BY DEF TypeOK, Stored
<1>3. LocalsOK' /\ PointersDown' /\ UpOK' /\ LookupComplete'
  BY DEF LocalsOK, PointersDown, UpOK, LookupComplete
<1>4. Exact(e)
  BY <1>1 DEF OnTheWayUp, ArrivingOK, Exact
<1>5. OnTheWayUp'
  BY <1>1, <1>4 DEF OnTheWayUp, Exact, HasPointer, LedTo, Stored
<1>. QED BY <1>2, <1>3, <1>5

LEMMA MoveInv ==
  ASSUME Inv, NEW e \in Entities, NEW old \in Domains, NEW new \in Domains,
         Move(e, old, new)
  PROVE  Inv'
<1>. USE DEF Inv, Move
<1>1. /\ todo = {} /\ todo' = todo /\ pointers' = pointers
      /\ entity' = e /\ current' = old /\ target' = new /\ pc' = "unregister"
      /\ Stored(e, old)
  BY DEF LocalsOK
<1>2. \A d \in Domains, f \in Entities :
        Stored(f, d)' <=> Stored(f, d) /\ <<f, d>> # <<e, old>>
  BY DEF TypeOK, Stored, PoppedFrom
<1>3. TypeOK'
  <2>1. entities' \in [Domains -> SUBSET Entities]
    BY DEF TypeOK, PoppedFrom
  <2>. QED BY <1>1, <1>2, <2>1 DEF TypeOK
<1>4. LocalsOK' /\ PointersDown' /\ UpOK' /\ LookupComplete'
  BY <1>1 DEF LocalsOK, PointersDown, UpOK, LookupComplete
<1>5. \A f \in Entities : Exact(f)
  BY IdleExact
<1>6. \A d \in Domains : Stored(e, d) <=> d = old
  BY <1>1 DEF TypeOK
<1>7. LeavingOK'
  BY <1>1, <1>2, <1>5, <1>6 DEF LeavingOK, Exact, HasPointer, LedTo
<1>8. ASSUME NEW f \in Entities, f # e
      PROVE  Exact(f)'
  BY <1>1, <1>2, <1>5, <1>8 DEF Exact, HasPointer, LedTo
<1>9. OnTheWayUp'
  BY <1>1, <1>7, <1>8 DEF OnTheWayUp
<1>. QED BY <1>3, <1>4, <1>9

LEMMA UnregisterInv ==
  ASSUME Inv, Unregister
  PROVE  Inv'
<1>. USE DEF Inv, Unregister
<1>. PICK e, c, p : e = entity /\ c = current /\ p = parent_of[c]
  OBVIOUS
<1>1. /\ c \in Domains \ {ROOT} /\ e \in Entities \ todo
      /\ p \in Domains /\ p # c
  BY ParentFacts, AboveParent DEF LocalsOK
<1>2. /\ current' = p /\ entity' = e /\ pc' = "unregister"
      /\ entities' = entities /\ todo' = todo /\ target' = target
  OBVIOUS
<1>3. LeavingOK
  BY DEF OnTheWayUp
<1>4. pointers[p][e] = c
  BY <1>1, <1>3 DEF LeavingOK, LedTo
<1>5. /\ pointers' = [pointers EXCEPT ![p][e] = None]
      /\ pointers'[p][e] = None
      /\ \A x \in Domains, f \in Entities :
           x # p \/ f # e => pointers'[x][f] = pointers[x][f]
  BY <1>1, <1>4 DEF TypeOK, LeadsHere
<1>6. TypeOK'
  BY <1>1, <1>5 DEF TypeOK, Stored
<1>7. LocalsOK' /\ UpOK' /\ LookupComplete'
  BY <1>1 DEF LocalsOK, UpOK, LookupComplete
<1>8. PointersDown'
  BY <1>1, <1>5, ParentFacts DEF PointersDown
<1>9. LeavingOK'
  <2>1. ASSUME NEW d \in Domains \ {ROOT}
        PROVE  (LedTo(e, d) <=> (d = p \/ HasPointer(e, d)))'
    <3>1. CASE d = p
      <4>1. parent_of[p] # p
        BY <3>1, AboveParent
      <4>. QED BY <3>1, <4>1, <1>1, <1>2, <1>3, <1>4, <1>5, ParentFacts
             DEF LedTo, HasPointer, LeavingOK
    <3>2. CASE d # p /\ parent_of[d] = p
      BY <3>2, <1>1, <1>2, <1>3, <1>4, <1>5, ParentFacts DEF LedTo, HasPointer, LeavingOK
    <3>3. CASE d # p /\ parent_of[d] # p
      BY <3>3, <1>1, <1>2, <1>3, <1>4, <1>5, ParentFacts DEF LedTo, HasPointer, LeavingOK
    <3>. QED BY <3>1, <3>2, <3>3
  <2>. QED BY <2>1, <1>2, <1>3, <1>5 DEF LeavingOK, HasPointer, Stored
<1>10. ASSUME NEW f \in Entities, f # e
       PROVE  /\ Exact(f)' <=> Exact(f)
              /\ \A d \in Domains : HasPointer(f, d)' <=> HasPointer(f, d)
  <2>1. \A d \in Domains : pointers'[d][f] = pointers[d][f]
    BY <1>10, <1>5
  <2>2. \A d \in Domains : /\ HasPointer(f, d)' <=> HasPointer(f, d)
                           /\ Stored(f, d)' <=> Stored(f, d)
    BY <2>1, <1>2 DEF HasPointer, Stored
  <2>3. \A d \in Domains \ {ROOT} : LedTo(f, d)' <=> LedTo(f, d)
    BY <2>1, ParentFacts DEF LedTo
  <2>. QED BY <2>2, <2>3 DEF Exact
<1>11. OnTheWayUp'
  BY <1>1, <1>2, <1>9, <1>10 DEF OnTheWayUp
<1>. QED BY <1>6, <1>7, <1>8, <1>11

LEMMA UnregisteredInv ==
  ASSUME Inv, Unregistered
  PROVE  Inv'
<1>. USE DEF Inv, Unregistered
<1>. PICK e, t : e = entity /\ t = target
  OBVIOUS
<1>1. current = ROOT /\ e \in Entities \ todo /\ t \in Domains /\ todo = {}
  BY ParentFacts DEF LocalsOK
<1>2. /\ current' = t /\ entity' = e /\ pc' = "register"
      /\ pointers' = pointers /\ todo' = todo /\ target' = target
  OBVIOUS
<1>3. LeavingOK
  BY DEF OnTheWayUp
<1>4. \A d \in Domains : ~HasPointer(e, d)
  BY <1>1, <1>3, NothingBelow DEF LeavingOK
<1>5. \A d \in Domains, f \in Entities :
        Stored(f, d)' <=> Stored(f, d) \/ <<f, d>> = <<e, t>>
  BY <1>1 DEF TypeOK, Stored
<1>6. \A d \in Domains : Stored(e, d)' <=> d = t
  BY <1>1, <1>3, <1>5 DEF LeavingOK
<1>7. TypeOK'
  <2>1. entities' \in [Domains -> SUBSET Entities]
    BY <1>1 DEF TypeOK
  <2>2. ASSUME NEW f \in Entities, NEW c \in Domains, NEW d \in Domains,
               Stored(f, c)', Stored(f, d)'
        PROVE  c = d
    BY <2>2, <1>5, <1>6 DEF TypeOK
  <2>. QED BY <1>1, <2>1, <2>2 DEF TypeOK
<1>8. LocalsOK' /\ PointersDown' /\ UpOK' /\ LookupComplete'
  BY <1>1 DEF LocalsOK, PointersDown, UpOK, LookupComplete
<1>9. ArrivingOK'
  <2>1. ProperlyAbove(t) \subseteq Domains /\ t \notin ProperlyAbove(t)
    BY <1>1, NoCycle DEF ProperlyAbove, Above
  <2>2. \A d \in Domains \ {ROOT} : ~LedTo(e, d)
    BY <1>4, ParentFacts DEF LedTo, HasPointer
  <2>. QED BY <1>1, <1>2, <1>4, <1>6, <2>1, <2>2 DEF ArrivingOK, HasPointer, LedTo
<1>10. ASSUME NEW f \in Entities, f # e
       PROVE  Exact(f)'
  <2>1. Exact(f)
    BY <1>10, <1>1 DEF OnTheWayUp
  <2>. QED BY <1>10, <1>2, <1>5, <2>1 DEF Exact, HasPointer, LedTo
<1>11. OnTheWayUp'
  BY <1>1, <1>2, <1>9, <1>10 DEF OnTheWayUp
<1>. QED BY <1>7, <1>8, <1>11

\* A lookup reads pointers and changes none.
LEMMA ReadingInv ==
  ASSUME Inv, UNCHANGED data, TypeOK', LocalsOK', UpOK', LookupComplete',
         pc \notin {"start", "register", "unregister"},
         pc' \notin {"start", "register", "unregister"}
  PROVE  Inv'
<1>1. \A e \in Entities : Exact(e)
  BY IdleExact
<1>2. OnTheWayUp'
  BY <1>1 DEF Inv, LocalsOK, OnTheWayUp, Exact, HasPointer, LedTo, Stored, data
<1>. QED BY <1>2 DEF Inv, PointersDown, data

LEMMA LookupInv ==
  ASSUME Inv,
         \/ \E e \in Entities, d \in Domains : Lookup(e, d)
         \/ Climb \/ Follow \/ EndOfPointers \/ NotFound \/ Report
  PROVE  Inv'
<1>. USE DEF Inv, data, TypeOK, LocalsOK, UpOK, LookupComplete, Stored, HasPointer
<1>1. ASSUME NEW e \in Entities, NEW d \in Domains, Lookup(e, d)
      PROVE  Inv'
  BY <1>1, ReadingInv DEF Lookup
<1>2. CASE Climb
  <2>1. parent_of[current] \in Domains
    BY <1>2, ParentFacts DEF Climb
  <2>. QED BY <1>2, <2>1, ReadingInv DEF Climb, AfterClimb
<1>3. CASE Follow
  <2>1. pointers[current][entity] \in Domains
    BY <1>3 DEF Follow
  <2>. QED BY <1>3, <2>1, ReadingInv DEF Follow
<1>4. CASE EndOfPointers
  BY <1>4, ReadingInv DEF EndOfPointers
<1>5. CASE NotFound
  <2>1. ASSUME NEW d \in Domains, Stored(entity, d), target # ROOT
        PROVE  d = ROOT
    <3>1. Exact(entity) /\ ~HasPointer(entity, ROOT)
      BY <1>5, <2>1, IdleExact DEF NotFound
    <3>. QED BY <3>1, <2>1, <1>5, NothingStored DEF NotFound
  <2>. QED BY <1>5, <2>1, ReadingInv DEF NotFound
<1>6. CASE Report
  BY <1>6, ReadingInv DEF Report
<1>. QED BY <1>1, <1>2, <1>3, <1>4, <1>5, <1>6

-----------------------------------------------------------------------------
(* Theorems *)

LEMMA NextInv ==
  ASSUME Inv, [Next]_vars
  PROVE  Inv'
<1>1. CASE UNCHANGED vars
  <2>. USE <1>1 DEF Inv, vars, data, locals, Stored, HasPointer
  <2>1. TypeOK' /\ LocalsOK'
    BY DEF TypeOK, LocalsOK
  <2>2. PointersDown' /\ UpOK' /\ LookupComplete'
    BY DEF PointersDown, UpOK, LookupComplete
  <2>3. (pc = "unregister" => LeavingOK)'
    BY DEF OnTheWayUp, LeavingOK, LedTo
  <2>4. (pc = "register" => ArrivingOK)'
    BY DEF OnTheWayUp, ArrivingOK, LedTo
  <2>5. \A e \in Entities : Exact(e)' <=> Exact(e)
    BY DEF Exact, LedTo
  <2>. QED BY <2>1, <2>2, <2>3, <2>4, <2>5 DEF OnTheWayUp
<1>2. CASE Next
  BY <1>2, RegisterFirstInv, StartedInv, RegisterInv, RegisteredInv, MoveInv,
     UnregisterInv, UnregisteredInv, LookupInv DEF Next, Step
<1>. QED BY <1>1, <1>2

THEOREM Invariance == Spec => []Inv
<1>1. Init => Inv
  BY InitInv
<1>2. Inv /\ [Next]_vars => Inv'
  BY NextInv
<1>. QED BY <1>1, <1>2, PTL DEF Spec

\* The variables of the location service keep their types, and an entity is in
\* one domain at most, on any tree.
THEOREM TypeCorrect == Spec => []TypeOK
<1>1. Inv => TypeOK
  BY DEF Inv
<1>. QED BY <1>1, Invariance, PTL

\* After any sequence of moves (move_entity, which calls unregister and register)
\* the pointers lead to every entity and nowhere else.
THEOREM PointersAlwaysExact == Spec => []PointersExact
<1>1. ASSUME Inv
      PROVE  PointersExact
  <2>1. SUFFICES ASSUME pc = "idle", NEW e \in Entities
                 PROVE  /\ \A p, d \in Domains : pointers[p][e] = d => d \in tree[p]
                        /\ \A d \in Domains \ {ROOT} :
                             (pointers[parent_of[d]][e] = d)
                               <=> (Stored(e, d) \/ pointers[d][e] # None)
    BY DEF PointersExact
  <2>2. Exact(e)
    BY <1>1, <2>1, IdleExact
  <2>. QED BY <1>1, <2>2 DEF Inv, PointersDown, Exact, LedTo, HasPointer
<1>. QED BY <1>1, Invariance, PTL

\* A lookup that ends has found the entity where it is, and has missed it only
\* where the code does not look: at the top, or when it starts there.
THEOREM LookupsComplete == Spec => []LookupComplete
<1>1. Inv => LookupComplete
  BY DEF Inv
<1>. QED BY <1>1, Invariance, PTL

-----------------------------------------------------------------------------
(* The path of a lookup *)

\* A climb has passed nothing but domains below it, and no pointer but perhaps
\* one where it began.  A descent has the entity below it, and has come from
\* above; what else it has seen was passed by the climb.
PathOK ==
  /\ pc = "up" =>
       \A x \in path : /\ current \in Above(x)
                       /\ x = target \/ ~HasPointer(entity, x)
  /\ pc = "down" =>
       /\ Stored(entity, current) \/ HasPointer(entity, current)
       /\ \A x \in path :
            x \in Above(current) \/ x = target \/ ~HasPointer(entity, x)

LEMMA AboveClosed ==
  ASSUME NEW x \in Domains, NEW d \in Above(x), d # ROOT
  PROVE  parent_of[d] \in Above(x)
<1>1. parent_of[d] \in Domains /\ d \in Domains
  BY ParentFacts DEF Above
<1>. QED BY <1>1 DEF Above

\* A pointer leads to a child where the entity is, or from which it leads on.
LEMMA FollowFacts ==
  ASSUME Inv, Follow
  PROVE  /\ current \in Domains /\ current' \in Domains \ {ROOT}
         /\ parent_of[current'] = current
         /\ Stored(entity, current') \/ HasPointer(entity, current')
<1>1. entity \in Entities /\ current \in Domains /\ pc = "down"
  BY DEF Inv, LocalsOK, Follow
<1>. PICK c : c = current'
  OBVIOUS
<1>2. c = pointers[current][entity] /\ c \in Domains
  BY <1>1 DEF Inv, TypeOK, Follow
<1>3. c # ROOT /\ parent_of[c] = current
  BY <1>1, <1>2, ParentFacts DEF Inv, PointersDown
<1>4. LedTo(entity, c) /\ Exact(entity)
  BY <1>1, <1>2, <1>3, IdleExact DEF LedTo
<1>. QED BY <1>1, <1>2, <1>3, <1>4 DEF Exact

LEMMA PathInv ==
  ASSUME Inv, PathOK, [Next]_vars
  PROVE  PathOK'
<1>. USE DEF HasPointer, Stored
<1>1. ASSUME NEW e \in Entities, NEW d \in Domains, Lookup(e, d)
      PROVE  PathOK'
  BY <1>1, AboveSelf DEF Lookup, PathOK
<1>2. CASE Climb
  <2>. PICK p : p = parent_of[current]
    OBVIOUS
  <2>1. /\ current \in Domains /\ current # ROOT /\ p \in Domains
        /\ path \subseteq Domains /\ entity' = entity /\ target' = target
        /\ current' = p /\ path' = path \union {p} /\ pointers' = pointers
        /\ entities' = entities /\ pc' = AfterClimb(p) /\ pc = "up"
    BY <1>2, ParentFacts DEF Inv, TypeOK, LocalsOK, Climb, data
  <2>2. \A x \in path : p \in Above(x) /\ (x = target \/ ~HasPointer(entity, x))
    BY <2>1, AboveClosed DEF PathOK
  <2>3. p \in Above(p)
    BY <2>1, AboveSelf
  <2>. QED BY <2>1, <2>2, <2>3 DEF PathOK, AfterClimb
<1>3. CASE Follow
  <2>. PICK c : c = current'
    OBVIOUS
  <2>1. /\ c \in Domains \ {ROOT} /\ parent_of[c] = current
        /\ Stored(entity, c) \/ HasPointer(entity, c)
    BY <1>3, FollowFacts
  <2>2. Above(c) = {c} \union Above(current)
    BY <2>1, AboveStep
  <2>3. /\ pc = "down" /\ pc' = pc /\ entity' = entity /\ target' = target
        /\ pointers' = pointers /\ entities' = entities /\ path' = path \union {c}
    BY <1>3 DEF Follow, data
  <2>. QED BY <2>1, <2>2, <2>3 DEF PathOK
<1>4. CASE EndOfPointers
  BY <1>4 DEF EndOfPointers, PathOK
<1>5. CASE UNCHANGED vars
  BY <1>5 DEF vars, data, locals, PathOK
<1>6. CASE \/ \E e \in Entities : RegisterFirst(e)
           \/ Started \/ Register \/ Registered \/ Unregister \/ Unregistered
           \/ NotFound \/ Report
           \/ \E e \in Entities, old \in Domains, new \in Domains : Move(e, old, new)
  <2>1. pc' \notin {"up", "down"}
    BY <1>6 DEF RegisterFirst, Started, Register, Registered, Unregister, Unregistered,
                NotFound, Report, Move
  <2>. QED BY <2>1 DEF PathOK
<1>. QED BY <1>1, <1>2, <1>3, <1>4, <1>5, <1>6 DEF Next, Step

\* Only climbs and descents move a lookup to a domain.
LEMMA WhoMoves ==
  ASSUME Inv, [Next]_vars, LookingUp, current' # current, current' \in path
  PROVE  Climb \/ Follow
<1>1. pc \in {"up", "down", "found", "not found"} /\ None \notin path
  BY ParentFacts DEF LookingUp, Inv, TypeOK
<1>. QED BY <1>1 DEF Next, Step, vars, locals, data, RegisterFirst, Started, Register,
       Registered, Unregister, Unregistered, Lookup, Move, EndOfPointers, NotFound, Report

\* Whatever moves came before it, a lookup comes back to a domain only where the
\* entity is, or to its first domain, whose own pointer it did not look at.
THEOREM LookupsMakeNoDetour == Spec => NoDetour
<1>. DEFINE A == LookingUp /\ current' # current /\ current' \in path
                 => \/ Stored(entity, current')
                    \/ current' = target /\ pointers[target][entity] # None
<1>1. Init => PathOK
  BY DEF Init, PathOK
<1>2. Inv /\ PathOK /\ [Next]_vars => PathOK'
  BY PathInv
<1>3. Inv /\ PathOK /\ [Next]_vars => [A]_vars
  <2>. SUFFICES ASSUME Inv, PathOK, [Next]_vars, LookingUp,
                       current' # current, current' \in path
                PROVE  \/ Stored(entity, current')
                       \/ current' = target /\ HasPointer(entity, target)
    BY DEF HasPointer
  <2>1. CASE Climb
    <3>1. /\ pc = "up" /\ current \in Domains \ {ROOT} /\ current' = parent_of[current]
          /\ current' \in Domains
      BY <2>1, ParentFacts DEF Climb, Inv, LocalsOK
    <3>2. current \in Above(parent_of[current])
      BY <3>1 DEF PathOK
    <3>. QED BY <3>1, <3>2, NoCycle DEF ProperlyAbove
  <2>2. CASE Follow
    <3>. PICK c : c = current'
      OBVIOUS
    <3>1. /\ c \in Domains \ {ROOT} /\ parent_of[c] = current
          /\ Stored(entity, c) \/ HasPointer(entity, c)
      BY <2>2, FollowFacts
    <3>2. c \notin Above(current)
      BY <3>1, NoCycle DEF ProperlyAbove
    <3>. QED BY <2>2, <3>1, <3>2 DEF PathOK, Follow
  <2>. QED BY <2>1, <2>2, WhoMoves
<1>. QED BY <1>1, <1>2, <1>3, Invariance, PTL DEF Spec, NoDetour

-----------------------------------------------------------------------------
(* Refinement *)

\* The domain that holds e when f says what each domain holds.
At(f, e) ==
  IF \E d \in Domains : e \in f[d] THEN CHOOSE d \in Domains : e \in f[d] ELSE None

LEMMA AtFacts ==
  ASSUME NEW f, NEW e, \A c, d \in Domains : e \in f[c] /\ e \in f[d] => c = d
  PROVE  /\ At(f, e) \in Domains \union {None}
         /\ \A d \in Domains : At(f, e) = d <=> e \in f[d]
<1>1. CASE \E d \in Domains : e \in f[d]
  BY <1>1 DEF At
<1>2. CASE ~\E d \in Domains : e \in f[d]
  BY <1>2, ParentFacts DEF At
<1>. QED BY <1>1, <1>2

LEMMA WhereFacts ==
  ASSUME NEW e
  PROVE  /\ Where(e) = IF pc = "unregister" /\ e = entity THEN target ELSE At(entities, e)
         /\ Where(e)' = IF pc' = "unregister" /\ e = entity' THEN target' ELSE At(entities', e)
  BY Zenon DEF Where, At, Stored

\* The steps that are not seen from outside, and the answers: no entity is moved.
LEMMA NothingMoves ==
  ASSUME Inv, UNCHANGED entities, pc # "unregister", pc' # "unregister", NEW e
  PROVE  Where(e)' = Where(e)
  BY WhereFacts

LEMMA AppendToPair ==
  ASSUME NEW a, NEW b, NEW c
  PROVE  Len(<<a, b>>) = 2 /\ Append(<<a, b>>, c) = <<a, b, c>>
<1>. PICK s, t : s = <<a, b>> /\ t = Append(s, c)
  OBVIOUS
<1>1. s \in Seq({a, b, c}) /\ Len(s) = 2 /\ s[1] = a /\ s[2] = b
  OBVIOUS
<1>2. t \in Seq({a, b, c}) /\ Len(t) = 3 /\ t[1] = a /\ t[2] = b /\ t[3] = c
  BY <1>1
<1>3. /\ <<a, b, c>> \in Seq({a, b, c}) /\ Len(<<a, b, c>>) = 3
      /\ \A i \in 1..3 : t[i] = <<a, b, c>>[i]
  BY <1>2
<1>4. t = <<a, b, c>>
  BY <1>2, <1>3, SeqEqual
<1>. QED BY <1>1, <1>4

\* A lookup that ends at the top has an entity that is nowhere or that it may miss.
LEMMA MissFacts ==
  ASSUME Inv, NotFound
  PROVE  Where(entity) = None \/ ROOT \in {Where(entity), target}
<1>. PICK e : e = entity
  OBVIOUS
<1>1. e \in Entities /\ current = ROOT /\ pc = "up"
  BY DEF Inv, LocalsOK, NotFound
<1>2. SUFFICES ASSUME target # ROOT PROVE Where(e) \in {None, ROOT}
  OBVIOUS
<1>3. \A d \in Domains \ {ROOT} : ~Stored(e, d)
  BY <1>1, <1>2, IdleExact, NothingStored DEF Inv, UpOK
<1>4. Where(e) = At(entities, e)
  BY <1>1, WhereFacts
<1>. QED BY <1>1, <1>3, <1>4, AtFacts DEF Inv, TypeOK, Stored

\* Every walk of the pointers is, seen from outside, one change or one answer.
LEMMA StepImplements ==
  ASSUME Inv, Inv', PathOK, [Next]_vars
  PROVE  [L!LocatorNext]_(L!locatorVars)
<1>. DEFINE w == [e \in Entities |-> Where(e)]
<1>1. ASSUME \A e \in Entities : Where(e)' = Where(e)
      PROVE  w' = w
  BY <1>1
<1>2. ASSUME NEW e \in Entities, NEW d \in Domains, Lookup(e, d)
      PROVE  L!Ask(e, d) \/ L!AskHere(e, d)
  <2>1. /\ pc = "idle" /\ entity' = e /\ current' = d /\ target' = d
        /\ entities' = entities
        /\ pc' = IF Stored(e, d) THEN "found" ELSE "up"
    BY <1>2 DEF Lookup, data
  <2>2. w' = w
    BY <1>1, <2>1, NothingMoves
  <2>3. Asked = <<>>
    BY <2>1 DEF Asked
  <2>4. CASE Stored(e, d)
    <3>1. Asked' = <<e, d, d>>
      BY <2>1, <2>4 DEF Asked
    <3>2. w[e] = d
      BY <2>1, <2>4, WhereFacts, AtFacts DEF Inv, TypeOK, Stored
    <3>. QED BY <2>2, <2>3, <3>1, <3>2 DEF L!AskHere
  <2>5. CASE ~Stored(e, d)
    <3>1. Asked' = <<e, d>>
      BY <2>1, <2>5 DEF Asked
    <3>. QED BY <2>2, <2>3, <3>1 DEF L!Ask
  <2>. QED BY <2>4, <2>5
<1>3. ASSUME NEW e \in Entities, NEW old \in Domains, NEW new \in Domains, Move(e, old, new)
      PROVE  L!Relocate(e, new)
  <2>1. /\ pc = "idle" /\ pc' = "unregister" /\ entity' = e /\ target' = new
        /\ Stored(e, old)
        /\ entities' = [entities EXCEPT ![old] = PoppedFrom(old, e)]
    BY <1>3 DEF Move
  <2>2. Asked = <<>> /\ Asked' = <<>>
    BY <2>1 DEF Asked
  <2>3. w[e] = old /\ old # None
    BY <2>1, WhereFacts, AtFacts, ParentFacts DEF Inv, TypeOK, Stored
  <2>4. ASSUME NEW f \in Entities, f # e
        PROVE  Where(f)' = Where(f)
    <3>1. /\ Where(f) = At(entities, f)
          /\ Where(f)' = At(entities', f)
      BY <2>1, <2>4, WhereFacts
    <3>2. \A d \in Domains : f \in entities'[d] <=> f \in entities[d]
      BY <2>1, <2>4 DEF Inv, TypeOK, PoppedFrom
    <3>3. \A c, d \in Domains : f \in entities[c] /\ f \in entities[d] => c = d
      BY DEF Inv, TypeOK, Stored
    <3>4. At(entities', f) = At(entities, f)
      BY <3>2, <3>3, AtFacts
    <3>. QED BY <3>1, <3>4
  <2>5. Where(e)' = new
    BY <2>1, WhereFacts
  <2>6. w' = [w EXCEPT ![e] = new]
    BY <2>4, <2>5
  <2>. QED BY <2>2, <2>3, <2>6 DEF L!Relocate
<1>4. CASE Unregistered
  <2>1. /\ pc = "unregister" /\ pc' = "register" /\ entity' = entity /\ target' = target
        /\ entities' = [entities EXCEPT ![target] = @ \union {entity}]
        /\ entity \in Entities /\ target \in Domains
    BY <1>4 DEF Unregistered, Inv, LocalsOK
  <2>2. Asked = <<>> /\ Asked' = <<>>
    BY <2>1 DEF Asked
  <2>3. ASSUME NEW f \in Entities
        PROVE  Where(f)' = Where(f)
    <3>1. Where(f)' = At(entities', f)
      BY <2>1, WhereFacts
    <3>2. \A c, d \in Domains : f \in entities'[c] /\ f \in entities'[d] => c = d
      BY DEF Inv, TypeOK, Stored
    <3>3. CASE f = entity
      <4>1. Where(f) = target
        BY <2>1, <3>3, WhereFacts
      <4>2. f \in entities'[target]
        BY <2>1, <3>3 DEF Inv, TypeOK
      <4>. QED BY <2>1, <3>1, <3>2, <4>1, <4>2, AtFacts
    <3>4. CASE f # entity
      <4>1. Where(f) = At(entities, f)
        BY <2>1, <3>4, WhereFacts
      <4>2. \A d \in Domains : f \in entities'[d] <=> f \in entities[d]
        BY <2>1, <3>4 DEF Inv, TypeOK
      <4>3. At(entities', f) = At(entities, f)
        BY <3>2, <4>2, AtFacts
      <4>. QED BY <3>1, <4>1, <4>3
    <3>. QED BY <3>3, <3>4
  <2>. QED BY <1>1, <2>2, <2>3 DEF L!locatorVars
<1>5. CASE Unregister
  <2>1. /\ pc = "unregister" /\ pc' = pc /\ entity' = entity /\ target' = target
        /\ entities' = entities
    BY <1>5 DEF Unregister
  <2>2. Asked = <<>> /\ Asked' = <<>>
    BY <2>1 DEF Asked
  <2>3. w' = w
    BY <1>1, <2>1, WhereFacts
  <2>. QED BY <2>2, <2>3 DEF L!locatorVars
<1>6. CASE \/ \E e \in Entities : RegisterFirst(e)
           \/ Started \/ Register \/ Registered
  <2>1. /\ pc \in {"start", "register"} /\ pc' \in {"start", "register", "idle"}
        /\ entities' = entities
    BY <1>6 DEF RegisterFirst, Started, Register, Registered, data
  <2>2. Asked = <<>> /\ Asked' = <<>>
    BY <2>1 DEF Asked
  <2>. QED BY <1>1, <2>1, <2>2, NothingMoves DEF L!locatorVars
<1>7. CASE Climb \/ Follow
  <2>1. /\ pc \in {"up", "down"} /\ pc' \in {"up", "down"}
        /\ entities' = entities /\ entity' = entity /\ target' = target
    BY <1>7 DEF Climb, Follow, AfterClimb, data
  <2>2. Asked' = Asked
    BY <2>1 DEF Asked
  <2>. QED BY <1>1, <2>1, <2>2, NothingMoves DEF L!locatorVars
<1>8. ASSUME EndOfPointers PROVE L!Answer
  <2>1. /\ pc = "down" /\ pc' = "found" /\ Stored(entity, current)
        /\ entity \in Entities /\ current \in Domains /\ target \in Domains
        /\ entity' = entity /\ target' = target /\ current' = current /\ entities' = entities
    BY <1>8 DEF EndOfPointers, PathOK, HasPointer, data, Inv, LocalsOK
  <2>2. Asked = <<entity, target>> /\ Asked' = <<entity, target, current>>
    BY <2>1 DEF Asked
  <2>3. w[entity] = current /\ current # None
    BY <2>1, WhereFacts, AtFacts, ParentFacts DEF Inv, TypeOK, Stored
  <2>4. w' = w
    BY <1>1, <2>1, NothingMoves
  <2>5. Len(Asked) = 2 /\ Append(Asked, current) = <<entity, target, current>>
    BY <2>2, AppendToPair
  <2>. QED BY <2>2, <2>3, <2>4, <2>5 DEF L!Answer
<1>9. ASSUME NotFound PROVE L!Miss
  <2>1. /\ pc = "up" /\ pc' = "not found" /\ entity \in Entities
        /\ entity' = entity /\ target' = target /\ entities' = entities
    BY <1>9 DEF NotFound, data, Inv, LocalsOK
  <2>2. Asked = <<entity, target>> /\ Asked' = <<entity, target, None>>
    BY <2>1 DEF Asked
  <2>3. w[entity] = None \/ ROOT \in {w[entity], target}
    BY <1>9, <2>1, MissFacts
  <2>4. w' = w
    BY <1>1, <2>1, NothingMoves
  <2>5. Len(Asked) = 2 /\ Append(Asked, None) = <<entity, target, None>>
    BY <2>2, AppendToPair
  <2>. QED BY <2>2, <2>3, <2>4, <2>5 DEF L!Miss
<1>10. ASSUME Report PROVE L!Forget
  <2>1. pc \in {"found", "not found"} /\ pc' = "idle" /\ entities' = entities
    BY <1>10 DEF Report, data
  <2>2. Len(Asked) = 3 /\ Asked' = <<>>
    BY <2>1 DEF Asked
  <2>. QED BY <1>1, <2>1, <2>2, NothingMoves DEF L!Forget
<1>11. CASE UNCHANGED vars
  <2>1. Asked' = Asked
    BY <1>11 DEF vars, data, locals, Asked
  <2>2. w' = w
    BY <1>1, <1>11, WhereFacts DEF vars, data, locals
  <2>. QED BY <2>1, <2>2 DEF L!locatorVars
<1>. QED BY <1>2, <1>3, <1>4, <1>5, <1>6, <1>7, <1>8, <1>9, <1>10, <1>11
       DEF Next, Step, L!LocatorNext

\* The walks of move_entity, unregister, register and lookup implement a service that
\* moves an entity in one step and answers with where it is.
THEOREM Implementation == Spec => ImplementsLocator
<1>1. Init => L!LocatorInit
  <2>. SUFFICES ASSUME Init PROVE L!LocatorInit
    OBVIOUS
  <2>1. Inv /\ pc = "start"
    BY InitInv DEF Init
  <2>2. \A e \in Entities : Where(e) \in Domains \union {None}
    BY <2>1, WhereFacts, AtFacts DEF Inv, TypeOK, Stored
  <2>3. Asked = <<>>
    BY <2>1 DEF Asked
  <2>. QED BY <2>2, <2>3 DEF L!LocatorInit
<1>2. Init => PathOK
  BY DEF Init, PathOK
<1>3. Inv /\ PathOK /\ [Next]_vars => PathOK'
  BY PathInv
<1>4. Inv /\ Inv' /\ PathOK /\ [Next]_vars => [L!LocatorNext]_(L!locatorVars)
  BY StepImplements
<1>. QED BY <1>1, <1>2, <1>3, <1>4, Invariance, PTL DEF Spec, ImplementsLocator, L!LocatorSpec
=============================================================================

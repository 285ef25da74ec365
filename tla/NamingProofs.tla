---------------------------- MODULE NamingProofs ----------------------------
(***************************************************************************)
(* The two ways of workshop 3 to find something by its name: the service   *)
(* directory keeps the names of running services, and a lookup on a Chord  *)
(* ring ends at the owner of the key.  The two share no state.             *)
(*                                                                         *)
(* Directory.  Both properties are about entries only, and inductive       *)
(* together with the types once it is known that whoever runs has an       *)
(* address to register.                                                    *)
(*                                                                         *)
(* Chord.  Everything is measured by Ahead, the steps clockwise from a     *)
(* node to the next occurrence of a position.  What the finger tables hold *)
(* is a statement about powers of two, and the farthest finger before the  *)
(* key is a greatest number: both need induction, which is derived below   *)
(* from the library's theorem that the natural numbers are well-founded.   *)
(***************************************************************************)
EXTENDS Directory, Chord, WellFoundedInduction, TLAPS

-----------------------------------------------------------------------------
(* DIRECTORY *)


\* The arguments of the programs.
GivenOK ==
  /\ ldap \in BOOLEAN /\ service \in Offers
  /\ wanted \in [Subscribers -> SUBSET Services]

\* A publisher that runs has an address, and with a directory one it registers;
\* only then does it register at all.
RunningOK ==
  \A p \in Publishers :
    /\ pub[p] \in {"add", "delete", "add again"} => ldap
    /\ pub[p] # "off" => addr[p] \in Addresses /\ (ldap => listed[p] \in Listable)

\* The parts of TypeOK that concern the directory, and those of the connections.
EntriesOK ==
  /\ directory \in [Services -> Listable \union {None}]
  /\ orphaned \subseteq known /\ known \subseteq Services

PublishersOK ==
  /\ pub \in [Publishers -> {"off", "add", "delete", "add again", "bind", "publish"}]
  /\ addr \in [Publishers -> Addresses \union {None}]
  /\ bound \in [Publishers -> SUBSET Listable]
  /\ listed \in [Publishers -> Listable \union {None}]
  /\ starts \in [Publishers -> 0..MaxStarts]
  /\ \A p, q \in Publishers :
       pub[p] = "publish" /\ pub[q] = "publish" /\ Collide(p, q) => p = q

SubscribersOK ==
  /\ sub \in [Subscribers -> {"resolve", "connect", "listen", "failed", "stopped"}]
  /\ resolved \in [Subscribers -> SUBSET Services]
  /\ targets \in [Subscribers -> SUBSET Listable]

TrafficOK ==
  /\ links \subseteq Links
  /\ \A l \in links : sub[l[1]] = "listen" /\ pub[l[2]] = "publish"
  /\ queued \in [Links -> 0..HWM]
  /\ \A l \in Links : queued[l] > 0 => l \in links
  /\ heard \in [Subscribers -> SUBSET Publishers]

\* A name is known when it is listed, or deleted to be added again.
KnownOK ==
  /\ \A v \in Services : directory[v] # None => v \in known
  /\ \A p \in Publishers : pub[p] = "add again" => service[p] \in known

Inv ==
  /\ GivenOK /\ RunningOK /\ KnownOK
  /\ EntriesOK /\ PublishersOK /\ SubscribersOK /\ TrafficOK
  /\ SoleProviderListed /\ MissingOnlyMidway

-----------------------------------------------------------------------------
LEMMA ServiceFacts ==
  ASSUME GivenOK
  PROVE  /\ \A p \in Publishers : service[p] \in Services
         /\ None \notin Listable
         /\ MaxStarts \in Nat \ {0} /\ HWM \in Nat \ {0}
<1>1. \A p \in Publishers : service[p] \in Services
  BY DEF GivenOK, Services
<1>2. None \notin Listable
  BY DirectoryAssumption DEF Listable
<1>. QED BY <1>1, <1>2, DirectoryAssumption

LEMMA InitInv == ASSUME Init PROVE Inv
<1>. USE DEF Init
<1>1. GivenOK /\ RunningOK
  BY DEF GivenOK, RunningOK
<1>2. EntriesOK /\ PublishersOK
  BY <1>1, ServiceFacts DEF EntriesOK, PublishersOK
<1>3. SubscribersOK
  BY DEF SubscribersOK
<1>4. TrafficOK
  BY <1>1, ServiceFacts DEF TrafficOK
<1>5. SoleProviderListed /\ MissingOnlyMidway /\ KnownOK
  BY DEF SoleProviderListed, MissingOnlyMidway, KnownOK
<1>. QED BY <1>1, <1>2, <1>3, <1>4, <1>5 DEF Inv

-----------------------------------------------------------------------------
(* Publishers *)

LEMMA StartInv ==
  ASSUME Inv, NEW p \in Publishers, Start(p)
  PROVE  Inv'
<1>. USE DEF Inv
<1>1. PICK a \in Addresses, b \in SUBSET Listable, l \in Listable :
        /\ addr' = [addr EXCEPT ![p] = a] /\ bound' = [bound EXCEPT ![p] = b]
        /\ listed' = [listed EXCEPT ![p] = IF ldap THEN l ELSE None]
  <2>1. PICK a \in Addresses : \E b \in Bindings(a) : \E l \in Published(b) :
          /\ addr' = [addr EXCEPT ![p] = a] /\ bound' = [bound EXCEPT ![p] = b]
          /\ listed' = [listed EXCEPT ![p] = IF ldap THEN l ELSE None]
    BY DEF Start
  <2>2. \A b \in Bindings(a) : b \in SUBSET Listable
    BY DEF Bindings, Listable
  <2>3. \A b \in SUBSET Listable : \A l \in Published(b) : l \in Listable
    BY DEF Published
  <2>. QED BY <2>1, <2>2, <2>3
<1>2. PICK n \in {"add", "bind"} :
        pub' = [pub EXCEPT ![p] = n] /\ (n = "bind" => ~ldap) /\ (n = "add" => ldap)
  BY Zenon DEF Start, GivenOK
<1>3. /\ pub[p] = "off" /\ starts[p] < MaxStarts
      /\ starts' = [starts EXCEPT ![p] = @ + 1]
      /\ UNCHANGED <<subscribers, traffic, entries, given>>
  BY DEF Start
<1>4. GivenOK' /\ EntriesOK' /\ SubscribersOK'
  BY <1>3 DEF GivenOK, EntriesOK, SubscribersOK, subscribers, entries, given
<1>5. RunningOK'
  BY <1>1, <1>2, <1>3 DEF RunningOK, PublishersOK, given
<1>6. PublishersOK'
  <2>1. pub' \in [Publishers -> {"off", "add", "delete", "add again", "bind", "publish"}]
    BY <1>2 DEF PublishersOK
  <2>2. /\ addr' \in [Publishers -> Addresses \union {None}]
        /\ listed' \in [Publishers -> Listable \union {None}]
        /\ bound' \in [Publishers -> SUBSET Listable]
    BY <1>1 DEF PublishersOK
  <2>3. starts' \in [Publishers -> 0..MaxStarts]
    <3>1. MaxStarts \in Nat /\ starts \in [Publishers -> 0..MaxStarts]
      BY ServiceFacts DEF PublishersOK
    <3>2. starts[p] + 1 \in 0..MaxStarts
      BY <1>3, <3>1
    <3>. QED BY <1>3, <3>1, <3>2
  <2>4. \A q \in Publishers : pub'[q] = "publish" =>
          pub[q] = "publish" /\ addr'[q] = addr[q] /\ bound'[q] = bound[q]
    BY <1>1, <1>2, <1>3 DEF PublishersOK
  <2>5. \A q, r \in Publishers :
          pub'[q] = "publish" /\ pub'[r] = "publish" /\ Collide(q, r)' => q = r
    BY <2>4 DEF PublishersOK, Collide
  <2>. QED BY <2>1, <2>2, <2>3, <2>5 DEF PublishersOK
<1>7. TrafficOK'
  BY <1>2, <1>3 DEF TrafficOK, PublishersOK, Links, subscribers, traffic
<1>8. SoleProviderListed'
  BY <1>1, <1>2, <1>3 DEF SoleProviderListed, PublishersOK, entries, given
<1>9. MissingOnlyMidway' /\ KnownOK'
  BY <1>2, <1>3 DEF MissingOnlyMidway, PublishersOK, KnownOK, entries, given
<1>. QED BY <1>4, <1>5, <1>6, <1>7, <1>8, <1>9

\* An add_s that succeeds.
LEMMA RegisterInv ==
  ASSUME Inv, NEW p \in Publishers, pub[p] \in {"add", "add again"}, Register(p),
         pub' = [pub EXCEPT ![p] = "bind"],
         UNCHANGED <<addr, bound, listed, starts, subscribers, traffic, given>>
  PROVE  Inv'
<1>. USE DEF Inv, Register, subscribers, traffic, given
<1>1. GivenOK' /\ SubscribersOK'
  BY DEF GivenOK, SubscribersOK
<1>2. RunningOK' /\ PublishersOK'
  BY DEF RunningOK, PublishersOK, Collide
<1>3. service[p] \in Services /\ listed[p] \in Listable /\ listed[p] # None
  BY ServiceFacts DEF RunningOK
<1>4. EntriesOK'
  BY <1>3 DEF EntriesOK
<1>5. TrafficOK'
  BY DEF TrafficOK, PublishersOK, Links
<1>6. SoleProviderListed'
  <2>1. SUFFICES ASSUME ldap', NEW q \in Publishers, pub'[q] \in {"bind", "publish"},
                        \A r \in Publishers \ {q} : service'[r] # service'[q]
                 PROVE  directory'[service'[q]] = listed'[q]
    BY DEF SoleProviderListed
  <2>2. CASE q = p
    BY <2>2, <1>3 DEF EntriesOK
  <2>3. CASE q # p
    BY <2>1, <2>3, ServiceFacts DEF SoleProviderListed, PublishersOK, EntriesOK
  <2>. QED BY <2>2, <2>3
<1>7. MissingOnlyMidway'
  <2>1. SUFFICES ASSUME NEW v \in known', directory'[v] = None
                 PROVE  \/ \E q \in Publishers : service[q] = v /\ pub'[q] = "add again"
                        \/ v \in orphaned'
    BY DEF MissingOnlyMidway
  <2>2. v # service[p] /\ v \in known /\ directory[v] = None
    BY <2>1, <1>3 DEF EntriesOK
  <2>. QED BY <2>2 DEF MissingOnlyMidway, PublishersOK
<1>8. KnownOK'
  BY <1>3 DEF KnownOK, PublishersOK, EntriesOK
<1>. QED BY <1>1, <1>2, <1>4, <1>5, <1>6, <1>7, <1>8

\* A publisher goes to another call without touching the directory.
LEMMA GoOnInv ==
  ASSUME Inv, NEW p \in Publishers, NEW next,
         \/ pub[p] = "add" /\ next = "delete"
         \/ /\ pub[p] = "bind" /\ next = "publish"
            /\ \A q \in Publishers : pub[q] = "publish" => ~Collide(p, q),
         pub' = [pub EXCEPT ![p] = next],
         UNCHANGED <<addr, bound, listed, starts, subscribers, traffic, entries, given>>
  PROVE  Inv'
<1>. USE DEF Inv, subscribers, traffic, given, entries
<1>1. GivenOK' /\ SubscribersOK' /\ EntriesOK'
  BY DEF GivenOK, SubscribersOK, EntriesOK
<1>2. RunningOK' /\ PublishersOK'
  BY DEF RunningOK, PublishersOK, Collide
<1>3. TrafficOK'
  BY DEF TrafficOK, PublishersOK, Links
<1>4. MissingOnlyMidway' /\ KnownOK'
  BY DEF MissingOnlyMidway, KnownOK, PublishersOK
<1>5. SoleProviderListed'
  BY DEF SoleProviderListed, PublishersOK
<1>. QED BY <1>1, <1>2, <1>3, <1>4, <1>5

\* What the end of a process leaves behind.
LEMMA EndFacts ==
  ASSUME Inv, NEW p \in Publishers, End(p)
  PROVE  /\ GivenOK' /\ RunningOK' /\ PublishersOK' /\ SubscribersOK' /\ TrafficOK'
         /\ pub' = [pub EXCEPT ![p] = "off"] /\ service' = service
         /\ directory' = directory => SoleProviderListed'
<1>. USE DEF Inv, End, subscribers, given
<1>1. GivenOK' /\ SubscribersOK'
  BY DEF GivenOK, SubscribersOK
<1>2. RunningOK' /\ PublishersOK'
  BY DEF RunningOK, PublishersOK, Collide
<1>3. TrafficOK'
  <2>1. /\ links' \subseteq links
        /\ \A l \in links' : l[2] # p
        /\ \A l \in Links : l[2] # p /\ l \in links => l \in links'
    OBVIOUS
  <2>2. /\ queued' \in [Links -> 0..HWM]
        /\ \A l \in Links : queued'[l] > 0 => queued[l] > 0 /\ l[2] # p
    BY ServiceFacts DEF TrafficOK
  <2>3. heard' \in [Subscribers -> SUBSET Publishers]
    BY DEF TrafficOK
  <2>4. \A l \in links' : sub'[l[1]] = "listen" /\ pub'[l[2]] = "publish"
    BY <2>1 DEF TrafficOK, PublishersOK, Links
  <2>. QED BY <2>1, <2>2, <2>3, <2>4 DEF TrafficOK
<1>4. ASSUME directory' = directory
      PROVE  SoleProviderListed'
  BY <1>4 DEF SoleProviderListed, PublishersOK
<1>. QED BY <1>1, <1>2, <1>3, <1>4

\* A program that ends with an exception leaves the directory as it is; it is
\* not the one that has just deleted a name.
LEMMA FailInv ==
  ASSUME Inv, NEW p \in Publishers, End(p), UNCHANGED entries,
         pub[p] = "add again" => directory[service[p]] # None
  PROVE  Inv'
<1>1. EntriesOK'
  BY DEF Inv, EntriesOK, entries
<1>2. /\ directory' = directory /\ known' = known /\ orphaned' = orphaned
      /\ service' = service /\ \A q \in Publishers \ {p} : pub'[q] = pub[q]
      /\ pub'[p] = "off"
  BY EndFacts DEF Inv, PublishersOK, entries
<1>3. MissingOnlyMidway'
  BY <1>2 DEF Inv, MissingOnlyMidway
<1>4. KnownOK'
  BY <1>2 DEF Inv, KnownOK
<1>. QED BY <1>1, <1>3, <1>4, EndFacts DEF Inv, entries

LEMMA DieInv ==
  ASSUME Inv, NEW p \in Publishers, Die(p)
  PROVE  Inv'
<1>. USE DEF Inv, Die, DirectoryAfterEnd
<1>1. /\ GivenOK' /\ RunningOK' /\ PublishersOK' /\ SubscribersOK' /\ TrafficOK'
      /\ SoleProviderListed'
      /\ pub' = [pub EXCEPT ![p] = "off"] /\ service' = service
      /\ directory' = directory /\ known' = known
  BY EndFacts
<1>2. EntriesOK'
  BY <1>1 DEF EntriesOK, KnownOK
<1>3. KnownOK'
  BY <1>1 DEF KnownOK, PublishersOK
<1>4. MissingOnlyMidway'
  BY <1>1 DEF MissingOnlyMidway, PublishersOK
<1>. QED BY <1>1, <1>2, <1>3, <1>4

LEMMA DeleteInv ==
  ASSUME Inv, NEW p \in Publishers, Delete(p)
  PROVE  Inv'
<1>. USE DEF Inv
<1>1. CASE directory[service[p]] = None
  BY <1>1, FailInv DEF Delete
<1>2. CASE directory[service[p]] # None
  <2>1. service[p] \in Services /\ service[p] \in known
    BY <1>2, ServiceFacts DEF KnownOK
  <2>2. /\ pub[p] = "delete" /\ pub' = [pub EXCEPT ![p] = "add again"]
        /\ directory' = [directory EXCEPT ![service[p]] = None]
        /\ UNCHANGED <<known, orphaned, addr, bound, listed, starts, subscribers, traffic, given>>
    BY <1>2 DEF Delete
  <2>. USE <2>2 DEF subscribers, traffic, given
  <2>3. GivenOK' /\ SubscribersOK'
    BY DEF GivenOK, SubscribersOK
  <2>4. RunningOK' /\ PublishersOK'
    <3>1. RunningOK'
      BY DEF RunningOK, PublishersOK
    <3>2. PublishersOK'
      BY DEF PublishersOK, Collide
    <3>. QED BY <3>1, <3>2
  <2>5. EntriesOK' /\ KnownOK'
    BY <2>1 DEF EntriesOK, KnownOK, PublishersOK
  <2>6. TrafficOK'
    BY DEF TrafficOK, PublishersOK, Links
  <2>7. SoleProviderListed'
    <3>1. SUFFICES ASSUME ldap', NEW q \in Publishers, pub'[q] \in {"bind", "publish"},
                          \A r \in Publishers \ {q} : service'[r] # service'[q]
                   PROVE  directory'[service'[q]] = listed'[q]
      BY DEF SoleProviderListed
    <3>2. q # p /\ pub[q] \in {"bind", "publish"} /\ service[p] # service[q]
      BY <3>1 DEF PublishersOK
    <3>. QED BY <3>1, <3>2, ServiceFacts DEF SoleProviderListed, EntriesOK
  <2>8. MissingOnlyMidway'
    <3>1. SUFFICES ASSUME NEW v \in known, directory'[v] = None
                   PROVE  \/ \E q \in Publishers : service[q] = v /\ pub'[q] = "add again"
                          \/ v \in orphaned
      BY DEF MissingOnlyMidway
    <3>2. CASE v = service[p]
      BY <3>2 DEF PublishersOK
    <3>3. CASE v # service[p]
      BY <3>1, <3>3 DEF MissingOnlyMidway, PublishersOK, EntriesOK
    <3>. QED BY <3>2, <3>3
  <2>. QED BY <2>3, <2>4, <2>5, <2>6, <2>7, <2>8
<1>. QED BY <1>1, <1>2

LEMMA PublishingInv ==
  ASSUME Inv, NEW p \in Publishers, Publishing(p)
  PROVE  Inv'
<1>1. CASE Add(p)
  <2>1. CASE CanAdd(p)
    BY <1>1, <2>1, RegisterInv DEF Add
  <2>2. CASE ~CanAdd(p)
    BY <1>1, <2>2, GoOnInv DEF Add, WhenListed
  <2>. QED BY <2>1, <2>2
<1>2. CASE Delete(p)
  BY <1>2, DeleteInv
<1>3. CASE AddAgain(p)
  <2>1. CASE CanAdd(p)
    BY <1>3, <2>1, RegisterInv DEF AddAgain
  <2>2. CASE ~CanAdd(p)
    BY <1>3, <2>2, FailInv DEF AddAgain, CanAdd
  <2>. QED BY <2>1, <2>2
<1>4. CASE Bind(p)
  <2>1. CASE \E q \in Publishers : pub[q] = "publish" /\ Collide(p, q)
    BY <1>4, <2>1, FailInv DEF Bind
  <2>2. CASE ~\E q \in Publishers : pub[q] = "publish" /\ Collide(p, q)
    BY <1>4, <2>2, GoOnInv DEF Bind
  <2>. QED BY <2>1, <2>2
<1>5. CASE Publish(p)
  <2>. USE <1>5 DEF Inv, Publish, publishers, subscribers, entries, given
  <2>1. /\ GivenOK' /\ RunningOK' /\ EntriesOK' /\ PublishersOK' /\ SubscribersOK'
        /\ KnownOK' /\ SoleProviderListed' /\ MissingOnlyMidway'
    BY DEF GivenOK, RunningOK, EntriesOK, PublishersOK, Collide, SubscribersOK,
           KnownOK, SoleProviderListed, MissingOnlyMidway
  <2>2. TrafficOK'
    BY ServiceFacts DEF TrafficOK
  <2>. QED BY <2>1, <2>2
<1>. QED BY <1>1, <1>2, <1>3, <1>4, <1>5 DEF Publishing

-----------------------------------------------------------------------------
(* Subscribers *)

\* What subscribers and ZeroMQ do concerns no entry and no publisher.
LEMMA ListeningInv ==
  ASSUME Inv, UNCHANGED <<publishers, entries, given>>, SubscribersOK', TrafficOK'
  PROVE  Inv'
  BY DEF Inv, GivenOK, RunningOK, EntriesOK, PublishersOK, Collide, KnownOK,
         SoleProviderListed, MissingOnlyMidway, publishers, entries, given

LEMMA SubscribingInv ==
  ASSUME Inv, NEW s \in Subscribers, Subscribing(s)
  PROVE  Inv'
<1>. USE DEF Inv, traffic, publishers
<1>1. CASE Connect(s)
  <2>1. SubscribersOK'
    BY <1>1 DEF Connect, SubscribersOK
  <2>2. TrafficOK'
    BY <1>1 DEF Connect, TrafficOK, SubscribersOK, Links
  <2>. QED BY <1>1, <2>1, <2>2, ListeningInv DEF Connect
<1>2. ASSUME NEW t \in wanted[s], Resolve(s, t)
      PROVE  Inv'
  <2>1. t \in Services
    BY DEF GivenOK
  <2>2. SubscribersOK'
    <3>1. CASE directory[t] = None
      BY <1>2, <3>1 DEF Resolve, Forget, SubscribersOK
    <3>2. CASE directory[t] # None
      <4>1. directory[t] \in Listable
        BY <2>1, <3>2 DEF EntriesOK
      <4>. QED BY <1>2, <2>1, <3>2, <4>1 DEF Resolve, SubscribersOK
    <3>. QED BY <3>1, <3>2
  <2>3. TrafficOK'
    BY <1>2 DEF Resolve, TrafficOK, SubscribersOK, Links
  <2>. QED BY <1>2, <2>2, <2>3, ListeningInv DEF Resolve
<1>. QED BY <1>1, <1>2 DEF Subscribing

LEMMA StopInv ==
  ASSUME Inv, NEW s \in Subscribers, Stop(s)
  PROVE  Inv'
<1>. USE DEF Inv, Stop, publishers
<1>1. SubscribersOK'
  BY DEF SubscribersOK, Forget
<1>2. queued' \in [Links -> 0..HWM]
      /\ \A l \in Links : queued'[l] > 0 => queued[l] > 0 /\ l[1] # s
  BY ServiceFacts DEF TrafficOK
<1>3. heard' \in [Subscribers -> SUBSET Publishers]
  BY DEF TrafficOK
<1>4. TrafficOK'
  BY <1>2, <1>3 DEF TrafficOK, SubscribersOK, Links
<1>. QED BY <1>1, <1>4, ListeningInv

LEMMA ConnectionInv ==
  ASSUME Inv, NEW s \in Subscribers, NEW p \in Publishers, Link(s, p) \/ Receive(s, p)
  PROVE  Inv'
<1>. USE DEF Inv, publishers, subscribers
<1>1. CASE Link(s, p)
  BY <1>1, ListeningInv DEF Link, SubscribersOK, TrafficOK, Links
<1>2. CASE Receive(s, p)
  <2>1. queued' \in [Links -> 0..HWM] /\ \A l \in Links : queued'[l] > 0 => queued[l] > 0
    BY <1>2, ServiceFacts DEF Receive, TrafficOK, Links
  <2>. QED BY <1>2, <2>1, ListeningInv DEF Receive, SubscribersOK, TrafficOK
<1>. QED BY <1>1, <1>2

-----------------------------------------------------------------------------
(* Theorems *)

LEMMA NextInv ==
  ASSUME Inv, [Next]_vars
  PROVE  Inv'
<1>1. CASE UNCHANGED vars
  <2>1. SubscribersOK' /\ TrafficOK'
    BY <1>1 DEF Inv, SubscribersOK, TrafficOK, vars, subscribers, publishers, traffic
  <2>. QED BY <1>1, <2>1, ListeningInv DEF vars
<1>2. CASE Next
  <2>1. ASSUME NEW p \in Publishers, Start(p) \/ Publishing(p) \/ Die(p)
        PROVE  Inv'
    BY <2>1, StartInv, PublishingInv, DieInv
  <2>2. ASSUME NEW s \in Subscribers, Subscribing(s)
        PROVE  Inv'
    BY <2>2, SubscribingInv
  <2>3. ASSUME NEW s \in Subscribers, Stop(s)
        PROVE  Inv'
    BY <2>3, StopInv
  <2>4. ASSUME NEW s \in Subscribers, NEW p \in Publishers, Link(s, p) \/ Receive(s, p)
        PROVE  Inv'
    BY <2>4, ConnectionInv
  <2>. QED BY <1>2, <2>1, <2>2, <2>3, <2>4 DEF Next
<1>. QED BY <1>1, <1>2

THEOREM Invariance == Spec => []Inv
<1>1. Init => Inv
  BY InitInv
<1>2. Inv /\ [Next]_vars => Inv'
  BY NextInv
<1>. QED BY <1>1, <1>2, PTL DEF Spec

\* The variables keep their types, no two publishers listen at one address, and
\* connections join programs that run.
THEOREM TypeCorrect == Spec => []TypeOK
<1>1. Inv => TypeOK
  BY DEF Inv, TypeOK, EntriesOK, PublishersOK, SubscribersOK, TrafficOK
<1>. QED BY <1>1, Invariance, PTL

\* registrar_servicio replaces whatever an earlier run left: the only publisher of
\* a service is listed where it is.
THEOREM SoleProviderAlwaysListed == Spec => []SoleProviderListed
<1>1. Inv => SoleProviderListed
  BY DEF Inv
<1>. QED BY <1>1, Invariance, PTL

\* However many publishers race in add_s, delete_s, add_s, a name is lost only when
\* one of them dies in between.
THEOREM NamesSurviveRaces == Spec => []MissingOnlyMidway
<1>1. Inv => MissingOnlyMidway
  BY DEF Inv
<1>. QED BY <1>1, Invariance, PTL

-----------------------------------------------------------------------------
(* CHORD *)
(* Induction and recursion over the natural numbers *)

\* Every set of natural numbers has a least one.
LEMMA LeastNumber == ASSUME NEW T \in SUBSET Nat, T # {} PROVE \E x \in T : \A y \in T : x <= y
<1>. DEFINE R == OpToRel(<, Nat)
<1>1. IsWellFoundedOn(R, Nat)
  BY NatLessThanWellFounded
<1>2. T \subseteq Nat
  OBVIOUS
<1>4. \A x, y \in Nat : y < x => <<y, x>> \in R
  BY Zenon DEF OpToRel
<1>. HIDE DEF R
<1>3. PICK x \in T : \A y \in T : ~ (<<y, x>> \in R)
  BY <1>1, <1>2, WFMin, Zenon
<1>5. \A y \in T : ~ (y < x)
  BY <1>2, <1>3, <1>4, Zenon
<1>6. \A y \in T : x <= y
  BY <1>2, <1>5, SMT
<1>. QED BY <1>6, Zenon

\* Induction, for a property given as the set of numbers that have it.
LEMMA Induction ==
  ASSUME NEW S \in SUBSET Nat, 0 \in S, \A n \in S : n + 1 \in S
  PROVE  S = Nat
<1>1. SUFFICES ASSUME Nat \ S # {} PROVE FALSE
  OBVIOUS
<1>2. PICK x \in Nat \ S : \A y \in Nat \ S : x <= y
  BY <1>1, LeastNumber
<1>3. x - 1 \in S
  BY <1>2
<1>. QED BY <1>2, <1>3

\* f starts at a, and each of its values follows from the one before.
Iterates(f, S, a, step) ==
  f \in [Nat -> S] /\ f[0] = a /\ \A i \in Nat : f[i + 1] = step[f[i]]

\* Recursion over the numbers defines a function.
LEMMA Recursion ==
  ASSUME NEW S, NEW a \in S, NEW step \in [S -> S]
  PROVE  \E f : Iterates(f, S, a, step)
<1>. DEFINE Upto(n) == {g \in [0..n -> S] : g[0] = a /\ \A i \in 0..(n - 1) : g[i + 1] = step[g[i]]}
            Good == {n \in Nat : Upto(n) # {}}
<1>1. Good = Nat
  <2>1. 0 \in Good
    <3>1. [i \in 0..0 |-> a] \in Upto(0)
      OBVIOUS
    <3>. QED BY <3>1
  <2>2. ASSUME NEW n \in Good
        PROVE  n + 1 \in Good
    <3>1. PICK g \in Upto(n) : TRUE
      OBVIOUS
    <3>. DEFINE h == [i \in 0..(n + 1) |-> IF i <= n THEN g[i] ELSE step[g[n]]]
    <3>2. h \in Upto(n + 1)
      BY <3>1
    <3>3. n + 1 \in Nat
      OBVIOUS
    <3>. HIDE DEF Upto, h
    <3>. QED BY <3>2, <3>3
  <2>. HIDE DEF Good
  <2>3. Good \in SUBSET Nat
    BY DEF Good
  <2>. QED BY <2>1, <2>2, <2>3, Induction
<1>2. ASSUME NEW n \in Nat, NEW m \in Nat, n <= m, NEW g \in Upto(n), NEW h \in Upto(m)
      PROVE  \A i \in 0..n : g[i] = h[i]
  <2>. DEFINE Agree == {i \in Nat : i <= n => g[i] = h[i]}
  <2>1. 0 \in Agree
    BY <1>2
  <2>2. \A i \in Agree : i + 1 \in Agree
    BY <1>2
  <2>. HIDE DEF Agree
  <2>3. Agree \in SUBSET Nat
    BY DEF Agree
  <2>4. Agree = Nat
    BY <2>1, <2>2, <2>3, Induction
  <2>5. \A i \in Nat : i <= n => g[i] = h[i]
    BY <2>4, Zenon DEF Agree
  <2>. QED BY <2>5
<1>. DEFINE G(n) == CHOOSE g : g \in Upto(n)
            f == [n \in Nat |-> G(n)[n]]
<1>3. \A n \in Nat : G(n) \in Upto(n)
  BY <1>1, Zenon
<1>4. f \in [Nat -> S] /\ f[0] = a
  <2>1. ASSUME NEW n \in Nat PROVE G(n)[n] \in S
    <3>1. G(n) \in Upto(n)
      BY <1>3
    <3>2. n \in 0..n
      OBVIOUS
    <3>. HIDE DEF G
    <3>. QED BY <3>1, <3>2
  <2>2. G(0)[0] = a
    BY <1>3
  <2>. HIDE DEF G
  <2>. QED BY <2>1, <2>2
<1>5. ASSUME NEW i \in Nat
      PROVE  f[i + 1] = step[f[i]]
  <2>1. i + 1 \in Nat /\ i \in 0..i /\ i \in 0..((i + 1) - 1) /\ i <= i + 1
    OBVIOUS
  <2>2. G(i) \in Upto(i) /\ G(i + 1) \in Upto(i + 1)
    BY <1>3, <2>1
  <2>3. G(i)[i] = G(i + 1)[i]
    <3>. HIDE DEF G, Upto
    <3>. QED BY <1>2, <2>1, <2>2
  <2>4. G(i + 1)[i + 1] = step[G(i + 1)[i]]
    <3>. HIDE DEF G
    <3>. QED BY <2>1, <2>2
  <2>5. f[i] = G(i)[i] /\ f[i + 1] = G(i + 1)[i + 1]
    <3>. HIDE DEF G
    <3>. QED BY <2>1
  <2>. QED BY <2>3, <2>4, <2>5
<1>6. Iterates(f, S, a, step)
  <2>. HIDE DEF f
  <2>. QED BY <1>4, <1>5 DEF Iterates
<1>. QED BY <1>6, Zenon

LEMMA PowerFacts ==
  /\ Power2[0] = 1
  /\ \A i \in Nat : Power2[i] \in Nat \ {0} /\ Power2[i + 1] = 2 * Power2[i]
<1>. DEFINE double == [x \in Nat \ {0} |-> 2 * x]
            Def(g) == [i \in Nat |-> IF i = 0 THEN 1 ELSE 2 * g[i - 1]]
<1>1. PICK f : Iterates(f, Nat \ {0}, 1, double)
  <2>1. double \in [Nat \ {0} -> Nat \ {0}] /\ 1 \in Nat \ {0}
    OBVIOUS
  <2>. HIDE DEF double
  <2>. QED BY <2>1, Recursion
<1>2. f = Def(f)
  <2>1. \A i \in Nat : f[i] = IF i = 0 THEN 1 ELSE 2 * f[i - 1]
    <3>1. ASSUME NEW i \in Nat, i # 0
          PROVE  f[i] = 2 * f[i - 1]
      <4>1. i - 1 \in Nat /\ (i - 1) + 1 = i
        BY <3>1
      <4>2. f[(i - 1) + 1] = double[f[i - 1]]
        BY <4>1, <1>1 DEF Iterates
      <4>. QED BY <4>1, <4>2, <1>1 DEF Iterates
    <3>. QED BY <3>1, <1>1 DEF Iterates
  <2>. QED BY <2>1, <1>1 DEF Iterates
<1>3. Power2 = CHOOSE g : g = Def(g)
  BY Zenon DEF Power2
<1>4. Power2 = Def(Power2)
  <2>. HIDE DEF Def
  <2>. QED BY <1>2, <1>3, Zenon
<1>5. Power2[0] = 1 /\ \A i \in Nat : Power2[i + 1] = 2 * Power2[i]
  BY <1>4
<1>. DEFINE P == {i \in Nat : Power2[i] \in Nat \ {0}}
<1>6. 0 \in P /\ \A i \in P : i + 1 \in P
  BY <1>5
<1>7. P = Nat
  <2>. HIDE DEF P
  <2>1. P \in SUBSET Nat
    BY DEF P
  <2>. QED BY <2>1, <1>6, Induction
<1>8. \A i \in Nat : Power2[i] \in Nat \ {0}
  BY <1>7
<1>. QED BY <1>5, <1>8


LEMMA Quotient ==
  ASSUME NEW N \in Nat \ {0}, NEW a \in Int
  PROVE  a % N \in 0..(N - 1) /\ \E q \in Int : a = (q * N) + (a % N)
<1>1. a % N \in 0..(N - 1) /\ a \div N \in Int /\ a = (N * (a \div N)) + (a % N)
  BY SMT
<1>2. a = ((a \div N) * N) + (a % N)
  BY <1>1
<1>. QED BY <1>1, <1>2

LEMMA Remainder ==
  ASSUME NEW N \in Nat \ {0}, NEW q \in Int, NEW r \in 0..(N - 1)
  PROVE  ((q * N) + r) % N = r
  BY SMT

\* Whole laps do not count.
LEMMA Laps ==
  ASSUME NEW N \in Nat \ {0}, NEW q \in Int, NEW r \in Int
  PROVE  ((q * N) + r) % N = r % N
<1>1. PICK p \in Int : r = (p * N) + (r % N)
  BY Quotient
<1>. DEFINE s == r % N
<1>2. s \in 0..(N - 1) /\ q + p \in Int
  BY Quotient
<1>3. (q * N) + r = ((q + p) * N) + s
  BY <1>1
<1>. HIDE DEF s
<1>4. (((q + p) * N) + s) % N = s
  BY <1>2, Remainder
<1>. QED BY <1>3, <1>4 DEF s

-----------------------------------------------------------------------------
(* Distances on the ring *)

RingOK == ring \in Rings

LEMMA RingFacts ==
  ASSUME RingOK
  PROVE  /\ M \in Nat \ {0} /\ RING_SIZE \in Nat /\ RING_SIZE >= 2
         /\ nodes \subseteq 0..(RING_SIZE - 1) /\ nodes # {}
<1>1. M \in Nat \ {0} /\ nodes \subseteq 0..(RING_SIZE - 1) /\ nodes # {}
  BY ChordAssumption DEF RingOK, M, nodes, RING_SIZE
<1>2. M - 1 \in Nat /\ (M - 1) + 1 = M
  BY <1>1
<1>3. Power2[M - 1] \in Nat \ {0} /\ Power2[M] = 2 * Power2[M - 1]
  BY <1>2, PowerFacts
<1>. QED BY <1>1, <1>3 DEF RING_SIZE

\* Going on from b to c.
LEMMA Onward ==
  ASSUME RingOK, NEW a \in Int, NEW b \in Int, NEW c \in Int
  PROVE  /\ Distance(a, b) \in 0..(RING_SIZE - 1)
         /\ Distance(a, c) = IF Distance(a, b) + Distance(b, c) < RING_SIZE
                             THEN Distance(a, b) + Distance(b, c)
                             ELSE Distance(a, b) + Distance(b, c) - RING_SIZE
<1>. DEFINE N == RING_SIZE
            x == b - a
            y == c - b
            d == x % N
            e == y % N
<1>1. N \in Nat \ {0} /\ x \in Int /\ y \in Int
  BY RingFacts
<1>2. Distance(a, b) = d /\ Distance(b, c) = e /\ Distance(a, c) = (x + y) % N
  <2>1. c - a = x + y
    OBVIOUS
  <2>. QED BY <2>1 DEF Distance
<1>. HIDE DEF N, x, y
<1>3. /\ d \in 0..(N - 1) /\ e \in 0..(N - 1)
      /\ \E p \in Int : x = (p * N) + d
      /\ \E q \in Int : y = (q * N) + e
  BY <1>1, Quotient
<1>. HIDE DEF d, e
<1>4. PICK p \in Int, q \in Int : x = (p * N) + d /\ y = (q * N) + e
  BY <1>3
<1>5. x + y = ((p + q) * N) + (d + e)
  BY <1>1, <1>3, <1>4
<1>6. CASE d + e < N
  <2>1. p + q \in Int /\ d + e \in 0..(N - 1)
    BY <1>1, <1>3, <1>6
  <2>2. (((p + q) * N) + (d + e)) % N = d + e
    BY <1>1, <2>1, Remainder
  <2>. QED BY <1>2, <1>3, <1>5, <1>6, <2>2 DEF N
<1>7. CASE ~(d + e < N)
  <2>1. p + q + 1 \in Int /\ d + e - N \in 0..(N - 1)
    BY <1>1, <1>3, <1>7
  <2>2. (((p + q + 1) * N) + (d + e - N)) % N = d + e - N
    BY <1>1, <2>1, Remainder
  <2>3. x + y = ((p + q + 1) * N) + (d + e - N)
    BY <1>1, <1>3, <1>5
  <2>. QED BY <1>2, <1>3, <1>7, <2>2, <2>3 DEF N
<1>. QED BY <1>6, <1>7

\* Between positions the distance is a difference; keys count modulo the ring.
LEMMA Positions ==
  ASSUME RingOK, NEW a \in Int, NEW b \in Int
  PROVE  /\ a % RING_SIZE \in 0..(RING_SIZE - 1)
         /\ b % RING_SIZE \in 0..(RING_SIZE - 1)
         /\ Distance(a, b) =
              IF a % RING_SIZE <= b % RING_SIZE
              THEN (b % RING_SIZE) - (a % RING_SIZE)
              ELSE (b % RING_SIZE) - (a % RING_SIZE) + RING_SIZE
<1>. DEFINE N == RING_SIZE
            a1 == a % N
            b1 == b % N
<1>1. N \in Nat \ {0}
  BY RingFacts
<1>. HIDE DEF N
<1>2. /\ a1 \in 0..(N - 1) /\ b1 \in 0..(N - 1)
      /\ \E p \in Int : a = (p * N) + a1
      /\ \E q \in Int : b = (q * N) + b1
  BY <1>1, Quotient
<1>. HIDE DEF a1, b1
<1>4. PICK p \in Int, q \in Int : a = (p * N) + a1 /\ b = (q * N) + b1
  BY <1>2
<1>5. CASE a1 <= b1
  <2>1. q - p \in Int /\ b1 - a1 \in 0..(N - 1)
    BY <1>1, <1>2, <1>5
  <2>2. b - a = ((q - p) * N) + (b1 - a1)
    BY <1>1, <1>2, <1>4
  <2>3. (((q - p) * N) + (b1 - a1)) % N = b1 - a1
    BY <1>1, <2>1, Remainder
  <2>. QED BY <1>2, <1>5, <2>2, <2>3 DEF Distance, N, a1, b1
<1>6. CASE ~(a1 <= b1)
  <2>1. q - p - 1 \in Int /\ b1 - a1 + N \in 0..(N - 1)
    BY <1>1, <1>2, <1>6
  <2>2. b - a = ((q - p - 1) * N) + (b1 - a1 + N)
    BY <1>1, <1>2, <1>4
  <2>3. (((q - p - 1) * N) + (b1 - a1 + N)) % N = b1 - a1 + N
    BY <1>1, <2>1, Remainder
  <2>. QED BY <1>2, <1>6, <2>2, <2>3 DEF Distance, N, a1, b1
<1>. QED BY <1>5, <1>6

LEMMA DistanceType ==
  ASSUME RingOK, NEW a \in Int, NEW b \in Int
  PROVE  Distance(a, b) \in 0..(RING_SIZE - 1)
<1>1. b - a \in Int /\ RING_SIZE \in Nat \ {0}
  BY RingFacts
<1>. QED BY <1>1, Quotient DEF Distance

\* The positions of the ring themselves.
LEMMA OnTheRing ==
  ASSUME RingOK, NEW a \in 0..(RING_SIZE - 1), NEW b \in 0..(RING_SIZE - 1)
  PROVE  Distance(a, b) = IF a <= b THEN b - a ELSE b - a + RING_SIZE
<1>1. RING_SIZE \in Nat /\ RING_SIZE >= 2
  BY RingFacts
<1>2. a \in Int /\ b \in Int /\ a % RING_SIZE = a /\ b % RING_SIZE = b
  BY <1>1
<1>. QED BY <1>2, Positions

\* Steps from a to the next occurrence of b, a whole lap when a is at b.
Ahead(a, b) == IF Distance(a, b) = 0 THEN RING_SIZE ELSE Distance(a, b)

LEMMA AheadFacts ==
  ASSUME RingOK, NEW a \in Int, NEW b \in Int
  PROVE  /\ Ahead(a, b) \in 1..RING_SIZE
         /\ Distance(a, b) = IF Ahead(a, b) = RING_SIZE THEN 0 ELSE Ahead(a, b)
         /\ Distance(a, b - 1) = Ahead(a, b) - 1
<1>. DEFINE c == b - 1
<1>1. RING_SIZE \in Nat /\ RING_SIZE >= 2 /\ c \in Int
  BY RingFacts
<1>2. Distance(c, b) = 1
  <2>1. b - c = 1 /\ 1 % RING_SIZE = 1
    BY <1>1
  <2>. QED BY <2>1 DEF Distance
<1>. HIDE DEF c
<1>3. /\ Distance(a, b) \in 0..(RING_SIZE - 1)
      /\ Distance(a, c) \in 0..(RING_SIZE - 1)
  BY <1>1, DistanceType
<1>4. Distance(a, b) = IF Distance(a, c) + Distance(c, b) < RING_SIZE
                       THEN Distance(a, c) + Distance(c, b)
                       ELSE Distance(a, c) + Distance(c, b) - RING_SIZE
  BY <1>1, Onward
<1>5. Distance(a, c) = Ahead(a, b) - 1
  BY <1>1, <1>2, <1>3, <1>4 DEF Ahead
<1>. QED BY <1>1, <1>3, <1>5 DEF Ahead, c

\* The same position is at distance 0, no other one is.
LEMMA SamePlace ==
  ASSUME RingOK, NEW a \in Int, NEW b \in Int
  PROVE  Distance(a, b) = 0 <=> a % RING_SIZE = b % RING_SIZE
<1>. DEFINE a1 == a % RING_SIZE
            b1 == b % RING_SIZE
<1>1. /\ a1 \in 0..(RING_SIZE - 1) /\ b1 \in 0..(RING_SIZE - 1) /\ RING_SIZE \in Nat
      /\ Distance(a, b) = IF a1 <= b1 THEN b1 - a1 ELSE b1 - a1 + RING_SIZE
  BY Positions, RingFacts
<1>. HIDE DEF a1, b1
<1>2. Distance(a, b) = 0 <=> a1 = b1
  BY <1>1
<1>. QED BY <1>2 DEF a1, b1

\* in_interval says that x is met before b.
LEMMA IntervalFacts ==
  ASSUME RingOK, NEW x \in Int, NEW a \in Int, NEW b \in Int
  PROVE  in_interval(x, a, b) <=> Ahead(a, x) < Ahead(a, b)
<1>. DEFINE a1 == a % RING_SIZE
            b1 == b % RING_SIZE
            x1 == x % RING_SIZE
<1>1. /\ a1 \in 0..(RING_SIZE - 1) /\ b1 \in 0..(RING_SIZE - 1)
      /\ x1 \in 0..(RING_SIZE - 1) /\ RING_SIZE \in Nat
      /\ Distance(a, b) = IF a1 <= b1 THEN b1 - a1 ELSE b1 - a1 + RING_SIZE
      /\ Distance(a, x) = IF a1 <= x1 THEN x1 - a1 ELSE x1 - a1 + RING_SIZE
  BY Positions, RingFacts
<1>2. in_interval(x, a, b) <=>
        IF a1 < b1 THEN a1 < x1 /\ x1 < b1 ELSE x1 > a1 \/ x1 < b1
  BY DEF in_interval
<1>. HIDE DEF a1, b1, x1
<1>. QED BY <1>1, <1>2 DEF Ahead

LEMMA MinIs ==
  ASSUME NEW S \in SUBSET Nat, S # {}
  PROVE  Min(S) \in S /\ \A m \in S : Min(S) <= m
<1>1. \E x \in S : \A y \in S : x <= y
  BY LeastNumber
<1>. QED BY <1>1 DEF Min

\* successor gives the first node at or after a position.
LEMMA SuccessorFacts ==
  ASSUME RingOK, NEW k \in 0..(RING_SIZE - 1)
  PROVE  /\ successor(k) \in nodes
         /\ \A m \in nodes : Distance(k, successor(k)) <= Distance(k, m)
<1>1. /\ nodes \in SUBSET Nat /\ nodes \subseteq 0..(RING_SIZE - 1)
      /\ nodes # {} /\ RING_SIZE \in Nat
  BY RingFacts
<1>2. \A m \in nodes :
        Distance(k, m) = IF k <= m THEN m - k ELSE m - k + RING_SIZE
  BY <1>1, OnTheRing
<1>3. CASE \E n \in nodes : n >= k
  <2>. DEFINE S == {n \in nodes : n >= k}
  <2>1. S \in SUBSET Nat /\ S # {}
    BY <1>1, <1>3
  <2>2. successor(k) = Min(S)
    BY <1>3 DEF successor
  <2>3. Min(S) \in S /\ \A m \in S : Min(S) <= m
    <3>. HIDE DEF S
    <3>. QED BY <2>1, MinIs
  <2>. DEFINE f == Min(S)
  <2>4. f \in nodes /\ k <= f /\ \A m \in nodes : k <= m => f <= m
    BY <1>1, <2>3
  <2>. HIDE DEF f
  <2>5. ASSUME NEW m \in nodes PROVE Distance(k, f) <= Distance(k, m)
    BY <1>1, <1>2, <2>4
  <2>. QED BY <2>2, <2>4, <2>5 DEF f
<1>4. CASE ~\E n \in nodes : n >= k
  <2>1. successor(k) = Min(nodes)
    BY <1>4 DEF successor
  <2>2. Min(nodes) \in nodes /\ \A m \in nodes : Min(nodes) <= m
    BY <1>1, MinIs
  <2>. DEFINE f == Min(nodes)
  <2>3. f \in nodes /\ \A m \in nodes : f <= m /\ m < k
    BY <1>1, <1>4, <2>2
  <2>. HIDE DEF f
  <2>4. ASSUME NEW m \in nodes PROVE Distance(k, f) <= Distance(k, m)
    BY <1>1, <1>2, <2>3
  <2>. QED BY <2>1, <2>3, <2>4 DEF f
<1>. QED BY <1>3, <1>4

-----------------------------------------------------------------------------
(* Fingers *)

LEMMA PowersGrow ==
  ASSUME NEW i \in Nat
  PROVE  \A j \in Nat : i < j => Power2[i] < Power2[j]
<1>. DEFINE S == {j \in Nat : i < j => Power2[i] < Power2[j]}
<1>1. 0 \in S
  OBVIOUS
<1>2. \A j \in S : j + 1 \in S
  BY PowerFacts
<1>3. S = Nat
  <2>. HIDE DEF S
  <2>1. S \in SUBSET Nat
    BY DEF S
  <2>. QED BY <1>1, <1>2, <2>1, Induction
<1>. QED BY <1>3

\* Finger i of c is the first node that is at least 2 ** (i - 1) ahead of it.
LEMMA FingerFacts ==
  ASSUME RingOK, NEW c \in nodes, NEW i \in 1..M
  PROVE  LET f == finger_table(c)[i]
         IN  /\ f \in nodes
             /\ Power2[i - 1] <= Ahead(c, f)
             /\ \A m \in nodes :
                  Power2[i - 1] <= Ahead(c, m) => Ahead(c, f) <= Ahead(c, m)
<1>. DEFINE P == Power2[i - 1]
            start == (c + P) % RING_SIZE
            f == successor(start)
<1>1. /\ M \in Nat /\ RING_SIZE \in Nat /\ RING_SIZE >= 2 /\ c \in 0..(RING_SIZE - 1)
      /\ nodes \subseteq Int
  BY RingFacts
<1>2. P \in Nat /\ 1 <= P /\ P < RING_SIZE
  <2>1. i - 1 \in Nat /\ M \in Nat /\ i - 1 < M
    BY <1>1
  <2>2. P \in Nat \ {0} /\ P < Power2[M]
    BY <2>1, PowerFacts, PowersGrow
  <2>. QED BY <2>2 DEF RING_SIZE
<1>3. finger_table(c)[i] = f
  BY DEF finger_table
<1>. HIDE DEF P
<1>4. start \in 0..(RING_SIZE - 1)
  BY <1>1, <1>2
<1>5. f \in nodes /\ \A m \in nodes : Distance(start, f) <= Distance(start, m)
  BY <1>4, SuccessorFacts
<1>6. Distance(c, start) = P
  <2>1. start = IF c + P < RING_SIZE THEN c + P ELSE c + P - RING_SIZE
    BY <1>1, <1>2
  <2>. HIDE DEF start
  <2>2. Distance(c, start) = IF c <= start THEN start - c ELSE start - c + RING_SIZE
    BY <1>1, <1>4, OnTheRing
  <2>. QED BY <1>1, <1>2, <1>4, <2>1, <2>2
<1>. HIDE DEF start, f
<1>7. ASSUME NEW m \in nodes
      PROVE  /\ Distance(start, m) \in 0..(RING_SIZE - 1)
             /\ Distance(c, m) = IF P + Distance(start, m) < RING_SIZE
                                 THEN P + Distance(start, m)
                                 ELSE P + Distance(start, m) - RING_SIZE
  <2>1. c \in Int /\ m \in Int /\ start \in Int
    BY <1>1, <1>4
  <2>. QED BY <1>6, <2>1, DistanceType, Onward
<1>8. Distance(start, c) = RING_SIZE - P
  <2>1. Distance(c, c) = 0
    BY <1>1, SamePlace
  <2>. QED BY <1>1, <1>2, <1>7, <2>1
<1>9. Ahead(c, f) = P + Distance(start, f)
  BY <1>1, <1>2, <1>5, <1>7, <1>8 DEF Ahead
<1>10. ASSUME NEW m \in nodes, P <= Ahead(c, m)
       PROVE  Ahead(c, f) <= Ahead(c, m)
  <2>1. Ahead(c, m) = P + Distance(start, m)
    BY <1>1, <1>2, <1>7, <1>10 DEF Ahead
  <2>. QED BY <1>1, <1>2, <1>5, <1>7, <1>9, <2>1
<1>11. P <= Ahead(c, f)
  BY <1>1, <1>2, <1>5, <1>7, <1>9
<1>. QED BY <1>3, <1>5, <1>10, <1>11 DEF P

LEMMA SuccIsNext ==
  ASSUME RingOK, current \in nodes
  PROVE  succ \in nodes /\ \A m \in nodes : Ahead(current, succ) <= Ahead(current, m)
<1>1. M \in Nat \ {0} /\ nodes \subseteq Int
  BY RingFacts
<1>2. 1 \in 1..M /\ Power2[1 - 1] = 1
  BY <1>1, PowerFacts
<1>. DEFINE f == finger_table(current)[1]
<1>3. /\ f \in nodes
      /\ \A m \in nodes : 1 <= Ahead(current, m) => Ahead(current, f) <= Ahead(current, m)
  BY <1>2, FingerFacts
<1>4. \A m \in nodes : 1 <= Ahead(current, m)
  BY <1>1, AheadFacts
<1>. QED BY <1>3, <1>4 DEF succ

-----------------------------------------------------------------------------
(* The way to the last node before the key *)

KeyOK == key \in Int

Target == Predecessor(key)

Way(c) == Distance(c, Target)

LEMMA TargetFacts ==
  ASSUME RingOK, KeyOK
  PROVE  Target \in nodes /\ \A m \in nodes : Ahead(Target, key) <= Ahead(m, key)
<1>1. nodes \subseteq Int /\ nodes # {} /\ key \in Int
  BY RingFacts DEF KeyOK
<1>2. ASSUME NEW m \in nodes
      PROVE  Distance(m, key - 1) = Ahead(m, key) - 1 /\ Ahead(m, key) \in Nat
  <2>1. m \in Int /\ RING_SIZE \in Nat
    BY <1>1, RingFacts
  <2>2. Distance(m, key - 1) = Ahead(m, key) - 1 /\ Ahead(m, key) \in 1..RING_SIZE
    BY <1>1, <2>1, AheadFacts
  <2>. QED BY <2>1, <2>2
<1>. DEFINE S == {Ahead(m, key) : m \in nodes}
<1>3. PICK x \in S : \A y \in S : x <= y
  <2>1. S \in SUBSET Nat /\ S # {}
    BY <1>1, <1>2
  <2>. HIDE DEF S
  <2>. QED BY <2>1, LeastNumber
<1>4. PICK n \in nodes : \A m \in nodes : Ahead(n, key) <= Ahead(m, key)
  BY <1>3
<1>5. \A m \in nodes : Distance(n, key - 1) <= Distance(m, key - 1)
  BY <1>2, <1>4
<1>6. /\ Target \in nodes
      /\ \A m \in nodes : Distance(Target, key - 1) <= Distance(m, key - 1)
  BY <1>5, Zenon DEF Target, Predecessor
<1>. HIDE DEF Target
<1>. QED BY <1>2, <1>6

\* From a node the key comes after the way, and after any node in between.
LEMMA WayFacts ==
  ASSUME RingOK, KeyOK, NEW c \in nodes
  PROVE  /\ Way(c) \in 0..(RING_SIZE - 1)
         /\ Ahead(c, key) = Way(c) + Ahead(Target, key)
<1>1. /\ c \in Int /\ Target \in Int /\ key \in Int /\ RING_SIZE \in Nat
      /\ Ahead(Target, key) <= Ahead(c, key)
  BY RingFacts, TargetFacts DEF KeyOK
<1>2. /\ Distance(c, Target) \in 0..(RING_SIZE - 1)
      /\ Distance(c, key) = IF Distance(c, Target) + Distance(Target, key) < RING_SIZE
                            THEN Distance(c, Target) + Distance(Target, key)
                            ELSE Distance(c, Target) + Distance(Target, key) - RING_SIZE
  BY <1>1, Onward
<1>3. /\ Ahead(c, key) \in 1..RING_SIZE /\ Ahead(Target, key) \in 1..RING_SIZE
      /\ Distance(c, key) = IF Ahead(c, key) = RING_SIZE THEN 0 ELSE Ahead(c, key)
      /\ Distance(Target, key) =
           IF Ahead(Target, key) = RING_SIZE THEN 0 ELSE Ahead(Target, key)
  BY <1>1, AheadFacts
<1>. QED BY <1>1, <1>2, <1>3 DEF Way

LEMMA NodesBetween ==
  ASSUME RingOK, KeyOK, NEW c \in nodes, NEW x \in nodes,
         Ahead(c, x) < Ahead(c, key)
  PROVE  Ahead(c, x) <= Way(c) /\ Way(x) = Way(c) - Ahead(c, x)
<1>1. c \in Int /\ x \in Int /\ key \in Int /\ RING_SIZE \in Nat
  BY RingFacts DEF KeyOK
<1>2. Distance(c, key) = IF Distance(c, x) + Distance(x, key) < RING_SIZE
                         THEN Distance(c, x) + Distance(x, key)
                         ELSE Distance(c, x) + Distance(x, key) - RING_SIZE
  BY <1>1, Onward
<1>3. /\ Ahead(c, key) \in 1..RING_SIZE /\ Ahead(x, key) \in 1..RING_SIZE
      /\ Ahead(c, x) \in 1..RING_SIZE
      /\ Distance(c, key) = IF Ahead(c, key) = RING_SIZE THEN 0 ELSE Ahead(c, key)
      /\ Distance(x, key) = IF Ahead(x, key) = RING_SIZE THEN 0 ELSE Ahead(x, key)
      /\ Distance(c, x) = IF Ahead(c, x) = RING_SIZE THEN 0 ELSE Ahead(c, x)
  BY <1>1, AheadFacts
<1>4. Ahead(x, key) = Ahead(c, key) - Ahead(c, x)
  BY <1>1, <1>2, <1>3
<1>5. /\ Way(c) \in 0..(RING_SIZE - 1) /\ Way(x) \in 0..(RING_SIZE - 1)
      /\ Ahead(c, key) = Way(c) + Ahead(Target, key)
      /\ Ahead(x, key) = Way(x) + Ahead(Target, key)
  BY WayFacts
<1>6. Ahead(Target, key) \in 1..RING_SIZE
  <2>1. Target \in Int
    BY TargetFacts, RingFacts
  <2>. QED BY <1>1, <2>1, AheadFacts
<1>. QED BY <1>1, <1>3, <1>4, <1>5, <1>6

\* The key is here exactly when there is no way to go.
LEMMA HereFacts ==
  ASSUME RingOK, KeyOK, current \in nodes
  PROVE  /\ IsHere <=> Ahead(current, key) <= Ahead(current, succ)
         /\ IsHere <=> Way(current) = 0
<1>1. /\ current \in Int /\ succ \in Int /\ key \in Int /\ RING_SIZE \in Nat
      /\ succ \in nodes /\ succ % RING_SIZE = succ /\ Target \in nodes
      /\ current \in 0..(RING_SIZE - 1) /\ Target \in 0..(RING_SIZE - 1)
  <2>1. nodes \subseteq 0..(RING_SIZE - 1) /\ RING_SIZE \in Nat /\ succ \in nodes
        /\ Target \in nodes
    BY RingFacts, SuccIsNext, TargetFacts
  <2>2. \A n \in 0..(RING_SIZE - 1) : n % RING_SIZE = n
    BY <2>1, RingFacts
  <2>. QED BY <2>1, <2>2 DEF KeyOK
<1>2. /\ Ahead(current, key) \in 1..RING_SIZE /\ Ahead(current, succ) \in 1..RING_SIZE
      /\ Ahead(current, Target) \in 1..RING_SIZE /\ Ahead(Target, key) \in 1..RING_SIZE
  <2>1. Target \in Int
    BY <1>1
  <2>. QED BY <1>1, <2>1, AheadFacts
<1>3. key % RING_SIZE = succ <=> Ahead(current, key) = Ahead(current, succ)
  <2>. DEFINE k1 == key % RING_SIZE
              s1 == succ % RING_SIZE
              c1 == current % RING_SIZE
  <2>1. /\ k1 \in 0..(RING_SIZE - 1) /\ s1 \in 0..(RING_SIZE - 1)
        /\ c1 \in 0..(RING_SIZE - 1)
        /\ Distance(current, key) = IF c1 <= k1 THEN k1 - c1 ELSE k1 - c1 + RING_SIZE
        /\ Distance(current, succ) = IF c1 <= s1 THEN s1 - c1 ELSE s1 - c1 + RING_SIZE
    BY <1>1, Positions
  <2>. HIDE DEF k1, s1, c1
  <2>2. k1 = s1 <=> Ahead(current, key) = Ahead(current, succ)
    BY <1>1, <2>1 DEF Ahead
  <2>. QED BY <1>1, <2>2 DEF k1, s1
<1>4. in_interval(key, current, succ) <=> Ahead(current, key) < Ahead(current, succ)
  BY <1>1, IntervalFacts
<1>5. IsHere <=> Ahead(current, key) <= Ahead(current, succ)
  BY <1>2, <1>3, <1>4 DEF IsHere
<1>6. /\ Way(current) \in 0..(RING_SIZE - 1)
      /\ Ahead(current, key) = Way(current) + Ahead(Target, key)
  BY WayFacts
<1>7. ASSUME ~IsHere
      PROVE  Way(current) # 0
  <2>1. Ahead(current, succ) < Ahead(current, key)
    BY <1>2, <1>5, <1>7
  <2>2. Ahead(current, succ) <= Way(current)
    BY <1>1, <2>1, NodesBetween
  <2>. QED BY <1>2, <1>6, <2>2
<1>8. ASSUME IsHere, Way(current) # 0
      PROVE  FALSE
  <2>1. Ahead(current, Target) = Way(current)
    BY <1>8 DEF Ahead, Way
  <2>2. Ahead(current, succ) <= Ahead(current, Target)
    BY <1>1, SuccIsNext
  <2>. QED BY <1>2, <1>5, <1>6, <1>8, <2>1, <2>2
<1>. QED BY <1>5, <1>7, <1>8

\* The farthest finger before the key takes more than half of the way.
LEMMA HopFacts ==
  ASSUME RingOK, KeyOK, current \in nodes, Way(current) # 0
  PROVE  /\ next_node \in nodes /\ next_node # current
         /\ 2 * Way(next_node) < Way(current)
<1>. DEFINE w == Way(current)
            table == finger_table(current)
            before == {i \in 1..M : in_interval(table[i], current, key)}
<1>1. /\ M \in Nat \ {0} /\ RING_SIZE \in Nat /\ nodes \subseteq Int
      /\ current \in Int /\ key \in Int
  BY RingFacts DEF KeyOK
<1>2. w \in 1..(RING_SIZE - 1)
  BY <1>1, WayFacts
<1>3. /\ Target \in nodes /\ Ahead(current, Target) = w
      /\ Ahead(current, key) = w + Ahead(Target, key)
      /\ Ahead(Target, key) \in 1..RING_SIZE
  <2>1. Target \in nodes /\ Target \in Int
    BY <1>1, TargetFacts
  <2>2. Ahead(Target, key) \in 1..RING_SIZE
    BY <1>1, <2>1, AheadFacts
  <2>. QED BY <1>2, <2>1, <2>2, WayFacts DEF Ahead, Way
<1>. HIDE DEF w
<1>4. ASSUME NEW i \in 1..M
      PROVE  /\ table[i] \in nodes
             /\ Power2[i - 1] <= Ahead(current, table[i])
             /\ Power2[i - 1] <= w => Ahead(current, table[i]) <= w
             /\ Ahead(current, table[i]) \in 1..RING_SIZE
             /\ Power2[i - 1] \in Nat
  <2>1. /\ table[i] \in nodes /\ Power2[i - 1] <= Ahead(current, table[i])
        /\ Power2[i - 1] <= w => Ahead(current, table[i]) <= w
    BY <1>3, FingerFacts
  <2>2. Power2[i - 1] \in Nat
    <3>1. i - 1 \in Nat
      BY <1>1
    <3>. QED BY <3>1, PowerFacts
  <2>. QED BY <1>1, <2>1, <2>2, AheadFacts
<1>. HIDE DEF table
<1>5. ASSUME NEW i \in 1..M
      PROVE  in_interval(table[i], current, key) <=> Power2[i - 1] <= w
  <2>1. table[i] \in Int /\ table[i] \in nodes
    BY <1>1, <1>4
  <2>2. in_interval(table[i], current, key) <=>
          Ahead(current, table[i]) < Ahead(current, key)
    BY <1>1, <2>1, IntervalFacts
  <2>3. Ahead(current, table[i]) < Ahead(current, key) =>
          Ahead(current, table[i]) <= w
    BY <2>1, NodesBetween DEF w
  <2>. QED BY <1>1, <1>2, <1>3, <1>4, <2>2, <2>3
<1>6. before = {i \in 1..M : Power2[i - 1] <= w}
  BY <1>5
<1>. HIDE DEF before
<1>7. 1 \in before
  <2>1. 1 \in 1..M /\ Power2[1 - 1] = 1
    BY <1>1, PowerFacts
  <2>. QED BY <1>2, <1>6, <2>1
<1>. DEFINE i == Max(before)
<1>8. i \in before /\ \A j \in before : j <= i
  <2>. DEFINE S == {M - j : j \in before}
  <2>1. before \subseteq 1..M
    BY <1>6
  <2>2. S \in SUBSET Nat /\ S # {}
    BY <1>1, <1>7, <2>1
  <2>. HIDE DEF S
  <2>3. PICK x \in S : \A y \in S : x <= y
    BY <2>2, LeastNumber
  <2>4. PICK j \in before : x = M - j
    BY <2>3 DEF S
  <2>5. \A l \in before : l <= j
    <3>1. \A l \in before : M - l \in S
      BY DEF S
    <3>. QED BY <1>1, <2>1, <2>3, <2>4, <3>1
  <2>6. \A l \in before : j >= l
    BY <1>1, <2>1, <2>5
  <2>7. Max(before) \in before /\ \A l \in before : Max(before) >= l
    BY <2>6, Zenon DEF Max
  <2>. HIDE DEF i
  <2>8. i \in before /\ \A l \in before : i >= l
    BY <2>7 DEF i
  <2>. QED BY <1>1, <2>1, <2>8
<1>9. next_node = table[i]
  BY <1>7 DEF next_node, Preferred, table, before
<1>. HIDE DEF i
<1>10. i \in 1..M /\ Power2[i - 1] <= w
  BY <1>6, <1>8
<1>11. w < 2 * Power2[i - 1]
  <2>1. i - 1 \in Nat /\ (i - 1) + 1 = i
    BY <1>1, <1>10
  <2>2. Power2[i] = 2 * Power2[i - 1] /\ Power2[i] \in Nat
    BY <2>1, PowerFacts
  <2>3. CASE i = M
    BY <1>1, <1>2, <2>2, <2>3 DEF RING_SIZE
  <2>4. CASE i # M
    <3>1. i + 1 \in 1..M /\ (i + 1) - 1 = i /\ ~(i + 1 <= i)
      BY <1>1, <1>10, <2>4
    <3>2. i + 1 \notin before
      BY <1>8, <3>1
    <3>3. ~(Power2[i] <= w)
      BY <1>6, <3>1, <3>2
    <3>. QED BY <1>1, <1>2, <2>2, <3>3
  <2>. QED BY <2>3, <2>4
<1>12. /\ table[i] \in nodes /\ Power2[i - 1] <= Ahead(current, table[i])
       /\ Ahead(current, table[i]) <= w /\ Ahead(current, table[i]) \in 1..RING_SIZE
       /\ Power2[i - 1] \in Nat
  BY <1>4, <1>10
<1>13. Way(table[i]) = w - Ahead(current, table[i])
  <2>1. Ahead(current, table[i]) < Ahead(current, key)
    BY <1>1, <1>2, <1>3, <1>12
  <2>. QED BY <1>12, <2>1, NodesBetween DEF w
<1>14. 2 * Way(table[i]) < w
  BY <1>1, <1>2, <1>11, <1>12, <1>13
<1>15. table[i] # current
  BY <1>2, <1>12, <1>13, <1>1 DEF w
<1>. QED BY <1>9, <1>12, <1>14, <1>15 DEF w

-----------------------------------------------------------------------------
(* The lookup *)

LEMMA OwnerFacts ==
  ASSUME RingOK, KeyOK, current \in nodes, IsHere
  PROVE  succ = Owner(key)
<1>1. /\ nodes \subseteq 0..(RING_SIZE - 1) /\ RING_SIZE \in Nat
      /\ current \in Int /\ key \in Int /\ nodes \subseteq Int
  BY RingFacts DEF KeyOK
<1>2. /\ succ \in nodes /\ \A m \in nodes : Ahead(current, succ) <= Ahead(current, m)
      /\ Ahead(current, key) <= Ahead(current, succ)
  BY SuccIsNext, HereFacts
<1>3. ASSUME NEW m \in nodes
      PROVE  /\ Distance(key, m) = Ahead(current, m) - Ahead(current, key)
             /\ Ahead(current, m) \in 1..RING_SIZE /\ Ahead(current, key) \in 1..RING_SIZE
  <2>1. m \in Int /\ Ahead(current, key) <= Ahead(current, m)
    <3>1. /\ Ahead(current, m) \in Int /\ Ahead(current, succ) \in Int
          /\ Ahead(current, key) \in Int
      BY <1>1, <1>2, AheadFacts
    <3>. QED BY <1>1, <1>2, <3>1
  <2>2. /\ Distance(key, m) \in 0..(RING_SIZE - 1)
        /\ Distance(current, m) = IF Distance(current, key) + Distance(key, m) < RING_SIZE
                                  THEN Distance(current, key) + Distance(key, m)
                                  ELSE Distance(current, key) + Distance(key, m) - RING_SIZE
    BY <1>1, <2>1, Onward, DistanceType
  <2>3. /\ Ahead(current, m) \in 1..RING_SIZE /\ Ahead(current, key) \in 1..RING_SIZE
        /\ Distance(current, m) = IF Ahead(current, m) = RING_SIZE THEN 0 ELSE Ahead(current, m)
        /\ Distance(current, key) =
             IF Ahead(current, key) = RING_SIZE THEN 0 ELSE Ahead(current, key)
    BY <1>1, <2>1, AheadFacts
  <2>. QED BY <1>1, <2>1, <2>2, <2>3
<1>4. \A m \in nodes : Distance(key, succ) <= Distance(key, m)
  BY <1>1, <1>2, <1>3
<1>5. ASSUME NEW m \in nodes, Distance(key, m) = Distance(key, succ)
      PROVE  m = succ
  <2>1. Ahead(current, m) = Ahead(current, succ)
    BY <1>1, <1>2, <1>3, <1>5
  <2>2. Distance(current, m) = Distance(current, succ)
    BY <1>1, <1>2, <2>1, AheadFacts
  <2>3. /\ current \in 0..(RING_SIZE - 1) /\ m \in 0..(RING_SIZE - 1)
        /\ succ \in 0..(RING_SIZE - 1)
    BY <1>1, <1>2
  <2>4. /\ Distance(current, m) =
             IF current <= m THEN m - current ELSE m - current + RING_SIZE
        /\ Distance(current, succ) =
             IF current <= succ THEN succ - current ELSE succ - current + RING_SIZE
    BY <2>3, OnTheRing
  <2>. DEFINE c == current
              t == succ
              N == RING_SIZE
  <2>5. /\ c \in 0..(N - 1) /\ m \in 0..(N - 1) /\ t \in 0..(N - 1) /\ N \in Nat
        /\ (IF c <= m THEN m - c ELSE m - c + N) = (IF c <= t THEN t - c ELSE t - c + N)
    BY <1>1, <2>2, <2>3, <2>4
  <2>. HIDE DEF c, t, N
  <2>6. m = t
    BY <2>5
  <2>. QED BY <2>6 DEF t
<1>6. ASSUME NEW n \in nodes, \A m \in nodes : Distance(key, n) <= Distance(key, m)
      PROVE  n = succ
  <2>1. /\ Distance(key, n) <= Distance(key, succ) /\ Distance(key, succ) <= Distance(key, n)
        /\ Distance(key, n) \in Int /\ Distance(key, succ) \in Int
    BY <1>1, <1>2, <1>4, <1>6, DistanceType
  <2>2. Distance(key, n) = Distance(key, succ)
    BY <2>1
  <2>. QED BY <1>5, <2>2
<1>. HIDE DEF succ
<1>7. Owner(key) \in nodes /\ \A m \in nodes : Distance(key, Owner(key)) <= Distance(key, m)
  BY <1>2, <1>4, Zenon DEF Owner
<1>. QED BY <1>6, <1>7

\* What successor() says of a key on the ring.
LEMMA SuccessorIsOwner ==
  ASSUME RingOK, KeyOK, current \in nodes, IsHere, key \in 0..(RING_SIZE - 1)
  PROVE  successor(key) = succ
<1>1. /\ nodes \subseteq 0..(RING_SIZE - 1) /\ RING_SIZE \in Nat
  BY RingFacts
<1>2. /\ successor(key) \in nodes
      /\ \A m \in nodes : Distance(key, successor(key)) <= Distance(key, m)
  BY SuccessorFacts
<1>3. /\ succ = Owner(key) /\ succ \in nodes
  BY OwnerFacts, SuccIsNext
<1>4. \A m \in nodes : Distance(key, Owner(key)) <= Distance(key, m)
  <2>1. \E n \in nodes : \A m \in nodes : Distance(key, n) <= Distance(key, m)
    BY <1>2
  <2>. QED BY <2>1, Zenon DEF Owner
<1>. DEFINE f == successor(key)
<1>. HIDE DEF f, succ
<1>5. /\ f \in 0..(RING_SIZE - 1) /\ succ \in 0..(RING_SIZE - 1)
      /\ Distance(key, f) <= Distance(key, succ) /\ Distance(key, succ) <= Distance(key, f)
  BY <1>1, <1>2, <1>3, <1>4 DEF f
<1>6. /\ Distance(key, f) = IF key <= f THEN f - key ELSE f - key + RING_SIZE
      /\ Distance(key, succ) = IF key <= succ THEN succ - key ELSE succ - key + RING_SIZE
  BY <1>5, OnTheRing
<1>7. f = succ
  BY <1>1, <1>5, <1>6
<1>. QED BY <1>7 DEF f

\* A lookup that has taken some hops has less than 2 ** (M - hops) of the way left.
WayLeft ==
  found = -1 => hops \in 0..M /\ Way(current) < Power2[M - hops]

RingInv == RingTypeOK /\ EndsAtOwner /\ WayLeft

LEMMA RingInvFacts ==
  ASSUME RingTypeOK
  PROVE  RingOK /\ KeyOK /\ current \in nodes
<1>1. RingOK
  BY DEF RingTypeOK, RingOK
<1>. QED BY <1>1, RingFacts DEF RingTypeOK, KeyOK

LEMMA RingInitInv == RingInit => RingInv
<1>. SUFFICES ASSUME RingInit PROVE RingInv
  OBVIOUS
<1>1. RingOK
  BY DEF RingInit, RingOK
<1>2. /\ M \in Nat \ {0} /\ RING_SIZE \in Nat /\ nodes \subseteq 0..(RING_SIZE - 1)
      /\ MaxLaps \in Nat
  BY <1>1, RingFacts, ChordAssumption
<1>3. RingTypeOK
  BY <1>2 DEF RingInit, RingTypeOK
<1>4. EndsAtOwner
  BY DEF RingInit, EndsAtOwner
<1>5. WayLeft
  <2>1. Way(current) \in 0..(RING_SIZE - 1)
    BY <1>3, RingInvFacts, WayFacts
  <2>2. hops = 0 /\ M - 0 = M
    BY <1>2 DEF RingInit
  <2>. QED BY <1>2, <2>1, <2>2 DEF WayLeft, RING_SIZE
<1>. QED BY <1>3, <1>4, <1>5 DEF RingInv

\* The counter of the model is never stopped by its bound.
LEMMA HopsCount ==
  ASSUME RingInv, found = -1
  PROVE  Min({hops + 1, MaxHops}) = hops + 1
<1>1. hops \in 0..M /\ M \in Nat
  BY RingInvFacts, RingFacts DEF RingInv, WayLeft
<1>2. {hops + 1, M + 2} \in SUBSET Nat /\ {hops + 1, M + 2} # {}
  BY <1>1
<1>3. /\ Min({hops + 1, M + 2}) \in {hops + 1, M + 2}
      /\ \A m \in {hops + 1, M + 2} : Min({hops + 1, M + 2}) <= m
  BY <1>2, MinIs
<1>. QED BY <1>1, <1>3 DEF MaxHops

LEMMA ReturnInv ==
  ASSUME RingInv, Return
  PROVE  RingInv' /\ IsHere /\ Way(current) = 0
<1>1. RingOK /\ KeyOK /\ current \in nodes /\ RingTypeOK /\ WayLeft /\ found = -1
  BY RingInvFacts DEF RingInv, Return
<1>2. IsHere /\ Way(current) = 0
  BY <1>1, HereFacts, HopFacts DEF Return
<1>3. /\ M \in Nat /\ RING_SIZE \in Nat /\ nodes \subseteq 0..(RING_SIZE - 1)
      /\ hops \in 0..M /\ hops' = hops + 1
  BY <1>1, RingFacts, HopsCount DEF WayLeft, Return
<1>4. succ \in nodes /\ succ = Owner(key) /\ found' = succ
  BY <1>1, <1>2, SuccIsNext, OwnerFacts DEF Return
<1>5. key < RING_SIZE => succ = successor(key)
  <2>1. key \in Nat
    BY <1>3, ChordAssumption DEF RingTypeOK, RingInv
  <2>. QED BY <1>1, <1>2, <1>3, <2>1, SuccessorIsOwner
<1>6. ring' = ring /\ key' = key /\ current' = current
  BY DEF Return
<1>7. RingTypeOK'
  BY <1>1, <1>3, <1>4, <1>6 DEF RingTypeOK, M, nodes, RING_SIZE
<1>8. EndsAtOwner'
  <2>1. Owner(key)' = Owner(key) /\ successor(key)' = successor(key) /\ RING_SIZE' = RING_SIZE
    BY <1>6 DEF Owner, successor, nodes, Distance, RING_SIZE, M
  <2>. QED BY <1>4, <1>5, <1>6, <2>1 DEF EndsAtOwner
<1>9. WayLeft'
  <2>1. succ # -1
    BY <1>3, <1>4
  <2>. QED BY <1>4, <2>1 DEF WayLeft
<1>. QED BY <1>2, <1>7, <1>8, <1>9 DEF RingInv

LEMMA HopInv ==
  ASSUME RingInv, Hop
  PROVE  RingInv' /\ 2 * Way(current') < Way(current) /\ current' # current
<1>1. RingOK /\ KeyOK /\ current \in nodes /\ RingTypeOK /\ WayLeft /\ found = -1
  BY RingInvFacts DEF RingInv, Hop
<1>2. Way(current) # 0
  BY <1>1, HereFacts DEF Hop
<1>3. /\ current' \in nodes /\ current' # current
      /\ 2 * Way(current') < Way(current)
  BY <1>1, <1>2, HopFacts DEF Hop
<1>4. /\ M \in Nat /\ RING_SIZE \in Nat /\ nodes \subseteq 0..(RING_SIZE - 1)
      /\ hops \in 0..M /\ hops' = hops + 1
      /\ Way(current) \in Nat /\ Way(current') \in Nat
      /\ Way(current) < Power2[M - hops]
  <2>1. Way(current) \in 0..(RING_SIZE - 1) /\ Way(current') \in 0..(RING_SIZE - 1)
    BY <1>1, <1>3, WayFacts
  <2>. QED BY <1>1, <2>1, RingFacts, HopsCount DEF WayLeft, Hop
<1>5. hops + 1 <= M /\ Way(current') < Power2[M - (hops + 1)]
  <2>1. Power2[M - hops] > 1
    BY <1>3, <1>4, PowerFacts
  <2>2. hops # M
    BY <1>4, <2>1, PowerFacts
  <2>3. M - (hops + 1) \in Nat /\ (M - (hops + 1)) + 1 = M - hops
    BY <1>4, <2>2
  <2>4. /\ Power2[M - hops] = 2 * Power2[M - (hops + 1)]
        /\ Power2[M - (hops + 1)] \in Nat
    BY <2>3, PowerFacts
  <2>. QED BY <1>3, <1>4, <2>2, <2>4
<1>6. ring' = ring /\ key' = key /\ found' = -1
  BY <1>1 DEF Hop
<1>7. RingTypeOK'
  BY <1>1, <1>3, <1>4, <1>5, <1>6 DEF RingTypeOK, M, nodes, RING_SIZE
<1>8. EndsAtOwner'
  BY <1>6 DEF EndsAtOwner
<1>9. WayLeft'
  <2>1. Way(current)' = Way(current') /\ M' = M
    BY <1>6 DEF Way, Target, Predecessor, Distance, nodes, RING_SIZE, M
  <2>. QED BY <1>4, <1>5, <2>1 DEF WayLeft
<1>. QED BY <1>3, <1>7, <1>8, <1>9 DEF RingInv

THEOREM RingInvariance == ChordSpec => []RingInv
<1>1. RingInv /\ [LookupStep]_ringVars => RingInv'
  <2>. SUFFICES ASSUME RingInv, [LookupStep]_ringVars PROVE RingInv'
    OBVIOUS
  <2>1. CASE UNCHANGED ringVars
    BY <2>1 DEF ringVars, RingInv, RingTypeOK, EndsAtOwner, WayLeft, Way, Target,
                Predecessor, Owner, successor, Distance, RING_SIZE, nodes, M
  <2>. QED BY <2>1, ReturnInv, HopInv DEF LookupStep
<1>. QED BY <1>1, RingInitInv, PTL DEF ChordSpec

\* The types of the variables; at most M hops and one to return.
THEOREM RingTypeCorrect == ChordSpec => []RingTypeOK
<1>1. RingInv => RingTypeOK
  BY DEF RingInv
<1>. QED BY <1>1, RingInvariance, PTL

\* Whatever node lookup() starts from, it returns the node the key belongs to.
THEOREM LookupsEndAtOwner == ChordSpec => []EndsAtOwner
<1>1. RingInv => EndsAtOwner
  BY DEF RingInv
<1>. QED BY <1>1, RingInvariance, PTL

\* Every hop of lookup() more than halves what is left.
THEOREM HopsAlwaysHalveTheWay == ChordSpec => HopsHalveTheWay
<1>. DEFINE A == LET way == Distance(current, Predecessor(key))
                 IN /\ current' # current =>
                         2 * Distance(current', Predecessor(key)) < way
                    /\ found' # found => IsHere /\ way = 0
<1>1. RingInv /\ [LookupStep]_ringVars => [A]_ringVars
  <2>. SUFFICES ASSUME RingInv, LookupStep PROVE A
    OBVIOUS
  <2>1. CASE Return
    BY <2>1, ReturnInv DEF Return, Way, Target
  <2>2. CASE Hop
    BY <2>2, HopInv DEF Hop, Way, Target
  <2>. QED BY <2>1, <2>2 DEF LookupStep
<1>. QED BY <1>1, RingInvariance, PTL DEF ChordSpec, HopsHalveTheWay
=============================================================================

----------------------------- MODULE Directory -----------------------------
(***************************************************************************)
(* Publish/subscribe, with the LDAP directory of workshop 3 part 2 or with *)
(* addresses the user types (workshop 2, part 4).                          *)
(*                                                                         *)
(* A publisher registers the name of its service with its address, binds   *)
(* its socket and publishes for ever.  A subscriber looks up every topic   *)
(* once, connects to the addresses and receives what matches its topics.   *)
(* The directory (slapd) and ZeroMQ are modelled from their use: each LDAP *)
(* call is atomic, a connection is made when somebody listens, made again  *)
(* after that ended, and drops messages when its queue is full.            *)
(***************************************************************************)
EXTENDS Integers, FiniteSets

CONSTANTS
  Publishers, Subscribers,
  Offers,     \* possible assignments of a service to each publisher
  Prefixes,   \* pairs <<t, v>>: topic t is a proper prefix of service v
  Addresses,  \* host and port, in the LAN
  Loopback,   \* the loopback address with the port of each of them
  Near,       \* pairs <<s, a>>: subscriber s runs on the host of a
  None,
  MaxStarts,  \* processes started per publisher
  HWM         \* queue of a connection

ASSUME DirectoryAssumption ==
  /\ Offers \subseteq [Publishers -> STRING]
  /\ \A a \in Addresses : Loopback[a] \notin Addresses /\ Loopback[a] # None
  /\ None \notin Addresses
  /\ MaxStarts \in Nat \ {0} /\ HWM \in Nat \ {0}

VARIABLES
  ldap,       \* whether the programs are those that use the directory
  service,    \* the service each publisher offers
  directory,  \* ou=Services: the address listed for each name, or None
  pub,        \* each publisher: "off", "add", "delete", "add again", "bind", "publish"
  addr,       \* the host and port where it runs
  bound,      \* the addresses it listens at: one of the two, or both (0.0.0.0)
  listed,     \* the address it registers; without a directory there is none
  starts,     \* how often it was started
  sub,        \* each subscriber: "resolve", "connect", "listen", "failed", "stopped"
  wanted,     \* its topics
  resolved,   \* topics it has looked up
  targets,    \* the addresses it connects to
  links,      \* connections, as <<subscriber, publisher>>
  queued,     \* messages on each connection
  heard,      \* publishers each subscriber has heard since they started
  known,      \* history: names that were registered
  orphaned    \* history: names deleted by a publisher that died before it added them

publishers == <<pub, addr, bound, listed, starts>>
subscribers == <<sub, resolved, targets>>
traffic == <<links, queued, heard>>
entries == <<directory, known, orphaned>>
given == <<ldap, service, wanted>>
vars == <<publishers, subscribers, traffic, entries, given>>

Services == {o[p] : o \in Offers, p \in Publishers}
Links == Subscribers \X Publishers
Listable == Addresses \union {Loopback[a] : a \in Addresses}

-----------------------------------------------------------------------------
(* Pieces of the code a property hangs on, and plausible mistakes in them. *)

\* MISTAKE: a name that is listed already counts as registered.
LeaveListed == "bind"

\* What follows an add_s that raises ALREADY_EXISTS.
WhenListed == "delete"

\* MISTAKE: a publisher that ends unregisters its name, whoever listed it.
DirectoryWithout(v) == [directory EXCEPT ![v] = None]

\* A publisher that ends leaves its entry behind.
DirectoryAfterEnd(v) == directory

\* MISTAKE: the loop skips the first topic.
SubscribedButFirst(s) == wanted[s] \ {CHOOSE t \in wanted[s] : TRUE}

\* The subscriptions of the socket: all topics.
Subscribed(s) == wanted[s]

\* ZeroMQ compares the topic with the beginning of the message.
Matches(s, v) == \E t \in Subscribed(s) : t = v \/ <<t, v>> \in Prefixes

\* MISTAKE: the address the socket is bound to is published as it is.
PublishedAsBound(b) == IF Cardinality(b) > 1 THEN {"0.0.0.0"} ELSE b

\* obtener_ip_local: a socket bound to all addresses is published with the one
\* its host uses on the LAN, or with the loopback address when there is no
\* route; a given address is published as it is.
Published(b) == b

\* bindHost: the address of the host, the loopback address, or 0.0.0.0.
Bindings(a) == {{a}, {Loopback[a]}, {a, Loopback[a]}}

\* add_s raises ALREADY_EXISTS for a name that is listed.
CanAdd(p) == directory[service[p]] = None

\* Two publishers that cannot listen at the same time.
Collide(p, q) == addr[p] = addr[q] /\ bound[p] \intersect bound[q] # {}

\* A target of s leads to p; the loopback address only on p's own host.
Reaches(s, p) ==
  \E t \in targets[s] \intersect bound[p] : t = addr[p] \/ <<s, addr[p]>> \in Near

-----------------------------------------------------------------------------
\* Topics, at least one, and without a directory any list of addresses are the
\* user's.
Init ==
  /\ ldap \in BOOLEAN
  /\ service \in Offers
  /\ directory = [v \in Services |-> None]
  /\ pub = [p \in Publishers |-> "off"]
  /\ addr = [p \in Publishers |-> None] /\ listed = [p \in Publishers |-> None]
  /\ bound = [p \in Publishers |-> {}]
  /\ starts = [p \in Publishers |-> 0]
  /\ wanted \in [Subscribers -> (SUBSET Services) \ {{}}]
  /\ sub = [s \in Subscribers |-> IF ldap THEN "resolve" ELSE "connect"]
  /\ resolved = [s \in Subscribers |-> {}]
  /\ IF ldap THEN targets = [s \in Subscribers |-> {}]
             ELSE targets \in [Subscribers -> SUBSET Listable]
  /\ links = {} /\ queued = [l \in Links |-> 0]
  /\ heard = [s \in Subscribers |-> {}]
  /\ known = {} /\ orphaned = {}

-----------------------------------------------------------------------------
(* Publishers *)

\* A publisher is started, on any host and port.
Start(p) ==
  /\ pub[p] = "off" /\ starts[p] < MaxStarts
  /\ starts' = [starts EXCEPT ![p] = @ + 1]
  /\ pub' = [pub EXCEPT ![p] = IF ldap THEN "add" ELSE "bind"]
  /\ \E a \in Addresses : \E b \in Bindings(a) : \E l \in Published(b) :
       /\ addr' = [addr EXCEPT ![p] = a]
       /\ bound' = [bound EXCEPT ![p] = b]
       /\ listed' = [listed EXCEPT ![p] = IF ldap THEN l ELSE None]
  /\ UNCHANGED <<subscribers, traffic, entries, given>>

\* An add_s that succeeds, the first or the second.
Register(p) ==
  /\ directory' = [directory EXCEPT ![service[p]] = listed[p]]
  /\ known' = known \union {service[p]}
  /\ orphaned' = orphaned \ {service[p]}

\* add_s: the name is new, or listed already.
Add(p) ==
  /\ pub[p] = "add"
  /\ IF CanAdd(p)
     THEN Register(p) /\ pub' = [pub EXCEPT ![p] = "bind"]
     ELSE UNCHANGED entries /\ pub' = [pub EXCEPT ![p] = WhenListed]
  /\ UNCHANGED <<addr, bound, listed, starts, subscribers, traffic, given>>

\* The process ends: its socket is closed, which ends its connections with some of
\* their messages.  What it registered stays.
End(p) ==
  /\ pub' = [pub EXCEPT ![p] = "off"]
  /\ addr' = [addr EXCEPT ![p] = None] /\ listed' = [listed EXCEPT ![p] = None]
  /\ bound' = [bound EXCEPT ![p] = {}]
  /\ links' = {l \in links : l[2] # p}
  /\ queued' = [l \in Links |-> IF l[2] = p THEN 0 ELSE queued[l]]
  /\ heard' = [s \in Subscribers |-> heard[s] \ {p}]
  /\ UNCHANGED <<starts, subscribers, given>>

\* delete_s removes the entry.  It raises NO_SUCH_OBJECT, which ends the
\* program, when somebody else was faster.
Delete(p) ==
  /\ pub[p] = "delete"
  /\ IF directory[service[p]] = None
     THEN End(p) /\ UNCHANGED entries
     ELSE /\ pub' = [pub EXCEPT ![p] = "add again"]
          /\ directory' = [directory EXCEPT ![service[p]] = None]
          /\ UNCHANGED <<known, orphaned, addr, bound, listed, starts, subscribers, traffic, given>>

\* The add_s after it.  Its ALREADY_EXISTS is not caught and ends the program.
AddAgain(p) ==
  /\ pub[p] = "add again"
  /\ IF CanAdd(p)
     THEN /\ Register(p)
          /\ pub' = [pub EXCEPT ![p] = "bind"]
          /\ UNCHANGED <<addr, bound, listed, starts, subscribers, traffic, given>>
     ELSE End(p) /\ UNCHANGED entries

\* bind, after the registration; a taken address ends the program.
Bind(p) ==
  /\ pub[p] = "bind"
  /\ UNCHANGED entries
  /\ IF \E q \in Publishers : pub[q] = "publish" /\ Collide(p, q)
     THEN End(p)
     ELSE /\ pub' = [pub EXCEPT ![p] = "publish"]
          /\ UNCHANGED <<addr, bound, listed, starts, subscribers, traffic, given>>

\* A turn of the loop: the message goes into every connection that has room and
\* a subscription that matches.
Publish(p) ==
  /\ pub[p] = "publish"
  /\ queued' = [l \in Links |->
       IF l \in links /\ l[2] = p /\ Matches(l[1], service[p]) /\ queued[l] < HWM
       THEN queued[l] + 1 ELSE queued[l]]
  /\ UNCHANGED <<publishers, subscribers, links, heard, entries, given>>

\* Ctrl+C, a crash, or a directory that cannot be reached.
Die(p) ==
  /\ pub[p] # "off"
  /\ End(p)
  /\ directory' = DirectoryAfterEnd(service[p])
  /\ orphaned' = IF pub[p] = "add again" /\ directory[service[p]] = None
                 THEN orphaned \union {service[p]} ELSE orphaned
  /\ UNCHANGED known

-----------------------------------------------------------------------------
(* Subscribers *)

\* The local variables of a subscriber that ends.
Forget(s) ==
  /\ resolved' = [resolved EXCEPT ![s] = {}]
  /\ targets' = [targets EXCEPT ![s] = {}]

\* resolver_servicio for the next topic; LookupError ends the program.
Resolve(s, t) ==
  /\ sub[s] = "resolve"
  /\ t \in wanted[s] \ resolved[s]
  /\ IF directory[t] = None
     THEN sub' = [sub EXCEPT ![s] = "failed"] /\ Forget(s)
     ELSE /\ targets' = [targets EXCEPT ![s] = @ \union {directory[t]}]
          /\ resolved' = [resolved EXCEPT ![s] = @ \union {t}]
          /\ sub' = [sub EXCEPT ![s] = IF wanted[s] \subseteq resolved'[s]
                                       THEN "connect" ELSE "resolve"]
  /\ UNCHANGED <<publishers, traffic, entries, given>>

\* connect to every address, subscribe to every topic; neither waits.
Connect(s) ==
  /\ sub[s] = "connect"
  /\ sub' = [sub EXCEPT ![s] = "listen"]
  /\ UNCHANGED <<publishers, resolved, targets, traffic, entries, given>>

\* ZeroMQ makes the connection when somebody listens at the address.  A second
\* connect to an address adds none, and one through the other address of the same
\* publisher would only double its messages.
Link(s, p) ==
  /\ sub[s] = "listen" /\ pub[p] = "publish"
  /\ <<s, p>> \notin links
  /\ Reaches(s, p)
  /\ links' = links \union {<<s, p>>}
  /\ UNCHANGED <<publishers, subscribers, queued, heard, entries, given>>

\* recv_string
Receive(s, p) ==
  /\ sub[s] = "listen" /\ queued[<<s, p>>] > 0
  /\ queued' = [queued EXCEPT ![<<s, p>>] = @ - 1]
  /\ heard' = [heard EXCEPT ![s] = @ \union {p}]
  /\ UNCHANGED <<publishers, subscribers, links, entries, given>>

\* Ctrl+C
Stop(s) ==
  /\ sub[s] = "listen"
  /\ sub' = [sub EXCEPT ![s] = "stopped"]
  /\ Forget(s)
  /\ links' = {l \in links : l[1] # s}
  /\ queued' = [l \in Links |-> IF l[1] = s THEN 0 ELSE queued[l]]
  /\ heard' = [heard EXCEPT ![s] = {}]
  /\ UNCHANGED <<publishers, entries, given>>

-----------------------------------------------------------------------------
Publishing(p) == Add(p) \/ Delete(p) \/ AddAgain(p) \/ Bind(p) \/ Publish(p)
Subscribing(s) == Connect(s) \/ \E t \in wanted[s] : Resolve(s, t)

Next ==
  \/ \E p \in Publishers : Start(p) \/ Publishing(p) \/ Die(p)
  \/ \E s \in Subscribers : Subscribing(s) \/ Stop(s)
  \/ \E s \in Subscribers, p \in Publishers : Link(s, p) \/ Receive(s, p)

\* Running programs go on, ZeroMQ keeps trying to connect; nobody need start, stop
\* or die.
Spec ==
  /\ Init /\ [][Next]_vars
  /\ \A p \in Publishers : WF_vars(Publishing(p))
  /\ \A s \in Subscribers : WF_vars(Subscribing(s))
  /\ \A s \in Subscribers, p \in Publishers : WF_vars(Link(s, p)) /\ WF_vars(Receive(s, p))

-----------------------------------------------------------------------------
(* Properties *)

\* The types of the variables; connections join programs that run, at most one
\* of them per address, and only they carry messages.
TypeOK ==
  /\ directory \in [Services -> Listable \union {None}]
  /\ pub \in [Publishers -> {"off", "add", "delete", "add again", "bind", "publish"}]
  /\ addr \in [Publishers -> Addresses \union {None}]
  /\ bound \in [Publishers -> SUBSET Listable]
  /\ listed \in [Publishers -> Listable \union {None}]
  /\ starts \in [Publishers -> 0..MaxStarts]
  /\ sub \in [Subscribers -> {"resolve", "connect", "listen", "failed", "stopped"}]
  /\ resolved \in [Subscribers -> SUBSET Services]
  /\ targets \in [Subscribers -> SUBSET Listable]
  /\ \A l \in links : sub[l[1]] = "listen" /\ pub[l[2]] = "publish"
  /\ \A p, q \in Publishers :
       pub[p] = "publish" /\ pub[q] = "publish" /\ Collide(p, q) => p = q
  /\ queued \in [Links -> 0..HWM]
  /\ \A l \in Links : queued[l] > 0 => l \in links
  /\ heard \in [Subscribers -> SUBSET Publishers]
  /\ orphaned \subseteq known /\ known \subseteq Services

\* A publisher that is the only one of its service and is past its registration is
\* listed with the address it published, however often it was started elsewhere
\* before and wherever it died then.
SoleProviderListed ==
  ldap => \A p \in Publishers :
    /\ pub[p] \in {"bind", "publish"}
    /\ \A q \in Publishers \ {p} : service[q] # service[p]
    => directory[service[p]] = listed[p]

\* Publishers of one name that race in add, delete and add never lose it: a name
\* once registered is missing only while one of them is between its delete and
\* its second add, or when the last to delete it died there.
MissingOnlyMidway ==
  \A v \in known :
    directory[v] = None =>
      \/ \E p \in Publishers : service[p] = v /\ pub[p] = "add again"
      \/ v \in orphaned

\* A subscriber that asked for the address of a running publisher and for its topic
\* hears it, whether it came before or after the publisher, also when that was
\* started again at its address, unless one of them ends.
Heard ==
  \A s \in Subscribers, p \in Publishers :
    (/\ sub[s] = "listen" /\ pub[p] = "publish"
     /\ service[p] \in wanted[s] /\ Reaches(s, p))
      ~> (p \in heard[s] \/ pub[p] # "publish" \/ sub[s] # "listen")
=============================================================================

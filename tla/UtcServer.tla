----------------------------- MODULE UtcServer -----------------------------
(***************************************************************************)
(* Workshop 4, part 1: the UTC server and its clients.                     *)
(*                                                                         *)
(* The server answers the requests that reach its REP socket one after the *)
(* other.  The client program runs a thread per client; each asks once     *)
(* through a REQ socket of its own and gives up after a time-out.  Other   *)
(* programs ask the same server too, whatever they like, as often as they  *)
(* like and without a time-out.                                            *)
(***************************************************************************)
EXTENDS Integers, FiniteSets

CONSTANTS
  Strangers,     \* other programs that use the server
  Arguments,     \* numbers a user may give as a port; 0 stands for none
  Counts,        \* numbers of clients a user may ask for
  MaxClients,    \* validate_count's maximum
  NoOne

ASSUME UtcAssumption ==
  /\ Arguments \subseteq Nat /\ Counts \subseteq Nat
  /\ MaxClients \in Nat
  /\ NoOne \notin Strangers \union Nat /\ Strangers \intersect Nat = {}

Clients == 1..MaxClients
Peers == Clients \union Strangers

VARIABLES
  srv,      \* server: "bind", "recv", "work" or "ended"
  port,     \* the port the server was given
  taken,    \* whether another program has that port
  serving,  \* the peer the REP socket has to answer before it can receive
  main,     \* client program: "args", "start", "join", "interrupted", "done"
  target,   \* the port it was given
  count,    \* the number of clients it was asked for
  pc,       \* each peer: "idle", "wait" or "closed"
  text,     \* the request a peer sent last
  outcome,  \* what a client printed
  pending,  \* peers with a request the server has not received
  answers   \* replies on their way, as <<peer, reply>>

server == <<srv, serving>>
program == <<main, outcome>>
network == <<pending, answers>>
given == <<port, taken, target, count>>
vars == <<server, program, network, given, pc, text>>

-----------------------------------------------------------------------------
(* Pieces of the code a property hangs on, and plausible mistakes in them. *)

\* MISTAKE: the request is compared as it came.
AsSent(t) == t

\* text.upper(), for the texts there are.
Upper(t) == IF t = "Time request" THEN "TIME REQUEST" ELSE t

VALID_REQUESTS == {"TIME REQUEST", "TIME", "PING"}

\* Requests peers send: one in mixed case, a valid one, and all that
\* validate_request rejects (empty, too large, not UTF-8, blank, unknown).
Texts == {"Time request", "PING", "rejected"}

validate_request(t) == Upper(t) \in VALID_REQUESTS

\* MISTAKE: a rejected request gets no answer.
RejectInSilence(p) == p

\* What the REP socket still has to answer after a request of p was rejected.
AfterReject(p) == NoOne

\* MISTAKE: a client waits for ever.
NeverTimesOut(c) == FALSE

\* RCVTIMEO
TimesOut(c) == pc[c] = "wait"

MaxPort == 65535

\* MISTAKE: a number beyond the range is taken.
AnyPort(v) == TRUE

\* Both programs' validate_port: no argument is the default, 5000.
ValidPort(v) == v = 0 \/ v \in 1..MaxPort
PortOf(v) == IF v = 0 THEN 5000 ELSE v

ValidCount(n) == n \in 1..MaxClients

-----------------------------------------------------------------------------
Init ==
  /\ srv = "bind" /\ port \in {v \in Arguments : ValidPort(v)}
  /\ taken \in BOOLEAN
  /\ serving = NoOne
  /\ main = "args" /\ target \in Arguments /\ count \in Counts
  /\ pc = [p \in Peers |-> "idle"]
  /\ text = [p \in Peers |-> "Time request"]
  /\ outcome = [c \in Clients |-> "none"]
  /\ pending = {} /\ answers = {}

-----------------------------------------------------------------------------
(* The server *)

\* The socket is bound, or the port is taken and the program returns.
Bind ==
  /\ srv = "bind"
  /\ srv' = IF taken THEN "ended" ELSE "recv"
  /\ UNCHANGED <<serving, program, network, given, pc, text>>

\* A REP socket receives only when it has answered the request before.
Recv(p) ==
  /\ srv = "recv" /\ serving = NoOne
  /\ p \in pending
  /\ srv' = "work" /\ serving' = p
  /\ pending' = pending \ {p}
  /\ UNCHANGED <<answers, program, given, pc, text>>

\* A reply to p; the socket drops it when p is gone.
Reply(p, r) == answers' = answers \union {<<q, r>> : q \in {q \in {p} : pc[q] = "wait"}}

Reject(p) ==
  /\ srv = "work" /\ serving = p
  /\ ~validate_request(text[p])
  /\ IF AfterReject(p) = NoOne THEN Reply(p, "ERROR") ELSE UNCHANGED answers
  /\ srv' = "recv" /\ serving' = AfterReject(p)
  /\ UNCHANGED <<pending, program, given, pc, text>>

Answer(p) ==
  /\ srv = "work" /\ serving = p
  /\ validate_request(text[p])
  /\ Reply(p, "UTC")
  /\ srv' = "recv" /\ serving' = NoOne
  /\ UNCHANGED <<pending, program, given, pc, text>>

\* Ctrl+C, or an error of the socket: close(linger=0) may drop replies already
\* sent, and requests not yet received are lost.
ServerEnds ==
  /\ srv \in {"recv", "work"}
  /\ srv' = "ended" /\ serving' = NoOne
  /\ pending' = {}
  /\ answers' \in SUBSET answers
  /\ UNCHANGED <<program, given, pc, text>>

-----------------------------------------------------------------------------
(* The client program *)

\* main checks its arguments.
CheckArguments ==
  /\ main = "args"
  /\ main' = IF ValidPort(target) /\ ValidCount(count) THEN "start" ELSE "done"
  /\ UNCHANGED <<server, outcome, network, given, pc, text>>

\* A request of p leaves for the port it knows.  It waits for a server that is
\* not up yet, and is never delivered when that port is not the server's.
Ask(p, t, knows) ==
  /\ pc' = [pc EXCEPT ![p] = "wait"]
  /\ text' = [text EXCEPT ![p] = t]
  /\ pending' = IF knows = PortOf(port) /\ ~taken /\ srv # "ended"
                THEN pending \union {p} ELSE pending
  /\ UNCHANGED <<server, answers, given>>

\* The threads are started in order, and each asks.
StartClient(c) ==
  /\ main = "start" /\ c \in 1..count
  /\ pc[c] = "idle" /\ \A d \in 1..(c - 1) : pc[d] # "idle"
  /\ Ask(c, "Time request", PortOf(target))
  /\ UNCHANGED program

AllStarted ==
  /\ main = "start" /\ \A c \in 1..count : pc[c] # "idle"
  /\ main' = "join"
  /\ UNCHANGED <<server, outcome, network, given, pc, text>>

\* A thread closes its socket, with whatever was on its way: a request that was
\* not delivered yet may be dropped (it is when there is no server), a reply is.
Close(c, o) ==
  /\ pc' = [pc EXCEPT ![c] = "closed"]
  /\ outcome' = [outcome EXCEPT ![c] = o]
  /\ answers' = {a \in answers : a[1] # c}
  /\ \/ pending' = pending \ {c}
     \/ srv # "bind" /\ pending' = pending
  /\ UNCHANGED <<server, main, given, text>>

\* validate_reply takes a time and nothing else.
Receive(c) ==
  /\ pc[c] = "wait"
  /\ \E a \in answers : a[1] = c /\ Close(c, IF a[2] = "UTC" THEN "time" ELSE "bad reply")

TimeOut(c) == TimesOut(c) /\ Close(c, "timeout")

\* A failure of the socket, caught like the others.
Fail(c) == pc[c] = "wait" /\ Close(c, "failed")

\* Ctrl+C reaches the main thread while it starts or joins the others.
Interrupt ==
  /\ main \in {"start", "join"}
  /\ main' = "interrupted"
  /\ UNCHANGED <<server, outcome, network, given, pc, text>>

\* join returns for every thread (the interpreter waits for them as well), and
\* term, which waits for every socket.
Finish ==
  /\ main \in {"join", "interrupted"}
  /\ \A c \in Clients : pc[c] # "wait"
  /\ main' = "done"
  /\ UNCHANGED <<server, outcome, network, given, pc, text>>

-----------------------------------------------------------------------------
(* Other programs *)

StrangerAsks(s) ==
  /\ pc[s] = "idle"
  /\ \E t \in Texts : Ask(s, t, PortOf(port))
  /\ UNCHANGED program

StrangerReceives(s) ==
  /\ pc[s] = "wait"
  /\ \E a \in answers : a[1] = s /\ answers' = answers \ {a}
  /\ pc' = [pc EXCEPT ![s] = "idle"]
  /\ text' = [text EXCEPT ![s] = "Time request"]
  /\ UNCHANGED <<server, program, pending, given>>

-----------------------------------------------------------------------------
ServerStep == Bind \/ (\E p \in Peers : Reject(p) \/ Answer(p))
ThreadStep(c) == Receive(c) \/ TimeOut(c)
MainStep == CheckArguments \/ AllStarted \/ Finish \/ \E c \in Clients : StartClient(c)

Next ==
  \/ ServerStep \/ ServerEnds \/ \E p \in Peers : Recv(p)
  \/ MainStep \/ Interrupt \/ \E c \in Clients : ThreadStep(c) \/ Fail(c)
  \/ \E s \in Strangers : StrangerAsks(s) \/ StrangerReceives(s)

\* Running programs go on, and a REP socket takes requests from its peers in turn.
\* Nothing makes a socket fail, a user interrupt a program or a stranger ask.
Spec ==
  /\ Init /\ [][Next]_vars
  /\ WF_vars(ServerStep) /\ WF_vars(MainStep)
  /\ \A p \in Peers : SF_vars(Recv(p))
  /\ \A c \in Clients : WF_vars(ThreadStep(c))
  /\ \A s \in Strangers : WF_vars(StrangerReceives(s))

-----------------------------------------------------------------------------
(* Properties *)

\* The types of the variables; a port in use is a port there is.
TypeOK ==
  /\ srv \in {"bind", "recv", "work", "ended"}
  /\ taken \in BOOLEAN
  /\ PortOf(port) \in 1..MaxPort
  /\ serving \in Peers \union {NoOne}
  /\ main \in {"args", "start", "join", "interrupted", "done"}
  /\ pc \in [Peers -> {"idle", "wait", "closed"}]
  /\ text \in [Peers -> Texts]
  /\ outcome \in [Clients -> {"none", "time", "timeout", "failed", "bad reply"}]
  /\ pending \subseteq Peers
  /\ answers \subseteq Peers \X {"UTC", "ERROR"}

\* The client's own request is one the server accepts: no thread ever sees the
\* "ERROR:" reply meant for others, whatever strangers send at the same time.
OwnRequestAccepted == \A c \in Clients : outcome[c] # "bad reply"

\* "Con REP hay que responder SIEMPRE": a peer that waits without a time-out gets
\* its answer as long as the server runs, whatever it or others sent before, and
\* even though clients give up while the server works for them.
EveryRequestAnswered ==
  \A s \in Strangers :
    pc[s] = "wait" ~> (pc[s] # "wait" \/ srv = "ended" \/ taken)

\* The client program ends, with or without a server: each thread closes its
\* socket on every path, so neither join nor term waits for ever.
ClientProgramEnds == <>(main = "done")
=============================================================================

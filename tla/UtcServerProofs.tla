-------------------------- MODULE UtcServerProofs --------------------------
(***************************************************************************)
(* No client of the UTC server is rejected, for any number of clients and  *)
(* of other programs, whatever those send.                                 *)
(*                                                                         *)
(* The property is about what a thread prints.  The invariant follows the  *)
(* request of a client there and back: its text is always the same, so the *)
(* only answer ever sent to it is a time.                                  *)
(***************************************************************************)
EXTENDS UtcServer, TLAPS

Outcomes == {"none", "time", "timeout", "failed", "bad reply"}

\* What is known of the texts and answers of the client program.
ClientsServed ==
  \A c \in Clients : /\ text[c] = "Time request"
                     /\ \A a \in answers : a[1] = c => a[2] = "UTC"

Shape == text \in [Peers -> Texts] /\ outcome \in [Clients -> Outcomes]

Inv == Shape /\ ClientsServed /\ OwnRequestAccepted

LEMMA ClientsAreNotStrangers == \A s \in Strangers : s \in Peers /\ s \notin Clients
<1>1. Clients \subseteq Nat
  BY UtcAssumption DEF Clients
<1>. QED BY <1>1, UtcAssumption DEF Peers

LEMMA ClientsArePeers == \A c \in Clients : c \in Peers
  BY DEF Peers

LEMMA ClientText == validate_request("Time request")
  BY DEF validate_request, Upper, VALID_REQUESTS

LEMMA InitInv == ASSUME Init PROVE Inv
<1>. USE DEF Init
<1>1. Shape
  BY DEF Shape, Texts, Outcomes
<1>2. ClientsServed
  BY ClientsArePeers DEF ClientsServed
<1>3. OwnRequestAccepted
  BY DEF OwnRequestAccepted
<1>. QED BY <1>1, <1>2, <1>3 DEF Inv

-----------------------------------------------------------------------------
(* The server *)

\* A step that leaves the texts and outcomes alone keeps the invariant when the
\* replies it sends to clients, if any, are times.
LEMMA RepliesOnly ==
  ASSUME Inv, UNCHANGED <<text, outcome>>,
         \A a \in answers' : a \in answers \/ (a[1] \in Clients => a[2] = "UTC")
  PROVE  Inv'
<1>1. Shape'
  BY DEF Inv, Shape
<1>2. ClientsServed'
  BY DEF Inv, ClientsServed
<1>3. OwnRequestAccepted'
  BY DEF Inv, OwnRequestAccepted
<1>. QED BY <1>1, <1>2, <1>3 DEF Inv

\* What Reply(p, r) adds.
LEMMA ReplyFacts ==
  ASSUME NEW p, NEW r, Reply(p, r)
  PROVE  \A a \in answers' : a \in answers \/ (a[1] = p /\ a[2] = r)
<1>1. \A a \in answers' : a \in answers \/ a = <<p, r>>
  BY DEF Reply
<1>. QED BY <1>1

LEMMA RejectInv ==
  ASSUME Inv, NEW p \in Peers, Reject(p)
  PROVE  Inv'
<1>1. p \notin Clients
  BY ClientText DEF Reject, Inv, ClientsServed
<1>2. Reply(p, "ERROR") /\ UNCHANGED <<text, outcome>>
  BY DEF Reject, AfterReject, program
<1>. QED BY <1>1, <1>2, ReplyFacts, RepliesOnly

LEMMA AnswerInv ==
  ASSUME Inv, NEW p \in Peers, Answer(p)
  PROVE  Inv'
<1>1. Reply(p, "UTC") /\ UNCHANGED <<text, outcome>>
  BY DEF Answer, program
<1>. QED BY <1>1, ReplyFacts, RepliesOnly

LEMMA ServerInv ==
  ASSUME Inv, ServerStep \/ ServerEnds \/ \E p \in Peers : Recv(p)
  PROVE  Inv'
<1>1. CASE Bind
  BY <1>1, RepliesOnly DEF Bind, program, network
<1>2. CASE ServerEnds
  BY <1>2, RepliesOnly DEF ServerEnds, program
<1>3. CASE \E p \in Peers : Recv(p)
  BY <1>3, RepliesOnly DEF Recv, program
<1>4. CASE \E p \in Peers : Reject(p) \/ Answer(p)
  BY <1>4, RejectInv, AnswerInv
<1>. QED BY <1>1, <1>2, <1>3, <1>4 DEF ServerStep

-----------------------------------------------------------------------------
(* The client program and the other programs *)

LEMMA AskInv ==
  ASSUME Inv, NEW p \in Peers, NEW t \in Texts, NEW knows, Ask(p, t, knows),
         p \in Clients => t = "Time request", UNCHANGED program
  PROVE  Inv'
<1>. USE DEF Ask, program
<1>1. Shape'
  BY DEF Inv, Shape
<1>2. ClientsServed'
  BY ClientsArePeers DEF Inv, Shape, ClientsServed
<1>3. OwnRequestAccepted'
  BY DEF Inv, OwnRequestAccepted
<1>. QED BY <1>1, <1>2, <1>3 DEF Inv

LEMMA CloseInv ==
  ASSUME Inv, NEW c \in Clients, NEW o \in Outcomes, o # "bad reply", Close(c, o)
  PROVE  Inv'
<1>. USE DEF Close
<1>1. Shape'
  BY DEF Inv, Shape
<1>2. ClientsServed'
  BY DEF Inv, ClientsServed
<1>3. OwnRequestAccepted'
  BY DEF Inv, Shape, OwnRequestAccepted
<1>. QED BY <1>1, <1>2, <1>3 DEF Inv

LEMMA ThreadInv ==
  ASSUME Inv, NEW c \in Clients, ThreadStep(c) \/ Fail(c)
  PROVE  Inv'
<1>. USE DEF Outcomes
<1>1. CASE Receive(c)
  <2>1. Close(c, "time")
    BY <1>1 DEF Receive, Inv, ClientsServed
  <2>. QED BY <2>1, CloseInv
<1>2. CASE TimeOut(c)
  BY <1>2, CloseInv DEF TimeOut
<1>3. CASE Fail(c)
  BY <1>3, CloseInv DEF Fail
<1>. QED BY <1>1, <1>2, <1>3 DEF ThreadStep

LEMMA MainInv ==
  ASSUME Inv, MainStep \/ Interrupt
  PROVE  Inv'
<1>1. CASE CheckArguments \/ AllStarted \/ Finish \/ Interrupt
  BY <1>1, RepliesOnly DEF CheckArguments, AllStarted, Finish, Interrupt, network
<1>2. ASSUME NEW c \in Clients, StartClient(c)
      PROVE  Inv'
  <2>1. c \in Peers /\ "Time request" \in Texts
    BY ClientsArePeers DEF Texts
  <2>. QED BY <1>2, <2>1, AskInv DEF StartClient
<1>. QED BY <1>1, <1>2 DEF MainStep

LEMMA StrangerInv ==
  ASSUME Inv, NEW s \in Strangers, StrangerAsks(s) \/ StrangerReceives(s)
  PROVE  Inv'
<1>1. s \in Peers /\ s \notin Clients
  BY ClientsAreNotStrangers
<1>2. CASE StrangerAsks(s)
  BY <1>1, <1>2, AskInv DEF StrangerAsks
<1>3. CASE StrangerReceives(s)
  <2>. USE <1>3 DEF StrangerReceives, program
  <2>1. Shape'
    BY <1>1 DEF Inv, Shape, Texts
  <2>2. ClientsServed'
    <3>1. \A c \in Clients : text'[c] = text[c]
      BY <1>1, ClientsArePeers DEF Inv, Shape
    <3>2. answers' \subseteq answers
      OBVIOUS
    <3>. QED BY <3>1, <3>2 DEF Inv, ClientsServed
  <2>3. OwnRequestAccepted'
    BY DEF Inv, OwnRequestAccepted
  <2>. QED BY <2>1, <2>2, <2>3 DEF Inv
<1>. QED BY <1>2, <1>3

-----------------------------------------------------------------------------
(* Theorems *)

LEMMA NextInv ==
  ASSUME Inv, [Next]_vars
  PROVE  Inv'
<1>1. CASE UNCHANGED vars
  BY <1>1, RepliesOnly DEF vars, program, network
<1>2. CASE Next
  BY <1>2, ServerInv, ThreadInv, MainInv, StrangerInv DEF Next
<1>. QED BY <1>1, <1>2

\* What the steps do to the types; TypeOK is inductive by itself.
Answers == Peers \X {"UTC", "ERROR"}

TypesButPort ==
  /\ srv \in {"bind", "recv", "work", "ended"}
  /\ serving \in Peers \union {NoOne}
  /\ main \in {"args", "start", "join", "interrupted", "done"}
  /\ pc \in [Peers -> {"idle", "wait", "closed"}]
  /\ text \in [Peers -> Texts]
  /\ outcome \in [Clients -> Outcomes]
  /\ pending \subseteq Peers
  /\ answers \subseteq Answers

LEMMA AskTypes ==
  ASSUME TypesButPort, NEW p \in Peers, NEW t \in Texts, NEW knows, Ask(p, t, knows),
         UNCHANGED program
  PROVE  TypesButPort'
<1>1. pc' \in [Peers -> {"idle", "wait", "closed"}] /\ text' \in [Peers -> Texts]
  BY DEF TypesButPort, Ask
<1>2. pending' \subseteq Peers
  BY DEF TypesButPort, Ask
<1>3. UNCHANGED <<srv, serving, main, outcome, answers>>
  BY DEF Ask, program, server
<1>. QED BY <1>1, <1>2, <1>3 DEF TypesButPort

LEMMA CloseTypes ==
  ASSUME TypesButPort, NEW c \in Clients, NEW o \in Outcomes, Close(c, o)
  PROVE  TypesButPort'
<1>1. pc' \in [Peers -> {"idle", "wait", "closed"}] /\ outcome' \in [Clients -> Outcomes]
  BY DEF TypesButPort, Close
<1>2. pending' \subseteq Peers /\ answers' \subseteq Answers
  BY DEF TypesButPort, Close
<1>3. UNCHANGED <<srv, serving, main, text>>
  BY DEF Close, server
<1>. QED BY <1>1, <1>2, <1>3 DEF TypesButPort

LEMMA ReplyTypes ==
  ASSUME TypesButPort, NEW p \in Peers, NEW r \in {"UTC", "ERROR"}, Reply(p, r)
  PROVE  answers' \subseteq Answers
<1>1. <<p, r>> \in Answers
  BY DEF Answers
<1>2. \A a \in answers' : a \in answers \/ a = <<p, r>>
  BY DEF Reply
<1>. QED BY <1>1, <1>2 DEF TypesButPort

LEMMA NextTypes ==
  ASSUME TypesButPort, [Next]_vars
  PROVE  TypesButPort'
<1>1. CASE UNCHANGED vars
  BY <1>1 DEF TypesButPort, vars, server, program, network
<1>2. CASE Bind
  BY <1>2 DEF TypesButPort, Bind, program, network
<1>3. ASSUME NEW p \in Peers, Recv(p)
      PROVE  TypesButPort'
  BY <1>3 DEF TypesButPort, Recv, program
<1>4. CASE ServerEnds
  BY <1>4 DEF TypesButPort, ServerEnds, program
<1>5. ASSUME NEW p \in Peers, Reject(p)
      PROVE  TypesButPort'
  <2>1. answers' \subseteq Answers
    BY <1>5, ReplyTypes DEF Reject, AfterReject
  <2>2. srv' = "recv" /\ serving' = NoOne /\ UNCHANGED <<pending, main, outcome, pc, text>>
    BY <1>5 DEF Reject, AfterReject, program
  <2>. QED BY <2>1, <2>2 DEF TypesButPort
<1>6. ASSUME NEW p \in Peers, Answer(p)
      PROVE  TypesButPort'
  <2>1. answers' \subseteq Answers
    BY <1>6, ReplyTypes DEF Answer
  <2>2. srv' = "recv" /\ serving' = NoOne /\ UNCHANGED <<pending, main, outcome, pc, text>>
    BY <1>6 DEF Answer, program
  <2>. QED BY <2>1, <2>2 DEF TypesButPort
<1>7. CASE CheckArguments \/ AllStarted \/ Finish \/ Interrupt
  <2>1. /\ main' \in {"args", "start", "join", "interrupted", "done"}
        /\ UNCHANGED <<srv, serving, outcome, pending, answers, pc, text>>
    BY <1>7 DEF CheckArguments, AllStarted, Finish, Interrupt, server, network
  <2>. QED BY <2>1 DEF TypesButPort
<1>8. ASSUME NEW c \in Clients, StartClient(c)
      PROVE  TypesButPort'
  <2>1. c \in Peers /\ "Time request" \in Texts
    BY ClientsArePeers DEF Texts
  <2>. QED BY <1>8, <2>1, AskTypes DEF StartClient
<1>9. ASSUME NEW c \in Clients, ThreadStep(c) \/ Fail(c)
      PROVE  TypesButPort'
  <2>1. "time" \in Outcomes /\ "bad reply" \in Outcomes /\ "timeout" \in Outcomes /\ "failed" \in Outcomes
    BY DEF Outcomes
  <2>2. \E o \in Outcomes : Close(c, o)
    BY <1>9, <2>1 DEF ThreadStep, Receive, TimeOut, Fail
  <2>. QED BY <2>2, CloseTypes
<1>10. ASSUME NEW s \in Strangers, StrangerAsks(s)
      PROVE  TypesButPort'
  BY <1>10, ClientsAreNotStrangers, AskTypes DEF StrangerAsks
<1>11. ASSUME NEW s \in Strangers, StrangerReceives(s)
      PROVE  TypesButPort'
  <2>1. "Time request" \in Texts
    BY DEF Texts
  <2>2. pc' \in [Peers -> {"idle", "wait", "closed"}] /\ text' \in [Peers -> Texts]
    BY <1>11, <2>1 DEF TypesButPort, StrangerReceives
  <2>3. answers' \subseteq Answers /\ UNCHANGED <<srv, serving, main, outcome, pending>>
    BY <1>11 DEF TypesButPort, StrangerReceives, server, program
  <2>. QED BY <2>2, <2>3 DEF TypesButPort
<1>12. CASE Next
  BY <1>12, <1>2, <1>3, <1>4, <1>5, <1>6, <1>7, <1>8, <1>9, <1>10, <1>11
     DEF Next, ServerStep, MainStep
<1>. QED BY <1>1, <1>12

PortsOK == taken \in BOOLEAN /\ PortOf(port) \in 1..MaxPort

LEMMA ValidPortIsPort ==
  ASSUME NEW v, ValidPort(v)
  PROVE  PortOf(v) \in 1..MaxPort
<1>1. MaxPort \in Nat /\ 5000 <= MaxPort
  BY DEF MaxPort
<1>. QED BY <1>1 DEF ValidPort, PortOf

\* The ports and arguments are given once and for all.
LEMMA NextGiven ==
  ASSUME [Next]_vars
  PROVE  UNCHANGED given
<1>1. CASE UNCHANGED vars
  BY <1>1 DEF vars
<1>2. CASE ServerStep \/ ServerEnds \/ \E p \in Peers : Recv(p)
  BY <1>2 DEF ServerStep, Bind, Reject, Answer, ServerEnds, Recv
<1>3. CASE MainStep \/ Interrupt
  BY <1>3 DEF MainStep, CheckArguments, AllStarted, Finish, StartClient, Ask, Interrupt
<1>4. CASE \E c \in Clients : ThreadStep(c) \/ Fail(c)
  BY <1>4 DEF ThreadStep, Receive, TimeOut, Fail, Close
<1>5. CASE \E s \in Strangers : StrangerAsks(s) \/ StrangerReceives(s)
  BY <1>5 DEF StrangerAsks, StrangerReceives, Ask
<1>. QED BY <1>1, <1>2, <1>3, <1>4, <1>5 DEF Next

THEOREM Invariance == Spec => []Inv
<1>1. Init => Inv
  BY InitInv
<1>2. Inv /\ [Next]_vars => Inv'
  BY NextInv
<1>. QED BY <1>1, <1>2, PTL DEF Spec

\* The variables keep their types, and a port in use is one there is.
THEOREM TypeCorrect == Spec => []TypeOK
<1>1. Init => TypesButPort /\ PortsOK
  <2>1. ASSUME Init PROVE TypesButPort
    BY <2>1 DEF Init, TypesButPort, Texts, Outcomes
  <2>2. ASSUME Init PROVE PortsOK
    BY <2>2, ValidPortIsPort DEF Init, PortsOK
  <2>. QED BY <2>1, <2>2
<1>2. TypesButPort /\ PortsOK /\ [Next]_vars => TypesButPort' /\ PortsOK'
  <2>1. ASSUME PortsOK, [Next]_vars PROVE PortsOK'
    <3>1. UNCHANGED <<taken, port>>
      BY <2>1, NextGiven DEF given
    <3>2. PortOf(port)' = PortOf(port)
      BY <3>1 DEF PortOf
    <3>. QED BY <2>1, <3>1, <3>2 DEF PortsOK
  <2>. QED BY <2>1, NextTypes
<1>3. TypesButPort /\ PortsOK => TypeOK
  BY DEF TypesButPort, PortsOK, TypeOK, Outcomes, Answers
<1>. QED BY <1>1, <1>2, <1>3, PTL DEF Spec

\* utc_time_client asks in mixed case and validate_request compares in upper case:
\* no client is ever told ERROR, whatever others send to the server.
THEOREM OwnRequestAlwaysAccepted == Spec => []OwnRequestAccepted
<1>1. Inv => OwnRequestAccepted
  BY DEF Inv
<1>. QED BY <1>1, Invariance, PTL
=============================================================================

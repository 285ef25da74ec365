----------------------------- MODULE Ingestion -----------------------------
(***************************************************************************)
(* Workshop 7: the ingestion service and the WhatsApp mock, and the        *)
(* programs that send them messages.                                       *)
(*                                                                         *)
(* A program sends its messages one by one and waits for each answer, five *)
(* seconds at most.  A time-out says nothing about the message, which the  *)
(* service may have handled, may handle later or may never see.  A program *)
(* that is run again sends the same messages.  A handler runs without      *)
(* interruption once the body is read; the services keep their state in    *)
(* memory and lose it when they are started again.                         *)
(***************************************************************************)
EXTENDS Integers, Sequences, FiniteSets

CONSTANTS
  Active,       \* sets of programs that run at the same time
  Count,        \* --count of the two clients
  Rounds,       \* warm-up and measured rounds of the benchmark
  PARTITIONS,
  Repeated,     \* programs that may be run again
  MaxRuns,      \* runs of such a program
  MaxRestarts   \* restarts of the services

Programs == {"webhook_client", "messages_client", "demo_validation",
             "demo_schemaless", "run_benchmark"}

ASSUME IngestionAssumption ==
  /\ Active \subseteq SUBSET Programs
  /\ Count \in Nat \ {0} /\ Rounds \in Nat \ {0} /\ PARTITIONS \in Nat \ {0}
  /\ MaxRuns \in Nat \ {0} /\ MaxRestarts \in Nat

Customers == {"inside", "outside", "missing"}  \* the 24 h window, or no customer_id

-----------------------------------------------------------------------------
(* Messages, and what each program sends *)

Message(i, c, ok) == [id |-> i, customer |-> c, valid |-> ok]
CustomerOf(i) == IF i % 2 = 1 THEN "inside" ELSE "outside"

\* The generators: the same seed gives the same messages.
make_webhook_payload(i) == Message(i, CustomerOf(i), TRUE)
make_farewell_payload(i) == Message(i, CustomerOf(i), TRUE)

\* One message that breaks the schema; the demos try four, all alike.
bad_message == [make_webhook_payload(1) EXCEPT !.valid = FALSE]

\* One exchange: whether the client validates, where it sends, what, and the
\* outcome the program expects.
Exchange(checks, url, msg, expect) ==
  [checks |-> checks, url |-> url, msg |-> msg, expect |-> expect]

WebhookClient ==
  [i \in 1..Count |-> Exchange(TRUE, "/webhook", make_webhook_payload(i), "accepted")]

MessagesClient ==
  [i \in 1..Count |-> Exchange(FALSE, "/messages", make_farewell_payload(i), "any")]

DemoValidation ==
  <<Exchange(TRUE, "/webhook", make_webhook_payload(1), "accepted"),
    Exchange(TRUE, "/webhook", bad_message, "not sent"),
    Exchange(FALSE, "/webhook", bad_message, "rejected"),
    Exchange(TRUE, "/faults/webhook", make_webhook_payload(1), "bad response")>>

DemoSchemaless ==
  <<Exchange(FALSE, "/messages", make_farewell_payload(1), "sent"),
    Exchange(FALSE, "/messages", [make_farewell_payload(1) EXCEPT !.valid = FALSE], "sent"),
    Exchange(FALSE, "/messages", Message(1, "missing", FALSE), "expired")>>

\* The cases A, A-control and B, rotated by one every round.
BenchmarkRound(i) ==
  LET cases == <<Exchange(TRUE, "/webhook", make_webhook_payload(i), "any"),
                 Exchange(FALSE, "/control/webhook", make_webhook_payload(i), "any"),
                 Exchange(FALSE, "/messages", make_farewell_payload(i), "any")>>
  IN [k \in 1..3 |-> cases[((k - 1 + i) % 3) + 1]]

RunBenchmark == [k \in 1..(3 * Rounds) |-> BenchmarkRound((k - 1) \div 3)[((k - 1) % 3) + 1]]

Script ==
  [p \in Programs |->
     CASE p = "webhook_client" -> WebhookClient
       [] p = "messages_client" -> MessagesClient
       [] p = "demo_validation" -> DemoValidation
       [] p = "demo_schemaless" -> DemoSchemaless
       [] p = "run_benchmark" -> RunBenchmark]

-----------------------------------------------------------------------------
VARIABLES
  active,         \* the programs at work
  faults,         \* W7_FAULTS
  partition_for,  \* the partition of each customer
  sequences,      \* the last number given in each partition
  epoch,          \* how often the services were restarted
  message_ids,    \* the last message id of the mock
  requests,       \* requests the services may still handle
  pc,             \* each program: "next", "wait" or "done"
  at,             \* the exchange it is at
  run,            \* its run
  all_ok,         \* whether all outcomes so far were as expected
  code,           \* the exit code of its last run, or -1
  answer,         \* the response to the request it waits for, or NoAnswer
  ingested        \* history: what was ingested, with the number it was given

services == <<sequences, epoch, message_ids, ingested>>
given == <<active, faults, partition_for>>
programs == <<pc, at, run, all_ok, code>>
vars == <<services, given, programs, requests, answer>>

Current(p) == Script[p][at[p]]
NoAnswer == [status |-> 0, body |-> "none"]

-----------------------------------------------------------------------------
(* Pieces of the code a property hangs on, and plausible mistakes in them. *)

\* MISTAKE: the number is read before it is advanced.
NumberBefore(k) == sequences[k]

\* sequences[partition] += 1, and the number after that.
NumberFor(k) == sequences[k] + 1

\* MISTAKE: the service does not validate, as its clients do.
TrustTheClient(m) == TRUE

\* The request schema.
validate_request(m) == m.valid

\* MISTAKE: any document with a status is taken for a response.
AnyStatus(a) == a.body # "not found"

\* The response schema: accepted with a number from 1, or rejected.
validate_response(a) == a.body \in {"accepted", "rejected"}

\* MISTAKE: a request that timed out is sent again.
SendAgain(p) == "next"

\* What a TransportError leads to: the program returns 2.
AfterTransportError(p) == "done"

\* MISTAKE: a client waits for ever.
NoTimeout(p) == FALSE

\* httpx.Client(timeout=5)
MayTimeOut(p) == pc[p] = "wait"

-----------------------------------------------------------------------------
Init ==
  /\ active \in Active /\ faults \in BOOLEAN
  /\ partition_for \in [{"inside", "outside"} -> 0..(PARTITIONS - 1)]
  /\ sequences = [k \in 0..(PARTITIONS - 1) |-> 0]
  /\ epoch = 0 /\ message_ids = 0
  /\ requests = {}
  /\ pc = [p \in Programs |-> "next"] /\ at = [p \in Programs |-> 1]
  /\ run = [p \in Programs |-> 1] /\ all_ok = [p \in Programs |-> TRUE]
  /\ code = [p \in Programs |-> -1]
  /\ answer = [p \in Programs |-> NoAnswer]
  /\ ingested = {}

-----------------------------------------------------------------------------
(* The programs *)

\* The outcome o of an exchange is noted, and the next exchange or the end follows.
Noted(p, o) ==
  LET ok == all_ok[p] /\ Current(p).expect \in {o, "any"}
      last == at[p] = Len(Script[p])
  IN /\ all_ok' = [all_ok EXCEPT ![p] = ok]
     /\ at' = [at EXCEPT ![p] = IF last THEN @ ELSE @ + 1]
     /\ pc' = [pc EXCEPT ![p] = IF last THEN "done" ELSE "next"]
     /\ code' = [code EXCEPT ![p] = IF last THEN (IF ok THEN 0 ELSE 1) ELSE @]
     /\ answer' = [answer EXCEPT ![p] = NoAnswer]
     /\ UNCHANGED <<run, services, given>>

\* exchange() blocks a message that breaks the schema.
Block(p) ==
  /\ pc[p] = "next"
  /\ Current(p).checks /\ ~Current(p).msg.valid
  /\ Noted(p, "not sent")
  /\ UNCHANGED requests

Send(p) ==
  /\ pc[p] = "next"
  /\ Current(p).checks => Current(p).msg.valid
  /\ requests' = requests \union {[from |-> p, at |-> at[p], run |-> run[p]]}
  /\ pc' = [pc EXCEPT ![p] = "wait"]
  /\ UNCHANGED <<at, run, all_ok, code, answer, services, given>>

\* What a program makes of a response a, having sent to url.
Outcome(url, a) ==
  IF url = "/messages" THEN a.body
  ELSE IF a.status = 200 THEN (IF validate_response(a) THEN "accepted" ELSE "bad response")
  ELSE IF a.status = 422 /\ validate_response(a) THEN "rejected" ELSE "failed"

Receive(p) ==
  /\ pc[p] = "wait" /\ answer[p] # NoAnswer
  /\ Noted(p, Outcome(Current(p).url, answer[p]))
  /\ UNCHANGED requests

\* No answer in time, or no service: the request is on its way or lost.
TransportError(p) ==
  /\ MayTimeOut(p)
  /\ pc' = [pc EXCEPT ![p] = AfterTransportError(p)]
  /\ code' = [code EXCEPT ![p] = 2]
  /\ answer' = [answer EXCEPT ![p] = NoAnswer]
  /\ requests' \in {requests, {q \in requests : q.from # p}}
  /\ UNCHANGED <<at, run, all_ok, services, given>>

\* The program is started once more.
RunAgain(p) ==
  /\ pc[p] = "done" /\ p \in Repeated /\ run[p] < MaxRuns
  /\ run' = [run EXCEPT ![p] = @ + 1]
  /\ pc' = [pc EXCEPT ![p] = "next"] /\ at' = [at EXCEPT ![p] = 1]
  /\ all_ok' = [all_ok EXCEPT ![p] = TRUE] /\ code' = [code EXCEPT ![p] = -1]
  /\ UNCHANGED <<requests, answer, services, given>>

-----------------------------------------------------------------------------
(* The services *)

\* The response to q, unless its program has given up.
Respond(q, status, body) ==
  /\ requests' = requests \ {q}
  /\ answer' = [answer EXCEPT ![q.from] =
                  IF pc[q.from] = "wait" /\ run[q.from] = q.run /\ at[q.from] = q.at
                  THEN [status |-> status, body |-> body] ELSE @]
  /\ UNCHANGED <<epoch, programs, given>>

Asked(q, url) == q \in requests /\ Script[q.from][q.at].url = url
Msg(q) == Script[q.from][q.at].msg

\* ingest: the next number of the customer's partition.
Ingest(q) ==
  LET k == partition_for[Msg(q).customer]
  IN /\ sequences' = [sequences EXCEPT ![k] = @ + 1]
     /\ ingested' = ingested \union
          {[epoch |-> epoch, partition |-> k, number |-> NumberFor(k), request |-> q]}
     /\ UNCHANGED message_ids

\* POST /webhook.  A body that is not JSON is rejected with 400, which is like 422
\* here, and an accepted answer always passes the response schema.
Webhook(q) ==
  /\ Asked(q, "/webhook")
  /\ IF validate_request(Msg(q))
     THEN Ingest(q) /\ Respond(q, 200, "accepted")
     ELSE Respond(q, 422, "rejected") /\ UNCHANGED <<sequences, message_ids, ingested>>

\* POST /control/webhook: no validation.
ControlWebhook(q) ==
  /\ Asked(q, "/control/webhook")
  /\ Ingest(q) /\ Respond(q, 200, "accepted")

\* POST /faults/webhook, which is there only with W7_FAULTS=1.
FaultyWebhook(q) ==
  /\ Asked(q, "/faults/webhook")
  /\ IF faults THEN Respond(q, 200, "broken") ELSE Respond(q, 404, "not found")
  /\ UNCHANGED <<sequences, message_ids, ingested>>

window_is_open(c) == c = "inside"

\* POST /messages of the mock: no schema.
Messages(q) ==
  /\ Asked(q, "/messages")
  /\ IF window_is_open(Msg(q).customer)
     THEN Respond(q, 200, "sent") /\ message_ids' = message_ids + 1
     ELSE Respond(q, 400, "expired") /\ UNCHANGED message_ids
  /\ UNCHANGED <<sequences, ingested>>

\* The services are started again, for simplicity both (they share nothing): what
\* was in memory or on its way is lost.
Restart ==
  /\ epoch < MaxRestarts
  /\ epoch' = epoch + 1
  /\ sequences' = [k \in DOMAIN sequences |-> 0] /\ message_ids' = 0
  /\ requests' = {}
  /\ UNCHANGED <<ingested, answer, programs, given>>

-----------------------------------------------------------------------------
Handle == \E q \in requests : Webhook(q) \/ ControlWebhook(q) \/ FaultyWebhook(q) \/ Messages(q)
Go(p) == Block(p) \/ Send(p) \/ Receive(p) \/ TransportError(p)

Next == Handle \/ Restart \/ \E p \in active : Go(p) \/ RunAgain(p)

\* Programs and services go on; nobody need start anything again.
Spec == Init /\ [][Next]_vars /\ WF_vars(Handle) /\ \A p \in Programs : WF_vars(p \in active /\ Go(p))

-----------------------------------------------------------------------------
(* Properties *)

Requests == [from : Programs, at : 1..(Count + 3 * Rounds + 4), run : 1..MaxRuns]

\* The types of the variables; at most one request of a run is on its way, and a
\* response waits only for a program that waits for it.
TypeOK ==
  /\ sequences \in [0..(PARTITIONS - 1) -> Nat]
  /\ epoch \in 0..MaxRestarts /\ message_ids \in Nat
  /\ requests \subseteq Requests
  /\ \A q, r \in requests : q.from = r.from /\ q.run = r.run => q = r
  /\ pc \in [Programs -> {"next", "wait", "done"}]
  /\ \A p \in Programs : at[p] \in 1..Len(Script[p]) /\ run[p] \in 1..MaxRuns
  /\ all_ok \in [Programs -> BOOLEAN]
  /\ \A p \in Programs : code[p] \in {-1, 0, 1, 2} /\ (pc[p] = "done" <=> code[p] # -1)
  /\ \A p \in Programs : answer[p] # NoAnswer => pc[p] = "wait"

\* In the life of a service each partition gives out the numbers from 1 on without
\* a gap, each to one message, whatever is rejected, blocked, late or sent by
\* several programs and both routes at once.
NumbersExact ==
  \A k \in DOMAIN sequences :
    LET here == {x \in ingested : x.epoch = epoch /\ x.partition = k}
    IN /\ {x.number : x \in here} = 1..sequences[k]
       /\ Cardinality(here) = sequences[k]

\* A run ingests each of its messages at most once, none that breaks the schema,
\* and when it returns without a transport error, exactly those it sent to an
\* ingesting route; a restart of the service in between does not matter.
IngestedOnce ==
  \A p \in Programs : \A r \in 1..run[p] : \A i \in 1..Len(Script[p]) :
    LET here == {x \in ingested : x.request = [from |-> p, at |-> i, run |-> r]}
        due == Script[p][i].msg.valid /\ Script[p][i].url \in {"/webhook", "/control/webhook"}
    IN /\ Cardinality(here) <= IF due THEN 1 ELSE 0
       /\ r = run[p] /\ code[p] \in {0, 1} => (Cardinality(here) = 1 <=> due)

\* A run without a transport error ends as the demo is meant to: every outcome is
\* as expected, except when the service was started without its fault route.
Verdicts ==
  \A p \in Programs :
    code[p] \in {0, 1} => (code[p] = 1 <=> p = "demo_validation" /\ ~faults)

\* Every run ends, answered or not, with the services running or not.
ProgramsEnd == <>[](\A p \in active : pc[p] = "done")
=============================================================================

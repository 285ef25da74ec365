-------------------------- MODULE IngestionProofs --------------------------
(***************************************************************************)
(* Numbers without gaps, messages ingested once and verdicts as meant, for *)
(* any number of messages, rounds, partitions, runs and restarts.          *)
(*                                                                         *)
(* NumbersExact needs little: one more number for one more message.  The   *)
(* others follow a request, which is on its way, answered, or lost with    *)
(* its run.  What the programs send enters by ScriptFacts alone.           *)
(***************************************************************************)
EXTENDS Ingestion, FiniteSetTheorems, TLAPS

Ingesting == {"/webhook", "/control/webhook"}
Routes == Ingesting \union {"/faults/webhook", "/messages"}

Exchanges(p) == 1..Len(Script[p])
DueAt(p, i) == Script[p][i].msg.valid /\ Script[p][i].url \in Ingesting
RequestOf(p, i, r) == [from |-> p, at |-> i, run |-> r]
Was(q) == \E x \in ingested : x.request = q

\* The response of the fault route, when it is there and when it is not.
Broken == [status |-> 200, body |-> "broken"]
NotFound == [status |-> 404, body |-> "not found"]
FaultResponse == IF faults THEN Broken ELSE NotFound

Answers ==
  [status : Nat,
   body : {"none", "accepted", "rejected", "broken", "not found", "sent", "expired"}]

\* The response to an exchange e of a service whose fault route answers with f.
ResponseTo(e, f) ==
  CASE e.url = "/webhook" -> IF e.msg.valid THEN [status |-> 200, body |-> "accepted"]
                             ELSE [status |-> 422, body |-> "rejected"]
    [] e.url = "/control/webhook" -> [status |-> 200, body |-> "accepted"]
    [] e.url = "/faults/webhook" -> f
    [] OTHER -> IF e.msg.customer = "inside" THEN [status |-> 200, body |-> "sent"]
                ELSE [status |-> 400, body |-> "expired"]

\* A request is of a run begun, and of the exchange a program is at when it is of
\* the run at work.
RequestsOK ==
  \A q \in requests :
    /\ q \in [from : Programs, at : Nat, run : Nat]
    /\ q.at \in Exchanges(q.from) /\ q.run <= run[q.from]
    /\ ~Was(q)
    /\ q.run = run[q.from] =>
         /\ q.at = at[q.from] /\ pc[q.from] # "next"
         /\ answer[q.from] = NoAnswer

\* What was ingested was due, and each request was only once.
IngestedOK ==
  /\ IsFiniteSet(ingested)
  /\ \A x, y \in ingested : x.request = y.request => x = y
  /\ \A x \in ingested :
       /\ x.epoch \in Nat /\ x.epoch <= epoch
       /\ x.request \in [from : Programs, at : Nat, run : Nat]
       /\ x.request.at \in Exchanges(x.request.from)
       /\ DueAt(x.request.from, x.request.at)
       /\ x.request.run <= run[x.request.from]
       /\ x.request.run = run[x.request.from] =>
            /\ x.request.at <= at[x.request.from]
            /\ x.request.at = at[x.request.from] => pc[x.request.from] # "next"

\* The exchanges behind a program, in its run, are ingested when due.
BehindOK ==
  \A p \in Programs :
    /\ \A i \in Exchanges(p) :
         /\ DueAt(p, i)
         /\ \/ i < at[p] \/ (i = at[p] /\ answer[p] # NoAnswer)
            \/ code[p] \in {0, 1}
         => Was(RequestOf(p, i, run[p]))
    /\ answer[p] # NoAnswer => answer[p] = ResponseTo(Script[p][at[p]], FaultResponse)
    /\ pc[p] = "wait" => ~(Current(p).checks /\ ~Current(p).msg.valid)
    /\ pc[p] # "done" => all_ok[p]
    /\ code[p] \in {0, 1} => (code[p] = 1 <=> p = "demo_validation" /\ ~faults)

GivenOK ==
  /\ active \subseteq Programs /\ faults \in BOOLEAN
  /\ partition_for \in [{"inside", "outside"} -> 0..(PARTITIONS - 1)]
  /\ at \in [Programs -> Nat] /\ run \in [Programs -> Nat]
  /\ code \in [Programs -> {-1, 0, 1, 2}]
  /\ answer \in [Programs -> Answers]
  /\ DOMAIN sequences = 0..(PARTITIONS - 1)

Inv == TypeOK /\ GivenOK /\ NumbersExact /\ RequestsOK /\ IngestedOK /\ BehindOK

-----------------------------------------------------------------------------
(* What the programs send *)

\* An exchange, whoever makes it.
Fits(e) ==
  /\ e.checks \in BOOLEAN /\ e.msg.valid \in BOOLEAN
  /\ e.url \in Routes
  /\ e.url \in Ingesting => e.msg.customer \in {"inside", "outside"}
  /\ e.url = "/control/webhook" => e.msg.valid

\* The outcome of an exchange is as expected of a service whose fault route answers with f.
AsExpected(e, f) ==
  e.expect \in {"any", IF e.checks /\ ~e.msg.valid THEN "not sent"
                       ELSE Outcome(e.url, ResponseTo(e, f))}

\* A function on 1..n is a sequence of that length.
LEMMA LengthIs ==
  ASSUME NEW n \in Nat, NEW s, NEW S, s \in [1..n -> S]
  PROVE  Len(s) = n /\ DOMAIN s = 1..n
<1>1. s \in Seq(S)
  OBVIOUS
<1> QED
  BY <1>1

LEMMA Scripts ==
  /\ Script["webhook_client"] = WebhookClient
  /\ Script["messages_client"] = MessagesClient
  /\ Script["demo_validation"] = DemoValidation
  /\ Script["demo_schemaless"] = DemoSchemaless
  /\ Script["run_benchmark"] = RunBenchmark
BY DEF Script, Programs

LEMMA SpoiltFields ==
  LET m == [Message(1, "inside", TRUE) EXCEPT !.valid = FALSE]
  IN m.customer = "inside" /\ m.valid = FALSE
<1>1. [Message(1, "inside", TRUE) EXCEPT !.valid = FALSE].customer = "inside"
  BY DEF Message
<1>2. [Message(1, "inside", TRUE) EXCEPT !.valid = FALSE].valid = FALSE
  BY DEF Message
<1> QED
  BY <1>1, <1>2

\* What comes of a message, by the route it takes.
LEMMA Outcomes ==
  ASSUME NEW e, NEW f, f \in {Broken, NotFound}
  PROVE  /\ e.url = "/webhook" /\ e.msg.valid => Outcome(e.url, ResponseTo(e, f)) = "accepted"
         /\ e.url = "/webhook" /\ ~e.msg.valid => Outcome(e.url, ResponseTo(e, f)) = "rejected"
         /\ e.url = "/control/webhook" => Outcome(e.url, ResponseTo(e, f)) = "accepted"
         /\ e.url = "/faults/webhook" /\ f = Broken =>
              Outcome(e.url, ResponseTo(e, f)) = "bad response"
         /\ e.url = "/faults/webhook" /\ f = NotFound =>
              Outcome(e.url, ResponseTo(e, f)) = "failed"
         /\ e.url = "/messages" /\ e.msg.customer = "inside" =>
              Outcome(e.url, ResponseTo(e, f)) = "sent"
         /\ e.url = "/messages" /\ e.msg.customer # "inside" =>
              Outcome(e.url, ResponseTo(e, f)) = "expired"
<1> DEFINE r == ResponseTo(e, f)
<1>1. CASE e.url = "/webhook" /\ e.msg.valid
  <2>1. r.status = 200 /\ r.body = "accepted"
    BY <1>1 DEF ResponseTo
  <2> QED
    BY <1>1, <2>1 DEF Outcome, validate_response
<1>2. CASE e.url = "/webhook" /\ ~e.msg.valid
  <2>1. r.status = 422 /\ r.body = "rejected"
    BY <1>2 DEF ResponseTo
  <2> QED
    BY <1>2, <2>1 DEF Outcome, validate_response
<1>3. CASE e.url = "/control/webhook"
  <2>1. r.status = 200 /\ r.body = "accepted"
    BY <1>3 DEF ResponseTo
  <2> QED
    BY <1>3, <2>1 DEF Outcome, validate_response
<1>4. CASE e.url = "/faults/webhook"
  <2>1. r = f
    BY <1>4 DEF ResponseTo
  <2>2. Broken.status = 200 /\ Broken.body = "broken"
    BY DEF Broken
  <2>3. NotFound.status = 404 /\ NotFound.body = "not found"
    BY DEF NotFound
  <2>4. Outcome("/faults/webhook", Broken) = "bad response"
    BY <2>2 DEF Outcome, validate_response
  <2>5. Outcome("/faults/webhook", NotFound) = "failed"
    <3> DEFINE m == NotFound
    <3> HIDE DEF m
    <3>1. m.status = 404
      BY <2>3 DEF m
    <3>2. Outcome("/faults/webhook", m) = "failed"
      BY <3>1 DEF Outcome, validate_response
    <3> QED
      BY <3>2 DEF m
  <2>6. "bad response" # "failed"
    OBVIOUS
  <2> HIDE DEF r
  <2>7. Outcome(e.url, r) = Outcome("/faults/webhook", f)
    BY <1>4, <2>1
  <2>8. /\ f = Broken => Outcome(e.url, r) = "bad response"
        /\ f = NotFound => Outcome(e.url, r) = "failed"
    BY <2>4, <2>5, <2>7
  <2> QED
    BY <1>4, <2>8 DEF r
<1>5. CASE e.url = "/messages"
  <2>1. /\ e.msg.customer = "inside" => r.body = "sent"
        /\ e.msg.customer # "inside" => r.body = "expired"
    BY <1>5 DEF ResponseTo
  <2> QED
    BY <1>5, <2>1 DEF Outcome
<1> QED
  BY <1>1, <1>2, <1>3, <1>4, <1>5

LEMMA ClientScript ==
  /\ Len(WebhookClient) = Count /\ Len(MessagesClient) = Count
  /\ \A i \in 1..Count :
       /\ Fits(WebhookClient[i]) /\ \A f \in {Broken, NotFound} : AsExpected(WebhookClient[i], f)
       /\ Fits(MessagesClient[i]) /\ \A f \in {Broken, NotFound} : AsExpected(MessagesClient[i], f)
<1>1. Count \in Nat
  BY IngestionAssumption
<1>2. WebhookClient \in [1..Count -> {WebhookClient[i] : i \in 1..Count}]
  BY DEF WebhookClient
<1>3. MessagesClient \in [1..Count -> {MessagesClient[i] : i \in 1..Count}]
  BY DEF MessagesClient
<1>4. ASSUME NEW i \in 1..Count
      PROVE  /\ Fits(WebhookClient[i]) /\ \A f \in {Broken, NotFound} : AsExpected(WebhookClient[i], f)
             /\ Fits(MessagesClient[i]) /\ \A f \in {Broken, NotFound} : AsExpected(MessagesClient[i], f)
  <2>1. WebhookClient[i] = Exchange(TRUE, "/webhook", Message(i, CustomerOf(i), TRUE), "accepted")
    BY DEF WebhookClient, make_webhook_payload
  <2>2. MessagesClient[i] = Exchange(FALSE, "/messages", Message(i, CustomerOf(i), TRUE), "any")
    BY DEF MessagesClient, make_farewell_payload
  <2>3. CustomerOf(i) \in {"inside", "outside"}
    BY DEF CustomerOf
  <2>4. "/webhook" \in Routes /\ "/messages" \in Routes /\ "/messages" \notin Ingesting
    BY DEF Routes, Ingesting
  <2> DEFINE w == WebhookClient[i]
             m == MessagesClient[i]
  <2> HIDE DEF w, m
  <2>5. Fits(w) /\ \A f \in {Broken, NotFound} : AsExpected(w, f)
    <3>0. /\ w.checks = TRUE /\ w.url = "/webhook" /\ w.expect = "accepted"
          /\ w.msg = Message(i, CustomerOf(i), TRUE)
      BY <2>1 DEF w, Exchange
    <3>1. /\ w.checks = TRUE /\ w.url = "/webhook" /\ w.expect = "accepted"
          /\ w.msg.customer = CustomerOf(i) /\ w.msg.valid = TRUE
      BY <3>0 DEF Message
    <3>2. \A f \in {Broken, NotFound} : Outcome(w.url, ResponseTo(w, f)) = "accepted"
      BY <3>1, Outcomes
    <3> QED
      BY <2>3, <3>1, <3>2 DEF Fits, AsExpected, Routes, Ingesting
  <2>6. Fits(m) /\ \A f \in {Broken, NotFound} : AsExpected(m, f)
    <3>0. /\ m.checks = FALSE /\ m.url = "/messages" /\ m.expect = "any"
          /\ m.msg = Message(i, CustomerOf(i), TRUE)
      BY <2>2 DEF m, Exchange
    <3>1. /\ m.checks = FALSE /\ m.url = "/messages" /\ m.expect = "any"
          /\ m.msg.customer = CustomerOf(i) /\ m.msg.valid = TRUE
      BY <3>0 DEF Message
    <3> QED
      BY <2>3, <3>1 DEF Fits, AsExpected, Routes, Ingesting
  <2> QED
    BY <2>5, <2>6 DEF w, m
<1> QED
  BY <1>1, <1>2, <1>3, <1>4, LengthIs

LEMMA DemoScript ==
  /\ Len(DemoValidation) = 4 /\ Len(DemoSchemaless) = 3
  /\ \A i \in 1..4 : /\ Fits(DemoValidation[i])
                     /\ \A f \in {Broken, NotFound} : AsExpected(DemoValidation[i], f) <=> i # 4 \/ f = Broken
  /\ \A i \in 1..3 : /\ Fits(DemoSchemaless[i])
                     /\ \A f \in {Broken, NotFound} : AsExpected(DemoSchemaless[i], f)
<1>1. Len(DemoValidation) = 4 /\ Len(DemoSchemaless) = 3
  BY DEF DemoValidation, DemoSchemaless
<1>2. make_webhook_payload(1) = Message(1, "inside", TRUE)
  BY DEF make_webhook_payload, CustomerOf
<1>3. make_farewell_payload(1) = Message(1, "inside", TRUE)
  BY DEF make_farewell_payload, CustomerOf
<1> DEFINE spoilt == [Message(1, "inside", TRUE) EXCEPT !.valid = FALSE]
<1>4. spoilt.customer = "inside" /\ spoilt.valid = FALSE
  BY SpoiltFields
<1>5. bad_message = spoilt
  BY <1>2 DEF bad_message
<1>6. /\ DemoValidation[1] = Exchange(TRUE, "/webhook", Message(1, "inside", TRUE), "accepted")
      /\ DemoValidation[2] = Exchange(TRUE, "/webhook", spoilt, "not sent")
      /\ DemoValidation[3] = Exchange(FALSE, "/webhook", spoilt, "rejected")
      /\ DemoValidation[4] =
           Exchange(TRUE, "/faults/webhook", Message(1, "inside", TRUE), "bad response")
  BY <1>2, <1>5 DEF DemoValidation
<1>7. /\ DemoSchemaless[1] = Exchange(FALSE, "/messages", Message(1, "inside", TRUE), "sent")
      /\ DemoSchemaless[2] = Exchange(FALSE, "/messages", spoilt, "sent")
      /\ DemoSchemaless[3] = Exchange(FALSE, "/messages", Message(1, "missing", FALSE), "expired")
  BY <1>3 DEF DemoSchemaless
<1> HIDE DEF spoilt
<1>8. /\ "/webhook" \in Routes /\ "/faults/webhook" \in Routes /\ "/messages" \in Routes
      /\ "/faults/webhook" \notin Ingesting /\ "/messages" \notin Ingesting
  BY DEF Routes, Ingesting
<1> DEFINE d == DemoValidation
           s == DemoSchemaless
<1>9. /\ Fits(d[1]) /\ \A f \in {Broken, NotFound} : AsExpected(d[1], f)
      /\ Fits(d[2]) /\ \A f \in {Broken, NotFound} : AsExpected(d[2], f)
      /\ Fits(d[3]) /\ \A f \in {Broken, NotFound} : AsExpected(d[3], f)
      /\ Fits(d[4]) /\ \A f \in {Broken, NotFound} : AsExpected(d[4], f) <=> f = Broken
  <2> DEFINE d1 == d[1]
             d2 == d[2]
             d3 == d[3]
             d4 == d[4]
  <2> HIDE DEF d1, d2, d3, d4
  <2>1. Fits(d1) /\ \A f \in {Broken, NotFound} : AsExpected(d1, f)
    <3>0. /\ d1.checks = TRUE /\ d1.url = "/webhook" /\ d1.expect = "accepted"
          /\ d1.msg = Message(1, "inside", TRUE)
      <4>1. d1 = Exchange(TRUE, "/webhook", Message(1, "inside", TRUE), "accepted")
        BY <1>6 DEF d1
      <4> QED
        BY <4>1 DEF Exchange
    <3>1. /\ d1.checks = TRUE /\ d1.url = "/webhook" /\ d1.expect = "accepted"
          /\ d1.msg.customer = "inside" /\ d1.msg.valid = TRUE
      BY <3>0 DEF Message
    <3>2. \A f \in {Broken, NotFound} : Outcome(d1.url, ResponseTo(d1, f)) = "accepted"
      BY <3>1, Outcomes
    <3> QED
      BY <3>1, <3>2 DEF Fits, AsExpected, Routes, Ingesting
  <2>2. Fits(d2) /\ \A f \in {Broken, NotFound} : AsExpected(d2, f)
    <3>0. /\ d2.checks = TRUE /\ d2.url = "/webhook" /\ d2.expect = "not sent"
          /\ d2.msg = spoilt
      <4>1. d2 = Exchange(TRUE, "/webhook", spoilt, "not sent")
        BY <1>6 DEF d2
      <4> QED
        BY <4>1 DEF Exchange
    <3>1. /\ d2.checks = TRUE /\ d2.url = "/webhook" /\ d2.expect = "not sent"
          /\ d2.msg.customer = "inside" /\ d2.msg.valid = FALSE
      BY <3>0, <1>4
    <3>2. \A f \in {Broken, NotFound} : Outcome(d2.url, ResponseTo(d2, f)) = "rejected"
      BY <3>1, Outcomes
    <3> QED
      BY <3>1, <3>2 DEF Fits, AsExpected, Routes, Ingesting
  <2>3. Fits(d3) /\ \A f \in {Broken, NotFound} : AsExpected(d3, f)
    <3>0. /\ d3.checks = FALSE /\ d3.url = "/webhook" /\ d3.expect = "rejected"
          /\ d3.msg = spoilt
      <4>1. d3 = Exchange(FALSE, "/webhook", spoilt, "rejected")
        BY <1>6 DEF d3
      <4> QED
        BY <4>1 DEF Exchange
    <3>1. /\ d3.checks = FALSE /\ d3.url = "/webhook" /\ d3.expect = "rejected"
          /\ d3.msg.customer = "inside" /\ d3.msg.valid = FALSE
      BY <3>0, <1>4
    <3>2. \A f \in {Broken, NotFound} : Outcome(d3.url, ResponseTo(d3, f)) = "rejected"
      BY <3>1, Outcomes
    <3> QED
      BY <3>1, <3>2 DEF Fits, AsExpected, Routes, Ingesting
  <2>4. Fits(d4) /\ \A f \in {Broken, NotFound} : AsExpected(d4, f) <=> f = Broken
    <3>0. /\ d4.checks = TRUE /\ d4.url = "/faults/webhook" /\ d4.expect = "bad response"
          /\ d4.msg = Message(1, "inside", TRUE)
      <4>1. d4 = Exchange(TRUE, "/faults/webhook", Message(1, "inside", TRUE), "bad response")
        BY <1>6 DEF d4
      <4> QED
        BY <4>1 DEF Exchange
    <3>1. /\ d4.checks = TRUE /\ d4.url = "/faults/webhook" /\ d4.expect = "bad response"
          /\ d4.msg.customer = "inside" /\ d4.msg.valid = TRUE
      <4> DEFINE m == Message(1, "inside", TRUE)
      <4>1. m.customer = "inside"
        BY DEF Message
      <4>2. m.valid = TRUE
        BY DEF Message
      <4>3. d4.msg = m
        BY <3>0
      <4> HIDE DEF m
      <4> QED
        BY <3>0, <4>1, <4>2, <4>3
    <3>2. \A f \in {Broken, NotFound} : 
            /\ f = Broken => Outcome(d4.url, ResponseTo(d4, f)) = "bad response"
            /\ f = NotFound => Outcome(d4.url, ResponseTo(d4, f)) = "failed"
      BY <3>1, Outcomes
    <3> QED
      BY <3>1, <3>2 DEF Fits, AsExpected, Routes, Ingesting
  <2> QED
    BY <2>1, <2>2, <2>3, <2>4 DEF d1, d2, d3, d4
<1>10. /\ Fits(s[1]) /\ \A f \in {Broken, NotFound} : AsExpected(s[1], f)
       /\ Fits(s[2]) /\ \A f \in {Broken, NotFound} : AsExpected(s[2], f)
       /\ Fits(s[3]) /\ \A f \in {Broken, NotFound} : AsExpected(s[3], f)
  <2> DEFINE s1 == s[1]
             s2 == s[2]
             s3 == s[3]
  <2> HIDE DEF s1, s2, s3
  <2>1. Fits(s1) /\ \A f \in {Broken, NotFound} : AsExpected(s1, f)
    <3>0. /\ s1.checks = FALSE /\ s1.url = "/messages" /\ s1.expect = "sent"
          /\ s1.msg = Message(1, "inside", TRUE)
      BY <1>7 DEF s1, Exchange
    <3>1. /\ s1.checks = FALSE /\ s1.url = "/messages" /\ s1.expect = "sent"
          /\ s1.msg.customer = "inside" /\ s1.msg.valid = TRUE
      BY <3>0 DEF Message
    <3>2. \A f \in {Broken, NotFound} : Outcome(s1.url, ResponseTo(s1, f)) = "sent"
      BY <3>1, Outcomes
    <3> QED
      BY <3>1, <3>2 DEF Fits, AsExpected, Routes, Ingesting
  <2>2. Fits(s2) /\ \A f \in {Broken, NotFound} : AsExpected(s2, f)
    <3>0. /\ s2.checks = FALSE /\ s2.url = "/messages" /\ s2.expect = "sent"
          /\ s2.msg = spoilt
      BY <1>7 DEF s2, Exchange
    <3>1. /\ s2.checks = FALSE /\ s2.url = "/messages" /\ s2.expect = "sent"
          /\ s2.msg.customer = "inside" /\ s2.msg.valid = FALSE
      BY <3>0, <1>4
    <3>2. \A f \in {Broken, NotFound} : Outcome(s2.url, ResponseTo(s2, f)) = "sent"
      BY <3>1, Outcomes
    <3> QED
      BY <3>1, <3>2 DEF Fits, AsExpected, Routes, Ingesting
  <2>3. Fits(s3) /\ \A f \in {Broken, NotFound} : AsExpected(s3, f)
    <3>0. /\ s3.checks = FALSE /\ s3.url = "/messages" /\ s3.expect = "expired"
          /\ s3.msg = Message(1, "missing", FALSE)
      BY <1>7 DEF s3, Exchange
    <3>1. /\ s3.checks = FALSE /\ s3.url = "/messages" /\ s3.expect = "expired"
          /\ s3.msg.customer = "missing" /\ s3.msg.valid = FALSE
      BY <3>0 DEF Message
    <3>2. \A f \in {Broken, NotFound} : Outcome(s3.url, ResponseTo(s3, f)) = "expired"
      BY <3>1, Outcomes
    <3> QED
      BY <3>1, <3>2 DEF Fits, AsExpected, Routes, Ingesting
  <2> QED
    BY <2>1, <2>2, <2>3 DEF s1, s2, s3
<1>11. \A i \in 1..4 : i = 1 \/ i = 2 \/ i = 3 \/ i = 4
  OBVIOUS
<1>12. \A i \in 1..3 : i = 1 \/ i = 2 \/ i = 3
  OBVIOUS
<1> HIDE DEF d, s
<1>13. \A i \in 1..4 : Fits(d[i]) /\ \A f \in {Broken, NotFound} : AsExpected(d[i], f) <=> i # 4 \/ f = Broken
  BY <1>9, <1>11
<1>14. \A i \in 1..3 : Fits(s[i]) /\ \A f \in {Broken, NotFound} : AsExpected(s[i], f)
  BY <1>10, <1>12
<1> QED
  BY <1>1, <1>13, <1>14 DEF d, s

LEMMA BenchmarkScript ==
  /\ Len(RunBenchmark) = 3 * Rounds
  /\ \A i \in 1..(3 * Rounds) :
       Fits(RunBenchmark[i]) /\ \A f \in {Broken, NotFound} : AsExpected(RunBenchmark[i], f)
<1>1. 3 * Rounds \in Nat
  BY IngestionAssumption
<1>2. RunBenchmark \in [1..(3 * Rounds) -> {RunBenchmark[i] : i \in 1..(3 * Rounds)}]
  BY DEF RunBenchmark
<1>3. ASSUME NEW k \in 1..(3 * Rounds)
      PROVE  Fits(RunBenchmark[k]) /\ \A f \in {Broken, NotFound} : AsExpected(RunBenchmark[k], f)
  <2> DEFINE i == (k - 1) \div 3
             j == ((k - 1) % 3) + 1
             A == Exchange(TRUE, "/webhook", make_webhook_payload(i), "any")
             C == Exchange(FALSE, "/control/webhook", make_webhook_payload(i), "any")
             B == Exchange(FALSE, "/messages", make_farewell_payload(i), "any")
             n == ((j - 1 + i) % 3) + 1
  <2>1. j \in 1..3 /\ i \in Int
    BY <1>1
  <2>2. n \in 1..3
    BY <2>1
  <2>3. RunBenchmark[k] = BenchmarkRound(i)[j]
    BY DEF RunBenchmark
  <2>4. BenchmarkRound(i)[j] = <<A, C, B>>[n]
    <3> HIDE DEF i, j
    <3> QED
      BY <2>1 DEF BenchmarkRound
  <2>5. \A c \in {i} : CustomerOf(c) \in {"inside", "outside"}
    BY DEF CustomerOf
  <2>6. /\ \A r \in Ingesting : r \in Routes
        /\ "/webhook" \in Ingesting /\ "/control/webhook" \in Ingesting
        /\ "/messages" \in Routes /\ "/messages" \notin Ingesting
    BY DEF Routes, Ingesting
  <2> HIDE DEF i
  <2>7. /\ A = Exchange(TRUE, "/webhook", Message(i, CustomerOf(i), TRUE), "any")
        /\ B = Exchange(FALSE, "/messages", Message(i, CustomerOf(i), TRUE), "any")
        /\ C = Exchange(FALSE, "/control/webhook", Message(i, CustomerOf(i), TRUE), "any")
    BY DEF make_webhook_payload, make_farewell_payload
  <2> HIDE DEF A, B, C, n, i, j
  <2>8. Fits(A) /\ \A f \in {Broken, NotFound} : AsExpected(A, f)
    <3>0. /\ A.checks = TRUE /\ A.url = "/webhook" /\ A.expect = "any"
          /\ A.msg = Message(i, CustomerOf(i), TRUE)
      BY <2>7 DEF Exchange
    <3>1. /\ A.checks = TRUE /\ A.url = "/webhook" /\ A.expect = "any"
          /\ A.msg.customer = CustomerOf(i) /\ A.msg.valid = TRUE
      BY <3>0 DEF Message
    <3> QED
      BY <2>5, <3>1 DEF Fits, AsExpected, Routes, Ingesting
  <2>9. Fits(B) /\ \A f \in {Broken, NotFound} : AsExpected(B, f)
    <3>0. /\ B.checks = FALSE /\ B.url = "/messages" /\ B.expect = "any"
          /\ B.msg = Message(i, CustomerOf(i), TRUE)
      BY <2>7 DEF Exchange
    <3>1. /\ B.checks = FALSE /\ B.url = "/messages" /\ B.expect = "any"
          /\ B.msg.customer = CustomerOf(i) /\ B.msg.valid = TRUE
      BY <3>0 DEF Message
    <3> QED
      BY <2>5, <3>1 DEF Fits, AsExpected, Routes, Ingesting
  <2>10. Fits(C) /\ \A f \in {Broken, NotFound} : AsExpected(C, f)
    <3>0. /\ C.checks = FALSE /\ C.url = "/control/webhook" /\ C.expect = "any"
          /\ C.msg = Message(i, CustomerOf(i), TRUE)
      BY <2>7 DEF Exchange
    <3>1. /\ C.checks = FALSE /\ C.url = "/control/webhook" /\ C.expect = "any"
          /\ C.msg.customer = CustomerOf(i) /\ C.msg.valid = TRUE
      BY <3>0 DEF Message
    <3> QED
      BY <2>5, <3>1 DEF Fits, AsExpected, Routes, Ingesting
  <2>11. n = 1 \/ n = 2 \/ n = 3
    BY <2>2
  <2>12. <<A, C, B>>[n] = A \/ <<A, C, B>>[n] = B \/ <<A, C, B>>[n] = C
    BY <2>11
  <2> QED
    BY <2>3, <2>4, <2>8, <2>9, <2>10, <2>12
<1> QED
  BY <1>1, <1>2, <1>3, LengthIs

LEMMA ScriptFacts ==
  ASSUME NEW p \in Programs
  PROVE  /\ Len(Script[p]) \in 1..(Count + 3 * Rounds + 4)
         /\ \A i \in Exchanges(p) :
              /\ Fits(Script[p][i])
              /\ \A f \in {Broken, NotFound} : AsExpected(Script[p][i], f) <=>
                   ~(p = "demo_validation" /\ i = Len(Script[p]) /\ f = NotFound)
<1>0. Count \in Nat /\ Count > 0 /\ Rounds \in Nat /\ Rounds > 0
  BY IngestionAssumption
<1>1. CASE p = "webhook_client"
  BY <1>0, <1>1, Scripts, ClientScript DEF Exchanges
<1>2. CASE p = "messages_client"
  BY <1>0, <1>2, Scripts, ClientScript DEF Exchanges
<1>3. CASE p = "demo_validation"
  <2>1. Script[p] = DemoValidation /\ Len(DemoValidation) = 4
    BY <1>3, Scripts, DemoScript
  <2>2. Broken # NotFound
    BY DEF Broken, NotFound
  <2> QED
    BY <1>0, <1>3, <2>1, <2>2, DemoScript DEF Exchanges
<1>4. CASE p = "demo_schemaless"
  BY <1>0, <1>4, Scripts, DemoScript DEF Exchanges
<1>5. CASE p = "run_benchmark"
  BY <1>0, <1>5, Scripts, BenchmarkScript DEF Exchanges
<1> QED
  BY <1>1, <1>2, <1>3, <1>4, <1>5 DEF Programs

-----------------------------------------------------------------------------
(* The services *)

\* What the handling of a request comes to, whatever its route.
HandledAs(q) ==
  /\ requests' = requests \ {q}
  /\ answer' = [answer EXCEPT ![q.from] =
                  IF pc[q.from] = "wait" /\ run[q.from] = q.run /\ at[q.from] = q.at
                  THEN ResponseTo(Script[q.from][q.at], FaultResponse) ELSE @]
  /\ UNCHANGED <<epoch, programs, given>>
  /\ message_ids' \in Nat
  /\ DueAt(q.from, q.at) => Ingest(q)
  /\ ~DueAt(q.from, q.at) => UNCHANGED <<sequences, ingested>>

LEMMA HandledLemma ==
  ASSUME Inv, NEW q \in requests, Webhook(q) \/ ControlWebhook(q) \/ FaultyWebhook(q) \/ Messages(q)
  PROVE  HandledAs(q)
<1> DEFINE e == Script[q.from][q.at]
<1>1. q.from \in Programs /\ q.at \in Exchanges(q.from)
  BY DEF Inv, RequestsOK
<1>2. Fits(e)
  BY <1>1, ScriptFacts
<1>3. message_ids \in Nat /\ faults \in BOOLEAN
  BY DEF Inv, TypeOK, GivenOK
<1>4. Msg(q) = e.msg
  BY DEF Msg
<1>5. DueAt(q.from, q.at) <=> e.msg.valid /\ e.url \in Ingesting
  BY DEF DueAt
<1> DEFINE R == ResponseTo(e, FaultResponse)
<1>6. ASSUME NEW s, NEW b, Respond(q, s, b), R = [status |-> s, body |-> b],
             message_ids' \in Nat, DueAt(q.from, q.at) => Ingest(q),
             ~DueAt(q.from, q.at) => UNCHANGED <<sequences, ingested>>
      PROVE  HandledAs(q)
  BY <1>6 DEF Respond, HandledAs
<1> HIDE DEF e
<1>7. CASE Webhook(q)
  <2>1. e.url = "/webhook"
    BY <1>7 DEF Webhook, Asked, e
  <2>2. CASE e.msg.valid
    <3>1. R = [status |-> 200, body |-> "accepted"]
      BY <2>1, <2>2 DEF ResponseTo
    <3>2. Ingest(q) /\ Respond(q, 200, "accepted")
      BY <1>4, <1>7, <2>2 DEF Webhook, validate_request
    <3>3. message_ids' \in Nat
      BY <1>3, <3>2 DEF Ingest
    <3>4. DueAt(q.from, q.at)
      BY <1>5, <2>1, <2>2 DEF Ingesting
    <3> HIDE DEF R
    <3> QED
      BY <1>6, <3>1, <3>2, <3>3, <3>4
  <2>3. CASE ~e.msg.valid
    <3>1. R = [status |-> 422, body |-> "rejected"]
      BY <2>1, <2>3 DEF ResponseTo
    <3>2. Respond(q, 422, "rejected") /\ UNCHANGED <<sequences, message_ids, ingested>>
      BY <1>4, <1>7, <2>3 DEF Webhook, validate_request
    <3>3. ~DueAt(q.from, q.at)
      BY <1>5, <2>3
    <3> HIDE DEF R
    <3> QED
      BY <1>3, <1>6, <3>1, <3>2, <3>3
  <2> QED
    BY <2>2, <2>3
<1>8. CASE ControlWebhook(q)
  <2>1. e.url = "/control/webhook" /\ Ingest(q) /\ Respond(q, 200, "accepted")
    BY <1>8 DEF ControlWebhook, Asked, e
  <2>2. e.msg.valid
    BY <1>2, <2>1 DEF Fits
  <2>3. R = [status |-> 200, body |-> "accepted"]
    BY <2>1 DEF ResponseTo
  <2>4. message_ids' \in Nat
    BY <1>3, <2>1 DEF Ingest
  <2>5. DueAt(q.from, q.at)
    BY <1>5, <2>1, <2>2 DEF Ingesting
  <2> HIDE DEF R
  <2> QED
    BY <1>6, <2>1, <2>3, <2>4, <2>5
<1>9. CASE FaultyWebhook(q)
  <2>1. e.url = "/faults/webhook" /\ UNCHANGED <<sequences, message_ids, ingested>>
    BY <1>9 DEF FaultyWebhook, Asked, e
  <2>2. R = FaultResponse
    BY <2>1 DEF ResponseTo
  <2>3. ~DueAt(q.from, q.at)
    BY <1>5, <2>1 DEF Ingesting
  <2> HIDE DEF R
  <2>4. CASE faults
    <3>1. Respond(q, 200, "broken") /\ R = [status |-> 200, body |-> "broken"]
      BY <1>9, <2>2, <2>4 DEF FaultyWebhook, FaultResponse, Broken
    <3> QED
      BY <1>3, <1>6, <2>1, <2>3, <3>1
  <2>5. CASE ~faults
    <3>1. Respond(q, 404, "not found") /\ R = [status |-> 404, body |-> "not found"]
      BY <1>9, <2>2, <2>5 DEF FaultyWebhook, FaultResponse, NotFound
    <3> QED
      BY <1>3, <1>6, <2>1, <2>3, <3>1
  <2> QED
    BY <2>4, <2>5
<1>10. CASE Messages(q)
  <2>1. e.url = "/messages" /\ UNCHANGED <<sequences, ingested>>
    BY <1>10 DEF Messages, Asked, e
  <2>2. ~DueAt(q.from, q.at)
    BY <1>5, <2>1 DEF Ingesting
  <2>3. CASE e.msg.customer = "inside"
    <3>1. R = [status |-> 200, body |-> "sent"]
      BY <2>1, <2>3 DEF ResponseTo
    <3>2. Respond(q, 200, "sent") /\ message_ids' = message_ids + 1
      BY <1>4, <1>10, <2>3 DEF Messages, window_is_open
    <3>3. message_ids' \in Nat
      BY <1>3, <3>2
    <3> HIDE DEF R
    <3> QED
      BY <1>6, <2>1, <2>2, <3>1, <3>2, <3>3
  <2>4. CASE e.msg.customer # "inside"
    <3>1. R = [status |-> 400, body |-> "expired"]
      BY <2>1, <2>4 DEF ResponseTo
    <3>2. Respond(q, 400, "expired") /\ UNCHANGED message_ids
      BY <1>4, <1>10, <2>4 DEF Messages, window_is_open
    <3> HIDE DEF R
    <3> QED
      BY <1>3, <1>6, <2>1, <2>2, <3>1, <3>2
  <2> QED
    BY <2>3, <2>4
<1> QED
  BY <1>7, <1>8, <1>9, <1>10

\* What Ingest(q) adds is new.
LEMMA IngestLemma ==
  ASSUME Inv, NEW q \in requests, DueAt(q.from, q.at), Ingest(q)
  PROVE  \E k \in 0..(PARTITIONS - 1) : \E x :
           /\ x.epoch = epoch /\ x.partition = k /\ x.number = sequences[k] + 1 /\ x.request = q
           /\ x \notin ingested /\ ingested' = ingested \union {x}
           /\ sequences' = [sequences EXCEPT ![k] = @ + 1]
<1> DEFINE k == partition_for[Msg(q).customer]
           x == [epoch |-> epoch, partition |-> k, number |-> sequences[k] + 1, request |-> q]
<1>1. q.from \in Programs /\ q.at \in Exchanges(q.from) /\ ~Was(q)
  BY DEF Inv, RequestsOK
<1>2. Msg(q).customer \in {"inside", "outside"}
  BY <1>1, ScriptFacts DEF Msg, DueAt, Fits
<1>3. k \in 0..(PARTITIONS - 1)
  BY <1>2 DEF Inv, GivenOK
<1>4. ingested' = ingested \union {x} /\ sequences' = [sequences EXCEPT ![k] = @ + 1]
  BY DEF Ingest, NumberFor
<1>5. x.epoch = epoch /\ x.partition = k /\ x.number = sequences[k] + 1 /\ x.request = q
  OBVIOUS
<1>6. x \notin ingested
  BY <1>1, <1>5 DEF Was
<1> QED
  BY <1>3, <1>4, <1>5, <1>6

LEMMA AnswerType ==
  ASSUME NEW p \in Programs, NEW i \in Exchanges(p)
  PROVE  ResponseTo(Script[p][i], FaultResponse) \in Answers
<1> DEFINE e == Script[p][i]
<1>1. e.url = "/webhook" \/ e.url = "/control/webhook" \/ e.url = "/faults/webhook" \/ e.url = "/messages"
  BY ScriptFacts DEF Fits, Routes, Ingesting
<1>2. FaultResponse \in Answers
  <2>1. Broken \in Answers
    BY DEF Broken, Answers
  <2>2. NotFound \in Answers
    BY DEF NotFound, Answers
  <2> QED
    BY <2>1, <2>2 DEF FaultResponse
<1> HIDE DEF e
<1> QED
  <2>1. ResponseTo(e, FaultResponse) \in Answers
    <3> DEFINE ok == [status |-> 200, body |-> "accepted"]
               no == [status |-> 422, body |-> "rejected"]
               sent == [status |-> 200, body |-> "sent"]
               late == [status |-> 400, body |-> "expired"]
    <3>1. /\ ok \in Answers /\ no \in Answers
          /\ sent \in Answers /\ late \in Answers
      BY DEF Answers
    <3>2. ResponseTo(e, FaultResponse) \in {ok, no, sent, late, FaultResponse}
      BY <1>1 DEF ResponseTo
    <3> HIDE DEF ok, no, sent, late
    <3> QED
      BY <1>2, <3>1, <3>2
  <2> QED
    BY <2>1 DEF e

LEMMA HandledTypes ==
  ASSUME Inv, NEW q \in requests, HandledAs(q)
  PROVE  TypeOK' /\ GivenOK'
<1>1. q.from \in Programs /\ q.at \in Exchanges(q.from)
  BY DEF Inv, RequestsOK
<1>2. TypeOK /\ GivenOK
  BY DEF Inv
<1>3. sequences' \in [0..(PARTITIONS - 1) -> Nat]
  <2>1. CASE DueAt(q.from, q.at)
    <3>1. PICK k \in 0..(PARTITIONS - 1) : sequences' = [sequences EXCEPT ![k] = @ + 1]
      BY <2>1, IngestLemma DEF HandledAs
    <3> QED
      BY <1>2, <3>1 DEF TypeOK
  <2>2. CASE ~DueAt(q.from, q.at)
    BY <1>2, <2>2 DEF TypeOK, HandledAs
  <2> QED
    BY <2>1, <2>2
<1>4. answer' \in [Programs -> Answers]
  BY <1>1, <1>2, AnswerType DEF HandledAs, GivenOK
<1>5. \A p \in Programs : answer'[p] # NoAnswer => pc[p] = "wait"
  BY <1>1, <1>2 DEF HandledAs, TypeOK, GivenOK
<1>6. UNCHANGED <<pc, at, run, all_ok, code, active, faults, partition_for, epoch>> /\ message_ids' \in Nat
  BY DEF HandledAs, programs, given
<1>7. requests' \subseteq requests
  BY DEF HandledAs
<1>8. TypeOK'
  BY <1>2, <1>3, <1>5, <1>6, <1>7 DEF TypeOK, Requests
<1>9. GivenOK'
  BY <1>2, <1>3, <1>4, <1>6 DEF GivenOK
<1> QED
  BY <1>8, <1>9

\* The numbers of a partition are without gap, here and after one more.
LEMMA HandledNumbers ==
  ASSUME Inv, NEW q \in requests, HandledAs(q)
  PROVE  NumbersExact'
<1>1. NumbersExact /\ IsFiniteSet(ingested) /\ sequences \in [0..(PARTITIONS - 1) -> Nat]
  BY DEF Inv, IngestedOK, TypeOK
<1>2. epoch' = epoch
  BY DEF HandledAs
<1>3. CASE ~DueAt(q.from, q.at)
  <2>1. UNCHANGED <<sequences, ingested, epoch>>
    BY <1>2, <1>3 DEF HandledAs
  <2> QED
    BY <1>1, <2>1 DEF NumbersExact
<1>4. CASE DueAt(q.from, q.at)
  <2>0. PICK j \in 0..(PARTITIONS - 1) : \E x :
           /\ x.epoch = epoch /\ x.partition = j /\ x.number = sequences[j] + 1
           /\ x \notin ingested /\ ingested' = ingested \union {x}
           /\ sequences' = [sequences EXCEPT ![j] = @ + 1]
    BY <1>4, IngestLemma DEF HandledAs
  <2>1. PICK x :
           /\ x.epoch = epoch /\ x.partition = j /\ x.number = sequences[j] + 1
           /\ x \notin ingested /\ ingested' = ingested \union {x}
           /\ sequences' = [sequences EXCEPT ![j] = @ + 1]
    BY <2>0
  <2> SUFFICES ASSUME NEW k \in 0..(PARTITIONS - 1)
               PROVE  LET now == {y \in ingested' : y.epoch = epoch /\ y.partition = k}
                      IN /\ {y.number : y \in now} = 1..sequences'[k]
                         /\ Cardinality(now) = sequences'[k]
    BY <1>1, <1>2, <2>1 DEF NumbersExact
  <2> DEFINE now == {y \in ingested' : y.epoch = epoch /\ y.partition = k}
             here == {y \in ingested : y.epoch = epoch /\ y.partition = k}
  <2>2. {y.number : y \in here} = 1..sequences[k] /\ Cardinality(here) = sequences[k]
    BY <1>1 DEF NumbersExact
  <2>3. IsFiniteSet(here)
    BY <1>1, FS_Subset
  <2>4. sequences[k] \in Nat
    BY <1>1
  <2>5. CASE k # j
    <3>1. now = here
      BY <2>1, <2>5
    <3>2. sequences'[k] = sequences[k]
      BY <1>1, <2>1, <2>5
    <3> QED
      BY <2>2, <3>1, <3>2
  <2>6. CASE k = j
    <3>1. now = here \union {x} /\ x \notin here
      BY <2>1, <2>6
    <3>2. sequences'[k] = sequences[k] + 1
      BY <1>1, <2>1, <2>6
    <3>3. Cardinality(now) = Cardinality(here) + 1
      BY <2>3, <3>1, FS_AddElement
    <3>4. {y.number : y \in now} = {y.number : y \in here} \union {sequences[k] + 1}
      BY <2>1, <2>6, <3>1
    <3>5. 1..(sequences[k] + 1) = 1..sequences[k] \union {sequences[k] + 1}
      BY <2>4
    <3> HIDE DEF now, here
    <3> QED
      BY <2>2, <3>2, <3>3, <3>4, <3>5 DEF now
  <2> QED
    BY <2>5, <2>6
<1> QED
  BY <1>3, <1>4

\* Only q counts as ingested that did not before.
LEMMA HandledWas ==
  ASSUME Inv, NEW q \in requests, HandledAs(q)
  PROVE  /\ \A r : Was(r)' <=> Was(r) \/ (r = q /\ DueAt(q.from, q.at))
         /\ \A x \in ingested' \ ingested : x.epoch = epoch /\ x.request = q /\ DueAt(q.from, q.at)
         /\ \A x, y \in ingested' \ ingested : x = y
         /\ ingested \subseteq ingested' /\ IsFiniteSet(ingested')
<1>1. IsFiniteSet(ingested)
  BY DEF Inv, IngestedOK
<1>2. CASE ~DueAt(q.from, q.at)
  <2>1. ingested' = ingested
    BY <1>2 DEF HandledAs
  <2> QED
    BY <1>1, <1>2, <2>1 DEF Was
<1>3. CASE DueAt(q.from, q.at)
  <2>1. PICK x : x.epoch = epoch /\ x.request = q /\ ingested' = ingested \union {x}
    BY <1>3, IngestLemma DEF HandledAs
  <2>2. IsFiniteSet(ingested')
    BY <1>1, <2>1, FS_AddElement
  <2> QED
    BY <1>3, <2>1, <2>2 DEF Was
<1> QED
  BY <1>2, <1>3

LEMMA HandledHistory ==
  ASSUME Inv, NEW q \in requests, HandledAs(q)
  PROVE  RequestsOK' /\ IngestedOK' /\ BehindOK'
<1>1. /\ q \in [from : Programs, at : Nat, run : Nat]
      /\ q.at \in Exchanges(q.from) /\ q.run <= run[q.from] /\ ~Was(q)
      /\ q.run = run[q.from] => q.at = at[q.from] /\ pc[q.from] # "next"
  BY DEF Inv, RequestsOK
<1>2. UNCHANGED <<pc, at, run, all_ok, code, faults, epoch>> /\ requests' = requests \ {q}
  BY DEF HandledAs, programs, given
<1>3. answer \in [Programs -> Answers]
  BY DEF Inv, GivenOK
<1>4. \A p \in Programs : answer'[p] # answer[p] =>
         /\ p = q.from /\ run[p] = q.run /\ at[p] = q.at
         /\ answer'[p] = ResponseTo(Script[p][at[p]], FaultResponse)
  BY <1>1, <1>3 DEF HandledAs
<1>5. FaultResponse' = FaultResponse
  BY <1>2 DEF FaultResponse
<1>6. RequestsOK'
  <2> SUFFICES ASSUME NEW r \in requests, r # q
               PROVE  /\ r \in [from : Programs, at : Nat, run : Nat]
                      /\ r.at \in Exchanges(r.from) /\ r.run <= run[r.from]
                      /\ ~(Was(r)')
                      /\ r.run = run[r.from] =>
                           /\ r.at = at[r.from] /\ pc[r.from] # "next"
                           /\ answer'[r.from] = NoAnswer
    BY <1>2 DEF RequestsOK
  <2>1. /\ r \in [from : Programs, at : Nat, run : Nat]
        /\ r.at \in Exchanges(r.from) /\ r.run <= run[r.from]
        /\ ~Was(r)
        /\ r.run = run[r.from] =>
             r.at = at[r.from] /\ pc[r.from] # "next" /\ answer[r.from] = NoAnswer
    BY DEF Inv, RequestsOK
  <2>2. ~(Was(r)')
    BY <2>1, HandledWas
  <2>3. ~(r.from = q.from /\ r.run = q.run)
    BY DEF Inv, TypeOK
  <2> QED
    BY <1>4, <2>1, <2>2, <2>3
<1>7. IngestedOK'
  <2>1. IsFiniteSet(ingested') /\ ingested \subseteq ingested'
    BY HandledWas
  <2>2. ASSUME NEW x \in ingested', NEW y \in ingested', x.request = y.request
        PROVE  x = y
    <3>1. \A z \in ingested : z.request # q
      BY <1>1 DEF Was
    <3>2. x \notin ingested => x.request = q
      BY HandledWas
    <3>3. y \notin ingested => y.request = q
      BY HandledWas
    <3>4. x \notin ingested /\ y \notin ingested => x = y
      BY HandledWas
    <3>5. x \in ingested /\ y \in ingested => x = y
      BY <2>2 DEF Inv, IngestedOK
    <3> QED
      BY <2>2, <3>1, <3>2, <3>3, <3>4, <3>5
  <2>3. ASSUME NEW x \in ingested'
        PROVE  /\ x.epoch \in Nat /\ x.epoch <= epoch
               /\ x.request \in [from : Programs, at : Nat, run : Nat]
               /\ x.request.at \in Exchanges(x.request.from)
               /\ DueAt(x.request.from, x.request.at)
               /\ x.request.run <= run[x.request.from]
               /\ x.request.run = run[x.request.from] =>
                    /\ x.request.at <= at[x.request.from]
                    /\ x.request.at = at[x.request.from] => pc[x.request.from] # "next"
    <3>1. CASE x \in ingested
      BY <3>1 DEF Inv, IngestedOK
    <3>2. CASE x \notin ingested
      <4>1. x.epoch = epoch /\ x.request = q /\ DueAt(q.from, q.at)
        BY <3>2, HandledWas
      <4>2. epoch \in Nat /\ q.at \in Nat
        BY <1>1, IngestionAssumption DEF Inv, TypeOK
      <4> QED
        BY <1>1, <4>1, <4>2
    <3> QED
      BY <3>1, <3>2
  <2> QED
    BY <1>2, <2>1, <2>2, <2>3 DEF IngestedOK
<1>8. BehindOK'
  <2> SUFFICES ASSUME NEW p \in Programs
               PROVE  /\ \A i \in Exchanges(p) :
                           /\ DueAt(p, i)
                           /\ \/ i < at[p] \/ (i = at[p] /\ answer'[p] # NoAnswer)
                              \/ code[p] \in {0, 1}
                           => Was(RequestOf(p, i, run[p]))'
                      /\ answer'[p] # NoAnswer =>
                           answer'[p] = ResponseTo(Script[p][at[p]], FaultResponse)
                      /\ pc[p] = "wait" => ~(Current(p).checks /\ ~Current(p).msg.valid)
                      /\ pc[p] # "done" => all_ok[p]
                      /\ code[p] \in {0, 1} => (code[p] = 1 <=> p = "demo_validation" /\ ~faults)
    BY <1>2, <1>5 DEF BehindOK, RequestOf, Was, Current
  <2>1. /\ answer[p] # NoAnswer => answer[p] = ResponseTo(Script[p][at[p]], FaultResponse)
        /\ pc[p] = "wait" => ~(Current(p).checks /\ ~Current(p).msg.valid)
        /\ pc[p] # "done" => all_ok[p]
        /\ code[p] \in {0, 1} => (code[p] = 1 <=> p = "demo_validation" /\ ~faults)
    BY DEF Inv, BehindOK
  <2>2. ASSUME NEW i \in Exchanges(p), DueAt(p, i),
               i < at[p] \/ (i = at[p] /\ answer'[p] # NoAnswer) \/ code[p] \in {0, 1}
        PROVE  Was(RequestOf(p, i, run[p]))'
    <3>1. CASE i < at[p] \/ (i = at[p] /\ answer[p] # NoAnswer) \/ code[p] \in {0, 1}
      <4>1. Was(RequestOf(p, i, run[p]))
        BY <2>2, <3>1 DEF Inv, BehindOK
      <4>2. UNCHANGED RequestOf(p, i, run[p])
        BY <1>2 DEF RequestOf
      <4>3. ingested \subseteq ingested'
        BY HandledWas
      <4> QED
        BY <4>1, <4>2, <4>3 DEF Was
    <3>2. CASE i = at[p] /\ answer[p] = NoAnswer /\ answer'[p] # NoAnswer
      <4>1. q.from = p /\ q.run = run[p] /\ q.at = i
        BY <1>4, <3>2
      <4>2. q = RequestOf(p, i, run[p])
        BY <1>1, <4>1 DEF RequestOf
      <4>3. Was(q)'
        BY <2>2, <4>1, HandledWas
      <4> QED
        BY <1>2, <4>2, <4>3 DEF Was, RequestOf
    <3> QED
      BY <2>2, <3>1, <3>2
  <2> QED
    BY <1>4, <2>1, <2>2
<1> QED
  BY <1>6, <1>7, <1>8

LEMMA HandledStep ==
  ASSUME Inv, NEW q \in requests, Webhook(q) \/ ControlWebhook(q) \/ FaultyWebhook(q) \/ Messages(q)
  PROVE  Inv'
BY HandledLemma, HandledTypes, HandledNumbers, HandledHistory DEF Inv

-----------------------------------------------------------------------------
(* The programs *)

\* An exchange of p comes to the outcome o, with no request of this run on its way.
LEMMA NotedStep ==
  ASSUME Inv, NEW p \in Programs, pc[p] # "done", NEW o, Noted(p, o), UNCHANGED requests,
         \A q \in requests : ~(q.from = p /\ q.run = run[p]),
         DueAt(p, at[p]) => Was(RequestOf(p, at[p], run[p])),
         Current(p).expect \in {o, "any"} <=>
           ~(p = "demo_validation" /\ at[p] = Len(Script[p]) /\ ~faults)
  PROVE  Inv'
<1> DEFINE last == at[p] = Len(Script[p])
           ok == all_ok[p] /\ Current(p).expect \in {o, "any"}
<1>1. TypeOK /\ GivenOK /\ NumbersExact /\ RequestsOK /\ IngestedOK /\ BehindOK
  BY DEF Inv
<1>2. /\ UNCHANGED <<run, sequences, epoch, message_ids, ingested, active, faults, partition_for, requests>>
      /\ at' = [at EXCEPT ![p] = IF last THEN @ ELSE @ + 1]
      /\ pc' = [pc EXCEPT ![p] = IF last THEN "done" ELSE "next"]
      /\ answer' = [answer EXCEPT ![p] = NoAnswer]
      /\ all_ok' = [all_ok EXCEPT ![p] = ok]
      /\ code' = [code EXCEPT ![p] = IF last THEN (IF ok THEN 0 ELSE 1) ELSE @]
  BY DEF Noted, services, given
<1>3. at[p] \in 1..Len(Script[p]) /\ Len(Script[p]) \in Nat /\ all_ok[p] /\ code[p] = -1
  BY <1>1, ScriptFacts DEF TypeOK, BehindOK
<1>4. ok \in BOOLEAN /\ (ok <=> ~(p = "demo_validation" /\ last /\ ~faults))
  BY <1>3
<1> HIDE DEF ok
<1>5. /\ \A r \in Programs : r # p => /\ at'[r] = at[r] /\ pc'[r] = pc[r] /\ code'[r] = code[r]
                                       /\ all_ok'[r] = all_ok[r] /\ answer'[r] = answer[r]
      /\ answer'[p] = NoAnswer /\ all_ok'[p] = ok
      /\ last => pc'[p] = "done" /\ at'[p] = at[p] /\ code'[p] = IF ok THEN 0 ELSE 1
      /\ ~last => pc'[p] = "next" /\ at'[p] = at[p] + 1 /\ code'[p] = -1
  BY <1>1, <1>2, <1>3 DEF TypeOK, GivenOK
<1> HIDE DEF last
<1>6. GivenOK'
  <2>1. at' \in [Programs -> Nat]
    BY <1>1, <1>2, <1>3 DEF GivenOK
  <2>2. code' \in [Programs -> {-1, 0, 1, 2}]
    BY <1>1, <1>2 DEF GivenOK
  <2>3. answer' \in [Programs -> Answers]
    <3>1. NoAnswer \in Answers
      BY DEF NoAnswer, Answers
    <3> QED
      BY <1>1, <1>2, <3>1 DEF GivenOK
  <2> QED
    BY <1>1, <1>2, <2>1, <2>2, <2>3 DEF GivenOK
<1>7. TypeOK'
  <2>1. pc' \in [Programs -> {"next", "wait", "done"}]
    BY <1>1, <1>2 DEF TypeOK
  <2>2. all_ok' \in [Programs -> BOOLEAN]
    BY <1>1, <1>2, <1>4 DEF TypeOK
  <2>3. \A r \in Programs : at'[r] \in 1..Len(Script[r])
    <3>1. ~last => at[p] + 1 \in 1..Len(Script[p])
      BY <1>3 DEF last
    <3> QED
      BY <1>1, <1>3, <1>5, <3>1 DEF TypeOK
  <2>4. \A r \in Programs : code'[r] \in {-1, 0, 1, 2} /\ (pc'[r] = "done" <=> code'[r] # -1)
    BY <1>1, <1>5 DEF TypeOK
  <2>5. \A r \in Programs : answer'[r] # NoAnswer => pc'[r] = "wait"
    BY <1>1, <1>5 DEF TypeOK
  <2> QED
    BY <1>1, <1>2, <2>1, <2>2, <2>3, <2>4, <2>5 DEF TypeOK, Requests
<1>8. NumbersExact'
  BY <1>1, <1>2 DEF NumbersExact
<1>9. RequestsOK'
  BY <1>1, <1>2, <1>5 DEF RequestsOK, Was
<1>10. IngestedOK'
  <2>1. ASSUME NEW x \in ingested, x.request.run = run[x.request.from]
        PROVE  /\ x.request.at <= at'[x.request.from]
               /\ x.request.at = at'[x.request.from] => pc'[x.request.from] # "next"
    <3>1. /\ x.request.from \in Programs /\ x.request.at \in Nat
          /\ x.request.at <= at[x.request.from]
          /\ x.request.at = at[x.request.from] => pc[x.request.from] # "next"
      BY <1>1, <2>1 DEF IngestedOK
    <3>2. CASE x.request.from = p
      BY <1>3, <1>5, <3>1, <3>2
    <3>3. CASE x.request.from # p
      BY <1>5, <3>1, <3>3
    <3> QED
      BY <3>2, <3>3
  <2> QED
    BY <1>1, <1>2, <2>1 DEF IngestedOK
<1>11. BehindOK'
  <2>1. FaultResponse' = FaultResponse
    BY <1>2 DEF FaultResponse
  <2> SUFFICES ASSUME NEW r \in Programs
               PROVE  /\ \A i \in Exchanges(r) :
                           /\ DueAt(r, i)
                           /\ \/ i < at'[r] \/ (i = at'[r] /\ answer'[r] # NoAnswer)
                              \/ code'[r] \in {0, 1}
                           => Was(RequestOf(r, i, run[r]))
                      /\ answer'[r] # NoAnswer =>
                           answer'[r] = ResponseTo(Script[r][at'[r]], FaultResponse)
                      /\ pc'[r] = "wait" => ~(Current(r)'.checks /\ ~Current(r)'.msg.valid)
                      /\ pc'[r] # "done" => all_ok'[r]
                      /\ code'[r] \in {0, 1} =>
                           (code'[r] = 1 <=> r = "demo_validation" /\ ~faults)
    BY <1>2, <2>1 DEF BehindOK, RequestOf, Was
  <2>2. CASE r # p
    <3>1. Current(r)' = Current(r)
      BY <1>5, <2>2 DEF Current
    <3> QED
      BY <1>1, <1>5, <2>2, <3>1 DEF BehindOK
  <2>3. CASE r = p
    <3>1. ASSUME NEW i \in Exchanges(p), DueAt(p, i), i < at'[p] \/ code'[p] \in {0, 1}
          PROVE  Was(RequestOf(p, i, run[p]))
      <4>1. i <= at[p]
        BY <1>3, <1>5, <3>1 DEF Exchanges, last
      <4>2. i < at[p] \/ i = at[p]
        BY <1>3, <4>1 DEF Exchanges
      <4>3. CASE i < at[p]
        BY <1>1, <3>1, <4>3 DEF BehindOK
      <4>4. CASE i = at[p]
        BY <3>1, <4>4
      <4> QED
        BY <4>2, <4>3, <4>4
    <3>2. pc'[p] # "done" => all_ok'[p]
      BY <1>4, <1>5
    <3>3. code'[p] \in {0, 1} => (code'[p] = 1 <=> p = "demo_validation" /\ ~faults)
      BY <1>4, <1>5
    <3> QED
      BY <1>5, <2>3, <3>1, <3>2, <3>3
  <2> QED
    BY <2>2, <2>3
<1> QED
  BY <1>6, <1>7, <1>8, <1>9, <1>10, <1>11 DEF Inv

\* The expectation of the exchange p is at, whose response is r.
LEMMA CurrentFacts ==
  ASSUME Inv, NEW p \in Programs
  PROVE  /\ at[p] \in Exchanges(p) /\ Fits(Current(p))
         /\ AsExpected(Current(p), FaultResponse) <=>
              ~(p = "demo_validation" /\ at[p] = Len(Script[p]) /\ ~faults)
<1>1. at[p] \in Exchanges(p) /\ faults \in BOOLEAN
  BY DEF Inv, TypeOK, GivenOK, Exchanges
<1>2. Broken # NotFound
  BY DEF Broken, NotFound
<1>3. FaultResponse \in {Broken, NotFound} /\ (FaultResponse = NotFound <=> ~faults)
  BY <1>1, <1>2 DEF FaultResponse
<1> QED
  BY <1>1, <1>3, ScriptFacts DEF Current

LEMMA BlockStep ==
  ASSUME Inv, NEW p \in Programs, Block(p)
  PROVE  Inv'
<1>1. \A q \in requests : ~(q.from = p /\ q.run = run[p])
  BY DEF Inv, RequestsOK, Block
<1>2. ~DueAt(p, at[p])
  BY DEF DueAt, Block, Current
<1>3. AsExpected(Current(p), FaultResponse) <=> Current(p).expect \in {"not sent", "any"}
  BY DEF AsExpected, Block
<1> QED
  BY <1>1, <1>2, <1>3, CurrentFacts, NotedStep DEF Block

LEMMA ReceiveStep ==
  ASSUME Inv, NEW p \in Programs, Receive(p)
  PROVE  Inv'
<1>1. \A q \in requests : ~(q.from = p /\ q.run = run[p])
  BY DEF Inv, RequestsOK, Receive
<1>2. DueAt(p, at[p]) => Was(RequestOf(p, at[p], run[p]))
  BY CurrentFacts DEF Inv, BehindOK, Receive
<1>3. answer[p] = ResponseTo(Current(p), FaultResponse)
  BY DEF Inv, BehindOK, Receive, Current
<1>4. AsExpected(Current(p), FaultResponse) <=>
        Current(p).expect \in {Outcome(Current(p).url, answer[p]), "any"}
  <2>1. ~(Current(p).checks /\ ~Current(p).msg.valid)
    BY DEF Inv, BehindOK, Receive
  <2> QED
    BY <1>3, <2>1 DEF AsExpected
<1> QED
  BY <1>1, <1>2, <1>4, CurrentFacts, NotedStep DEF Receive

\* A step that leaves the services alone.
LEMMA NumbersUntouched ==
  ASSUME Inv, UNCHANGED services
  PROVE  NumbersExact'
BY DEF Inv, NumbersExact, services

LEMMA SendStep ==
  ASSUME Inv, NEW p \in Programs, Send(p)
  PROVE  Inv'
<1> DEFINE q == RequestOf(p, at[p], run[p])
<1>1. TypeOK /\ GivenOK /\ RequestsOK /\ IngestedOK /\ BehindOK
  BY DEF Inv
<1>2. /\ UNCHANGED <<services, at, run, all_ok, code, answer, active, faults, partition_for>>
      /\ UNCHANGED <<sequences, epoch, message_ids, ingested>>
      /\ pc[p] = "next" /\ pc' = [pc EXCEPT ![p] = "wait"]
      /\ requests' = requests \union {q}
  BY DEF Send, given, services, RequestOf
<1>3. /\ pc'[p] = "wait" /\ \A r \in Programs : r # p => pc'[r] = pc[r]
      /\ \A r \in Programs : (pc'[r] = "done" <=> pc[r] = "done") /\ (pc[r] = "wait" => pc'[r] = "wait")
      /\ \A r \in Programs : pc[r] # "next" => pc'[r] # "next"
  BY <1>1, <1>2 DEF TypeOK
<1>4. at[p] \in 1..Len(Script[p]) /\ Len(Script[p]) \in 1..(Count + 3 * Rounds + 4) /\ run[p] \in 1..MaxRuns
  BY <1>1, ScriptFacts DEF TypeOK
<1>5. Count \in Nat /\ Rounds \in Nat /\ MaxRuns \in Nat
  BY IngestionAssumption
<1>6. at[p] \in 1..(Count + 3 * Rounds + 4)
  BY <1>4, <1>5
<1>7. q.from = p /\ q.at = at[p] /\ q.run = run[p] /\ q \in Requests
  BY <1>4, <1>6 DEF RequestOf, Requests
<1>8. q \in [from : Programs, at : Nat, run : Nat]
  BY <1>4, <1>5 DEF RequestOf
<1>9. \A r \in requests : ~(r.from = p /\ r.run = run[p])
  BY <1>1, <1>2 DEF RequestsOK
<1>10. answer[p] = NoAnswer
  BY <1>1, <1>2 DEF TypeOK
<1>11. ~Was(q)
  <2> SUFFICES ASSUME NEW x \in ingested, x.request = q
               PROVE  FALSE
    BY DEF Was
  <2> QED
    BY <1>1, <1>2, <1>7 DEF IngestedOK
<1> HIDE DEF q
<1>12. TypeOK'
  <2>1. pc' \in [Programs -> {"next", "wait", "done"}]
    BY <1>1, <1>2 DEF TypeOK
  <2>2. \A r, s \in requests' : r.from = s.from /\ r.run = s.run => r = s
    BY <1>1, <1>2, <1>7, <1>9 DEF TypeOK
  <2>3. requests' \subseteq Requests
    BY <1>1, <1>2, <1>7 DEF TypeOK
  <2> QED
    BY <1>1, <1>2, <1>3, <2>1, <2>2, <2>3 DEF TypeOK
<1>13. GivenOK'
  BY <1>1, <1>2 DEF GivenOK
<1>14. RequestsOK'
  <2>1. \A r : Was(r)' <=> Was(r)
    BY <1>2 DEF Was
  <2>2. ASSUME NEW r \in requests
        PROVE  /\ r \in [from : Programs, at : Nat, run : Nat]
               /\ r.at \in Exchanges(r.from) /\ r.run <= run[r.from]
               /\ ~Was(r)
               /\ r.run = run[r.from] =>
                    r.at = at[r.from] /\ pc'[r.from] # "next" /\ answer[r.from] = NoAnswer
    BY <1>1, <1>3 DEF RequestsOK
  <2>3. /\ q.at \in Exchanges(q.from) /\ q.run <= run[q.from]
        /\ q.at = at[q.from] /\ pc'[q.from] # "next" /\ answer[q.from] = NoAnswer
    BY <1>3, <1>4, <1>5, <1>7, <1>10 DEF Exchanges
  <2> QED
    BY <1>2, <1>8, <1>11, <2>1, <2>2, <2>3 DEF RequestsOK
<1>15. IngestedOK'
  BY <1>1, <1>2, <1>3 DEF IngestedOK
<1>16. BehindOK'
  <2>1. FaultResponse' = FaultResponse /\ \A r \in Programs : Current(r)' = Current(r)
    BY <1>2 DEF FaultResponse, Current
  <2>2. ~(Current(p).checks /\ ~Current(p).msg.valid)
    BY DEF Send
  <2> SUFFICES ASSUME NEW r \in Programs
               PROVE  /\ \A i \in Exchanges(r) :
                           /\ DueAt(r, i)
                           /\ \/ i < at[r] \/ (i = at[r] /\ answer[r] # NoAnswer)
                              \/ code[r] \in {0, 1}
                           => Was(RequestOf(r, i, run[r]))
                      /\ answer[r] # NoAnswer =>
                           answer[r] = ResponseTo(Script[r][at[r]], FaultResponse)
                      /\ pc'[r] = "wait" => ~(Current(r).checks /\ ~Current(r).msg.valid)
                      /\ pc'[r] # "done" => all_ok[r]
                      /\ code[r] \in {0, 1} =>
                           (code[r] = 1 <=> r = "demo_validation" /\ ~faults)
    BY <1>2, <2>1 DEF BehindOK, RequestOf, Was
  <2> QED
    BY <1>1, <1>3, <2>2 DEF BehindOK
<1> QED
  BY <1>2, <1>12, <1>13, <1>14, <1>15, <1>16, NumbersUntouched DEF Inv

LEMMA TransportErrorStep ==
  ASSUME Inv, NEW p \in Programs, TransportError(p)
  PROVE  Inv'
<1>1. TypeOK /\ GivenOK /\ RequestsOK /\ IngestedOK /\ BehindOK
  BY DEF Inv
<1>2. /\ UNCHANGED <<services, at, run, all_ok, active, faults, partition_for>>
      /\ UNCHANGED <<sequences, epoch, message_ids, ingested>>
      /\ pc[p] = "wait" /\ pc' = [pc EXCEPT ![p] = "done"]
      /\ code' = [code EXCEPT ![p] = 2] /\ answer' = [answer EXCEPT ![p] = NoAnswer]
      /\ requests' \subseteq requests
  BY DEF TransportError, MayTimeOut, AfterTransportError, given, services
<1>3. /\ pc'[p] = "done" /\ code'[p] = 2 /\ answer'[p] = NoAnswer
      /\ \A r \in Programs : r # p => pc'[r] = pc[r] /\ code'[r] = code[r] /\ answer'[r] = answer[r]
  BY <1>1, <1>2 DEF TypeOK, GivenOK
<1>4. \A r \in Programs : answer'[r] = answer[r] \/ answer'[r] = NoAnswer
  BY <1>3
<1>5. TypeOK'
  <2>1. pc' \in [Programs -> {"next", "wait", "done"}]
    BY <1>1, <1>2 DEF TypeOK
  <2>2. \A r \in Programs : code'[r] \in {-1, 0, 1, 2} /\ (pc'[r] = "done" <=> code'[r] # -1)
    BY <1>1, <1>3 DEF TypeOK
  <2>3. \A r \in Programs : answer'[r] # NoAnswer => pc'[r] = "wait"
    BY <1>1, <1>3 DEF TypeOK
  <2> QED
    BY <1>1, <1>2, <2>1, <2>2, <2>3 DEF TypeOK
<1>6. GivenOK'
  <2>1. NoAnswer \in Answers
    BY DEF NoAnswer, Answers
  <2>2. answer' \in [Programs -> Answers]
    BY <1>1, <1>2, <2>1 DEF GivenOK
  <2>3. code' \in [Programs -> {-1, 0, 1, 2}]
    BY <1>1, <1>2 DEF GivenOK
  <2> QED
    BY <1>1, <1>2, <2>2, <2>3 DEF GivenOK
<1>7. \A r \in Programs : pc[r] # "next" => pc'[r] # "next"
  BY <1>3
<1>8. RequestsOK'
  BY <1>1, <1>2, <1>4, <1>7 DEF RequestsOK, Was
<1>9. IngestedOK'
  BY <1>1, <1>2, <1>7 DEF IngestedOK
<1>10. BehindOK'
  <2>1. FaultResponse' = FaultResponse /\ \A r \in Programs : Current(r)' = Current(r)
    BY <1>2 DEF FaultResponse, Current
  <2> SUFFICES ASSUME NEW r \in Programs
               PROVE  /\ \A i \in Exchanges(r) :
                           /\ DueAt(r, i)
                           /\ \/ i < at[r] \/ (i = at[r] /\ answer'[r] # NoAnswer)
                              \/ code'[r] \in {0, 1}
                           => Was(RequestOf(r, i, run[r]))
                      /\ answer'[r] # NoAnswer =>
                           answer'[r] = ResponseTo(Script[r][at[r]], FaultResponse)
                      /\ pc'[r] = "wait" => ~(Current(r).checks /\ ~Current(r).msg.valid)
                      /\ pc'[r] # "done" => all_ok[r]
                      /\ code'[r] \in {0, 1} =>
                           (code'[r] = 1 <=> r = "demo_validation" /\ ~faults)
    BY <1>2, <2>1 DEF BehindOK, RequestOf, Was
  <2> QED
    BY <1>1, <1>3 DEF BehindOK
<1> QED
  BY <1>2, <1>5, <1>6, <1>8, <1>9, <1>10, NumbersUntouched DEF Inv

LEMMA RunAgainStep ==
  ASSUME Inv, NEW p \in Programs, RunAgain(p)
  PROVE  Inv'
<1>1. TypeOK /\ GivenOK /\ RequestsOK /\ IngestedOK /\ BehindOK
  BY DEF Inv
<1>2. /\ UNCHANGED <<services, requests, answer, active, faults, partition_for>>
      /\ UNCHANGED <<sequences, epoch, message_ids, ingested>>
      /\ pc[p] = "done" /\ run[p] < MaxRuns
      /\ run' = [run EXCEPT ![p] = @ + 1]
      /\ pc' = [pc EXCEPT ![p] = "next"] /\ at' = [at EXCEPT ![p] = 1]
      /\ all_ok' = [all_ok EXCEPT ![p] = TRUE] /\ code' = [code EXCEPT ![p] = -1]
  BY DEF RunAgain, given, services
<1>3. run[p] \in 1..MaxRuns /\ MaxRuns \in Nat /\ run[p] \in Nat /\ answer[p] = NoAnswer
  BY <1>1, <1>2, IngestionAssumption DEF TypeOK
<1>4. /\ run'[p] = run[p] + 1 /\ pc'[p] = "next" /\ at'[p] = 1 /\ all_ok'[p] /\ code'[p] = -1
      /\ \A r \in Programs : r # p => /\ run'[r] = run[r] /\ pc'[r] = pc[r] /\ at'[r] = at[r]
                                       /\ all_ok'[r] = all_ok[r] /\ code'[r] = code[r]
  BY <1>1, <1>2 DEF TypeOK, GivenOK
<1>5. TypeOK'
  <2>1. pc' \in [Programs -> {"next", "wait", "done"}]
    BY <1>1, <1>2 DEF TypeOK
  <2>2. all_ok' \in [Programs -> BOOLEAN]
    BY <1>1, <1>2 DEF TypeOK
  <2>3. \A r \in Programs : at'[r] \in 1..Len(Script[r])
    BY <1>1, <1>4, ScriptFacts DEF TypeOK
  <2>4. \A r \in Programs : run'[r] \in 1..MaxRuns
    BY <1>1, <1>2, <1>3, <1>4 DEF TypeOK
  <2>5. \A r \in Programs : code'[r] \in {-1, 0, 1, 2} /\ (pc'[r] = "done" <=> code'[r] # -1)
    BY <1>1, <1>4 DEF TypeOK
  <2>6. \A r \in Programs : answer'[r] # NoAnswer => pc'[r] = "wait"
    BY <1>1, <1>2, <1>3, <1>4 DEF TypeOK
  <2> QED
    BY <1>1, <1>2, <2>1, <2>2, <2>3, <2>4, <2>5, <2>6 DEF TypeOK
<1>6. GivenOK'
  <2>1. at' \in [Programs -> Nat] /\ run' \in [Programs -> Nat]
    BY <1>1, <1>2, <1>3 DEF GivenOK
  <2>2. code' \in [Programs -> {-1, 0, 1, 2}]
    BY <1>1, <1>2 DEF GivenOK
  <2> QED
    BY <1>1, <1>2, <2>1, <2>2 DEF GivenOK
<1>7. RequestsOK'
  <2> SUFFICES ASSUME NEW q \in requests
               PROVE  /\ q \in [from : Programs, at : Nat, run : Nat]
                      /\ q.at \in Exchanges(q.from) /\ q.run <= run'[q.from]
                      /\ ~Was(q)
                      /\ q.run = run'[q.from] =>
                           /\ q.at = at'[q.from] /\ pc'[q.from] # "next"
                           /\ answer[q.from] = NoAnswer
    BY <1>2 DEF RequestsOK, Was
  <2>1. /\ q \in [from : Programs, at : Nat, run : Nat]
        /\ q.at \in Exchanges(q.from) /\ q.run <= run[q.from] /\ ~Was(q)
        /\ q.run = run[q.from] =>
             q.at = at[q.from] /\ pc[q.from] # "next" /\ answer[q.from] = NoAnswer
    BY <1>1 DEF RequestsOK
  <2>2. CASE q.from = p
    BY <1>3, <1>4, <2>1, <2>2
  <2>3. CASE q.from # p
    BY <1>4, <2>1, <2>3
  <2> QED
    BY <2>2, <2>3
<1>8. IngestedOK'
  <2>1. ASSUME NEW x \in ingested
        PROVE  /\ x.request.run <= run'[x.request.from]
               /\ x.request.run = run'[x.request.from] =>
                    /\ x.request.at <= at'[x.request.from]
                    /\ x.request.at = at'[x.request.from] => pc'[x.request.from] # "next"
    <3>1. /\ x.request \in [from : Programs, at : Nat, run : Nat]
          /\ x.request.run <= run[x.request.from]
          /\ x.request.run = run[x.request.from] =>
               /\ x.request.at <= at[x.request.from]
               /\ x.request.at = at[x.request.from] => pc[x.request.from] # "next"
      BY <1>1 DEF IngestedOK
    <3>2. CASE x.request.from = p
      BY <1>3, <1>4, <3>1, <3>2
    <3>3. CASE x.request.from # p
      BY <1>4, <3>1, <3>3
    <3> QED
      BY <3>2, <3>3
  <2> QED
    BY <1>1, <1>2, <2>1 DEF IngestedOK
<1>9. BehindOK'
  <2>1. FaultResponse' = FaultResponse
    BY <1>2 DEF FaultResponse
  <2> SUFFICES ASSUME NEW r \in Programs
               PROVE  /\ \A i \in Exchanges(r) :
                           /\ DueAt(r, i)
                           /\ \/ i < at'[r] \/ (i = at'[r] /\ answer[r] # NoAnswer)
                              \/ code'[r] \in {0, 1}
                           => Was(RequestOf(r, i, run'[r]))
                      /\ answer[r] # NoAnswer =>
                           answer[r] = ResponseTo(Script[r][at'[r]], FaultResponse)
                      /\ pc'[r] = "wait" => ~(Current(r)'.checks /\ ~Current(r)'.msg.valid)
                      /\ pc'[r] # "done" => all_ok'[r]
                      /\ code'[r] \in {0, 1} =>
                           (code'[r] = 1 <=> r = "demo_validation" /\ ~faults)
    BY <1>2, <2>1 DEF BehindOK, RequestOf, Was
  <2>2. CASE r = p
    <3>1. \A i \in Exchanges(p) : ~(i < 1)
      BY ScriptFacts DEF Exchanges
    <3> QED
      BY <1>3, <1>4, <2>2, <3>1
  <2>3. CASE r # p
    <3>1. Current(r)' = Current(r)
      BY <1>4, <2>3 DEF Current
    <3> QED
      BY <1>1, <1>4, <2>3, <3>1 DEF BehindOK
  <2> QED
    BY <2>2, <2>3
<1> QED
  BY <1>2, <1>5, <1>6, <1>7, <1>8, <1>9, NumbersUntouched DEF Inv

-----------------------------------------------------------------------------
(* The restart, and all steps together *)

LEMMA RestartStep ==
  ASSUME Inv, Restart
  PROVE  Inv'
<1>1. TypeOK /\ GivenOK /\ IngestedOK /\ BehindOK
  BY DEF Inv
<1>2. /\ UNCHANGED <<pc, at, run, all_ok, code, answer, active, faults, partition_for, ingested>>
      /\ epoch < MaxRestarts /\ epoch' = epoch + 1 /\ requests' = {} /\ message_ids' = 0
      /\ sequences' = [k \in DOMAIN sequences |-> 0]
  BY DEF Restart, programs, given
<1>3. epoch \in Nat /\ epoch' \in 0..MaxRestarts
  BY <1>1, <1>2, IngestionAssumption DEF TypeOK
<1>4. DOMAIN sequences = 0..(PARTITIONS - 1)
  BY <1>1 DEF GivenOK
<1>5. TypeOK'
  BY <1>1, <1>2, <1>3, <1>4 DEF TypeOK
<1>6. GivenOK'
  BY <1>1, <1>2, <1>4 DEF GivenOK
<1>7. NumbersExact'
  <2>1. ASSUME NEW k \in DOMAIN sequences'
        PROVE  LET here == {x \in ingested' : x.epoch = epoch' /\ x.partition = k}
               IN /\ {x.number : x \in here} = 1..sequences'[k]
                  /\ Cardinality(here) = sequences'[k]
    <3> DEFINE here == {x \in ingested' : x.epoch = epoch' /\ x.partition = k}
    <3>1. here = {}
      BY <1>1, <1>2, <1>3 DEF IngestedOK
    <3>2. sequences'[k] = 0
      BY <1>2, <1>4, <2>1
    <3>3. 1..0 = {} /\ Cardinality({}) = 0
      BY FS_EmptySet
    <3> HIDE DEF here
    <3>4. {x.number : x \in here} = 1..sequences'[k] /\ Cardinality(here) = sequences'[k]
      BY <3>1, <3>2, <3>3
    <3> QED
      BY <3>4 DEF here
  <2> QED
    BY <2>1 DEF NumbersExact
<1>8. RequestsOK'
  BY <1>2 DEF RequestsOK
<1>9. IngestedOK'
  <2>1. \A x \in ingested : x.epoch \in Nat /\ x.epoch <= epoch'
    <3>1. \A x \in ingested : x.epoch \in Nat /\ x.epoch <= epoch
      BY <1>1 DEF IngestedOK
    <3> QED
      BY <1>2, <1>3, <3>1
  <2> QED
    BY <1>1, <1>2, <2>1 DEF IngestedOK
<1>10. BehindOK'
  BY <1>1, <1>2 DEF BehindOK, RequestOf, Was, Current, FaultResponse
<1> QED
  BY <1>5, <1>6, <1>7, <1>8, <1>9, <1>10 DEF Inv

LEMMA InitInv ==
  ASSUME Init
  PROVE  Inv
<1>1. TypeOK
  <2>1. \A p \in Programs : at[p] \in 1..Len(Script[p])
    BY ScriptFacts DEF Init
  <2> QED
    BY <2>1, IngestionAssumption DEF Init, TypeOK
<1>2. GivenOK
  <2>1. NoAnswer \in Answers
    BY DEF NoAnswer, Answers
  <2> QED
    BY <2>1, IngestionAssumption DEF Init, GivenOK
<1>3. NumbersExact
  <2> SUFFICES ASSUME NEW k \in 0..(PARTITIONS - 1)
               PROVE  LET here == {x \in ingested : x.epoch = epoch /\ x.partition = k}
                      IN /\ {x.number : x \in here} = 1..sequences[k]
                         /\ Cardinality(here) = sequences[k]
    BY DEF NumbersExact, Init
  <2>1. {x \in ingested : x.epoch = epoch /\ x.partition = k} = {}
    BY DEF Init
  <2>2. sequences[k] = 0
    BY DEF Init
  <2>3. 1..0 = {} /\ Cardinality({}) = 0
    BY FS_EmptySet
  <2> QED
    BY <2>1, <2>2, <2>3
<1>4. RequestsOK
  BY DEF Init, RequestsOK
<1>5. IngestedOK
  BY FS_EmptySet DEF Init, IngestedOK
<1>6. BehindOK
  <2>1. \A p \in Programs : \A i \in Exchanges(p) : ~(i < 1)
    BY ScriptFacts DEF Exchanges
  <2> QED
    BY <2>1 DEF Init, BehindOK
<1> QED
  BY <1>1, <1>2, <1>3, <1>4, <1>5, <1>6 DEF Inv

LEMMA StepInv ==
  ASSUME Inv, [Next]_vars
  PROVE  Inv'
<1>1. CASE Handle
  BY <1>1, HandledStep DEF Handle
<1>2. CASE Restart
  BY <1>2, RestartStep
<1>3. ASSUME NEW p \in active, Go(p) \/ RunAgain(p)
      PROVE  Inv'
  <2>1. p \in Programs
    BY DEF Inv, GivenOK
  <2> QED
    BY <1>3, <2>1, BlockStep, SendStep, ReceiveStep, TransportErrorStep, RunAgainStep DEF Go
<1>4. CASE UNCHANGED vars
  <2>1. /\ UNCHANGED <<active, faults, partition_for, sequences, epoch, message_ids, requests>>
        /\ UNCHANGED <<pc, at, run, all_ok, code, answer, ingested, services>>
    BY <1>4 DEF vars, services, given, programs
  <2>2. TypeOK' /\ GivenOK'
    BY <2>1 DEF Inv, TypeOK, GivenOK
  <2>3. RequestsOK' /\ IngestedOK'
    BY <2>1 DEF Inv, RequestsOK, IngestedOK, Was
  <2>4. BehindOK'
    BY <2>1 DEF Inv, BehindOK, RequestOf, Was, Current, FaultResponse
  <2> QED
    BY <2>1, <2>2, <2>3, <2>4, NumbersUntouched DEF Inv
<1> QED
  BY <1>1, <1>2, <1>3, <1>4 DEF Next

LEMMA AlwaysInv == Spec => []Inv
<1>1. Init => Inv
  BY InitInv
<1>2. Inv /\ [Next]_vars => Inv'
  BY StepInv
<1> QED
  BY <1>1, <1>2, PTL DEF Spec

-----------------------------------------------------------------------------
(* The theorems *)

\* The types of all variables; at most one request of a run is on its way, and a
\* response waits only for a program that waits for it.
THEOREM TypeCorrect == Spec => []TypeOK
<1>1. Inv => TypeOK
  BY DEF Inv
<1> QED
  BY <1>1, AlwaysInv, PTL

\* In the life of a service each partition gives out the numbers from 1 on without
\* gap or repetition (ingest, ingestion_service.py), for any traffic and restarts.
THEOREM NumbersAlwaysExact == Spec => []NumbersExact
<1>1. Inv => NumbersExact
  BY DEF Inv
<1> QED
  BY <1>1, AlwaysInv, PTL

\* A run ingests a message at most once, and when it returns without a transport
\* error exactly the valid messages it sent to an ingesting route.
THEOREM MessagesIngestedOnce == Spec => []IngestedOnce
<1>1. ASSUME Inv, NEW p \in Programs, NEW r \in 1..run[p], NEW i \in 1..Len(Script[p])
      PROVE  LET here == {x \in ingested : x.request = [from |-> p, at |-> i, run |-> r]}
                 due == Script[p][i].msg.valid /\ Script[p][i].url \in {"/webhook", "/control/webhook"}
             IN /\ Cardinality(here) <= IF due THEN 1 ELSE 0
                /\ r = run[p] /\ code[p] \in {0, 1} => (Cardinality(here) = 1 <=> due)
  <2> DEFINE here == {x \in ingested : x.request = RequestOf(p, i, r)}
  <2>1. i \in Exchanges(p)
    BY DEF Exchanges
  <2>2. DueAt(p, i) <=> Script[p][i].msg.valid /\ Script[p][i].url \in {"/webhook", "/control/webhook"}
    BY DEF DueAt, Ingesting
  <2>3. RequestOf(p, i, r).from = p /\ RequestOf(p, i, r).at = i
    BY DEF RequestOf
  <2>4. Cardinality({}) = 0 /\ \A x : Cardinality({x}) = 1
    BY FS_EmptySet, FS_Singleton
  <2>5. \A x, y \in here : x = y
    BY <1>1 DEF Inv, IngestedOK
  <2>6. here = {} \/ \E x \in here : here = {x}
    BY <2>5
  <2>7. here # {} => DueAt(p, i)
    BY <1>1, <2>3 DEF Inv, IngestedOK
  <2>8. r = run[p] /\ code[p] \in {0, 1} /\ DueAt(p, i) => here # {}
    BY <1>1, <2>1 DEF Inv, BehindOK, Was
  <2> HIDE DEF here
  <2>9. Cardinality(here) \in {0, 1} /\ (Cardinality(here) = 1 <=> here # {})
    <3>1. CASE here = {}
      BY <2>4, <3>1
    <3>2. ASSUME NEW x \in here, here = {x}
          PROVE  Cardinality(here) = 1 /\ here # {}
      BY <2>4, <3>2
    <3> QED
      BY <2>6, <3>1, <3>2
  <2>10. here = {x \in ingested : x.request = [from |-> p, at |-> i, run |-> r]}
    BY DEF here, RequestOf
  <2>11. DueAt(p, i) \in BOOLEAN
    BY DEF DueAt
  <2>12. CASE DueAt(p, i)
    BY <2>2, <2>8, <2>9, <2>10, <2>12
  <2>13. CASE ~DueAt(p, i)
    BY <2>2, <2>7, <2>9, <2>10, <2>13
  <2> QED
    BY <2>12, <2>13
<1>2. Inv => IngestedOnce
  BY <1>1 DEF IngestedOnce
<1> QED
  BY <1>2, AlwaysInv, PTL

\* A run without a transport error ends with every outcome as its program expects,
\* except demo_validation with a service that was started without its fault route.
THEOREM VerdictsAsMeant == Spec => []Verdicts
<1>1. Inv => Verdicts
  BY DEF Inv, BehindOK, Verdicts
<1> QED
  BY <1>1, AlwaysInv, PTL
=============================================================================

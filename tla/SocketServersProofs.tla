------------------------ MODULE SocketServersProofs ------------------------
(***************************************************************************)
(* Every answer is the right one, and only interrupts cut a client off,    *)
(* for any number of clients, connections and sentences.                   *)
(*                                                                         *)
(* Nothing on a connection marks where a sentence ends, so the properties  *)
(* hold because at most one is on its way: InFlight follows it from the    *)
(* client to the handler and back.  That a handler works for one           *)
(* connection only, and a closed one is never served again, is PendingOK   *)
(* and ServedOK.                                                           *)
(***************************************************************************)
EXTENDS SocketServers, TLAPS

Connected == {"send", "wait", "other?", "close"}

\* Answer(Message(k, n)), as a record.
AnswerTo(kd, k, n) ==
  [of |-> k, no |-> n, form |-> IF kd = "threaded" THEN "completed" ELSE "capitals"]

Shape ==
  /\ backlog \in Seq(Conn)
  /\ data = [k \in Conn |-> data[k]]
  /\ toServer = [k \in Conn |-> toServer[k]]
  /\ toClient = [k \in Conn |-> toClient[k]]
  /\ todo = [c \in Clients |-> todo[c]]
  /\ got = [c \in Clients |-> got[c]]

ClientsOK ==
  \A c \in Clients :
    /\ todo[c] \in 1..MaxMsgs
    /\ kind # "session" => todo[c] = 1
    /\ pc[c] \in Connected => conn[c] >= 1 /\ <<c, conn[c]>> \notin gone
    /\ pc[c] = "send" => sent[c] < todo[c]
    /\ pc[c] = "wait" => sent[c] >= 1 /\ sent[c] <= todo[c] /\ got[c] = <<>>

\* Nothing has happened to connections yet to be made.
FreshOK ==
  \A c \in Clients : \A n \in 1..MaxConns : n > conn[c] =>
    /\ <<c, n>> \notin shut /\ <<c, n>> \notin gone /\ <<c, n>> # socket
    /\ stage[<<c, n>>] = "none"
    /\ toServer[<<c, n>>] = <<>> /\ toClient[<<c, n>>] = <<>>
    /\ \A i \in 1..Len(backlog) : backlog[i] # <<c, n>>

\* A connection is handed to a handler once.
PendingOK ==
  /\ \A i \in 1..Len(backlog) : stage[backlog[i]] = "none" /\ backlog[i] \notin shut
  /\ \A i, j \in 1..Len(backlog) : backlog[i] = backlog[j] => i = j
  /\ main = "accepted" =>
       /\ socket \in Conn /\ socket \notin shut /\ stage[socket] = "none"
       /\ \A i \in 1..Len(backlog) : backlog[i] # socket

\* A server that is down has nothing pending.
DownOK ==
  /\ main \in {"down", "exited"} => ~listening
  /\ ~listening => backlog = <<>>

\* A closed connection is out of its handler's hands.
ServedOK ==
  \A k \in Conn :
    /\ k \in shut => stage[k] = "closed" \/ (stage[k] = "none" /\ ~listening)
    /\ stage[k] = "work" /\ data[k] = <<>> => k \in gone

\* At most one sentence of c is on its way, and it is the last one sent: before, at
\* or behind the handler.
SentBy(c) ==
  LET k == <<c, conn[c]>>
  IN /\ stage[k] = "work" =>
          /\ pc[c] = "wait" /\ data[k] = <<Message(k, sent[c])>>
          /\ toServer[k] = <<>> /\ toClient[k] = <<>>
     /\ toClient[k] # <<>> =>
          /\ pc[c] = "wait" /\ toClient[k] = <<AnswerTo(kind, k, sent[c])>>
          /\ k \in shut \/ toServer[k] = <<>>
     /\ k \notin shut /\ toServer[k] # <<>> =>
          pc[c] = "wait" /\ toServer[k] = <<Message(k, sent[c])>>
     /\ (listening \/ Drains) /\ stage[k] \in {"closing", "closed"} =>
          kind # "session" /\ pc[c] = "wait" /\ toClient[k] # <<>>

InFlight == \A c \in Clients : pc[c] \in {"send", "wait"} => SentBy(c)

\* RightAnswer, in the terms of InFlight.
AnswersOK ==
  \A c \in Clients : got[c] # <<>> => got[c] = <<AnswerTo(kind, <<c, conn[c]>>, sent[c])>>

Inv ==
  /\ TypeOK /\ Shape /\ ClientsOK /\ FreshOK /\ PendingOK /\ ServedOK /\ InFlight
  /\ DownOK /\ AnswersOK

-----------------------------------------------------------------------------
\* Every client's connection is one there can be.
LEMMA CurrentConn ==
  ASSUME Inv
  PROVE  /\ \A c \in Clients : pc[c] \in Connected => <<c, conn[c]>> \in Conn
         /\ \A c \in Clients : conn[c] \in 0..MaxConns /\ sent[c] \in 0..MaxMsgs
         /\ MaxConns \in Nat /\ MaxMsgs \in Nat /\ NoConn \notin Conn
  BY SocketAssumption DEF Inv, TypeOK, ClientsOK, Conn, NoConn

LEMMA AppendFacts ==
  ASSUME NEW S, NEW s \in Seq(S), NEW e \in S
  PROVE  /\ Append(s, e) \in Seq(S)
         /\ Len(s) \in Nat /\ Len(Append(s, e)) = Len(s) + 1
         /\ \A i \in 1..Len(s) : Append(s, e)[i] = s[i]
         /\ Append(s, e)[Len(s) + 1] = e
  OBVIOUS

LEMMA TailFacts ==
  ASSUME NEW S, NEW s \in Seq(S), s # <<>>
  PROVE  /\ Len(s) \in Nat /\ Len(s) >= 1
         /\ Head(s) = s[1] /\ Head(s) \in S
         /\ Tail(s) \in Seq(S)
         /\ Len(Tail(s)) = Len(s) - 1
         /\ \A i \in 1..(Len(s) - 1) : Tail(s)[i] = s[i + 1]
  OBVIOUS

LEMMA SingleFacts ==
  ASSUME NEW x
  PROVE  <<>> \o <<x>> = <<x>> /\ <<x>> # <<>>
  OBVIOUS

LEMMA ToSetFacts ==
  ASSUME NEW S, NEW s \in Seq(S)
  PROVE  /\ \A x : x \in ToSet(s) <=> \E i \in 1..Len(s) : s[i] = x
         /\ ToSet(s) \subseteq S
         /\ ToSet(<<>>) = {} /\ Len(<<>>) = 0
  BY DEF ToSet

\* What the handler makes of one sentence.
LEMMA AnswerFacts ==
  ASSUME NEW k, NEW n
  PROVE  /\ Answer(Message(k, n)) = AnswerTo(kind, k, n)
         /\ Process(<<Message(k, n)>>) = <<AnswerTo(kind, k, n)>>
         /\ Process(<<>>) = <<>>
<1>1. Answer(Message(k, n)) = AnswerTo(kind, k, n)
  BY DEF Answer, Message, AnswerTo
<1>. DEFINE m == Message(k, n)
<1>. HIDE DEF m
<1>2. Process(<<m>>) = <<Answer(m)>>
  BY DEF Process
<1>3. Process(<<>>) = <<>>
  BY DEF Process
<1>. QED BY <1>1, <1>2, <1>3 DEF m

-----------------------------------------------------------------------------
(* The clients *)

LEMMA ConnectInv ==
  ASSUME Inv, NEW c \in Clients, Connect(c)
  PROVE  Inv'
<1>1. /\ \A d \in Clients : pc[d] \in Connected => <<d, conn[d]>> \in Conn
      /\ \A d \in Clients : conn[d] \in 0..MaxConns /\ sent[d] \in 0..MaxMsgs
      /\ MaxConns \in Nat /\ MaxMsgs \in Nat /\ NoConn \notin Conn
  BY CurrentConn
<1>. DEFINE k == <<c, conn[c] + 1>>
<1>2. /\ listening /\ pc[c] = "connect" /\ conn[c] < MaxConns /\ Len(backlog) <= Listen
      /\ backlog' = Append(backlog, k)
      /\ UNCHANGED <<kind, lang, listening, main, socket, stage, data, toServer,
                     toClient, shut, gone, todo>>
  BY DEF Connect
<1>3. k \in Conn /\ conn[c] + 1 \in 1..MaxConns
  BY <1>1, <1>2 DEF Conn
<1>4. /\ conn' \in [Clients -> 0..MaxConns] /\ conn'[c] = conn[c] + 1
      /\ \A d \in Clients : d # c => conn'[d] = conn[d]
  BY <1>3 DEF Connect, Inv, TypeOK
<1>5. /\ sent' \in [Clients -> 0..MaxMsgs] /\ sent'[c] = 0
      /\ \A d \in Clients : d # c => sent'[d] = sent[d]
  BY <1>1 DEF Connect, Inv, TypeOK
<1>6. /\ pc'[c] = "send" /\ \A d \in Clients : d # c => pc'[d] = pc[d]
      /\ pc' \in [Clients -> {"connect", "retry?", "send", "wait", "other?", "close", "done"}]
  BY DEF Connect, Inv, TypeOK
<1>7. /\ got' = [d \in Clients |-> got'[d]]
      /\ got'[c] = <<>> /\ \A d \in Clients : d # c => got'[d] = got[d]
  BY DEF Connect, Inv, Shape
<1>8. /\ backlog' \in Seq(Conn) /\ Len(backlog) \in Nat /\ Len(backlog') = Len(backlog) + 1
      /\ \A i \in 1..Len(backlog) : backlog'[i] = backlog[i]
      /\ backlog'[Len(backlog) + 1] = k
  BY <1>2, <1>3, AppendFacts DEF Inv, Shape
<1>9. /\ k \notin shut /\ k \notin gone /\ k # socket /\ stage[k] = "none"
      /\ toServer[k] = <<>> /\ toClient[k] = <<>>
      /\ \A i \in 1..Len(backlog) : backlog[i] # k
  BY <1>1, <1>3 DEF Inv, FreshOK
<1>. HIDE DEF k
<1>10. /\ \A d \in Clients : d # c => <<d, conn'[d]>> # k
      /\ <<c, conn'[c]>> = k
  BY <1>4 DEF k
<1>11. TypeOK'
  <2>1. Len(backlog') <= Listen' + 1
    BY <1>2, <1>8 DEF Listen
  <2>2. ToSet(backlog') \subseteq Conn
    BY <1>8 DEF ToSet
  <2>. QED BY <1>2, <1>4, <1>5, <1>6, <2>1, <2>2 DEF Inv, TypeOK
<1>12. Shape'
  BY <1>2, <1>7, <1>8 DEF Inv, Shape
<1>13. ClientsOK'
  <2>1. SUFFICES ASSUME NEW d \in Clients
                 PROVE  /\ todo'[d] \in 1..MaxMsgs
                        /\ kind' # "session" => todo'[d] = 1
                        /\ pc'[d] \in Connected => conn'[d] >= 1 /\ <<d, conn'[d]>> \notin gone'
                        /\ pc'[d] = "send" => sent'[d] < todo'[d]
                        /\ pc'[d] = "wait" => sent'[d] >= 1 /\ sent'[d] <= todo'[d] /\ got'[d] = <<>>
    BY DEF ClientsOK
  <2>2. CASE d # c
    BY <1>2, <1>4, <1>5, <1>6, <1>7, <2>2 DEF Inv, ClientsOK
  <2>3. CASE d = c
    <3>1. conn'[c] >= 1 /\ <<c, conn'[c]>> \notin gone
      BY <1>3, <1>4, <1>9, <1>10
    <3>2. sent'[c] < todo[c] /\ todo[c] \in 1..MaxMsgs /\ (kind # "session" => todo[c] = 1)
      <4>1. todo[c] \in 1..MaxMsgs /\ (kind # "session" => todo[c] = 1)
        BY DEF Inv, ClientsOK
      <4>2. sent'[c] = 0
        BY <1>5
      <4>. QED BY <1>1, <4>1, <4>2
    <3>. QED BY <1>2, <1>6, <2>3, <3>1, <3>2
  <2>. QED BY <2>2, <2>3
<1>14. FreshOK'
  <2>1. SUFFICES ASSUME NEW d \in Clients, NEW n \in 1..MaxConns, n > conn'[d]
                 PROVE  /\ <<d, n>> \notin shut /\ <<d, n>> \notin gone /\ <<d, n>> # socket
                        /\ stage[<<d, n>>] = "none"
                        /\ toServer[<<d, n>>] = <<>> /\ toClient[<<d, n>>] = <<>>
                        /\ \A i \in 1..Len(backlog') : backlog'[i] # <<d, n>>
    BY <1>2 DEF FreshOK
  <2>2. n > conn[d] /\ <<d, n>> # k
    BY <1>1, <1>4, <2>1 DEF k
  <2>3. \A i \in 1..Len(backlog') : backlog'[i] # <<d, n>>
    <3>1. \A i \in 1..Len(backlog') : i \in 1..Len(backlog) \/ i = Len(backlog) + 1
      BY <1>8
    <3>2. \A i \in 1..Len(backlog) : backlog[i] # <<d, n>>
      BY <2>2 DEF Inv, FreshOK
    <3>. QED BY <1>8, <2>2, <3>1, <3>2
  <2>. QED BY <2>2, <2>3 DEF Inv, FreshOK
<1>15. PendingOK'
  <2>1. \A i \in 1..Len(backlog') : i \in 1..Len(backlog) \/ i = Len(backlog) + 1
    BY <1>8
  <2>2. \A i \in 1..Len(backlog') : stage'[backlog'[i]] = "none" /\ backlog'[i] \notin shut'
    BY <1>2, <1>8, <1>9, <2>1 DEF Inv, PendingOK
  <2>3. \A i, j \in 1..Len(backlog') : backlog'[i] = backlog'[j] => i = j
    BY <1>8, <1>9, <2>1 DEF Inv, PendingOK
  <2>4. main' = "accepted" =>
          /\ socket' \in Conn /\ socket' \notin shut' /\ stage'[socket'] = "none"
          /\ \A i \in 1..Len(backlog') : backlog'[i] # socket'
    BY <1>2, <1>8, <1>9, <2>1 DEF Inv, PendingOK
  <2>. QED BY <2>2, <2>3, <2>4 DEF PendingOK
<1>16. InFlight'
  <2>1. SUFFICES ASSUME NEW d \in Clients, pc'[d] \in {"send", "wait"}
                 PROVE  SentBy(d)'
    BY DEF InFlight
  <2>2. CASE d # c
    BY <1>2, <1>4, <1>5, <1>6, <2>1, <2>2 DEF Inv, InFlight, SentBy, Drains
  <2>3. CASE d = c
    BY <1>2, <1>9, <1>10, <2>3 DEF SentBy
  <2>. QED BY <2>2, <2>3
<1>17. AnswersOK'
  BY <1>2, <1>4, <1>5, <1>7 DEF Inv, AnswersOK
<1>18. DownOK'
  BY <1>2 DEF Inv, DownOK
<1>19. ServedOK'
  BY <1>2 DEF Inv, ServedOK
<1>. QED BY <1>11, <1>12, <1>13, <1>14, <1>15, <1>16, <1>17, <1>18, <1>19 DEF Inv

LEMMA ConnectFailsInv ==
  ASSUME Inv, NEW c \in Clients, ConnectFails(c)
  PROVE  Inv'
<1>. USE DEF ConnectFails, clientVars, Connected
<1>1. /\ \A d \in Clients : pc[d] \in Connected => <<d, conn[d]>> \in Conn
      /\ \A d \in Clients : conn[d] \in 0..MaxConns /\ sent[d] \in 0..MaxMsgs
      /\ MaxConns \in Nat /\ MaxMsgs \in Nat /\ NoConn \notin Conn
  BY CurrentConn
<1>2. TypeOK'
  BY <1>1 DEF Inv, TypeOK, Listen
<1>3. ClientsOK'
  BY <1>1 DEF Inv, ClientsOK, TypeOK
<1>4. InFlight'
  BY <1>1 DEF Inv, InFlight, SentBy, TypeOK, ClientsOK, Drains
<1>5. Shape' /\ PendingOK' /\ ServedOK' /\ AnswersOK' /\ DownOK'
  BY DEF Inv, Shape, PendingOK, ServedOK, AnswersOK, DownOK
<1>6. FreshOK'
  BY DEF Inv, FreshOK
<1>. QED BY <1>2, <1>3, <1>4, <1>5, <1>6 DEF Inv

LEMMA AnswerRetryInv ==
  ASSUME Inv, NEW c \in Clients, AnswerRetry(c)
  PROVE  Inv'
<1>. USE DEF AnswerRetry, clientVars, Connected
<1>1. /\ \A d \in Clients : pc[d] \in Connected => <<d, conn[d]>> \in Conn
      /\ \A d \in Clients : conn[d] \in 0..MaxConns /\ sent[d] \in 0..MaxMsgs
      /\ MaxConns \in Nat /\ MaxMsgs \in Nat /\ NoConn \notin Conn
  BY CurrentConn
<1>2. TypeOK'
  BY <1>1 DEF Inv, TypeOK, Listen
<1>3. ClientsOK'
  BY <1>1 DEF Inv, ClientsOK, TypeOK
<1>4. InFlight'
  BY <1>1 DEF Inv, InFlight, SentBy, TypeOK, ClientsOK, Drains
<1>5. Shape' /\ PendingOK' /\ ServedOK' /\ AnswersOK' /\ DownOK'
  BY DEF Inv, Shape, PendingOK, ServedOK, AnswersOK, DownOK
<1>6. FreshOK'
  BY DEF Inv, FreshOK
<1>. QED BY <1>2, <1>3, <1>4, <1>5, <1>6 DEF Inv

LEMMA SendInv ==
  ASSUME Inv, NEW c \in Clients, Send(c)
  PROVE  Inv'
<1>1. /\ \A d \in Clients : pc[d] \in Connected => <<d, conn[d]>> \in Conn
      /\ \A d \in Clients : conn[d] \in 0..MaxConns /\ sent[d] \in 0..MaxMsgs
      /\ MaxConns \in Nat /\ MaxMsgs \in Nat /\ NoConn \notin Conn
  BY CurrentConn
<1>. DEFINE k == <<c, conn[c]>>
<1>2. /\ pc[c] = "send"
      /\ UNCHANGED <<kind, lang, listening, backlog, main, socket, stage, data,
                     toClient, shut, gone, conn, todo>>
  BY DEF Send
<1>3. k \in Conn /\ sent[c] + 1 \in 1..MaxMsgs /\ sent[c] + 1 <= todo[c]
  BY <1>1, <1>2 DEF Inv, ClientsOK, Connected
<1>4. /\ sent' \in [Clients -> 0..MaxMsgs] /\ sent'[c] = sent[c] + 1
      /\ \A d \in Clients : d # c => sent'[d] = sent[d]
  BY <1>1, <1>3 DEF Send, Inv, TypeOK
<1>5. /\ pc'[c] = "wait" /\ \A d \in Clients : d # c => pc'[d] = pc[d]
      /\ pc' \in [Clients -> {"connect", "retry?", "send", "wait", "other?", "close", "done"}]
  BY DEF Send, Inv, TypeOK
<1>6. /\ got' = [d \in Clients |-> got'[d]]
      /\ got'[c] = <<>> /\ \A d \in Clients : d # c => got'[d] = got[d]
  BY DEF Send, Inv, Shape
<1>7. stage[k] # "work" /\ toClient[k] = <<>> /\ (k \notin shut => toServer[k] = <<>>)
      /\ ~((listening \/ Drains) /\ stage[k] \in {"closing", "closed"})
  BY <1>2 DEF Inv, InFlight, SentBy
<1>8. toServer' = IF k \in shut THEN toServer
                  ELSE [toServer EXCEPT ![k] = Append(@, Message(k, sent[c] + 1))]
  BY DEF Send, Current
<1>9. /\ toServer' = [q \in Conn |-> toServer'[q]]
      /\ \A q \in Conn : q # k => toServer'[q] = toServer[q]
  BY <1>3, <1>8 DEF Inv, Shape
<1>10. k \notin shut => toServer'[k] = <<Message(k, sent[c] + 1)>>
  BY <1>3, <1>7, <1>8 DEF Inv, Shape
<1>. HIDE DEF k
<1>11. \A d \in Clients : d # c => <<d, conn[d]>> # k
  BY DEF k
<1>12. TypeOK'
  BY <1>2, <1>4, <1>5 DEF Inv, TypeOK, Listen
<1>13. Shape'
  BY <1>2, <1>6, <1>8, <1>9 DEF Inv, Shape
<1>14. ClientsOK'
  <2>1. SUFFICES ASSUME NEW d \in Clients
                 PROVE  /\ todo[d] \in 1..MaxMsgs
                        /\ kind # "session" => todo[d] = 1
                        /\ pc'[d] \in Connected => conn[d] >= 1 /\ <<d, conn[d]>> \notin gone
                        /\ pc'[d] = "send" => sent'[d] < todo[d]
                        /\ pc'[d] = "wait" => sent'[d] >= 1 /\ sent'[d] <= todo[d] /\ got'[d] = <<>>
    BY <1>2 DEF ClientsOK
  <2>2. CASE d # c
    BY <1>4, <1>5, <1>6, <2>2 DEF Inv, ClientsOK
  <2>3. CASE d = c
    BY <1>2, <1>3, <1>4, <1>5, <1>6, <2>3 DEF Inv, ClientsOK, Connected
  <2>. QED BY <2>2, <2>3
<1>15. FreshOK'
  <2>1. \A d \in Clients : \A n \in 1..MaxConns : n > conn[d] => <<d, n>> # k /\ <<d, n>> \in Conn
    BY <1>1 DEF k, Conn
  <2>. QED BY <1>2, <1>9, <2>1 DEF Inv, FreshOK
<1>16. InFlight'
  <2>1. SUFFICES ASSUME NEW d \in Clients, pc'[d] \in {"send", "wait"}
                 PROVE  SentBy(d)'
    BY DEF InFlight
  <2>2. CASE d # c
    <3>1. <<d, conn[d]>> # k /\ <<d, conn[d]>> \in Conn /\ pc[d] \in {"send", "wait"}
      BY <1>1, <1>5, <1>11, <2>1, <2>2 DEF Connected
    <3>. QED BY <1>2, <1>4, <1>5, <1>9, <2>2, <3>1 DEF Inv, InFlight, SentBy, Drains
  <2>3. CASE d = c
    <3>1. SentBy(c)'
      BY <1>2, <1>4, <1>5, <1>7, <1>10 DEF SentBy, k, Drains
    <3>. QED BY <2>3, <3>1
  <2>. QED BY <2>2, <2>3
<1>17. AnswersOK'
  BY <1>2, <1>4, <1>6 DEF Inv, AnswersOK
<1>18. PendingOK' /\ ServedOK' /\ DownOK'
  BY <1>2 DEF Inv, PendingOK, ServedOK, DownOK
<1>. QED BY <1>12, <1>13, <1>14, <1>15, <1>16, <1>17, <1>18 DEF Inv

LEMMA SendNothingInv ==
  ASSUME Inv, NEW c \in Clients, SendNothing(c)
  PROVE  Inv'
<1>1. /\ \A d \in Clients : pc[d] \in Connected => <<d, conn[d]>> \in Conn
      /\ \A d \in Clients : conn[d] \in 0..MaxConns /\ sent[d] \in 0..MaxMsgs
      /\ MaxConns \in Nat /\ MaxMsgs \in Nat /\ NoConn \notin Conn
  BY CurrentConn
<1>. DEFINE k == <<c, conn[c]>>
<1>2. /\ pc[c] = "send"
      /\ UNCHANGED <<kind, lang, listening, backlog, main, socket, stage, data,
                     toClient, shut, gone, conn, todo>>
  BY DEF SendNothing
<1>3. k \in Conn /\ sent[c] + 1 \in 1..MaxMsgs /\ sent[c] + 1 <= todo[c]
  BY <1>1, <1>2 DEF Inv, ClientsOK, Connected
<1>4. /\ sent' \in [Clients -> 0..MaxMsgs] /\ sent'[c] = sent[c] + 1
      /\ \A d \in Clients : d # c => sent'[d] = sent[d]
  BY <1>1, <1>3 DEF SendNothing, Inv, TypeOK
<1>5. /\ pc'[c] = "wait" /\ \A d \in Clients : d # c => pc'[d] = pc[d]
      /\ pc' \in [Clients -> {"connect", "retry?", "send", "wait", "other?", "close", "done"}]
  BY DEF SendNothing, Inv, TypeOK
<1>6. /\ got' = [d \in Clients |-> got'[d]]
      /\ got'[c] = <<>> /\ \A d \in Clients : d # c => got'[d] = got[d]
  BY DEF SendNothing, Inv, Shape
<1>7. stage[k] # "work" /\ toClient[k] = <<>> /\ (k \notin shut => toServer[k] = <<>>)
      /\ ~((listening \/ Drains) /\ stage[k] \in {"closing", "closed"})
  BY <1>2 DEF Inv, InFlight, SentBy
<1>8. toServer' = toServer /\ toServer' = [q \in Conn |-> toServer'[q]]
  BY DEF SendNothing, Inv, Shape
<1>9. \A q \in Conn : toServer'[q] = toServer[q]
  BY <1>8
<1>10. k \notin shut => toServer'[k] = <<>>
  BY <1>7, <1>8
<1>. HIDE DEF k
<1>11. \A d \in Clients : d # c => <<d, conn[d]>> # k
  BY DEF k
<1>12. TypeOK'
  BY <1>2, <1>4, <1>5 DEF Inv, TypeOK, Listen
<1>13. Shape'
  BY <1>2, <1>6, <1>8, <1>9 DEF Inv, Shape
<1>14. ClientsOK'
  <2>1. SUFFICES ASSUME NEW d \in Clients
                 PROVE  /\ todo[d] \in 1..MaxMsgs
                        /\ kind # "session" => todo[d] = 1
                        /\ pc'[d] \in Connected => conn[d] >= 1 /\ <<d, conn[d]>> \notin gone
                        /\ pc'[d] = "send" => sent'[d] < todo[d]
                        /\ pc'[d] = "wait" => sent'[d] >= 1 /\ sent'[d] <= todo[d] /\ got'[d] = <<>>
    BY <1>2 DEF ClientsOK
  <2>2. CASE d # c
    BY <1>4, <1>5, <1>6, <2>2 DEF Inv, ClientsOK
  <2>3. CASE d = c
    BY <1>2, <1>3, <1>4, <1>5, <1>6, <2>3 DEF Inv, ClientsOK, Connected
  <2>. QED BY <2>2, <2>3
<1>15. FreshOK'
  <2>1. \A d \in Clients : \A n \in 1..MaxConns : n > conn[d] => <<d, n>> # k /\ <<d, n>> \in Conn
    BY <1>1 DEF k, Conn
  <2>. QED BY <1>2, <1>9, <2>1 DEF Inv, FreshOK
<1>16. InFlight'
  <2>1. SUFFICES ASSUME NEW d \in Clients, pc'[d] \in {"send", "wait"}
                 PROVE  SentBy(d)'
    BY DEF InFlight
  <2>2. CASE d # c
    <3>1. <<d, conn[d]>> # k /\ <<d, conn[d]>> \in Conn /\ pc[d] \in {"send", "wait"}
      BY <1>1, <1>5, <1>11, <2>1, <2>2 DEF Connected
    <3>. QED BY <1>2, <1>4, <1>5, <1>9, <2>2, <3>1 DEF Inv, InFlight, SentBy, Drains
  <2>3. CASE d = c
    <3>1. SentBy(c)'
      BY <1>2, <1>4, <1>5, <1>7, <1>10 DEF SentBy, k, Drains
    <3>. QED BY <2>3, <3>1
  <2>. QED BY <2>2, <2>3
<1>17. AnswersOK'
  BY <1>2, <1>4, <1>6 DEF Inv, AnswersOK
<1>18. PendingOK' /\ ServedOK' /\ DownOK'
  BY <1>2 DEF Inv, PendingOK, ServedOK, DownOK
<1>. QED BY <1>12, <1>13, <1>14, <1>15, <1>16, <1>17, <1>18 DEF Inv

LEMMA ClientRecvInv ==
  ASSUME Inv, NEW c \in Clients, ClientRecv(c)
  PROVE  Inv'
<1>. USE DEF ClientRecv, clientVars, Current, Connected
<1>1. /\ \A d \in Clients : pc[d] \in Connected => <<d, conn[d]>> \in Conn
      /\ \A d \in Clients : conn[d] \in 0..MaxConns /\ sent[d] \in 0..MaxMsgs
      /\ MaxConns \in Nat /\ MaxMsgs \in Nat /\ NoConn \notin Conn
  BY CurrentConn
<1>. DEFINE k == <<c, conn[c]>>
<1>2. /\ pc[c] = "wait" /\ toClient[k] # <<>> /\ k \in Conn
      /\ UNCHANGED <<kind, lang, listening, backlog, main, socket, stage, data,
                     toServer, shut, gone, conn, sent, todo>>
  BY <1>1
<1>3. /\ stage[k] # "work" /\ (k \in shut \/ toServer[k] = <<>>)
      /\ toClient[k] = <<AnswerTo(kind, k, sent[c])>>
      /\ (listening \/ Drains) /\ stage[k] \in {"closing", "closed"} => kind # "session"
  BY <1>2 DEF Inv, InFlight, SentBy
<1>4. /\ toClient'[k] = <<>> /\ \A q \in Conn : q # k => toClient'[q] = toClient[q]
      /\ got'[c] = toClient[k] /\ \A d \in Clients : d # c => got'[d] = got[d]
  BY <1>2 DEF Inv, Shape
<1>5. /\ pc'[c] = AfterAnswer(c) /\ \A d \in Clients : d # c => pc'[d] = pc[d]
      /\ pc'[c] \in {"send", "wait"} => pc'[c] = "send" /\ kind = "session"
  <2>1. pc'[c] = AfterAnswer(c) /\ \A d \in Clients : d # c => pc'[d] = pc[d]
    BY DEF Inv, TypeOK
  <2>2. sent[c] >= 1 /\ sent[c] \in Nat /\ (kind # "session" => todo[c] = 1)
    BY <1>1, <1>2 DEF Inv, ClientsOK
  <2>. QED BY <2>1, <2>2 DEF AfterAnswer
<1>. HIDE DEF k
<1>6. \A d \in Clients : d # c => <<d, conn[d]>> # k
  BY DEF k
<1>7. TypeOK'
  BY <1>1 DEF Inv, TypeOK, Listen, AfterAnswer
<1>8. Shape'
  BY DEF Inv, Shape, TypeOK
<1>9. ClientsOK'
  BY <1>1 DEF Inv, ClientsOK, TypeOK, AfterAnswer
<1>10. FreshOK'
  BY <1>1 DEF Inv, FreshOK, TypeOK, ClientsOK, Conn
<1>11. InFlight'
  <2>1. SUFFICES ASSUME NEW d \in Clients, pc'[d] \in {"send", "wait"}
                 PROVE  SentBy(d)'
    BY DEF InFlight
  <2>2. CASE d # c
    <3>1. <<d, conn[d]>> # k /\ <<d, conn[d]>> \in Conn /\ pc[d] \in {"send", "wait"}
      BY <1>1, <1>5, <1>6, <2>1, <2>2
    <3>2. SentBy(d) /\ toClient'[<<d, conn[d]>>] = toClient[<<d, conn[d]>>] /\ pc'[d] = pc[d]
      BY <1>4, <1>5, <2>2, <3>1 DEF Inv, InFlight
    <3>. QED BY <1>2, <3>2 DEF SentBy, Drains
  <2>3. CASE d = c
    <3>1. SentBy(c)'
      BY <1>2, <1>3, <1>4, <1>5, <2>1, <2>3 DEF SentBy, k, Drains
    <3>. QED BY <2>3, <3>1
  <2>. QED BY <2>2, <2>3
<1>12. AnswersOK'
  <2>1. \A d \in Clients : d # c => got'[d] = got[d]
    BY <1>4
  <2>2. got'[c] = <<AnswerTo(kind, <<c, conn[c]>>, sent[c])>>
    BY <1>3, <1>4 DEF k
  <2>. QED BY <1>2, <2>1, <2>2 DEF Inv, AnswersOK
<1>13. PendingOK' /\ ServedOK' /\ DownOK'
  BY DEF Inv, PendingOK, ServedOK, DownOK
<1>. QED BY <1>7, <1>8, <1>9, <1>10, <1>11, <1>12, <1>13 DEF Inv

LEMMA ClientRecvEndInv ==
  ASSUME Inv, NEW c \in Clients, ClientRecvEnd(c)
  PROVE  Inv'
<1>. USE DEF ClientRecvEnd, clientVars, Current, Connected
<1>1. /\ \A d \in Clients : pc[d] \in Connected => <<d, conn[d]>> \in Conn
      /\ \A d \in Clients : conn[d] \in 0..MaxConns /\ sent[d] \in 0..MaxMsgs
      /\ MaxConns \in Nat /\ MaxMsgs \in Nat /\ NoConn \notin Conn
  BY CurrentConn
<1>. DEFINE k == <<c, conn[c]>>
<1>2. /\ pc[c] = "wait" /\ toClient[k] = <<>> /\ k \in shut /\ k \in Conn
      /\ UNCHANGED <<kind, lang, listening, backlog, main, socket, stage, data,
                     toServer, toClient, shut, gone, conn, sent, todo, got>>
  BY <1>1
<1>3. stage[k] # "work" /\ ~((listening \/ Drains) /\ stage[k] \in {"closing", "closed"})
  BY <1>2 DEF Inv, InFlight, SentBy, ServedOK
<1>4. \A d \in Clients : d # c => pc'[d] = pc[d]
  BY DEF Inv, TypeOK
<1>5. pc'[c] # "wait"
  BY DEF Inv, TypeOK, AfterAnswer
<1>6. TypeOK'
  BY <1>1 DEF Inv, TypeOK, Listen, AfterAnswer
<1>7. ClientsOK'
  BY <1>1 DEF Inv, ClientsOK, TypeOK, AfterAnswer
<1>8. InFlight'
  <2>1. SUFFICES ASSUME NEW d \in Clients, pc'[d] \in {"send", "wait"}
                 PROVE  SentBy(d)'
    BY DEF InFlight
  <2>2. CASE d # c
    <3>1. SentBy(d) /\ pc'[d] = pc[d]
      BY <1>4, <2>1, <2>2 DEF Inv, InFlight
    <3>. QED BY <1>2, <3>1 DEF SentBy, Drains
  <2>3. CASE d = c
    <3>1. SentBy(c)'
      BY <1>2, <1>3 DEF SentBy, Drains
    <3>. QED BY <2>3, <3>1
  <2>. QED BY <2>2, <2>3
<1>9. Shape' /\ PendingOK' /\ ServedOK' /\ AnswersOK' /\ DownOK'
  BY DEF Inv, Shape, PendingOK, ServedOK, AnswersOK, DownOK
<1>10. FreshOK'
  BY DEF Inv, FreshOK
<1>. QED BY <1>6, <1>7, <1>8, <1>9, <1>10 DEF Inv

LEMMA ClientFailsInv ==
  ASSUME Inv, NEW c \in Clients, ClientFails(c)
  PROVE  Inv'
<1>. USE DEF ClientFails, clientVars, Current, Connected
<1>1. /\ \A d \in Clients : pc[d] \in Connected => <<d, conn[d]>> \in Conn
      /\ \A d \in Clients : conn[d] \in 0..MaxConns /\ sent[d] \in 0..MaxMsgs
      /\ MaxConns \in Nat /\ MaxMsgs \in Nat /\ NoConn \notin Conn
  BY CurrentConn
<1>2. TypeOK'
  BY <1>1 DEF Inv, TypeOK, Listen
<1>3. ClientsOK'
  BY <1>1 DEF Inv, ClientsOK, TypeOK
<1>4. InFlight'
  BY <1>1 DEF Inv, InFlight, SentBy, TypeOK, ClientsOK, Drains
<1>5. Shape' /\ PendingOK' /\ ServedOK' /\ AnswersOK' /\ DownOK'
  BY DEF Inv, Shape, PendingOK, ServedOK, AnswersOK, DownOK
<1>6. FreshOK'
  BY DEF Inv, FreshOK
<1>. QED BY <1>2, <1>3, <1>4, <1>5, <1>6 DEF Inv

LEMMA ClientCloseInv ==
  ASSUME Inv, NEW c \in Clients, ClientClose(c)
  PROVE  Inv'
<1>. USE DEF ClientClose, clientVars, Current, Connected
<1>1. /\ \A d \in Clients : pc[d] \in Connected => <<d, conn[d]>> \in Conn
      /\ \A d \in Clients : conn[d] \in 0..MaxConns /\ sent[d] \in 0..MaxMsgs
      /\ MaxConns \in Nat /\ MaxMsgs \in Nat /\ NoConn \notin Conn
  BY CurrentConn
<1>2. TypeOK'
  BY <1>1 DEF Inv, TypeOK, Listen
<1>3. ClientsOK'
  BY <1>1 DEF Inv, ClientsOK, TypeOK
<1>4. FreshOK'
  BY <1>1 DEF Inv, FreshOK, TypeOK, ClientsOK, Conn
<1>5. ServedOK'
  BY DEF Inv, ServedOK, TypeOK
<1>6. InFlight'
  BY <1>1 DEF Inv, InFlight, SentBy, TypeOK, ClientsOK, Drains
<1>7. Shape' /\ PendingOK' /\ AnswersOK' /\ DownOK'
  BY DEF Inv, Shape, PendingOK, AnswersOK, DownOK
<1>. QED BY <1>2, <1>3, <1>4, <1>5, <1>6, <1>7 DEF Inv

LEMMA AnswerOtherInv ==
  ASSUME Inv, NEW c \in Clients, AnswerOther(c)
  PROVE  Inv'
<1>. USE DEF AnswerOther, clientVars, Current, Connected
<1>1. /\ \A d \in Clients : pc[d] \in Connected => <<d, conn[d]>> \in Conn
      /\ \A d \in Clients : conn[d] \in 0..MaxConns /\ sent[d] \in 0..MaxMsgs
      /\ MaxConns \in Nat /\ MaxMsgs \in Nat /\ NoConn \notin Conn
  BY CurrentConn
<1>2. TypeOK'
  BY <1>1 DEF Inv, TypeOK, Listen
<1>3. ClientsOK'
  BY <1>1 DEF Inv, ClientsOK, TypeOK
<1>4. FreshOK'
  BY <1>1 DEF Inv, FreshOK, TypeOK, ClientsOK, Conn
<1>5. ServedOK'
  BY DEF Inv, ServedOK, TypeOK
<1>6. InFlight'
  BY <1>1 DEF Inv, InFlight, SentBy, TypeOK, ClientsOK, Drains
<1>7. Shape' /\ PendingOK' /\ AnswersOK' /\ DownOK'
  BY DEF Inv, Shape, PendingOK, AnswersOK, DownOK
<1>. QED BY <1>2, <1>3, <1>4, <1>5, <1>6, <1>7 DEF Inv

LEMMA ClientDiesInv ==
  ASSUME Inv, NEW c \in Clients, ClientDies(c)
  PROVE  Inv'
<1>. USE DEF ClientDies, clientVars, Current, Connected
<1>1. /\ \A d \in Clients : pc[d] \in Connected => <<d, conn[d]>> \in Conn
      /\ \A d \in Clients : conn[d] \in 0..MaxConns /\ sent[d] \in 0..MaxMsgs
      /\ MaxConns \in Nat /\ MaxMsgs \in Nat /\ NoConn \notin Conn
  BY CurrentConn
<1>2. TypeOK'
  BY <1>1 DEF Inv, TypeOK, Listen
<1>3. ClientsOK'
  BY <1>1 DEF Inv, ClientsOK, TypeOK
<1>4. FreshOK'
  BY <1>1 DEF Inv, FreshOK, TypeOK, ClientsOK, Conn
<1>5. ServedOK'
  BY DEF Inv, ServedOK, TypeOK
<1>6. InFlight'
  BY <1>1 DEF Inv, InFlight, SentBy, TypeOK, ClientsOK, Drains
<1>7. Shape' /\ PendingOK' /\ AnswersOK' /\ DownOK'
  BY DEF Inv, Shape, PendingOK, AnswersOK, DownOK
<1>. QED BY <1>2, <1>3, <1>4, <1>5, <1>6, <1>7 DEF Inv

-----------------------------------------------------------------------------
(* The server *)

LEMMA AcceptInv ==
  ASSUME Inv, Accept
  PROVE  Inv'
<1>. USE DEF Accept, clientVars, Connected
<1>1. /\ \A d \in Clients : pc[d] \in Connected => <<d, conn[d]>> \in Conn
      /\ \A d \in Clients : conn[d] \in 0..MaxConns /\ sent[d] \in 0..MaxMsgs
      /\ MaxConns \in Nat /\ MaxMsgs \in Nat /\ NoConn \notin Conn
  BY CurrentConn
<1>2. /\ Len(backlog) \in Nat /\ Len(backlog) >= 1
      /\ Head(backlog) = backlog[1] /\ Head(backlog) \in Conn
      /\ Tail(backlog) \in Seq(Conn) /\ Len(Tail(backlog)) = Len(backlog) - 1
      /\ \A i \in 1..(Len(backlog) - 1) : Tail(backlog)[i] = backlog[i + 1]
  BY TailFacts DEF Inv, Shape
<1>3. stage[Head(backlog)] = "none" /\ Head(backlog) \notin shut
  BY <1>2 DEF Inv, PendingOK
<1>4. \A q \in Conn : stage'[q] = stage[q] \/ (q = Head(backlog) /\ stage'[q] = "recv")
  BY <1>2 DEF Inv, TypeOK
<1>5. main' = "accepted" => stage' = stage
  BY DEF OneAtATime
<1>6. TypeOK'
  BY <1>1 DEF Inv, TypeOK, Listen, ToSet, OneAtATime
<1>7. Shape'
  BY DEF Inv, Shape, TypeOK
<1>8. FreshOK'
  <2>1. SUFFICES ASSUME NEW d \in Clients, NEW n \in 1..MaxConns, n > conn[d]
                 PROVE  /\ <<d, n>> # Head(backlog) /\ stage'[<<d, n>>] = "none"
                        /\ \A i \in 1..Len(backlog') : backlog'[i] # <<d, n>>
    BY DEF Inv, FreshOK
  <2>2. /\ stage[<<d, n>>] = "none" /\ <<d, n>> \in Conn
        /\ \A i \in 1..Len(backlog) : backlog[i] # <<d, n>>
    BY <2>1 DEF Inv, FreshOK, Conn
  <2>3. <<d, n>> # Head(backlog)
    BY <1>2, <2>2
  <2>4. \A i \in 1..Len(backlog') : i + 1 \in 1..Len(backlog) /\ backlog'[i] = backlog[i + 1]
    BY <1>2
  <2>. QED BY <1>4, <2>2, <2>3, <2>4
<1>9. PendingOK'
  <2>1. \A i \in 1..Len(backlog') : i + 1 \in 1..Len(backlog) /\ backlog'[i] = backlog[i + 1]
    BY <1>2
  <2>2. \A i \in 1..Len(backlog') : backlog'[i] # Head(backlog) /\ backlog'[i] \in Conn
    <3>1. \A i \in 1..Len(backlog') : i + 1 # 1 /\ 1 \in 1..Len(backlog)
      BY <1>2
    <3>2. \A i \in 1..Len(backlog) : backlog[i] \in Conn
      BY DEF Inv, Shape
    <3>. QED BY <1>2, <2>1, <3>1, <3>2 DEF Inv, PendingOK
  <2>3. \A i \in 1..Len(backlog') : stage'[backlog'[i]] = "none" /\ backlog'[i] \notin shut'
    BY <1>4, <2>1, <2>2 DEF Inv, PendingOK
  <2>4. \A i, j \in 1..Len(backlog') : backlog'[i] = backlog'[j] => i = j
    <3>1. \A i, j \in 1..Len(backlog') : backlog'[i] = backlog'[j] => i + 1 = j + 1
      BY <2>1 DEF Inv, PendingOK
    <3>. QED BY <3>1
  <2>5. main' = "accepted" =>
          /\ socket' \in Conn /\ socket' \notin shut' /\ stage'[socket'] = "none"
          /\ \A i \in 1..Len(backlog') : backlog'[i] # socket'
    BY <1>2, <1>3, <1>5, <2>2
  <2>. QED BY <2>3, <2>4, <2>5 DEF PendingOK
<1>10. ServedOK'
  BY <1>3, <1>4 DEF Inv, ServedOK
<1>11. InFlight'
  BY <1>1 DEF Inv, InFlight, SentBy, TypeOK, ClientsOK, Drains
<1>12. DownOK'
  BY DEF Inv, DownOK, TypeOK, OneAtATime
<1>13. ClientsOK' /\ AnswersOK'
  BY DEF Inv, ClientsOK, AnswersOK
<1>. QED BY <1>6, <1>7, <1>8, <1>9, <1>10, <1>11, <1>12, <1>13 DEF Inv

LEMMA StartThreadInv ==
  ASSUME Inv, StartThread
  PROVE  Inv'
<1>. USE DEF StartThread, clientVars, Connected
<1>1. /\ \A d \in Clients : pc[d] \in Connected => <<d, conn[d]>> \in Conn
      /\ \A d \in Clients : conn[d] \in 0..MaxConns /\ sent[d] \in 0..MaxMsgs
      /\ MaxConns \in Nat /\ MaxMsgs \in Nat /\ NoConn \notin Conn
  BY CurrentConn
<1>2. socket \in Conn /\ socket \notin shut /\ stage[socket] = "none"
  BY DEF Inv, PendingOK
<1>3. \A q \in Conn : stage'[q] = stage[q] \/ (q = socket /\ stage'[q] = "recv")
  BY <1>2 DEF Inv, TypeOK
<1>4. TypeOK'
  BY <1>1 DEF Inv, TypeOK, Listen
<1>5. FreshOK'
  BY <1>1 DEF Inv, FreshOK, TypeOK, ClientsOK, Conn
<1>6. PendingOK'
  BY DEF Inv, PendingOK, TypeOK
<1>7. ServedOK'
  BY <1>2, <1>3 DEF Inv, ServedOK
<1>8. InFlight'
  BY <1>1 DEF Inv, InFlight, SentBy, TypeOK, ClientsOK, Drains
<1>9. DownOK'
  BY DEF Inv, DownOK, TypeOK
<1>10. Shape' /\ ClientsOK' /\ AnswersOK'
  BY DEF Inv, Shape, ClientsOK, AnswersOK
<1>. QED BY <1>4, <1>5, <1>6, <1>7, <1>8, <1>9, <1>10 DEF Inv

LEMMA RecvInv ==
  ASSUME Inv, NEW k \in Conn, Recv(k)
  PROVE  Inv'
<1>. USE DEF Recv, clientVars, Connected
<1>1. /\ \A d \in Clients : pc[d] \in Connected => <<d, conn[d]>> \in Conn
      /\ \A d \in Clients : conn[d] \in 0..MaxConns /\ sent[d] \in 0..MaxMsgs
      /\ MaxConns \in Nat /\ MaxMsgs \in Nat /\ NoConn \notin Conn
  BY CurrentConn
<1>2. UNCHANGED <<kind, lang, listening, backlog, main, socket, toClient, shut, gone,
                 pc, conn, sent, todo, got>>
  OBVIOUS
<1>3. /\ stage[k] \in {"recv", "work"} /\ k \notin shut
      /\ \A q \in Conn : q # k => stage'[q] = stage[q]
  BY DEF Inv, TypeOK, ServedOK
<1>4. /\ stage'[k] = "work" /\ data'[k] = toServer[k] /\ toServer'[k] = <<>> /\ toServer[k] # <<>>
      /\ \A q \in Conn : q # k => data'[q] = data[q] /\ toServer'[q] = toServer[q]
  BY DEF Inv, TypeOK, Shape
<1>5. ASSUME NEW d \in Clients, pc[d] \in {"send", "wait"}, k = <<d, conn[d]>>
      PROVE  SentBy(d)'
  <2>1. SentBy(d)
    BY <1>5 DEF Inv, InFlight
  <2>. QED BY <1>2, <1>3, <1>4, <1>5, <2>1 DEF SentBy
<1>6. TypeOK'
  BY <1>1 DEF Inv, TypeOK, Listen
<1>7. Shape'
  BY DEF Inv, Shape, TypeOK
<1>8. FreshOK'
  BY <1>1 DEF Inv, FreshOK, TypeOK, ClientsOK, Conn
<1>9. PendingOK'
  BY DEF Inv, PendingOK, TypeOK
<1>10. ServedOK'
  BY <1>2, <1>3, <1>4 DEF Inv, ServedOK
<1>11. InFlight'
  <2>1. SUFFICES ASSUME NEW d \in Clients, pc[d] \in {"send", "wait"}
                 PROVE  SentBy(d)'
    BY <1>2 DEF InFlight
  <2>2. CASE <<d, conn[d]>> # k
    <3>1. SentBy(d) /\ <<d, conn[d]>> \in Conn
      BY <1>1, <2>1 DEF Inv, InFlight
    <3>. QED BY <1>2, <1>3, <1>4, <2>2, <3>1 DEF SentBy, Drains
  <2>3. CASE <<d, conn[d]>> = k
    BY <1>5, <2>1, <2>3
  <2>. QED BY <2>2, <2>3
<1>12. ClientsOK' /\ AnswersOK' /\ DownOK'
  BY DEF Inv, ClientsOK, AnswersOK, DownOK
<1>. QED BY <1>6, <1>7, <1>8, <1>9, <1>10, <1>11, <1>12 DEF Inv

LEMMA RecvEndInv ==
  ASSUME Inv, NEW k \in Conn, RecvEnd(k)
  PROVE  Inv'
<1>. USE DEF RecvEnd, clientVars, Connected
<1>1. /\ \A d \in Clients : pc[d] \in Connected => <<d, conn[d]>> \in Conn
      /\ \A d \in Clients : conn[d] \in 0..MaxConns /\ sent[d] \in 0..MaxMsgs
      /\ MaxConns \in Nat /\ MaxMsgs \in Nat /\ NoConn \notin Conn
  BY CurrentConn
<1>2. UNCHANGED <<kind, lang, listening, backlog, main, socket, toServer, toClient, shut, gone,
                 pc, conn, sent, todo, got>>
  OBVIOUS
<1>3. /\ stage[k] \in {"recv", "work"} /\ k \notin shut
      /\ \A q \in Conn : q # k => stage'[q] = stage[q]
  BY DEF Inv, TypeOK, ServedOK
<1>4. /\ k \in gone /\ \A q \in Conn : q # k => data'[q] = data[q]
  BY DEF Inv, TypeOK, Shape
<1>5. ASSUME NEW d \in Clients, pc[d] \in {"send", "wait"}, k = <<d, conn[d]>>
      PROVE  SentBy(d)'
  BY <1>4, <1>5 DEF Inv, ClientsOK
<1>6. TypeOK'
  BY <1>1 DEF Inv, TypeOK, Listen, AfterEnd
<1>7. Shape'
  BY DEF Inv, Shape, TypeOK
<1>8. FreshOK'
  BY <1>1 DEF Inv, FreshOK, TypeOK, ClientsOK, Conn
<1>9. PendingOK'
  BY DEF Inv, PendingOK, TypeOK
<1>10. ServedOK'
  BY DEF Inv, ServedOK, TypeOK, AfterEnd
<1>11. InFlight'
  <2>1. SUFFICES ASSUME NEW d \in Clients, pc[d] \in {"send", "wait"}
                 PROVE  SentBy(d)'
    BY <1>2 DEF InFlight
  <2>2. CASE <<d, conn[d]>> # k
    <3>1. SentBy(d) /\ <<d, conn[d]>> \in Conn
      BY <1>1, <2>1 DEF Inv, InFlight
    <3>. QED BY <1>2, <1>3, <1>4, <2>2, <3>1 DEF SentBy, Drains
  <2>3. CASE <<d, conn[d]>> = k
    BY <1>5, <2>1, <2>3
  <2>. QED BY <2>2, <2>3
<1>12. ClientsOK' /\ AnswersOK' /\ DownOK'
  BY DEF Inv, ClientsOK, AnswersOK, DownOK
<1>. QED BY <1>6, <1>7, <1>8, <1>9, <1>10, <1>11, <1>12 DEF Inv

LEMMA RecvFailsInv ==
  ASSUME Inv, NEW k \in Conn, RecvFails(k)
  PROVE  Inv'
<1>. USE DEF RecvFails, clientVars, Connected
<1>1. /\ \A d \in Clients : pc[d] \in Connected => <<d, conn[d]>> \in Conn
      /\ \A d \in Clients : conn[d] \in 0..MaxConns /\ sent[d] \in 0..MaxMsgs
      /\ MaxConns \in Nat /\ MaxMsgs \in Nat /\ NoConn \notin Conn
  BY CurrentConn
<1>2. TypeOK'
  BY <1>1 DEF Inv, TypeOK, Listen
<1>3. FreshOK'
  BY <1>1 DEF Inv, FreshOK, TypeOK, ClientsOK, Conn
<1>4. PendingOK'
  BY DEF Inv, PendingOK, TypeOK
<1>5. ServedOK'
  BY DEF Inv, ServedOK, TypeOK
<1>6. InFlight'
  BY <1>1 DEF Inv, InFlight, SentBy, TypeOK, ClientsOK, Drains
<1>7. Shape' /\ ClientsOK' /\ AnswersOK' /\ DownOK'
  BY DEF Inv, Shape, ClientsOK, AnswersOK, DownOK
<1>. QED BY <1>2, <1>3, <1>4, <1>5, <1>6, <1>7 DEF Inv

LEMMA ReplyInv ==
  ASSUME Inv, NEW k \in Conn, Reply(k)
  PROVE  Inv'
<1>1. /\ \A d \in Clients : pc[d] \in Connected => <<d, conn[d]>> \in Conn
      /\ \A d \in Clients : conn[d] \in 0..MaxConns /\ sent[d] \in 0..MaxMsgs
      /\ MaxConns \in Nat /\ MaxMsgs \in Nat /\ NoConn \notin Conn
  BY CurrentConn
<1>2. UNCHANGED <<kind, lang, listening, backlog, main, socket, data, toServer, shut, gone,
                 pc, conn, sent, todo, got>>
  BY DEF Reply, clientVars
<1>3. /\ stage[k] \in {"recv", "work"} /\ k \notin shut
      /\ \A q \in Conn : q # k => stage'[q] = stage[q]
  BY DEF Reply, Inv, TypeOK, ServedOK
<1>4. \A q \in Conn : q # k => toClient'[q] = toClient[q]
  BY DEF Reply, Inv, Shape, ReplySocket
<1>5. toClient'[k] = toClient[k] \o Process(data[k])
  BY DEF Reply, Inv, Shape, ReplySocket
<1>6. stage[k] = "work" /\ stage'[k] = AfterReply
      /\ stage' \in [Conn -> {"none", "recv", "work", "closing", "closed"}]
      /\ toClient' = [q \in Conn |-> toClient'[q]]
  BY DEF Reply, AfterReply, Inv, TypeOK, Shape
<1>7. ASSUME NEW d \in Clients, pc[d] \in {"send", "wait"}, k = <<d, conn[d]>>
      PROVE  SentBy(d)'
  <2>1. SentBy(d)
    BY <1>7 DEF Inv, InFlight
  <2>2. /\ pc[d] = "wait" /\ data[k] = <<Message(k, sent[d])>> /\ toServer[k] = <<>>
        /\ toClient[k] = <<>>
    BY <1>7, <1>6, <2>1 DEF SentBy
  <2>3. Process(data[k]) = <<AnswerTo(kind, k, sent[d])>>
    BY <2>2, AnswerFacts
  <2>4. toClient'[k] = <<AnswerTo(kind, k, sent[d])>> /\ toClient'[k] # <<>>
    BY <1>5, <2>2, <2>3, SingleFacts
  <2>5. stage'[k] # "work" /\ (stage'[k] \in {"closing", "closed"} => kind # "session")
    BY <1>6 DEF AfterReply
  <2>. QED BY <1>2, <1>3, <1>7, <2>2, <2>4, <2>5 DEF SentBy
<1>8. TypeOK'
  BY <1>2, <1>6 DEF Inv, TypeOK, Listen
<1>9. Shape'
  BY <1>2, <1>6 DEF Inv, Shape
<1>10. FreshOK'
  <2>1. \A d \in Clients : \A n \in 1..MaxConns : n > conn[d] => <<d, n>> # k /\ <<d, n>> \in Conn
    BY <1>6 DEF Inv, FreshOK, Conn
  <2>. QED BY <1>2, <1>3, <1>4, <2>1 DEF Inv, FreshOK
<1>11. PendingOK'
  <2>1. \A i \in 1..Len(backlog) : backlog[i] # k /\ backlog[i] \in Conn
    BY <1>6 DEF Inv, PendingOK, Shape
  <2>2. \A q \in Conn : q # k => stage'[q] = stage[q]
    BY <1>3
  <2>3. main = "accepted" => socket # k
    BY <1>6 DEF Inv, PendingOK
  <2>. QED BY <1>2, <2>1, <2>2, <2>3 DEF Inv, PendingOK
<1>12. ServedOK'
  BY <1>2, <1>3, <1>6 DEF Inv, ServedOK, AfterReply
<1>13. InFlight'
  <2>1. SUFFICES ASSUME NEW d \in Clients, pc[d] \in {"send", "wait"}
                 PROVE  SentBy(d)'
    BY <1>2 DEF InFlight
  <2>2. CASE <<d, conn[d]>> # k
    <3>1. SentBy(d) /\ <<d, conn[d]>> \in Conn
      BY <1>1, <2>1 DEF Connected, Inv, InFlight
    <3>. QED BY <1>2, <1>3, <1>4, <2>2, <3>1 DEF SentBy, Drains
  <2>3. CASE <<d, conn[d]>> = k
    BY <1>7, <2>1, <2>3
  <2>. QED BY <2>2, <2>3
<1>14. ClientsOK' /\ AnswersOK' /\ DownOK'
  BY <1>2 DEF Inv, ClientsOK, AnswersOK, DownOK
<1>. QED BY <1>8, <1>9, <1>10, <1>11, <1>12, <1>13, <1>14 DEF Inv

LEMMA ReplyFailsInv ==
  ASSUME Inv, NEW k \in Conn, ReplyFails(k)
  PROVE  Inv'
<1>. USE DEF ReplyFails, clientVars, Connected
<1>1. /\ \A d \in Clients : pc[d] \in Connected => <<d, conn[d]>> \in Conn
      /\ \A d \in Clients : conn[d] \in 0..MaxConns /\ sent[d] \in 0..MaxMsgs
      /\ MaxConns \in Nat /\ MaxMsgs \in Nat /\ NoConn \notin Conn
  BY CurrentConn
<1>2. TypeOK'
  BY <1>1 DEF Inv, TypeOK, Listen
<1>3. FreshOK'
  BY <1>1 DEF Inv, FreshOK, TypeOK, ClientsOK, Conn
<1>4. PendingOK'
  <2>1. \A i \in 1..Len(backlog) : backlog[i] # k /\ backlog[i] \in Conn
    BY DEF Inv, PendingOK, Shape
  <2>2. \A q \in Conn : q # k => stage'[q] = stage[q]
    BY DEF Inv, TypeOK
  <2>3. main = "accepted" => socket # k
    BY DEF Inv, PendingOK
  <2>. QED BY <2>1, <2>2, <2>3 DEF Inv, PendingOK
<1>5. ServedOK'
  BY DEF Inv, ServedOK, TypeOK
<1>6. InFlight'
  BY <1>1 DEF Inv, InFlight, SentBy, TypeOK, ClientsOK, Drains
<1>7. Shape' /\ ClientsOK' /\ AnswersOK' /\ DownOK'
  BY DEF Inv, Shape, ClientsOK, AnswersOK, DownOK
<1>. QED BY <1>2, <1>3, <1>4, <1>5, <1>6, <1>7 DEF Inv

LEMMA CloseInv ==
  ASSUME Inv, NEW k \in Conn, Close(k)
  PROVE  Inv'
<1>. USE DEF Close, clientVars, Connected
<1>1. /\ \A d \in Clients : pc[d] \in Connected => <<d, conn[d]>> \in Conn
      /\ \A d \in Clients : conn[d] \in 0..MaxConns /\ sent[d] \in 0..MaxMsgs
      /\ MaxConns \in Nat /\ MaxMsgs \in Nat /\ NoConn \notin Conn
  BY CurrentConn
<1>2. TypeOK'
  BY <1>1 DEF Inv, TypeOK, Listen, OneAtATime
<1>3. FreshOK'
  BY <1>1 DEF Inv, FreshOK, TypeOK, ClientsOK, Conn
<1>4. PendingOK'
  BY DEF Inv, PendingOK, TypeOK
<1>5. ServedOK'
  BY DEF Inv, ServedOK, TypeOK
<1>6. InFlight'
  BY <1>1 DEF Inv, InFlight, SentBy, TypeOK, ClientsOK, Drains
<1>7. DownOK'
  BY DEF Inv, DownOK, TypeOK, OneAtATime
<1>8. Shape' /\ ClientsOK' /\ AnswersOK'
  BY DEF Inv, Shape, ClientsOK, AnswersOK
<1>. QED BY <1>2, <1>3, <1>4, <1>5, <1>6, <1>7, <1>8 DEF Inv

LEMMA ShutdownInv ==
  ASSUME Inv, Shutdown
  PROVE  Inv'
<1>. USE DEF Shutdown, clientVars, Connected
<1>1. /\ \A d \in Clients : pc[d] \in Connected => <<d, conn[d]>> \in Conn
      /\ \A d \in Clients : conn[d] \in 0..MaxConns /\ sent[d] \in 0..MaxMsgs
      /\ MaxConns \in Nat /\ MaxMsgs \in Nat /\ NoConn \notin Conn
  BY CurrentConn
<1>2. /\ \A q : q \in ToSet(backlog) <=> \E i \in 1..Len(backlog) : backlog[i] = q
      /\ ToSet(backlog) \subseteq Conn /\ ToSet(backlog') = {} /\ Len(backlog') = 0
  BY ToSetFacts DEF Inv, Shape
<1>3. TypeOK'
  <2>1. shut' \subseteq Conn
    BY <1>2 DEF Inv, TypeOK
  <2>2. Len(backlog') <= Listen' + 1
    BY <1>2 DEF Listen
  <2>. QED BY <1>2, <2>1, <2>2 DEF Inv, TypeOK
<1>4. Shape'
  BY DEF Inv, Shape, TypeOK
<1>5. FreshOK'
  <2>1. SUFFICES ASSUME NEW d \in Clients, NEW n \in 1..MaxConns, n > conn[d]
                 PROVE  /\ <<d, n>> \notin shut' /\ stage'[<<d, n>>] = "none"
                        /\ \A i \in 1..Len(backlog') : backlog'[i] # <<d, n>>
    BY DEF Inv, FreshOK
  <2>2. <<d, n>> \notin ToSet(backlog) /\ <<d, n>> \notin shut /\ <<d, n>> # socket
        /\ stage[<<d, n>>] = "none" /\ <<d, n>> \in Conn
    BY <1>2, <2>1 DEF Inv, FreshOK, Conn
  <2>. QED BY <1>2, <2>2
<1>6. PendingOK'
  BY DEF Inv, PendingOK, TypeOK
<1>7. ServedOK'
  <2>1. \A q \in ToSet(backlog) : stage[q] = "none"
    BY <1>2 DEF Inv, PendingOK
  <2>. QED BY <2>1 DEF Inv, ServedOK
<1>8. InFlight'
  BY <1>1 DEF Inv, InFlight, SentBy, TypeOK, ClientsOK, Drains
<1>9. DownOK'
  BY DEF Inv, DownOK, TypeOK
<1>10. ClientsOK' /\ AnswersOK'
  BY DEF Inv, ClientsOK, AnswersOK
<1>. QED BY <1>3, <1>4, <1>5, <1>6, <1>7, <1>8, <1>9, <1>10 DEF Inv

LEMMA ExitInv ==
  ASSUME Inv, Exit
  PROVE  Inv'
<1>. USE DEF Exit, clientVars, Connected
<1>1. /\ \A d \in Clients : pc[d] \in Connected => <<d, conn[d]>> \in Conn
      /\ \A d \in Clients : conn[d] \in 0..MaxConns /\ sent[d] \in 0..MaxMsgs
      /\ MaxConns \in Nat /\ MaxMsgs \in Nat /\ NoConn \notin Conn
  BY CurrentConn
<1>2. TypeOK'
  BY <1>1 DEF Inv, TypeOK, Listen
<1>3. FreshOK'
  BY <1>1 DEF Inv, FreshOK, TypeOK, ClientsOK, Conn
<1>4. PendingOK'
  BY DEF Inv, PendingOK, DownOK
<1>5. ServedOK'
  <2>1. ~listening
    BY DEF Inv, DownOK
  <2>. QED BY <2>1 DEF Inv, ServedOK, TypeOK
<1>6. InFlight'
  BY <1>1 DEF Inv, InFlight, SentBy, TypeOK, ClientsOK, Drains
<1>7. DownOK'
  BY DEF Inv, DownOK, TypeOK
<1>8. Shape' /\ ClientsOK' /\ AnswersOK'
  BY DEF Inv, Shape, ClientsOK, AnswersOK
<1>. QED BY <1>2, <1>3, <1>4, <1>5, <1>6, <1>7, <1>8 DEF Inv

LEMMA KilledInv ==
  ASSUME Inv, Killed
  PROVE  Inv'
<1>. USE DEF Killed, clientVars, Connected
<1>1. /\ \A d \in Clients : pc[d] \in Connected => <<d, conn[d]>> \in Conn
      /\ \A d \in Clients : conn[d] \in 0..MaxConns /\ sent[d] \in 0..MaxMsgs
      /\ MaxConns \in Nat /\ MaxMsgs \in Nat /\ NoConn \notin Conn
  BY CurrentConn
<1>2. /\ \A q : q \in ToSet(backlog) <=> \E i \in 1..Len(backlog) : backlog[i] = q
      /\ ToSet(backlog) \subseteq Conn /\ ToSet(backlog') = {} /\ Len(backlog') = 0
  BY ToSetFacts DEF Inv, Shape
<1>3. TypeOK'
  <2>1. shut' \subseteq Conn
    BY <1>2 DEF Inv, TypeOK
  <2>2. Len(backlog') <= Listen' + 1
    BY <1>2 DEF Listen
  <2>. QED BY <1>2, <2>1, <2>2 DEF Inv, TypeOK
<1>4. Shape'
  BY DEF Inv, Shape, TypeOK
<1>5. FreshOK'
  <2>1. SUFFICES ASSUME NEW d \in Clients, NEW n \in 1..MaxConns, n > conn[d]
                 PROVE  /\ <<d, n>> \notin shut' /\ stage'[<<d, n>>] = "none"
                        /\ \A i \in 1..Len(backlog') : backlog'[i] # <<d, n>>
    BY DEF Inv, FreshOK
  <2>2. <<d, n>> \notin ToSet(backlog) /\ <<d, n>> \notin shut /\ <<d, n>> # socket
        /\ stage[<<d, n>>] = "none" /\ <<d, n>> \in Conn
    BY <1>2, <2>1 DEF Inv, FreshOK, Conn
  <2>. QED BY <1>2, <2>2
<1>6. PendingOK'
  BY DEF Inv, PendingOK, TypeOK
<1>7. ServedOK'
  BY DEF Inv, ServedOK, TypeOK
<1>8. InFlight'
  BY <1>1 DEF Inv, InFlight, SentBy, TypeOK, ClientsOK, Drains
<1>9. DownOK'
  BY DEF Inv, DownOK, TypeOK
<1>10. ClientsOK' /\ AnswersOK'
  BY DEF Inv, ClientsOK, AnswersOK
<1>. QED BY <1>3, <1>4, <1>5, <1>6, <1>7, <1>8, <1>9, <1>10 DEF Inv

-----------------------------------------------------------------------------
(* Theorems *)

LEMMA InitInv == ASSUME Init PROVE Inv
<1>. USE DEF Init
<1>1. /\ MaxConns \in Nat \ {0} /\ MaxMsgs \in Nat \ {0} /\ NoConn \notin Conn
      /\ ToSet(<<>>) = {} /\ Len(<<>>) = 0 /\ <<>> \in Seq(Conn)
  BY SocketAssumption DEF Conn, NoConn, ToSet
<1>2. todo \in [Clients -> 1..MaxMsgs] /\ (kind # "session" => \A c \in Clients : todo[c] = 1)
  <2>1. CASE kind = "session"
    BY <2>1
  <2>2. CASE kind # "session"
    BY <1>1, <2>2
  <2>. QED BY <2>1, <2>2
<1>3. TypeOK
  BY <1>1 DEF TypeOK, Listen
<1>4. Shape
  BY <1>1, <1>2 DEF Shape
<1>5. ClientsOK
  BY <1>2 DEF ClientsOK, Connected
<1>6. FreshOK
  BY <1>1 DEF FreshOK, Conn, NoConn
<1>7. PendingOK /\ DownOK
  BY <1>1 DEF PendingOK, DownOK
<1>8. ServedOK
  BY DEF ServedOK
<1>9. InFlight /\ AnswersOK
  BY DEF InFlight, AnswersOK
<1>. QED BY <1>3, <1>4, <1>5, <1>6, <1>7, <1>8, <1>9 DEF Inv

LEMMA NextInv ==
  ASSUME Inv, [Next]_vars
  PROVE  Inv'
<1>1. CASE UNCHANGED vars
  <2>. USE <1>1 DEF vars, clientVars
  <2>1. TypeOK' /\ Shape' /\ ClientsOK' /\ FreshOK'
    BY DEF Inv, TypeOK, Listen, Shape, ClientsOK, FreshOK
  <2>2. PendingOK' /\ ServedOK' /\ DownOK'
    BY DEF Inv, PendingOK, ServedOK, DownOK
  <2>3. InFlight' /\ AnswersOK'
    BY DEF Inv, InFlight, SentBy, Drains, AnswersOK
  <2>. QED BY <2>1, <2>2, <2>3 DEF Inv
<1>2. ASSUME NEW c \in Clients, ClientStep(c)
      PROVE  Inv'
  BY <1>2, ConnectInv, ConnectFailsInv, ClientRecvInv, ClientRecvEndInv, ClientFailsInv,
     ClientCloseInv DEF ClientStep
<1>3. ASSUME NEW c \in Clients,
             \/ Send(c) \/ SendNothing(c)
             \/ AnswerRetry(c) \/ AnswerOther(c) \/ ClientDies(c)
      PROVE  Inv'
  BY <1>3, SendInv, SendNothingInv, AnswerRetryInv, AnswerOtherInv, ClientDiesInv
<1>4. ASSUME NEW k \in Conn, Handle(k) \/ RecvFails(k) \/ ReplyFails(k)
      PROVE  Inv'
  BY <1>4, RecvInv, RecvEndInv, ReplyInv, CloseInv, RecvFailsInv, ReplyFailsInv DEF Handle
<1>5. CASE Accept \/ StartThread \/ Shutdown \/ Exit \/ Killed
  BY <1>5, AcceptInv, StartThreadInv, ShutdownInv, ExitInv, KilledInv
<1>. QED BY <1>1, <1>2, <1>3, <1>4, <1>5 DEF Next

THEOREM Invariance == Spec => []Inv
<1>1. Init => Inv
  BY InitInv
<1>2. Inv /\ [Next]_vars => Inv'
  BY NextInv
<1>. QED BY <1>1, <1>2, PTL DEF Spec

\* The variables keep their types, the backlog its limit and the clients their
\* number of sentences.
THEOREM TypeCorrect == Spec => []TypeOK
<1>1. Inv => TypeOK
  BY DEF Inv
<1>. QED BY <1>1, Invariance, PTL

\* Whatever handlers and clients do at the same time, an answer is the one to the
\* sentence its client sent last.
THEOREM AnswersAreRight == Spec => []RightAnswer
<1>1. ASSUME Inv, NEW c \in Clients, got[c] # <<>>
      PROVE  got[c] = <<Answer(Message(Current(c), sent[c]))>>
  <2>1. got[c] = <<AnswerTo(kind, <<c, conn[c]>>, sent[c])>>
    BY <1>1 DEF Inv, AnswersOK
  <2>. QED BY <2>1, AnswerFacts DEF Current
<1>2. Inv => RightAnswer
  BY <1>1 DEF RightAnswer
<1>. QED BY <1>2, Invariance, PTL

\* A server that is not interrupted never closes the connection of a client that
\* waits, before it has answered.
THEOREM OnlyInterruptsCutOff == Spec => []OnlyInterruptsCut
<1>1. Inv => OnlyInterruptsCut
  <2>1. SUFFICES ASSUME Inv, NEW c \in Clients, pc[c] = "wait", Current(c) \in shut,
                        toClient[Current(c)] = <<>>, listening
                 PROVE  FALSE
    BY DEF OnlyInterruptsCut
  <2>2. Current(c) \in Conn /\ Current(c) = <<c, conn[c]>>
    BY <2>1, CurrentConn DEF Current, Connected
  <2>3. stage[Current(c)] = "closed"
    BY <2>1, <2>2 DEF Inv, ServedOK
  <2>. QED BY <2>1, <2>2, <2>3 DEF Inv, InFlight, SentBy
<1>. QED BY <1>1, Invariance, PTL

\* The handler threads of the Python server outlive the interrupt of its accept
\* loop and answer.
THEOREM HandlersAnswer == Spec => []HandlersFinish
<1>1. Inv => HandlersFinish
  <2>1. SUFFICES ASSUME Inv, NEW c \in Clients, kind = "threaded", lang = "py",
                        pc[c] = "wait", stage[Current(c)] = "closed"
                 PROVE  toClient[Current(c)] # <<>>
    BY DEF HandlersFinish
  <2>. QED BY <2>1 DEF Inv, InFlight, SentBy, Drains, Current
<1>. QED BY <1>1, Invariance, PTL

=============================================================================

--------------------------- MODULE SocketServers ---------------------------
(***************************************************************************)
(* Workshop 1: three TCP servers and their clients, in Python and in C.    *)
(*                                                                         *)
(*   "oneshot"   server-socket / client-socket: one sentence per           *)
(*               connection, one connection at a time; a user types the    *)
(*               sentences and says whether to go on.                      *)
(*   "session"   server-random-msgs / client-random-msgs: a connection     *)
(*               carries several sentences; one connection at a time.      *)
(*   "threaded"  server_multithreading / client_multithreading: one task   *)
(*               per connection, one handler thread per connection.        *)
(*                                                                         *)
(* TCP is external.  It keeps pending and accepted connections, delivers   *)
(* bytes in order without boundaries (a recv returns all that has arrived) *)
(* and reports the end of the stream, or a reset, once the other end is    *)
(* closed.  Sentences fit in one recv buffer of 1024 bytes.                *)
(***************************************************************************)
EXTENDS Integers, Sequences, SequencesExt

CONSTANTS
  Clients,    \* the client processes (threads, for "threaded")
  Kinds,      \* the server and client pairs to look at
  Langs,      \* the ports to look at: "py" and "c"
  MaxConns,   \* connections a client of "oneshot" may open
  MaxMsgs     \* sentences a client of "session" sends at most (10 in the code)

ASSUME SocketAssumption ==
  /\ Kinds \subseteq {"oneshot", "session", "threaded"}
  /\ Langs \subseteq {"py", "c"}
  /\ MaxConns \in Nat \ {0}
  /\ MaxMsgs \in Nat \ {0}

Conn == Clients \X (1..MaxConns)   \* a client's first, second, ... connection
NoConn == <<>>

VARIABLES
  kind, lang, \* what runs
  listening,  \* the server socket is open
  backlog,    \* connections the OS has completed and accept() has not returned
  main,       \* the accept loop: "accept", "accepted", "busy", "down", "exited"
  socket,     \* connectionSocket: what accept() returned last
  stage,      \* what the server does with a connection
  data,       \* what its last recv returned
  toServer,   \* bytes on the way, as the sentences they encode
  toClient,
  shut,       \* connections whose server end is closed
  gone,       \* connections whose client end is closed
  pc,         \* where each client is
  conn,       \* connections each client has opened
  sent,       \* sentences sent on the current connection
  todo,       \* numMessages
  got         \* what the client's last recv returned since its last send

clientVars == <<pc, conn, sent, todo, got>>
vars == <<kind, lang, listening, backlog, main, socket, stage, data, toServer,
          toClient, shut, gone, clientVars>>

-----------------------------------------------------------------------------
Current(c) == <<c, conn[c]>>

\* What client c sends: a sentence, or its task and duration.
Message(k, n) == [of |-> k, no |-> n, form |-> "plain"]

\* What the server makes of it: the sentence in capitals, or the name of the
\* task with the words that it is completed.
Answer(m) ==
  [m EXCEPT !.form = IF kind = "threaded" THEN "completed" ELSE "capitals"]

Process(s) == [i \in DOMAIN s |-> Answer(s[i])]

\* The argument of listen().
Listen == IF kind = "threaded" THEN 5 ELSE 1

OneAtATime == kind # "threaded"

-----------------------------------------------------------------------------
(* Pieces of the code a property hangs on, and plausible mistakes in them. *)

\* MISTAKE: the handler thread uses the global connectionSocket.
GlobalSocket(k) == socket

\* The socket a handler answers on: its own parameter or local variable.
ReplySocket(k) == k

\* MISTAKE: a session ends after its first answer.
CloseAfterReply == "closing"

\* What follows an answer: the session server receives again.
AfterReply == IF kind = "session" THEN "recv" ELSE "closing"

\* MISTAKE: the session server does not look for an empty recv.
IgnoreEnd == IF kind = "session" THEN "recv" ELSE "closing"

\* MISTAKE: the exception of an empty message leaves the connection open.
LeaveOpen == IF kind = "threaded" THEN "closed" ELSE "closing"

\* What follows a recv that returns nothing, the client being gone: the one-shot
\* server answers the empty sentence, the session server leaves its loop, the
\* handler thread finds no task in the message (an exception, a short sscanf).
AfterEnd == IF kind = "oneshot" THEN "work" ELSE "closing"

\* MISTAKE: the handler threads are daemons.
NeverDrains == FALSE

\* A keyboard interrupt ends the accept loop of the threaded Python server, whose
\* handler threads then finish; everywhere else it ends the process.
Drains == kind = "threaded" /\ lang = "py"

-----------------------------------------------------------------------------
Init ==
  /\ kind \in Kinds
  /\ lang \in Langs
  /\ listening = TRUE
  /\ backlog = <<>>
  /\ main = "accept"
  /\ socket = NoConn
  /\ stage = [k \in Conn |-> "none"]
  /\ data = [k \in Conn |-> <<>>]
  /\ toServer = [k \in Conn |-> <<>>]
  /\ toClient = [k \in Conn |-> <<>>]
  /\ shut = {}
  /\ gone = {}
  /\ pc = [c \in Clients |-> "connect"]
  /\ conn = [c \in Clients |-> 0]
  /\ sent = [c \in Clients |-> 0]
  /\ todo \in [Clients -> IF kind = "session" THEN 1..MaxMsgs ELSE {1}]
  /\ got = [c \in Clients |-> <<>>]

-----------------------------------------------------------------------------
(* The clients *)

\* connect() succeeds once the OS has room for a pending connection; Linux
\* keeps one more than listen() asks for.
Connect(c) ==
  /\ pc[c] = "connect"
  /\ conn[c] < MaxConns
  /\ listening
  /\ Len(backlog) <= Listen
  /\ conn' = [conn EXCEPT ![c] = @ + 1]
  /\ backlog' = Append(backlog, <<c, conn[c] + 1>>)
  /\ sent' = [sent EXCEPT ![c] = 0]
  /\ got' = [got EXCEPT ![c] = <<>>]
  /\ pc' = [pc EXCEPT ![c] = "send"]
  /\ UNCHANGED <<kind, lang, listening, main, socket, stage, data, toServer,
                 toClient, shut, gone, todo>>

\* connect() fails: nobody listens, or the backlog is full.  The user of
\* "oneshot" is asked whether to try again; the other clients end.
ConnectFails(c) ==
  /\ pc[c] = "connect"
  /\ ~listening \/ Len(backlog) >= Listen
  /\ pc' = [pc EXCEPT ![c] = IF kind = "oneshot" THEN "retry?" ELSE "done"]
  /\ UNCHANGED <<kind, lang, listening, backlog, main, socket, stage, data,
                 toServer, toClient, shut, gone, conn, sent, todo, got>>

\* "Do you want to try again?"
AnswerRetry(c) ==
  /\ pc[c] = "retry?"
  /\ \E p \in {"connect", "done"} : pc' = [pc EXCEPT ![c] = p]
  /\ UNCHANGED <<kind, lang, listening, backlog, main, socket, stage, data,
                 toServer, toClient, shut, gone, conn, sent, todo, got>>

\* send() of the next sentence.  An end the server has closed loses it.
Send(c) ==
  /\ pc[c] = "send"
  /\ sent' = [sent EXCEPT ![c] = @ + 1]
  /\ got' = [got EXCEPT ![c] = <<>>]
  /\ pc' = [pc EXCEPT ![c] = "wait"]
  /\ toServer' = IF Current(c) \in shut THEN toServer
                 ELSE [toServer EXCEPT ![Current(c)] =
                         Append(@, Message(Current(c), sent[c] + 1))]
  /\ UNCHANGED <<kind, lang, listening, backlog, main, socket, stage, data,
                 toClient, shut, gone, conn, todo>>

\* The user enters an empty sentence: send() sends nothing.
SendNothing(c) ==
  /\ pc[c] = "send"
  /\ kind = "oneshot"
  /\ sent' = [sent EXCEPT ![c] = @ + 1]
  /\ got' = [got EXCEPT ![c] = <<>>]
  /\ pc' = [pc EXCEPT ![c] = "wait"]
  /\ UNCHANGED <<kind, lang, listening, backlog, main, socket, stage, data,
                 toServer, toClient, shut, gone, conn, todo>>

\* MISTAKE: one sentence too many.
SendOneTooMany(c) ==
  IF kind = "oneshot" THEN "other?"
  ELSE IF sent[c] <= todo[c] THEN "send" ELSE "close"

\* After an answer: the user is asked for another message, the session client
\* goes on until it has sent its messages, the task client is through.
AfterAnswer(c) ==
  IF kind = "oneshot" THEN "other?"
  ELSE IF sent[c] < todo[c] THEN "send" ELSE "close"

\* recv() returns all that has arrived.
ClientRecv(c) ==
  /\ pc[c] = "wait"
  /\ toClient[Current(c)] # <<>>
  /\ got' = [got EXCEPT ![c] = toClient[Current(c)]]
  /\ toClient' = [toClient EXCEPT ![Current(c)] = <<>>]
  /\ pc' = [pc EXCEPT ![c] = AfterAnswer(c)]
  /\ UNCHANGED <<kind, lang, listening, backlog, main, socket, stage, data,
                 toServer, shut, gone, conn, sent, todo>>

\* recv() returns nothing, the server's end being closed.  No client looks for
\* that: it is shown as an empty answer.
ClientRecvEnd(c) ==
  /\ pc[c] = "wait"
  /\ toClient[Current(c)] = <<>>
  /\ Current(c) \in shut
  /\ pc' = [pc EXCEPT ![c] = AfterAnswer(c)]
  /\ UNCHANGED <<kind, lang, listening, backlog, main, socket, stage, data,
                 toServer, toClient, shut, gone, conn, sent, todo, got>>

\* send() or recv() reports a reset.  The C client of "oneshot" prints the error
\* of recv() and goes on; otherwise an exception, a break or a signal ends it.
ClientFails(c) ==
  /\ pc[c] \in {"send", "wait"}
  /\ Current(c) \in shut
  /\ toClient[Current(c)] = <<>>
  /\ pc' = [pc EXCEPT ![c] =
              IF kind = "oneshot" /\ lang = "c" /\ pc[c] = "wait" THEN "other?"
              ELSE "close"]
  /\ UNCHANGED <<kind, lang, listening, backlog, main, socket, stage, data,
                 toServer, toClient, shut, gone, conn, sent, todo, got>>

\* clientSocket.close() at the end of a task, of a session or of a failed client.
ClientClose(c) ==
  /\ pc[c] = "close"
  /\ gone' = gone \cup {Current(c)}
  /\ pc' = [pc EXCEPT ![c] = "done"]
  /\ UNCHANGED <<kind, lang, listening, backlog, main, socket, stage, data,
                 toServer, toClient, shut, conn, sent, todo, got>>

\* "Other message?", and clientSocket.close().
AnswerOther(c) ==
  /\ pc[c] = "other?"
  /\ gone' = gone \cup {Current(c)}
  /\ \E p \in {"connect", "done"} : pc' = [pc EXCEPT ![c] = p]
  /\ UNCHANGED <<kind, lang, listening, backlog, main, socket, stage, data,
                 toServer, toClient, shut, conn, sent, todo, got>>

\* The client is interrupted while it is connected: the OS closes its socket.
ClientDies(c) ==
  /\ pc[c] \in {"send", "wait", "other?"}
  /\ gone' = gone \cup {Current(c)}
  /\ pc' = [pc EXCEPT ![c] = "done"]
  /\ UNCHANGED <<kind, lang, listening, backlog, main, socket, stage, data,
                 toServer, toClient, shut, conn, sent, todo, got>>

-----------------------------------------------------------------------------
(* The server *)

\* accept() returns the oldest pending connection.
Accept ==
  /\ main = "accept"
  /\ backlog # <<>>
  /\ socket' = Head(backlog)
  /\ backlog' = Tail(backlog)
  /\ main' = IF OneAtATime THEN "busy" ELSE "accepted"
  /\ stage' = IF OneAtATime THEN [stage EXCEPT ![Head(backlog)] = "recv"]
              ELSE stage
  /\ UNCHANGED <<kind, lang, listening, data, toServer, toClient, shut, gone,
                 clientVars>>

\* The threaded server starts the handler.
StartThread ==
  /\ main = "accepted"
  /\ stage' = [stage EXCEPT ![socket] = "recv"]
  /\ main' = "accept"
  /\ UNCHANGED <<kind, lang, listening, backlog, socket, data, toServer,
                 toClient, shut, gone, clientVars>>

\* recv() returns all that has arrived.
Recv(k) ==
  /\ stage[k] = "recv"
  /\ toServer[k] # <<>>
  /\ data' = [data EXCEPT ![k] = toServer[k]]
  /\ toServer' = [toServer EXCEPT ![k] = <<>>]
  /\ stage' = [stage EXCEPT ![k] = "work"]
  /\ UNCHANGED <<kind, lang, listening, backlog, main, socket, toClient, shut,
                 gone, clientVars>>

\* recv() returns nothing: the client closed its end.
RecvEnd(k) ==
  /\ stage[k] = "recv"
  /\ toServer[k] = <<>>
  /\ k \in gone
  /\ data' = [data EXCEPT ![k] = <<>>]
  /\ stage' = [stage EXCEPT ![k] = AfterEnd]
  /\ UNCHANGED <<kind, lang, listening, backlog, main, socket, toServer,
                 toClient, shut, gone, clientVars>>

\* recv() fails: the client vanished with bytes it had not read, or its system
\* resets the connections of a process that is killed.
RecvFails(k) ==
  /\ stage[k] = "recv"
  /\ k \in gone
  /\ stage' = [stage EXCEPT ![k] = "closing"]
  /\ UNCHANGED <<kind, lang, listening, backlog, main, socket, data, toServer,
                 toClient, shut, gone, clientVars>>

\* The sleep, or the task, is over and the answer is sent.
Reply(k) ==
  /\ stage[k] = "work"
  /\ toClient' = [toClient EXCEPT ![ReplySocket(k)] = @ \o Process(data[k])]
  /\ stage' = [stage EXCEPT ![k] = AfterReply]
  /\ UNCHANGED <<kind, lang, listening, backlog, main, socket, data, toServer,
                 shut, gone, clientVars>>

\* send() fails, the connection having been reset.
ReplyFails(k) ==
  /\ stage[k] = "work"
  /\ k \in gone
  /\ stage' = [stage EXCEPT ![k] = "closing"]
  /\ UNCHANGED <<kind, lang, listening, backlog, main, socket, data, toServer,
                 toClient, shut, gone, clientVars>>

\* connectionSocket.close(), and for one connection at a time back to accept().
Close(k) ==
  /\ stage[k] = "closing"
  /\ stage' = [stage EXCEPT ![k] = "closed"]
  /\ shut' = shut \cup {k}
  /\ main' = IF OneAtATime THEN "accept" ELSE main
  /\ UNCHANGED <<kind, lang, listening, backlog, socket, data, toServer,
                 toClient, gone, clientVars>>

\* A keyboard interrupt of the accept loop whose handlers go on: the listening
\* socket is closed, and with it the pending connections.  A connection that was
\* accepted and not handed to a thread yet stays open and unserved.
Shutdown ==
  /\ Drains
  /\ main \in {"accept", "accepted"}
  /\ listening' = FALSE
  /\ main' = "down"
  /\ shut' = shut \cup ToSet(backlog)
  /\ backlog' = <<>>
  /\ UNCHANGED <<kind, lang, socket, stage, data, toServer, toClient, gone,
                 clientVars>>

\* The process ends after its last handler thread.
Exit ==
  /\ main = "down"
  /\ \A k \in Conn : stage[k] \in {"none", "closed"}
  /\ main' = "exited"
  /\ shut' = shut \cup ({socket} \ {NoConn})
  /\ UNCHANGED <<kind, lang, listening, backlog, socket, stage, data, toServer,
                 toClient, gone, clientVars>>

\* A keyboard interrupt that ends the process, whatever it is doing: the OS
\* closes every socket.
Killed ==
  /\ ~Drains
  /\ listening
  /\ listening' = FALSE
  /\ main' = "exited"
  /\ shut' = shut \cup ToSet(backlog) \cup ({socket} \ {NoConn})
                  \cup {k \in Conn : stage[k] # "none"}
  /\ stage' = [k \in Conn |-> IF stage[k] = "none" THEN "none" ELSE "closed"]
  /\ backlog' = <<>>
  /\ UNCHANGED <<kind, lang, socket, data, toServer, toClient, gone, clientVars>>

-----------------------------------------------------------------------------
ClientStep(c) ==
  \/ Connect(c) \/ ConnectFails(c)
  \/ ClientRecv(c) \/ ClientRecvEnd(c) \/ ClientFails(c) \/ ClientClose(c)

Handle(k) == Recv(k) \/ RecvEnd(k) \/ Reply(k) \/ Close(k)

Next ==
  \/ \E c \in Clients :
       \/ ClientStep(c) \/ Send(c) \/ SendNothing(c)
       \/ AnswerRetry(c) \/ AnswerOther(c) \/ ClientDies(c)
  \/ \E k \in Conn : Handle(k) \/ RecvFails(k) \/ ReplyFails(k)
  \/ Accept \/ StartThread \/ Shutdown \/ Exit \/ Killed

\* Programs and threads that can take a step take it.  Nothing is assumed of the
\* user, whose prompts may stay unanswered, nor of interrupts and resets, which
\* may never come.
Fairness ==
  /\ \A c \in Clients : WF_vars(ClientStep(c))
  /\ \A c \in Clients : WF_vars(kind # "oneshot" /\ Send(c))
  /\ \A k \in Conn : WF_vars(Handle(k))
  /\ WF_vars(Accept \/ StartThread \/ Exit)

Spec == Init /\ [][Next]_vars /\ Fairness

-----------------------------------------------------------------------------
(* What is checked *)

TypeOK ==
  /\ kind \in Kinds /\ lang \in Langs /\ listening \in BOOLEAN
  /\ ToSet(backlog) \subseteq Conn
  /\ main \in {"accept", "accepted", "busy", "down", "exited"}
  /\ socket \in Conn \cup {NoConn}
  /\ stage \in [Conn -> {"none", "recv", "work", "closing", "closed"}]
  /\ shut \subseteq Conn /\ gone \subseteq Conn
  /\ pc \in [Clients -> {"connect", "retry?", "send", "wait", "other?",
                         "close", "done"}]
  /\ conn \in [Clients -> 0..MaxConns]
  /\ sent \in [Clients -> 0..MaxMsgs]
  /\ Len(backlog) <= Listen + 1

\* What a client receives is the answer to the sentence it sent last, and to no
\* other: neither another client's, whose handler runs at the same time, nor
\* two answers run together, although nothing on the connection marks where a
\* sentence ends (recv in handle_client, client_task and the loops).
RightAnswer ==
  \A c \in Clients : got[c] # <<>> =>
    got[c] = <<Answer(Message(Current(c), sent[c]))>>

\* A client that waits for an answer finds its connection closed without one
\* only after the server was interrupted.  So the clients, which take an empty
\* recv for an empty answer, are not misled by a server that runs.
OnlyInterruptsCut ==
  \A c \in Clients :
    (pc[c] = "wait" /\ Current(c) \in shut /\ toClient[Current(c)] = <<>>)
      => ~listening

\* The connection accepted last waits for a client that sends nothing: one whose
\* user has not typed a sentence yet, or has typed the empty one.
HeldBySilentClient ==
  /\ kind = "oneshot"
  /\ \E k \in Conn : stage[k] = "recv" /\ toServer[k] = <<>> /\ k \notin gone

\* A client waits for ever only behind a client of the one-shot server that
\* stays connected and silent (the blocking recv of server-socket).  No session,
\* task, failed or vanished client holds up another.
StarvedOnlyBySilence ==
  \A c \in Clients : <>[](pc[c] = "wait") => <>[]HeldBySilentClient

\* A connection the server has accepted is closed by the server once its client
\* has closed it or has died: the error paths of the handlers leak none.
ConnectionsReleased ==
  \A k \in Conn : (k \in gone /\ stage[k] # "none") ~> k \in shut

\* A task that a handler thread of the Python server has started on is answered
\* even when the server is interrupted: the interpreter waits for its threads.
HandlersFinish ==
  \A c \in Clients :
    (/\ kind = "threaded" /\ lang = "py" /\ pc[c] = "wait"
     /\ stage[Current(c)] = "closed")
    => toClient[Current(c)] # <<>>

=============================================================================

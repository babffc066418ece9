------------------------------- MODULE Session -------------------------------
(***************************************************************************)
(* One session, both programs: PAController's command loop and handlers at *)
(* the client's end, the daemon's handler thread at the server's.  What an *)
(* operation does to the database is the business of Controller: here it   *)
(* is one step.  Either program may end at any time: PAController when it  *)
(* is killed, the daemon because its shutdown waits for no session.        *)
(***************************************************************************)
EXTENDS Stream

CONSTANTS
    MaxCommands,   \* bound on the commands of a session
    Garbled        \* a message that is not the one its reader takes it for

VARIABLES
    cpc,         \* where PAController is
    cmd,         \* its latest command
    told,        \* the command whose response it read last
    spc,         \* where the handler thread is
    request,     \* the type of the request it is reading
    performed    \* the command it performed last

clientVars == <<cpc, cmd, told>>
serverVars == <<spc, request, performed>>
sessionVars == <<streamVars, clientVars, serverVars>>

Ops == {"PA_STAT_RESERVE", "PA_GET_TAP_PARAMS", "PA_SET_TAP_PARAMS",
        "PA_ADD_UID_PARAMS", "PA_REMOVE_UID_PARAMS"}
RequestTypes == Ops \cup {"PA_GOODBYE"}

NoCommand == [op |-> "PA_GOODBYE", n |-> 0]
Commands == [op : Ops, n : 1..MaxCommands] \cup {NoCommand}

ASSUME MaxCommandsAssumption == MaxCommands \in Nat \ {0}
ASSUME GarbledAssumption == Garbled \notin Commands

(* sizeof of the messages, in words. *)
RequestSize == 1
QuerySize(op) ==
    IF op \in {"PA_SET_TAP_PARAMS", "PA_ADD_UID_PARAMS"} THEN 6 ELSE 2
ResponseSize(op) ==
    CASE op = "PA_STAT_RESERVE" -> 3
      [] op = "PA_GET_TAP_PARAMS" -> 6
      [] OTHER -> 1

(* A message, word by word: its kind, its place in the message and the     *)
(* command it belongs to.                                                  *)
Message(kind, command, size) ==
    [i \in 1..size |-> [kind |-> kind, command |-> command, part |-> i]]

Request(command) == Message("request", command, RequestSize)
Query(command) == Message("query", command, QuerySize(command.op))
Response(command) == Message("response", command, ResponseSize(command.op))
Goodbye == Request(NoCommand)

Words == [kind : {"request", "query", "response"},
          command : Commands \cup {Garbled}, part : 1..6]

(* sizeof of what the handler is reading. *)
ToRead == IF spc = "request" THEN RequestSize ELSE QuerySize(request)
Reading == spc \in {"request", "query"}

(* No buffer takes more than its message. *)
SessionTypeOK ==
    /\ StreamTypeOK(Words)
    /\ Reading => Len(in[Server]) <= ToRead
    /\ cpc = "response" => Len(in[Client]) <= ResponseSize(cmd.op)
    /\ cpc \in {"prompt", "request", "query", "response", "goodbye", "closed",
                "killed"}
    /\ spc \in {"request", "query", "send", "closed", "killed"}
    /\ {cmd, told, performed} \subseteq Commands \cup {Garbled}
    /\ request \in RequestTypes

SessionInit ==
    /\ StreamInit
    /\ cpc = "prompt"
    /\ cmd = NoCommand
    /\ told = NoCommand
    /\ spc = "request"
    /\ request = "PA_GOODBYE"
    /\ performed = NoCommand
-----------------------------------------------------------------------------
(* PAController. *)

ClientAt(place) == cpc' = place /\ UNCHANGED <<cmd, told, serverVars>>

(* A command of the arbiter whose dialogue went well.  The commands that   *)
(* only use the kernel (list, put, info, help) leave the session alone.    *)
Command(op) ==
    /\ cpc = "prompt"
    /\ cmd.n < MaxCommands
    /\ cmd' = [op |-> op, n |-> cmd.n + 1]
    /\ Sending(Client, Request(cmd'))
    /\ cpc' = "request"
    /\ UNCHANGED <<told, serverVars>>

(* The dialogue fails: the handler returns before it sent anything, and    *)
(* main says goodbye.                                                      *)
BadInput ==
    /\ cpc = "prompt"
    /\ Sending(Client, Goodbye)
    /\ ClientAt("goodbye")

EndOfInput == cpc = "prompt" /\ Close(Client) /\ ClientAt("closed")

ClientSending == cpc \in {"request", "query", "goodbye"}

ClientSends ==
    /\ ClientSending
    /\ SendSome(Client)
    /\ UNCHANGED <<clientVars, serverVars>>

RequestSent ==
    /\ cpc = "request" /\ Sent(Client)
    /\ Sending(Client, Query(cmd))
    /\ ClientAt("query")

QuerySent ==
    /\ cpc = "query" /\ Sent(Client)
    /\ Receiving(Client)
    /\ ClientAt("response")

GoodbyeSent ==
    /\ cpc = "goodbye" /\ Sent(Client)
    /\ Close(Client)
    /\ ClientAt("closed")

ClientPipe ==
    /\ ClientSending /\ BrokenPipe(Client)
    /\ Close(Client)
    /\ ClientAt("killed")

ClientReceives ==
    /\ cpc = "response"
    /\ ReceiveSome(Client, ResponseSize(cmd.op))
    /\ UNCHANGED <<clientVars, serverVars>>

ResponseRead ==
    /\ cpc = "response" /\ Received(Client, ResponseSize(cmd.op))
    /\ told' = IF in[Client] = Response(cmd) THEN cmd ELSE Garbled
    /\ cpc' = "prompt"
    /\ UNCHANGED <<streamVars, cmd, serverVars>>

(* The handler returns ret, which is 0: main sees no error. *)
ShortResponse ==
    /\ cpc = "response" /\ OrderlyShutdown(Client, ResponseSize(cmd.op))
    /\ ClientAt("prompt")
    /\ UNCHANGED streamVars

ResponseFails ==
    /\ cpc = "response" /\ ConnectionReset(Client, ResponseSize(cmd.op))
    /\ Sending(Client, Goodbye)
    /\ ClientAt("goodbye")

ClientKilled ==
    /\ cpc \notin {"closed", "killed"}
    /\ Close(Client)
    /\ ClientAt("killed")
-----------------------------------------------------------------------------
(* The handler thread: __do_handle_client and the handler of the request. *)

ServerAt(place) == spc' = place /\ UNCHANGED <<request, performed, clientVars>>

ServerReceives ==
    /\ Reading
    /\ ReceiveSome(Server, ToRead)
    /\ UNCHANGED <<clientVars, serverVars>>

RequestRead ==
    /\ spc = "request" /\ Received(Server, RequestSize)
    /\ \E type \in RequestTypes :
         /\ in[Server][1].kind = "request" => type = in[Server][1].command.op
         /\ IF type = "PA_GOODBYE"
              THEN Close(Server) /\ ServerAt("closed")
              ELSE /\ Receiving(Server)
                   /\ request' = type
                   /\ spc' = "query"
                   /\ UNCHANGED <<performed, clientVars>>

(* The command a query belongs to. *)
CommandOf(query) ==
    IF \E c \in Commands : c.op = request /\ query = Query(c)
    THEN query[1].command ELSE Garbled

(* A variant: num_bytes_read is not compared with bytes_to_read. *)
OperateUnchecked ==
    /\ spc = "query"
    /\ Received(Server, ToRead) \/ OrderlyShutdown(Server, ToRead)
    /\ performed' = CommandOf(in[Server])
    /\ Sending(Server, Message("response", performed', ResponseSize(request)))
    /\ spc' = "send"
    /\ UNCHANGED <<request, clientVars>>

(* The query is complete: the operation, and its response to send. *)
Operate ==
    /\ spc = "query" /\ Received(Server, ToRead)
    /\ performed' = CommandOf(in[Server])
    /\ Sending(Server, Message("response", performed', ResponseSize(request)))
    /\ spc' = "send"
    /\ UNCHANGED <<request, clientVars>>

ServerSends ==
    /\ spc = "send"
    /\ SendSome(Server)
    /\ UNCHANGED <<clientVars, serverVars>>

(* A variant: one send, whatever it sent. *)
ResponseSentOnce ==
    /\ spc = "send"
    /\ Receiving(Server)
    /\ ServerAt("request")

ResponseSent ==
    /\ spc = "send" /\ Sent(Server)
    /\ Receiving(Server)
    /\ ServerAt("request")

ServerPipe ==
    /\ spc = "send" /\ BrokenPipe(Server)
    /\ Close(Server)
    /\ ServerAt("killed")

(* A variant: recv's 0 is taken for "nothing yet" between two requests. *)
ReadFailsInside ==
    /\ Reading
    /\ PeerEnded(Server, ToRead) /\ in[Server] # <<>>
    /\ Close(Server)
    /\ ServerAt("closed")

(* A read that fails or comes back short ends the session. *)
ReadFails ==
    /\ Reading
    /\ PeerEnded(Server, ToRead)
    /\ Close(Server)
    /\ ServerAt("closed")

(* SIGTERM interrupts the recv or send the handler is blocked in. *)
Interrupted ==
    /\ \/ Reading /\ wire[Client] = <<>> /\ ~Received(Server, ToRead)
       \/ spc = "send" /\ ~Sent(Server) /\ Len(wire[Server]) = Capacity
    /\ open[Client]
    /\ Close(Server)
    /\ ServerAt("closed")

DaemonEnds ==
    /\ spc \notin {"closed", "killed"}
    /\ Close(Server)
    /\ ServerAt("closed")
-----------------------------------------------------------------------------
ClientStep ==
    \/ ClientSends \/ RequestSent \/ QuerySent \/ GoodbyeSent \/ ClientPipe
    \/ ClientReceives \/ ResponseRead \/ ShortResponse \/ ResponseFails

ServerStep ==
    \/ ServerReceives \/ RequestRead \/ Operate \/ ServerSends
    \/ ResponseSent \/ ServerPipe \/ ReadFails

SessionNext ==
    \/ ClientStep \/ ServerStep
    \/ (\E op \in Ops : Command(op)) \/ BadInput \/ EndOfInput \/ ClientKilled
    \/ Interrupted \/ DaemonEnds

SessionSpec == SessionInit /\ [][SessionNext]_sessionVars

(* Both programs run; the person at the prompt owes nothing. *)
SessionFairSpec ==
    SessionSpec /\ WF_sessionVars(ClientStep) /\ WF_sessionVars(ServerStep)
-----------------------------------------------------------------------------
(* The words are those that follow the first k of the message. *)
PieceOf(words, message, k) ==
    /\ k + Len(words) <= Len(message)
    /\ \A i \in 1..Len(words) : words[i] = message[k + i]

(* The two ends agree where one message ends and the next begins, however  *)
(* the words were split or joined on the way and whichever end gave up:    *)
(* what the handler reads as a query is one of the client's latest         *)
(* command, and what the client reads is the response to it.               *)
InStep ==
    /\ spc = "request" => in[Server] \in {<<>>, Goodbye, Request(cmd)}
    /\ spc = "query" => request = cmd.op /\ PieceOf(in[Server], Query(cmd), 0)
    /\ spc = "send" /\ ~Sent(Server) => performed = cmd
    /\ cpc = "response" => PieceOf(in[Client], Response(cmd), 0)

ClientGone == cpc \in {"closed", "killed"}
ServerGone == spc \in {"closed", "killed"}

(* Commands are performed and acknowledged by their numbers. *)
NumbersInv ==
    /\ cmd \in Commands
    /\ \A c \in {told, performed} : c \in Commands /\ c.n <= cmd.n
    /\ cpc \in {"request", "query", "response"} => told # cmd
    /\ cpc = "request" => performed # cmd

(* What the handler has still to read: the latest command if it has not    *)
(* performed it, or a goodbye.                                             *)
Due == CASE performed = cmd -> Goodbye
         [] performed # cmd /\ spc = "query" -> Query(cmd)
         [] performed # cmd /\ spc # "query" -> Request(cmd) \o Query(cmd)

(* Of that, what it has, and what is in flight or still to be sent.  A     *)
(* query that was performed is done with.                                  *)
Inbox == IF spc = "send" THEN <<>> ELSE in[Server]
InFlight == Len(Inbox) + Len(wire[Client])
Underway == InFlight + Len(out[Client])

ToServerInv ==
    ~ServerGone =>
        /\ PieceOf(Inbox, Due, 0)
        /\ PieceOf(wire[Client], Due, Len(Inbox))
        /\ PieceOf(out[Client], Due, InFlight)
        /\ cpc = "prompt" => performed = cmd /\ Underway = 0
        /\ cpc = "goodbye" => performed = cmd /\ Underway = 1
        /\ cpc = "request" => Underway + QuerySize(cmd.op) = Len(Due)
        /\ cpc \in {"query", "response"} =>
              Underway = IF performed = cmd THEN 0 ELSE Len(Due)
        /\ spc = "query" => performed # cmd /\ request = cmd.op
        /\ out[Server] # <<>> => spc = "send" /\ performed = cmd

(* The same for the words of the response, which the client begins to read *)
(* when its query has been sent.                                           *)
Answered == IF cpc = "response" THEN in[Client] ELSE <<>>

ToClientInv ==
    /\ cpc \in {"prompt", "request", "goodbye"} =>
          wire[Server] = <<>> /\ (~ServerGone => out[Server] = <<>>)
    /\ cpc \in {"query", "response"} =>
          LET begun == Len(Answered) + Len(wire[Server])
          IN  /\ PieceOf(Answered, Response(cmd), 0)
              /\ PieceOf(wire[Server], Response(cmd), Len(Answered))
              /\ performed # cmd => begun = 0
              /\ ~ServerGone /\ performed = cmd =>
                    /\ PieceOf(out[Server], Response(cmd), begun)
                    /\ begun + Len(out[Server]) = ResponseSize(cmd.op)

(* The invariant the proofs rest on: every word on its way, in either      *)
(* direction, is accounted for by the latest command.                      *)
SessionInv ==
    /\ SessionTypeOK
    /\ open[Client] <=> ~ClientGone
    /\ open[Server] <=> ~ServerGone
    /\ NumbersInv
    /\ ToServerInv
    /\ ToClientInv

(* A session implements the exchange of numbered commands: at most once,   *)
(* in order, and no answer to a command that was not performed.            *)
AtMostOnce == INSTANCE Exchange WITH call <- cmd, done <- performed
ImplementsExchange == AtMostOnce!Spec

(* A command comes to an end: the prompt is back or PAController is gone.  *)
(* Neither program waits for a message the other will not send.            *)
CommandEnds ==
    ClientSending \/ cpc = "response" ~> cpc \in {"prompt", "closed", "killed"}

(* The handler thread of a client that went away ends.                     *)
HandlerEnds == ~open[Client] ~> ~open[Server]

(* PAController/main.c:94 "Error received while communicating with         *)
(* arbiter. Disconnecting.": PAController takes another command only after *)
(* a complete response.                                                    *)
ErrorDisconnects ==
    [][cpc = "response" /\ cpc' = "prompt"
          => Received(Client, ResponseSize(cmd.op))]_sessionVars
=============================================================================

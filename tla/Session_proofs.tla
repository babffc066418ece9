---------------------------- MODULE Session_proofs ----------------------------
(***************************************************************************)
(* Proofs about Session, for any capacity of the sockets and any number of *)
(* commands: SessionInv holds in every reachable state, the two programs   *)
(* stay in step, and the session implements Exchange.                      *)
(***************************************************************************)
EXTENDS Session, SequenceTheorems, TLAPS

-----------------------------------------------------------------------------
(* Words that are a piece of a message, when some of them are moved.       *)

(* A prefix and the rest of a sequence of words. *)
LEMMA Parts ==
    ASSUME NEW S, NEW s \in Seq(S), NEW n \in 0..Len(s)
    PROVE  /\ SubSeq(s, 1, n) \in Seq(S) /\ Len(SubSeq(s, 1, n)) = n
           /\ \A i \in 1..n : SubSeq(s, 1, n)[i] = s[i]
           /\ SubSeq(s, n + 1, Len(s)) \in Seq(S)
           /\ Len(SubSeq(s, n + 1, Len(s))) = Len(s) - n
           /\ \A i \in 1..(Len(s) - n) : SubSeq(s, n + 1, Len(s))[i] = s[n + i]
<1>1. /\ SubSeq(s, 1, n) \in Seq(S) /\ Len(SubSeq(s, 1, n)) = n
      /\ \A i \in 1..n : SubSeq(s, 1, n)[i] = s[i]
  OBVIOUS
<1>2. /\ SubSeq(s, n + 1, Len(s)) \in Seq(S)
      /\ Len(SubSeq(s, n + 1, Len(s))) = Len(s) - n
      /\ \A i \in 1..(Len(s) - n) : SubSeq(s, n + 1, Len(s))[i] = s[n + i]
  OBVIOUS
<1> QED
  BY <1>1, <1>2

(* Taking n words from the front of s to the end of r keeps both pieces of *)
(* the message, one behind the other.                                      *)
LEMMA MoveWords ==
    ASSUME NEW S, NEW r \in Seq(S), NEW s \in Seq(S), NEW m \in Seq(S),
           NEW k \in Nat, NEW n \in 1..Len(s)
    PROVE  LET r2 == r \o SubSeq(s, 1, n)
               s2 == SubSeq(s, n + 1, Len(s))
           IN  /\ r2 \in Seq(S) /\ s2 \in Seq(S)
               /\ Len(r2) = Len(r) + n /\ Len(s2) = Len(s) - n
               /\ PieceOf(r, m, k) /\ PieceOf(s, m, k + Len(r)) =>
                    PieceOf(r2, m, k) /\ PieceOf(s2, m, k + Len(r2))
<1> DEFINE a == SubSeq(s, 1, n)
<1> DEFINE b == SubSeq(s, n + 1, Len(s))
<1>1. /\ a \in Seq(S) /\ Len(a) = n /\ \A i \in 1..n : a[i] = s[i]
      /\ b \in Seq(S) /\ Len(b) = Len(s) - n
      /\ \A i \in 1..(Len(s) - n) : b[i] = s[n + i]
  BY Parts
<1> HIDE DEF a, b
<1>2. /\ r \o a \in Seq(S) /\ Len(r \o a) = Len(r) + n
      /\ \A i \in 1..(Len(r) + n) :
            (r \o a)[i] = IF i <= Len(r) THEN r[i] ELSE a[i - Len(r)]
  BY <1>1, ConcatProperties
<1>3. ASSUME PieceOf(r, m, k), PieceOf(s, m, k + Len(r))
      PROVE  PieceOf(r \o a, m, k) /\ PieceOf(b, m, k + Len(r \o a))
  <2>1. \A i \in 1..(Len(r) + n) : (r \o a)[i] = m[k + i]
    <3>1. \A i \in 1..Len(r) : (r \o a)[i] = m[k + i]
      BY <1>2, <1>3 DEF PieceOf
    <3>2. \A j \in 1..n : (r \o a)[Len(r) + j] = s[j] /\ s[j] = m[k + Len(r) + j]
      BY <1>1, <1>2, <1>3, SMTT(30) DEF PieceOf
    <3> QED
      BY <1>1, <3>1, <3>2
  <2>2. \A i \in 1..(Len(s) - n) : b[i] = m[k + Len(r) + (n + i)]
    BY <1>1, <1>3 DEF PieceOf
  <2> QED
    BY <1>1, <1>2, <1>3, <2>1, <2>2 DEF PieceOf
<1>4. /\ r \o a \in Seq(S) /\ b \in Seq(S)
      /\ Len(r \o a) = Len(r) + n /\ Len(b) = Len(s) - n
      /\ PieceOf(r, m, k) /\ PieceOf(s, m, k + Len(r)) =>
           PieceOf(r \o a, m, k) /\ PieceOf(b, m, k + Len(r \o a))
  BY <1>1, <1>2, <1>3
<1> QED
  BY <1>4, Zenon DEF a, b

(* A piece as long as the message is the message. *)
LEMMA WholeMessage ==
    ASSUME NEW S, NEW s \in Seq(S), NEW m \in Seq(S), PieceOf(s, m, 0),
           Len(s) = Len(m)
    PROVE  s = m
BY DEF PieceOf

(* Nothing is a piece of everything. *)
LEMMA NoWords ==
    ASSUME NEW S, NEW m \in Seq(S), NEW k \in 0..Len(m)
    PROVE  PieceOf(<<>>, m, k)
BY DEF PieceOf

(* No word is a piece only if it is empty at the end of the message. *)
LEMMA LastPiece ==
    ASSUME NEW S, NEW s \in Seq(S), NEW m \in Seq(S), PieceOf(s, m, Len(m))
    PROVE  s = <<>>
BY DEF PieceOf
-----------------------------------------------------------------------------
(* The messages.                                                           *)

(* Sizes of messages are those of protocol.h, and none is empty. *)
LEMMA Sizes ==
    ASSUME NEW op \in RequestTypes
    PROVE  QuerySize(op) \in 2..6 /\ ResponseSize(op) \in 1..6
BY DEF QuerySize, ResponseSize

(* A message is its words. *)
LEMMA MessageWords ==
    ASSUME NEW kind \in {"request", "query", "response"},
           NEW c \in Commands \cup {Garbled}, NEW size \in 1..6
    PROVE  /\ Message(kind, c, size) \in Seq(Words)
           /\ Len(Message(kind, c, size)) = size
           /\ \A i \in 1..size : Message(kind, c, size)[i] =
                                   [kind |-> kind, command |-> c, part |-> i]
<1>1. \A i \in 1..size : [kind |-> kind, command |-> c, part |-> i] \in Words
  BY DEF Words
<1> QED
  BY <1>1 DEF Message

(* The commands are the first, which stands for none, and the numbered     *)
(* ones.                                                                   *)
LEMMA CommandTypes ==
    ASSUME NEW c \in Commands
    PROVE  /\ c.op \in RequestTypes /\ c.n \in 0..MaxCommands
           /\ c.n = 0 => c = NoCommand
           /\ c # NoCommand => c.op \in Ops
BY MaxCommandsAssumption DEF Commands, NoCommand, RequestTypes

(* A request is one word, the command's.                                 *)
LEMMA RequestWords ==
    ASSUME NEW c \in Commands
    PROVE  /\ Request(c) \in Seq(Words) /\ Len(Request(c)) = 1
           /\ Request(c)[1] = [kind |-> "request", command |-> c, part |-> 1]
<1>1. \A z \in 1..6 :
        /\ Message("request", c, z) \in Seq(Words)
        /\ Len(Message("request", c, z)) = z
        /\ \A i \in 1..z : Message("request", c, z)[i] =
                             [kind |-> "request", command |-> c, part |-> i]
  BY MessageWords
<1>2. Request(c) = Message("request", c, 1)
  BY DEF Request, RequestSize
<1> QED
  BY <1>1, <1>2

(* A query is two words or more, all of them the command's.              *)
LEMMA QueryWords ==
    ASSUME NEW c \in Commands
    PROVE  /\ Query(c) \in Seq(Words) /\ Len(Query(c)) = QuerySize(c.op)
           /\ QuerySize(c.op) \in 2..6
           /\ Query(c)[1].command = c
<1> DEFINE m == Message("query", c, QuerySize(c.op))
<1>1. QuerySize(c.op) \in 2..6 /\ QuerySize(c.op) \in 1..6
  BY CommandTypes, Sizes
<1>2. m \in Seq(Words) /\ Len(m) = QuerySize(c.op) /\ \A i \in 1..QuerySize(c.op) :
        m[i] = [kind |-> "query", command |-> c, part |-> i]
  BY <1>1, MessageWords
<1> HIDE DEF m
<1>3. m[1].command = c
  BY <1>1, <1>2
<1>4. Query(c) = m
  BY DEF Query, m
<1> QED
  BY <1>1, <1>2, <1>3, <1>4

(* A response is one word or more.                                       *)
LEMMA ResponseWords ==
    ASSUME NEW c \in Commands
    PROVE  /\ Response(c) \in Seq(Words) /\ Len(Response(c)) = ResponseSize(c.op)
           /\ ResponseSize(c.op) \in 1..6
BY MessageWords, CommandTypes, Sizes DEF Response

(* A goodbye is the request of no command.                               *)
LEMMA GoodbyeWords ==
    /\ NoCommand \in Commands
    /\ Goodbye \in Seq(Words) /\ Len(Goodbye) = 1
    /\ Goodbye[1] = [kind |-> "request", command |-> NoCommand, part |-> 1]
BY RequestWords DEF Goodbye, Commands

(* A request and its query, one behind the other. *)
LEMMA TurnWords ==
    ASSUME NEW c \in Commands
    PROVE  /\ Request(c) \o Query(c) \in Seq(Words)
           /\ Len(Request(c) \o Query(c)) = 1 + QuerySize(c.op)
           /\ (Request(c) \o Query(c))[1] = Request(c)[1]
           /\ \A i \in 1..QuerySize(c.op) :
                 (Request(c) \o Query(c))[1 + i] = Query(c)[i]
<1>1. /\ Request(c) \in Seq(Words) /\ Len(Request(c)) = 1
      /\ Query(c) \in Seq(Words) /\ Len(Query(c)) = QuerySize(c.op)
      /\ QuerySize(c.op) \in 2..6
  BY RequestWords, QueryWords
<1>2. /\ Request(c) \o Query(c) \in Seq(Words)
      /\ Len(Request(c) \o Query(c)) = 1 + QuerySize(c.op)
      /\ \A i \in 1..(1 + QuerySize(c.op)) : (Request(c) \o Query(c))[i] =
            IF i <= 1 THEN Request(c)[i] ELSE Query(c)[i - 1]
  <2> DEFINE r == Request(c)
  <2> DEFINE q == Query(c)
  <2>1. /\ r \o q \in Seq(Words) /\ Len(r \o q) = Len(r) + Len(q)
        /\ \A i \in 1..(Len(r) + Len(q)) :
              (r \o q)[i] = IF i <= Len(r) THEN r[i] ELSE q[i - Len(r)]
    BY <1>1, ConcatProperties
  <2> QED
    BY <1>1, <2>1
<1> QED
  BY <1>1, <1>2

(* What is due is a message, or two. *)
LEMMA DueWords ==
    ASSUME SessionInv
    PROVE  Due \in Seq(Words) /\ Len(Due) \in 1..7
<1>1. cmd \in Commands
  BY DEF SessionInv, NumbersInv
<1>2. Goodbye \in Seq(Words) /\ Len(Goodbye) = 1
  BY GoodbyeWords
<1>3. Query(cmd) \in Seq(Words) /\ Len(Query(cmd)) \in 2..6
  BY <1>1, QueryWords
<1>4. /\ Request(cmd) \o Query(cmd) \in Seq(Words)
      /\ Len(Request(cmd) \o Query(cmd)) \in 3..7
  <2>1. QuerySize(cmd.op) \in 2..6
    BY <1>1, QueryWords
  <2>2. /\ Request(cmd) \o Query(cmd) \in Seq(Words)
        /\ Len(Request(cmd) \o Query(cmd)) = 1 + QuerySize(cmd.op)
    BY <1>1, TurnWords
  <2> QED
    BY <2>1, <2>2
<1>5. \/ Due = Goodbye \/ Due = Query(cmd)
      \/ Due = Request(cmd) \o Query(cmd)
  BY DEF Due
<1>6. CASE Due = Goodbye
  BY <1>2, <1>6
<1>7. CASE Due = Query(cmd)
  BY <1>3, <1>7
<1>8. CASE Due = Request(cmd) \o Query(cmd)
  BY <1>4, <1>8
<1> QED
  BY <1>5, <1>6, <1>7, <1>8

(* A handler that has not performed the latest command was given one. *)
LEMMA RealCommand ==
    ASSUME SessionInv, performed # cmd
    PROVE  cmd \in Commands /\ cmd.op \in Ops
<1>1. cmd \in Commands /\ performed \in Commands /\ performed.n <= cmd.n
  BY DEF SessionInv, NumbersInv
<1>2. CASE cmd = NoCommand
  <2>1. performed.n = 0
    BY <1>1, <1>2, CommandTypes DEF NoCommand
  <2> QED
    BY <1>1, <1>2, <2>1, CommandTypes
<1>3. CASE cmd # NoCommand
  BY <1>1, <1>3, CommandTypes
<1> QED
  BY <1>2, <1>3

(* What the invariant says of the types of one end.                      *)
LEMMA StreamTypes ==
    ASSUME SessionInv, NEW e \in Ends
    PROVE  /\ wire[e] \in Seq(Words) /\ out[e] \in Seq(Words)
           /\ in[e] \in Seq(Words) /\ Inbox \in Seq(Words)
           /\ Answered \in Seq(Words)
           /\ open[e] \in BOOLEAN
           /\ Client \in Ends /\ Server \in Ends
           /\ Peer(Client) = Server /\ Peer(Server) = Client
BY EndsAssumption DEF SessionInv, SessionTypeOK, StreamTypeOK, Inbox, Answered, Ends,
   Peer
-----------------------------------------------------------------------------
(* The three steps at which a message is complete.                         *)

(* A complete request is the goodbye or that of the latest command. *)
LEMMA RequestComplete ==
    ASSUME SessionInv, RequestRead
    PROVE  \/ /\ Close(Server) /\ ServerAt("closed")
           \/ /\ performed # cmd /\ request' = cmd.op /\ cmd.op \in Ops
              /\ Receiving(Server) /\ spc' = "query"
              /\ UNCHANGED <<performed, clientVars>>
<1>1. spc = "request" /\ Len(in[Server]) = 1
  BY DEF RequestRead, Received, RequestSize
<1>2. PieceOf(in[Server], Due, 0)
  BY <1>1 DEF SessionInv, ToServerInv, ServerGone, Inbox
<1>3. in[Server][1] = Due[1]
  BY <1>1, <1>2, DueWords DEF PieceOf
<1>4. cmd \in Commands
  BY DEF SessionInv, NumbersInv
<1>5. CASE performed = cmd
  <2>1. in[Server][1] = [kind |-> "request", command |-> NoCommand, part |-> 1]
    BY <1>3, <1>5, GoodbyeWords DEF Due
  <2> QED
    BY <2>1 DEF RequestRead, NoCommand
<1>6. CASE performed # cmd
  <2>1. in[Server][1] = [kind |-> "request", command |-> cmd, part |-> 1]
    BY <1>1, <1>3, <1>4, <1>6, TurnWords, RequestWords DEF Due
  <2>2. cmd.op \in Ops /\ cmd.op # "PA_GOODBYE"
    BY <1>6, RealCommand DEF Ops
  <2> QED
    BY <1>6, <2>1, <2>2 DEF RequestRead
<1> QED
  BY <1>5, <1>6

(* A complete query is that of the latest command, and then nothing else   *)
(* is on its way to the handler.                                           *)
LEMMA QueryComplete ==
    ASSUME SessionInv, Operate
    PROVE  /\ performed # cmd /\ performed' = cmd /\ cmd \in Commands
           /\ wire[Client] = <<>> /\ out[Client] = <<>>
           /\ out' = [out EXCEPT ![Server] = Response(cmd)]
           /\ cpc # "request"
<1>1. spc = "query" /\ Len(in[Server]) = QuerySize(request)
  BY DEF Operate, Received, ToRead
<1>2. /\ performed # cmd /\ request = cmd.op
      /\ PieceOf(in[Server], Due, 0)
      /\ PieceOf(wire[Client], Due, Len(in[Server]))
      /\ PieceOf(out[Client], Due, Len(in[Server]) + Len(wire[Client]))
      /\ cpc = "request" => Underway + QuerySize(cmd.op) = Len(Due)
  BY <1>1 DEF SessionInv, ToServerInv, ServerGone, Inbox, InFlight
<1>3. cmd \in Commands /\ Due = Query(cmd)
  BY <1>1, <1>2, RealCommand DEF Due
<1>4. /\ Due \in Seq(Words) /\ Len(Due) = QuerySize(cmd.op)
      /\ QuerySize(cmd.op) \in 2..6
  BY <1>3, QueryWords
<1>5. /\ in[Server] \in Seq(Words) /\ wire[Client] \in Seq(Words)
      /\ out[Client] \in Seq(Words)
  BY StreamTypes DEF Ends
<1>6. in[Server] = Query(cmd)
  BY <1>1, <1>2, <1>3, <1>4, <1>5, WholeMessage
<1>7. wire[Client] = <<>>
  BY <1>1, <1>2, <1>4, <1>5, LastPiece
<1>8. out[Client] = <<>>
  BY <1>1, <1>2, <1>4, <1>5, <1>7, LastPiece
<1>9. performed' = cmd
  BY <1>2, <1>3, <1>6, QueryWords DEF Operate, CommandOf
<1>10. cpc # "request"
  <2>1. Underway = Len(in[Server]) + Len(wire[Client]) + Len(out[Client])
    BY <1>1 DEF Underway, InFlight, Inbox
  <2>2. Len(wire[Client]) = 0 /\ Len(out[Client]) = 0
    BY <1>7, <1>8
  <2>3. Underway = QuerySize(cmd.op)
    BY <1>1, <1>2, <1>4, <2>1, <2>2
  <2>4. Underway + QuerySize(cmd.op) # Len(Due)
    <3>1. \A w, q, d : q \in 2..6 /\ w = q /\ d = q => w + q # d
      OBVIOUS
    <3> QED
      BY <1>4, <2>3, <3>1, Zenon
  <2> QED
    BY <1>2, <2>4
<1> QED
  BY <1>2, <1>3, <1>7, <1>8, <1>9, <1>10 DEF Operate, Sending, Response

(* A complete response is that of the latest command, which was performed, *)
(* and then nothing else is on its way to the client.                      *)
LEMMA ResponseComplete ==
    ASSUME SessionInv, ResponseRead
    PROVE  /\ performed = cmd /\ told # cmd /\ told' = cmd
           /\ wire[Server] = <<>>
           /\ ~ServerGone => out[Server] = <<>> /\ Underway = 0
<1>1. cpc = "response" /\ Len(in[Client]) = ResponseSize(cmd.op)
  BY DEF ResponseRead, Received
<1>2. cmd \in Commands /\ told # cmd
  BY <1>1 DEF SessionInv, NumbersInv
<1>3. /\ Response(cmd) \in Seq(Words) /\ Len(Response(cmd)) = ResponseSize(cmd.op)
      /\ ResponseSize(cmd.op) \in 1..6
  BY <1>2, ResponseWords
<1>4. /\ in[Client] \in Seq(Words) /\ wire[Server] \in Seq(Words)
      /\ out[Server] \in Seq(Words)
  BY StreamTypes DEF Ends
<1>5. /\ PieceOf(in[Client], Response(cmd), 0)
      /\ PieceOf(wire[Server], Response(cmd), Len(in[Client]))
      /\ performed # cmd => Len(in[Client]) + Len(wire[Server]) = 0
      /\ ~ServerGone /\ performed = cmd =>
            Len(in[Client]) + Len(wire[Server]) + Len(out[Server])
                = ResponseSize(cmd.op)
  BY <1>1 DEF SessionInv, ToClientInv, Answered
<1>6. in[Client] = Response(cmd)
  BY <1>1, <1>3, <1>4, <1>5, WholeMessage
<1>7. wire[Server] = <<>>
  BY <1>1, <1>3, <1>4, <1>5, LastPiece
<1>8. performed = cmd
  <2>1. Len(in[Client]) + Len(wire[Server]) # 0
    <3>1. Len(wire[Server]) = 0
      BY <1>7
    <3> QED
      BY <1>1, <1>3, <3>1
  <2> QED
    BY <1>5, <2>1
<1>9. ~ServerGone => out[Server] = <<>>
  BY <1>1, <1>3, <1>4, <1>5, <1>7, <1>8
<1>10. ~ServerGone => Underway = 0
  BY <1>1, <1>8 DEF SessionInv, ToServerInv
<1> QED
  BY <1>2, <1>6, <1>7, <1>8, <1>9, <1>10 DEF ResponseRead
-----------------------------------------------------------------------------
(* What the operations of the stream do to a piece of a message.           *)

LEMMA SendMoves ==
    ASSUME SessionInv, NEW e \in Ends, SendSome(e)
    PROVE  /\ open[Peer(e)] /\ UNCHANGED <<open, in>>
           /\ Len(wire'[e]) <= Capacity
           /\ wire' = [wire EXCEPT ![e] = wire'[e]] /\ wire'[e] \in Seq(Words)
           /\ out' = [out EXCEPT ![e] = out'[e]] /\ out'[e] \in Seq(Words)
           /\ out[e] # <<>>
           /\ Len(wire'[e]) + Len(out'[e]) = Len(wire[e]) + Len(out[e])
           /\ \A m \in Seq(Words), k \in Nat :
                 PieceOf(wire[e], m, k) /\ PieceOf(out[e], m, k + Len(wire[e])) =>
                   /\ PieceOf(wire'[e], m, k)
                   /\ PieceOf(out'[e], m, k + Len(wire'[e]))
<1>1. /\ wire[e] \in Seq(Words) /\ out[e] \in Seq(Words)
      /\ wire \in [Ends -> Seq(Words)] /\ out \in [Ends -> Seq(Words)]
  BY DEF SessionInv, SessionTypeOK, StreamTypeOK
<1>2. PICK n \in 1..Len(out[e]) :
        /\ Len(wire[e]) + n <= Capacity
        /\ wire' = [wire EXCEPT ![e] = wire[e] \o SubSeq(out[e], 1, n)]
        /\ out' = [out EXCEPT ![e] = SubSeq(out[e], n + 1, Len(out[e]))]
  BY DEF SendSome
<1> DEFINE w == wire[e] \o SubSeq(out[e], 1, n)
<1> DEFINE o == SubSeq(out[e], n + 1, Len(out[e]))
<1>3. /\ w \in Seq(Words) /\ o \in Seq(Words)
      /\ Len(w) = Len(wire[e]) + n /\ Len(o) = Len(out[e]) - n
      /\ \A m \in Seq(Words), k \in Nat :
            PieceOf(wire[e], m, k) /\ PieceOf(out[e], m, k + Len(wire[e])) =>
              PieceOf(w, m, k) /\ PieceOf(o, m, k + Len(w))
  BY <1>1, MoveWords
<1>4. wire' = [wire EXCEPT ![e] = w] /\ out' = [out EXCEPT ![e] = o]
  BY <1>2
<1> HIDE DEF w, o
<1>5. wire'[e] = w /\ out'[e] = o
  BY <1>1, <1>4
<1>6. out[e] # <<>>
  BY <1>1, <1>2
<1>7. Len(w) + Len(o) = Len(wire[e]) + Len(out[e]) /\ Len(w) <= Capacity
  BY <1>1, <1>2, <1>3, CapacityAssumption
<1>8. open[Peer(e)] /\ UNCHANGED <<open, in>>
  BY DEF SendSome
<1> QED
  BY <1>3, <1>4, <1>5, <1>6, <1>7, <1>8

(* A receive moves words from the wire to the buffer of the reader.      *)
LEMMA ReceiveMoves ==
    ASSUME SessionInv, NEW e \in Ends, NEW to_read \in Nat, ReceiveSome(e, to_read)
    PROVE  LET p == Peer(e)
           IN  /\ UNCHANGED <<open, out>> /\ Len(in'[e]) <= to_read
               /\ in' = [in EXCEPT ![e] = in'[e]] /\ in'[e] \in Seq(Words)
               /\ wire' = [wire EXCEPT ![p] = wire'[p]] /\ wire'[p] \in Seq(Words)
               /\ Len(wire'[p]) <= Len(wire[p]) /\ wire[p] # <<>>
               /\ Len(in'[e]) + Len(wire'[p]) = Len(in[e]) + Len(wire[p])
               /\ \A m \in Seq(Words), k \in Nat :
                     PieceOf(in[e], m, k) /\ PieceOf(wire[p], m, k + Len(in[e])) =>
                       /\ PieceOf(in'[e], m, k)
                       /\ PieceOf(wire'[p], m, k + Len(in'[e]))
<1> DEFINE p == Peer(e)
<1>1. /\ in[e] \in Seq(Words) /\ wire[p] \in Seq(Words) /\ p \in Ends
      /\ in \in [Ends -> Seq(Words)] /\ wire \in [Ends -> Seq(Words)]
  BY DEF SessionInv, SessionTypeOK, StreamTypeOK, Ends, Peer
<1> HIDE DEF p
<1>2. PICK n \in 1..Len(wire[p]) :
        /\ Len(in[e]) + n <= to_read
        /\ in' = [in EXCEPT ![e] = in[e] \o SubSeq(wire[p], 1, n)]
        /\ wire' = [wire EXCEPT ![p] = SubSeq(wire[p], n + 1, Len(wire[p]))]
  BY DEF ReceiveSome, p
<1> DEFINE i == in[e] \o SubSeq(wire[p], 1, n)
<1> DEFINE w == SubSeq(wire[p], n + 1, Len(wire[p]))
<1>3. /\ i \in Seq(Words) /\ w \in Seq(Words)
      /\ Len(i) = Len(in[e]) + n /\ Len(w) = Len(wire[p]) - n
      /\ \A m \in Seq(Words), k \in Nat :
            PieceOf(in[e], m, k) /\ PieceOf(wire[p], m, k + Len(in[e])) =>
              PieceOf(i, m, k) /\ PieceOf(w, m, k + Len(i))
  BY <1>1, MoveWords
<1>4. in' = [in EXCEPT ![e] = i] /\ wire' = [wire EXCEPT ![p] = w]
  BY <1>2
<1> HIDE DEF i, w
<1>5. in'[e] = i /\ wire'[p] = w
  BY <1>1, <1>4
<1>6. wire[p] # <<>>
  BY <1>1, <1>2
<1>7. /\ Len(i) + Len(w) = Len(in[e]) + Len(wire[p]) /\ Len(i) <= to_read
      /\ Len(w) <= Len(wire[p])
  BY <1>1, <1>2, <1>3
<1>8. UNCHANGED <<open, out>>
  BY DEF ReceiveSome
<1>9. /\ UNCHANGED <<open, out>> /\ Len(in'[e]) <= to_read
      /\ in' = [in EXCEPT ![e] = in'[e]] /\ in'[e] \in Seq(Words)
      /\ wire' = [wire EXCEPT ![p] = wire'[p]] /\ wire'[p] \in Seq(Words)
      /\ Len(wire'[p]) <= Len(wire[p]) /\ wire[p] # <<>>
      /\ Len(in'[e]) + Len(wire'[p]) = Len(in[e]) + Len(wire[p])
      /\ \A m \in Seq(Words), k \in Nat :
            PieceOf(in[e], m, k) /\ PieceOf(wire[p], m, k + Len(in[e])) =>
              /\ PieceOf(in'[e], m, k)
              /\ PieceOf(wire'[p], m, k + Len(in'[e]))
  BY <1>3, <1>4, <1>5, <1>6, <1>7, <1>8
<1>10. p' = p
  BY DEF p, Peer
<1> QED
  BY <1>9, <1>10 DEF p
-----------------------------------------------------------------------------
(* No step breaks the numbering of the commands, or who is still there.    *)

LEMMA NumbersStep ==
    ASSUME SessionInv, [SessionNext]_sessionVars
    PROVE  NumbersInv'
<1> USE DEF SessionInv, NumbersInv, clientVars, serverVars, ClientAt, ServerAt
<1>1. ASSUME NEW op \in Ops, Command(op)
      PROVE  NumbersInv'
  <2>1. /\ cmd' = [op |-> op, n |-> cmd.n + 1] /\ cmd.n < MaxCommands
        /\ UNCHANGED <<told, performed>>
    BY <1>1 DEF Command
  <2>2. cmd.n \in 0..MaxCommands /\ told.n \in 0..MaxCommands
        /\ performed.n \in 0..MaxCommands
    BY CommandTypes
  <2>3. cmd' \in Commands /\ cmd'.n = cmd.n + 1
    BY <2>1, <2>2, MaxCommandsAssumption DEF Commands
  <2>4. told.n < cmd'.n /\ performed.n < cmd'.n
    BY <2>2, <2>3
  <2>5. \A c \in {told, performed} : c.n <= cmd'.n
    BY <2>2, <2>3, <2>4
  <2>6. told # cmd' /\ performed # cmd'
    BY <2>2, <2>3, <2>4
  <2> QED
    BY <2>1, <2>3, <2>5, <2>6
<1>2. CASE Operate
  <2>1. performed' = cmd /\ UNCHANGED <<cmd, told, cpc>> /\ cpc # "request"
    BY <1>2, QueryComplete DEF Operate
  <2>2. cmd.n <= cmd.n
    BY CommandTypes
  <2> QED
    BY <2>1, <2>2
<1>3. CASE ResponseRead
  <2>1. told' = cmd /\ UNCHANGED <<cmd, performed>> /\ cpc' = "prompt"
    BY <1>3, ResponseComplete DEF ResponseRead
  <2>2. cmd.n <= cmd.n
    BY CommandTypes
  <2> QED
    BY <2>1, <2>2
<1>4. CASE RequestSent \/ QuerySent
  BY <1>4 DEF RequestSent, QuerySent
<1>5. CASE \/ GoodbyeSent \/ ClientPipe \/ ShortResponse \/ ResponseFails
           \/ BadInput \/ EndOfInput \/ ClientKilled
  BY <1>5 DEF GoodbyeSent, ClientPipe, ShortResponse, ResponseFails, BadInput,
     EndOfInput, ClientKilled
<1>6. CASE \/ ClientSends \/ ClientReceives \/ ServerReceives \/ RequestRead
           \/ ServerSends \/ ResponseSent \/ ServerPipe \/ ReadFails
           \/ Interrupted \/ DaemonEnds \/ UNCHANGED sessionVars
  <2>1. UNCHANGED <<cmd, told, performed, cpc>>
    BY <1>6 DEF ClientSends, ClientReceives, ServerReceives, RequestRead,
       ServerSends, ResponseSent, ServerPipe, ReadFails, Interrupted, DaemonEnds,
       sessionVars
  <2> QED
    BY <2>1
<1> QED
  BY <1>1, <1>2, <1>3, <1>4, <1>5, <1>6 DEF SessionNext, ClientStep, ServerStep

(* An end is open until its program is done with it.                     *)
LEMMA OpenStep ==
    ASSUME SessionInv, [SessionNext]_sessionVars
    PROVE  (open[Client] <=> ~ClientGone)' /\ (open[Server] <=> ~ServerGone)'
<1>1. /\ open \in [Ends -> BOOLEAN] /\ Client \in Ends /\ Server \in Ends
      /\ Client # Server
  BY EndsAssumption DEF SessionInv, SessionTypeOK, StreamTypeOK, Ends
<1> USE DEF SessionInv, ClientGone, ServerGone, clientVars, serverVars, ClientAt,
     ServerAt
<1>2. CASE GoodbyeSent \/ ClientPipe \/ EndOfInput \/ ClientKilled
  <2>1. /\ open' = [open EXCEPT ![Client] = FALSE] /\ UNCHANGED spc
        /\ cpc' \in {"closed", "killed"}
    BY <1>2 DEF GoodbyeSent, ClientPipe, EndOfInput, ClientKilled, Close
  <2> QED
    BY <1>1, <2>1
<1>3. CASE ServerPipe \/ ReadFails \/ Interrupted \/ DaemonEnds
  <2>1. /\ open' = [open EXCEPT ![Server] = FALSE] /\ UNCHANGED cpc
        /\ spc' \in {"closed", "killed"}
    BY <1>3 DEF ServerPipe, ReadFails, Interrupted, DaemonEnds, Close
  <2> QED
    BY <1>1, <2>1
<1>4. CASE RequestRead
  <2>1. UNCHANGED cpc /\ spc = "request"
    BY <1>4 DEF RequestRead
  <2>2. CASE Close(Server) /\ ServerAt("closed")
    BY <1>1, <2>1, <2>2 DEF Close
  <2>3. CASE Receiving(Server) /\ spc' = "query"
    BY <1>1, <2>1, <2>3 DEF Receiving
  <2> QED
    BY <1>4, <2>2, <2>3 DEF RequestRead
<1>5. CASE ServerReceives \/ Operate \/ ServerSends \/ ResponseSent
  <2>1. UNCHANGED <<open, cpc>> /\ ~ServerGone /\ ~ServerGone'
    BY <1>5 DEF ServerReceives, Operate, ServerSends, ResponseSent, Reading,
       ReceiveSome, SendSome, Receiving, Sending
  <2> QED
    BY <2>1
<1>6. ASSUME \/ ClientSends \/ RequestSent \/ QuerySent \/ ClientReceives
             \/ ResponseRead \/ ShortResponse \/ ResponseFails \/ BadInput
             \/ \E op \in Ops : Command(op)
      PROVE  /\ UNCHANGED <<open, spc>> /\ ~ClientGone /\ ~ClientGone'
  BY <1>6 DEF ClientSends, RequestSent, QuerySent, ClientReceives, ResponseRead,
     ShortResponse, ResponseFails, BadInput, Command, ClientSending, ReceiveSome,
     SendSome, Receiving, Sending, streamVars
<1>7. CASE UNCHANGED sessionVars
  BY <1>7 DEF sessionVars, streamVars
<1> QED
  BY <1>2, <1>3, <1>4, <1>5, <1>6, <1>7 DEF SessionNext, ClientStep, ServerStep
-----------------------------------------------------------------------------
(* No step puts a word on its way to the handler that is not due.          *)

(* The handler's state and the command it is due are the same. *)
LEMMA DueKept ==
    ASSUME UNCHANGED <<cmd, performed, spc>>
    PROVE  Due' = Due
BY DEF Due, Query, Request, QuerySize

(* A step of PAController sends only what the handler is due.            *)
LEMMA ToServerByClient ==
    ASSUME SessionInv, ~ServerGone,
           \/ ClientSends \/ RequestSent \/ QuerySent \/ GoodbyeSent \/ ClientPipe
           \/ ClientReceives \/ ResponseRead \/ ShortResponse \/ ResponseFails
           \/ BadInput \/ EndOfInput \/ ClientKilled
    PROVE  ToServerInv'
<1> USE DEF clientVars, serverVars, ClientAt, ServerGone
<1>1. /\ PieceOf(Inbox, Due, 0)
      /\ PieceOf(wire[Client], Due, Len(Inbox))
      /\ PieceOf(out[Client], Due, InFlight)
      /\ cpc = "prompt" => performed = cmd /\ Underway = 0
      /\ cpc = "goodbye" => performed = cmd /\ Underway = 1
      /\ cpc = "request" => Underway + QuerySize(cmd.op) = Len(Due)
      /\ cpc \in {"query", "response"} =>
            Underway = IF performed = cmd THEN 0 ELSE Len(Due)
      /\ spc = "query" => performed # cmd /\ request = cmd.op
      /\ out[Server] # <<>> => spc = "send" /\ performed = cmd
  BY DEF SessionInv, ToServerInv
<1>2. /\ wire[Client] \in Seq(Words) /\ out[Client] \in Seq(Words)
      /\ Inbox \in Seq(Words) /\ Client \in Ends /\ Server \in Ends
      /\ Client # Server /\ Peer(Client) = Server /\ Peer(Server) = Client
  BY StreamTypes, EndsAssumption DEF Ends
<1>3. wire \in [Ends -> Seq(Words)] /\ out \in [Ends -> Seq(Words)]
      /\ in \in [Ends -> Seq(Words)]
  BY DEF SessionInv, SessionTypeOK, StreamTypeOK
<1>4. UNCHANGED <<cmd, performed, spc, request>> /\ Due' = Due
  <2>1. UNCHANGED <<cmd, performed, spc, request>>
    BY DEF ClientSends, RequestSent, QuerySent, GoodbyeSent, ClientPipe,
       ClientReceives, ResponseRead, ShortResponse, ResponseFails, BadInput,
       EndOfInput, ClientKilled
  <2> QED
    BY <2>1, DueKept
<1>5. Due \in Seq(Words) /\ Len(Due) \in 1..7
  BY DueWords
<1>6. InFlight = Len(Inbox) + Len(wire[Client]) /\ Underway = InFlight + Len(out[Client])
  BY DEF InFlight, Underway
<1>0. Len(Inbox) \in Nat /\ Len(wire[Client]) \in Nat /\ Len(out[Client]) \in Nat
  BY <1>2
<1>7. CASE ClientSends
  <2>1. SendSome(Client) /\ UNCHANGED cpc
    BY <1>7 DEF ClientSends
  <2>2. /\ UNCHANGED in
        /\ wire' = [wire EXCEPT ![Client] = wire'[Client]]
        /\ out' = [out EXCEPT ![Client] = out'[Client]]
        /\ wire'[Client] \in Seq(Words) /\ out'[Client] \in Seq(Words)
        /\ Len(wire'[Client]) + Len(out'[Client]) = Len(wire[Client]) + Len(out[Client])
        /\ \A m \in Seq(Words), k \in Nat :
              PieceOf(wire[Client], m, k) /\ PieceOf(out[Client], m, k + Len(wire[Client])) =>
                /\ PieceOf(wire'[Client], m, k)
                /\ PieceOf(out'[Client], m, k + Len(wire'[Client]))
    BY <1>2, <2>1, SendMoves
  <2>3. /\ PieceOf(wire'[Client], Due, Len(Inbox))
        /\ PieceOf(out'[Client], Due, Len(Inbox) + Len(wire'[Client]))
    BY <1>1, <1>2, <1>5, <1>6, <2>2
  <2>4. Inbox' = Inbox
    BY <1>4, <2>2 DEF Inbox
  <2>5. InFlight' = Len(Inbox) + Len(wire'[Client]) /\ Underway' = Underway
    <3>1. InFlight' = Len(Inbox) + Len(wire'[Client])
      BY <2>4 DEF InFlight
    <3>2. Underway' = InFlight' + Len(out'[Client])
      BY DEF Underway
    <3> DEFINE a == Len(Inbox)
    <3> DEFINE b == Len(wire[Client])
    <3> DEFINE d == Len(out[Client])
    <3> DEFINE b2 == Len(wire'[Client])
    <3> DEFINE d2 == Len(out'[Client])
    <3>3. b2 \in Nat /\ d2 \in Nat /\ b2 + d2 = b + d
      BY <2>2, LenProperties, Zenon
    <3>4. /\ a \in Nat /\ b \in Nat /\ d \in Nat
          /\ InFlight = a + b /\ Underway = InFlight + d
      BY <1>0, <1>6
    <3>5. InFlight' = a + b2 /\ Underway' = InFlight' + d2
      BY <3>1, <3>2
    <3> HIDE DEF a, b, d, b2, d2
    <3>6. InFlight' = a + b2 /\ Underway' = Underway
      BY <3>3, <3>4, <3>5
    <3> QED
      BY <3>6 DEF a, b2
  <2>6. out'[Server] = out[Server]
    BY <1>2, <1>3, <2>2
  <2> QED
    BY <1>1, <1>4, <2>1, <2>3, <2>4, <2>5, <2>6 DEF ToServerInv
<1>8. CASE RequestSent
  <2>1. /\ cpc = "request" /\ cpc' = "query" /\ out[Client] = <<>>
        /\ out' = [out EXCEPT ![Client] = Query(cmd)] /\ UNCHANGED <<wire, in>>
    BY <1>8 DEF RequestSent, Sent, Sending
  <2>2. performed # cmd /\ cmd \in Commands
    BY <2>1 DEF SessionInv, NumbersInv
  <2>3. /\ Query(cmd) \in Seq(Words) /\ Len(Query(cmd)) = QuerySize(cmd.op)
        /\ QuerySize(cmd.op) \in 2..6
    BY <2>2, QueryWords
  <2>4. InFlight + QuerySize(cmd.op) = Len(Due)
    BY <1>1, <1>2, <1>6, <2>1
  <2>5. PieceOf(Query(cmd), Due, InFlight)
    <3>1. CASE spc = "query"
      <4>1. Due = Query(cmd) /\ InFlight = 0
        BY <1>2, <1>6, <2>2, <2>3, <2>4, <3>1 DEF Due
      <4> QED
        BY <2>3, <4>1 DEF PieceOf
    <3>2. CASE spc # "query"
      <4>1. Due = Request(cmd) \o Query(cmd)
        BY <2>2, <3>2 DEF Due
      <4>2. /\ Len(Due) = 1 + QuerySize(cmd.op)
            /\ \A i \in 1..QuerySize(cmd.op) : Due[1 + i] = Query(cmd)[i]
        BY <2>2, <4>1, TurnWords
      <4>3. InFlight = 1
        BY <1>2, <1>6, <2>3, <2>4, <4>2
      <4> QED
        BY <2>3, <4>2, <4>3 DEF PieceOf
    <3> QED
      BY <3>1, <3>2
  <2>6. Inbox' = Inbox /\ InFlight' = InFlight /\ out'[Client] = Query(cmd)
        /\ out'[Server] = out[Server]
    BY <1>2, <1>3, <1>4, <2>1 DEF Inbox, InFlight
  <2>7. Underway' = Len(Due)
    BY <2>3, <2>4, <2>6 DEF Underway
  <2> QED
    BY <1>1, <1>4, <2>1, <2>2, <2>5, <2>6, <2>7 DEF ToServerInv
<1>9. CASE QuerySent \/ ClientReceives
  <2>1. /\ in'[Server] = in[Server] /\ wire'[Client] = wire[Client] /\ UNCHANGED out
        /\ cpc \in {"query", "response"} /\ cpc' = "response"
    <3>1. CASE QuerySent
      BY <1>2, <1>3, <3>1 DEF QuerySent, Receiving
    <3>2. CASE ClientReceives
      BY <1>2, <1>3, <3>2 DEF ClientReceives, ReceiveSome
    <3> QED
      BY <1>9, <3>1, <3>2
  <2>2. Inbox' = Inbox /\ InFlight' = InFlight /\ Underway' = Underway
    BY <1>4, <2>1 DEF Inbox, InFlight, Underway
  <2> QED
    BY <1>1, <1>4, <2>1, <2>2 DEF ToServerInv
<1>10. CASE ResponseRead
  <2>1. UNCHANGED <<in, wire, out>> /\ cpc' = "prompt"
    BY <1>10 DEF ResponseRead, streamVars
  <2>2. Inbox' = Inbox /\ InFlight' = InFlight /\ Underway' = Underway
    BY <1>4, <2>1 DEF Inbox, InFlight, Underway
  <2>3. performed = cmd /\ Underway = 0
    BY <1>10, ResponseComplete
  <2> QED
    BY <1>1, <1>4, <2>1, <2>2, <2>3 DEF ToServerInv
<1>11. CASE ShortResponse \/ ResponseFails
  BY <1>2, <1>11 DEF ShortResponse, ResponseFails, OrderlyShutdown, ConnectionReset,
     PeerEnded, SessionInv
<1>12. CASE BadInput
  <2>1. /\ cpc = "prompt" /\ cpc' = "goodbye" /\ UNCHANGED <<in, wire>>
        /\ out' = [out EXCEPT ![Client] = Goodbye]
    BY <1>12 DEF BadInput, Sending
  <2>2. performed = cmd /\ Due = Goodbye
    BY <1>1, <2>1 DEF Due
  <2>3. Len(Inbox) = 0 /\ InFlight = 0
    <3>1. Underway = 0
      BY <1>1, <2>1
    <3> DEFINE a == Len(Inbox)
    <3> DEFINE b == Len(wire[Client])
    <3> DEFINE d == Len(out[Client])
    <3>2. /\ a \in Nat /\ b \in Nat /\ d \in Nat
          /\ InFlight = a + b /\ Underway = InFlight + d
      BY <1>0, <1>6
    <3> HIDE DEF a, b, d
    <3>3. a = 0 /\ InFlight = 0
      BY <3>1, <3>2
    <3> QED
      BY <3>3 DEF a
  <2>4. PieceOf(Goodbye, Due, 0) /\ Len(Goodbye) = 1
    BY <2>2, GoodbyeWords DEF PieceOf
  <2>5. Inbox' = Inbox /\ InFlight' = InFlight /\ out'[Client] = Goodbye
        /\ out'[Server] = out[Server]
    BY <1>2, <1>3, <1>4, <2>1 DEF Inbox, InFlight
  <2>6. Underway' = 1
    BY <2>3, <2>4, <2>5 DEF Underway
  <2> QED
    BY <1>1, <1>4, <2>1, <2>2, <2>3, <2>4, <2>5, <2>6 DEF ToServerInv
<1>13. CASE GoodbyeSent \/ ClientPipe \/ EndOfInput \/ ClientKilled
  <2>1. UNCHANGED <<in, wire, out>> /\ cpc' \in {"closed", "killed"}
    BY <1>13 DEF GoodbyeSent, ClientPipe, EndOfInput, ClientKilled, Close
  <2>2. Inbox' = Inbox /\ InFlight' = InFlight /\ Underway' = Underway
    BY <1>4, <2>1 DEF Inbox, InFlight, Underway
  <2> QED
    BY <1>1, <1>4, <2>1, <2>2 DEF ToServerInv
<1> QED
  BY <1>7, <1>8, <1>9, <1>10, <1>11, <1>12, <1>13

(* The same for a step of the handler: a request or a query that is        *)
(* complete is taken out of what is due.                                   *)
LEMMA ToServerByServer ==
    ASSUME SessionInv, ~ServerGone,
           \/ ServerReceives \/ RequestRead \/ Operate \/ ServerSends
           \/ ResponseSent \/ ServerPipe \/ ReadFails \/ Interrupted \/ DaemonEnds
    PROVE  ToServerInv'
<1> USE DEF clientVars, serverVars, ServerAt
<1>1. /\ PieceOf(Inbox, Due, 0)
      /\ PieceOf(wire[Client], Due, Len(Inbox))
      /\ PieceOf(out[Client], Due, InFlight)
      /\ cpc = "prompt" => performed = cmd /\ Underway = 0
      /\ cpc = "goodbye" => performed = cmd /\ Underway = 1
      /\ cpc = "request" => Underway + QuerySize(cmd.op) = Len(Due)
      /\ cpc \in {"query", "response"} =>
            Underway = IF performed = cmd THEN 0 ELSE Len(Due)
      /\ spc = "query" => performed # cmd /\ request = cmd.op
      /\ out[Server] # <<>> => spc = "send" /\ performed = cmd
  BY DEF SessionInv, ToServerInv
<1>2. /\ wire[Client] \in Seq(Words) /\ out[Client] \in Seq(Words)
      /\ in[Server] \in Seq(Words) /\ Inbox \in Seq(Words)
      /\ Client \in Ends /\ Server \in Ends
      /\ Client # Server /\ Peer(Client) = Server /\ Peer(Server) = Client
  BY StreamTypes, EndsAssumption DEF Ends
<1>3. wire \in [Ends -> Seq(Words)] /\ out \in [Ends -> Seq(Words)]
      /\ in \in [Ends -> Seq(Words)]
  BY DEF SessionInv, SessionTypeOK, StreamTypeOK
<1>4. UNCHANGED <<cpc, cmd>>
  BY DEF ServerReceives, RequestRead, Operate, ServerSends, ResponseSent, ServerPipe,
     ReadFails, Interrupted, DaemonEnds
<1>5. Due \in Seq(Words) /\ Len(Due) \in 1..7
  BY DueWords
<1>6. InFlight = Len(Inbox) + Len(wire[Client]) /\ Underway = InFlight + Len(out[Client])
  BY DEF InFlight, Underway
<1>7. CASE ServerReceives
  <2>1. /\ spc \in {"request", "query"} /\ ReceiveSome(Server, ToRead)
        /\ UNCHANGED <<spc, request, performed>>
    BY <1>7 DEF ServerReceives, Reading
  <2>2. ToRead \in Nat
    BY <1>1, <2>1, RealCommand, Sizes DEF ToRead, RequestSize, RequestTypes
  <2>3. /\ UNCHANGED out
        /\ wire' = [wire EXCEPT ![Client] = wire'[Client]]
        /\ in'[Server] \in Seq(Words) /\ wire'[Client] \in Seq(Words)
        /\ Len(in'[Server]) + Len(wire'[Client]) = Len(in[Server]) + Len(wire[Client])
        /\ \A m \in Seq(Words), k \in Nat :
              PieceOf(in[Server], m, k) /\ PieceOf(wire[Client], m, k + Len(in[Server])) =>
                /\ PieceOf(in'[Server], m, k)
                /\ PieceOf(wire'[Client], m, k + Len(in'[Server]))
    BY <1>2, <2>1, <2>2, ReceiveMoves
  <2>4. Inbox = in[Server] /\ Inbox' = in'[Server]
    BY <2>1 DEF Inbox
  <2>5. Due' = Due
    BY <1>4, <2>1, DueKept
  <2>6. /\ PieceOf(Inbox', Due, 0)
        /\ PieceOf(wire'[Client], Due, Len(Inbox'))
    BY <1>1, <1>2, <1>5, <2>3, <2>4
  <2>7. InFlight' = InFlight /\ Underway' = Underway
    <3>1. InFlight' = Len(Inbox') + Len(wire'[Client])
      BY DEF InFlight
    <3>2. InFlight' = InFlight
      BY <1>6, <2>3, <2>4, <3>1, Zenon
    <3> QED
      BY <2>3, <3>2 DEF Underway
  <2> QED
    BY <1>1, <1>4, <2>1, <2>3, <2>5, <2>6, <2>7 DEF ToServerInv
<1>8. CASE RequestRead
  <2>1. CASE ServerAt("closed")
    BY <2>1 DEF ToServerInv, ServerGone
  <2>2. CASE /\ performed # cmd /\ request' = cmd.op /\ cmd.op \in Ops
             /\ Receiving(Server) /\ spc' = "query"
             /\ UNCHANGED <<performed, clientVars>>
    <3>1. spc = "request" /\ Len(in[Server]) = 1 /\ cmd \in Commands
      BY <1>8 DEF RequestRead, Received, RequestSize, SessionInv, NumbersInv
    <3>2. Due = Request(cmd) \o Query(cmd) /\ Due' = Query(cmd)
      BY <1>4, <2>2, <3>1 DEF Due, Query, QuerySize
    <3>3. /\ Query(cmd) \in Seq(Words) /\ Len(Query(cmd)) = QuerySize(cmd.op)
          /\ QuerySize(cmd.op) \in 2..6
          /\ Len(Due) = 1 + QuerySize(cmd.op)
          /\ \A i \in 1..QuerySize(cmd.op) : Due[1 + i] = Query(cmd)[i]
      BY <3>1, <3>2, QueryWords, TurnWords
    <3>4. /\ in'[Server] = <<>> /\ wire' = wire /\ out' = out
          /\ Inbox = in[Server] /\ Inbox' = <<>>
      BY <1>2, <1>3, <2>2, <3>1 DEF Receiving, Inbox
    <3>5. ASSUME NEW w \in Seq(Words), NEW k \in Nat, PieceOf(w, Due, 1 + k)
          PROVE  PieceOf(w, Query(cmd), k)
      <4>1. k + Len(w) <= QuerySize(cmd.op)
        BY <3>3, <3>5 DEF PieceOf
      <4>2. ASSUME NEW i \in 1..Len(w)
            PROVE  w[i] = Query(cmd)[k + i]
        <5>1. w[i] = Due[1 + k + i]
          BY <3>5 DEF PieceOf
        <5>2. k + i \in 1..QuerySize(cmd.op)
          BY <3>3, <4>1
        <5>3. 1 + k + i = 1 + (k + i)
          OBVIOUS
        <5> QED
          BY <3>3, <5>1, <5>2, <5>3
      <4> QED
        BY <3>3, <4>1, <4>2 DEF PieceOf
    <3> DEFINE b == Len(wire[Client])
    <3> DEFINE d == Len(out[Client])
    <3>6. b \in Nat /\ d \in Nat /\ InFlight = 1 + b /\ Underway = 1 + b + d
      BY <1>2, <1>6, <3>1, <3>4, LenProperties, Zenon
    <3>7. InFlight' = 0 + b /\ Underway' = InFlight' + d
      <4>1. InFlight' = Len(Inbox') + Len(wire'[Client])
            /\ Underway' = InFlight' + Len(out'[Client])
        BY DEF InFlight, Underway
      <4>2. Len(Inbox') = 0
        BY <3>4
      <4> QED
        BY <3>4, <4>1, <4>2, Zenon
    <3>8. PieceOf(Inbox', Due', 0)
      BY <3>2, <3>3, <3>4 DEF PieceOf
    <3>9. PieceOf(wire'[Client], Due', Len(Inbox'))
      <4>1. Len(Inbox) = 1 + 0
        BY <3>1, <3>4
      <4>2. PieceOf(wire[Client], Due, 1 + 0)
        BY <1>1, <4>1, Zenon
      <4> QED
        BY <1>2, <3>2, <3>4, <3>5, <4>2
    <3>10. PieceOf(out'[Client], Due', InFlight')
      <4>1. PieceOf(out[Client], Due, 1 + b) /\ b \in Nat
        BY <1>1, <3>6, Zenon
      <4>2. InFlight' = b
        <5> HIDE DEF b, d
        <5> QED
          BY <3>6, <3>7
      <4> HIDE DEF b
      <4> QED
        BY <1>2, <3>2, <3>4, <3>5, <4>1, <4>2
    <3>11. /\ cpc # "prompt" /\ cpc # "goodbye"
           /\ cpc = "request" => Underway + QuerySize(cmd.op) = 1 + QuerySize(cmd.op)
           /\ cpc \in {"query", "response"} => Underway = 1 + QuerySize(cmd.op)
           /\ out[Server] = <<>>
      BY <1>1, <2>2, <3>1, <3>3
    <3>12. /\ cpc = "request" => Underway' + QuerySize(cmd.op) = QuerySize(cmd.op)
           /\ cpc \in {"query", "response"} => Underway' = QuerySize(cmd.op)
      <4> HIDE DEF b, d
      <4> QED
        BY <3>3, <3>6, <3>7, <3>11
    <3>13. QuerySize(cmd'.op) = QuerySize(cmd.op) /\ Len(Due') = QuerySize(cmd.op)
      BY <1>4, <3>2, <3>3 DEF QuerySize
    <3> HIDE DEF b, d
    <3> QED
      BY <1>4, <2>2, <3>4, <3>8, <3>9, <3>10, <3>11, <3>12, <3>13 DEF ToServerInv
  <2> QED
    BY <1>8, <2>1, <2>2, RequestComplete
<1>9. CASE Operate
  <2>1. /\ performed # cmd /\ performed' = cmd /\ spc' = "send"
        /\ wire[Client] = <<>> /\ out[Client] = <<>> /\ cpc # "request"
        /\ out' = [out EXCEPT ![Server] = Response(cmd)] /\ UNCHANGED <<wire, in>>
    BY <1>9, QueryComplete DEF Operate, Sending
  <2>2. /\ Due' = Goodbye /\ Inbox' = <<>> /\ wire'[Client] = <<>>
        /\ out'[Client] = <<>>
    BY <1>2, <1>3, <1>4, <2>1 DEF Due, Inbox, Goodbye, Request
  <2>3. InFlight' = 0 /\ Underway' = 0
    BY <2>2 DEF InFlight, Underway
  <2>4. \A k \in 0..1 : PieceOf(<<>>, Goodbye, k)
    BY GoodbyeWords, NoWords
  <2>5. cpc # "prompt" /\ cpc # "goodbye"
    BY <1>1, <2>1
  <2>6. Len(Inbox') = 0
    BY <2>2
  <2>7. PieceOf(Inbox', Due', 0) /\ PieceOf(wire'[Client], Due', Len(Inbox'))
        /\ PieceOf(out'[Client], Due', InFlight')
    BY <2>2, <2>3, <2>4, <2>6
  <2> QED
    BY <1>4, <2>1, <2>3, <2>5, <2>7 DEF ToServerInv
<1>10. CASE ServerSends
  <2>1. spc = "send" /\ SendSome(Server) /\ UNCHANGED <<spc, request, performed>>
    BY <1>10 DEF ServerSends
  <2>2. /\ UNCHANGED in /\ out[Server] # <<>>
        /\ wire' = [wire EXCEPT ![Server] = wire'[Server]]
        /\ out' = [out EXCEPT ![Server] = out'[Server]]
    BY <1>2, <2>1, SendMoves
  <2>3. wire'[Client] = wire[Client] /\ out'[Client] = out[Client]
    BY <1>2, <1>3, <2>2
  <2>4. Inbox' = Inbox /\ InFlight' = InFlight /\ Underway' = Underway /\ Due' = Due
    <3>1. Due' = Due
      BY <1>4, <2>1, DueKept
    <3> QED
      BY <2>1, <2>2, <2>3, <3>1 DEF Inbox, InFlight, Underway
  <2> QED
    BY <1>1, <1>4, <2>1, <2>2, <2>3, <2>4 DEF ToServerInv
<1>11. CASE ResponseSent
  <2>1. /\ spc = "send" /\ spc' = "request" /\ out[Server] = <<>>
        /\ in' = [in EXCEPT ![Server] = <<>>] /\ UNCHANGED <<wire, out, request, performed>>
    BY <1>11 DEF ResponseSent, Sent, Receiving
  <2>2. Inbox' = <<>> /\ Inbox = <<>>
    BY <1>2, <1>3, <2>1 DEF Inbox
  <2>3. Due' = Due
    BY <1>4, <2>1 DEF Due, Query, Request, QuerySize, Goodbye
  <2>4. InFlight' = InFlight /\ Underway' = Underway
    BY <2>1, <2>2 DEF InFlight, Underway
  <2> QED
    BY <1>1, <1>4, <2>1, <2>2, <2>3, <2>4 DEF ToServerInv
<1>12. CASE ServerPipe \/ ReadFails \/ Interrupted \/ DaemonEnds
  BY <1>12 DEF ServerPipe, ReadFails, Interrupted, DaemonEnds, ToServerInv, ServerGone
<1> QED
  BY <1>7, <1>8, <1>9, <1>10, <1>11, <1>12

(* The next command: nothing is under way, and it has a number of its own. *)
LEMMA ToServerByCommand ==
    ASSUME SessionInv, ~ServerGone, NEW op \in Ops, Command(op)
    PROVE  ToServerInv'
<1>1. /\ cpc = "prompt" /\ cpc' = "request" /\ UNCHANGED <<wire, in, spc, request, performed>>
      /\ out' = [out EXCEPT ![Client] = Request(cmd')]
  BY DEF Command, Sending, serverVars
<1>2. /\ performed = cmd /\ Underway = 0 /\ spc # "query"
      /\ out[Server] = <<>>
  BY <1>1 DEF SessionInv, ToServerInv, ToClientInv
<1>3. SessionNext
  BY DEF SessionNext
<1>4. cmd' \in Commands /\ performed' # cmd'
  BY <1>1, <1>3, NumbersStep DEF NumbersInv
<1>5. /\ wire[Client] \in Seq(Words) /\ out[Client] \in Seq(Words)
      /\ Inbox \in Seq(Words) /\ Client \in Ends /\ Server \in Ends
      /\ Client # Server /\ out \in [Ends -> Seq(Words)]
  BY StreamTypes, EndsAssumption DEF Ends, SessionInv, SessionTypeOK, StreamTypeOK
<1>6. Inbox = <<>> /\ wire[Client] = <<>>
  <2> DEFINE a == Len(Inbox)
  <2> DEFINE b == Len(wire[Client])
  <2> DEFINE d == Len(out[Client])
  <2>1. a \in Nat /\ b \in Nat /\ d \in Nat /\ a + b + d = 0
    BY <1>2, <1>5, LenProperties, Zenon DEF Underway, InFlight
  <2> HIDE DEF a, b, d
  <2>2. a = 0 /\ b = 0
    BY <2>1
  <2> QED
    BY <1>5, <2>2, EmptySeq DEF a, b
<1>7. Due' = Request(cmd') \o Query(cmd')
  BY <1>1, <1>2, <1>4 DEF Due, Request, Query, QuerySize
<1>8. /\ Len(Due') = 1 + QuerySize(cmd'.op) /\ QuerySize(cmd'.op) \in 2..6
      /\ Due'[1] = Request(cmd')[1] /\ Len(Request(cmd')) = 1
  BY <1>4, <1>7, TurnWords, RequestWords, QueryWords
<1>9. Inbox' = <<>> /\ wire'[Client] = <<>> /\ out'[Client] = Request(cmd')
      /\ out'[Server] = <<>>
  BY <1>1, <1>2, <1>5, <1>6 DEF Inbox
<1>10. InFlight' = 0 /\ Underway' = 1 /\ Len(Inbox') = 0
  BY <1>8, <1>9 DEF InFlight, Underway
<1>11. /\ PieceOf(Inbox', Due', 0) /\ PieceOf(wire'[Client], Due', 0)
       /\ PieceOf(out'[Client], Due', 0)
  <2>1. Due' \in Seq(Words) /\ Request(cmd') \in Seq(Words)
    BY <1>4, <1>7, TurnWords, RequestWords
  <2>2. PieceOf(<<>>, Due', 0)
    BY <1>8, <2>1, NoWords
  <2>3. PieceOf(Request(cmd'), Due', 0)
    BY <1>8 DEF PieceOf
  <2> QED
    BY <1>9, <2>2, <2>3, Zenon
<1> QED
  BY <1>1, <1>2, <1>4, <1>8, <1>9, <1>10, <1>11 DEF ToServerInv

(* Whoever steps, what is on its way to the handler is due. *)
LEMMA ToServerStep ==
    ASSUME SessionInv, [SessionNext]_sessionVars
    PROVE  ToServerInv'
<1>1. CASE ServerGone
  <2>1. ServerGone'
    BY <1>1 DEF ServerGone, SessionNext, ClientStep, ServerStep, sessionVars, serverVars,
       ClientAt, ServerAt, ClientSends, RequestSent, QuerySent, GoodbyeSent, ClientPipe,
       ClientReceives, ResponseRead, ShortResponse, ResponseFails, Command, BadInput,
       EndOfInput, ClientKilled, ServerReceives, RequestRead, Operate, ServerSends,
       ResponseSent, ServerPipe, ReadFails, Interrupted, DaemonEnds, Reading
  <2> QED
    BY <2>1 DEF ToServerInv
<1>2. CASE ~ServerGone
  <2>1. CASE UNCHANGED sessionVars
    <3>1. UNCHANGED <<wire, out, in, cpc, cmd, spc, request, performed>>
      BY <2>1 DEF sessionVars, streamVars, clientVars, serverVars
    <3>2. Due' = Due
      BY <3>1, DueKept
    <3>3. Inbox' = Inbox /\ InFlight' = InFlight /\ Underway' = Underway
      BY <3>1 DEF Inbox, InFlight, Underway
    <3> QED
      BY <1>2, <3>1, <3>2, <3>3 DEF SessionInv, ToServerInv
  <2> QED
    BY <1>2, <2>1, ToServerByClient, ToServerByServer, ToServerByCommand
       DEF SessionNext, ClientStep, ServerStep
<1> QED
  BY <1>1, <1>2

-----------------------------------------------------------------------------
(* No step puts a word on its way to the client that is not of the         *)
(* response to its latest command.                                         *)

(* What the words on their way to the client depend on. *)
LEMMA ToClientKept ==
    ASSUME SessionInv, UNCHANGED <<cpc, cmd, performed>>, in'[Client] = in[Client],
           wire'[Server] = wire[Server], out'[Server] = out[Server],
           ServerGone => ServerGone'
    PROVE  ToClientInv'
<1>1. Answered' = Answered
  BY DEF Answered
<1>2. Response(cmd)' = Response(cmd) /\ ResponseSize(cmd.op)' = ResponseSize(cmd.op)
  BY DEF Response, ResponseSize
<1>3. ToClientInv
  BY DEF SessionInv
<1> QED
  BY <1>1, <1>2, <1>3 DEF ToClientInv

(* The steps of PAController. *)
LEMMA ToClientByClient ==
    ASSUME SessionInv,
           \/ ClientSends \/ RequestSent \/ QuerySent \/ GoodbyeSent \/ ClientPipe
           \/ ClientReceives \/ ResponseRead \/ ShortResponse \/ ResponseFails
           \/ BadInput \/ EndOfInput \/ ClientKilled \/ \E op \in Ops : Command(op)
    PROVE  ToClientInv'
<1> USE DEF clientVars, serverVars, ClientAt
<1>1. /\ cpc \in {"prompt", "request", "goodbye"} =>
            wire[Server] = <<>> /\ (~ServerGone => out[Server] = <<>>)
      /\ cpc \in {"query", "response"} =>
            /\ PieceOf(Answered, Response(cmd), 0)
            /\ PieceOf(wire[Server], Response(cmd), Len(Answered))
            /\ performed # cmd => Len(Answered) + Len(wire[Server]) = 0
            /\ ~ServerGone /\ performed = cmd =>
                  /\ PieceOf(out[Server], Response(cmd), Len(Answered) + Len(wire[Server]))
                  /\ Len(Answered) + Len(wire[Server]) + Len(out[Server])
                        = ResponseSize(cmd.op)
  BY DEF SessionInv, ToClientInv
<1>2. /\ wire[Server] \in Seq(Words) /\ out[Server] \in Seq(Words)
      /\ in[Client] \in Seq(Words) /\ Client \in Ends /\ Server \in Ends
      /\ Client # Server /\ Peer(Client) = Server /\ Peer(Server) = Client
      /\ wire \in [Ends -> Seq(Words)] /\ out \in [Ends -> Seq(Words)]
      /\ in \in [Ends -> Seq(Words)]
  BY StreamTypes, EndsAssumption DEF Ends, SessionInv, SessionTypeOK, StreamTypeOK
<1>3. /\ cmd \in Commands /\ Response(cmd) \in Seq(Words)
      /\ Len(Response(cmd)) = ResponseSize(cmd.op) /\ ResponseSize(cmd.op) \in 1..6
  BY ResponseWords DEF SessionInv, NumbersInv
<1>4. UNCHANGED <<spc, performed>> /\ ServerGone' = ServerGone
  <2>1. UNCHANGED <<spc, performed>>
    BY DEF ClientSends, RequestSent, QuerySent, GoodbyeSent, ClientPipe,
       ClientReceives, ResponseRead, ShortResponse, ResponseFails, BadInput,
       EndOfInput, ClientKilled, Command
  <2> QED
    BY <2>1 DEF ServerGone
<1>5. CASE BadInput \/ \E op \in Ops : Command(op)
  <2>1. /\ cpc = "prompt" /\ cpc' \in {"request", "goodbye"} /\ UNCHANGED wire
        /\ \E m : out' = [out EXCEPT ![Client] = m]
    BY <1>5 DEF BadInput, Command, Sending
  <2>2. out'[Server] = out[Server]
    BY <1>2, <2>1
  <2> QED
    BY <1>1, <1>4, <2>1, <2>2 DEF ToClientInv
<1>6. CASE ClientSends
  <2>1. SendSome(Client) /\ UNCHANGED <<cpc, cmd>>
    BY <1>6 DEF ClientSends
  <2>2. /\ UNCHANGED in /\ wire' = [wire EXCEPT ![Client] = wire'[Client]]
        /\ out' = [out EXCEPT ![Client] = out'[Client]]
    BY <1>2, <2>1, SendMoves
  <2>3. wire'[Server] = wire[Server] /\ out'[Server] = out[Server]
    BY <1>2, <2>2
  <2> QED
    BY <1>4, <2>1, <2>2, <2>3, ToClientKept
<1>7. CASE RequestSent
  <2>1. /\ cpc = "request" /\ cpc' = "query" /\ UNCHANGED <<wire, cmd>>
    BY <1>7 DEF RequestSent, Sending
  <2>2. performed # cmd /\ wire[Server] = <<>> /\ Answered' = <<>>
    BY <1>1, <2>1 DEF SessionInv, NumbersInv, Answered
  <2>3. PieceOf(<<>>, Response(cmd), 0)
    BY <1>3, NoWords
  <2>4. Len(<<>>) = 0 /\ 0 + 0 = 0
    OBVIOUS
  <2>5. Response(cmd)' = Response(cmd)
    BY <2>1 DEF Response, ResponseSize
  <2> QED
    BY <1>4, <2>1, <2>2, <2>3, <2>4, <2>5 DEF ToClientInv
<1>8. CASE QuerySent
  <2>1. /\ cpc = "query" /\ cpc' = "response" /\ UNCHANGED <<wire, out, cmd>>
        /\ in' = [in EXCEPT ![Client] = <<>>]
    BY <1>8 DEF QuerySent, Receiving
  <2>2. Answered = <<>> /\ Answered' = <<>>
    BY <1>2, <2>1 DEF Answered
  <2>3. Response(cmd)' = Response(cmd) /\ ResponseSize(cmd.op)' = ResponseSize(cmd.op)
    BY <2>1 DEF Response, ResponseSize
  <2> QED
    BY <1>1, <1>4, <2>1, <2>2, <2>3 DEF ToClientInv
<1>9. CASE GoodbyeSent \/ ClientPipe \/ EndOfInput \/ ClientKilled
  BY <1>9 DEF GoodbyeSent, ClientPipe, EndOfInput, ClientKilled, ToClientInv
<1>10. CASE ClientReceives
  <2>1. cpc = "response" /\ ReceiveSome(Client, ResponseSize(cmd.op)) /\ UNCHANGED <<cpc, cmd>>
    BY <1>10 DEF ClientReceives
  <2>2. /\ UNCHANGED out /\ in'[Client] \in Seq(Words) /\ wire'[Server] \in Seq(Words)
        /\ Len(in'[Client]) + Len(wire'[Server]) = Len(in[Client]) + Len(wire[Server])
        /\ \A m \in Seq(Words), k \in Nat :
              PieceOf(in[Client], m, k) /\ PieceOf(wire[Server], m, k + Len(in[Client])) =>
                /\ PieceOf(in'[Client], m, k)
                /\ PieceOf(wire'[Server], m, k + Len(in'[Client]))
    <3>1. ResponseSize(cmd.op) \in Nat
      BY <1>3
    <3> QED
      BY <1>2, <2>1, <3>1, ReceiveMoves
  <2>3. Answered = in[Client] /\ Answered' = in'[Client]
    BY <2>1 DEF Answered
  <2>4. PieceOf(in'[Client], Response(cmd), 0)
        /\ PieceOf(wire'[Server], Response(cmd), Len(in'[Client]))
    <3> DEFINE a == Len(in[Client])
    <3> DEFINE a2 == Len(in'[Client])
    <3>1. a \in Nat /\ a2 \in Nat
      BY <1>2, <2>2, LenProperties, Zenon
    <3>2. PieceOf(in[Client], Response(cmd), 0) /\ PieceOf(wire[Server], Response(cmd), a)
      BY <1>1, <2>1, <2>3, Zenon
    <3>3. \A m \in Seq(Words), k \in Nat :
             PieceOf(in[Client], m, k) /\ PieceOf(wire[Server], m, k + a) =>
               /\ PieceOf(in'[Client], m, k)
               /\ PieceOf(wire'[Server], m, k + a2)
      BY <2>2, Zenon
    <3> HIDE DEF a, a2
    <3>4. PieceOf(in'[Client], Response(cmd), 0) /\ PieceOf(wire'[Server], Response(cmd), a2)
      BY <1>3, <3>1, <3>2, <3>3
    <3> QED
      BY <3>4 DEF a2
  <2>5. Response(cmd)' = Response(cmd) /\ ResponseSize(cmd.op)' = ResponseSize(cmd.op)
    BY <2>1 DEF Response, ResponseSize
  <2>6. Len(Answered') + Len(wire'[Server]) = Len(Answered) + Len(wire[Server])
    BY <2>2, <2>3, Zenon
  <2> QED
    BY <1>1, <1>4, <2>1, <2>2, <2>3, <2>4, <2>5, <2>6 DEF ToClientInv
<1>11. CASE ResponseRead
  <2>1. cpc' = "prompt" /\ UNCHANGED <<wire, out>>
    BY <1>11 DEF ResponseRead, streamVars
  <2>2. wire[Server] = <<>> /\ (~ServerGone => out[Server] = <<>>)
    BY <1>11, ResponseComplete
  <2> QED
    BY <1>4, <2>1, <2>2 DEF ToClientInv
<1>12. CASE ShortResponse \/ ResponseFails
  <2>1. /\ cpc' \in {"prompt", "goodbye"} /\ UNCHANGED wire
        /\ wire[Server] = <<>> /\ ~open[Server]
    BY <1>2, <1>12 DEF ShortResponse, ResponseFails, OrderlyShutdown, ConnectionReset,
       PeerEnded, Sending, streamVars
  <2>2. ServerGone
    BY <2>1 DEF SessionInv
  <2> QED
    BY <1>4, <2>1, <2>2 DEF ToClientInv
<1> QED
  BY <1>5, <1>6, <1>7, <1>8, <1>9, <1>10, <1>11, <1>12

(* The steps of the handler. *)
LEMMA ToClientByServer ==
    ASSUME SessionInv,
           \/ ServerReceives \/ RequestRead \/ Operate \/ ServerSends
           \/ ResponseSent \/ ServerPipe \/ ReadFails \/ Interrupted \/ DaemonEnds
    PROVE  ToClientInv'
<1> USE DEF clientVars, serverVars, ServerAt
<1>1. /\ cpc \in {"prompt", "request", "goodbye"} =>
            wire[Server] = <<>> /\ (~ServerGone => out[Server] = <<>>)
      /\ cpc \in {"query", "response"} =>
            /\ PieceOf(Answered, Response(cmd), 0)
            /\ PieceOf(wire[Server], Response(cmd), Len(Answered))
            /\ performed # cmd => Len(Answered) + Len(wire[Server]) = 0
            /\ ~ServerGone /\ performed = cmd =>
                  /\ PieceOf(out[Server], Response(cmd), Len(Answered) + Len(wire[Server]))
                  /\ Len(Answered) + Len(wire[Server]) + Len(out[Server])
                        = ResponseSize(cmd.op)
  BY DEF SessionInv, ToClientInv
<1>2. /\ wire[Server] \in Seq(Words) /\ out[Server] \in Seq(Words)
      /\ Answered \in Seq(Words)
      /\ in[Client] \in Seq(Words) /\ Client \in Ends /\ Server \in Ends
      /\ Client # Server /\ Peer(Client) = Server /\ Peer(Server) = Client
      /\ wire \in [Ends -> Seq(Words)] /\ out \in [Ends -> Seq(Words)]
      /\ in \in [Ends -> Seq(Words)]
  BY StreamTypes, EndsAssumption DEF Ends, SessionInv, SessionTypeOK, StreamTypeOK
<1>3. /\ cmd \in Commands /\ Response(cmd) \in Seq(Words)
      /\ Len(Response(cmd)) = ResponseSize(cmd.op) /\ ResponseSize(cmd.op) \in 1..6
  BY ResponseWords DEF SessionInv, NumbersInv
<1>4. UNCHANGED <<cpc, cmd>>
  BY DEF ServerReceives, RequestRead, Operate, ServerSends, ResponseSent, ServerPipe,
     ReadFails, Interrupted, DaemonEnds
<1>5. CASE ServerReceives
  <2>1. Reading /\ ReceiveSome(Server, ToRead) /\ UNCHANGED <<spc, performed>>
    BY <1>5 DEF ServerReceives
  <2>2. /\ UNCHANGED out
        /\ \E m : wire' = [wire EXCEPT ![Client] = m]
        /\ \E m : in' = [in EXCEPT ![Server] = m]
    BY <1>2, <2>1 DEF ReceiveSome
  <2>3. wire'[Server] = wire[Server] /\ in'[Client] = in[Client]
    BY <1>2, <2>2
  <2> QED
    BY <1>4, <2>1, <2>2, <2>3, ToClientKept DEF ServerGone
<1>6. CASE \/ RequestRead \/ ResponseSent \/ ServerPipe \/ ReadFails \/ Interrupted
           \/ DaemonEnds
  <2>1. UNCHANGED <<wire, out, performed>> /\ ~ServerGone
    BY <1>6 DEF RequestRead, ResponseSent, ServerPipe, ReadFails, Interrupted,
       DaemonEnds, Receiving, Close, Reading, ServerGone
  <2>2. in'[Client] = in[Client]
    BY <1>2, <1>6 DEF RequestRead, ResponseSent, ServerPipe, ReadFails, Interrupted,
       DaemonEnds, Receiving, Close
  <2> QED
    BY <1>4, <2>1, <2>2, ToClientKept
<1>7. CASE Operate
  <2>1. /\ performed # cmd /\ performed' = cmd /\ spc = "query"
        /\ cpc # "request" /\ UNCHANGED <<wire, in>>
        /\ out' = [out EXCEPT ![Server] = Response(cmd)]
    BY <1>7, QueryComplete DEF Operate, Sending
  <2>2. cpc # "prompt" /\ cpc # "goodbye"
    BY <2>1 DEF SessionInv, ToServerInv, ServerGone
  <2>3. Answered' = Answered /\ Response(cmd)' = Response(cmd)
        /\ ResponseSize(cmd.op)' = ResponseSize(cmd.op)
    BY <1>4, <2>1 DEF Answered, Response, ResponseSize
  <2>4. out'[Server] = Response(cmd)
    BY <1>2, <2>1
  <2>5. PieceOf(Response(cmd), Response(cmd), 0)
    BY <1>3 DEF PieceOf
  <2>6. 0 + Len(Response(cmd)) = ResponseSize(cmd.op)
    BY <1>3
  <2>7. cpc \in {"query", "response"} => Len(Answered) + Len(wire[Server]) = 0
    BY <1>1, <2>1
  <2> QED
    BY <1>1, <1>4, <2>1, <2>2, <2>3, <2>4, <2>5, <2>6, <2>7 DEF ToClientInv
<1>8. CASE ServerSends
  <2>1. spc = "send" /\ SendSome(Server) /\ UNCHANGED <<spc, performed>>
    BY <1>8 DEF ServerSends
  <2>2. /\ UNCHANGED in /\ out[Server] # <<>>
        /\ wire'[Server] \in Seq(Words) /\ out'[Server] \in Seq(Words)
        /\ Len(wire'[Server]) + Len(out'[Server]) = Len(wire[Server]) + Len(out[Server])
        /\ \A m \in Seq(Words), k \in Nat :
              PieceOf(wire[Server], m, k) /\ PieceOf(out[Server], m, k + Len(wire[Server])) =>
                /\ PieceOf(wire'[Server], m, k)
                /\ PieceOf(out'[Server], m, k + Len(wire'[Server]))
    BY <1>2, <2>1, SendMoves
  <2>3. performed = cmd /\ ~ServerGone /\ cpc \notin {"prompt", "request", "goodbye"}
    BY <1>1, <2>1, <2>2 DEF SessionInv, ToServerInv, ServerGone
  <2>4. Answered' = Answered /\ Response(cmd)' = Response(cmd)
        /\ ResponseSize(cmd.op)' = ResponseSize(cmd.op)
    BY <1>4, <2>2 DEF Answered, Response, ResponseSize
  <2>5. CASE cpc \in {"query", "response"}
    <3> DEFINE a == Len(Answered)
    <3> DEFINE b == Len(wire[Server])
    <3> DEFINE d == Len(out[Server])
    <3> DEFINE b2 == Len(wire'[Server])
    <3> DEFINE d2 == Len(out'[Server])
    <3>1. /\ a \in Nat /\ b \in Nat /\ d \in Nat /\ b2 \in Nat /\ d2 \in Nat
          /\ b2 + d2 = b + d /\ a + b + d = ResponseSize(cmd.op)
      BY <1>1, <1>2, <2>2, <2>3, <2>5, LenProperties, Zenon
    <3>2. PieceOf(wire[Server], Response(cmd), a) /\ PieceOf(out[Server], Response(cmd), a + b)
      BY <1>1, <2>3, <2>5
    <3>3. PieceOf(wire'[Server], Response(cmd), a) /\ PieceOf(out'[Server], Response(cmd), a + b2)
      BY <1>3, <2>2, <3>1, <3>2, Zenon
    <3>4. a + b2 + d2 = ResponseSize(cmd.op)
      <4> HIDE DEF a, b, d, b2, d2
      <4> QED
        BY <3>1
    <3>5. PieceOf(Answered, Response(cmd), 0)
      BY <1>1, <2>5
    <3> QED
      BY <1>4, <2>1, <2>3, <2>4, <2>5, <3>3, <3>4, <3>5 DEF ToClientInv
  <2> QED
    BY <1>4, <2>3, <2>5 DEF ToClientInv
<1> QED
  BY <1>5, <1>6, <1>7, <1>8

(* Whoever steps, what is on its way to the client is of its response. *)
LEMMA ToClientStep ==
    ASSUME SessionInv, [SessionNext]_sessionVars
    PROVE  ToClientInv'
<1>1. CASE UNCHANGED sessionVars
  BY <1>1, ToClientKept DEF sessionVars, streamVars, clientVars, serverVars, ServerGone
<1> QED
  BY <1>1, ToClientByClient, ToClientByServer DEF SessionNext, ClientStep, ServerStep

-----------------------------------------------------------------------------
(* Types, and buffers that hold what they must.                            *)

(* Each operation of the stream keeps its types, and the wires hold no     *)
(* more than their capacity.                                               *)
LEMMA StreamStep ==
    ASSUME SessionInv, NEW e \in Ends,
           \/ SendSome(e) \/ (\E to_read \in Nat : ReceiveSome(e, to_read))
           \/ (\E m \in Seq(Words) : Sending(e, m)) \/ Receiving(e) \/ Close(e)
           \/ UNCHANGED streamVars
    PROVE  StreamTypeOK(Words)'
<1>1. /\ wire \in [Ends -> Seq(Words)] /\ open \in [Ends -> BOOLEAN]
      /\ out \in [Ends -> Seq(Words)] /\ in \in [Ends -> Seq(Words)]
      /\ \A x \in Ends : Len(wire[x]) <= Capacity
  BY DEF SessionInv, SessionTypeOK, StreamTypeOK
<1>2. CASE SendSome(e)
  <2>1. /\ UNCHANGED <<open, in>> /\ Len(wire'[e]) <= Capacity
        /\ wire' = [wire EXCEPT ![e] = wire'[e]] /\ wire'[e] \in Seq(Words)
        /\ out' = [out EXCEPT ![e] = out'[e]] /\ out'[e] \in Seq(Words)
    BY <1>2, SendMoves
  <2>2. wire' \in [Ends -> Seq(Words)] /\ out' \in [Ends -> Seq(Words)]
    BY <1>1, <2>1, Zenon
  <2>3. \A x \in Ends : Len(wire'[x]) <= Capacity
    BY <1>1, <2>1
  <2> QED
    BY <1>1, <2>1, <2>2, <2>3 DEF StreamTypeOK
<1>3. CASE \E to_read \in Nat : ReceiveSome(e, to_read)
  <2> DEFINE p == Peer(e)
  <2>1. PICK to_read \in Nat : ReceiveSome(e, to_read)
    BY <1>3
  <2>2. p \in Ends
    BY DEF Peer, Ends
  <2>3. /\ UNCHANGED <<open, out>>
        /\ in' = [in EXCEPT ![e] = in'[e]] /\ in'[e] \in Seq(Words)
        /\ wire' = [wire EXCEPT ![p] = wire'[p]] /\ wire'[p] \in Seq(Words)
        /\ Len(wire'[p]) <= Len(wire[p])
    BY <2>1, ReceiveMoves
  <2> HIDE DEF p
  <2>4. wire' \in [Ends -> Seq(Words)] /\ in' \in [Ends -> Seq(Words)]
    BY <1>1, <2>2, <2>3, Zenon
  <2>5. Len(wire'[p]) <= Capacity
    <3>1. wire[p] \in Seq(Words) /\ Len(wire[p]) <= Capacity
      BY <1>1, <2>2
    <3>2. Len(wire'[p]) \in Nat /\ Len(wire[p]) \in Nat
      BY <2>3, <3>1, LenProperties, Zenon
    <3> QED
      BY <2>3, <3>1, <3>2, CapacityAssumption
  <2>6. \A x \in Ends : Len(wire'[x]) <= Capacity
    BY <1>1, <2>3, <2>5
  <2> QED
    BY <1>1, <2>3, <2>4, <2>6 DEF StreamTypeOK
<1>4. CASE \E m \in Seq(Words) : Sending(e, m)
  BY <1>1, <1>4 DEF Sending, StreamTypeOK
<1>5. CASE Receiving(e)
  BY <1>1, <1>5 DEF Receiving, StreamTypeOK
<1>6. CASE Close(e)
  BY <1>1, <1>6 DEF Close, StreamTypeOK
<1>7. CASE UNCHANGED streamVars
  BY <1>1, <1>7 DEF streamVars, StreamTypeOK
<1> QED
  BY <1>2, <1>3, <1>4, <1>5, <1>6, <1>7

(* What the handler reads next has a size. *)
LEMMA ToReadType ==
    ASSUME SessionInv, Reading
    PROVE  ToRead \in Nat
<1>1. spc = "query" => request \in RequestTypes
  BY DEF SessionInv, SessionTypeOK
<1> QED
  BY <1>1, Sizes DEF ToRead, Reading, RequestSize

(* Every step of the session is one of those operations. *)
LEMMA StreamTypeStep ==
    ASSUME SessionInv, [SessionNext]_sessionVars
    PROVE  StreamTypeOK(Words)'
<1>1. Client \in Ends /\ Server \in Ends
  BY DEF Ends
<1>2. cmd \in Commands /\ cmd' \in Commands
  BY NumbersStep DEF SessionInv, NumbersInv
<1>3. ASSUME \/ ClientSends \/ RequestSent \/ QuerySent \/ GoodbyeSent \/ ClientPipe
             \/ ClientReceives \/ ResponseRead \/ ShortResponse \/ ResponseFails
             \/ BadInput \/ EndOfInput \/ ClientKilled \/ (\E op \in Ops : Command(op))
      PROVE  StreamTypeOK(Words)'
  <2>1. ResponseSize(cmd.op) \in Nat
    BY <1>2, ResponseWords
  <2>2. /\ Request(cmd') \in Seq(Words) /\ Query(cmd) \in Seq(Words)
        /\ Goodbye \in Seq(Words)
    BY <1>2, RequestWords, QueryWords, GoodbyeWords
  <2>3. \/ SendSome(Client) \/ (\E to_read \in Nat : ReceiveSome(Client, to_read))
        \/ (\E m \in Seq(Words) : Sending(Client, m)) \/ Receiving(Client)
        \/ Close(Client) \/ UNCHANGED streamVars
    BY <1>3, <2>1, <2>2 DEF ClientSends, RequestSent, QuerySent, GoodbyeSent,
       ClientPipe, ClientReceives, ResponseRead, ShortResponse, ResponseFails, Command,
       BadInput, EndOfInput, ClientKilled
  <2> QED
    BY <1>1, <2>3, StreamStep
<1>4. ASSUME \/ ServerReceives \/ RequestRead \/ Operate \/ ServerSends
             \/ ResponseSent \/ ServerPipe \/ ReadFails \/ Interrupted \/ DaemonEnds
      PROVE  StreamTypeOK(Words)'
  <2>1. Operate => \E m \in Seq(Words) : Sending(Server, m)
    <3>1. Response(cmd) \in Seq(Words)
      BY <1>2, ResponseWords
    <3>2. Operate => Sending(Server, Response(cmd))
      BY QueryComplete DEF Operate, Sending
    <3> QED
      BY <3>1, <3>2
  <2>2. \/ SendSome(Server) \/ (\E to_read \in Nat : ReceiveSome(Server, to_read))
        \/ (\E m \in Seq(Words) : Sending(Server, m)) \/ Receiving(Server)
        \/ Close(Server)
    BY <1>4, <2>1, ToReadType DEF ServerReceives, RequestRead, ServerSends,
       ResponseSent, ServerPipe, ReadFails, Interrupted, DaemonEnds
  <2> QED
    BY <1>1, <2>2, StreamStep
<1>5. CASE UNCHANGED sessionVars
  BY <1>1, <1>5, StreamStep DEF sessionVars
<1> QED
  BY <1>3, <1>4, <1>5 DEF SessionNext, ClientStep, ServerStep

(* Neither end reads more than the message it is reading. *)
LEMMA BuffersStep ==
    ASSUME SessionInv, [SessionNext]_sessionVars
    PROVE  /\ (Reading => Len(in[Server]) <= ToRead)'
           /\ (cpc = "response" => Len(in[Client]) <= ResponseSize(cmd.op))'
<1> USE DEF clientVars, serverVars, ClientAt, ServerAt
<1>1. /\ Reading => Len(in[Server]) <= ToRead
      /\ cpc = "response" => Len(in[Client]) <= ResponseSize(cmd.op)
      /\ in \in [Ends -> Seq(Words)] /\ cmd \in Commands
      /\ Client \in Ends /\ Server \in Ends /\ Client # Server
  BY EndsAssumption DEF SessionInv, SessionTypeOK, StreamTypeOK, Ends, NumbersInv
<1>2. \A x, y : x = 0 /\ y \in Nat => x <= y
  OBVIOUS
<1>3. CASE ServerReceives
  <2>1. /\ Reading /\ ReceiveSome(Server, ToRead)
        /\ UNCHANGED <<cpc, cmd, spc, request>>
    BY <1>3 DEF ServerReceives
  <2>2. Len(in'[Server]) <= ToRead /\ in' = [in EXCEPT ![Server] = in'[Server]]
    BY <1>1, <2>1, ToReadType, ReceiveMoves
  <2>3. in'[Client] = in[Client]
    BY <1>1, <2>2
  <2>4. ToRead' = ToRead /\ ResponseSize(cmd.op)' = ResponseSize(cmd.op)
    BY <2>1 DEF ToRead, ResponseSize, QuerySize
  <2> QED
    BY <1>1, <2>1, <2>2, <2>3, <2>4 DEF Reading
<1>4. CASE RequestRead \/ ResponseSent
  <2>1. /\ UNCHANGED <<cpc, cmd>> /\ in'[Client] = in[Client]
    BY <1>1, <1>4 DEF RequestRead, ResponseSent, Receiving, Close
  <2>2. Reading' => in'[Server] = <<>> /\ ToRead' \in Nat
    <3>1. CASE ResponseSent
      BY <1>1, <3>1 DEF ResponseSent, Receiving, ToRead, RequestSize
    <3>2. CASE RequestRead
      <4>1. CASE ServerAt("closed")
        BY <4>1 DEF Reading
      <4>2. CASE Receiving(Server) /\ spc' = "query" /\ request' = cmd.op /\ cmd.op \in Ops
        <5>1. cmd.op \in RequestTypes /\ QuerySize(cmd.op) \in Nat
          BY <4>2, Sizes DEF RequestTypes
        <5>2. ToRead' = QuerySize(cmd.op)
          BY <4>2 DEF ToRead, QuerySize
        <5> QED
          BY <1>1, <4>2, <5>1, <5>2 DEF Receiving
      <4> QED
        BY <3>2, <4>1, <4>2, RequestComplete
    <3> QED
      BY <1>4, <3>1, <3>2
  <2>3. Reading' => Len(in'[Server]) <= ToRead'
    BY <1>2, <2>2
  <2>4. ResponseSize(cmd.op)' = ResponseSize(cmd.op)
    BY <2>1 DEF ResponseSize
  <2> QED
    BY <1>1, <2>1, <2>3, <2>4
<1>5. CASE \/ Operate \/ ServerSends \/ ServerPipe \/ ReadFails \/ Interrupted
           \/ DaemonEnds
  <2>1. UNCHANGED <<in, cpc, cmd>> /\ ~Reading'
    BY <1>5 DEF Operate, ServerSends, ServerPipe, ReadFails, Interrupted, DaemonEnds,
       Sending, SendSome, Close, Reading
  <2> QED
    BY <1>1, <2>1 DEF ResponseSize
<1>6. ASSUME \/ ClientSends \/ RequestSent \/ QuerySent \/ GoodbyeSent \/ ClientPipe
             \/ ClientReceives \/ ResponseRead \/ ShortResponse \/ ResponseFails
             \/ BadInput \/ EndOfInput \/ ClientKilled \/ (\E op \in Ops : Command(op))
      PROVE  /\ (Reading => Len(in[Server]) <= ToRead)'
             /\ (cpc = "response" => Len(in[Client]) <= ResponseSize(cmd.op))'
  <2>1. UNCHANGED <<spc, request>>
    BY <1>6 DEF ClientSends, RequestSent, QuerySent, GoodbyeSent, ClientPipe,
       ClientReceives, ResponseRead, ShortResponse, ResponseFails, BadInput,
       EndOfInput, ClientKilled, Command
  <2>2. CASE QuerySent
    <3>1. in' = [in EXCEPT ![Client] = <<>>] /\ UNCHANGED cmd
      BY <2>2 DEF QuerySent, Receiving
    <3>2. in'[Client] = <<>> /\ in'[Server] = in[Server]
      BY <1>1, <3>1
    <3>3. ResponseSize(cmd'.op) \in Nat
      BY <1>1, <3>1, ResponseWords
    <3>4. Len(in'[Client]) <= ResponseSize(cmd'.op)
      BY <1>2, <3>2, <3>3
    <3> QED
      BY <1>1, <2>1, <3>2, <3>4 DEF Reading, ToRead, QuerySize
  <2>3. CASE ClientReceives
    <3>1. ReceiveSome(Client, ResponseSize(cmd.op)) /\ UNCHANGED cmd
      BY <2>3 DEF ClientReceives
    <3>2. ResponseSize(cmd.op) \in Nat
      BY <1>1, ResponseWords
    <3>3. /\ Len(in'[Client]) <= ResponseSize(cmd.op)
          /\ in' = [in EXCEPT ![Client] = in'[Client]]
      BY <1>1, <3>1, <3>2, ReceiveMoves
    <3>4. in'[Server] = in[Server] /\ ResponseSize(cmd'.op) = ResponseSize(cmd.op)
      BY <1>1, <3>1, <3>3
    <3> QED
      BY <1>1, <2>1, <3>3, <3>4 DEF Reading, ToRead, QuerySize
  <2>4. ASSUME \/ ClientSends \/ RequestSent \/ GoodbyeSent \/ ClientPipe
               \/ ResponseRead \/ ShortResponse \/ ResponseFails
               \/ BadInput \/ EndOfInput \/ ClientKilled \/ (\E op \in Ops : Command(op))
        PROVE  in' = in /\ cpc' # "response"
    BY <2>4 DEF ClientSends, RequestSent, GoodbyeSent, ClientPipe, ResponseRead,
       ShortResponse, ResponseFails, BadInput, EndOfInput, ClientKilled, Command,
       SendSome, Sending, Close, streamVars, ClientSending
  <2>5. ASSUME in' = in, cpc' # "response"
        PROVE  /\ (Reading => Len(in[Server]) <= ToRead)'
               /\ (cpc = "response" => Len(in[Client]) <= ResponseSize(cmd.op))'
    BY <1>1, <2>1, <2>5 DEF Reading, ToRead, QuerySize
  <2> QED
    BY <1>6, <2>2, <2>3, <2>4, <2>5
<1>7. CASE UNCHANGED sessionVars
  BY <1>1, <1>7 DEF sessionVars, streamVars, Reading, ToRead, QuerySize, ResponseSize
<1> QED
  BY <1>3, <1>4, <1>5, <1>6, <1>7 DEF SessionNext, ClientStep, ServerStep

(* The types of everything. *)
LEMMA SessionTypeStep ==
    ASSUME SessionInv, [SessionNext]_sessionVars
    PROVE  SessionTypeOK'
<1> USE DEF clientVars, serverVars, ClientAt, ServerAt
<1>1. /\ cpc \in {"prompt", "request", "query", "response", "goodbye", "closed",
                  "killed"}
      /\ spc \in {"request", "query", "send", "closed", "killed"}
      /\ request \in RequestTypes
  BY DEF SessionInv, SessionTypeOK
<1>2. {cmd, told, performed}' \subseteq Commands \cup {Garbled}
  BY NumbersStep DEF NumbersInv
<1>3. cpc' \in {"prompt", "request", "query", "response", "goodbye", "closed", "killed"}
  BY <1>1 DEF SessionNext, ClientStep, ServerStep, sessionVars,
     ClientSends, RequestSent, QuerySent, GoodbyeSent, ClientPipe,
     ClientReceives, ResponseRead, ShortResponse, ResponseFails, Command, BadInput,
     EndOfInput, ClientKilled, ServerReceives, RequestRead, Operate, ServerSends,
     ResponseSent, ServerPipe, ReadFails, Interrupted, DaemonEnds
<1>4. /\ spc' \in {"request", "query", "send", "closed", "killed"}
      /\ request' \in RequestTypes
  BY <1>1 DEF SessionNext, ClientStep, ServerStep, sessionVars,
     ClientSends, RequestSent, QuerySent, GoodbyeSent, ClientPipe,
     ClientReceives, ResponseRead, ShortResponse, ResponseFails, Command, BadInput,
     EndOfInput, ClientKilled, ServerReceives, RequestRead, Operate, ServerSends,
     ResponseSent, ServerPipe, ReadFails, Interrupted, DaemonEnds
<1> QED
  BY <1>2, <1>3, <1>4, StreamTypeStep, BuffersStep DEF SessionTypeOK

(* A session begins with nothing on its way. *)
LEMMA SessionInitInv ==
    ASSUME SessionInit
    PROVE  SessionInv
<1> USE DEF SessionInit, StreamInit
<1>1. /\ Client \in Ends /\ Server \in Ends /\ Client # Server
      /\ NoCommand \in Commands /\ <<>> \in Seq(Words) /\ Len(<<>>) = 0
  BY EndsAssumption DEF Ends, Commands
<1>2. /\ wire[Client] = <<>> /\ wire[Server] = <<>> /\ out[Client] = <<>>
      /\ out[Server] = <<>> /\ in[Client] = <<>> /\ in[Server] = <<>>
      /\ open[Client] /\ open[Server]
  BY <1>1
<1>3. SessionTypeOK
  BY <1>1, <1>2, CapacityAssumption DEF SessionTypeOK, StreamTypeOK, Reading, ToRead,
     RequestSize, RequestTypes
<1>4. NumbersInv
  <2>1. NoCommand.n <= NoCommand.n
    BY DEF NoCommand
  <2> QED
    BY <1>1, <2>1 DEF NumbersInv
<1>5. ToServerInv
  <2>1. Due = Goodbye /\ Inbox = <<>>
    BY <1>2 DEF Due, Inbox
  <2>2. InFlight = 0 /\ Underway = 0
    BY <1>2, <2>1 DEF InFlight, Underway
  <2>3. PieceOf(<<>>, Goodbye, 0)
    BY GoodbyeWords, NoWords
  <2> QED
    BY <1>1, <1>2, <2>1, <2>2, <2>3 DEF ToServerInv
<1>6. ToClientInv
  BY <1>2 DEF ToClientInv
<1> QED
  BY <1>2, <1>3, <1>4, <1>5, <1>6 DEF SessionInv, ClientGone, ServerGone

(* Every word on its way, in either direction, is accounted for by the     *)
(* latest command, however the sockets split and join the messages of      *)
(* streamsock_send and streamsock_read and whichever program ends.         *)
THEOREM SessionInvariance == SessionSpec => []SessionInv
<1>1. SessionInit => SessionInv
  BY SessionInitInv
<1>2. SessionInv /\ [SessionNext]_sessionVars => SessionInv'
  <2> SUFFICES ASSUME SessionInv, [SessionNext]_sessionVars
               PROVE  SessionInv'
    OBVIOUS
  <2> QED
    BY SessionTypeStep, OpenStep, NumbersStep, ToServerStep, ToClientStep DEF SessionInv
<1> QED
  BY <1>1, <1>2, PTL DEF SessionSpec

(* The variables have their types, no socket holds more than its capacity  *)
(* and no end reads past the message it is reading.                        *)
THEOREM SessionTypeCorrect == SessionSpec => []SessionTypeOK
<1>1. SessionInv => SessionTypeOK
  BY DEF SessionInv
<1> QED
  BY <1>1, SessionInvariance, PTL

(* The two programs agree where one message ends and the next begins.      *)
THEOREM EndsInStep == SessionSpec => []InStep
<1>1. ASSUME SessionInv
      PROVE  InStep
  <2>1. cmd \in Commands /\ in[Server] \in Seq(Words)
    BY <1>1, StreamTypes DEF SessionInv, NumbersInv, Ends
  <2>2. ASSUME spc = "request"
        PROVE  in[Server] \in {<<>>, Goodbye, Request(cmd)}
    <3>1. Len(in[Server]) <= 1 /\ PieceOf(in[Server], Due, 0)
      BY <1>1, <2>2 DEF SessionInv, SessionTypeOK, Reading, ToRead, RequestSize,
         ToServerInv, ServerGone, Inbox
    <3>2. CASE Len(in[Server]) = 0
      BY <2>1, <3>2, EmptySeq
    <3>3. CASE Len(in[Server]) = 1
      <4>1. /\ Request(cmd) \in Seq(Words) /\ Len(Request(cmd)) = 1
            /\ Goodbye \in Seq(Words) /\ Len(Goodbye) = 1
        BY <2>1, RequestWords, GoodbyeWords
      <4>2. in[Server][1] = Due[1]
        BY <3>1, <3>3 DEF PieceOf
      <4>3. Due[1] = Goodbye[1] \/ Due[1] = Request(cmd)[1]
        BY <2>1, <2>2, TurnWords DEF Due
      <4>4. \A m \in Seq(Words) : Len(m) = 1 /\ in[Server][1] = m[1] => in[Server] = m
        BY <2>1, <3>3
      <4> QED
        BY <4>1, <4>2, <4>3, <4>4
    <3>4. Len(in[Server]) = 0 \/ Len(in[Server]) = 1
      <4>1. Len(in[Server]) \in Nat
        BY <2>1, LenProperties, Zenon
      <4> DEFINE n == Len(in[Server])
      <4>2. n \in Nat /\ n <= 1
        BY <3>1, <4>1
      <4> HIDE DEF n
      <4>3. n = 0 \/ n = 1
        BY <4>2
      <4> QED
        BY <4>3 DEF n
    <3> QED
      BY <3>2, <3>3, <3>4
  <2>3. ASSUME spc = "query"
        PROVE  request = cmd.op /\ PieceOf(in[Server], Query(cmd), 0)
    BY <1>1, <2>3 DEF SessionInv, ToServerInv, ServerGone, Inbox, Due
  <2>4. spc = "send" /\ ~Sent(Server) => performed = cmd
    BY <1>1 DEF SessionInv, ToServerInv, ServerGone, Sent
  <2>5. cpc = "response" => PieceOf(in[Client], Response(cmd), 0)
    BY <1>1 DEF SessionInv, ToClientInv, Answered
  <2> QED
    BY <2>2, <2>3, <2>4, <2>5 DEF InStep
<1> QED
  BY <1>1, SessionInvariance, PTL

(* A session implements Exchange: PAController's commands are performed at *)
(* most once, in their order, and a command it takes for answered was      *)
(* performed and answered.                                                 *)
THEOREM SessionExchanges == SessionSpec => ImplementsExchange
<1> USE DEF AtMostOnce!exchangeVars, clientVars, serverVars, ClientAt, ServerAt
<1>1. SessionInit => AtMostOnce!Init
  BY DEF SessionInit, AtMostOnce!Init
<1>2. ASSUME SessionInv, [SessionNext]_sessionVars
      PROVE  [AtMostOnce!Next]_AtMostOnce!exchangeVars
  <2>1. ASSUME NEW op \in Ops, Command(op)
        PROVE  AtMostOnce!Issue
    BY <2>1 DEF Command, AtMostOnce!Issue
  <2>2. CASE Operate
    <3>1. performed # cmd /\ performed' = cmd
      BY <1>2, <2>2, QueryComplete
    <3>2. UNCHANGED <<cmd, told>>
      BY <2>2 DEF Operate
    <3> QED
      BY <3>1, <3>2 DEF AtMostOnce!Perform, AtMostOnce!Next
  <2>3. CASE ResponseRead
    <3>1. performed = cmd /\ told # cmd /\ told' = cmd
      BY <1>2, <2>3, ResponseComplete
    <3>2. UNCHANGED <<cmd, performed>>
      BY <2>3 DEF ResponseRead
    <3> QED
      BY <3>1, <3>2 DEF AtMostOnce!Acknowledge, AtMostOnce!Next
  <2>4. ASSUME \/ ClientSends \/ RequestSent \/ QuerySent \/ GoodbyeSent \/ ClientPipe
               \/ ClientReceives \/ ShortResponse \/ ResponseFails \/ BadInput
               \/ EndOfInput \/ ClientKilled \/ ServerReceives \/ RequestRead
               \/ ServerSends \/ ResponseSent \/ ServerPipe \/ ReadFails
               \/ Interrupted \/ DaemonEnds \/ UNCHANGED sessionVars
        PROVE  UNCHANGED <<cmd, performed, told>>
    BY <2>4 DEF ClientSends, RequestSent, QuerySent, GoodbyeSent, ClientPipe,
       ClientReceives, ShortResponse, ResponseFails, BadInput, EndOfInput,
       ClientKilled, ServerReceives, RequestRead, ServerSends, ResponseSent,
       ServerPipe, ReadFails, Interrupted, DaemonEnds, sessionVars
  <2> QED
    BY <1>2, <2>1, <2>2, <2>3, <2>4 DEF SessionNext, ClientStep, ServerStep,
       AtMostOnce!Next
<1> QED
  BY <1>1, <1>2, SessionInvariance, PTL DEF SessionSpec, ImplementsExchange,
     AtMostOnce!Spec
=============================================================================

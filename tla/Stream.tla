-------------------------------- MODULE Stream --------------------------------
(***************************************************************************)
(* A connected pair of stream sockets, and the loops of streamsock_send    *)
(* and streamsock_read at its two ends.  The kernel moves any part of what *)
(* is asked in one call, so a message may arrive in pieces and two         *)
(* messages may arrive together.  The unit is a word of four bytes, the    *)
(* size that divides all messages of protocol.h.                           *)
(***************************************************************************)
EXTENDS Integers, Sequences

CONSTANTS
    Client, Server,   \* the two ends
    Capacity          \* words in flight in one direction

ASSUME EndsAssumption == Client # Server
ASSUME CapacityAssumption == Capacity \in Nat \ {0}

VARIABLES
    wire,    \* wire[e]: the words end e sent and its peer has not received
    open,    \* open[e]: e has not closed its socket
    out,     \* out[e]: the rest of the message streamsock_send is sending
    in       \* in[e]: the part of the message streamsock_read has

streamVars == <<wire, open, out, in>>

Ends == {Client, Server}
Peer(e) == IF e = Client THEN Server ELSE Client

StreamTypeOK(Words) ==
    /\ wire \in [Ends -> Seq(Words)]
    /\ open \in [Ends -> BOOLEAN]
    /\ out \in [Ends -> Seq(Words)]
    /\ in \in [Ends -> Seq(Words)]
    /\ \A e \in Ends : Len(wire[e]) <= Capacity

StreamInit ==
    /\ wire = [e \in Ends |-> <<>>]
    /\ open = [e \in Ends |-> TRUE]
    /\ out = [e \in Ends |-> <<>>]
    /\ in = [e \in Ends |-> <<>>]

(* A variant: remaining goes down but buf_offset stays. *)
SendSomeRepeats(e) ==
    /\ open[Peer(e)]
    /\ \E n \in 1..Len(out[e]) :
         /\ Len(wire[e]) + n <= Capacity
         /\ wire' = [wire EXCEPT ![e] = @ \o SubSeq(out[e], 1, n)]
         /\ out' = [out EXCEPT ![e] = SubSeq(@, 1, Len(@) - n)]
    /\ UNCHANGED <<open, in>>

(* One turn of the loop of streamsock_send. *)
SendSome(e) ==
    /\ open[Peer(e)]
    /\ \E n \in 1..Len(out[e]) :
         /\ Len(wire[e]) + n <= Capacity
         /\ wire' = [wire EXCEPT ![e] = @ \o SubSeq(out[e], 1, n)]
         /\ out' = [out EXCEPT ![e] = SubSeq(@, n + 1, Len(@))]
    /\ UNCHANGED <<open, in>>

Sent(e) == out[e] = <<>>

(* send to a closed peer: SIGPIPE, which neither program handles. *)
BrokenPipe(e) == ~Sent(e) /\ ~open[Peer(e)]

(* A variant: recv is not limited to what remains of the message. *)
ReceiveSomeTooMuch(e, to_read) ==
    /\ Len(in[e]) < to_read
    /\ \E n \in 1..Len(wire[Peer(e)]) :
         /\ in' = [in EXCEPT ![e] = @ \o SubSeq(wire[Peer(e)], 1, n)]
         /\ wire' = [wire EXCEPT ![Peer(e)] = SubSeq(@, n + 1, Len(@))]
    /\ UNCHANGED <<open, out>>

(* One turn of the loop of streamsock_read that receives something. *)
ReceiveSome(e, to_read) ==
    /\ \E n \in 1..Len(wire[Peer(e)]) :
         /\ Len(in[e]) + n <= to_read
         /\ in' = [in EXCEPT ![e] = @ \o SubSeq(wire[Peer(e)], 1, n)]
         /\ wire' = [wire EXCEPT ![Peer(e)] = SubSeq(@, n + 1, Len(@))]
    /\ UNCHANGED <<open, out>>

Received(e, to_read) == Len(in[e]) = to_read

(* recv finds nothing and the peer closed: it returns 0, or ECONNRESET if  *)
(* the peer left words unread.                                             *)
PeerEnded(e, to_read) ==
    Len(in[e]) < to_read /\ wire[Peer(e)] = <<>> /\ ~open[Peer(e)]

OrderlyShutdown(e, to_read) == PeerEnded(e, to_read) /\ wire[e] = <<>>
ConnectionReset(e, to_read) == PeerEnded(e, to_read) /\ wire[e] # <<>>

(* The next message to send, and to receive. *)
Sending(e, message) == out' = [out EXCEPT ![e] = message] /\ UNCHANGED <<wire, open, in>>
Receiving(e) == in' = [in EXCEPT ![e] = <<>>] /\ UNCHANGED <<wire, open, out>>

Close(e) == open' = [open EXCEPT ![e] = FALSE] /\ UNCHANGED <<wire, out, in>>
=============================================================================

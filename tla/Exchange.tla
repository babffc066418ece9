------------------------------- MODULE Exchange -------------------------------
(***************************************************************************)
(* What a session promises: commands are performed one at a time, each at  *)
(* most once and never after the client went on to its next one, and an    *)
(* answer the client takes is the answer to its latest command, which was  *)
(* performed.                                                              *)
(***************************************************************************)
EXTENDS Integers

CONSTANTS
    Ops,          \* the types of commands
    NoCommand     \* with the field n = 0; a command is numbered from 1

VARIABLES
    call,    \* the client's latest command
    done,    \* the command performed last
    told     \* the command whose answer the client took last

exchangeVars == <<call, done, told>>

Init == call = NoCommand /\ done = NoCommand /\ told = NoCommand

Issue ==
    /\ \E op \in Ops : call' = [op |-> op, n |-> call.n + 1]
    /\ UNCHANGED <<done, told>>

Perform ==
    /\ done # call
    /\ done' = call
    /\ UNCHANGED <<call, told>>

Acknowledge ==
    /\ told # call /\ done = call
    /\ told' = call
    /\ UNCHANGED <<call, done>>

Next == Issue \/ Perform \/ Acknowledge

Spec == Init /\ [][Next]_exchangeVars
=============================================================================

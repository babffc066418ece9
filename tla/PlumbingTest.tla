----------------------------- MODULE PlumbingTest -----------------------------
(***************************************************************************)
(* cinder_ptest.c: a prompt that takes a command, asks for the arguments   *)
(* of a system call one by one, makes the call and prints what it          *)
(* returned.  (PAController calls its own copies of three of the handlers, *)
(* for list, put and info, in its util.c.)                                 *)
(*                                                                         *)
(* What the user types is a line for the question asked; an answer is      *)
(* known by the question it was typed for.  fgets takes no more of a line  *)
(* than its buffer holds and leaves the rest to the next fgets, whatever   *)
(* that one asks for.                                                      *)
(***************************************************************************)
EXTENDS Integers, Sequences

CONSTANTS
    MaxListed,     \* bound: the reserves or taps a list shows
    Nothing        \* no line, no call

ASSUME MaxListedAssumption == MaxListed \in Nat

VARIABLES
    shell_pc,      \* where main and its handler are
    command,       \* the handler that runs
    answers,       \* what it has read so far
    listed,        \* in a list, how many are left
    rest,          \* the rest of a line that was too long
    overflowed,    \* a line has been too long
    eof,           \* the terminal is at its end
    called         \* the system call of the last command, and its arguments

shellVars == <<shell_pc, command, answers, listed, rest, overflowed, eof, called>>

handle_create_reserve == <<"name">>
handle_create_tap == <<"name", "source reserve id", "destination reserve id">>
handle_reserve_transfer ==
    <<"source reserve id", "destination reserve id", "amount", "fail if insufficient">>
handle_info_reserve == <<"reserve id">>
handle_reserve_level == <<"reserve id">>
handle_tap_set_rate == <<"tap id", "rate type", "rate value">>
handle_expose_reserve == <<"reserve id", "target pid", "draw", "modify">>
handle_put_reserve == <<"reserve id">>
handle_info_tap == <<"tap id">>
handle_delete_tap == <<"tap id">>

(* What the handler of each command that makes a call asks for. *)
Questions ==
    [cr |-> handle_create_reserve, pr |-> handle_put_reserve,
     ir |-> handle_info_reserve, rl |-> handle_reserve_level,
     er |-> handle_expose_reserve, rt |-> handle_reserve_transfer,
     ct |-> handle_create_tap, dt |-> handle_delete_tap,
     tr |-> handle_tap_set_rate, it |-> handle_info_tap]

Lists == {"lr", "lt"}
Commands == DOMAIN Questions \cup Lists

(* The line typed for question i of a command.                             *)
Line(c, i) == [command |-> c, question |-> i]
CommandLine == Line("none", 0)

ShellTypeOK ==
    LET lines == [command : Commands \cup {"none"}, question : 0..4]
    IN  /\ shell_pc \in {"command", "question", "list", "listing", "exited"}
        /\ command \in Commands \cup {"none"}
        /\ answers \in Seq(lines) /\ Len(answers) < 4
        /\ listed \in 0..MaxListed
        /\ rest \in lines \cup {Nothing}
        /\ {overflowed, eof} \subseteq BOOLEAN

Idle == command = "none" /\ answers = <<>> /\ listed = 0 /\ rest = Nothing
        /\ overflowed = FALSE /\ eof = FALSE /\ called = Nothing

ShellInit == shell_pc = "command" /\ Idle
ShellOff == shell_pc = "exited" /\ Idle

(* A variant: the answers stay for the next command. *)
BackToPromptKeeps ==
    shell_pc' = "command" /\ command' = "none" /\ listed' = 0 /\ UNCHANGED answers

BackToPrompt ==
    shell_pc' = "command" /\ command' = "none" /\ answers' = <<>> /\ listed' = 0
-----------------------------------------------------------------------------
(* What fgets returns: what is left of the last line, or else a new line. *)
Text(new) == IF rest = Nothing THEN new ELSE rest

(* It may leave some of it. *)
Gets(new) ==
    /\ ~eof
    /\ \E fits \in BOOLEAN : /\ rest' = IF fits THEN Nothing ELSE Text(new)
                             /\ overflowed' = (overflowed \/ ~fits)
    /\ UNCHANGED eof

GetsNothing == rest = Nothing /\ eof' = TRUE /\ UNCHANGED <<rest, overflowed>>

(* The loop of main.  The rest of a long line is a command like any other  *)
(* if it reads like one.                                                   *)
TakeCommand(c) ==
    /\ shell_pc = "command"
    /\ Gets(CommandLine)
    /\ command' = c
    /\ shell_pc' = IF c \in Lists THEN "list" ELSE "question"
    /\ called' = Nothing
    /\ UNCHANGED <<answers, listed>>

(* No command, or one that only prints. *)
InvalidInput ==
    /\ shell_pc = "command"
    /\ Gets(CommandLine)
    /\ UNCHANGED <<shell_pc, command, answers, listed, called>>

(* A variant: the end of the input is taken for an invalid command. *)
QuitForgets ==
    /\ shell_pc = "command"
    /\ GetsNothing
    /\ UNCHANGED <<shell_pc, command, answers, listed, called>>

Quit ==
    /\ shell_pc = "command"
    /\ GetsNothing
    /\ shell_pc' = "exited"
    /\ UNCHANGED <<command, answers, listed, called>>

(* The last answer is followed by the system call. *)
Answer ==
    LET asked == Line(command, Len(answers) + 1)
        given == Append(answers, Text(asked))
    IN  /\ shell_pc = "question"
        /\ Gets(asked)
        /\ IF Len(given) < Len(Questions[command])
             THEN answers' = given /\ UNCHANGED <<shell_pc, command, listed, called>>
             ELSE called' = [command |-> command, arguments |-> given] /\ BackToPrompt

(* A variant: the call is made with what there is. *)
NoAnswerCalls ==
    /\ shell_pc = "question"
    /\ GetsNothing
    /\ called' = [command |-> command, arguments |-> answers]
    /\ BackToPrompt

(* "Error reading ...": the handler returns -EINVAL without a call. *)
NoAnswer ==
    /\ shell_pc = "question"
    /\ GetsNothing
    /\ BackToPrompt
    /\ UNCHANGED called

(* num_reserves, num_taps; get_reserve, get_tap for each index, which may  *)
(* fail, and then the list goes on.                                        *)
ListFrame == UNCHANGED <<answers, rest, overflowed, eof, called>>

CountListed ==
    /\ shell_pc = "list" /\ shell_pc' = "listing"
    /\ listed' \in 0..MaxListed
    /\ ListFrame /\ UNCHANGED command

ListOne ==
    /\ shell_pc = "listing" /\ listed > 0
    /\ listed' = listed - 1
    /\ ListFrame /\ UNCHANGED <<shell_pc, command>>

ListEnds ==
    /\ shell_pc = "list" \/ (shell_pc = "listing" /\ listed = 0)
    /\ BackToPrompt
    /\ UNCHANGED <<rest, overflowed, eof, called>>

ShellReads ==
    \/ (\E c \in Commands : TakeCommand(c)) \/ InvalidInput \/ Answer

ShellStep ==
    \/ ShellReads \/ Quit \/ NoAnswer
    \/ CountListed \/ ListOne \/ ListEnds
-----------------------------------------------------------------------------
(* A system call gets, for each of its arguments, what was typed for the   *)
(* question about that argument, unless a line was longer than its buffer: *)
(* the rest of a long line becomes the next answers, and a tap or transfer *)
(* names a reserve nobody typed.                                           *)
CallsAsTyped ==
    called # Nothing /\ ~overflowed =>
      called.arguments = [i \in DOMAIN Questions[called.command] |-> Line(called.command, i)]

(* The end of the input ends the program, in the middle of a dialogue too. *)
EndOfInputQuits == eof ~> shell_pc = "exited"
-----------------------------------------------------------------------------
(* What makes CallsAsTyped inductive: the answers so far are those to the  *)
(* first questions of the command, and fewer than it asks for.             *)
AsTyped ==
    /\ shell_pc = "command" => answers = <<>>
    /\ shell_pc = "question" =>
         command \in DOMAIN Questions /\ Len(answers) < Len(Questions[command])
    /\ ~overflowed =>
         rest = Nothing /\ \A i \in 1..Len(answers) : answers[i] = Line(command, i)
=============================================================================

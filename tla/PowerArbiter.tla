----------------------------- MODULE PowerArbiter -----------------------------
(***************************************************************************)
(* The whole daemon: main.c and init.c around the handlers and the reaper  *)
(* of Controller.  Sessions come and go, SIGTERM starts the shutdown of    *)
(* powerArbiterDestroy, and the receiver and the reaper run their loops.   *)
(*                                                                         *)
(* powerArbiterDestroy empties the hash without its lock, with a loop that *)
(* reads the next record before a turn and keeps it over the turn.  A step *)
(* that unhooks a record which is not in the hash any more, or that works  *)
(* on the containers while another thread does, ends the run in            *)
(* "corrupted": the hash and the list are then no function and no sequence *)
(* any more.  (That their pointers are sound up to there is shown of       *)
(* Containers.)  The use of the freed context and the destruction of a     *)
(* destroyed lock may end the run in "crashed".                            *)
(***************************************************************************)
EXTENDS Controller

VARIABLES
    daemon,              \* the process: running, or how it ended
    term,                \* SIGTERM was delivered (once)
    main_pc,             \* where main is
    receiver_pc,         \* where receiver_thread_loop is
    reaper_pc,           \* where reaper_thread_loop is
    should_quit,         \* its local variable should_quit
    iter_record,         \* record and tmp of reserveDataDBEmpty
    iter_tmp,
    session,             \* the connection of each client
    active,              \* progctx->active
    num_users,           \* progctx->num_users
    reaper_should_exit,  \* progctx->reaper_should_exit
    reaper_exited,       \* progctx->reaper_thread_exited was posted
    listening            \* the listening socket is open

iterVars == <<iter_record, iter_tmp>>
loopVars == <<main_pc, receiver_pc, reaper_pc, should_quit, iterVars>>
contextVars ==
    <<active, num_users, reaper_should_exit, reaper_exited, listening>>
arbiterVars == <<daemon, term, session, loopVars, contextVars>>
controllerVars == vars
allVars == <<controllerVars, arbiterVars>>

ArbiterTypeOK ==
    /\ TypeOK
    /\ daemon \in {"running", "exited", "aborted", "crashed", "corrupted", "killed"}
    /\ main_pc \in {"sigterm", "inactive", "dispose", "clients", "empty", "turn",
                    "signal", "reaper", "destroy", "freed"}
    /\ iter_record \in Records \cup {NULL}
    /\ iter_tmp \in Records \cup {NULL}
    /\ receiver_pc \in {"check", "accept", "returned"}
    /\ reaper_pc \in {"check", "clear", "decide", "exited"}
    /\ session \in [Clients -> {"none", "pending", "open", "gone"}]
    /\ num_users \in Nat
    /\ {term, should_quit, active, reaper_should_exit, reaper_exited,
        listening} \subseteq BOOLEAN

(* powerArbiterInitialize succeeded and main created both threads. *)
ArbiterInit ==
    /\ Init
    /\ daemon = "running"
    /\ term = FALSE
    /\ main_pc = "sigterm"
    /\ receiver_pc = "check"
    /\ reaper_pc = "check"
    /\ should_quit = FALSE
    /\ iter_record = NULL /\ iter_tmp = NULL
    /\ session = [c \in Clients |-> "none"]
    /\ active = TRUE
    /\ num_users = 0
    /\ reaper_should_exit = FALSE
    /\ reaper_exited = FALSE
    /\ listening = TRUE

Ends(outcome) ==
    /\ daemon' = outcome
    /\ UNCHANGED <<controllerVars, term, session, loopVars, contextVars>>
-----------------------------------------------------------------------------
(* Sessions. *)

Session(c, state) == session' = [session EXCEPT ![c] = state]

Connect(c) ==
    /\ session[c] = "none" /\ pc[c] = "idle"
    /\ listening
    /\ Session(c, "pending")
    /\ UNCHANGED <<controllerVars, daemon, term, loopVars, contextVars>>

Disconnect(c) ==
    /\ session[c] = "open"
    /\ Session(c, "gone")
    /\ UNCHANGED <<controllerVars, daemon, term, loopVars, contextVars>>

(* A variant: a count taken back that nobody made. *)
EndSessionUncounted(c) ==
    /\ session[c] \in {"open", "gone"} /\ pc[c] = "idle"
    /\ Session(c, "none")
    /\ num_users' = num_users - 1
    /\ UNCHANGED <<controllerVars, daemon, term, loopVars, active,
                   reaper_should_exit, reaper_exited, listening>>

(* A goodbye, a request of no known type, or a read that fails or finds    *)
(* the connection closed: the handler closes its end.                      *)
EndSession(c) ==
    /\ session[c] \in {"open", "gone"} /\ pc[c] = "idle"
    /\ Session(c, "none")
    /\ UNCHANGED <<controllerVars, daemon, term, loopVars, contextVars>>

(* The record a remove is about to unhook is not in the hash any more. *)
StaleRemove(c) == pc[c] = "remove" /\ data[req[c].uid] # ptr[c]

(* The context of the database it is about to use or is in is freed. *)
DatabaseFreed(c) == main_pc = "freed" /\ pc[c] \in LockedPcs \cup {"lock"}

Serve(c) ==
    /\ session[c] \in {"open", "gone"}
    /\ ~StaleRemove(c) /\ ~DatabaseFreed(c)
    /\ \/ session[c] = "open" /\ Receive(c)
       \/ LockDatabase(c)
       \/ (pc[c] = "respond" => session[c] = "open") /\ HandlerStep(c)
    /\ UNCHANGED arbiterVars

(* The send fails and the peer is still there: the session ends. *)
SendFails(c) ==
    /\ session[c] = "open"
    /\ Respond(c)
    /\ Session(c, "none")
    /\ UNCHANGED <<daemon, term, loopVars, contextVars>>

(* A send to a peer that is gone raises SIGPIPE, which nothing handles. *)
SendToNobody(c) ==
    /\ session[c] = "gone" /\ pc[c] = "respond"
    /\ Ends("killed")

UseGone(c) ==
    \/ StaleRemove(c) /\ Ends("corrupted")
    \/ DatabaseFreed(c) /\ Ends("crashed")

(* HASH_ADD has no memory for the table or for more buckets: uthash_fatal  *)
(* is exit(-1), with the lock held and every session open.                 *)
OutOfMemory(c) ==
    /\ pc[c] = "add"
    /\ Ends("exited")

(* The clients go on as tasks whether or not they are connected. *)
ClientTask(c) == (TaskPut(c) \/ TaskExpose(c)) /\ UNCHANGED arbiterVars
-----------------------------------------------------------------------------
(* receiver_thread_loop.  A blocked accept survives the close of the       *)
(* listening socket, and may return an error at any time.                  *)

ReceiverCheck ==
    /\ receiver_pc = "check"
    /\ IF main_pc = "freed"
         THEN Ends("crashed")
         ELSE /\ receiver_pc' = IF active THEN "accept" ELSE "returned"
              /\ UNCHANGED <<controllerVars, daemon, term, session, main_pc,
                             reaper_pc, should_quit, iterVars, contextVars>>

(* A variant: the client is counted in num_users, and stays counted. *)
AcceptCounts(c) ==
    /\ receiver_pc = "accept"
    /\ session[c] = "pending"
    /\ Session(c, "open") \/ Session(c, "none")
    /\ receiver_pc' = "check"
    /\ num_users' = 1
    /\ UNCHANGED <<controllerVars, daemon, term, main_pc, reaper_pc,
                   should_quit, iterVars, active, reaper_should_exit,
                   reaper_exited, listening>>

(* handle_remote_client either starts a handler thread or closes the       *)
(* connection.  It does not count the client in num_users.                 *)
Accept(c) ==
    /\ receiver_pc = "accept"
    /\ session[c] = "pending"
    /\ Session(c, "open") \/ Session(c, "none")
    /\ receiver_pc' = "check"
    /\ UNCHANGED <<controllerVars, daemon, term, main_pc, reaper_pc,
                   should_quit, iterVars, contextVars>>

AcceptFails ==
    /\ receiver_pc = "accept"
    /\ receiver_pc' = "check"
    /\ UNCHANGED <<controllerVars, daemon, term, session, main_pc, reaper_pc,
                   should_quit, iterVars, contextVars>>
-----------------------------------------------------------------------------
(* reaper_thread_loop. *)

(* A variant: the flag is not read. *)
ReaperCheckForgets ==
    /\ reaper_pc = "check"
    /\ reaper_pc' = "clear"
    /\ UNCHANGED <<controllerVars, daemon, term, session, main_pc, receiver_pc,
                   should_quit, iterVars, contextVars>>

ReaperCheck ==
    /\ reaper_pc = "check"
    /\ should_quit' = reaper_should_exit
    /\ reaper_pc' = "clear"
    /\ UNCHANGED <<controllerVars, daemon, term, session, main_pc, receiver_pc,
                   iterVars, contextVars>>

ReaperClear ==
    /\ reaper_pc = "clear"
    /\ ReaperThread
    /\ reaper_pc' = IF rpc = "scan" /\ rpc' = "asleep" THEN "decide" ELSE "clear"
    /\ UNCHANGED <<daemon, term, session, main_pc, receiver_pc, should_quit,
                   iterVars, contextVars>>

(* The record's lock was destroyed by an earlier pass: POSIX leaves open   *)
(* what a second destroy does, also that it goes on, as in ReaperClear.    *)
ReaperDestroysAgain ==
    /\ reaper_pc = "clear"
    /\ ReaperDestroys /\ data_lock[ReaperRecord] = NoMutex
    /\ Ends("crashed")

ReaperQuits ==
    /\ reaper_pc = "decide"
    /\ should_quit /\ (clear_err \/ is_empty)
    /\ reaper_pc' = "exited"
    /\ reaper_exited' = TRUE
    /\ UNCHANGED <<controllerVars, daemon, term, session, main_pc, receiver_pc,
                   should_quit, iterVars, active, num_users, reaper_should_exit,
                   listening>>

ReaperSleeps ==
    /\ reaper_pc = "decide"
    /\ ~(should_quit /\ (clear_err \/ is_empty))
    /\ reaper_pc' = "check"
    /\ UNCHANGED <<controllerVars, daemon, term, session, main_pc, receiver_pc,
                   should_quit, iterVars, contextVars>>
-----------------------------------------------------------------------------
(* main and powerArbiterDestroy. *)

MainFrame == UNCHANGED <<controllerVars, daemon, term, session, receiver_pc,
                         reaper_pc, should_quit, iterVars>>

(* The handler of SIGTERM posts keep_running_semaphore, without SA_RESTART: *)
(* the thread it interrupts may be a handler in recv, which then gives up. *)
SigTerm ==
    /\ ~term
    /\ term' = TRUE
    /\ \/ UNCHANGED session
       \/ \E c \in Clients : session[c] = "open" /\ pc[c] = "idle"
                               /\ Session(c, "none")
    /\ UNCHANGED <<controllerVars, daemon, loopVars, contextVars>>

MainWakes ==
    /\ main_pc = "sigterm" /\ term
    /\ main_pc' = "inactive"
    /\ MainFrame /\ UNCHANGED contextVars

SignalInactive ==
    /\ main_pc = "inactive"
    /\ active' = FALSE
    /\ main_pc' = "dispose"
    /\ MainFrame /\ UNCHANGED <<num_users, reaper_should_exit, reaper_exited,
                                listening>>

DisposeSocket ==
    /\ main_pc = "dispose"
    /\ listening' = FALSE
    /\ main_pc' = "clients"
    /\ MainFrame /\ UNCHANGED <<active, num_users, reaper_should_exit,
                                reaper_exited>>

WaitForClients ==
    /\ main_pc = "clients"
    /\ num_users = 0
    /\ main_pc' = "empty"
    /\ MainFrame /\ UNCHANGED contextVars

(* What hh.next of x is after the step: nothing behind the only record of   *)
(* the hash, some other record of it otherwise (the order of insertion is  *)
(* left open), and anything once x is not in the hash any more.            *)
FollowedBy(x, y) ==
    IF x \in Live'
    THEN y \in Live' \ {x} \/ (Live' = {x} /\ y = NULL)
    ELSE y \in Records \cup {NULL}

(* HASH_ITER moves record to x and reads the next one into tmp. *)
IterAt(x) ==
    /\ iter_record' = x
    /\ IF x = NULL
         THEN iter_tmp' = NULL /\ main_pc' = "signal"
         ELSE main_pc' = "turn" /\ \E y \in Records \cup {NULL} :
                                     FollowedBy(x, y) /\ iter_tmp' = y

EmptyFrame == UNCHANGED <<kernelVars, handlerVars, logged, reaperVars, daemon,
                          term, session, receiver_pc, reaper_pc, should_quit,
                          contextVars>>

(* reserveDataDBEmpty, which takes no lock, begins its loop at the first   *)
(* record of the hash.                                                     *)
BeginEmpty ==
    /\ main_pc = "empty"
    /\ UNCHANGED dbaseVars
    /\ \E x \in Records \cup {NULL} :
         /\ IF Live = {} THEN x = NULL ELSE x \in Live
         /\ IterAt(x)
    /\ EmptyFrame

(* A variant: list_add_tail without HASH_DEL. *)
EmptyTurnKeepsHash ==
    /\ main_pc = "turn"
    /\ iter_record \in Live
    /\ RemoveRecordKeepsHash(CHOOSE u \in Uids : data[u] = iter_record, iter_record)
    /\ IterAt(iter_tmp)
    /\ EmptyFrame

(* One turn: record leaves the hash for the dead list, and the loop goes   *)
(* on with what tmp has been since before the turn.                        *)
EmptyTurn ==
    /\ main_pc = "turn"
    /\ \E u \in Uids : /\ data[u] = iter_record
                       /\ iter_record # NULL
                       /\ RemoveRecord(u, iter_record)
    /\ IterAt(iter_tmp)
    /\ EmptyFrame

(* A handler took record out of the hash since HASH_ITER read its address: *)
(* the turn unhooks it again and puts it on the dead list again.           *)
EmptyStale ==
    /\ main_pc = "turn" /\ iter_record \notin Live
    /\ Ends("corrupted")

(* A turn while a thread that holds the lock works on the hash or the dead *)
(* list.                                                                   *)
EmptyRaces ==
    /\ main_pc = "turn"
    /\ \/ \E c \in Clients : pc[c] \in {"lookup", "add", "remove"}
       \/ rpc # "asleep"
    /\ Ends("corrupted")

SignalReaper ==
    /\ main_pc = "signal"
    /\ reaper_should_exit' = TRUE
    /\ main_pc' = "reaper"
    /\ MainFrame /\ UNCHANGED <<active, num_users, reaper_exited, listening>>

(* A variant: main does not wait. *)
WaitForNothing ==
    /\ main_pc = "reaper"
    /\ main_pc' = "destroy"
    /\ MainFrame /\ UNCHANGED contextVars

WaitForReaper ==
    /\ main_pc = "reaper"
    /\ reaper_exited
    /\ main_pc' = "destroy"
    /\ MainFrame /\ UNCHANGED contextVars

(* reserveDataDBDestroy and the disposal of the context. *)
DestroyDatabase ==
    /\ main_pc = "destroy"
    /\ IF DatabaseIsEmpty
         THEN main_pc' = "freed" /\ MainFrame /\ UNCHANGED contextVars
         ELSE Ends("aborted")

MainReturns ==
    /\ main_pc = "freed"
    /\ Ends("exited")

MainStep ==
    \/ MainWakes \/ SignalInactive \/ DisposeSocket \/ WaitForClients
    \/ BeginEmpty \/ EmptyTurn \/ EmptyStale \/ SignalReaper
    \/ WaitForReaper \/ DestroyDatabase \/ MainReturns
-----------------------------------------------------------------------------
SessionStep(c) ==
    \/ Connect(c) \/ Disconnect(c) \/ EndSession(c) \/ Serve(c) \/ SendFails(c)
    \/ SendToNobody(c) \/ UseGone(c) \/ OutOfMemory(c) \/ ClientTask(c) \/ Accept(c)

ReaperLoop ==
    ReaperCheck \/ ReaperClear \/ ReaperDestroysAgain \/ ReaperQuits \/ ReaperSleeps

ArbiterNext ==
    /\ daemon = "running"
    /\ \/ \E c \in Clients : SessionStep(c)
       \/ ReceiverCheck \/ AcceptFails
       \/ ReaperLoop
       \/ SigTerm \/ EmptyRaces \/ MainStep

ArbiterSpec == ArbiterInit /\ [][ArbiterNext]_allVars

Running(A) == daemon = "running" /\ A

HandlerRuns(c) ==
    (Serve(c) /\ HandlerStep(c)) \/ SendToNobody(c) \/ UseGone(c)

(* As in Controller, and main's thread and the reaper's loop are run. *)
ArbiterFairness ==
    /\ WF_allVars(Running(MainStep))
    /\ WF_allVars(Running(ReaperLoop))
    /\ SF_allVars(Running(ReaperClear /\ ReaperLock))
    /\ \A c \in Clients :
          /\ WF_allVars(Running(HandlerRuns(c)))
          /\ SF_allVars(Running(Serve(c) /\ LockDatabase(c)))

ArbiterFairSpec == ArbiterSpec /\ ArbiterFairness
-----------------------------------------------------------------------------
(* No handler works with a record whose lock the reaper destroyed, also    *)
(* when powerArbiterDestroy unhooks the record under it, because the       *)
(* reaper waits for the handler to leave the database.  (A run in which    *)
(* the emptying corrupts the containers ends there.)                       *)
NoDestroyedLockUsed ==
    \A c \in Clients : HasRecord(c) => data_lock[ptr[c]] # NoMutex

(* When reserveDataDBDestroy runs the reaper is gone for good, and it went *)
(* only after a pass that began when the shutdown had unhooked what there  *)
(* was in the hash.                                                        *)
ReaperGoneBeforeDestroy ==
    /\ main_pc \in {"destroy", "freed"} => reaper_pc = "exited"
    /\ should_quit => main_pc \in {"reaper", "destroy", "freed"}
    /\ reaper_pc = "exited" => should_quit /\ rpc = "asleep"

(* How far the shutdown is, and what that says of the flags and of the     *)
(* reaper.                                                                 *)
ShutdownInv ==
    /\ main_pc # "sigterm" => term
    /\ main_pc \notin {"sigterm", "inactive"} => ~active
    /\ reaper_should_exit => main_pc \in {"reaper", "destroy", "freed"}
    /\ should_quit => main_pc \in {"reaper", "destroy", "freed"}
    /\ reaper_exited => reaper_pc = "exited"
    /\ reaper_pc = "exited" => should_quit
    /\ reaper_pc # "clear" => rpc = "asleep"
    /\ main_pc \in {"destroy", "freed"} => reaper_exited

(* Until reserveDataDBEmpty runs nobody unhooks a record under a handler.  *)
HoldsUntilEmptied ==
    main_pc \in {"sigterm", "inactive", "dispose", "clients"} =>
        HandlersHoldLiveRecords

(* The invariant the proofs about the daemon rest on: what no interleaving *)
(* of the threads breaks, also while the shutdown empties the hash, up to  *)
(* the step that corrupts the containers if there is one.                  *)
ArbiterInv ==
    /\ ArbiterTypeOK
    /\ CoreInv
    /\ GrantIsValid
    /\ ShutdownInv
    /\ HoldsUntilEmptied

(* The reaper hears of SIGTERM, whatever the clients do, unless the daemon *)
(* ends or its containers are corrupted before (a reaper that walks a list *)
(* with a cycle never comes back to look).                                 *)
TermReachesReaper == term ~> (should_quit \/ daemon # "running")

(* A daemon that never stored a mapping ends after SIGTERM. *)
UnusedDaemonStops ==
    <>term /\ [](Allocated = {}) => <>(daemon # "running")

(* init.c:155 "Wait for all clients to exit", init.c:160 "After all        *)
(* clients done, empty out active list in database", dbase.c:210 "only we  *)
(* access records in dead list", we being the reaper: nobody is left to    *)
(* put the record that the loop has saved for its next turn on the dead    *)
(* list before it.                                                         *)
EmptyAfterClients == main_pc = "turn" => iter_tmp \notin Dead

(* client.c:321 "Protocol errors mean we fail fast, send no response, and  *)
(* kill the socket", and client.c:310 "Unexpected shutdown is a protocol   *)
(* error": a client that goes away costs the daemon one session.           *)
DisconnectEndsSession == daemon # "killed"
=============================================================================

# A verification of the Cinder power arbiter

Cinder is a kernel that treats energy as a resource: a task draws from
*reserves*, and *taps* move energy at a set rate from one reserve to another.
This repository is its userspace. The program that matters is **PowerArbiter**,
a daemon that keeps one reserve per uid, fed by one tap from the root reserve,
and gives clients that ask for it over a Unix socket access to a uid's
reserve. **PAController** is the command-line client that administers it.

This directory holds TLA+ models of that code, TLC configurations that check
them on small instances, and theorems about them checked by TLAPS. File names
below without a directory are in `CinderUserspace/PowerArbiter/`.

## 1. Inventory

| Part | State it keeps | Operations |
|---|---|---|
| Cinder kernel (`syscall.c` calls it) | reserves with the tasks that hold them, taps with a rate | create, put, expose, info of a reserve; create, delete, set rate of a tap |
| Reserve database (`dbase.c`, `dbase.h`) | `data` (hash from uid to record), `dead_list` (removed records), `dbase_lock`; in each record the parameters, `reserve_created`, `reserve_id`, `tap_id`, `data_lock` | create, add, remove, lookup, lock, `reserveDataDBClearUnused`, empty, destroy |
| Controller (`controller.c`) | none of its own | `statReserve`, `getTapParams`, `setTapParams`, `addReserveParamsForUID`, `removeReserveParamsForUID` |
| Sessions (`client.c`) | a handler thread and a socket for each client, the peer's pid | read a request, dispatch, respond, close |
| Life cycle (`main.c`, `init.c`) | `active`, `num_users`, `reaper_should_exit`, two semaphores, the listening socket | receiver loop, reaper loop, SIGTERM, `powerArbiterDestroy` |
| Stream sockets (`sock.c`, `../PAController/sock.c`) | none | read and send a whole message in parts |
| PAController (`../PAController/client.c`, `main.c`, `util.c`) | a connection, the reserves its task was granted | add, del, get, set, connect; list, put, info |
| Containers (`uthash.h`, `list.h`) | a table of buckets, each a doubly linked chain, and the order of insertion; a circular doubly linked list | `HASH_FIND`, `HASH_ADD`, `HASH_DELETE`, `HASH_ITER`, doubling of the table; `list_add_tail`, `list_for_each_entry_safe` |
| `../cinder_validation` | the kernel's energy: levels, taps, active reserves, child lists; each program's own variables | fork test, subdivision test, plumbing test |
| `../tools` | none | build and phone image scripts |

**How they interact.** `main` starts two threads: the receiver accepts
connections and starts a handler thread for each, and the reaper wakes every
second to look through the dead list. Handlers and the reaper share the
database under `dbase_lock`; a handler that works on a record holds its
`data_lock` too. Both call the kernel. The kernel is also called by the clients,
which are tasks: one that was granted a reserve may put it or expose it to
another task at any time, and no lock of the daemon excludes that. `main` waits
for SIGTERM and then takes the daemon down while handlers and the reaper may
still run.

**What is hard here.** A request is up to seven system calls long and any of
them may fail in the middle. The reaper decides from a user count that clients
change behind its back. A removed mapping's reserve lives on while clients
use it, so responses, removals and the reaper overlap. The reaper never takes
a record off the dead list, so it meets the same record at every pass. And the
shutdown relies on orders nobody enforces: sessions are not counted, handlers
are not joined, the database is emptied without its lock, by a loop that keeps a
record's address while handlers may remove that record. Below all that, an
element of the hash is in two lists with eight pointers to patch, and one of the two
loops of `dbase.c` deletes the element it stands on. And on the wire a message has
no frame: both ends must count the same bytes whatever the sockets do to them.

**What makes each part correct.**

* database: a record is in one place at a time; nobody works on a record the
  reaper has cleaned; removed records are cleaned in the end;
* controller: each request acts as one atomic step on a map from uids to
  parameters and a reserve; reserves are neither leaked nor put twice; the tap
  in the kernel agrees with the record;
* reaper: it takes a reserve only when nobody else holds it, and does take it then;
* sessions: each request is answered; a grant in a response is true; a client
  that misbehaves costs one session;
* life cycle: SIGTERM reaches the reaper; the database is destroyed after
  its last user; the daemon ends; the emptying leaves no record behind;
* containers: every pointer agrees with every other one and with the counts, while
  elements come and go and loops walk them; what is stored is found; and how long
  that holds when the emptying takes no lock;
* validation programs: what they measure is what the tap let through, and they end.

## 2. The modules

| Module | What it is |
|---|---|
| `CinderKernel` | the kernel as `syscall.c` shows it |
| `ReserveDatabase` | EXTENDS it: the state of `dbase.c` and the body of each of its functions as an operator |
| `Controller` | EXTENDS it: the threads (handlers, reaper) and the client tasks, step by step; the properties |
| `UidReserveMap` | abstract: what the arbiter promises, each request one atomic step |
| `ControllerRefinement` | INSTANCEs `UidReserveMap` under a refinement mapping |
| `PowerArbiter` | EXTENDS `Controller`: sessions, receiver loop, reaper loop, shutdown |
| `Stream` | a pair of stream sockets and the loops of `streamsock_read` and `streamsock_send` |
| `Session` | EXTENDS it: one session, PAController at one end, a handler thread at the other |
| `Exchange` | abstract: commands performed one at a time and at most once |
| `UtHash`, `LinkedList` | the macros of `uthash.h` and the functions of `list.h`, pointer by pointer |
| `Containers` | INSTANCEs both: the functions of `dbase.c` on the hash and the dead list |
| `RecordStore` | abstract: a function and a sequence, the form `ReserveDatabase` has them in |
| `EnergyKernel` | the kernel's energy, as the validation programs rely on it |
| `ForkTest`, `SubdivideTest` | EXTEND it: `test1_fork.c`, `test2_subdivide_thread.c` |
| `PlumbingTest` | `cinder_ptest.c` |
| `Validation` | EXTENDS the three programs: one of them on the phone |
| `Controller_proofs`, `ControllerRefinement_proofs`, `PowerArbiter_proofs`, `Session_proofs`, `Containers_proofs`, `Validation_proofs` | the theorems |
| `UtHash_proofs`, `Pointers_proofs` | the lemmas under `Containers_proofs`: the macros of `uthash.h`; doubly linked lists in general |
| `MCController`, `MCPowerArbiter`, `MCSession`, `MCContainers`, `MCValidation` | instances for TLC: parameters and symmetry |

The chain of abstraction for the daemon: `Containers` implements `RecordStore`,
and `Controller` uses `data` and `dead_list` only as `RecordStore` allows; on that
`Controller` implements `UidReserveMap`; `PowerArbiter` runs `Controller` inside sessions
and a shutdown, and does the same until a step of the emptying without the lock corrupts
the containers; `Session` opens up what one session is on the wire.

### CinderKernel

`users[r]` is the set of tasks that hold reserve `r`, `tap[r]` the rate of
the tap that feeds it, `minted` the ids given out so far. Assumed of the kernel,
from how its callers rely on it: an id is never given out again; creating a
reserve gives it to the caller; exposing adds a holder; a put removes the
caller, and the last put destroys the reserve with the tap that feeds it (the
daemon never deletes the tap of a reserve it gives up: `reserveRecordDestroy`
only puts); `SYS_RESERVE_INFO` succeeds only for a task that holds the reserve. Every
call may fail, and then changes nothing; the count the reaper asks for may fail for a
holder too, and it goes on to the next record. `SYS_ROOT_RESERVE_ID` is not checked for
failure (`syscall.c:64`): a connect to a uid without a mapping is answered with what it
returned as the id of the root reserve, whatever that was (`UseRoot`, `RootIds`,
`FailedId`). A tap is known by the reserve it feeds, because
`statReserve` makes one tap per reserve.
`ToLong` is the narrowing of the 64-bit `tap_value` to the `long` of
`cinder_tap_set_rate`, modulo the constant `LongModulus`.

### ReserveDatabase

`data`, `dead_list`, `dbase_lock` and `data_lock` bear the names of the code.
`record[x]` holds the fields of `UIDReserveData` that matter, `Records` is what
`malloc` may return. Nothing in `dbase.c` frees a record that was in the hash,
so an address is used once. `NoMutex` stands for a lock not yet initialised or
destroyed. Locks are operators of their own, because taking one is a step.
`DestroyRecordLock` of a lock already destroyed, which the reaper comes to at a later
pass (finding 1), is undefined in POSIX: that the daemon goes on is this module's step,
that it ends is `ReaperDestroysAgain` of `PowerArbiter`.

### Controller

A handler is named by its client; `pc[c]` says where it is in the C code:

| `pc` | code |
|---|---|
| `idle` | `__read_pa_request` and the read of the query |
| `check` | the check of type and value in `setTapParams`, `addReserveParamsForUID` |
| `lock`, `lookup`, `record_lock` | `pthread_mutex_lock` of the database, `HASH_FIND`, lock of the record |
| `stat` ... `put_reserve` | the branches of `statReserve` between its two locks |
| `get`, `set`, `record_params`, `add`, `remove` | the other operations' bodies |
| `record_unlock`, `unlock`, `respond` | the ways out, and the send |

A step contains at most one system call or one access to shared data, so that
all interleavings of the threads are there. The lock steps are separate even
though the outer lock hides much of the inner one: that the inner lock is
superfluous in this code is a result, not an assumption. The response is decided
where the code decides it and sent later. A system call's failure is -1,
which `client.c` reads as `-EPERM`; that is why a `set` the kernel refuses is
answered `PA_BAD_PERMISSIONS`.

The reaper's pass is `ReaperLock`, then one step per record and system
call, then `ReaperDone`. `clear_err` is the variable `err` of
`reserveDataDBClearUnused`, including that a record without a reserve leaves it
as the record before it did. What `reserveRecordDestroy` returns is ignored,
as its callers do.

`TaskPut` and `TaskExpose` are the clients as tasks. A client does them between
requests, because PAController waits for each response.

`logged` is a history variable: the reserves `statReserve` could neither use
nor put back, which the code only writes to the log.

### PowerArbiter

Adds `main`, the receiver and the reaper's outer loop, each with its place in
the code (`main_pc`, `receiver_pc`, `reaper_pc`), the sessions and the process
itself (`daemon`). The shutdown's order is that of `powerArbiterDestroy`:

    sigterm -> inactive -> dispose -> clients -> empty -> turn -> signal -> reaper -> destroy -> freed

`reserveDataDBEmpty` is a loop of `HASH_ITER`, which reads the next record into `tmp`
before a turn and keeps it over the turn. `iter_record` and `iter_tmp` are the two
variables, and a turn (`EmptyTurn`) is a step, so that handlers, which hold the lock the
loop does not take, may add and remove records while the cursors stand still. The order of
insertion is not in this module: `tmp` may be any other record of the hash, and none only
behind the last one.

How a run can end, besides `MainReturns`:

| `daemon` | by |
|---|---|
| `"corrupted"` | a turn at a record a handler took out of the hash since its address was read (`EmptyStale`); a turn while another thread is inside the containers (`EmptyRaces`); a remove of a record the loop took out under the handler (`StaleRemove`) |
| `"crashed"` | the use of the freed context; a second destroy of a record's lock (`ReaperDestroysAgain`), which may also go on |
| `"aborted"` | `assert(0)` of `reserveDataDBDestroy` |
| `"exited"` | also `uthash_fatal`, when `HASH_ADD` has no memory (`OutOfMemory`) |
| `"killed"` | SIGPIPE: a `send` to a closed peer is taken to raise it |

What the daemon does with corrupted containers is not followed, since `data` is then
no function and `dead_list` no sequence any more.
A `recv` interrupted by SIGTERM ends its session, since `sa_flags` is 0.

### Stream and Session

The unit on the wire is a word of four bytes, and the sizes are those of
`protocol.h`: a request is one word, a query 2 or 6, a response 1, 3 or 6. A word
knows its message, its place in it and the command it belongs to, nothing of its
value. `SendSome` and `ReceiveSome` are one turn of the two loops and move any
number of words; `Capacity` bounds what is in flight. The end of a connection is
as on Linux: `send` to a closed peer raises SIGPIPE, `recv` returns 0, or
`ECONNRESET` if the peer left something unread.

`cpc` follows `main` and the handlers of PAController, which share one shape:
dialogue, request, query, response. `spc` follows `__do_handle_client`: request,
query, operation, response. The operation is one step here; `Controller` opens it
up. `told` and `performed` are history variables. If a word were read in the wrong
place, the handler would take it for anything (`RequestRead`, `Garbled`);
`InStep` says that it never does.

### UtHash, LinkedList, Containers

A handle of `UtHash` has the four pointers of `UT_hash_handle` and the hash value;
`tbl` is `UT_hash_table` field by field, with its buckets, `tail`, and the counts that
decide about doubling (`HASH_EXPAND_BUCKETS`) and about giving up (`noexpand`). The
table is freed with its last element and made anew by the next add, as in the
macros. `hash_fcn` is chosen at the start among `HashFunctions` and never changes: the
arithmetic of `HASH_JEN` decides nothing but which keys collide. `LinkedList` has
`next` and `prev` of each `list_head`.

In `Containers` each function of `dbase.c` that touches the containers is one step,
but a turn of `HASH_ITER` and of `list_for_each_entry_safe` is a step of its own, with
both of the loop's cursors in `cursor`. The functions exclude each other, which
`dbase_lock` does in the daemon, but for `reserveDataDBEmpty`, which does not take it:
whole adds and removes come between its turns, while `cursor` holds what the loop has read
into `record` and `tmp`. As long as the record it stands on is in the hash, a turn is sound,
whatever was added, removed, doubled or freed meanwhile. A turn at a record that left the
hash (`StaleTurn`) would do `HASH_DEL` and `list_add_tail` with pointers that are out of
date, and a run ends there. `visited` and `at_start` are history variables.

### The validation programs

`EnergyKernel` has the part of the kernel the arbiter never sees: `level`, the active
reserve of a task, the reserves it may use (`reach`), and the child list that `fork`
hands on. A task makes a step of its own only while its active reserve is not empty,
and each such step costs one unit (`Draw`). The battery (`RootReserve`) outlasts the
programs. A tap is named by the reserve it feeds.

`ForkTest` and `SubdivideTest` have one action per system call of the program, and
any call may fail and end it (`ParentExits`, `Exit`). What the models show and no
statement of the repository excludes:

* the parent of the fork test exits without waiting when the rate cannot be set, and
  leaves a child that starves (the TODO at `test1_fork.c:203` knows);
* `keep_running` is shared without a lock or `volatile`, so a thread may go on
  counting after it is cleared (`ThreadCounts`);
* a share that is cut to 0 (a weight of 1 of 302, or of 0) starves its thread, which
  then never sees `keep_running`, and main waits in `pthread_join` for ever, which is
  the premise of `SubdivideTestEnds`;
* the weights are added as `int` (`test2_subdivide_thread.c:200`), and `Total` wraps where a
  sum does not fit, so that a share can be far more than the whole;
* weights that are all 0, or wrap to 0, make a quotient that is NaN or infinite,
  and its conversion to `int` has no defined result: `ToInt` is any of `UndefinedInts`.
  Such shares are kept, and the rates set to them; `SharesOfTheWhole` speaks of sums that
  are positive and fit;
* in the plumbing test the rest of a line that does not fit its buffer becomes the
  next answers: the premise `~overflowed` of `CallsAsTyped`.

`PlumbingTest` knows an answer by the question it was typed for (`Line`), so that
`CallsAsTyped` can say whether a call has the arguments that were meant for it.
`Validation` runs one of the three programs; the plan in `reserve_tap_test/tests` has
them on different days.

## 3. The runs

| Run | Instance | What it shows |
|---|---|---|
| `controller_safety` | 2 clients, 2 uids, 2 records, 2 reserves, 1 parameter | the safety properties, and `IndInv`, the invariant of the proofs |
| `controller_refinement` | 2 clients, 1 uid, 2 records, 1 reserve, 3 parameters, one invalid | `ImplementsMap`: the requests are atomic; `KernelMatchesRecords`: the kernel's rate is the record's |
| `controller_liveness` | 2 clients, 1 of each | `RequestAnswered`, `UnusedReserveReleased` |
| `arbiter_safety` | 1 client, 2 uids, 2 records, 1 reserve | safety across the shutdown, and `ArbiterInv`, the invariant of the proofs |
| `arbiter_liveness` | 1 of each | `TermReachesReaper`, `UnusedDaemonStops` |
| `session_dialogue` | 3 commands, 4 words in flight | the stream, in safety and liveness, and `SessionInv`, the invariant of the proofs |
| `containers` | 4 uids, 4 records, 1 initial bucket, threshold 1, 3 hash functions | the pointers of the hash and of the list, also between the turns of the emptying |
| `validation_programs` | the three programs, levels up to 2, counting to 3, 6 weightings, `int`s up to 511, lists of 2 | the validation programs, in safety and liveness, and `ValidationInv`, the invariant of the proofs |
| `dead_records_unhooked` | 1 of each | finding 1 |
| `shutdown_waits_for_clients` | 1 client, 2 uids, 2 records, 1 reserve | findings 2 and 3 |
| `disconnect_ends_session` | 1 of each | finding 4 |
| `controller_error_disconnects` | 2 commands, 4 words in flight | finding 5 |

**The properties.**

* `HandlersHoldLiveRecords`: past its lookup a handler works on the record
  its uid still maps to, with a lock that was not destroyed.
* `RecordsInOnePlace`: a record is under one uid, or once on the dead list.
* `ReservesAccountedFor`: each reserve the arbiter holds is in the hands of
  exactly one record or handler, or was logged.
* `GrantIsValid`: when `PA_RESERVE_GRANTED` is sent, client and arbiter
  hold the reserve, though the mapping may be gone.
* `NoPutWhileUsed`: the arbiter gives up a reserve only as its last holder.
  This relies on the reaper reading the count and putting under the database's
  lock: with the mapping gone and no other holder, nobody can become one.
* `KernelMatchesRecords`: the tap of a live record flows at the record's
  rate (after narrowing), except between the two writes of the `set`.
* `ImplementsMap`: the refinement. `Bind`, the creation of a uid's reserve, is an
  abstract step of its own, since a failed exposure leaves the reserve bound.
* `RequestAnswered`, `UnusedReserveReleased`: liveness of handlers and reaper.
* `NoDestroyedLockUsed`: also while the shutdown unhooks records, until it corrupts the
  containers.
* `ReaperGoneBeforeDestroy`: the reaper's last pass began after the emptying.
* `TermReachesReaper`, `UnusedDaemonStops`: liveness of the shutdown. The first is about a
  daemon that lasts: a reaper that walks a corrupted list may never look at the flag. The
  second has its narrow premise because of finding 1: a daemon that ever stored a
  mapping keeps a non-empty dead list and need not stop.
* `SessionTypeOK`: also that no buffer takes more than its message.
* `InStep`: the ends agree where one message ends and the next begins.
* `ImplementsExchange`: a command is performed at most once, never after the
  client went on to the next, and acknowledged only if performed.
* `CommandEnds`, `HandlerEnds`: neither end waits for ever for the other.
* `HashConsistent`: what `HASH_FSCK` of `uthash.h` would check: each chain linked both
  ways, counted, and of keys that belong there; the order of insertion linked both
  ways; the tail and the number of items those of the order. Besides: no two elements
  with one key, and in each handle the hash value of its key.
* `ChainsBounded`: until the table gives up growing no chain exceeds its bucket's
  threshold (`uthash.h:683`).
* `ListConsistent`: the dead list is linked both ways, ends where it begins, has no
  record that is still in the hash, and no allocated record is in neither.
* `LoopsVisitAll`: the loops miss nothing. The reaper's pass meets each dead record once and in
  order. When `reserveDataDBEmpty` comes to its end, all that was in the hash when it began is
  gone, although it deletes the element it stands on and handlers add and remove others between
  its turns. (What is added after the last record was read into `tmp` stays in the hash.)
* `ImplementsStore`: hash and list together are a function and a sequence. This and the three
  above are what `PowerArbiter` relies on when it ends a run in `"corrupted"` only at a turn
  that is stale or meets another thread.
* `ForkIsolated`: the forked child spends from its own reserve only and can reach no
  other one.
* `SharesOfTheWhole`: the shares of the threads never add up to more than the whole if the
  sum of the weights is positive and fits an `int`, however the quotients are rounded; and
  whatever the weights, nothing flows before all three are set.
* `ThreadsOnOwnReserve`: a thread counts on its own reserve, and nobody else on it.
* `CallsAsTyped`: a system call of the plumbing test has the answers to its questions.
* `ForkTestEnds`, `SubdivideTestEnds`, `EndOfInputQuits`: the programs end; the second one
  when no share is 0.
* What the sources say and the code does not do (section 4): `DeadRecordsUnhooked`,
  `EmptyAfterClients`, `DisconnectEndsSession`, `ErrorDisconnects`.

**Bounds.** Two clients give every race between two handlers, and with the
reaper and the client tasks up to four actors on one reserve; a third handler
waits at the same locks. `Records` bounds the additions of a behaviour, since
addresses are not used again: with two, a uid can be removed and added again
while the first record is still on the dead list, and the reaper passes over
two records in each order of outcomes. When records or ids run out, `malloc` or
the system call can only fail. `LongModulus = 16` makes the value 25 negative
after narrowing. Requests repeat without bound. Symmetry is used
for safety and for the refinement, whose formulas do not name any element;
not for liveness. In `PowerArbiter` SIGTERM is delivered once. In `Session`
three commands (`MaxCommands`) give every pair of message sizes next to each other,
with one to spare; `Capacity` is smaller than the largest message, so sends block
in the middle of one, and larger than a request, so a request and the beginning of
its query can be in flight together. `containers` starts from one bucket that holds
one element (the code: 32 and 10), so four elements bring two doublings, and hash
functions that never part three of the keys bring the table to give up; every order
of adding and removing four uids comes up, with the table freed and made again
in between, also between two turns of the emptying. In `validation_programs` a reserve holds two
units and the child counts to three, so it starves and resumes on the way. `MaxInt` is 511
instead of `INT_MAX`, the smallest of its form that holds the sum of 1, 300 and 1. The
weightings are equal ones, an exact quotient, a share of 0 by weight and by rounding, no
weight at all, and 511, 511 and 3, whose sum wraps to 1; what an undefined conversion gives is
either end of the `int`s or 0.

**Deadlock** is checked for `Controller`. In `PowerArbiter`, `Session` and `Validation` it is
not: the processes end. Nor in `Containers`, where a run ends at a stale turn.

**Fairness.** Every thread that can run does (WF). The locks are pthread
mutexes, which do not promise an order: that a thread waiting for a lock
released again and again gets it in the end is assumed (SF on `LockDatabase` and
`ReaperLock`). The daemon relies on it, as the reaper sleeps a second between
passes. For no record do the two calls of the reaper fail for ever: if it comes to the
record again and again, the count succeeds at last (SF on `ReaperCountUsers` without an error,
for each record), and so does `cinder_put_reserve` (SF on `ReaperPut(TRUE)`, for each record).
Clients owe nothing: no fairness for requests, puts, connections or SIGTERM. In
`Session` each program goes on with what it has begun (WF on `ClientStep`,
`ServerStep`); nobody need type a command, and nothing need be interrupted. In
`Validation` a program that can go on does (WF), and so does a tap that can flow:
the kernel visits every tap at each tick. The taps out of the main reserve
compete for what is in it and each has its turn (SF), and a thread that is paid for
reads `keep_running` again and again and sees it cleared at last (SF on
`ThreadReturns`): the variable is neither `volatile` nor locked, but the loop calls `printf`, a
function of another library, after which compiled code must read a global variable anew. The
user owes nothing but, at the end of the input, is gone (WF on `Quit`).

## 4. Findings

Each is shown by a run that TLC finds violated, whose property quotes the line of the sources
it contradicts. What is said to follow from a finding is read off the code and is not a run of
its own.

1. **The dead list never shrinks.** `dbase.c:40` and `dbase.c:130` leave
   the removal of records to the reaper, but `reserveDataDBClearUnused` only
   destroys the lock and puts the reserve. It does not unhook or free, and
   returns to the record at each pass. What follows:
   * the next pass calls `reserveRecordDestroy` once more on a record without a reserve, or
     whose put failed (`dbase.c:183`): `pthread_mutex_destroy` of a destroyed mutex, which is
     undefined, in a daemon that serves;
   * the reaper quits after a pass that returns an error or finds the dead list empty
     (`main.c:76-85`), and no pass makes it empty. The error is what the second visit to a record
     with a put reserve brings. If the last record never had a reserve there is no error, and the
     shutdown waits for ever;
   * when the reaper does quit, `reserveDataDBDestroy` meets its own `assert(0)` (`dbase.c:59`).
2. **The shutdown does not wait for sessions.** `num_users` is never changed, so handlers go on
   while the database is emptied and destroyed. They may also add records after the emptying, and
   the receiver, which nobody joins, may use the context when it is freed.
3. **The emptying shares records with handlers and the reaper.** It takes no lock and keeps the
   next record over a turn, which a handler may remove meanwhile: the run of finding 2 has main
   about to go on to a record that is on the dead list. The turn at it unhooks it from the hash
   and appends it to the dead list again, through pointers that are out of date, which can cut
   other records off the list or make a cycle in it; the reaper then never comes to their reserves,
   or never ends its pass, under the lock of the database.
4. **A disconnect may kill the daemon.** A response to a client that has gone
   raises SIGPIPE.
5. **PAController does not see a lost connection.** The handlers return the error
   code of the read, which is 0 when the connection ended early, so `main` goes
   back to the prompt, and the next command dies of SIGPIPE.

## 5. The proofs

All theorems hold for any values of the constants that meet the named assumptions:
sentinels are not elements of the sets they are added to, `Clients` is finite,
parameters are records of a type and an integer, no entry of a map is `NULL`
(`UnmappedAssumption`), capacities and bounds are positive, the programs' tasks and reserves are among `Tasks` and
`Reserves`, the weights are `int`s and not negative, `MaxInt` is at least 100, and an undefined
conversion gives some `int` (`IntsAssumption`). For the containers there are finitely many records
(memory is finite; without that, `Walk` could not tell a long list from a cycle), hash
values are naturals, and the initial number of buckets and the threshold are positive.

| Module | Theorem | States |
|---|---|---|
| `Controller_proofs` | `Invariance` | `Spec => []IndInv` |
| | `TypeCorrect` | `Spec => []TypeOK` |
| | `HandlersSafe` | `Spec => []HandlersHoldLiveRecords` |
| | `PlacesDisjoint` | `Spec => []RecordsInOnePlace` |
| | `NoLeakNoDoublePut` | `Spec => []ReservesAccountedFor` |
| | `TapsMatchRecords` | `Spec => []KernelMatchesRecords` |
| | `GrantsHold` | `Spec => []GrantIsValid` |
| | `ReaperTakesNothingUsed` | `Spec => NoPutWhileUsed` |
| | `ControllerStores` | `Spec => StoresRecords` (the `Spec` of `RecordStore`) |
| `ControllerRefinement_proofs` | `RequestsAreAtomic` | `Spec => ImplementsMap` |
| `PowerArbiter_proofs` | `ArbiterInvariance` | `ArbiterSpec => []ArbiterInv` |
| | `ArbiterTypeCorrect` | `ArbiterSpec => []ArbiterTypeOK` |
| | `LocksOutliveHandlers` | `ArbiterSpec => []NoDestroyedLockUsed` |
| | `DestroyAfterReaper` | `ArbiterSpec => []ReaperGoneBeforeDestroy` |
| | `ShutdownLosesNothing` | `ArbiterSpec => [](RecordsInOnePlace /\ ReservesAccountedFor)` |
| | `ArbiterGrantsHold` | `ArbiterSpec => []GrantIsValid` |
| | `ArbiterTakesNothingUsed` | `ArbiterSpec => NoPutWhileUsed` |
| | `ArbiterStores` | `ArbiterSpec => StoresRecords` |
| `Containers_proofs` | `Invariance` | `ContainersSpec => []ContainersInv` |
| | `Typed` | `ContainersSpec => []ContainersTypeOK` |
| | `Consistent` | `ContainersSpec => []HashConsistent` |
| | `Bounded` | `ContainersSpec => []ChainsBounded` |
| | `Listed` | `ContainersSpec => []ListConsistent` |
| | `Visited` | `ContainersSpec => []LoopsVisitAll` |
| | `Implements` | `ContainersSpec => ImplementsStore` |
| `Session_proofs` | `SessionInvariance` | `SessionSpec => []SessionInv` |
| | `SessionTypeCorrect` | `SessionSpec => []SessionTypeOK` |
| | `EndsInStep` | `SessionSpec => []InStep` |
| | `SessionExchanges` | `SessionSpec => ImplementsExchange` |
| `Validation_proofs` | `ValidationInvariance` | `ValidationSpec => []ValidationInv` |
| | `ValidationTypeCorrect` | `ValidationSpec => []ValidationTypeOK` |
| | `ChildSpendsItsOwn` | `ValidationSpec => []ForkIsolated` |
| | `TapsSpendTheWhole` | `ValidationSpec => []SharesOfTheWhole` |
| | `ThreadsKeepApart` | `ValidationSpec => []ThreadsOnOwnReserve` |
| | `CallsCarryAnswers` | `ValidationSpec => []CallsAsTyped` |

**Controller.** None of the properties is inductive alone. `IndInv` adds what they
rest on, and is `CoreInv` with `HandlersHoldLiveRecords`:

* `LockInv`: the thread inside the database is the holder of its lock, and
  so there is at most one. This carries everything else: what a thread read
  under the lock is true until it unlocks.
* `LocalsInv`: what a handler's request, pointer and new reserve are at each
  place. It keeps a pointer valid from the lookup to the unlock.
* `RecordsInv`: `reserve_created` says whether `reserve_id` is set.
* `SoleHolder`: nobody but the arbiter holds a reserve under construction, or
  one the reaper is about to put. The reaper's count of one means that the
  arbiter is alone, by a lemma on cardinalities; a client can only get a
  reserve from a holder; and the handlers, which could expose it, are outside
  the lock and their uids no longer map to it.

`CoreInv` is what survives the shutdown. Its proof (`CoreStep`) takes only one fact
from outside, `RemovesFound`: a handler that unhooks a record finds it under its uid.
In `Controller` that follows from `HandlersHoldLiveRecords`; in `PowerArbiter` from the
guard that ends the run in `"corrupted"` otherwise.

The proof that `Next` preserves `IndInv` goes by actions, and under each action by
conjuncts. TLC checks `IndInv` first, in `controller_safety`. `GrantIsValid` needs
its own argument: a client that has been granted a reserve is not idle until the
response is sent, so it does not put it; the arbiter does not put it either, as
`NoPutWhileUsed` says.

**The refinement.** `ProgressInv` adds to `IndInv` where a handler is when its
response is decided, and that parameters past `check` are valid. Then each step is
mapped: `Receive` to `Call`, `Respond` to `Return`, the step that decides a response to
the map's step of that request (the lookup that misses, the exposure, the write to the
record, the add, the removal), the write of a new reserve's id to `Bind`, and the rest
to stutters, by a lemma each.

**PowerArbiter.** Each step of the daemon is a step of `Controller`, a turn of
`reserveDataDBEmpty`, or leaves the database alone. `ShutdownInv` orders the shutdown
(the flag the reaper reads is set after the emptying, its semaphore is posted when
it is gone), and `HoldsUntilEmptied` says that the handlers' records are live until the
emptying begins. A turn whose `iter_record` is in the hash moves it to the dead list like a
removal, wherever `iter_tmp` points, which is all the proof needs of the cursors; a turn at
another record ends the run. So the theorems speak of every state of the daemon up to and
including that one, and of nothing after it: `ShutdownLosesNothing` and `ArbiterStores` do not
say that the shutdown loses nothing in a run with a stale turn (finding 3).

**Session.** `SessionInv` says that the words in the reader's buffer, on the wire and
still to be sent, read one behind the other, are a piece of what is *due*: the request
and the query of the latest command, the query alone once its request was read, or a
goodbye. The same for the response. That is why neither end can take a word for another
one, whatever the sizes of the transfers: three lemmas (`RequestComplete`,
`QueryComplete`, `ResponseComplete`) say that a complete message is the one expected and
that nothing else is then under way, and everything else follows from `MoveWords`, about
moving words from the front of one piece to the end of another.

**Validation.** `ValidationInv` adds to what the programs promise how far they have got:
what the parent's child list is at each call before `fork` (`ForkInv`); that a thread is
on no reserve but its own and the one it started with (`ThreadInv`); that the parts are
set one by one while the tap into the main reserve is shut (`ShareInv`); and that the
answers so far are those to the first questions (`AsTyped`). Each program's steps keep
its own part, and a lemma says that they leave alone what the other parts speak of.
That the shares fit for all weights whose sum is positive and an `int` is arithmetic
(`TotalIsSum`: nothing wraps then; `WholeQuotient`, `SharesFit`: each quotient is at most the exact
one, and the exact ones add up to 100). For the other weights only the type is proved: a
share is an `int`.

**Containers.** `ContainersInv` says that there are two sequences, `o` and `s`, which the
pointers represent: the hash `o` (`HashRep`: the order of insertion linked both ways, and
each bucket a chain, linked both ways and counted, of just the elements of `o` that hash
to it), the list `s`; and that the cursor of a loop is where the loop has got to. The
sequences are not walked out of the pointers but claimed to exist, so that every function is
a step from two sequences to two others: an add appends to `o`, a removal or a turn of
the emptying moves one entry of `o` to the end of `s`, the rest leaves both alone
(`StepAbstracts`). Of the emptying's cursors it says (`EmptyAt`, `Ahead`) that, as long as the
record the loop stands on is in `o`, whatever else of `at_start` is still in `o` is the saved
record or lies behind it: adds go to the end of `o`, and a removal leaves the order of the
others. `Pointers_proofs` has what the pointers of a doubly linked list
represent after a push, an append and a removal; `UtHash_proofs` lifts that to
`HASH_ADD`, `HASH_DELETE` and the doubling. That a walk meets just the sequence the pointers
represent is `WalkFollows`, and from it `HASH_FIND` returns the record of the uid if there
is one, and NULL otherwise (`HashFindFacts`).

The operators that loop (`Walk`, `BucketItems`, `RehashAll`) are recursive functions. What
they compute is proved by exhibiting a table of their values (`Iteration`), which is what
the `CHOOSE` in their definition asks for, and by induction in the form of a least
counterexample (`LeastElement`), which needs no theorem with an operator for parameter.

`ChainsBounded` does not follow from the pointers at all. A bucket may have a multiplier
that the next doubling does not reproduce, and nothing in the code compares an ideal
length to the threshold. The argument is about sums. After a doubling a bucket with
multiplier *m* has *m* times the ideal length or more (`Filled`), so the multipliers add
up to at most the number *n* of buckets (`MultsBound`); until the next doubling every
bucket is below (*m* + 1) times the threshold (`Tight`), so there are fewer than
2*n* times the threshold elements in all (`ItemsBound`), and the next ideal length, which is
for 2*n* buckets, is no more than the threshold (`Ceiling`). `Tight` and the bound on the
multipliers are in the invariant as long as the table has not given up. `Tight` has a
second case, a bucket at its threshold without a multiplier, which an ideal length equal
to the threshold can leave.

`StoresRecords` closes the gap between the two views of the database: `Containers`
implements `RecordStore`, and the daemon with all its threads does to `data` and `dead_list`
what `RecordStore` allows and nothing else, until a step of the emptying without the lock
corrupts them.

TLC checks the named invariants of `Containers` in the run `containers`; `ContainersInv`
quantifies over all sequences, so the run checks what the walks make of it.

**Only model-checked:** liveness, since fairness and ENABLED are beyond the prover
(`RequestAnswered`, `UnusedReserveReleased`, `TermReachesReaper`, `UnusedDaemonStops`,
`CommandEnds`, `HandlerEnds`, `ForkTestEnds`, `SubdivideTestEnds`, `EndOfInputQuits`).

## 6. Not modelled

* The start of the daemon: every failure ends the process before a client is
  served, so the models begin with both threads created.
* pids. The kernel is told a pid read when the session began (`client.c:412`), and a
  task that ended may have left it to another.
* The bytes of a message: fields, their order, and the cut of a 64-bit uid to `uid_t`
  (`client.c:30`). A word is known by its message and its place.
* Of `uthash.h` and `list.h` what this program does not use: other hash functions,
  sorting, selection, the Bloom filter, moves and splices; and that `HASH_JEN` spreads
  keys well.
* What requests would do with containers that a stale turn has corrupted, and two threads inside
  the containers at the same moment: the first such step ends the run of `PowerArbiter`.
* A failed `malloc` inside `HASH_ADD` in `Controller`, where it ends the process and with it every
  property of what follows: it is `OutOfMemory` of `PowerArbiter`.
* Unexpected flags in the response to a connect, for which PAController says goodbye
  (`../PAController/client.c:392-395`): this daemon sends none.
* `list`, `put` and `info` as dialogues of PAController, which `main` runs between requests. What they do to
  the kernel is `TaskPut`; that they read lines as the plumbing test does is not modelled a second time.
* Names of reserves and taps, logging, printing, number parsing.
* `reserveDataDBPopulateFromFile` and `reserveDataDBWriteToFile`, which return
  `-ENOSYS`.
* `feed.c`, `starve.c`, `loop.c` of the plumbing test: a call or an empty loop each.
* `tools`: scripts without state.

## 7. Plan

1. Done: kernel, database, controller, refinement, life cycle; the stream and both
   ends of a connection; the containers; the validation programs.
2. Done: the proofs about `Controller`, its refinement, `PowerArbiter`, `Session`,
   `Containers` and `Validation`: every invariant and every refinement of their passing runs is a
   theorem.
3. Open: `PowerArbiter` with two sessions, and its sessions shown to be those of
   `Session` with the messages left out.
4. Open: tasks with pids that are used again, and the wire format with its widths.

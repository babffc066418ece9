------------------------------ MODULE Containers ------------------------------
(***************************************************************************)
(* The functions of dbase.c on the containers they are written for: the    *)
(* hash of UtHash, dbase->data, and the list of LinkedList,                *)
(* dbase->dead_list.  One function is one step, but the two that loop over *)
(* a container, reserveDataDBEmpty and reserveDataDBClearUnused, take a    *)
(* step for each turn and keep their cursors.                              *)
(*                                                                         *)
(* dbase_lock makes the functions exclude each other, except for           *)
(* reserveDataDBEmpty, which does not take it: entries come and go between *)
(* its turns, while its cursors stand still.  (A pass between two turns    *)
(* changes nothing; two threads in the containers at one time are          *)
(* EmptyRaces of PowerArbiter.)  A turn at a record that was taken out of  *)
(* the hash since the cursor read its address works on pointers that are   *)
(* out of date, and is the last step followed.                             *)
(***************************************************************************)
EXTENDS Integers, Sequences, FiniteSets

CONSTANTS Uids, Records, NULL, ListHead, HashFunctions, InitialBuckets, Threshold

ASSUME NodesAssumption ==
    IsFiniteSet(Records) /\ NULL \notin Records /\ ListHead \notin Records
ASSUME HashAssumption == HashFunctions \subseteq [Uids -> Nat]
ASSUME BucketsAssumption ==
    InitialBuckets \in Nat \ {0} /\ Threshold \in Nat \ {0}

VARIABLES
    head, key, hh, tbl, hash_fcn,  \* the hash
    next, prev,             \* the list
    allocated,              \* what malloc returned so far
    loop,                   \* the loop that runs, if one does
    cursor,                 \* its two cursors
    visited,                \* the records the pass has met, a history variable
    at_start                \* what the hash had when the emptying began, another

INSTANCE UtHash WITH Elements <- Records, Keys <- Uids, NoElement <- NULL
INSTANCE LinkedList

loopVars == <<loop, cursor, visited, at_start>>
dataVars == <<head, key, hh, tbl, hash_fcn>>
deadVars == <<next, prev>>
containerVars == <<dataVars, deadVars, allocated, loopVars>>

Loops == {"none", "reserveDataDBEmpty", "reserveDataDBClearUnused", "stale"}

(* The containers as the rest of dbase.c sees them. *)
Data == [u \in Uids |-> HASH_FIND(u)]
DeadList == LET last == [x \in Records |-> IF next[x] = ListHead THEN NULL ELSE next[x]]
            IN  Walk(IF list_empty THEN NULL ELSE next[ListHead], last)

(* The records that are in the hash. *)
Hashed == {Data[u] : u \in Uids} \ {NULL}

ContainersTypeOK ==
    /\ HashTypeOK /\ ListTypeOK
    /\ allocated \subseteq Records /\ at_start \subseteq Records
    /\ loop \in Loops
    /\ visited \in Seq(Records)

(* reserveDataDBCreateEmpty *)
ContainersInit ==
    /\ HashInit /\ ListInit
    /\ allocated = {}
    /\ loop = "none" /\ cursor = <<>> /\ visited = <<>> /\ at_start = {}

Quiet == loop = "none"
Finished == loop' = "none" /\ cursor' = <<>> /\ visited' = <<>> /\ at_start' = {}

(* No pass holds the lock. *)
Unlocked == loop \in {"none", "reserveDataDBEmpty"}
-----------------------------------------------------------------------------
(* reserveDataDBAddEntry, when HASH_FIND finds nothing.  A record is not   *)
(* freed, so malloc returns a new one.                                     *)
AddEntry(u) ==
    /\ Unlocked
    /\ HASH_FIND(u) = NULL
    /\ \E x \in Records \ allocated :
         HASH_ADD(x, u) /\ allocated' = allocated \cup {x}
    /\ UNCHANGED <<deadVars, loopVars>>

(* reserveDataDBRemoveEntry, when HASH_FIND finds the record. *)
RemoveEntry(u) ==
    /\ Unlocked
    /\ HASH_FIND(u) # NULL
    /\ HASH_DELETE(HASH_FIND(u)) /\ list_add_tail(HASH_FIND(u))
    /\ UNCHANGED <<allocated, loopVars>>

(* reserveDataDBEmpty is called.  (Once in the daemon, any number of times *)
(* here.)                                                                  *)
BeginEmpty ==
    /\ Quiet
    /\ loop' = "reserveDataDBEmpty"
    /\ cursor' = IterAt(hh, head) /\ at_start' = Hashed
    /\ UNCHANGED <<dataVars, deadVars, allocated, visited>>

(* A variant: the loop goes on behind the record it saved. *)
EmptyTurnSkips ==
    /\ loop = "reserveDataDBEmpty" /\ cursor.el \in Hashed
    /\ HASH_DELETE(cursor.el) /\ list_add_tail(cursor.el)
    /\ cursor' = IterAt(hh', IterAt(hh', cursor.tmp).tmp)
    /\ UNCHANGED <<allocated, loop, visited, at_start>>

(* One turn of HASH_ITER: the element it is at leaves the hash, the cursor *)
(* moves to the one saved before, and the next is read from that.          *)
EmptyTurn ==
    /\ loop = "reserveDataDBEmpty" /\ cursor.el \in Hashed
    /\ HASH_DELETE(cursor.el) /\ list_add_tail(cursor.el)
    /\ cursor' = IterAt(hh', cursor.tmp)
    /\ UNCHANGED <<allocated, loop, visited, at_start>>

(* A turn at a record that is not in the hash any more. *)
StaleTurn ==
    /\ loop = "reserveDataDBEmpty" /\ cursor.el \notin Hashed \cup {NULL}
    /\ loop' = "stale" /\ cursor' = <<>> /\ at_start' = {}
    /\ UNCHANGED <<dataVars, deadVars, allocated, visited>>

EmptyEnds ==
    /\ loop = "reserveDataDBEmpty" /\ cursor.el = NULL
    /\ Finished
    /\ UNCHANGED <<dataVars, deadVars, allocated>>

BeginPass ==
    /\ Quiet
    /\ loop' = "reserveDataDBClearUnused"
    /\ cursor' = SafeFirst /\ visited' = <<>>
    /\ UNCHANGED <<dataVars, deadVars, allocated, at_start>>

(* A variant: both cursors are moved from n. *)
PassTurnSkips ==
    /\ loop = "reserveDataDBClearUnused" /\ SafeMore(cursor)
    /\ visited' = Append(visited, cursor.pos)
    /\ cursor' = [pos |-> next[cursor.n], n |-> next[next[cursor.n]]]
    /\ UNCHANGED <<dataVars, deadVars, allocated, loop, at_start>>

(* A variant: the head is taken for an entry. *)
PassTurnAtHead ==
    /\ loop = "reserveDataDBClearUnused"
    /\ visited' = Append(visited, cursor.pos)
    /\ cursor' = SafeNext(cursor)
    /\ UNCHANGED <<dataVars, deadVars, allocated, loop, at_start>>

(* One turn of list_for_each_entry_safe, whose body leaves the list alone. *)
PassTurn ==
    /\ loop = "reserveDataDBClearUnused" /\ SafeMore(cursor)
    /\ visited' = Append(visited, cursor.pos)
    /\ cursor' = SafeNext(cursor)
    /\ UNCHANGED <<dataVars, deadVars, allocated, loop, at_start>>

PassEnds ==
    /\ loop = "reserveDataDBClearUnused" /\ ~SafeMore(cursor)
    /\ Finished
    /\ UNCHANGED <<dataVars, deadVars, allocated>>

ContainersNext ==
    \/ \E u \in Uids : AddEntry(u) \/ RemoveEntry(u)
    \/ BeginEmpty \/ EmptyTurn \/ StaleTurn \/ EmptyEnds
    \/ BeginPass \/ PassTurn \/ PassEnds

ContainersSpec == ContainersInit /\ [][ContainersNext]_containerVars
-----------------------------------------------------------------------------
(* The elements of the hash, in the order they were added. *)
InOrder == Walk(head, NextOf(hh))

(* seq is a list with the pointers back in the field back.                 *)
DoublyLinked(seq, back) ==
    \A i \in DOMAIN seq :
      hh[seq[i]][back] = IF i = 1 THEN NULL ELSE seq[i - 1]

(* HASH_FSCK, uthash.h:249: each chain is linked both ways and counted,    *)
(* each element is in the chain its key belongs to and in the order, and   *)
(* the table knows their number and the last of them.  No two elements     *)
(* have one key, and a handle has the hash value of its key.               *)
HashConsistent ==
    head # NULL =>
      LET chains == [b \in DOMAIN tbl.buckets |-> Chain(hh, tbl.buckets[b])]
          order == InOrder
      IN  /\ \A b \in DOMAIN chains :
               /\ Len(chains[b]) = tbl.buckets[b].count
               /\ DoublyLinked(chains[b], "hh_prev")
               /\ \A i \in DOMAIN chains[b] :
                    HASH_TO_BKT(hash_fcn[key[chains[b][i]]], tbl.num_buckets) = b
          /\ DoublyLinked(order, "prev")
          /\ Len(order) = tbl.num_items
          /\ order[Len(order)] = tbl.tail
          /\ {order[i] : i \in DOMAIN order}
               = UNION {{chains[b][i] : i \in DOMAIN chains[b]} : b \in DOMAIN chains}
          /\ \A i, j \in DOMAIN order : key[order[i]] = key[order[j]] => i = j
          /\ \A i \in DOMAIN order :
               hh[order[i]].hashv = hash_fcn[key[order[i]]]

(* uthash.h:683 "by expanding buckets the hash keeps a bound on the chain  *)
(* length": until it gave up, no chain is longer than its bucket's         *)
(* threshold.                                                              *)
ChainsBounded ==
    head # NULL /\ ~tbl.noexpand =>
      \A b \in DOMAIN tbl.buckets :
        tbl.buckets[b].count <= (tbl.buckets[b].expand_mult + 1) * Threshold

(* The records that leave the hash are on the list and linked both ways,   *)
(* and those still in it are not on the list.  A record that was allocated *)
(* is in one of the two.                                                   *)
ListConsistent ==
    LET dead == DeadList
    IN  /\ Represents(dead)
        /\ \A i \in DOMAIN dead : dead[i] \notin Hashed
        /\ allocated = Hashed \cup {dead[i] : i \in DOMAIN dead}

(* The loops miss nothing.  The reaper's pass walks the dead list in order *)
(* and meets every record once.  When reserveDataDBEmpty comes to its end  *)
(* all that was in the hash when it began is gone, although it unhooks the *)
(* element under its feet and entries come and go between its turns.       *)
(* (What is added after the last record was read into tmp stays.)          *)
LoopsVisitAll ==
    /\ loop = "reserveDataDBClearUnused" =>
         IF SafeMore(cursor)
           THEN /\ Len(visited) < Len(DeadList)
                /\ cursor.pos = DeadList[Len(visited) + 1]
           ELSE visited = DeadList
    /\ loop = "reserveDataDBEmpty" /\ cursor.el = NULL => at_start \cap Hashed = {}

(* The two containers implement a function and a sequence. *)
Store == INSTANCE RecordStore WITH data <- Data, dead_list <- DeadList
ImplementsStore == Store!Spec
=============================================================================

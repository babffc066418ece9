-------------------------------- MODULE UtHash --------------------------------
(***************************************************************************)
(* The hash of uthash.h, pointer by pointer, as the arbiter uses it for    *)
(* dbase->data: HASH_FIND, HASH_ADD, HASH_DELETE and HASH_ITER with keys   *)
(* that are uids.  An element is in two doubly linked lists: the order of  *)
(* insertion (prev, next), whose first element is what the user's pointer  *)
(* points to, and the chain of its bucket (hh_prev, hh_next).              *)
(*                                                                         *)
(* A handle and the element around it are one thing here, the record, so   *)
(* ELMT_FROM_HH is not seen.  The hash function is any function.           *)
(***************************************************************************)
EXTENDS Integers, Sequences, FiniteSets

CONSTANTS
    Elements,         \* what is hashed
    Keys,
    HashFunctions,    \* what HASH_FCN may be on these keys
    InitialBuckets,   \* HASH_INITIAL_NUM_BUCKETS, a power of two
    Threshold,        \* HASH_BKT_CAPACITY_THRESH
    NoElement         \* NULL

VARIABLES
    head,    \* the user's pointer
    key,     \* the key of each element, once it was added
    hh,      \* the handle of each element: its four pointers, its hash value
    tbl,     \* the table (meaningful while head is not NULL)
    hash_fcn \* the hash function, the same for ever

Handle == [prev : Elements \cup {NoElement}, next : Elements \cup {NoElement},
           hh_prev : Elements \cup {NoElement}, hh_next : Elements \cup {NoElement},
           hashv : Nat]

UnlinkedHandle == [prev |-> NoElement, next |-> NoElement,
                   hh_prev |-> NoElement, hh_next |-> NoElement, hashv |-> 0]

EmptyBuckets(n) ==
    [b \in 0..n - 1 |-> [hh_head |-> NoElement, count |-> 0, expand_mult |-> 0]]

(* HASH_MAKE_TABLE *)
MakeTable(x) ==
    [buckets |-> EmptyBuckets(InitialBuckets), num_buckets |-> InitialBuckets,
     num_items |-> 0, tail |-> x, ideal_chain_maxlen |-> 0, nonideal_items |-> 0,
     ineff_expands |-> 0, noexpand |-> FALSE]

HashTypeOK ==
    /\ head \in Elements \cup {NoElement}
    /\ key \in [Elements -> Keys \cup {NoElement}]
    /\ hh \in [Elements -> Handle]
    /\ tbl.tail \in Elements \cup {NoElement}
    /\ {tbl.num_buckets, tbl.num_items, tbl.ideal_chain_maxlen,
        tbl.nonideal_items, tbl.ineff_expands} \subseteq Nat
    /\ tbl.noexpand \in BOOLEAN
    /\ tbl.buckets \in [0..tbl.num_buckets - 1 ->
                          [hh_head : Elements \cup {NoElement},
                           count : Nat, expand_mult : Nat]]

HashInit ==
    /\ head = NoElement
    /\ key = [x \in Elements |-> NoElement]
    /\ hh = [x \in Elements |-> UnlinkedHandle]
    /\ tbl = MakeTable(NoElement)
    /\ hash_fcn \in HashFunctions
-----------------------------------------------------------------------------
(* The elements met from first on, following the pointers of step.  More   *)
(* steps than there are elements would be a cycle.                         *)
Walk(first, step) ==
    LET at[i \in 0..Cardinality(Elements)] ==
          IF i = 0 THEN first
          ELSE IF at[i - 1] = NoElement THEN NoElement ELSE step[at[i - 1]]
        last == CHOOSE i \in 0..Cardinality(Elements) :
                  /\ at[i] = NoElement \/ i = Cardinality(Elements)
                  /\ \A j \in 0..i - 1 : at[j] # NoElement
    IN  [i \in 1..last |-> at[i - 1]]

NextOf(handles) == [x \in Elements |-> handles[x].next]
ChainNext(handles) == [x \in Elements |-> handles[x].hh_next]

Chain(handles, bucket) == Walk(bucket.hh_head, ChainNext(handles))

(* HASH_TO_BKT: num_bkts is a power of two. *)
HASH_TO_BKT(hashv, num_bkts) == hashv % num_bkts

(* HASH_FIND and HASH_FIND_IN_BKT *)
HASH_FIND(k) ==
    IF head = NoElement THEN NoElement
    ELSE LET chain == Chain(hh, tbl.buckets[HASH_TO_BKT(hash_fcn[k], tbl.num_buckets)])
             hits == {i \in DOMAIN chain : key[chain[i]] = k}
         IN  IF hits = {} THEN NoElement
             ELSE chain[CHOOSE i \in hits : \A j \in hits : i <= j]

(* The element x before the first of a bucket's chain. *)
PushFront(handles, bucket, x) ==
    [y \in Elements |->
       CASE y = x -> [handles[x] EXCEPT !.hh_prev = NoElement,
                                        !.hh_next = bucket.hh_head]
         [] y = bucket.hh_head /\ y # x -> [handles[y] EXCEPT !.hh_prev = x]
         [] OTHER -> handles[y]]

CeilDiv(a, b) == a \div b + (IF a % b # 0 THEN 1 ELSE 0)
-----------------------------------------------------------------------------
(* A variant: a bucket that fills up keeps its multiplier. *)
RehashKeepsMult(state, x) ==
    LET b == HASH_TO_BKT(state.handles[x].hashv, state.num_buckets)
        bucket == state.buckets[b]
    IN  [state EXCEPT
          !.handles = PushFront(@, bucket, x),
          !.buckets[b] = [bucket EXCEPT !.hh_head = x, !.count = @ + 1]]

(* One turn of the inner loop of HASH_EXPAND_BUCKETS: x moves to its new   *)
(* bucket.                                                                 *)
Rehash(state, x) ==
    LET b == HASH_TO_BKT(state.handles[x].hashv, state.num_buckets)
        bucket == state.buckets[b]
        count == bucket.count + 1
        nonideal == count > state.ideal
    IN  [state EXCEPT
          !.handles = PushFront(@, bucket, x),
          !.buckets[b] = [hh_head |-> x, count |-> count,
                          expand_mult |-> IF nonideal THEN count \div state.ideal
                                          ELSE bucket.expand_mult],
          !.nonideal_items = IF nonideal THEN @ + 1 ELSE @]

(* What the two loops of HASH_EXPAND_BUCKETS meet, bucket by bucket.       *)
BucketItems(handles, t) ==
    LET upto[n \in 0..t.num_buckets] ==
          IF n = 0 THEN <<>> ELSE upto[n - 1] \o Chain(handles, t.buckets[n - 1])
    IN  upto[t.num_buckets]

RehashAll(start, items) ==
    LET after[n \in 0..Len(items)] ==
          IF n = 0 THEN start ELSE Rehash(after[n - 1], items[n])
    IN  after[Len(items)]

(* HASH_EXPAND_BUCKETS of the table t with the handles as given. *)
HASH_EXPAND_BUCKETS(handles, t) ==
    LET ideal == CeilDiv(t.num_items, 2 * t.num_buckets)
        done == RehashAll([handles |-> handles, ideal |-> ideal,
                           num_buckets |-> 2 * t.num_buckets,
                           buckets |-> EmptyBuckets(2 * t.num_buckets),
                           nonideal_items |-> 0], BucketItems(handles, t))
        ineff == IF done.nonideal_items > t.num_items \div 2
                 THEN t.ineff_expands + 1 ELSE 0
    IN  [handles |-> done.handles,
         table |-> [t EXCEPT !.buckets = done.buckets,
                             !.num_buckets = 2 * @,
                             !.ideal_chain_maxlen = ideal,
                             !.nonideal_items = done.nonideal_items,
                             !.ineff_expands = ineff,
                             !.noexpand = @ \/ ineff > 1]]

(* HASH_ADD_TO_BKT *)
HASH_ADD_TO_BKT(handles, t, x, b) ==
    LET bucket == t.buckets[b]
        linked == PushFront(handles, bucket, x)
        table == [t EXCEPT !.buckets[b].count = @ + 1, !.buckets[b].hh_head = x]
    IN  IF /\ bucket.count + 1 >= (bucket.expand_mult + 1) * Threshold
           /\ ~t.noexpand
        THEN HASH_EXPAND_BUCKETS(linked, table)
        ELSE [handles |-> linked, table |-> table]

(* HASH_ADD of the element x under k, which must not be in the hash. *)
HASH_ADD(x, k) ==
    LET t == IF head = NoElement THEN MakeTable(x) ELSE [tbl EXCEPT !.tail = x]
        last == IF head = NoElement THEN NoElement ELSE tbl.tail
        ordered == [y \in Elements |->
                      CASE y = x -> [hh[x] EXCEPT !.next = NoElement, !.prev = last,
                                                  !.hashv = hash_fcn[k]]
                        [] y = last /\ y # x -> [hh[y] EXCEPT !.next = x]
                        [] OTHER -> hh[y]]
        added == HASH_ADD_TO_BKT(ordered, [t EXCEPT !.num_items = @ + 1], x,
                                 HASH_TO_BKT(hash_fcn[k], t.num_buckets))
    IN  /\ head' = IF head = NoElement THEN x ELSE head
        /\ key' = [key EXCEPT ![x] = k]
        /\ hh' = added.handles
        /\ tbl' = added.table
        /\ UNCHANGED hash_fcn
-----------------------------------------------------------------------------
(* The element x is taken out of a chain or of the order: its neighbours   *)
(* in the fields before and after point at each other.                     *)
Unlink(handles, x, before, after) ==
    [y \in Elements |->
       LET bypass == IF y = handles[x][before]
                     THEN [handles[y] EXCEPT ![after] = handles[x][after]]
                     ELSE handles[y]
       IN  IF y = handles[x][after]
           THEN [bypass EXCEPT ![before] = handles[x][before]] ELSE bypass]

(* HASH_DEL_IN_BKT *)
DelInBucket(bucket, x) ==
    [bucket EXCEPT !.count = @ - 1,
                   !.hh_head = IF @ = x THEN hh[x].hh_next ELSE @]

(* A variant: the last element leaves, and tail stays. *)
HASH_DELETE_keeps_tail(x) ==
    IF hh[x].prev = NoElement /\ hh[x].next = NoElement
    THEN head' = NoElement /\ UNCHANGED <<key, hh, tbl, hash_fcn>>
    ELSE LET b == HASH_TO_BKT(hh[x].hashv, tbl.num_buckets)
         IN  /\ head' = IF hh[x].prev = NoElement THEN hh[x].next ELSE head
             /\ hh' = Unlink(Unlink(hh, x, "prev", "next"), x, "hh_prev", "hh_next")
             /\ tbl' = [tbl EXCEPT !.num_items = @ - 1,
                                   !.buckets[b] = DelInBucket(@, x)]
             /\ UNCHANGED <<key, hash_fcn>>

(* HASH_DELETE.  The last element takes the table with it; its own handle  *)
(* is not written.                                                         *)
HASH_DELETE(x) ==
    IF hh[x].prev = NoElement /\ hh[x].next = NoElement
    THEN head' = NoElement /\ UNCHANGED <<key, hh, tbl, hash_fcn>>
    ELSE LET b == HASH_TO_BKT(hh[x].hashv, tbl.num_buckets)
         IN  /\ head' = IF hh[x].prev = NoElement THEN hh[x].next ELSE head
             /\ hh' = Unlink(Unlink(hh, x, "prev", "next"), x, "hh_prev", "hh_next")
             /\ tbl' = [tbl EXCEPT !.tail = IF @ = x THEN hh[x].prev ELSE @,
                                   !.num_items = @ - 1,
                                   !.buckets[b] = DelInBucket(@, x)]
             /\ UNCHANGED <<key, hash_fcn>>

(* The two cursors of the loop of HASH_ITER: at the element el of handles. *)
IterAt(handles, el) ==
    [el |-> el, tmp |-> IF el = NoElement THEN NoElement ELSE handles[el].next]
=============================================================================

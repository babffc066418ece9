--------------------------- MODULE Containers_proofs ---------------------------
(***************************************************************************)
(* The containers of dbase.c: every invariant of the runs of Containers,   *)
(* and the refinement, for any number of records and uids, any hash        *)
(* function, any initial number of buckets and any threshold.              *)
(*                                                                         *)
(* The inductive invariant is that there are two sequences, o and s, such  *)
(* that the pointers of the hash represent o and those of the list         *)
(* represent s, that the two share no record and have all that were        *)
(* allocated, and that the cursor of the loop that runs is where the loop  *)
(* has got to.  Each function of dbase.c takes o and s to two other        *)
(* sequences; all else follows from what the pointers represent.           *)
(***************************************************************************)
EXTENDS UtHash_proofs

(* reserveDataDBCreateEmpty leaves an empty hash. *)
LEMMA HashInitRep ==
    ASSUME HashInit
    PROVE  HashTyped /\ HashRep(<<>>)
<1>1. MakeTable(NULL) \in TableOf(InitialBuckets) /\ MakeTable(NULL).num_buckets = InitialBuckets
      /\ InitialBuckets \in Nat \ {0}
  <2>1. InitialBuckets \in Nat \ {0} BY BucketsAssumption
  <2>2. EmptyBuckets(InitialBuckets) \in [0..InitialBuckets - 1 -> Bucket] BY <2>1, NoChains
  <2> QED BY <2>1, <2>2 DEF MakeTable, TableOf
<1>2. hh \in [Records -> Handle] BY DEF HashInit, UnlinkedHandle, Handle
<1>3. HashTyped BY <1>1, <1>2 DEF HashInit, HashTyped
<1>4. <<>> \in Seq(Records) /\ Len(<<>>) = 0 /\ 1..0 = {} OBVIOUS
<1>5. Elems(<<>>) = {} /\ Distinct(<<>>) /\ Linked(<<>>, head, NextOf(hh), PrevOf(hh), NULL)
  BY <1>4 DEF HashInit, Elems, Distinct, Linked, At
<1> QED BY <1>3, <1>4, <1>5 DEF HashRep, HashInit

(* The types the proof uses imply those the run checks. *)
LEMMA HashTypedOK ==
    ASSUME HashTyped PROVE HashTypeOK
BY DEF HashTyped, HashTypeOK, TableOf, Bucket

(* A walk along the hash in the order of insertion meets o. *)
LEMMA InOrderIs ==
    ASSUME NEW o, HashRep(o) PROVE InOrder = o
<1> DEFINE step == NextOf(hh)
<1>1. o \in Seq(Records) /\ Distinct(o) /\ head = At(o, 1, NULL)
      /\ \A i \in 1..Len(o) : step[o[i]] = At(o, i + 1, NULL)
  BY DEF HashRep, Linked
<1>2. InOrder = Walk(head, step) BY DEF InOrder
<1> HIDE DEF step
<1> QED BY <1>1, <1>2, WalkFollows

(* A hash that represents a sequence would pass HASH_FSCK (uthash.h:249). *)
LEMMA HashRepConsistent ==
    ASSUME HashTyped, NEW o, HashRep(o) PROVE HashConsistent
<1> SUFFICES ASSUME head # NULL
             PROVE
      LET chains == [b \in DOMAIN tbl.buckets |-> Chain(hh, tbl.buckets[b])]
      IN  /\ \A b \in DOMAIN chains :
               /\ Len(chains[b]) = tbl.buckets[b].count
               /\ DoublyLinked(chains[b], "hh_prev")
               /\ \A i \in DOMAIN chains[b] :
                    HASH_TO_BKT(hash_fcn[key[chains[b][i]]], tbl.num_buckets) = b
          /\ DoublyLinked(InOrder, "prev")
          /\ Len(InOrder) = tbl.num_items
          /\ InOrder[Len(InOrder)] = tbl.tail
          /\ {InOrder[i] : i \in DOMAIN InOrder}
               = UNION {{chains[b][i] : i \in DOMAIN chains[b]} : b \in DOMAIN chains}
          /\ \A i, j \in DOMAIN InOrder : key[InOrder[i]] = key[InOrder[j]] => i = j
          /\ \A i \in DOMAIN InOrder :
               hh[InOrder[i]].hashv = hash_fcn[key[InOrder[i]]]
  BY DEF HashConsistent
<1> DEFINE n == tbl.num_buckets
           B == tbl.buckets
           S == Elems(o)
           chains == [b \in DOMAIN B |-> Chain(hh, B[b])]
<1>1. /\ InOrder = o /\ o \in Seq(Records) /\ Distinct(o)
      /\ Linked(o, head, NextOf(hh), PrevOf(hh), NULL)
      /\ \A x \in S : key[x] \in Uids /\ hh[x].hashv = hash_fcn[key[x]]
      /\ \A x, y \in S : key[x] = key[y] => x = y
      /\ TableFits(hh, tbl, S) /\ tbl.num_items = Len(o) /\ tbl.tail = o[Len(o)]
  BY InOrderIs DEF HashRep
<1>2. DOMAIN o = 1..Len(o) /\ S \subseteq Records /\ \A i \in 1..Len(o) : o[i] \in S
  BY <1>1, SeqFacts DEF Elems
<1>3. n \in Nat \ {0} /\ DOMAIN B = 0..n - 1 BY DEF HashTyped, TableOf
<1>4. PICK c : Chained(hh, B, n, c, S) BY <1>1 DEF TableFits
<1>5. DOMAIN chains = 0..n - 1 /\ \A b \in 0..n - 1 : chains[b] = c[b]
  <2> HIDE DEF n, B
  <2> QED BY <1>3, <1>4, ChainIs
<1> HIDE DEF n, B, chains, S
<1>6. ASSUME NEW b \in 0..n - 1
      PROVE  /\ Len(c[b]) = B[b].count
             /\ DoublyLinked(c[b], "hh_prev")
             /\ DOMAIN c[b] = 1..Len(c[b])
             /\ \A i \in 1..Len(c[b]) : /\ c[b][i] \in S
                                        /\ hash_fcn[key[c[b][i]]] % n = b
  <2> DEFINE s == c[b]
  <2>1. /\ s \in Seq(Records) /\ Linked(s, B[b].hh_head, ChainNext(hh), ChainPrev(hh), NULL)
        /\ B[b].count = Len(s)
        /\ \A x \in Records : x \in Elems(s) <=> x \in S /\ hh[x].hashv % n = b
    BY <1>4 DEF Chained
  <2> HIDE DEF s
  <2>2. DOMAIN s = 1..Len(s) /\ Len(s) \in Nat /\ Elems(s) \subseteq Records
        /\ s \in [1..Len(s) -> Records]
    BY <2>1, SeqFacts
  <2>3. \A i \in 1..Len(s) : s[i] \in S /\ hh[s[i]].hashv % n = b BY <2>1, <2>2 DEF Elems
  <2>4. \A i \in 1..Len(s) : hash_fcn[key[s[i]]] % n = b BY <2>3, <1>1
  <2>5. ASSUME NEW i \in 1..Len(s) PROVE hh[s[i]]["hh_prev"] = IF i = 1 THEN NULL ELSE s[i - 1]
    <3>1. s[i] \in Records BY <2>2
    <3>2. hh[s[i]].hh_prev = At(s, i - 1, NULL) BY <3>1, <2>1 DEF Linked, ChainPrev
    <3>3. i = 1 => i - 1 \notin 1..Len(s) OBVIOUS
    <3>4. i # 1 => i - 1 \in 1..Len(s) BY <2>2
    <3> QED BY <3>2, <3>3, <3>4 DEF At
  <2>6. DoublyLinked(s, "hh_prev") BY <2>2, <2>5 DEF DoublyLinked
  <2> QED BY <2>1, <2>2, <2>3, <2>4, <2>6 DEF s
<1>7. DoublyLinked(o, "prev")
  <2> SUFFICES ASSUME NEW i \in 1..Len(o)
               PROVE hh[o[i]]["prev"] = IF i = 1 THEN NULL ELSE o[i - 1]
    BY <1>2 DEF DoublyLinked
  <2>1. o[i] \in Records /\ Len(o) \in Nat BY <1>1, <1>2, SeqFacts
  <2>2. hh[o[i]].prev = At(o, i - 1, NULL) BY <2>1, <1>1 DEF Linked, PrevOf
  <2>3. i = 1 => i - 1 \notin 1..Len(o) OBVIOUS
  <2>4. i # 1 => i - 1 \in 1..Len(o) BY <2>1
  <2> QED BY <2>2, <2>3, <2>4 DEF At
<1>8. S = UNION {{c[b][i] : i \in 1..Len(c[b])} : b \in 0..n - 1}
  <2>1. ASSUME NEW x \in S PROVE \E b \in 0..n - 1 : \E i \in 1..Len(c[b]) : c[b][i] = x
    <3> DEFINE b == hh[x].hashv % n
    <3>1. x \in Records BY <1>2
    <3>2. b \in 0..n - 1
      <4>1. hh[x].hashv \in Nat BY <3>1 DEF HashTyped, Handle
      <4> QED BY <4>1, <1>3, Remainder
    <3>3. x \in Elems(c[b]) BY <3>1, <3>2, <1>4 DEF Chained
    <3> QED BY <3>2, <3>3 DEF Elems
  <2> QED BY <2>1, <1>6
<1>9. S = {o[i] : i \in 1..Len(o)} BY DEF S, Elems
<1>10. \A i, j \in 1..Len(o) : key[o[i]] = key[o[j]] => i = j
  BY <1>1, <1>2 DEF Distinct
<1>11. \A i \in 1..Len(o) : hh[o[i]].hashv = hash_fcn[key[o[i]]] BY <1>1, <1>2
<1>12. UNION {{c[b][i] : i \in 1..Len(c[b])} : b \in 0..n - 1}
         = UNION {{chains[b][i] : i \in DOMAIN chains[b]} : b \in DOMAIN chains}
  BY <1>5, <1>6
<1>13. \A b \in DOMAIN chains :
         /\ Len(chains[b]) = B[b].count
         /\ DoublyLinked(chains[b], "hh_prev")
         /\ \A i \in DOMAIN chains[b] : HASH_TO_BKT(hash_fcn[key[chains[b][i]]], n) = b
  BY <1>5, <1>6 DEF HASH_TO_BKT
<1>14. /\ DoublyLinked(InOrder, "prev") /\ Len(InOrder) = tbl.num_items
       /\ InOrder[Len(InOrder)] = tbl.tail
  BY <1>1, <1>7
<1>15. {InOrder[i] : i \in DOMAIN InOrder}
         = UNION {{chains[b][i] : i \in DOMAIN chains[b]} : b \in DOMAIN chains}
  <2>1. {InOrder[i] : i \in DOMAIN InOrder} = S
    <3>1. InOrder = o /\ DOMAIN o = 1..Len(o) BY <1>1, <1>2
    <3>2. {o[i] : i \in DOMAIN o} = S BY <3>1, <1>9
    <3> QED BY <3>1, <3>2
  <2> QED BY <2>1, <1>8, <1>12, Zenon
<1>16. /\ \A i, j \in DOMAIN InOrder : key[InOrder[i]] = key[InOrder[j]] => i = j
       /\ \A i \in DOMAIN InOrder : hh[InOrder[i]].hashv = hash_fcn[key[InOrder[i]]]
  BY <1>1, <1>2, <1>10, <1>11
<1> QED BY <1>13, <1>14, <1>15, <1>16, Zenon DEF chains, n, B

(* In such a hash no chain is longer than its bucket's threshold, until    *)
(* the table has given up.                                                 *)
LEMMA HashRepBounded ==
    ASSUME HashTyped, NEW o, HashRep(o) PROVE ChainsBounded
<1> SUFFICES ASSUME head # NULL, ~tbl.noexpand, NEW b \in DOMAIN tbl.buckets
             PROVE  tbl.buckets[b].count <= (tbl.buckets[b].expand_mult + 1) * Threshold
  BY DEF ChainsBounded
<1> DEFINE bucket == tbl.buckets[b]
           T == Threshold
           m == bucket.expand_mult
           k == bucket.count
           z == (m + 1) * T
<1>1. bucket \in Bucket /\ Tight(bucket) BY DEF HashTyped, TableOf, HashRep, TableFits
<1>2. T \in Nat /\ m \in Nat /\ k \in Nat BY <1>1, BucketsAssumption DEF Bucket
<1>3. k < z \/ (m = 0 /\ k = T) BY <1>1 DEF Tight
<1>4. z \in Nat /\ (m = 0 => z = T) BY <1>2
<1> HIDE DEF z, k, m, T
<1>5. k <= z BY <1>2, <1>3, <1>4
<1> QED BY <1>5 DEF z, k, m, T
-----------------------------------------------------------------------------
(* The nodes of a circular list that represents s. *)
LEMMA NodesOf ==
    ASSUME NEW s \in Seq(Records)
    PROVE  /\ Len(s) \in Nat /\ s \in [1..Len(s) -> Records]
           /\ \A i \in Int : NodeAt(s, i) \in Nodes
           /\ \A i \in 1..Len(s) : NodeAt(s, i) = s[i] /\ s[i] \in Records
                                   /\ NodeAt(s, i) # ListHead
           /\ NodeAt(s, 0) = ListHead /\ NodeAt(s, Len(s) + 1) = ListHead
<1> DEFINE n == Len(s)
<1>1. n \in Nat /\ s \in [1..n -> Records] BY SeqFacts
<1>2. \A i \in Int : NodeAt(s, i) = IF i \in 1..n THEN s[i] ELSE ListHead BY DEF NodeAt
<1> HIDE DEF n
<1>3. 0 \notin 1..n /\ n + 1 \notin 1..n /\ 0 \in Int /\ n + 1 \in Int BY <1>1
<1> QED BY <1>1, <1>2, <1>3, NodesAssumption DEF Nodes, n

(* list_add_tail (list.h:70) of a record that is not on the list:          *)
(* afterwards the list represents the sequence with it at the end.         *)
LEMMA ListAddTail ==
    ASSUME ListTypeOK, NEW s \in Seq(Records), Represents(s), NEW x \in Records \ Elems(s),
           list_add_tail(x)
    PROVE  ListTypeOK' /\ Represents(Append(s, x))'
<1> DEFINE n == Len(s)
           a == Append(s, x)
           before == prev[ListHead]
<1>1. /\ n \in Nat /\ s \in [1..n -> Records]
      /\ \A i \in Int : NodeAt(s, i) \in Nodes
      /\ \A i \in 1..n : NodeAt(s, i) = s[i] /\ s[i] \in Records /\ NodeAt(s, i) # ListHead
      /\ NodeAt(s, 0) = ListHead /\ NodeAt(s, n + 1) = ListHead
  BY NodesOf
<1>2. /\ next \in [Nodes -> Nodes] /\ prev \in [Nodes -> Nodes]
      /\ x \in Nodes /\ ListHead \in Nodes /\ x # ListHead
  BY NodesAssumption DEF ListTypeOK, Nodes
<1>3. /\ \A i, j \in 1..n : s[i] = s[j] => i = j
      /\ \A i \in 0..n : next[NodeAt(s, i)] = NodeAt(s, i + 1)
      /\ \A i \in 1..n + 1 : prev[NodeAt(s, i)] = NodeAt(s, i - 1)
  BY DEF Represents
<1>4. \A i \in 1..n : s[i] # x BY DEF Elems
<1>5. Distinct(s) BY <1>3 DEF Distinct
<1>6. a \in Seq(Records) /\ Len(a) = n + 1 /\ a[n + 1] = x /\ \A i \in 1..n : a[i] = s[i]
  BY <1>5, AppendFacts
<1>6a. Distinct(a) BY <1>5, AppendFacts
<1> HIDE DEF n, a
<1>7. before = NodeAt(s, n) /\ before \in Nodes
  <2>1. n + 1 \in 1..n + 1 /\ (n + 1) - 1 = n BY <1>1
  <2> QED BY <2>1, <1>1, <1>2, <1>3
<1>8. before # x
  <2>1. n = 0 \/ n \in 1..n BY <1>1
  <2> QED BY <2>1, <1>1, <1>2, <1>4, <1>7
<1>9. /\ prev' = [prev EXCEPT ![ListHead] = x, ![x] = before]
      /\ next' = [next EXCEPT ![x] = ListHead, ![before] = x]
  BY DEF list_add_tail, __list_add
<1> HIDE DEF before
<1>10. /\ next' \in [Nodes -> Nodes] /\ prev' \in [Nodes -> Nodes]
       /\ next'[x] = ListHead /\ next'[before] = x
       /\ \A y \in Nodes : y # x /\ y # before => next'[y] = next[y]
       /\ prev'[ListHead] = x /\ prev'[x] = before
       /\ \A y \in Nodes : y # x /\ y # ListHead => prev'[y] = prev[y]
  BY <1>2, <1>7, <1>8, <1>9
<1>11. /\ \A i \in 0..n : NodeAt(a, i) = NodeAt(s, i)
       /\ NodeAt(a, n + 1) = x /\ NodeAt(a, n + 2) = ListHead
  <2>1. \A i \in Int : /\ NodeAt(a, i) = IF i \in 1..n + 1 THEN a[i] ELSE ListHead
                       /\ NodeAt(s, i) = IF i \in 1..n THEN s[i] ELSE ListHead
    BY <1>6 DEF NodeAt, n
  <2>2. \A i \in 0..n : i \in Int /\ (i \in 1..n + 1 <=> i \in 1..n) BY <1>1
  <2>3. n + 1 \in 1..n + 1 /\ n + 2 \notin 1..n + 1 /\ n + 1 \in Int /\ n + 2 \in Int BY <1>1
  <2> QED BY <2>1, <2>2, <2>3, <1>6
<1>12. ASSUME NEW i \in 0..n + 1 PROVE next'[NodeAt(a, i)] = NodeAt(a, i + 1)
  <2>1. CASE i = n + 1
    <3>1. i + 1 = n + 2 BY <2>1, <1>1
    <3> QED BY <2>1, <3>1, <1>10, <1>11
  <2>2. CASE i = n
    <3>1. i \in 0..n BY <2>2, <1>1
    <3> QED BY <2>2, <3>1, <1>7, <1>10, <1>11
  <2>3. CASE i \in 0..n - 1
    <3>1. i \in 0..n /\ i + 1 \in 0..n /\ i \in Int BY <2>3, <1>1
    <3>2. NodeAt(s, i) # before
      <4>1. n \in 1..n BY <2>3, <1>1
      <4>2. CASE i = 0 BY <4>1, <4>2, <1>1, <1>7
      <4>3. CASE i # 0
        <5>1. i \in 1..n /\ i # n BY <4>3, <2>3, <1>1
        <5> QED BY <4>1, <5>1, <1>1, <1>3, <1>7
      <4> QED BY <4>2, <4>3
    <3>3. NodeAt(s, i) # x
      <4>1. i = 0 \/ i \in 1..n BY <3>1, <1>1
      <4> QED BY <4>1, <1>1, <1>2, <1>4
    <3>4. next'[NodeAt(s, i)] = next[NodeAt(s, i)] BY <3>1, <3>2, <3>3, <1>1, <1>10
    <3> QED BY <3>1, <3>4, <1>3, <1>11
  <2> QED BY <2>1, <2>2, <2>3, <1>1
<1>13. ASSUME NEW i \in 1..n + 2 PROVE prev'[NodeAt(a, i)] = NodeAt(a, i - 1)
  <2>1. CASE i = n + 2
    <3>1. i - 1 = n + 1 BY <2>1, <1>1
    <3> QED BY <2>1, <3>1, <1>10, <1>11
  <2>2. CASE i = n + 1
    <3>1. i - 1 = n /\ n \in 0..n BY <2>2, <1>1
    <3> QED BY <2>2, <3>1, <1>7, <1>10, <1>11
  <2>3. CASE i \in 1..n
    <3>1. i \in 0..n /\ i - 1 \in 0..n /\ i \in 1..n + 1 BY <2>3, <1>1
    <3>2. NodeAt(s, i) \in Nodes /\ NodeAt(s, i) # x /\ NodeAt(s, i) # ListHead
      BY <2>3, <1>1, <1>4
    <3> QED BY <3>1, <3>2, <1>3, <1>10, <1>11
  <2> QED BY <2>1, <2>2, <2>3, <1>1
<1>14. ListTypeOK' BY <1>10 DEF ListTypeOK
<1>15. Represents(a)'
  <2>1. Len(a) + 1 = n + 2 /\ Len(a) = n + 1 BY <1>1, <1>6
  <2>2. \A i, j \in 1..Len(a) : a[i] = a[j] => i = j BY <1>6a, Zenon DEF Distinct
  <2>3. (\A i \in 0..Len(a) : next'[NodeAt(a, i)] = NodeAt(a, i + 1))
        /\ (\A i \in 1..Len(a) + 1 : prev'[NodeAt(a, i)] = NodeAt(a, i - 1))
    BY <2>1, <1>12, <1>13
  <2> QED BY <2>2, <2>3 DEF Represents, a, NodeAt
<1> QED BY <1>14, <1>15 DEF a

(* A walk along the list meets the sequence it represents. *)
LEMMA DeadListIs ==
    ASSUME NEW s \in Seq(Records), Represents(s) PROVE DeadList = s
<1> DEFINE n == Len(s)
           first == IF list_empty THEN NULL ELSE next[ListHead]
           step == [x \in Records |-> IF next[x] = ListHead THEN NULL ELSE next[x]]
<1>1. /\ n \in Nat /\ s \in [1..n -> Records]
      /\ \A i \in 1..n : NodeAt(s, i) = s[i] /\ s[i] \in Records /\ NodeAt(s, i) # ListHead
      /\ NodeAt(s, 0) = ListHead /\ NodeAt(s, n + 1) = ListHead
  BY NodesOf
<1>2. \A i \in 0..n : next[NodeAt(s, i)] = NodeAt(s, i + 1) BY DEF Represents
<1>3. Distinct(s) BY DEF Represents, Distinct
<1>4. \A i \in Int : At(s, i, NULL) = IF i \in 1..n THEN s[i] ELSE NULL BY DEF At
<1>5. DeadList = Walk(first, step) BY DEF DeadList
<1> HIDE DEF n
<1>6. \A i \in 0..n : (IF NodeAt(s, i + 1) = ListHead THEN NULL ELSE NodeAt(s, i + 1))
                        = At(s, i + 1, NULL)
  <2> SUFFICES ASSUME NEW i \in 0..n
               PROVE (IF NodeAt(s, i + 1) = ListHead THEN NULL ELSE NodeAt(s, i + 1))
                       = At(s, i + 1, NULL)
    OBVIOUS
  <2>1. CASE i = n
    <3>1. i + 1 \in Int /\ i + 1 \notin 1..n /\ i + 1 = n + 1 BY <2>1, <1>1
    <3> QED BY <3>1, <1>1, <1>4
  <2>2. CASE i # n
    <3>1. i + 1 \in Int /\ i + 1 \in 1..n BY <2>2, <1>1
    <3> QED BY <3>1, <1>1, <1>4
  <2> QED BY <2>1, <2>2
<1>7. first = At(s, 1, NULL)
  <2>1. 0 \in 0..n /\ 0 + 1 = 1 BY <1>1
  <2>2. next[ListHead] = NodeAt(s, 1) BY <2>1, <1>1, <1>2
  <2>3. first = IF NodeAt(s, 1) = ListHead THEN NULL ELSE NodeAt(s, 1) BY <2>2 DEF list_empty
  <2> QED BY <2>1, <2>3, <1>6
<1>8. ASSUME NEW i \in 1..n PROVE step[s[i]] = At(s, i + 1, NULL)
  <2>1. i \in 0..n /\ s[i] \in Records /\ NodeAt(s, i) = s[i] BY <1>1
  <2>2. next[s[i]] = NodeAt(s, i + 1) BY <2>1, <1>2
  <2> QED BY <2>1, <2>2, <1>6
<1> HIDE DEF first, step
<1>9. Walk(first, step) = s BY <1>3, <1>7, <1>8, WalkFollows DEF n
<1> QED BY <1>5, <1>9
-----------------------------------------------------------------------------
(* The cursors of list_for_each_entry_safe when the pass has visited the   *)
(* first entries of s: pos is at the next, and n at the one after it.      *)
PassAt(s) ==
    LET at == NodeAt(s, Len(visited) + 1)
    IN  /\ Len(visited) <= Len(s)
        /\ \A i \in 1..Len(visited) : visited[i] = s[i]
        /\ cursor = [pos |-> at, n |-> next[at]]

(* Of the elements S in o the loop that stands on el and has saved tmp has *)
(* none behind it: one that is not at el is at tmp or after it, as far as  *)
(* these two are in o.                                                     *)
Ahead(S, o, el, tmp) ==
    \A p, i \in 1..Len(o) : o[p] = el /\ o[i] \in S =>
      /\ p <= i
      /\ p # i => tmp # NULL /\ \A q \in 1..Len(o) : o[q] = tmp => q <= i

(* Where reserveDataDBEmpty is, while entries come and go around it.  An   *)
(* element that was taken out under the cursor will not come back.         *)
EmptyAt(o) ==
    /\ cursor.el \in allocated \cup {NULL}
    /\ cursor.el = NULL => at_start \cap Elems(o) = {}
    /\ cursor.el \in Elems(o) =>
         /\ cursor.tmp \in allocated \cup {NULL}
         /\ Ahead(at_start, o, cursor.el, cursor.tmp)

(* The hash represents o and the list s; the loop that runs is where it    *)
(* should be.                                                              *)
Abstracts(o, s) ==
    /\ HashTyped /\ ListTypeOK /\ loop \in Loops /\ visited \in Seq(Records)
    /\ HashRep(o)
    /\ s \in Seq(Records) /\ Represents(s)
    /\ Elems(o) \cap Elems(s) = {} /\ allocated = Elems(o) \cup Elems(s)
    /\ at_start \subseteq allocated
    /\ loop = "reserveDataDBEmpty" => EmptyAt(o)
    /\ loop = "reserveDataDBClearUnused" => PassAt(s)

(* The inductive invariant. *)
ContainersInv == \E o, s : Abstracts(o, s)

(* HASH_FIND finds the record of each uid, and nothing else. *)
Found(o) ==
    \A u \in Uids :
      /\ Data[u] \in Elems(o) \cup {NULL}
      /\ Data[u] # NULL => key[Data[u]] = u
      /\ \A y \in Elems(o) : key[y] = u => Data[u] = y
      /\ Data[u] = NULL => \A y \in Elems(o) : key[y] # u

(* What the rest of dbase.c sees of a state that represents o and s. *)
LEMMA StateFacts ==
    \A o, s : Abstracts(o, s) =>
      /\ Found(o) /\ Data = [u \in Uids |-> Data[u]] /\ DeadList = s
      /\ \A y \in Elems(o) : y # NULL /\ key[y] \in Uids
<1> SUFFICES ASSUME NEW o, NEW s, Abstracts(o, s)
             PROVE  /\ Found(o) /\ Data = [u \in Uids |-> Data[u]] /\ DeadList = s
                    /\ \A y \in Elems(o) : y # NULL /\ key[y] \in Uids
  OBVIOUS
<1>1. HashTyped /\ HashRep(o) /\ s \in Seq(Records) /\ Represents(s) BY DEF Abstracts
<1>2. DeadList = s BY <1>1, DeadListIs
<1>3. Data = [u \in Uids |-> HASH_FIND(u)] BY DEF Data
<1>4. \A u \in Uids : Data[u] = HASH_FIND(u) BY <1>3
<1>5. Found(o)
  <2> SUFFICES ASSUME NEW u \in Uids
               PROVE  /\ Data[u] \in Elems(o) \cup {NULL}
                      /\ Data[u] # NULL => key[Data[u]] = u
                      /\ \A y \in Elems(o) : key[y] = u => Data[u] = y
                      /\ Data[u] = NULL => \A y \in Elems(o) : key[y] # u
    BY DEF Found
  <2> QED BY <1>1, <1>4, HashFindFacts
<1>6. \A y \in Elems(o) : y # NULL /\ key[y] \in Uids
  <2>1. Elems(o) \subseteq Records BY <1>1, EmptyOrder
  <2> QED BY <1>1, <2>1, NodesAssumption DEF HashRep
<1> QED BY <1>2, <1>3, <1>4, <1>5, <1>6

(* The records that lookups find are all those in the hash. *)
LEMMA FoundAll ==
    ASSUME NEW o, NEW s, Abstracts(o, s)
    PROVE  Hashed = Elems(o)
<1>1. Found(o) /\ \A y \in Elems(o) : y # NULL /\ key[y] \in Uids BY StateFacts
<1>2. \A y \in Elems(o) : key[y] \in Uids /\ Data[key[y]] = y BY <1>1 DEF Found
<1>3. \A u \in Uids : Data[u] \in Elems(o) \cup {NULL} BY <1>1 DEF Found
<1> QED BY <1>1, <1>2, <1>3 DEF Hashed

(* The loop begins, or goes on: what it has saved is the next of what it is *)
(* at.                                                                     *)
LEMMA AheadStart ==
    ASSUME NEW S, NEW o \in Seq(Records), Distinct(o), NEW p \in 1..Len(o),
           \A i \in 1..Len(o) : o[i] \in S => p <= i
    PROVE  Ahead(S, o, o[p], At(o, p + 1, NULL))
<1>1. Len(o) \in Nat /\ o \in [1..Len(o) -> Records] BY SeqFacts
<1> SUFFICES ASSUME NEW pp \in 1..Len(o), NEW i \in 1..Len(o), o[pp] = o[p], o[i] \in S
             PROVE  /\ pp <= i
                    /\ pp # i => /\ At(o, p + 1, NULL) # NULL
                                 /\ \A q \in 1..Len(o) : o[q] = At(o, p + 1, NULL) => q <= i
  BY DEF Ahead
<1>2. pp = p /\ p <= i BY DEF Distinct
<1>3. ASSUME p # i
      PROVE  /\ At(o, p + 1, NULL) # NULL
             /\ \A q \in 1..Len(o) : o[q] = At(o, p + 1, NULL) => q <= i
  <2>1. p + 1 \in 1..Len(o) /\ p + 1 <= i BY <1>1, <1>2, <1>3
  <2>2. At(o, p + 1, NULL) = o[p + 1] /\ o[p + 1] \in Records BY <1>1, <2>1 DEF At
  <2>3. \A q \in 1..Len(o) : o[q] = o[p + 1] => q = p + 1 BY <2>1 DEF Distinct
  <2> QED BY <2>1, <2>2, <2>3, NodesAssumption
<1> QED BY <1>2, <1>3

(* An element that comes is not among S, nor one the loop has an eye on.   *)
LEMMA AheadAppend ==
    ASSUME NEW S, NEW o \in Seq(Records), Distinct(o), NEW x \in Records \ Elems(o),
           NEW el, NEW tmp, Ahead(S, o, el, tmp), x \notin S, x # el, x # tmp
    PROVE  Ahead(S, Append(o, x), el, tmp)
<1> DEFINE a == Append(o, x)
           n == Len(o)
<1>1. /\ Len(a) = n + 1 /\ a[n + 1] = x /\ \A i \in 1..n : a[i] = o[i]
      /\ n \in Nat
  BY AppendFacts, SeqFacts
<1> HIDE DEF a
<1>2. \A i \in 1..Len(a) : i = n + 1 \/ i \in 1..n BY <1>1
<1>3. \A i \in 1..Len(a) : a[i] \in S \/ a[i] = el \/ a[i] = tmp => i \in 1..n /\ a[i] = o[i]
  BY <1>1, <1>2
<1>4. \A p, i \in 1..n : o[p] = el /\ o[i] \in S =>
        /\ p <= i
        /\ p # i => tmp # NULL /\ \A q \in 1..n : o[q] = tmp => q <= i
  BY DEF Ahead
<1> HIDE DEF n
<1>5. Ahead(S, a, el, tmp)
  <2> SUFFICES ASSUME NEW p \in 1..Len(a), NEW i \in 1..Len(a), a[p] = el, a[i] \in S
               PROVE  /\ p <= i
                      /\ p # i => tmp # NULL /\ \A q \in 1..Len(a) : a[q] = tmp => q <= i
    BY DEF Ahead
  <2>1. p \in 1..n /\ i \in 1..n /\ o[p] = el /\ o[i] \in S BY <1>3
  <2>2. p <= i /\ (p # i => tmp # NULL /\ \A q \in 1..n : o[q] = tmp => q <= i) BY <1>4, <2>1
  <2> QED BY <1>3, <2>2
<1> QED BY <1>5 DEF a

(* Nor does one that goes bring anything behind the loop. *)
LEMMA AheadWithout ==
    ASSUME NEW S, NEW o \in Seq(Records), Distinct(o), NEW r \in 1..Len(o),
           NEW el, NEW tmp, Ahead(S, o, el, tmp)
    PROVE  Ahead(S, Without(o, r), el, tmp)
<1> DEFINE a == Without(o, r)
           n == Len(o)
           was(i) == IF i < r THEN i ELSE i + 1
<1>1. /\ n \in Nat /\ Len(a) = n - 1
      /\ \A i \in 1..n - 1 : a[i] = IF i < r THEN o[i] ELSE o[i + 1]
  BY WithoutFacts, SeqFacts
<1> HIDE DEF a, n
<1>2. r \in 1..n BY DEF n
<1>3. \A i \in 1..Len(a) : was(i) \in 1..n /\ a[i] = o[was(i)] BY <1>1, <1>2
<1>4. \A i, j \in 1..Len(a) : was(i) <= was(j) <=> i <= j BY <1>1, <1>2
<1>5. \A i, j \in 1..Len(a) : was(i) = was(j) => i = j BY <1>1, <1>2
<1>6. \A p, i \in 1..n : o[p] = el /\ o[i] \in S =>
        /\ p <= i
        /\ p # i => tmp # NULL /\ \A q \in 1..n : o[q] = tmp => q <= i
  BY DEF Ahead, n
<1> HIDE DEF was
<1>7. Ahead(S, a, el, tmp)
  <2> SUFFICES ASSUME NEW p \in 1..Len(a), NEW i \in 1..Len(a), a[p] = el, a[i] \in S
               PROVE  /\ p <= i
                      /\ p # i => tmp # NULL /\ \A q \in 1..Len(a) : a[q] = tmp => q <= i
    BY DEF Ahead
  <2>1. /\ was(p) \in 1..n /\ was(i) \in 1..n /\ o[was(p)] = el /\ o[was(i)] \in S
    BY <1>3
  <2>2. /\ was(p) <= was(i)
        /\ was(p) # was(i) => tmp # NULL /\ \A q \in 1..n : o[q] = tmp => q <= was(i)
    BY <1>6, <2>1
  <2>3. p <= i BY <1>4, <2>2
  <2>4. ASSUME p # i PROVE tmp # NULL /\ \A q \in 1..Len(a) : a[q] = tmp => q <= i
    <3>1. tmp # NULL /\ \A q \in 1..n : o[q] = tmp => q <= was(i) BY <1>5, <2>2, <2>4
    <3>2. \A q \in 1..Len(a) : a[q] = tmp => was(q) <= was(i) BY <1>3, <3>1
    <3> QED BY <1>4, <3>1, <3>2
  <2> QED BY <2>3, <2>4
<1> QED BY <1>7 DEF a

(* The element the loop is at goes: what is left of S is at tmp or after.  *)
LEMMA AheadTurn ==
    ASSUME NEW S, NEW o \in Seq(Records), Distinct(o), NEW p \in 1..Len(o),
           NEW tmp, Ahead(S, o, o[p], tmp)
    PROVE  LET a == Without(o, p)
           IN  /\ tmp = NULL => S \cap Elems(a) = {}
               /\ \A q, i \in 1..Len(a) : a[q] = tmp /\ a[i] \in S => q <= i
<1> DEFINE a == Without(o, p)
           n == Len(o)
           was(i) == IF i < p THEN i ELSE i + 1
<1>1. /\ n \in Nat /\ Len(a) = n - 1
      /\ \A i \in 1..n - 1 : a[i] = IF i < p THEN o[i] ELSE o[i + 1]
  BY WithoutFacts, SeqFacts
<1> HIDE DEF a, n
<1>2. p \in 1..n BY DEF n
<1>3. \A i \in 1..Len(a) : was(i) \in 1..n /\ was(i) # p /\ a[i] = o[was(i)] BY <1>1, <1>2
<1>4. \A i, j \in 1..Len(a) : was(i) <= was(j) <=> i <= j BY <1>1, <1>2
<1>5. \A i \in 1..n : o[i] \in S /\ i # p =>
        tmp # NULL /\ \A q \in 1..n : o[q] = tmp => q <= i
  BY <1>2 DEF Ahead, n
<1> HIDE DEF was
<1>6. \A i \in 1..Len(a) : a[i] \in S =>
        tmp # NULL /\ \A q \in 1..n : o[q] = tmp => q <= was(i)
  BY <1>3, <1>5
<1>7. tmp = NULL => S \cap Elems(a) = {} BY <1>6 DEF Elems
<1>8. \A q, i \in 1..Len(a) : a[q] = tmp /\ a[i] \in S => q <= i
  <2> SUFFICES ASSUME NEW q \in 1..Len(a), NEW i \in 1..Len(a), a[q] = tmp, a[i] \in S
               PROVE  q <= i
    OBVIOUS
  <2>1. was(q) \in 1..n /\ o[was(q)] = tmp BY <1>3
  <2>2. was(q) <= was(i) BY <1>6, <2>1
  <2> QED BY <1>4, <2>2
<1> QED BY <1>7, <1>8 DEF a
-----------------------------------------------------------------------------
(* At the start both are empty. *)
LEMMA InitAbstracts ==
    ASSUME ContainersInit PROVE Abstracts(<<>>, <<>>)
<1>1. HashTyped /\ HashRep(<<>>) BY HashInitRep DEF ContainersInit
<1>2. ListTypeOK BY DEF ContainersInit, ListInit, ListTypeOK, Nodes
<1>3. Len(<<>>) = 0 /\ <<>> \in Seq(Records) /\ 1..0 = {} OBVIOUS
<1>4. Represents(<<>>)
  <2>1. \A i \in Int : NodeAt(<<>>, i) = ListHead BY <1>3 DEF NodeAt
  <2>2. next[ListHead] = ListHead /\ prev[ListHead] = ListHead
    BY DEF ContainersInit, ListInit, Nodes
  <2> QED BY <1>3, <2>1, <2>2 DEF Represents
<1>5. Elems(<<>>) = {} BY <1>3 DEF Elems
<1>6. allocated = {} /\ loop = "none" /\ visited = <<>> /\ at_start = {} BY DEF ContainersInit
<1> QED BY <1>1, <1>2, <1>3, <1>4, <1>5, <1>6 DEF Abstracts, Loops

(* reserveDataDBAddEntry (dbase.c:67) appends a new record to o. *)
LEMMA AddAbstracts ==
    ASSUME NEW o, NEW s, Abstracts(o, s), NEW u \in Uids, AddEntry(u)
    PROVE  \E x \in Records \ allocated :
             /\ Abstracts(Append(o, x), s)'
             /\ key' = [key EXCEPT ![x] = u]
             /\ \A y \in Elems(o) : key[y] # u
<1>1. /\ HashTyped /\ HashRep(o) /\ ListTypeOK /\ s \in Seq(Records) /\ Represents(s)
      /\ Elems(o) \cap Elems(s) = {} /\ allocated = Elems(o) \cup Elems(s)
      /\ visited \in Seq(Records) /\ loop \in Loops /\ at_start \subseteq allocated
      /\ o \in Seq(Records) /\ Distinct(o) /\ Elems(o) \subseteq Records
  BY SeqFacts DEF Abstracts, HashRep
<1>2. PICK x \in Records \ allocated : HASH_ADD(x, u) /\ allocated' = allocated \cup {x}
  BY DEF AddEntry
<1>3. /\ HASH_FIND(u) = NULL /\ next' = next /\ prev' = prev
      /\ loop # "reserveDataDBClearUnused" /\ loop' = loop /\ cursor' = cursor
      /\ visited' = visited /\ at_start' = at_start
  BY DEF AddEntry, Unlocked, deadVars, loopVars
<1>4. x \in Records \ Elems(o) /\ x \notin Elems(s) BY <1>1, <1>2
<1>5. \A y \in Elems(o) : key[y] # u BY <1>1, <1>3, HashFindFacts
<1>6. HashTyped' /\ HashRep(Append(o, x))' /\ key' = [key EXCEPT ![x] = u]
  BY <1>1, <1>2, <1>4, <1>5, HashAddRep
<1>7. Elems(Append(o, x)) = Elems(o) \cup {x}
  BY <1>1, <1>4, AppendFacts
<1>8. ListTypeOK' /\ Represents(s)'
  BY <1>1, <1>3 DEF ListTypeOK, Represents
<1>9. /\ Elems(Append(o, x)) \cap Elems(s) = {}
      /\ allocated' = Elems(Append(o, x)) \cup Elems(s)
  BY <1>1, <1>2, <1>4, <1>7
<1>10. ASSUME loop = "reserveDataDBEmpty" PROVE EmptyAt(Append(o, x))'
  <2>1. EmptyAt(o) BY <1>10 DEF Abstracts
  <2>2. x # NULL /\ x \notin allocated /\ x \notin at_start /\ allocated' = allocated \cup {x}
    BY <1>1, <1>2, NodesAssumption
  <2>3. cursor.el \in allocated \cup {NULL} /\ x # cursor.el BY <2>1, <2>2 DEF EmptyAt
  <2>4. cursor.el = NULL => at_start \cap Elems(Append(o, x)) = {}
    BY <2>1, <2>2, <1>7 DEF EmptyAt
  <2>5. ASSUME cursor.el \in Elems(Append(o, x))
        PROVE  /\ cursor.tmp \in allocated \cup {NULL}
               /\ Ahead(at_start, Append(o, x), cursor.el, cursor.tmp)
    <3>1. cursor.el \in Elems(o) BY <2>3, <2>5, <1>7
    <3>2. /\ cursor.tmp \in allocated \cup {NULL}
          /\ Ahead(at_start, o, cursor.el, cursor.tmp)
      BY <2>1, <3>1 DEF EmptyAt
    <3>3. x # cursor.tmp BY <3>2, <2>2
    <3> QED BY <3>2, <3>3, <2>2, <2>3, <1>1, <1>4, AheadAppend
  <2> QED BY <2>2, <2>3, <2>4, <2>5, <1>3 DEF EmptyAt
<1>11. Abstracts(Append(o, x), s)'
  BY <1>1, <1>2, <1>3, <1>6, <1>8, <1>9, <1>10 DEF Abstracts
<1> QED BY <1>5, <1>6, <1>11

(* HASH_DELETE and list_add_tail of one record, as                         *)
(* reserveDataDBRemoveEntry and reserveDataDBEmpty do it: the record moves *)
(* from o to the end of s.                                                 *)
LEMMA TakeAbstracts ==
    ASSUME NEW o, NEW s, Abstracts(o, s), NEW p \in 1..Len(o),
           HASH_DELETE(o[p]), list_add_tail(o[p]), allocated' = allocated
    PROVE  /\ HashTyped' /\ ListTypeOK' /\ HashRep(Without(o, p))'
           /\ Append(s, o[p]) \in Seq(Records) /\ Represents(Append(s, o[p]))'
           /\ Elems(Without(o, p)) \cap Elems(Append(s, o[p])) = {}
           /\ allocated' = Elems(Without(o, p)) \cup Elems(Append(s, o[p]))
           /\ key' = key
           /\ p = 1 => head' = hh[o[p]].next
<1> DEFINE x == o[p]
<1>1. /\ HashTyped /\ HashRep(o) /\ ListTypeOK /\ s \in Seq(Records) /\ Represents(s)
      /\ Elems(o) \cap Elems(s) = {} /\ allocated = Elems(o) \cup Elems(s)
      /\ o \in Seq(Records) /\ Distinct(o)
  BY DEF Abstracts, HashRep
<1>2. x \in Elems(o) /\ x \in Records \ Elems(s)
  <2>1. x \in Elems(o) BY DEF Elems
  <2>2. Elems(o) \subseteq Records BY <1>1, SeqFacts
  <2> QED BY <2>1, <2>2, <1>1
<1>3. HashTyped' /\ HashRep(Without(o, p))' /\ key' = key /\ (p = 1 => head' = hh[x].next)
  BY <1>1, HashDeleteRep
<1>4. list_add_tail(x) OBVIOUS
<1>5. Elems(Without(o, p)) = Elems(o) \ {x} BY <1>1, WithoutFacts
<1> HIDE DEF x
<1>6. ListTypeOK' /\ Represents(Append(s, x))' BY <1>1, <1>2, <1>4, ListAddTail
<1>7. Append(s, x) \in Seq(Records) /\ Elems(Append(s, x)) = Elems(s) \cup {x}
  <2>1. Distinct(s) BY <1>1 DEF Represents, Distinct
  <2> QED BY <2>1, <1>1, <1>2, AppendFacts
<1>8. /\ Elems(Without(o, p)) \cap Elems(Append(s, x)) = {}
      /\ allocated' = Elems(Without(o, p)) \cup Elems(Append(s, x))
  BY <1>1, <1>2, <1>5, <1>7
<1> QED BY <1>3, <1>6, <1>7, <1>8 DEF x

(* reserveDataDBRemoveEntry moves the record of the uid from o to s. *)
LEMMA RemoveAbstracts ==
    ASSUME NEW o, NEW s, Abstracts(o, s), NEW u \in Uids, RemoveEntry(u)
    PROVE  \E p \in 1..Len(o) : Abstracts(Without(o, p), Append(s, o[p]))' /\ key' = key
<1>1. /\ HashTyped /\ HashRep(o) /\ visited \in Seq(Records) /\ loop \in Loops
      /\ at_start \subseteq allocated /\ o \in Seq(Records) /\ Distinct(o)
  BY DEF Abstracts, HashRep
<1>2. /\ HASH_FIND(u) # NULL /\ HASH_DELETE(HASH_FIND(u)) /\ list_add_tail(HASH_FIND(u))
      /\ allocated' = allocated /\ loop # "reserveDataDBClearUnused"
      /\ loop' = loop /\ cursor' = cursor /\ visited' = visited /\ at_start' = at_start
  BY DEF RemoveEntry, Unlocked, loopVars
<1>3. PICK p \in 1..Len(o) : o[p] = HASH_FIND(u)
  <2>1. HASH_FIND(u) \in Elems(o) BY <1>1, <1>2, HashFindFacts
  <2> QED BY <2>1 DEF Elems
<1>4. HASH_DELETE(o[p]) /\ list_add_tail(o[p]) BY <1>2, <1>3
<1>5. /\ HashTyped' /\ ListTypeOK' /\ HashRep(Without(o, p))'
      /\ Append(s, o[p]) \in Seq(Records) /\ Represents(Append(s, o[p]))'
      /\ Elems(Without(o, p)) \cap Elems(Append(s, o[p])) = {}
      /\ allocated' = Elems(Without(o, p)) \cup Elems(Append(s, o[p]))
      /\ key' = key
  BY <1>2, <1>4, TakeAbstracts
<1>6. ASSUME loop = "reserveDataDBEmpty" PROVE EmptyAt(Without(o, p))'
  <2>1. EmptyAt(o) BY <1>6 DEF Abstracts
  <2>2. Elems(Without(o, p)) \subseteq Elems(o) BY <1>1, WithoutFacts
  <2>3. /\ cursor.el \in allocated \cup {NULL}
        /\ cursor.el = NULL => at_start \cap Elems(Without(o, p)) = {}
    BY <2>1, <2>2 DEF EmptyAt
  <2>4. ASSUME cursor.el \in Elems(Without(o, p))
        PROVE  /\ cursor.tmp \in allocated \cup {NULL}
               /\ Ahead(at_start, Without(o, p), cursor.el, cursor.tmp)
    <3>1. /\ cursor.tmp \in allocated \cup {NULL}
          /\ Ahead(at_start, o, cursor.el, cursor.tmp)
      BY <2>1, <2>2, <2>4 DEF EmptyAt
    <3> QED BY <3>1, <1>1, AheadWithout
  <2> QED BY <2>3, <2>4, <1>2 DEF EmptyAt
<1>7. Abstracts(Without(o, p), Append(s, o[p]))'
  BY <1>1, <1>2, <1>5, <1>6 DEF Abstracts
<1> QED BY <1>5, <1>7

(* One turn of reserveDataDBEmpty moves the record it is at to s, and goes *)
(* on at the record saved before.                                          *)
LEMMA EmptyTurnAbstracts ==
    ASSUME NEW o, NEW s, Abstracts(o, s), EmptyTurn
    PROVE  \E p \in 1..Len(o) : Abstracts(Without(o, p), Append(s, o[p]))' /\ key' = key
<1>1. /\ HashTyped /\ HashRep(o) /\ visited \in Seq(Records) /\ at_start \subseteq allocated
      /\ o \in Seq(Records) /\ Distinct(o) /\ EmptyAt(o)
  BY DEF Abstracts, HashRep, EmptyTurn
<1>2. /\ loop' = "reserveDataDBEmpty" /\ cursor.el \in Hashed
      /\ HASH_DELETE(cursor.el) /\ list_add_tail(cursor.el)
      /\ cursor' = IterAt(hh', cursor.tmp) /\ visited' = visited /\ at_start' = at_start
      /\ allocated' = allocated
  BY DEF EmptyTurn
<1>3. cursor.el \in Elems(o) BY <1>2, FoundAll
<1>4. PICK p \in 1..Len(o) : o[p] = cursor.el BY <1>3 DEF Elems
<1>5. HASH_DELETE(o[p]) /\ list_add_tail(o[p]) BY <1>2, <1>4
<1> DEFINE a == Without(o, p)
           tmp == cursor.tmp
<1>6. /\ HashTyped' /\ ListTypeOK' /\ HashRep(a)'
      /\ Append(s, o[p]) \in Seq(Records) /\ Represents(Append(s, o[p]))'
      /\ Elems(a) \cap Elems(Append(s, o[p])) = {}
      /\ allocated' = Elems(a) \cup Elems(Append(s, o[p]))
      /\ key' = key
  BY <1>2, <1>5, TakeAbstracts
<1>7. tmp \in allocated \cup {NULL} /\ Ahead(at_start, o, o[p], tmp)
  BY <1>1, <1>3, <1>4 DEF EmptyAt
<1>8. /\ a \in Seq(Records) /\ Distinct(a) BY <1>1, WithoutFacts
<1>9. /\ tmp = NULL => at_start \cap Elems(a) = {}
      /\ \A q, i \in 1..Len(a) : a[q] = tmp /\ a[i] \in at_start => q <= i
  BY <1>1, <1>7, AheadTurn
<1>10. Linked(a, head', NextOf(hh'), PrevOf(hh'), NULL) BY <1>6 DEF HashRep
<1> HIDE DEF a, tmp
<1>11. cursor'.el = tmp /\ (tmp # NULL => cursor'.tmp = hh'[tmp].next)
  BY <1>2 DEF IterAt, tmp
<1>12. ASSUME tmp \in Elems(a)
       PROVE  cursor'.tmp \in allocated \cup {NULL} /\ Ahead(at_start, a, tmp, cursor'.tmp)
  <2>1. PICK q \in 1..Len(a) : a[q] = tmp BY <1>12 DEF Elems
  <2>2. tmp \in Records /\ tmp # NULL /\ Len(a) \in Nat
    BY <1>8, <2>1, SeqFacts, NodesAssumption
  <2>3. cursor'.tmp = At(a, q + 1, NULL)
    <3>1. NextOf(hh')[a[q]] = At(a, q + 1, NULL) BY <1>10, <2>1 DEF Linked
    <3>2. NextOf(hh')[tmp] = hh'[tmp].next BY <2>2 DEF NextOf
    <3> QED BY <3>1, <3>2, <2>1, <2>2, <1>11
  <2>4. Ahead(at_start, a, a[q], At(a, q + 1, NULL)) BY <1>8, <1>9, <2>1, AheadStart
  <2>5. At(a, q + 1, NULL) \in Elems(a) \cup {NULL} BY DEF At, Elems
  <2>6. Elems(a) \subseteq allocated BY <1>2, <1>6
  <2> QED BY <2>1, <2>3, <2>4, <2>5, <2>6
<1>13. EmptyAt(a)' BY <1>2, <1>7, <1>9, <1>11, <1>12 DEF EmptyAt, tmp
<1>14. Abstracts(a, Append(s, o[p]))'
  BY <1>1, <1>2, <1>6, <1>13 DEF Abstracts, Loops
<1> QED BY <1>6, <1>14 DEF a

(* A step that leaves both containers alone. *)
LEMMA LoopAbstracts ==
    ASSUME NEW o, NEW s, Abstracts(o, s), ContainersNext \/ UNCHANGED containerVars,
           UNCHANGED <<dataVars, deadVars, allocated>>,
           loop' \in Loops /\ visited' \in Seq(Records),
           at_start' \subseteq allocated,
           loop' = "reserveDataDBEmpty" => EmptyAt(o)',
           loop' = "reserveDataDBClearUnused" => PassAt(s)'
    PROVE  Abstracts(o, s)' /\ key' = key
<1>1. /\ head' = head /\ key' = key /\ hh' = hh /\ tbl' = tbl /\ hash_fcn' = hash_fcn
      /\ next' = next /\ prev' = prev /\ allocated' = allocated
  BY DEF dataVars, deadVars
<1>2. HashTyped' /\ HashRep(o)' BY <1>1 DEF Abstracts, HashTyped, HashRep
<1>3. ListTypeOK' /\ Represents(s)' BY <1>1 DEF Abstracts, ListTypeOK, Represents
<1>4. /\ s \in Seq(Records) /\ Elems(o) \cap Elems(s) = {}
      /\ allocated' = Elems(o) \cup Elems(s)
  BY <1>1 DEF Abstracts
<1> QED BY <1>1, <1>2, <1>3, <1>4 DEF Abstracts

(* Every step adds a record to the hash, moves one from the hash to the    *)
(* list, or does neither.                                                  *)
LEMMA StepAbstracts ==
    ASSUME NEW o, NEW s, Abstracts(o, s), ContainersNext \/ UNCHANGED containerVars
    PROVE  \/ \E u \in Uids : \E x \in Records \ allocated :
                /\ Abstracts(Append(o, x), s)'
                /\ key' = [key EXCEPT ![x] = u]
                /\ \A y \in Elems(o) : key[y] # u
           \/ \E p \in 1..Len(o) : Abstracts(Without(o, p), Append(s, o[p]))' /\ key' = key
           \/ Abstracts(o, s)' /\ key' = key
<1>1. CASE \E u \in Uids : AddEntry(u) BY <1>1, AddAbstracts
<1>2. CASE \E u \in Uids : RemoveEntry(u) BY <1>2, RemoveAbstracts
<1>3. CASE EmptyTurn BY <1>3, EmptyTurnAbstracts
<1>4. /\ visited \in Seq(Records) /\ <<>> \in Seq(Records)
      /\ s \in Seq(Records) /\ Represents(s) /\ loop \in Loops
      /\ at_start \subseteq allocated /\ {} \subseteq allocated
  BY DEF Abstracts
<1>5. CASE BeginEmpty
  <2>1. /\ UNCHANGED <<dataVars, deadVars, allocated>> /\ loop' = "reserveDataDBEmpty"
        /\ cursor' = IterAt(hh, head) /\ visited' = visited /\ at_start' = Hashed
    BY <1>5 DEF BeginEmpty
  <2>2. loop' \in Loops /\ loop' # "reserveDataDBClearUnused" BY <2>1 DEF Loops
  <2>3. /\ HashTyped /\ HashRep(o) /\ o \in Seq(Records) /\ Distinct(o) /\ Hashed = Elems(o)
        /\ Elems(o) \subseteq allocated /\ Len(o) \in Nat
    BY FoundAll, SeqFacts DEF Abstracts, HashRep
  <2>4. Linked(o, head, NextOf(hh), PrevOf(hh), NULL) BY <2>3 DEF HashRep
  <2>5. head = At(o, 1, NULL) BY <2>4 DEF Linked
  <2>6. EmptyAt(o)'
    <3>1. CASE Len(o) = 0
      <4>1. head = NULL /\ Elems(o) = {} BY <2>5, <3>1 DEF At, Elems
      <4> QED BY <4>1, <2>1 DEF EmptyAt, IterAt
    <3>2. CASE Len(o) # 0
      <4>1. 1 \in 1..Len(o) BY <3>2, <2>3
      <4>2. head = o[1] /\ head \in Elems(o) BY <4>1, <2>5 DEF At, Elems
      <4>3. head \in Records /\ head # NULL BY <4>2, <2>3, SeqFacts, NodesAssumption
      <4>4. hh[head].next = At(o, 1 + 1, NULL)
        <5>1. NextOf(hh)[o[1]] = At(o, 1 + 1, NULL) BY <2>4, <4>1 DEF Linked
        <5> QED BY <5>1, <4>2, <4>3 DEF NextOf
      <4>5. Ahead(Elems(o), o, o[1], At(o, 1 + 1, NULL))
        <5>1. \A i \in 1..Len(o) : 1 <= i OBVIOUS
        <5> QED BY <5>1, <4>1, <2>3, AheadStart
      <4>6. At(o, 1 + 1, NULL) \in Elems(o) \cup {NULL} BY DEF At, Elems
      <4>7. cursor'.el = head /\ cursor'.tmp = hh[head].next BY <2>1, <4>3 DEF IterAt
      <4>8. allocated' = allocated BY <2>1
      <4> QED BY <2>1, <2>3, <4>2, <4>3, <4>4, <4>5, <4>6, <4>7, <4>8 DEF EmptyAt
    <3> QED BY <3>1, <3>2
  <2> QED BY <1>4, <2>1, <2>2, <2>3, <2>6, LoopAbstracts
<1>6. CASE StaleTurn \/ EmptyEnds \/ PassEnds
  <2>1. /\ UNCHANGED <<dataVars, deadVars, allocated>> /\ loop' \in {"none", "stale"}
        /\ visited' \in Seq(Records) /\ at_start' \subseteq allocated
    BY <1>4, <1>6 DEF StaleTurn, EmptyEnds, PassEnds, Finished
  <2>2. loop' \in Loops /\ loop' # "reserveDataDBClearUnused"
        /\ loop' # "reserveDataDBEmpty"
    BY <2>1 DEF Loops
  <2> QED BY <1>4, <2>1, <2>2, LoopAbstracts
<1>7. /\ Len(s) \in Nat /\ s \in [1..Len(s) -> Records]
      /\ NodeAt(s, 0) = ListHead /\ NodeAt(s, Len(s) + 1) = ListHead
      /\ \A i \in 1..Len(s) : NodeAt(s, i) = s[i]
      /\ \A i \in 0..Len(s) : next[NodeAt(s, i)] = NodeAt(s, i + 1)
  BY <1>4, NodesOf DEF Represents
<1>8. CASE BeginPass
  <2>1. /\ UNCHANGED <<dataVars, deadVars, allocated>> /\ loop' = "reserveDataDBClearUnused"
        /\ cursor' = SafeFirst /\ visited' = <<>> /\ at_start' = at_start
    BY <1>8 DEF BeginPass
  <2>2. loop' \in Loops /\ loop' # "reserveDataDBEmpty" /\ next' = next
    BY <2>1 DEF Loops, deadVars
  <2>3. next[ListHead] = NodeAt(s, 1)
    <3>1. 0 \in 0..Len(s) /\ 0 + 1 = 1 BY <1>7
    <3> QED BY <3>1, <1>7
  <2>4. cursor' = [pos |-> NodeAt(s, 1), n |-> next'[NodeAt(s, 1)]]
    BY <2>1, <2>2, <2>3 DEF SafeFirst
  <2>5. Len(visited') = 0 BY <2>1
  <2>6. PassAt(s)'
    <3>1. 0 <= Len(s) /\ 0 + 1 = 1 /\ 1..0 = {} BY <1>7
    <3> QED BY <2>4, <2>5, <3>1 DEF PassAt, NodeAt
  <2> QED BY <1>4, <2>1, <2>2, <2>6, LoopAbstracts
<1>9. CASE PassTurn
  <2> DEFINE n == Len(visited)
             m == Len(s)
  <2>1. /\ UNCHANGED <<dataVars, deadVars, allocated>> /\ loop = "reserveDataDBClearUnused"
        /\ loop' = loop /\ SafeMore(cursor)
        /\ cursor' = SafeNext(cursor) /\ visited' = Append(visited, cursor.pos)
        /\ at_start' = at_start
    BY <1>9 DEF PassTurn
  <2>2. loop' \in Loops /\ loop' # "reserveDataDBEmpty" /\ next' = next
    BY <1>4, <2>1 DEF Loops, deadVars
  <2>3. /\ n <= m /\ \A i \in 1..n : visited[i] = s[i]
        /\ cursor = [pos |-> NodeAt(s, n + 1), n |-> next[NodeAt(s, n + 1)]]
    BY <2>1 DEF Abstracts, PassAt
  <2>4. n \in Nat /\ m \in Nat BY <1>4, <1>7
  <2> HIDE DEF n, m
  <2>5. NodeAt(s, n + 1) # ListHead BY <2>1, <2>3 DEF SafeMore
  <2>6. n # m BY <2>5, <1>7 DEF m
  <2>7. n + 1 \in 1..m /\ n + 1 \in 0..m /\ n + 1 <= m BY <2>3, <2>4, <2>6
  <2>8. NodeAt(s, n + 1) = s[n + 1] /\ next[NodeAt(s, n + 1)] = NodeAt(s, n + 1 + 1)
        /\ s[n + 1] \in Records
    BY <2>7, <1>7 DEF m
  <2>9. cursor.pos = s[n + 1] BY <2>3, <2>8
  <2>10. /\ visited' \in Seq(Records) /\ Len(visited') = n + 1
         /\ \A i \in 1..n + 1 : visited'[i] = s[i]
    <3>1. visited' = Append(visited, s[n + 1]) BY <2>1, <2>9
    <3>2. /\ visited' \in Seq(Records) /\ Len(visited') = n + 1 /\ visited'[n + 1] = s[n + 1]
          /\ \A i \in 1..n : visited'[i] = visited[i]
      BY <3>1, <1>4, <2>8 DEF n
    <3>3. \A i \in 1..n + 1 : i = n + 1 \/ i \in 1..n BY <2>4
    <3> QED BY <3>2, <3>3, <2>3
  <2>11. cursor' = [pos |-> NodeAt(s, n + 1 + 1), n |-> next'[NodeAt(s, n + 1 + 1)]]
    BY <2>1, <2>2, <2>3, <2>8 DEF SafeNext
  <2>12. PassAt(s)'
    BY <2>7, <2>10, <2>11 DEF PassAt, NodeAt, m
  <2> QED BY <1>4, <2>1, <2>2, <2>10, <2>12, LoopAbstracts
<1>10. CASE UNCHANGED containerVars
  <2>1. /\ UNCHANGED <<dataVars, deadVars, allocated>> /\ loop' = loop
        /\ cursor' = cursor /\ visited' = visited /\ next' = next /\ at_start' = at_start
    BY <1>10 DEF containerVars, loopVars, deadVars
  <2>2. loop' = "reserveDataDBEmpty" => EmptyAt(o)' BY <2>1 DEF Abstracts, EmptyAt
  <2>3. loop' = "reserveDataDBClearUnused" => PassAt(s)' BY <2>1 DEF Abstracts, PassAt
  <2> QED BY <1>4, <2>1, <2>2, <2>3, LoopAbstracts
<1> QED BY <1>1, <1>2, <1>3, <1>5, <1>6, <1>8, <1>9, <1>10 DEF ContainersNext

(* In every reachable state the hash and the list represent two sequences  *)
(* that have every allocated record once.                                  *)
THEOREM Invariance == ContainersSpec => []ContainersInv
<1>1. ContainersInit => ContainersInv BY InitAbstracts DEF ContainersInv
<1>2. ContainersInv /\ [ContainersNext]_containerVars => ContainersInv'
  <2> SUFFICES ASSUME NEW o, NEW s, Abstracts(o, s),
                      ContainersNext \/ UNCHANGED containerVars
               PROVE  ContainersInv'
    BY DEF ContainersInv
  <2> QED BY StepAbstracts DEF ContainersInv
<1> QED BY <1>1, <1>2, PTL DEF ContainersSpec
-----------------------------------------------------------------------------
(* From the invariant: the types. *)
LEMMA AbstractsTyped ==
    ASSUME NEW o, NEW s, Abstracts(o, s) PROVE ContainersTypeOK
<1>1. Elems(o) \subseteq Records /\ Elems(s) \subseteq Records
  BY SeqFacts DEF Abstracts, HashRep
<1>2. HashTypeOK BY HashTypedOK DEF Abstracts
<1>3. at_start \subseteq Records BY <1>1 DEF Abstracts
<1> QED BY <1>1, <1>2, <1>3 DEF Abstracts, ContainersTypeOK

(* From the invariant: the list is linked both ways, and has the allocated *)
(* records that are not in the hash.                                       *)
LEMMA AbstractsListed ==
    ASSUME NEW o, NEW s, Abstracts(o, s) PROVE ListConsistent
<1>1. /\ s \in Seq(Records) /\ Represents(s) /\ DeadList = s
      /\ Elems(o) \cap Elems(s) = {} /\ allocated = Elems(o) \cup Elems(s)
  BY StateFacts DEF Abstracts
<1>2. DOMAIN s = 1..Len(s) /\ Elems(s) = {s[i] : i \in DOMAIN s} /\ Elems(s) \subseteq Records
  BY <1>1, SeqFacts DEF Elems
<1>3. Hashed = Elems(o) BY FoundAll
<1>4. \A i \in DOMAIN s : s[i] \notin Hashed BY <1>1, <1>2, <1>3
<1> QED BY <1>1, <1>2, <1>3, <1>4 DEF ListConsistent

(* From the invariant: where the two loops are. *)
LEMMA AbstractsVisited ==
    ASSUME NEW o, NEW s, Abstracts(o, s) PROVE LoopsVisitAll
<1> DEFINE n == Len(visited)
           m == Len(s)
<1>1. s \in Seq(Records) /\ DeadList = s /\ visited \in Seq(Records)
  BY StateFacts DEF Abstracts
<1>2. /\ m \in Nat /\ n \in Nat /\ s \in [1..m -> Records] /\ visited \in [1..n -> Records]
      /\ \A i \in 1..m : NodeAt(s, i) = s[i] /\ s[i] # ListHead
      /\ NodeAt(s, m + 1) = ListHead
  <2>1. \A i \in 1..m : NodeAt(s, i) = s[i] /\ NodeAt(s, i) # ListHead BY <1>1, NodesOf
  <2> QED BY <2>1, <1>1, NodesOf, SeqFacts
<1>3. loop = "reserveDataDBEmpty" /\ cursor.el = NULL => at_start \cap Hashed = {}
  BY FoundAll DEF Abstracts, EmptyAt
<1>4. ASSUME loop = "reserveDataDBClearUnused"
      PROVE  IF SafeMore(cursor) THEN n < m /\ cursor.pos = s[n + 1] ELSE visited = s
  <2>1. n <= m /\ cursor.pos = NodeAt(s, n + 1) /\ \A i \in 1..n : visited[i] = s[i]
    BY <1>4 DEF Abstracts, PassAt
  <2>2. SafeMore(cursor) <=> NodeAt(s, n + 1) # ListHead BY <2>1 DEF SafeMore
  <2> HIDE DEF n, m
  <2>3. CASE n = m
    <3>1. ~SafeMore(cursor) BY <2>2, <2>3, <1>2
    <3>2. visited = s BY <2>1, <2>3, <1>2
    <3> QED BY <3>1, <3>2
  <2>4. CASE n # m
    <3>1. n < m /\ n + 1 \in 1..m BY <2>1, <2>4, <1>2
    <3> QED BY <3>1, <2>1, <2>2, <1>2
  <2> QED BY <2>3, <2>4
<1> QED BY <1>1, <1>3, <1>4 DEF LoopsVisitAll

(* The invariant implies all that the run checks. *)
LEMMA InvariantsHold ==
    ContainersInv => /\ ContainersTypeOK /\ HashConsistent /\ ChainsBounded
                     /\ ListConsistent /\ LoopsVisitAll
<1> SUFFICES ASSUME NEW o, NEW s, Abstracts(o, s)
             PROVE  /\ ContainersTypeOK /\ HashConsistent /\ ChainsBounded
                    /\ ListConsistent /\ LoopsVisitAll
  BY DEF ContainersInv
<1>1. HashTyped /\ HashRep(o) BY DEF Abstracts
<1>2. HashConsistent /\ ChainsBounded BY <1>1, HashRepConsistent, HashRepBounded
<1> QED BY <1>2, AbstractsTyped, AbstractsListed, AbstractsVisited

(* Type correctness of the hash, the list and the loops. *)
THEOREM Typed == ContainersSpec => []ContainersTypeOK
BY Invariance, InvariantsHold, PTL

(* The hash would pass HASH_FSCK (uthash.h:249) after any sequence of the  *)
(* operations of dbase.c, expansions included: no chain loses, repeats or  *)
(* misplaces an element.                                                   *)
THEOREM Consistent == ContainersSpec => []HashConsistent
BY Invariance, InvariantsHold, PTL

(* The bound on the chain length that uthash.h:683 speaks of: until the    *)
(* table gives up expanding, no chain is longer than (expand_mult + 1) *   *)
(* HASH_BKT_CAPACITY_THRESH.                                               *)
THEOREM Bounded == ContainersSpec => []ChainsBounded
BY Invariance, InvariantsHold, PTL

(* The dead list is linked both ways and has exactly the records that were *)
(* allocated and are no longer in the hash.                                *)
THEOREM Listed == ContainersSpec => []ListConsistent
BY Invariance, InvariantsHold, PTL

(* reserveDataDBClearUnused visits the dead list in order, each record     *)
(* once; reserveDataDBEmpty passes by nothing that was in the hash when it *)
(* began, although it takes away the element under its feet and handlers   *)
(* add and remove entries while its saved cursor stands still.             *)
THEOREM Visited == ContainersSpec => []LoopsVisitAll
BY Invariance, InvariantsHold, PTL
-----------------------------------------------------------------------------
(* The empty containers are the empty store. *)
LEMMA InitStored == ContainersInit => Store!Init
<1> SUFFICES ASSUME ContainersInit PROVE Store!Init OBVIOUS
<1>1. Abstracts(<<>>, <<>>) BY InitAbstracts
<1>2. Found(<<>>) /\ Data = [u \in Uids |-> Data[u]] /\ DeadList = <<>> BY <1>1, StateFacts
<1>3. Elems(<<>>) = {} BY DEF Elems
<1>4. \A u \in Uids : Data[u] = NULL BY <1>2, <1>3 DEF Found
<1> QED BY <1>2, <1>4 DEF Store!Init

(* StateFacts after a step. *)
LEMMA NextFacts ==
    \A o, s : Abstracts(o, s)' =>
      /\ Found(o)' /\ Data' = [u \in Uids |-> Data'[u]] /\ DeadList' = s
      /\ \A y \in Elems(o) : y # NULL /\ key'[y] \in Uids
<1>1. (\A o, s : Abstracts(o, s) =>
        /\ Found(o) /\ Data = [u \in Uids |-> Data[u]] /\ DeadList = s
        /\ \A y \in Elems(o) : y # NULL /\ key[y] \in Uids)'
  BY StateFacts, PTL
<1> QED BY <1>1

(* A record appended to the order of the hash is a record added to the     *)
(* store.                                                                  *)
LEMMA AddStored ==
    ASSUME NEW o, NEW s, Abstracts(o, s), NEW u \in Uids, NEW x \in Records \ allocated,
           Abstracts(Append(o, x), s)', key' = [key EXCEPT ![x] = u],
           \A y \in Elems(o) : key[y] # u
    PROVE  Store!Next
<1>1. Found(o) /\ DeadList = s /\ Data = [w \in Uids |-> Data[w]] BY StateFacts
<1>2. Found(Append(o, x))' /\ DeadList' = s /\ Data' = [w \in Uids |-> Data'[w]] BY NextFacts
<1>3. /\ o \in Seq(Records) /\ Distinct(o) /\ x \in Records \ Elems(o)
      /\ key \in [Records -> Uids \cup {NULL}] /\ Elems(o) \subseteq Records
      /\ s \in Seq(Records) /\ Elems(s) \subseteq allocated /\ Elems(o) \subseteq allocated
  <2>1. o \in Seq(Records) BY DEF Abstracts, HashRep
  <2> QED BY <2>1, SeqFacts DEF Abstracts, HashRep, HashTyped
<1>4. Elems(Append(o, x)) = Elems(o) \cup {x} BY <1>3, AppendFacts
<1>5. key'[x] = u /\ \A y \in Elems(o) : key'[y] = key[y] BY <1>3
<1>6. \A w \in Uids :
        /\ Data'[w] \in Elems(o) \cup {x} \cup {NULL}
        /\ Data'[w] # NULL => key'[Data'[w]] = w
        /\ \A y \in Elems(o) \cup {x} : key'[y] = w => Data'[w] = y
  BY <1>2, <1>4 DEF Found
<1>7. Data[u] = NULL BY <1>1 DEF Found
<1>8. Data'[u] = x BY <1>5, <1>6
<1>9. ASSUME NEW w \in Uids, w # u PROVE Data'[w] = Data[w]
  <2>1. CASE Data[w] = NULL
    <3>1. \A y \in Elems(o) : key[y] # w BY <2>1, <1>1 DEF Found
    <3> QED BY <3>1, <2>1, <1>5, <1>6, <1>9
  <2>2. CASE Data[w] # NULL
    <3>1. Data[w] \in Elems(o) /\ key[Data[w]] = w BY <2>2, <1>1 DEF Found
    <3> QED BY <3>1, <1>5, <1>6
  <2> QED BY <2>1, <2>2
<1>10. Data' = [Data EXCEPT ![u] = x] BY <1>1, <1>2, <1>8, <1>9
<1>11. x \in Records \ Store!Stored
  <2>1. \A w \in Uids : Data[w] # x
    <3>1. \A w \in Uids : Data[w] \in Elems(o) \cup {NULL} BY <1>1 DEF Found
    <3> QED BY <3>1, <1>3, NodesAssumption
  <2>2. \A i \in DOMAIN s : s[i] # x
    <3>1. \A i \in DOMAIN s : s[i] \in Elems(s) BY <1>3, SeqFacts DEF Elems
    <3> QED BY <3>1, <1>3
  <2> QED BY <2>1, <2>2, <1>1 DEF Store!Stored
<1>12. DeadList' = DeadList BY <1>1, <1>2
<1> QED BY <1>7, <1>10, <1>11, <1>12 DEF Store!Next, Store!Add

(* A record moved from the order to the list is a record removed from the  *)
(* store.                                                                  *)
LEMMA TakeStored ==
    ASSUME NEW o, NEW s, Abstracts(o, s), NEW p \in 1..Len(o),
           Abstracts(Without(o, p), Append(s, o[p]))', key' = key
    PROVE  Store!Next
<1> DEFINE x == o[p]
           u == key[x]
<1>1. /\ Found(o) /\ DeadList = s /\ Data = [w \in Uids |-> Data[w]]
      /\ \A y \in Elems(o) : y # NULL /\ key[y] \in Uids
  BY StateFacts
<1>2. /\ Found(Without(o, p))' /\ DeadList' = Append(s, x) /\ Data' = [w \in Uids |-> Data'[w]]
  BY NextFacts
<1>3. o \in Seq(Records) /\ Distinct(o) BY DEF Abstracts, HashRep
<1>4. Elems(Without(o, p)) = Elems(o) \ {x} BY <1>3, WithoutFacts
<1>5. x \in Elems(o) BY DEF Elems
<1> HIDE DEF x
<1>6. u \in Uids /\ x # NULL BY <1>1, <1>5
<1>7. Data[u] = x BY <1>1, <1>5, <1>6 DEF Found
<1>8. \A w \in Uids :
        /\ Data'[w] \in (Elems(o) \ {x}) \cup {NULL}
        /\ Data'[w] # NULL => key[Data'[w]] = w
        /\ \A y \in Elems(o) \ {x} : key[y] = w => Data'[w] = y
  BY <1>2, <1>4 DEF Found
<1>9. Data'[u] = NULL
  <2>1. \A y \in Elems(o) : key[y] = u => Data[u] = y BY <1>1, <1>6 DEF Found
  <2> QED BY <2>1, <1>6, <1>7, <1>8
<1>10. ASSUME NEW w \in Uids, w # u PROVE Data'[w] = Data[w]
  <2>1. CASE Data[w] = NULL
    <3>1. \A y \in Elems(o) : key[y] # w BY <2>1, <1>1 DEF Found
    <3> QED BY <3>1, <2>1, <1>8
  <2>2. CASE Data[w] # NULL
    <3>1. Data[w] \in Elems(o) /\ key[Data[w]] = w BY <2>2, <1>1 DEF Found
    <3>2. Data[w] # x BY <3>1, <1>10
    <3> QED BY <3>1, <3>2, <1>8
  <2> QED BY <2>1, <2>2
<1>11. Data' = [Data EXCEPT ![u] = NULL] BY <1>1, <1>2, <1>9, <1>10
<1>12. DeadList' = Append(DeadList, Data[u]) BY <1>1, <1>2, <1>7
<1> HIDE DEF u
<1>13. Store!Remove(u) BY <1>6, <1>7, <1>11, <1>12 DEF Store!Remove
<1> QED BY <1>6, <1>13 DEF Store!Next

(* If the containers represent what they did before, the store is the      *)
(* same.                                                                   *)
LEMMA KeepStored ==
    ASSUME NEW o, NEW s, Abstracts(o, s), Abstracts(o, s)', key' = key
    PROVE  UNCHANGED <<Data, DeadList>>
<1>1. Found(o) /\ DeadList = s /\ Data = [w \in Uids |-> Data[w]] BY StateFacts
<1>2. Found(o)' /\ DeadList' = s /\ Data' = [w \in Uids |-> Data'[w]] BY NextFacts
<1>3. \A w \in Uids :
        /\ Data'[w] \in Elems(o) \cup {NULL}
        /\ Data'[w] # NULL => key[Data'[w]] = w
        /\ \A y \in Elems(o) : key[y] = w => Data'[w] = y
  BY <1>2 DEF Found
<1>4. \A w \in Uids : Data'[w] = Data[w] BY <1>1, <1>3 DEF Found
<1> QED BY <1>1, <1>2, <1>4

(* The hash and the list, pointer by pointer, implement the function and   *)
(* the sequence of RecordStore, which is the form in which ReserveDatabase *)
(* has them: each step is one step of the store or leaves it alone.        *)
THEOREM Implements == ContainersSpec => ImplementsStore
<1>1. ContainersInit => Store!Init BY InitStored
<1>2. ContainersInv /\ [ContainersNext]_containerVars => [Store!Next]_<<Data, DeadList>>
  <2> SUFFICES ASSUME NEW o, NEW s, Abstracts(o, s),
                      ContainersNext \/ UNCHANGED containerVars
               PROVE  Store!Next \/ UNCHANGED <<Data, DeadList>>
    BY DEF ContainersInv
  <2> QED BY StepAbstracts, AddStored, TakeStored, KeepStored
<1> QED BY <1>1, <1>2, Invariance, PTL DEF ContainersSpec, Store!Spec, ImplementsStore
=============================================================================

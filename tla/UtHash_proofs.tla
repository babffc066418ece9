---------------------------- MODULE UtHash_proofs ----------------------------
(***************************************************************************)
(* What the macros of uthash.h do, proved for any number of elements, any  *)
(* hash function and any threshold: HASH_FIND, HASH_ADD with the expansion *)
(* of the buckets, and HASH_DELETE.  HashRep(o) says that all the pointers *)
(* and counters together represent the sequence o of elements; each macro  *)
(* is shown to take one such state to another.                             *)
(*                                                                         *)
(* Two arguments carry the rest.  Each operator that loops (Walk,          *)
(* BucketItems, RehashAll) is a recursive function, and what it computes   *)
(* is shown by exhibiting a function that satisfies the recursion and an   *)
(* induction by least counterexample.  And the bound on the chains is the  *)
(* bound on the sum of the expand_mult: after an expansion a bucket with   *)
(* multiplier m holds at least m times the ideal chain length, so the      *)
(* multipliers add up to at most the number of buckets; hence, at the next *)
(* expansion, the number of items and with it the new ideal length are so  *)
(* small that every bucket is below its threshold again.                   *)
(***************************************************************************)
EXTENDS Containers, Pointers_proofs, FiniteSetTheorems

(* f tabulates the first n values of the iteration of R from a. *)
Iterates(f, n, a, R) == f[0] = a /\ \A i \in 1..n : f[i] = R[i][f[i - 1]]

(* An iteration has a table of its values.  This is what takes the place   *)
(* of a theorem on recursive definitions: a recursive function of the      *)
(* model is a CHOOSE, and there is something for it to choose.             *)
LEMMA Iteration ==
    ASSUME NEW S, NEW n \in Nat, NEW a \in S, NEW R \in [1..n -> [S -> S]]
    PROVE  \E f \in [0..n -> S] : Iterates(f, n, a, R)
<1> USE DEF Iterates
<1> DEFINE Upto(m, f) == f \in [0..m -> S] /\ f[0] = a /\ \A i \in 1..m : f[i] = R[i][f[i - 1]]
           T == {m \in 0..n : \A f \in [0..m -> S] : ~Upto(m, f)}
<1>1. SUFFICES ASSUME T # {} PROVE FALSE
  <2>1. n \in 0..n OBVIOUS
  <2> QED BY <2>1
<1>2. PICK m \in T : \A k \in T : m <= k
  <2>1. T \subseteq Nat OBVIOUS
  <2> HIDE DEF T
  <2> QED BY <1>1, <2>1, LeastElement
<1>3. m # 0
  <2> DEFINE f == [i \in 0..0 |-> a]
  <2>1. Upto(0, f) OBVIOUS
  <2> QED BY <2>1
<1>4. m - 1 \in 0..n /\ m \in 1..n BY <1>3
<1>5. PICK f \in [0..(m - 1) -> S] : Upto(m - 1, f)
  <2>1. ~(m <= m - 1) BY <1>4
  <2>2. m - 1 \notin T BY <1>2, <2>1
  <2> QED BY <1>4, <2>2
<1> DEFINE g == [i \in 0..m |-> IF i = m THEN R[m][f[m - 1]] ELSE f[i]]
<1>6. f[m - 1] \in S BY <1>4
<1>7. g \in [0..m -> S]
  <2>1. R[m][f[m - 1]] \in S BY <1>4, <1>6
  <2>2. \A i \in 0..m : i # m => i \in 0..(m - 1) BY <1>4
  <2> QED BY <2>1, <2>2
<1>8. Upto(m, g)
  <2>1. g[0] = a BY <1>4, <1>5
  <2>2. ASSUME NEW i \in 1..m PROVE g[i] = R[i][g[i - 1]]
    <3>1. g[i - 1] = f[i - 1] BY <1>4
    <3>2. CASE i = m BY <3>1, <3>2
    <3>3. CASE i # m
      <4>1. i \in 1..(m - 1) BY <3>3, <1>4
      <4> QED BY <4>1, <3>1, <3>3, <1>5
    <3> QED BY <3>2, <3>3
  <2> QED BY <1>7, <2>1, <2>2
<1> QED BY <1>7, <1>8

(* The numbers 1..n are n numbers. *)
LEMMA IndexSet ==
    ASSUME NEW n \in Nat
    PROVE  IsFiniteSet(1..n) /\ Cardinality(1..n) = n
<1>1. 1 \in Int /\ n \in Int OBVIOUS
<1>2. IsFiniteSet(1..n) /\ Cardinality(1..n) = IF 1 > n THEN 0 ELSE n - 1 + 1
  BY <1>1, FS_Interval
<1>3. (IF 1 > n THEN 0 ELSE n - 1 + 1) = n OBVIOUS
<1> QED BY <1>2, <1>3

(* A sequence with no element twice is no longer than there are elements,  *)
(* so a Walk over it is never cut short.                                   *)
LEMMA PathsFit ==
    ASSUME NEW s \in Seq(Records), Distinct(s)
    PROVE  Len(s) \in 0..Cardinality(Records) /\ Cardinality(Records) \in Nat
<1> DEFINE n == Len(s)
           c == Cardinality(Records)
<1>1. n \in Nat /\ s \in [1..n -> Records] BY SeqFacts
<1>2. c \in Nat /\ IsFiniteSet(Records) BY NodesAssumption, FS_CardinalityType
<1>3. IsFiniteSet(1..n) /\ Cardinality(1..n) = n BY <1>1, IndexSet
<1>4. ASSUME c < n PROVE FALSE
  <2>1. \E i, j \in 1..n : i # j /\ s[i] = s[j] BY <1>1, <1>2, <1>3, <1>4, FS_PigeonHole
  <2> QED BY <2>1 DEF Distinct
<1> QED BY <1>1, <1>2, <1>4

(* Following pointers that represent s yields s: what HASH_FIND_IN_BKT     *)
(* (uthash.h:636) and HASH_ITER (uthash.h:891) meet, and the loop of       *)
(* list_for_each_entry_safe.                                               *)
LEMMA WalkFollows ==
    ASSUME NEW s \in Seq(Records), Distinct(s), NEW first, NEW step,
           first = At(s, 1, NULL),
           \A i \in 1..Len(s) : step[s[i]] = At(s, i + 1, NULL)
    PROVE  Walk(first, step) = s
<1> DEFINE n == Len(s)
           N == Cardinality(Records)
           Eq(f) == f = [i \in 0..N |-> IF i = 0 THEN first
                                        ELSE IF f[i - 1] = NULL THEN NULL ELSE step[f[i - 1]]]
           at == CHOOSE f : Eq(f)
           last == CHOOSE i \in 0..N : /\ at[i] = NULL \/ i = N
                                       /\ \A j \in 0..i - 1 : at[j] # NULL
<1>w. Walk(first, step) = [i \in 1..last |-> at[i - 1]] BY Zenon DEF Walk
<1>1. n \in 0..N /\ N \in Nat /\ n \in Nat /\ s \in [1..n -> Records] BY PathsFit, SeqFacts
<1>2. \A i \in Nat : At(s, i, NULL) = IF i \in 1..n THEN s[i] ELSE NULL BY DEF At
<1>3. \A i \in 1..n : s[i] # NULL BY <1>1, NodesAssumption
<1> DEFINE g == [i \in 0..N |-> At(s, i + 1, NULL)]
<1>4. Eq(g)
  <2> HIDE DEF n, N
  <2> SUFFICES ASSUME NEW i \in 0..N
               PROVE g[i] = IF i = 0 THEN first
                            ELSE IF g[i - 1] = NULL THEN NULL ELSE step[g[i - 1]]
    BY Zenon
  <2>1. CASE i = 0 BY <2>1, <1>1
  <2>2. CASE i # 0
    <3>1. i - 1 \in 0..N /\ i \in Nat /\ i + 1 \in Nat /\ (i - 1) + 1 = i BY <2>2, <1>1
    <3>2. g[i - 1] = At(s, i, NULL) /\ g[i] = At(s, i + 1, NULL) BY <3>1
    <3>3. CASE i \in 1..n
      <4>1. g[i - 1] = s[i] BY <3>1, <3>2, <3>3, <1>2
      <4>2. step[s[i]] = At(s, i + 1, NULL) BY <3>3 DEF n
      <4> QED BY <4>1, <4>2, <3>2, <3>3, <2>2, <1>3
    <3>4. CASE i \notin 1..n
      <4>1. g[i - 1] = NULL BY <3>1, <3>2, <3>4, <1>2
      <4>2. i + 1 \notin 1..n BY <3>1, <3>4, <1>1, <2>2
      <4>3. g[i] = NULL BY <3>1, <3>2, <4>2, <1>2
      <4> QED BY <4>1, <4>3, <2>2
    <3> QED BY <3>3, <3>4
  <2> QED BY <2>1, <2>2
<1>5. Eq(at)
  <2> HIDE DEF Eq, g
  <2> QED BY <1>4, Zenon
<1> HIDE DEF at
<1>6. \A i \in 0..N : at[i] = g[i]
  <2> DEFINE T == {i \in 0..N : at[i] # g[i]}
  <2>1. SUFFICES ASSUME T # {} PROVE FALSE OBVIOUS
  <2>2. T \subseteq Nat BY <1>1
  <2>3. PICK i \in T : \A j \in T : i <= j BY <2>1, <2>2, LeastElement
  <2> HIDE DEF N, g, n
  <2>4. i \in 0..N /\ at[i] # g[i] BY <2>3
  <2>5. at[i] = IF i = 0 THEN first ELSE IF at[i - 1] = NULL THEN NULL ELSE step[at[i - 1]]
    BY <1>5, <2>4
  <2>6. g[i] = IF i = 0 THEN first ELSE IF g[i - 1] = NULL THEN NULL ELSE step[g[i - 1]]
    BY <1>4, <2>4
  <2>7. i # 0 BY <2>4, <2>5, <2>6
  <2>8. i - 1 \in 0..N /\ ~(i <= i - 1) BY <1>1, <2>4, <2>7
  <2>9. at[i - 1] = g[i - 1] BY <2>3, <2>8
  <2> QED BY <2>4, <2>5, <2>6, <2>9
<1>7. \A i \in 0..N : at[i] = IF i < n THEN s[i + 1] ELSE NULL
  <2> SUFFICES ASSUME NEW i \in 0..N PROVE at[i] = IF i < n THEN s[i + 1] ELSE NULL OBVIOUS
  <2>1. at[i] = At(s, i + 1, NULL) BY <1>6
  <2> HIDE DEF n
  <2>2. i + 1 \in Nat /\ (i < n <=> i + 1 \in 1..n) BY <1>1
  <2> QED BY <2>1, <2>2, <1>2
<1> HIDE DEF n, N, g
<1>8. last = n
  <2> DEFINE P(i) == (at[i] = NULL \/ i = N) /\ \A j \in 0..i - 1 : at[j] # NULL
  <2>1. P(n)
    <3>1. at[n] = NULL \/ n = N BY <1>1, <1>7
    <3>2. \A j \in 0..n - 1 : j \in 0..N /\ j < n /\ j + 1 \in 1..n BY <1>1
    <3> QED BY <3>1, <3>2, <1>3, <1>7
  <2>2. ASSUME NEW i \in 0..N, P(i) PROVE i = n
    <3>1. CASE i < n
      <4>1. i + 1 \in 1..n /\ i # N BY <3>1, <1>1
      <4>2. at[i] = s[i + 1] BY <3>1, <1>7
      <4> QED BY <4>1, <4>2, <1>3, <2>2
    <3>2. CASE n < i
      <4>1. n \in 0..i - 1 /\ at[n] = NULL BY <3>2, <1>1, <1>7
      <4> QED BY <4>1, <2>2
    <3> QED BY <3>1, <3>2, <1>1
  <2> HIDE DEF P
  <2>3. last = CHOOSE i \in 0..N : P(i) BY DEF P
  <2> QED BY <2>1, <2>2, <2>3, <1>1
<1>9. [i \in 1..n |-> at[i - 1]] = s
  <2>1. \A i \in 1..n : i - 1 \in 0..N /\ i - 1 < n /\ (i - 1) + 1 = i BY <1>1
  <2>2. \A i \in 1..n : at[i - 1] = s[i] BY <2>1, <1>7
  <2> QED BY <2>2, <1>1
<1> HIDE DEF last
<1> QED BY <1>w, <1>8, <1>9
-----------------------------------------------------------------------------
(* A UT_hash_bucket (uthash.h:904). *)
Bucket == [hh_head : Records \cup {NULL}, count : Nat, expand_mult : Nat]

(* The pointers back in the order of insertion. *)
PrevOf(handles) == [x \in Records |-> handles[x].prev]

(* The pointers back in the chains. *)
ChainPrev(handles) == [x \in Records |-> handles[x].hh_prev]

(* The n buckets B hold the elements of S: c[b] is the chain of bucket b,  *)
(* linked both ways and counted, of those elements whose hash value is     *)
(* mapped to b.                                                            *)
Chained(h, B, n, c, S) ==
    /\ c \in [0..n - 1 -> Seq(Records)]
    /\ \A b \in 0..n - 1 :
         /\ Distinct(c[b])
         /\ Linked(c[b], B[b].hh_head, ChainNext(h), ChainPrev(h), NULL)
         /\ B[b].count = Len(c[b])
         /\ \A x \in Records : x \in Elems(c[b]) <=> x \in S /\ h[x].hashv % n = b

(* Nothing but the pointers of the chains was changed. *)
SameOrder(h, h2) ==
    \A y \in Records : h2[y].next = h[y].next /\ h2[y].prev = h[y].prev
                       /\ h2[y].hashv = h[y].hashv

(* HASH_TO_BKT (uthash.h:175) is the number of a bucket. *)
LEMMA Remainder ==
    ASSUME NEW a \in Nat, NEW n \in Nat \ {0}
    PROVE  a % n \in 0..n - 1 /\ a % n \in Nat
OBVIOUS

(* The pointers that HASH_ADD_TO_BKT writes, one by one. *)
LEMMA PushFrontFacts ==
    ASSUME NEW h \in [Records -> Handle], NEW bucket \in Bucket, NEW x \in Records
    PROVE  LET h2 == PushFront(h, bucket, x)
           IN  /\ h2 \in [Records -> Handle]
               /\ SameOrder(h, h2)
               /\ \A y \in Records :
                    /\ h2[y].hh_next = IF y = x THEN bucket.hh_head ELSE h[y].hh_next
                    /\ h2[y].hh_prev = IF y = x THEN NULL
                                       ELSE IF y = bucket.hh_head THEN x ELSE h[y].hh_prev
<1> DEFINE h2 == PushFront(h, bucket, x)
<1>1. \A y \in Records :
        h2[y] = CASE y = x -> [h[x] EXCEPT !.hh_prev = NULL, !.hh_next = bucket.hh_head]
                  [] y = bucket.hh_head /\ y # x -> [h[y] EXCEPT !.hh_prev = x]
                  [] OTHER -> h[y]
  BY DEF PushFront
<1>2. h2 = [y \in Records |-> h2[y]] BY DEF PushFront
<1> HIDE DEF h2
<1>3. ASSUME NEW y \in Records
      PROVE /\ h2[y] \in Handle
            /\ h2[y].next = h[y].next /\ h2[y].prev = h[y].prev
            /\ h2[y].hashv = h[y].hashv
            /\ h2[y].hh_next = IF y = x THEN bucket.hh_head ELSE h[y].hh_next
            /\ h2[y].hh_prev = IF y = x THEN NULL
                               ELSE IF y = bucket.hh_head THEN x ELSE h[y].hh_prev
  <2>1. CASE y = x
    <3>1. h2[y] = [h[x] EXCEPT !.hh_prev = NULL, !.hh_next = bucket.hh_head] BY <2>1, <1>1
    <3>2. bucket.hh_head \in Records \cup {NULL} BY DEF Bucket
    <3>3. h[x] \in Handle OBVIOUS
    <3>4. h2[y] \in Handle BY <3>1, <3>2, <3>3 DEF Handle
    <3>5. /\ h2[y].next = h[x].next /\ h2[y].prev = h[x].prev /\ h2[y].hashv = h[x].hashv
          /\ h2[y].hh_next = bucket.hh_head /\ h2[y].hh_prev = NULL
      BY <3>1, <3>3 DEF Handle
    <3> QED BY <2>1, <3>4, <3>5
  <2>2. CASE y # x /\ y = bucket.hh_head
    <3>1. h2[y] = [h[y] EXCEPT !.hh_prev = x] BY <2>2, <1>1
    <3> QED BY <2>2, <3>1 DEF Handle
  <2>3. CASE y # x /\ y # bucket.hh_head
    <3>1. h2[y] = h[y] BY <2>3, <1>1
    <3> QED BY <2>3, <3>1 DEF Handle
  <2> QED BY <2>1, <2>2, <2>3
<1> QED BY <1>2, <1>3 DEF SameOrder, h2

(* The chains depend on nothing but hh_next, hh_prev and hashv. *)
LEMMA ChainedFrame ==
    ASSUME NEW h, NEW h2, NEW B, NEW n, NEW c, NEW S, S \subseteq Records,
           Chained(h, B, n, c, S),
           \A y \in Records : h2[y].hh_next = h[y].hh_next /\ h2[y].hh_prev = h[y].hh_prev,
           \A y \in S : h2[y].hashv = h[y].hashv
    PROVE  Chained(h2, B, n, c, S)
<1>1. ChainNext(h2) = ChainNext(h) /\ ChainPrev(h2) = ChainPrev(h) BY DEF ChainNext, ChainPrev
<1> QED BY <1>1 DEF Chained

(* Bucket b got x as its first and was counted up. *)
GrownAt(B, B2, n, b, x) ==
    /\ B2[b].hh_head = x /\ B2[b].count = B[b].count + 1
    /\ \A d \in 0..n - 1 : d # b => B2[d] = B[d]

(* An element pushed into the bucket of its hash value: the chains hold it *)
(* as well.                                                                *)
LEMMA PushChain ==
    ASSUME NEW n \in Nat \ {0}, NEW h \in [Records -> Handle], NEW S, S \subseteq Records,
           NEW x \in Records \ S, NEW c, NEW B \in [0..n - 1 -> Bucket], NEW B2,
           Chained(h, B, n, c, S),
           GrownAt(B, B2, n, h[x].hashv % n, x)
    PROVE  LET b == h[x].hashv % n
           IN  Chained(PushFront(h, B[b], x), B2, n, [c EXCEPT ![b] = Pushed(x, c[b])],
                       S \cup {x})
<1> DEFINE b == h[x].hashv % n
           h2 == PushFront(h, B[b], x)
           s == c[b]
           c2 == [c EXCEPT ![b] = Pushed(x, s)]
           N1 == ChainNext(h)
           P1 == ChainPrev(h)
           N2 == ChainNext(h2)
           P2 == ChainPrev(h2)
<1>1. b \in 0..n - 1
  <2>1. h[x].hashv \in Nat BY DEF Handle
  <2> QED BY <2>1, Remainder
<1>2. c \in [0..n - 1 -> Seq(Records)] /\ s \in Seq(Records) BY <1>1 DEF Chained
<1>3. /\ B[b] \in Bucket /\ B[b].hh_head \in Records \cup {NULL} BY <1>1 DEF Bucket
<1>4. /\ SameOrder(h, h2)
      /\ \A y \in Records :
           /\ N2[y] = IF y = x THEN B[b].hh_head ELSE N1[y]
           /\ P2[y] = IF y = x THEN NULL ELSE IF y = B[b].hh_head THEN x ELSE P1[y]
  <2>1. /\ SameOrder(h, h2)
        /\ \A y \in Records :
             /\ h2[y].hh_next = IF y = x THEN B[b].hh_head ELSE h[y].hh_next
             /\ h2[y].hh_prev = IF y = x THEN NULL
                                ELSE IF y = B[b].hh_head THEN x ELSE h[y].hh_prev
    BY <1>3, PushFrontFacts
  <2> HIDE DEF h2
  <2> QED BY <2>1 DEF ChainNext, ChainPrev
<1>5. B2[b].hh_head = x /\ B2[b].count = B[b].count + 1
      /\ \A d \in 0..n - 1 : d # b => B2[d] = B[d]
  BY DEF GrownAt
<1>6. \A d \in 0..n - 1 :
         /\ Distinct(c[d])
         /\ Linked(c[d], B[d].hh_head, N1, P1, NULL)
         /\ B[d].count = Len(c[d])
         /\ \A y \in Records : y \in Elems(c[d]) <=> y \in S /\ h[y].hashv % n = d
  BY DEF Chained
<1> HIDE DEF b, h2, s, N1, N2, P1, P2
<1>7. \A y \in Records : h2[y].hashv = h[y].hashv BY <1>4 DEF SameOrder
<1>8. /\ Distinct(s) /\ Linked(s, B[b].hh_head, N1, P1, NULL) /\ B[b].count = Len(s)
      /\ \A y \in Records : y \in Elems(s) <=> y \in S /\ h[y].hashv % n = b
  BY <1>1, <1>6 DEF s
<1>9. x \in Records \ Elems(s) /\ Len(s) \in Nat /\ s \in [1..Len(s) -> Records]
      /\ Elems(s) \subseteq Records
  BY <1>8, <1>2, SeqFacts
<1>10. /\ Pushed(x, s) \in Seq(Records) /\ Len(Pushed(x, s)) = Len(s) + 1
       /\ Distinct(Pushed(x, s)) /\ Elems(Pushed(x, s)) = Elems(s) \cup {x}
  BY <1>2, <1>8, <1>9, PushedFacts
<1>11. c2 \in [0..n - 1 -> Seq(Records)] /\ c2[b] = Pushed(x, s)
       /\ \A d \in 0..n - 1 : d # b => c2[d] = c[d]
  BY <1>1, <1>2, <1>10
<1> HIDE DEF c2
<1>12. /\ Distinct(c2[b]) /\ B2[b].count = Len(c2[b])
       /\ \A y \in Records : y \in Elems(c2[b]) <=> y \in S \cup {x} /\ h2[y].hashv % n = b
  <2>1. Distinct(c2[b]) BY <1>10, <1>11
  <2>2. B2[b].count = Len(c2[b]) BY <1>5, <1>8, <1>10, <1>11
  <2>3. ASSUME NEW y \in Records
        PROVE  y \in Elems(c2[b]) <=> y \in S \cup {x} /\ h2[y].hashv % n = b
    <3>1. h2[y].hashv = h[y].hashv /\ h[x].hashv % n = b BY <1>7 DEF b
    <3>2. y \in Elems(s) <=> y \in S /\ h[y].hashv % n = b BY <1>8
    <3>3. Elems(c2[b]) = Elems(s) \cup {x} BY <1>10, <1>11
    <3> QED BY <3>1, <3>2, <3>3
  <2> QED BY <2>1, <2>2, <2>3
<1>13. Linked(c2[b], B2[b].hh_head, N2, P2, NULL)
  <2>1. B[b].hh_head = At(s, 1, NULL) BY <1>8 DEF Linked
  <2>2. N2[x] = B[b].hh_head /\ P2[x] = NULL BY <1>4
  <2>3. ASSUME NEW i \in 1..Len(s)
        PROVE  N2[s[i]] = N1[s[i]] /\ P2[s[i]] = IF i = 1 THEN x ELSE P1[s[i]]
    <3>1. s[i] \in Records /\ s[i] # x BY <1>9 DEF Elems
    <3>2. 1 \in 1..Len(s) /\ B[b].hh_head = s[1] BY <2>1, <1>9 DEF At
    <3>3. s[i] = s[1] <=> i = 1 BY <3>2, <1>8 DEF Distinct
    <3> QED BY <3>1, <3>2, <3>3, <1>4
  <2>4. Linked(Pushed(x, s), x, N2, P2, NULL)
    <3> DEFINE f == B[b].hh_head
    <3>1. Linked(s, f, N1, P1, NULL) /\ N2[x] = f BY <1>8, <2>2
    <3>2. PushedAt(x, s, f, N1, P1, N2, P2, NULL) BY <2>2, <2>3 DEF PushedAt
    <3> HIDE DEF f
    <3> QED BY <1>2, <1>8, <1>9, <2>2, <3>1, <3>2, PushedLinked
  <2> QED BY <2>4, <1>5, <1>11
<1>14. ASSUME NEW d \in 0..n - 1, d # b
       PROVE  /\ Distinct(c2[d]) /\ B2[d].count = Len(c2[d])
              /\ Linked(c2[d], B2[d].hh_head, N2, P2, NULL)
              /\ \A y \in Records : y \in Elems(c2[d])
                                    <=> y \in S \cup {x} /\ h2[y].hashv % n = d
  <2>1. c2[d] = c[d] /\ B2[d] = B[d] BY <1>5, <1>11, <1>14
  <2>2. \A y \in Elems(c[d]) : y \in Records /\ y # x /\ y # B[b].hh_head
    <3> SUFFICES ASSUME NEW y \in Elems(c[d])
                 PROVE y \in Records /\ y # x /\ y # B[b].hh_head OBVIOUS
    <3>1. y \in Records BY <1>2, SeqFacts
    <3>2. y \in S /\ h[y].hashv % n = d BY <3>1, <1>6
    <3>3. y \notin Elems(s) BY <3>1, <3>2, <1>8, <1>14
    <3>4. B[b].hh_head = At(s, 1, NULL) BY <1>8 DEF Linked
    <3>5. At(s, 1, NULL) = NULL \/ At(s, 1, NULL) \in Elems(s) BY DEF At, Elems
    <3> QED BY <3>1, <3>2, <3>3, <3>4, <3>5, NodesAssumption
  <2>3. \A y \in Elems(c[d]) : N2[y] = N1[y] /\ P2[y] = P1[y] BY <2>2, <1>4
  <2>4. Linked(c[d], B[d].hh_head, N1, P1, NULL) BY <1>6
  <2>5. Linked(c[d], B[d].hh_head, N2, P2, NULL) BY <2>3, <2>4, LinkedFrame
  <2>6. \A y \in Records : y \in Elems(c2[d]) <=> y \in S \cup {x} /\ h2[y].hashv % n = d
    <3>1. h[x].hashv % n # d BY <1>14 DEF b
    <3> QED BY <3>1, <2>1, <1>6, <1>7
  <2> QED BY <2>1, <2>5, <2>6, <1>6
<1>15. Chained(h2, B2, n, c2, S \cup {x})
  BY <1>11, <1>12, <1>13, <1>14 DEF Chained, N2, P2
<1> QED BY <1>15 DEF c2, s, h2, b
-----------------------------------------------------------------------------
(* Two sequences without an element in common, one after the other. *)
LEMMA ConcatFacts ==
    ASSUME NEW E, NEW s \in Seq(E), NEW t \in Seq(E), Distinct(s), Distinct(t),
           Elems(s) \cap Elems(t) = {}
    PROVE  /\ s \o t \in Seq(E) /\ Len(s \o t) = Len(s) + Len(t)
           /\ Distinct(s \o t) /\ Elems(s \o t) = Elems(s) \cup Elems(t)
<1> DEFINE m == Len(s)
           n == Len(t)
           a == s \o t
<1>1. m \in Nat /\ n \in Nat /\ s \in [1..m -> E] /\ t \in [1..n -> E] BY SeqFacts
<1>2. a \in Seq(E) /\ Len(a) = m + n
      /\ \A i \in 1..m + n : a[i] = IF i <= m THEN s[i] ELSE t[i - m]
  OBVIOUS
<1>3. Elems(s) = {s[i] : i \in 1..m} /\ Elems(t) = {t[i] : i \in 1..n}
      /\ Elems(a) = {a[i] : i \in 1..m + n}
  BY <1>2 DEF Elems
<1>4. (\A i, j \in 1..m : s[i] = s[j] => i = j) /\ (\A i, j \in 1..n : t[i] = t[j] => i = j)
  BY DEF Distinct
<1> HIDE DEF m, n, a
<1>5. \A i \in 1..m : i \in 1..m + n /\ i <= m BY <1>1
<1>6. \A i \in 1..n : i + m \in 1..m + n /\ ~(i + m <= m) /\ (i + m) - m = i BY <1>1
<1>7. \A i \in 1..m + n : IF i <= m THEN i \in 1..m
                          ELSE i - m \in 1..n /\ (i - m) + m = i
  BY <1>1
<1>8. Elems(a) = Elems(s) \cup Elems(t)
  <2>1. \A i \in 1..m : a[i] = s[i] BY <1>2, <1>5
  <2>2. \A i \in 1..n : a[i + m] = t[i] BY <1>2, <1>6
  <2>3. \A i \in 1..m + n : a[i] \in Elems(s) \cup Elems(t) BY <1>2, <1>3, <1>7
  <2> QED BY <2>1, <2>2, <2>3, <1>3, <1>5, <1>6
<1>9. Distinct(a)
  <2> SUFFICES ASSUME NEW i \in 1..m + n, NEW j \in 1..m + n, a[i] = a[j] PROVE i = j
    BY <1>2 DEF Distinct
  <2>1. a[i] = (IF i <= m THEN s[i] ELSE t[i - m])
        /\ a[j] = (IF j <= m THEN s[j] ELSE t[j - m])
    BY <1>2
  <2>2. CASE i <= m /\ j <= m BY <2>1, <2>2, <1>4, <1>7
  <2>3. CASE ~(i <= m) /\ ~(j <= m)
    <3>1. i - m = j - m BY <2>1, <2>3, <1>4, <1>7
    <3> QED BY <3>1, <1>7, <2>3
  <2>4. CASE i <= m /\ ~(j <= m) BY <2>1, <2>4, <1>3, <1>7
  <2>5. CASE ~(i <= m) /\ j <= m BY <2>1, <2>5, <1>3, <1>7
  <2> QED BY <2>2, <2>3, <2>4, <2>5
<1> QED BY <1>2, <1>8, <1>9 DEF a, m, n

(* A sequence with no element twice is as long as it has entries. *)
LEMMA DistinctCount ==
    ASSUME NEW E, NEW s \in Seq(E), Distinct(s)
    PROVE  IsFiniteSet(Elems(s)) /\ Cardinality(Elems(s)) = Len(s)
<1> DEFINE n == Len(s)
<1>1. n \in Nat /\ s \in [1..n -> E] BY SeqFacts
<1>2. IsFiniteSet(1..n) /\ Cardinality(1..n) = n BY <1>1, IndexSet
<1>3. s \in Bijection(1..n, Elems(s))
  BY <1>1 DEF Bijection, Injection, Surjection, IsInjective, Elems, Distinct
<1>4. ExistsBijection(1..n, Elems(s)) BY <1>3 DEF ExistsBijection
<1> HIDE DEF n
<1>5. Cardinality(Elems(s)) = n /\ IsFiniteSet(Elems(s)) BY <1>2, <1>4, FS_Bijection
<1> QED BY <1>5 DEF n

(* p[i] is the sum of the first i values of f. *)
PrefixSums(p, n, f) ==
    /\ p \in [0..n -> Nat] /\ p[0] = 0
    /\ \A i \in 1..n : p[i] = p[i - 1] + f[i - 1]

(* The lengths of the chains. *)
Counts(B, n) == [b \in 0..n - 1 |-> B[b].count]

(* A walk along the pointers of a bucket meets its chain. *)
LEMMA ChainIs ==
    ASSUME NEW h, NEW B, NEW n, NEW c, NEW S, Chained(h, B, n, c, S), NEW b \in 0..n - 1
    PROVE  Chain(h, B[b]) = c[b]
<1> DEFINE s == c[b]
           step == ChainNext(h)
           first == B[b].hh_head
<1>1. Distinct(s) /\ s \in Seq(Records) BY DEF Chained
<1>2. first = At(s, 1, NULL) /\ \A i \in 1..Len(s) : step[s[i]] = At(s, i + 1, NULL)
  BY DEF Chained, Linked
<1>3. Chain(h, B[b]) = Walk(first, step) BY DEF Chain
<1> HIDE DEF s, step, first
<1>4. Walk(first, step) = s BY <1>1, <1>2, WalkFollows
<1> QED BY <1>3, <1>4 DEF s

(* The two loops of HASH_EXPAND_BUCKETS (uthash.h:723) meet every element  *)
(* of the table once, and as many as the buckets count.                    *)
LEMMA BucketItemsFacts ==
    ASSUME NEW h, NEW t, NEW c, NEW S, S \subseteq Records, t.num_buckets \in Nat \ {0},
           \A x \in Records : h[x].hashv \in Nat,
           Chained(h, t.buckets, t.num_buckets, c, S)
    PROVE  LET items == BucketItems(h, t)
           IN  /\ items \in Seq(Records) /\ Distinct(items) /\ Elems(items) = S
               /\ \E p : /\ PrefixSums(p, t.num_buckets, Counts(t.buckets, t.num_buckets))
                         /\ p[t.num_buckets] = Len(items)
<1> DEFINE n == t.num_buckets
           B == t.buckets
           Eq(f) == f = [m \in 0..n |-> IF m = 0 THEN <<>> ELSE f[m - 1] \o Chain(h, B[m - 1])]
           upto == CHOOSE f : Eq(f)
           p == [m \in 0..n |-> Len(upto[m])]
<1>0. BucketItems(h, t) = upto[n] BY Zenon DEF BucketItems
<1>1. n \in Nat \ {0} /\ c \in [0..n - 1 -> Seq(Records)] BY DEF Chained
<1>2. ASSUME NEW b \in 0..n - 1
      PROVE  /\ Distinct(c[b]) /\ B[b].count = Len(c[b]) /\ c[b] \in Seq(Records)
             /\ \A x \in Records : x \in Elems(c[b]) <=> x \in S /\ h[x].hashv % n = b
             /\ Chain(h, B[b]) = c[b]
  <2>1. Chain(h, B[b]) = c[b] BY <1>1, ChainIs
  <2> QED BY <2>1, <1>1 DEF Chained
<1>3. Eq(upto)
  <2> DEFINE Q == Seq(Records)
             R == [i \in 1..n |-> [q \in Q |-> q \o c[i - 1]]]
  <2>1. <<>> \in Q OBVIOUS
  <2>2. R \in [1..n -> [Q -> Q]]
    <3> SUFFICES ASSUME NEW i \in 1..n, NEW q \in Q PROVE q \o c[i - 1] \in Q OBVIOUS
    <3>1. i - 1 \in 0..n - 1 BY <1>1
    <3> QED BY <3>1, <1>1
  <2>3. \E f \in [0..n -> Q] : f[0] = <<>> /\ \A i \in 1..n : f[i] = R[i][f[i - 1]]
    <3> DEFINE a == <<>>
    <3>1. a \in Q BY <2>1
    <3>2. n \in Nat BY <1>1
    <3> HIDE DEF R, Q, n, a
    <3>3. \E f \in [0..n -> Q] : Iterates(f, n, a, R) BY <2>2, <3>1, <3>2, Iteration
    <3> QED BY <3>3 DEF a, Iterates
  <2>4. PICK f \in [0..n -> Q] : f[0] = <<>> /\ \A i \in 1..n : f[i] = R[i][f[i - 1]] BY <2>3
  <2>5. ASSUME NEW m \in 0..n
        PROVE f[m] = IF m = 0 THEN <<>> ELSE f[m - 1] \o Chain(h, B[m - 1])
    <3>1. CASE m = 0 BY <3>1, <2>4
    <3>2. CASE m # 0
      <4>1. m \in 1..n /\ m - 1 \in 0..n /\ m - 1 \in 0..n - 1 BY <3>2, <1>1
      <4>2. f[m - 1] \in Q BY <4>1
      <4>3. f[m] = f[m - 1] \o c[m - 1] BY <4>1, <4>2, <2>4
      <4>4. Chain(h, B[m - 1]) = c[m - 1] BY <4>1, <1>2
      <4> QED BY <3>2, <4>3, <4>4
    <3> QED BY <3>1, <3>2
  <2>6. Eq(f)
    <3> HIDE DEF n, Q, R, B
    <3>1. f = [m \in 0..n |-> f[m]] OBVIOUS
    <3>2. [m \in 0..n |-> f[m]]
            = [m \in 0..n |-> IF m = 0 THEN <<>> ELSE f[m - 1] \o Chain(h, B[m - 1])]
      BY <2>5, Zenon
    <3> QED BY <3>1, <3>2, Zenon
  <2> HIDE DEF Eq
  <2> QED BY <2>6, Zenon
<1> HIDE DEF upto
<1>4. upto[0] = <<>> /\ \A m \in 1..n : upto[m] = upto[m - 1] \o c[m - 1]
  <2>1. 0 \in 0..n /\ \A m \in 1..n : m \in 0..n /\ m # 0 /\ m - 1 \in 0..n - 1 BY <1>1
  <2>2. \A m \in 0..n : upto[m] = IF m = 0 THEN <<>> ELSE upto[m - 1] \o Chain(h, B[m - 1])
    <3> HIDE DEF n, B
    <3> QED BY <1>3, Zenon
  <2> HIDE DEF n, B
  <2> QED BY <2>1, <2>2, <1>2
<1> HIDE DEF n, B
<1>5. \A x \in S : h[x].hashv % n \in 0..n - 1 BY <1>1, Remainder
<1> DEFINE Below(m) == {x \in S : h[x].hashv % n < m}
           Good(m) == upto[m] \in Seq(Records) /\ Distinct(upto[m]) /\ Elems(upto[m]) = Below(m)
<1>6. Good(0)
  <2>1. Distinct(<<>>) /\ Elems(<<>>) = {} /\ <<>> \in Seq(Records) BY DEF Distinct, Elems
  <2>2. Below(0) = {} BY <1>5
  <2> QED BY <2>1, <2>2, <1>4
<1>7. ASSUME NEW m \in 1..n, Good(m - 1)
      PROVE  Good(m) /\ Len(upto[m]) = Len(upto[m - 1]) + Len(c[m - 1])
  <2>1. m - 1 \in 0..n - 1 BY <1>1
  <2> DEFINE s == upto[m - 1]
             u == c[m - 1]
  <2>2. s \in Seq(Records) /\ Distinct(s) /\ Elems(s) = Below(m - 1) BY <1>7
  <2>3. u \in Seq(Records) /\ Distinct(u)
        /\ \A x \in Records : x \in Elems(u) <=> x \in S /\ h[x].hashv % n = m - 1
    BY <2>1, <1>2
  <2>4. Elems(u) \subseteq Records BY <2>3, SeqFacts
  <2>5. upto[m] = s \o u BY <1>4
  <2>6. Elems(s) \cap Elems(u) = {} BY <2>1, <2>2, <2>3, <2>4, <1>1
  <2>7. Elems(s) \cup Elems(u) = Below(m)
    <3>1. ASSUME NEW x \in S
          PROVE  h[x].hashv % n < m <=> h[x].hashv % n < m - 1 \/ h[x].hashv % n = m - 1
      <4> DEFINE k == h[x].hashv % n
      <4>1. k \in Int /\ m \in Int BY <1>5, <1>1
      <4> HIDE DEF k
      <4>2. k < m <=> k < m - 1 \/ k = m - 1 BY <4>1
      <4> QED BY <4>2 DEF k
    <3> QED BY <3>1, <2>2, <2>3, <2>4
  <2> HIDE DEF s, u, Below
  <2>8. s \o u \in Seq(Records) /\ Len(s \o u) = Len(s) + Len(u)
        /\ Distinct(s \o u) /\ Elems(s \o u) = Elems(s) \cup Elems(u)
    BY <2>2, <2>3, <2>6, ConcatFacts
  <2> QED BY <2>5, <2>7, <2>8 DEF s, u
<1>8. \A m \in 0..n : Good(m)
  <2> DEFINE T == {m \in 0..n : ~Good(m)}
  <2> SUFFICES ASSUME T # {} PROVE FALSE OBVIOUS
  <2>1. T \subseteq Nat BY <1>1
  <2> HIDE DEF Good
  <2>2. PICK m \in T : \A k \in T : m <= k
    <3> HIDE DEF T
    <3> QED BY <2>1, LeastElement
  <2>3. m # 0 BY <2>2, <1>6
  <2>4. m \in 1..n /\ m - 1 \in 0..n /\ ~(m <= m - 1) BY <2>2, <2>3, <1>1
  <2>5. Good(m - 1) BY <2>2, <2>4
  <2> QED BY <2>2, <2>4, <2>5, <1>7
<1>9. upto[n] \in Seq(Records) /\ Distinct(upto[n]) /\ Elems(upto[n]) = S
  <2>1. n \in 0..n BY <1>1
  <2>2. Below(n) = S BY <1>1, <1>5
  <2> QED BY <2>1, <2>2, <1>8
<1>10. PrefixSums(p, n, Counts(B, n)) /\ p[n] = Len(upto[n])
  <2>1. \A m \in 0..n : Len(upto[m]) \in Nat BY <1>8, SeqFacts
  <2>2. p \in [0..n -> Nat] BY <2>1
  <2>3. p[0] = 0 /\ p[n] = Len(upto[n]) BY <1>1, <1>4
  <2>4. ASSUME NEW m \in 1..n PROVE p[m] = p[m - 1] + Counts(B, n)[m - 1]
    <3>1. m - 1 \in 0..n /\ m \in 0..n /\ m - 1 \in 0..n - 1 BY <1>1
    <3> HIDE DEF Good
    <3>2. Len(upto[m]) = Len(upto[m - 1]) + Len(c[m - 1]) BY <3>1, <1>7, <1>8
    <3>3. Counts(B, n)[m - 1] = Len(c[m - 1]) BY <3>1, <1>2 DEF Counts
    <3>4. p[m] = Len(upto[m]) /\ p[m - 1] = Len(upto[m - 1]) BY <3>1
    <3> QED BY <3>2, <3>3, <3>4
  <2> QED BY <2>2, <2>3, <2>4 DEF PrefixSums
<1> HIDE DEF p
<1> QED BY <1>0, <1>9, <1>10 DEF n, B
-----------------------------------------------------------------------------
(* What HASH_EXPAND_BUCKETS works on: N new buckets, with the ideal chain  *)
(* length I.                                                               *)
RehashState(N, I) ==
    [handles : [Records -> Handle], ideal : {I}, num_buckets : {N},
     buckets : [0..N - 1 -> Bucket], nonideal_items : Nat]

(* A new bucket while it is filled: with the multiplier m it has m times   *)
(* the ideal length or more, and less than m + 1 times it, but for one     *)
(* whose chain is of just the ideal length.                                *)
Filled(bucket, I) ==
    /\ bucket.expand_mult * I <= bucket.count
    /\ \/ bucket.count < (bucket.expand_mult + 1) * I
       \/ bucket.expand_mult = 0 /\ bucket.count = I

(* What a quotient of natural numbers says. *)
LEMMA Quotient ==
    ASSUME NEW a \in Nat, NEW d \in Nat \ {0}
    PROVE  a \div d \in Nat /\ (a \div d) * d <= a /\ a < (a \div d + 1) * d
OBVIOUS

(* The multiplier as uthash.h:730 computes it keeps a bucket Filled when   *)
(* one more element comes.                                                 *)
LEMMA FillOne ==
    ASSUME NEW I \in Nat \ {0}, NEW bucket \in Bucket, Filled(bucket, I), NEW bucket2,
           bucket2.count = bucket.count + 1,
           bucket2.expand_mult = IF bucket.count + 1 > I THEN (bucket.count + 1) \div I
                                 ELSE bucket.expand_mult
    PROVE  Filled(bucket2, I)
<1> DEFINE k == bucket.count
           m == bucket.expand_mult
           k2 == bucket2.count
           m2 == bucket2.expand_mult
<1>1. k \in Nat /\ m \in Nat BY DEF Bucket
<1>2. k2 = k + 1 /\ m2 = IF k + 1 > I THEN (k + 1) \div I ELSE m OBVIOUS
<1>3. m * I <= k BY DEF Filled
<1> HIDE DEF k, m, k2, m2
<1>4. CASE k + 1 > I
  <2>1. m2 = (k + 1) \div I /\ k + 1 \in Nat BY <1>1, <1>2, <1>4
  <2>2. m2 * I <= k + 1 /\ k + 1 < (m2 + 1) * I BY <2>1, Quotient
  <2> QED BY <2>2, <1>2 DEF Filled, k2, m2
<1>5. CASE ~(k + 1 > I)
  <2>1. k < I /\ k + 1 <= I BY <1>1, <1>5
  <2>2. m = 0
    <3> SUFFICES ASSUME m >= 1 PROVE FALSE BY <1>1
    <3>1. m * I >= 1 * I BY <1>1
    <3> QED BY <3>1, <2>1, <1>1, <1>3
  <2>3. m2 = 0 /\ k2 \in Nat /\ k2 <= I BY <2>1, <2>2, <1>1, <1>2, <1>5
  <2>4. m2 * I = 0 /\ (m2 + 1) * I = I BY <2>3
  <2>5. m2 * I <= k2 BY <2>3, <2>4
  <2>6. k2 < I \/ k2 = I BY <2>3
  <2>7. k2 < (m2 + 1) * I \/ (m2 = 0 /\ k2 = I) BY <2>3, <2>4, <2>6
  <2> QED BY <2>5, <2>7 DEF Filled, k2, m2
<1> QED BY <1>4, <1>5

(* What one turn of the inner loop of HASH_EXPAND_BUCKETS (uthash.h:721)   *)
(* leaves: element x is at the front of bucket b, which counts one more    *)
(* and has its expand_mult set when the chain is longer than ideal; the    *)
(* other buckets are as they were.                                         *)
RehashedOne(st, st2, x, b, N, I) ==
    /\ b \in 0..N - 1
    /\ st2.handles = PushFront(st.handles, st.buckets[b], x)
    /\ st2.buckets[b].hh_head = x
    /\ st2.buckets[b].count = st.buckets[b].count + 1
    /\ st2.buckets[b].expand_mult =
         IF st.buckets[b].count + 1 > I THEN (st.buckets[b].count + 1) \div I
         ELSE st.buckets[b].expand_mult
    /\ \A d \in 0..N - 1 : d # b => st2.buckets[d] = st.buckets[d]

(* What one turn of HASH_EXPAND_BUCKETS writes. *)
LEMMA RehashFacts ==
    ASSUME NEW N \in Nat \ {0}, NEW I \in Nat \ {0}, NEW st \in RehashState(N, I),
           NEW x \in Records
    PROVE  /\ Rehash(st, x) \in RehashState(N, I)
           /\ RehashedOne(st, Rehash(st, x), x, st.handles[x].hashv % N, N, I)
<1> DEFINE b == st.handles[x].hashv % N
           bucket == st.buckets[b]
           count == bucket.count + 1
           nonideal == count > I
           h2 == PushFront(st.handles, bucket, x)
           new == [hh_head |-> x, count |-> count,
                   expand_mult |-> IF nonideal THEN count \div I ELSE bucket.expand_mult]
           more == IF nonideal THEN st.nonideal_items + 1 ELSE st.nonideal_items
           st2 == Rehash(st, x)
<1>1. st.handles \in [Records -> Handle] /\ st.ideal = I /\ st.num_buckets = N
      /\ st.buckets \in [0..N - 1 -> Bucket] /\ st.nonideal_items \in Nat
  BY DEF RehashState
<1>2. b \in 0..N - 1
  <2>1. st.handles[x].hashv \in Nat BY <1>1 DEF Handle
  <2> QED BY <2>1, Remainder
<1>3. bucket \in Bucket BY <1>1, <1>2
<1>4. st2 = [st EXCEPT !.handles = h2, !.buckets[b] = new,
                       !.nonideal_items = more]
  BY <1>1 DEF Rehash, HASH_TO_BKT
<1> HIDE DEF b, st2
<1>5. h2 \in [Records -> Handle] BY <1>1, <1>3, PushFrontFacts
<1>6. new \in Bucket /\ new.hh_head = x /\ new.count = count
      /\ new.expand_mult = IF nonideal THEN count \div I ELSE bucket.expand_mult
  <2>1. bucket.count \in Nat /\ bucket.expand_mult \in Nat BY <1>3 DEF Bucket
  <2>2. count \in Nat BY <2>1
  <2>3. count \div I \in Nat BY <2>2, Quotient
  <2> QED BY <2>1, <2>2, <2>3 DEF Bucket
<1>w. more \in Nat BY <1>1
<1> HIDE DEF new, h2, nonideal, count, more
<1>7. st2.handles = h2 /\ st2.buckets = [st.buckets EXCEPT ![b] = new]
      /\ st2.ideal = I /\ st2.num_buckets = N
  BY <1>1, <1>4 DEF RehashState
<1>8. st2 \in RehashState(N, I)
  <2>1. [st.buckets EXCEPT ![b] = new] \in [0..N - 1 -> Bucket] BY <1>1, <1>2, <1>6
  <2> QED BY <1>1, <1>4, <1>5, <1>w, <2>1 DEF RehashState
<1>9. st2.buckets[b] = new /\ \A d \in 0..N - 1 : d # b => st2.buckets[d] = st.buckets[d]
  BY <1>1, <1>2, <1>7
<1>10. RehashedOne(st, st2, x, b, N, I)
  BY <1>2, <1>6, <1>7, <1>9 DEF RehashedOne, bucket, h2, count, nonideal
<1> QED BY <1>8, <1>10 DEF b, st2

(* One turn of HASH_EXPAND_BUCKETS moves one element into the new buckets  *)
(* and keeps all of them Filled.                                           *)
LEMMA RehashChains ==
    ASSUME NEW N \in Nat \ {0}, NEW I \in Nat \ {0}, NEW st \in RehashState(N, I),
           NEW S, S \subseteq Records, NEW x \in Records \ S, NEW c,
           Chained(st.handles, st.buckets, N, c, S),
           \A d \in 0..N - 1 : Filled(st.buckets[d], I)
    PROVE  LET st2 == Rehash(st, x)
           IN  /\ SameOrder(st.handles, st2.handles)
               /\ \E c2 : Chained(st2.handles, st2.buckets, N, c2, S \cup {x})
               /\ \A d \in 0..N - 1 : Filled(st2.buckets[d], I)
<1> DEFINE h == st.handles
           B == st.buckets
           st2 == Rehash(st, x)
           B2 == st2.buckets
           b == h[x].hashv % N
<1>1. h \in [Records -> Handle] /\ B \in [0..N - 1 -> Bucket] BY DEF RehashState
<1>2. /\ b \in 0..N - 1
      /\ st2.handles = PushFront(h, B[b], x)
      /\ B2[b].hh_head = x
      /\ B2[b].count = B[b].count + 1
      /\ B2[b].expand_mult = IF B[b].count + 1 > I THEN (B[b].count + 1) \div I
                             ELSE B[b].expand_mult
      /\ \A d \in 0..N - 1 : d # b => B2[d] = B[d]
  <2>1. RehashedOne(st, st2, x, b, N, I) BY RehashFacts
  <2> HIDE DEF b, st2
  <2> QED BY <2>1 DEF RehashedOne
<1>3. Chained(h, B, N, c, S) OBVIOUS
<1>4. \A d \in 0..N - 1 : Filled(B[d], I) OBVIOUS
<1> HIDE DEF h, B, st2, B2
<1>5. B[b] \in Bucket BY <1>1, <1>2
<1>6. SameOrder(h, st2.handles) BY <1>1, <1>2, <1>5, PushFrontFacts
<1>7. Chained(st2.handles, B2, N, [c EXCEPT ![b] = Pushed(x, c[b])], S \cup {x})
  <2>1. GrownAt(B, B2, N, h[x].hashv % N, x) BY <1>2 DEF GrownAt, b
  <2>2. Chained(PushFront(h, B[b], x), B2, N, [c EXCEPT ![b] = Pushed(x, c[b])], S \cup {x})
    BY <1>1, <1>3, <2>1, PushChain DEF b
  <2> QED BY <2>2, <1>2
<1>8. \A d \in 0..N - 1 : Filled(B2[d], I)
  <2> SUFFICES ASSUME NEW d \in 0..N - 1 PROVE Filled(B2[d], I) OBVIOUS
  <2>1. CASE d = b
    <3> HIDE DEF b
    <3>1. Filled(B[b], I) BY <1>2, <1>4
    <3>2. Filled(B2[b], I) BY <1>2, <1>5, <3>1, FillOne
    <3> QED BY <2>1, <3>2
  <2>2. CASE d # b BY <2>2, <1>2, <1>4
  <2> QED BY <2>1, <2>2
<1> QED BY <1>6, <1>7, <1>8 DEF h, B2, st2

(* The state after the elements of S were moved. *)
Rehashed(start, st, N, I, S) ==
    /\ st \in RehashState(N, I)
    /\ SameOrder(start.handles, st.handles)
    /\ \E c : Chained(st.handles, st.buckets, N, c, S)
    /\ \A d \in 0..N - 1 : Filled(st.buckets[d], I)

(* All turns of HASH_EXPAND_BUCKETS together: every element is in the new  *)
(* buckets.                                                                *)
LEMMA RehashAllFacts ==
    ASSUME NEW N \in Nat \ {0}, NEW I \in Nat \ {0}, NEW start,
           Rehashed(start, start, N, I, {}),
           NEW items \in Seq(Records), Distinct(items)
    PROVE  Rehashed(start, RehashAll(start, items), N, I, Elems(items))
<1> DEFINE n == Len(items)
           Q == RehashState(N, I)
           Eq(f) == f = [m \in 0..n |-> IF m = 0 THEN start ELSE Rehash(f[m - 1], items[m])]
           after == CHOOSE f : Eq(f)
           Done(m) == {items[j] : j \in 1..m}
           Good(m) == Rehashed(start, after[m], N, I, Done(m))
<1>0. RehashAll(start, items) = after[n] BY Zenon DEF RehashAll
<1>1. n \in Nat /\ items \in [1..n -> Records] /\ Elems(items) = Done(n)
  BY SeqFacts DEF Elems
<1>2. start \in Q BY DEF Rehashed
<1>3. Eq(after)
  <2> DEFINE R == [i \in 1..n |-> [q \in Q |-> Rehash(q, items[i])]]
  <2>1. R \in [1..n -> [Q -> Q]]
    <3> SUFFICES ASSUME NEW i \in 1..n, NEW q \in Q PROVE Rehash(q, items[i]) \in Q OBVIOUS
    <3>1. items[i] \in Records BY <1>1
    <3> QED BY <3>1, RehashFacts
  <2>2. \E f \in [0..n -> Q] : Iterates(f, n, start, R)
    <3> HIDE DEF R, Q, n
    <3> QED BY <1>1, <1>2, <2>1, Iteration
  <2>3. PICK f \in [0..n -> Q] : f[0] = start /\ \A i \in 1..n : f[i] = R[i][f[i - 1]]
    BY <2>2 DEF Iterates
  <2>4. ASSUME NEW m \in 0..n
        PROVE f[m] = IF m = 0 THEN start ELSE Rehash(f[m - 1], items[m])
    <3>1. CASE m = 0 BY <3>1, <2>3
    <3>2. CASE m # 0
      <4>1. m \in 1..n /\ m - 1 \in 0..n BY <3>2, <1>1
      <4> HIDE DEF Q
      <4>2. f[m - 1] \in Q BY <4>1
      <4>3. f[m] = Rehash(f[m - 1], items[m]) BY <4>1, <4>2, <2>3
      <4> QED BY <3>2, <4>3
    <3> QED BY <3>1, <3>2
  <2>5. Eq(f)
    <3> HIDE DEF n, Q, R
    <3>1. f = [m \in 0..n |-> f[m]] OBVIOUS
    <3>2. [m \in 0..n |-> f[m]]
            = [m \in 0..n |-> IF m = 0 THEN start ELSE Rehash(f[m - 1], items[m])]
      BY <2>4, Zenon
    <3> QED BY <3>1, <3>2, Zenon
  <2> HIDE DEF Eq
  <2> QED BY <2>5, Zenon
<1> HIDE DEF after
<1>4. after[0] = start /\ \A m \in 1..n : after[m] = Rehash(after[m - 1], items[m])
  <2>1. 0 \in 0..n /\ \A m \in 1..n : m \in 0..n /\ m # 0 BY <1>1
  <2>2. \A m \in 0..n : after[m] = IF m = 0 THEN start ELSE Rehash(after[m - 1], items[m])
    <3> HIDE DEF n
    <3> QED BY <1>3, Zenon
  <2> HIDE DEF n
  <2> QED BY <2>1, <2>2
<1>5. Good(0)
  <2>1. Done(0) = {} OBVIOUS
  <2> HIDE DEF Done
  <2> QED BY <2>1, <1>4
<1>6. ASSUME NEW m \in 1..n, Good(m - 1) PROVE Good(m)
  <2> DEFINE st == after[m - 1]
             S == Done(m - 1)
             x == items[m]
             st2 == Rehash(st, x)
  <2>1. m - 1 \in 0..n /\ after[m] = st2 BY <1>1, <1>4
  <2>2. x \in Records \ S /\ S \subseteq Records /\ Done(m) = S \cup {x}
    <3>1. \A j \in 1..m - 1 : j \in 1..n /\ j \in 1..m /\ j # m BY <1>1
    <3>2. \A j \in 1..m : j = m \/ j \in 1..m - 1 BY <1>1
    <3>3. m \in 1..m BY <1>1
    <3>4. \A j \in 1..n : items[j] = items[m] => j = m BY DEF Distinct
    <3> HIDE DEF n
    <3> QED BY <3>1, <3>2, <3>3, <3>4, <1>1
  <2> HIDE DEF Done, S, x, st
  <2>3. /\ st \in RehashState(N, I) /\ SameOrder(start.handles, st.handles)
        /\ \A d \in 0..N - 1 : Filled(st.buckets[d], I)
        /\ \E c : Chained(st.handles, st.buckets, N, c, S)
    BY <1>6 DEF Rehashed, st, S
  <2>4. PICK c : Chained(st.handles, st.buckets, N, c, S) BY <2>3
  <2>5. st2 \in RehashState(N, I) BY <2>2, <2>3, RehashFacts
  <2>6. /\ SameOrder(st.handles, st2.handles)
        /\ \E c2 : Chained(st2.handles, st2.buckets, N, c2, S \cup {x})
        /\ \A d \in 0..N - 1 : Filled(st2.buckets[d], I)
    BY <2>2, <2>3, <2>4, RehashChains
  <2>7. SameOrder(start.handles, st2.handles) BY <2>3, <2>6 DEF SameOrder
  <2> HIDE DEF st2
  <2> QED BY <2>1, <2>2, <2>5, <2>6, <2>7 DEF Rehashed
<1>7. \A m \in 0..n : Good(m)
  <2> DEFINE T == {m \in 0..n : ~Good(m)}
  <2> SUFFICES ASSUME T # {} PROVE FALSE OBVIOUS
  <2>1. T \subseteq Nat BY <1>1
  <2> HIDE DEF Good
  <2>2. PICK m \in T : \A k \in T : m <= k
    <3> HIDE DEF T
    <3> QED BY <2>1, LeastElement
  <2>3. m # 0 BY <2>2, <1>5
  <2>4. m \in 1..n /\ m - 1 \in 0..n /\ ~(m <= m - 1) BY <2>2, <2>3, <1>1
  <2>5. Good(m - 1) BY <2>2, <2>4
  <2> QED BY <2>2, <2>4, <2>5, <1>6
<1>8. Good(n)
  <2>1. n \in 0..n BY <1>1
  <2> HIDE DEF Good
  <2> QED BY <2>1, <1>7
<1> QED BY <1>0, <1>1, <1>8
-----------------------------------------------------------------------------
(* The multipliers of the buckets. *)
Mults(B, n) == [b \in 0..n - 1 |-> B[b].expand_mult]

(* The multipliers add up to at most the number of buckets. *)
MultsBounded(B, n) == \E q : PrefixSums(q, n, Mults(B, n)) /\ q[n] <= n

(* The chain is below its threshold, or at it in a bucket that has no      *)
(* multiplier.                                                             *)
Tight(bucket) ==
    \/ bucket.count < (bucket.expand_mult + 1) * Threshold
    \/ bucket.expand_mult = 0 /\ bucket.count = Threshold

(* A sum exists. *)
LEMMA PrefixSumsExist ==
    ASSUME NEW n \in Nat, NEW f \in [0..n - 1 -> Nat]
    PROVE  \E p : PrefixSums(p, n, f)
<1> DEFINE R == [i \in 1..n |-> [k \in Nat |-> k + f[i - 1]]]
<1>1. R \in [1..n -> [Nat -> Nat]]
  <2> SUFFICES ASSUME NEW i \in 1..n, NEW k \in Nat PROVE k + f[i - 1] \in Nat OBVIOUS
  <2>1. i - 1 \in 0..n - 1 OBVIOUS
  <2>2. f[i - 1] \in Nat BY <2>1
  <2> QED BY <2>2
<1>2. \E p \in [0..n -> Nat] : Iterates(p, n, 0, R)
  <2> DEFINE z == 0
  <2>1. z \in Nat OBVIOUS
  <2> HIDE DEF R, z
  <2>2. \E p \in [0..n -> Nat] : Iterates(p, n, z, R) BY <1>1, <2>1, Iteration
  <2> QED BY <2>2 DEF z
<1>3. PICK p \in [0..n -> Nat] : p[0] = 0 /\ \A i \in 1..n : p[i] = R[i][p[i - 1]]
  BY <1>2 DEF Iterates
<1>4. \A i \in 1..n : p[i] = p[i - 1] + f[i - 1]
  <2> SUFFICES ASSUME NEW i \in 1..n PROVE p[i] = p[i - 1] + f[i - 1] OBVIOUS
  <2>1. p[i - 1] \in Nat OBVIOUS
  <2> QED BY <2>1, <1>3
<1> HIDE DEF R
<1> QED BY <1>3, <1>4 DEF PrefixSums

(* Buckets that are Filled, with no more elements in all than n times the  *)
(* ideal length, have multipliers that add up to at most n: bucket by      *)
(* bucket, multiplier times I is at most the count.                        *)
LEMMA MultsBound ==
    ASSUME NEW n \in Nat \ {0}, NEW I \in Nat \ {0}, NEW B \in [0..n - 1 -> Bucket],
           \A d \in 0..n - 1 : Filled(B[d], I),
           NEW p, PrefixSums(p, n, Counts(B, n)), p[n] <= n * I
    PROVE  MultsBounded(B, n)
<1> DEFINE f == Mults(B, n)
<1>1. f \in [0..n - 1 -> Nat] BY DEF Bucket, Mults
<1>2. PICK q : PrefixSums(q, n, f)
  <2> HIDE DEF f
  <2> QED BY <1>1, PrefixSumsExist
<1>3. q \in [0..n -> Nat] /\ p \in [0..n -> Nat] /\ q[0] = 0 /\ p[0] = 0
  BY <1>2 DEF PrefixSums
<1>4. ASSUME NEW i \in 1..n
      PROVE  q[i] = q[i - 1] + B[i - 1].expand_mult /\ p[i] = p[i - 1] + B[i - 1].count
  <2>1. i - 1 \in 0..n - 1 OBVIOUS
  <2> QED BY <2>1, <1>2 DEF PrefixSums, Counts, Mults
<1>5. \A i \in 0..n : q[i] * I <= p[i]
  <2> DEFINE T == {i \in 0..n : ~(q[i] * I <= p[i])}
  <2> SUFFICES ASSUME T # {} PROVE FALSE OBVIOUS
  <2>1. T \subseteq Nat OBVIOUS
  <2>2. PICK i \in T : \A k \in T : i <= k
    <3> HIDE DEF T
    <3> QED BY <2>1, LeastElement
  <2>3. i # 0
    <3>1. 0 * I <= 0 OBVIOUS
    <3> QED BY <3>1, <2>2, <1>3
  <2>4. i \in 1..n /\ i - 1 \in 0..n /\ i - 1 \in 0..n - 1 /\ ~(i <= i - 1) BY <2>2, <2>3
  <2>5. q[i - 1] * I <= p[i - 1] BY <2>2, <2>4
  <2>6. B[i - 1].expand_mult * I <= B[i - 1].count BY <2>4 DEF Filled
  <2> DEFINE u == q[i - 1]
             v == p[i - 1]
             m == B[i - 1].expand_mult
             k == B[i - 1].count
  <2>7. u \in Nat /\ v \in Nat /\ m \in Nat /\ k \in Nat BY <2>4, <1>3 DEF Bucket
  <2>8. q[i] = u + m /\ p[i] = v + k BY <2>4, <1>4
  <2>9. u * I <= v /\ m * I <= k BY <2>5, <2>6
  <2> HIDE DEF u, v, m, k
  <2>10. (u + m) * I = u * I + m * I BY <2>7
  <2>11. u * I \in Nat /\ m * I \in Nat BY <2>7
  <2>12. (u + m) * I <= v + k BY <2>7, <2>9, <2>10, <2>11
  <2> QED BY <2>2, <2>8, <2>12
<1>6. q[n] <= n
  <2>1. q[n] * I <= p[n] /\ q[n] \in Nat /\ p[n] \in Nat BY <1>3, <1>5
  <2> SUFFICES ASSUME q[n] >= n + 1 PROVE FALSE BY <2>1
  <2> DEFINE u == q[n]
             v == p[n]
  <2>2. u \in Nat /\ v \in Nat /\ u >= n + 1 /\ u * I <= v /\ v <= n * I BY <2>1
  <2> HIDE DEF u, v
  <2>3. u * I >= (n + 1) * I BY <2>2
  <2>4. (n + 1) * I = n * I + I BY <2>2
  <2>5. n * I \in Nat /\ u * I \in Nat BY <2>2
  <2> QED BY <2>2, <2>3, <2>4, <2>5
<1> QED BY <1>2, <1>6 DEF MultsBounded

(* A table that expanded so that its multipliers are bounded, and whose    *)
(* buckets are at most at their thresholds, has fewer than 2 * n *         *)
(* Threshold elements.                                                     *)
LEMMA ItemsBound ==
    ASSUME NEW n \in Nat \ {0}, NEW B \in [0..n - 1 -> Bucket],
           \A d \in 0..n - 1 : Tight(B[d]), MultsBounded(B, n),
           NEW p, PrefixSums(p, n, Counts(B, n))
    PROVE  p[n] + 1 <= (2 * n) * Threshold
<1> DEFINE T == Threshold
<1>1. T \in Nat \ {0} BY BucketsAssumption
<1>2. PICK q : PrefixSums(q, n, Mults(B, n)) /\ q[n] <= n BY DEF MultsBounded
<1>3. q \in [0..n -> Nat] /\ p \in [0..n -> Nat] /\ q[0] = 0 /\ p[0] = 0
  BY <1>2 DEF PrefixSums
<1>4. ASSUME NEW i \in 1..n
      PROVE  q[i] = q[i - 1] + B[i - 1].expand_mult /\ p[i] = p[i - 1] + B[i - 1].count
  <2>1. i - 1 \in 0..n - 1 OBVIOUS
  <2> QED BY <2>1, <1>2 DEF PrefixSums, Counts, Mults
<1> DEFINE Slack(i) == IF q[i] = 0 THEN 0 ELSE 1
           Good(i) == p[i] + Slack(i) <= (i + q[i]) * T
<1>5. ASSUME NEW i \in 1..n, Good(i - 1) PROVE Good(i)
  <2>1. i - 1 \in 0..n /\ i - 1 \in 0..n - 1 OBVIOUS
  <2> DEFINE u == q[i - 1]
             v == p[i - 1]
             m == B[i - 1].expand_mult
             k == B[i - 1].count
             one == IF u = 0 THEN 0 ELSE 1
             two == IF m = 0 THEN 0 ELSE 1
  <2>2. u \in Nat /\ v \in Nat /\ m \in Nat /\ k \in Nat BY <2>1, <1>3 DEF Bucket
  <2>3. q[i] = u + m /\ p[i] = v + k BY <1>4
  <2>4. v + one <= ((i - 1) + u) * T BY <1>5
  <2>5. Tight(B[i - 1]) BY <2>1
  <2>6. k < (m + 1) * T \/ (m = 0 /\ k = T) BY <2>5 DEF Tight
  <2> HIDE DEF u, v, m, k, T
  <2>7. k + two <= (m + 1) * T
    <3>1. (m + 1) * T \in Nat BY <1>1, <2>2
    <3>2. CASE k < (m + 1) * T
      <4> DEFINE z == (m + 1) * T
      <4>1. z \in Nat /\ k < z BY <3>1, <3>2
      <4> HIDE DEF z
      <4>2. k + 1 <= z /\ k <= z BY <4>1, <2>2
      <4> QED BY <4>2, <2>2 DEF z
    <3>3. CASE m = 0 /\ k = T
      <4>1. (m + 1) * T = T BY <3>3, <1>1
      <4> QED BY <4>1, <3>3, <1>1
    <3> QED BY <3>2, <3>3, <2>6
  <2>8. ((i - 1) + u) * T + (m + 1) * T = (i + (u + m)) * T BY <1>1, <2>2
  <2>9. ((i - 1) + u) * T \in Nat /\ (m + 1) * T \in Nat
    <3>1. (i - 1) + u \in Nat BY <2>2
    <3> QED BY <3>1, <1>1, <2>2
  <2> DEFINE x == ((i - 1) + u) * T
             y == (m + 1) * T
             w == (i + (u + m)) * T
             three == IF u + m = 0 THEN 0 ELSE 1
  <2>10. x \in Nat /\ y \in Nat /\ w = x + y /\ v + one <= x /\ k + two <= y
    BY <2>4, <2>7, <2>8, <2>9
  <2> HIDE DEF x, y, w
  <2>11. (v + k) + three <= w BY <2>2, <2>10
  <2> QED BY <2>3, <2>11 DEF w
<1>6. \A i \in 0..n : Good(i)
  <2> DEFINE M == {i \in 0..n : ~Good(i)}
  <2> SUFFICES ASSUME M # {} PROVE FALSE OBVIOUS
  <2>1. M \subseteq Nat OBVIOUS
  <2>2. Good(0)
    <3>1. (0 + q[0]) * T = 0 BY <1>1, <1>3
    <3> QED BY <3>1, <1>3
  <2> HIDE DEF Good
  <2>3. PICK i \in M : \A k \in M : i <= k
    <3> HIDE DEF M
    <3> QED BY <2>1, LeastElement
  <2>4. i # 0 BY <2>2, <2>3
  <2>5. i \in 1..n /\ i - 1 \in 0..n /\ ~(i <= i - 1) BY <2>3, <2>4
  <2>6. Good(i - 1) BY <2>3, <2>5
  <2> QED BY <2>3, <2>5, <2>6, <1>5
<1> DEFINE u == q[n]
           v == p[n]
<1>7. u \in Nat /\ v \in Nat /\ u <= n /\ v + (IF u = 0 THEN 0 ELSE 1) <= (n + u) * T
  <2>1. Good(n) BY <1>6
  <2> QED BY <2>1, <1>2, <1>3
<1> HIDE DEF u, v, T
<1>8. (2 * n) * T = n * T + n * T /\ (n + u) * T = n * T + u * T BY <1>1, <1>7
<1>9. n * T \in Nat /\ u * T \in Nat BY <1>1, <1>7
<1>10. CASE u = n
  <2>1. u # 0 /\ u * T = n * T BY <1>10
  <2> QED BY <2>1, <1>7, <1>8, <1>9 DEF v, T
<1>11. CASE u # n
  <2>1. u + 1 <= n BY <1>7, <1>11
  <2>2. (u + 1) * T <= n * T BY <2>1, <1>1, <1>7
  <2>3. (u + 1) * T = u * T + T BY <1>1, <1>7
  <2>4. v <= n * T + u * T BY <1>7, <1>8, <1>9
  <2>5. v + 1 <= n * T + n * T BY <2>2, <2>3, <2>4, <1>1, <1>7, <1>9
  <2> QED BY <2>5, <1>8 DEF v, T
<1> QED BY <1>10, <1>11
-----------------------------------------------------------------------------
(* A UT_hash_table with n buckets (uthash.h:928). *)
TableOf(n) ==
    [buckets : [0..n - 1 -> Bucket], num_buckets : {n}, num_items : Nat,
     tail : Records \cup {NULL}, ideal_chain_maxlen : Nat, nonideal_items : Nat,
     ineff_expands : Nat, noexpand : BOOLEAN]

(* CeilDiv is the quotient rounded up: how uthash.h:716 computes the ideal *)
(* chain length.                                                           *)
LEMMA Ceiling ==
    ASSUME NEW a \in Nat \ {0}, NEW d \in Nat \ {0}
    PROVE  /\ CeilDiv(a, d) \in Nat \ {0} /\ a <= d * CeilDiv(a, d)
           /\ \A T \in Nat : a <= d * T => CeilDiv(a, d) <= T
<1> DEFINE q == a \div d
           r == a % d
           I == CeilDiv(a, d)
<1>1. q \in Nat /\ r \in 0..d - 1 /\ a = d * q + r OBVIOUS
<1>2. I = q + (IF r # 0 THEN 1 ELSE 0) BY DEF CeilDiv
<1> HIDE DEF q, r, I
<1>3. d * q \in Nat /\ d * (q + 1) = d * q + d BY <1>1
<1>4. CASE r = 0
  <2>1. I = q /\ a = d * q BY <1>1, <1>2, <1>4
  <2>2. q # 0
    <3> SUFFICES ASSUME q = 0 PROVE FALSE OBVIOUS
    <3>1. d * q = 0 OBVIOUS
    <3> QED BY <3>1, <2>1
  <2>3. ASSUME NEW T \in Nat, a <= d * T PROVE I <= T
    <3> SUFFICES ASSUME T + 1 <= q PROVE FALSE BY <2>1, <1>1
    <3>1. d * (T + 1) <= d * q BY <1>1
    <3>2. d * (T + 1) = d * T + d /\ d * T \in Nat OBVIOUS
    <3> QED BY <3>1, <3>2, <2>1, <2>3, <1>3
  <2> QED BY <2>1, <2>2, <2>3, <1>1 DEF I
<1>5. CASE r # 0
  <2>1. I = q + 1 /\ a <= d * I BY <1>1, <1>2, <1>3, <1>5
  <2>2. ASSUME NEW T \in Nat, a <= d * T PROVE I <= T
    <3> SUFFICES ASSUME T <= q PROVE FALSE BY <2>1, <1>1
    <3>1. d * T <= d * q BY <1>1
    <3>2. d * T \in Nat OBVIOUS
    <3> QED BY <3>1, <3>2, <2>2, <1>1, <1>3, <1>5
  <2> QED BY <2>1, <2>2, <1>1 DEF I
<1> QED BY <1>4, <1>5

(* New buckets hold nothing. *)
LEMMA NoChains ==
    ASSUME NEW n \in Nat \ {0}, NEW h
    PROVE  /\ Chained(h, EmptyBuckets(n), n, [b \in 0..n - 1 |-> <<>>], {})
           /\ EmptyBuckets(n) \in [0..n - 1 -> Bucket]
<1> DEFINE c == [b \in 0..n - 1 |-> <<>>]
           B == EmptyBuckets(n)
<1>1. ASSUME NEW b \in 0..n - 1
      PROVE  B[b].hh_head = NULL /\ B[b].count = 0 /\ B[b] \in Bucket /\ c[b] = <<>>
  BY <1>1 DEF EmptyBuckets, Bucket
<1>2. <<>> \in Seq(Records) /\ Len(<<>>) = 0 /\ 1..0 = {} OBVIOUS
<1>3. Elems(<<>>) = {} /\ Distinct(<<>>) /\ Linked(<<>>, NULL, ChainNext(h), ChainPrev(h), NULL)
  BY DEF Elems, Distinct, Linked, At
<1>4. B \in [0..n - 1 -> Bucket] BY <1>1 DEF EmptyBuckets
<1> HIDE DEF c, B
<1>5. c \in [0..n - 1 -> Seq(Records)] BY DEF c
<1>6. Chained(h, B, n, c, {}) BY <1>1, <1>2, <1>3, <1>5 DEF Chained
<1> QED BY <1>4, <1>6 DEF c, B

(* What an expansion of the table t of n buckets, with the elements of S,  *)
(* has to return.                                                          *)
Expanded(h, t, n, S, r) ==
    /\ r.handles \in [Records -> Handle] /\ SameOrder(h, r.handles)
    /\ r.table \in TableOf(2 * n)
    /\ r.table.num_items = t.num_items /\ r.table.tail = t.tail
    /\ \E c : Chained(r.handles, r.table.buckets, 2 * n, c, S)
    /\ \A d \in 0..2 * n - 1 : Filled(r.table.buckets[d], CeilDiv(t.num_items, 2 * n))
    /\ MultsBounded(r.table.buckets, 2 * n)

(* HASH_EXPAND_BUCKETS keeps every element, in twice the buckets, and      *)
(* leaves the multipliers bounded.                                         *)
LEMMA ExpandFacts ==
    ASSUME NEW n \in Nat \ {0}, NEW t \in TableOf(n), NEW h \in [Records -> Handle],
           NEW S, S \subseteq Records, NEW c, Chained(h, t.buckets, n, c, S),
           t.num_items \in Nat \ {0}, t.num_items = Cardinality(S)
    PROVE  Expanded(h, t, n, S, HASH_EXPAND_BUCKETS(h, t))
<1> DEFINE N == 2 * n
           a == t.num_items
           I == CeilDiv(a, N)
           items == BucketItems(h, t)
           start == [handles |-> h, ideal |-> I, num_buckets |-> N,
                     buckets |-> EmptyBuckets(N), nonideal_items |-> 0]
           done == RehashAll(start, items)
           ineff == IF done.nonideal_items > t.num_items \div 2
                    THEN t.ineff_expands + 1 ELSE 0
           gaveup == t.noexpand \/ ineff > 1
           table == [t EXCEPT !.buckets = done.buckets, !.num_buckets = N,
                              !.ideal_chain_maxlen = I,
                              !.nonideal_items = done.nonideal_items,
                              !.ineff_expands = ineff, !.noexpand = gaveup]
           r == HASH_EXPAND_BUCKETS(h, t)
<1>1. /\ t.buckets \in [0..n - 1 -> Bucket] /\ t.num_buckets = n /\ t.num_items \in Nat
      /\ t.ineff_expands \in Nat /\ t.noexpand \in BOOLEAN
  BY DEF TableOf
<1>2. r.handles = done.handles /\ r.table = table BY <1>1 DEF HASH_EXPAND_BUCKETS
<1> HIDE DEF r
<1>3. N \in Nat \ {0} OBVIOUS
<1>4. I \in Nat \ {0} /\ a <= N * I
  <2> HIDE DEF N
  <2> QED BY <1>3, Ceiling
<1>5. items \in Seq(Records) /\ Distinct(items) /\ Elems(items) = S
  <2>1. Chained(h, t.buckets, t.num_buckets, c, S) /\ t.num_buckets \in Nat \ {0} BY <1>1
  <2>2. \A x \in Records : h[x].hashv \in Nat BY DEF Handle
  <2> QED BY <2>1, <2>2, BucketItemsFacts
<1> HIDE DEF N, a, I, items
<1>6. Rehashed(start, start, N, I, {})
  <2>1. /\ start.handles = h /\ start.buckets = EmptyBuckets(N)
        /\ start.ideal = I /\ start.num_buckets = N /\ start.nonideal_items = 0
    OBVIOUS
  <2>2. EmptyBuckets(N) \in [0..N - 1 -> Bucket] BY <1>3, NoChains
  <2>3. start \in RehashState(N, I) BY <2>2 DEF RehashState
  <2>4. \E k : Chained(h, EmptyBuckets(N), N, k, {}) BY <1>3, NoChains
  <2>5. ASSUME NEW d \in 0..N - 1 PROVE Filled(EmptyBuckets(N)[d], I)
    <3>1. EmptyBuckets(N)[d].count = 0 /\ EmptyBuckets(N)[d].expand_mult = 0
      BY DEF EmptyBuckets
    <3>2. 0 * I <= 0 /\ 0 < (0 + 1) * I BY <1>4
    <3> QED BY <3>1, <3>2 DEF Filled
  <2> HIDE DEF start
  <2> QED BY <2>1, <2>3, <2>4, <2>5 DEF Rehashed, SameOrder
<1>7. Rehashed(start, done, N, I, S)
  <2> HIDE DEF start
  <2> QED BY <1>3, <1>4, <1>5, <1>6, RehashAllFacts
<1>8. start.handles = h OBVIOUS
<1> HIDE DEF start, done
<1>9. /\ done \in RehashState(N, I) /\ SameOrder(h, done.handles)
      /\ \E k : Chained(done.handles, done.buckets, N, k, S)
      /\ \A d \in 0..N - 1 : Filled(done.buckets[d], I)
  BY <1>7, <1>8 DEF Rehashed
<1>10. done.handles \in [Records -> Handle] /\ done.buckets \in [0..N - 1 -> Bucket]
       /\ done.nonideal_items \in Nat
  BY <1>9 DEF RehashState
<1>11. ineff \in Nat /\ gaveup \in BOOLEAN BY <1>1
<1>12. t.noexpand => gaveup OBVIOUS
<1> HIDE DEF ineff, gaveup
<1>13. /\ table \in TableOf(N) /\ table.buckets = done.buckets /\ table.num_buckets = N
       /\ table.num_items = t.num_items /\ table.tail = t.tail
       /\ t.noexpand => table.noexpand
  BY <1>1, <1>3, <1>4, <1>10, <1>11, <1>12 DEF TableOf
<1> HIDE DEF table
<1>14. MultsBounded(done.buckets, N)
  <2>1. PICK k : Chained(done.handles, done.buckets, N, k, S) BY <1>9
  <2>2. Chained(done.handles, table.buckets, table.num_buckets, k, S)
        /\ table.num_buckets \in Nat \ {0}
    BY <2>1, <1>3, <1>13
  <2>3. \A x \in Records : done.handles[x].hashv \in Nat BY <1>10 DEF Handle
  <2> DEFINE it == BucketItems(done.handles, table)
  <2>4. /\ it \in Seq(Records) /\ Distinct(it) /\ Elems(it) = S
        /\ \E p : /\ PrefixSums(p, table.num_buckets, Counts(table.buckets, table.num_buckets))
                  /\ p[table.num_buckets] = Len(it)
    BY <2>2, <2>3, BucketItemsFacts
  <2> HIDE DEF it
  <2>5. PICK p : PrefixSums(p, N, Counts(done.buckets, N)) /\ p[N] = Len(it)
    BY <2>4, <1>13
  <2>6. Len(it) = a BY <2>4, DistinctCount DEF a
  <2>7. p[N] <= N * I BY <2>5, <2>6, <1>4
  <2> QED BY <2>5, <2>7, <1>3, <1>4, <1>9, <1>10, MultsBound
<1> QED BY <1>2, <1>9, <1>10, <1>13, <1>14 DEF N, I, a, r, Expanded
-----------------------------------------------------------------------------
(* The table holds the elements of S, and until it gave up expanding no    *)
(* chain is beyond its threshold.                                          *)
TableFits(h, t, S) ==
    /\ t.num_buckets \in Nat \ {0} /\ t \in TableOf(t.num_buckets)
    /\ \E c : Chained(h, t.buckets, t.num_buckets, c, S)
    /\ ~t.noexpand => /\ \A d \in 0..t.num_buckets - 1 : Tight(t.buckets[d])
                      /\ MultsBounded(t.buckets, t.num_buckets)

(* A bucket Filled for an ideal length up to the threshold is below its    *)
(* threshold.                                                              *)
LEMMA FilledTight ==
    ASSUME NEW I \in Nat \ {0}, I <= Threshold, NEW bucket \in Bucket, Filled(bucket, I)
    PROVE  Tight(bucket)
<1> DEFINE T == Threshold
           m == bucket.expand_mult
           k == bucket.count
<1>1. T \in Nat \ {0} /\ m \in Nat /\ k \in Nat BY BucketsAssumption DEF Bucket
<1>2. k < (m + 1) * I \/ (m = 0 /\ k = I) BY DEF Filled
<1>3. I <= T OBVIOUS
<1> HIDE DEF T, m, k
<1>4. CASE k < (m + 1) * I
  <2>1. (m + 1) * I <= (m + 1) * T BY <1>1, <1>3
  <2>2. (m + 1) * I \in Nat /\ (m + 1) * T \in Nat BY <1>1
  <2>3. k < (m + 1) * T BY <2>1, <2>2, <1>1, <1>4
  <2> QED BY <2>3 DEF Tight, T, m, k
<1>5. CASE m = 0 /\ k = I
  <2>1. (m + 1) * T = T BY <1>1, <1>5
  <2>2. k = T \/ k < (m + 1) * T BY <2>1, <1>1, <1>3, <1>5
  <2> QED BY <2>2, <1>5 DEF Tight, T, m, k
<1> QED BY <1>2, <1>4, <1>5

(* A table that fits and still expands has fewer than 2 * num_buckets *    *)
(* Threshold elements: one more, and the next ideal length is no more than *)
(* the threshold.                                                          *)
LEMMA ItemsOfTable ==
    ASSUME NEW h \in [Records -> Handle], NEW t, NEW S, S \subseteq Records,
           TableFits(h, t, S), ~t.noexpand
    PROVE  Cardinality(S) + 1 <= (2 * t.num_buckets) * Threshold
<1> DEFINE n == t.num_buckets
           B == t.buckets
           it == BucketItems(h, t)
<1>1. /\ n \in Nat \ {0} /\ B \in [0..n - 1 -> Bucket]
      /\ \A d \in 0..n - 1 : Tight(B[d])
      /\ MultsBounded(B, n)
  BY DEF TableFits, TableOf
<1>2. PICK c : Chained(h, t.buckets, t.num_buckets, c, S) BY DEF TableFits
<1>3. \A x \in Records : h[x].hashv \in Nat BY DEF Handle
<1>4. /\ it \in Seq(Records) /\ Distinct(it) /\ Elems(it) = S
      /\ \E p : PrefixSums(p, n, Counts(B, n)) /\ p[n] = Len(it)
  BY <1>1, <1>2, <1>3, BucketItemsFacts
<1> HIDE DEF it, n, B
<1>5. Cardinality(S) = Len(it) BY <1>4, DistinctCount
<1>6. PICK p : PrefixSums(p, n, Counts(B, n)) /\ p[n] = Len(it) BY <1>4
<1>7. p[n] + 1 <= (2 * n) * Threshold BY <1>1, <1>6, ItemsBound
<1> QED BY <1>5, <1>6, <1>7 DEF n

(* What HASH_ADD_TO_BKT does to the bucket. *)
LEMMA GrownBucket ==
    ASSUME NEW bucket \in Bucket, NEW x \in Records
    PROVE  LET new == [bucket EXCEPT !.count = @ + 1, !.hh_head = x]
           IN  /\ new \in Bucket /\ new.hh_head = x /\ new.count = bucket.count + 1
               /\ new.expand_mult = bucket.expand_mult
<1> DEFINE new == [bucket EXCEPT !.count = @ + 1, !.hh_head = x]
           k == bucket.count
<1>1. k \in Nat BY DEF Bucket
<1>2. new = [bucket EXCEPT !.count = k + 1, !.hh_head = x] OBVIOUS
<1>3. k + 1 \in Nat BY <1>1
<1> DEFINE k1 == k + 1
<1> HIDE DEF new, k1
<1>4. new = [bucket EXCEPT !.count = k1, !.hh_head = x] BY <1>2 DEF k1
<1>5. new \in Bucket /\ new.hh_head = x /\ new.count = k1 /\ new.expand_mult = bucket.expand_mult
  BY <1>3, <1>4 DEF Bucket, k1
<1> QED BY <1>5 DEF new, k1

(* What HASH_ADD_TO_BKT has to return for a table that holds the elements  *)
(* of S afterwards.                                                        *)
Added(h, t, S, r) ==
    /\ r.handles \in [Records -> Handle] /\ SameOrder(h, r.handles)
    /\ TableFits(r.handles, r.table, S)
    /\ r.table.num_items = t.num_items /\ r.table.tail = t.tail

(* HASH_ADD_TO_BKT, with the expansion if it is due: the table holds the   *)
(* new element as well, and fits again.                                    *)
LEMMA AddToBktFacts ==
    ASSUME NEW h \in [Records -> Handle], NEW t, NEW S, S \subseteq Records,
           NEW x \in Records \ S, TableFits(h, t, S), t.num_items = Cardinality(S) + 1
    PROVE  Added(h, t, S \cup {x},
                 HASH_ADD_TO_BKT(h, t, x, h[x].hashv % t.num_buckets))
<1> USE DEF Added
<1> DEFINE n == t.num_buckets
           b == h[x].hashv % n
           bucket == t.buckets[b]
           linked == PushFront(h, bucket, x)
           table == [t EXCEPT !.buckets[b].count = @ + 1, !.buckets[b].hh_head = x]
           r == HASH_ADD_TO_BKT(h, t, x, b)
           S2 == S \cup {x}
<1>1. n \in Nat \ {0} /\ t \in TableOf(n) BY DEF TableFits
<1>2. t.buckets \in [0..n - 1 -> Bucket] /\ t.noexpand \in BOOLEAN BY <1>1 DEF TableOf
<1>3. PICK c : Chained(h, t.buckets, n, c, S) BY DEF TableFits
<1>4. b \in 0..n - 1
  <2>1. h[x].hashv \in Nat BY DEF Handle
  <2> QED BY <2>1, <1>1, Remainder
<1>5. bucket \in Bucket BY <1>2, <1>4
<1>6. r = IF bucket.count + 1 >= (bucket.expand_mult + 1) * Threshold /\ ~t.noexpand
          THEN HASH_EXPAND_BUCKETS(linked, table)
          ELSE [handles |-> linked, table |-> table]
  BY DEF HASH_ADD_TO_BKT
<1>7. linked \in [Records -> Handle] /\ SameOrder(h, linked)
  <2> HIDE DEF bucket
  <2> QED BY <1>5, PushFrontFacts
<1> HIDE DEF b, n
<1> DEFINE new == [bucket EXCEPT !.count = @ + 1, !.hh_head = x]
           B2 == [t.buckets EXCEPT ![b] = new]
<1>8. new \in Bucket /\ new.hh_head = x /\ new.count = bucket.count + 1
      /\ new.expand_mult = bucket.expand_mult
  BY <1>5, GrownBucket
<1>9. table = [t EXCEPT !.buckets = B2]
  BY <1>1, <1>2, <1>4 DEF TableOf, Bucket
<1> HIDE DEF new, table
<1>10. B2 \in [0..n - 1 -> Bucket] /\ B2[b] = new
       /\ \A d \in 0..n - 1 : d # b => B2[d] = t.buckets[d]
  BY <1>2, <1>4, <1>8
<1> HIDE DEF B2
<1>11. /\ table \in TableOf(n) /\ table.buckets = B2 /\ table.num_buckets = n
       /\ table.num_items = t.num_items /\ table.tail = t.tail
       /\ table.noexpand = t.noexpand
  BY <1>1, <1>9, <1>10 DEF TableOf
<1>12. \E c2 : Chained(linked, B2, n, c2, S2)
  <2>1. GrownAt(t.buckets, B2, n, h[x].hashv % n, x) BY <1>8, <1>10 DEF GrownAt, b
  <2>2. Chained(PushFront(h, t.buckets[h[x].hashv % n], x), B2, n,
                [c EXCEPT ![h[x].hashv % n] = Pushed(x, c[h[x].hashv % n])], S2)
    BY <1>1, <1>2, <1>3, <2>1, PushChain
  <2> QED BY <2>2 DEF b
<1> HIDE DEF linked, r
<1>13. CASE bucket.count + 1 >= (bucket.expand_mult + 1) * Threshold /\ ~t.noexpand
  <2> DEFINE N == 2 * n
             I == CeilDiv(table.num_items, N)
  <2>1. r = HASH_EXPAND_BUCKETS(linked, table) BY <1>6, <1>13
  <2>2. PICK c2 : Chained(linked, table.buckets, n, c2, S2) BY <1>11, <1>12
  <2>3. IsFiniteSet(S) /\ Cardinality(S) \in Nat
        /\ Cardinality(S2) = Cardinality(S) + 1
    <3>1. IsFiniteSet(S) BY NodesAssumption, FS_Subset
    <3> QED BY <3>1, FS_CardinalityType, FS_AddElement
  <2>4. table.num_items \in Nat \ {0} /\ table.num_items = Cardinality(S2)
    BY <2>3, <1>11
  <2>5. S2 \subseteq Records OBVIOUS
  <2> HIDE DEF S2
  <2>6. /\ r.handles \in [Records -> Handle] /\ SameOrder(linked, r.handles)
        /\ r.table \in TableOf(2 * n)
        /\ r.table.num_items = table.num_items /\ r.table.tail = table.tail
        /\ \E c3 : Chained(r.handles, r.table.buckets, 2 * n, c3, S2)
        /\ \A d \in 0..2 * n - 1 : Filled(r.table.buckets[d], CeilDiv(table.num_items, 2 * n))
        /\ MultsBounded(r.table.buckets, 2 * n)
    <3>1. Expanded(linked, table, n, S2, HASH_EXPAND_BUCKETS(linked, table))
      BY <1>1, <1>7, <1>11, <2>2, <2>4, <2>5, ExpandFacts
    <3> QED BY <2>1, <3>1 DEF Expanded
  <2>7. N \in Nat \ {0} BY <1>1
  <2>8. table.num_items <= N * Threshold
    <3>1. Cardinality(S) + 1 <= (2 * t.num_buckets) * Threshold BY <1>13, ItemsOfTable
    <3> QED BY <3>1, <2>3, <1>11 DEF n
  <2>9. I \in Nat \ {0} /\ I <= Threshold
    <3> HIDE DEF N
    <3>1. Threshold \in Nat BY BucketsAssumption
    <3> QED BY <3>1, <2>4, <2>7, <2>8, Ceiling
  <2>10. r.table.num_buckets = N /\ r.table.buckets \in [0..N - 1 -> Bucket]
    BY <2>6 DEF TableOf
  <2>11. \A d \in 0..N - 1 : Tight(r.table.buckets[d])
    <3> SUFFICES ASSUME NEW d \in 0..N - 1 PROVE Tight(r.table.buckets[d]) OBVIOUS
    <3> DEFINE k == r.table.buckets[d]
    <3>1. k \in Bucket /\ Filled(k, I) BY <2>6, <2>10
    <3> HIDE DEF k, I
    <3>2. Tight(k) BY <3>1, <2>9, FilledTight
    <3> QED BY <3>2 DEF k
  <2>12. TableFits(r.handles, r.table, S2) BY <2>6, <2>7, <2>10, <2>11 DEF TableFits
  <2>13. SameOrder(h, r.handles) BY <1>7, <2>6 DEF SameOrder
  <2> QED BY <2>6, <2>12, <2>13, <1>11 DEF S2, r, b, n
<1>14. CASE ~(bucket.count + 1 >= (bucket.expand_mult + 1) * Threshold /\ ~t.noexpand)
  <2>1. r = [handles |-> linked, table |-> table] BY <1>6, <1>14
  <2>2. r.handles = linked /\ r.table = table BY <2>1
  <2>3. ASSUME ~t.noexpand
        PROVE  (\A d \in 0..n - 1 : Tight(B2[d])) /\ MultsBounded(B2, n)
    <3>1. (\A d \in 0..n - 1 : Tight(t.buckets[d])) /\ MultsBounded(t.buckets, n)
      BY <2>3 DEF TableFits, n
    <3>2. Tight(B2[b])
      <4> DEFINE k == bucket.count
                 z == (bucket.expand_mult + 1) * Threshold
      <4>1. k \in Nat /\ z \in Nat BY <1>5, BucketsAssumption DEF Bucket
      <4>2. ~(k + 1 >= z) BY <1>14, <2>3
      <4> HIDE DEF k, z
      <4>3. k + 1 < z BY <4>1, <4>2
      <4> QED BY <4>3, <1>8, <1>10 DEF Tight, k, z
    <3>3. Mults(B2, n) = Mults(t.buckets, n)
      <4>1. \A d \in 0..n - 1 : B2[d].expand_mult = t.buckets[d].expand_mult
        BY <1>8, <1>10 DEF bucket
      <4> QED BY <4>1 DEF Mults
    <3> QED BY <3>1, <3>2, <3>3, <1>10 DEF MultsBounded
  <2>4. TableFits(linked, table, S2) BY <2>3, <1>1, <1>11, <1>12 DEF TableFits
  <2> QED BY <2>2, <2>4, <1>7, <1>11 DEF r, b, n
<1> QED BY <1>13, <1>14
-----------------------------------------------------------------------------
(* The types of the hash. *)
HashTyped ==
    /\ head \in Records \cup {NULL} /\ key \in [Records -> Uids \cup {NULL}]
    /\ hh \in [Records -> Handle] /\ hash_fcn \in HashFunctions
    /\ tbl.num_buckets \in Nat \ {0} /\ tbl \in TableOf(tbl.num_buckets)

(* The hash represents o, the elements in the order they were added: the   *)
(* order is linked both ways, keys are not shared, a handle has the hash   *)
(* value of its key, and if there is a table its chains hold just these    *)
(* elements, with the number of them and the last of them.                 *)
HashRep(o) ==
    /\ o \in Seq(Records) /\ Distinct(o)
    /\ Linked(o, head, NextOf(hh), PrevOf(hh), NULL)
    /\ \A x \in Elems(o) : key[x] \in Uids /\ hh[x].hashv = hash_fcn[key[x]]
    /\ \A x, y \in Elems(o) : key[x] = key[y] => x = y
    /\ head # NULL => /\ TableFits(hh, tbl, Elems(o))
                      /\ tbl.num_items = Len(o) /\ tbl.tail = o[Len(o)]

(* The user's pointer is NULL exactly if there are no elements, and tail   *)
(* is the last of them.                                                    *)
LEMMA EmptyOrder ==
    ASSUME NEW o, HashRep(o)
    PROVE  /\ head = NULL <=> Len(o) = 0
           /\ head # NULL => At(o, Len(o), NULL) = tbl.tail
           /\ Len(o) \in Nat /\ o \in [1..Len(o) -> Records] /\ Elems(o) \subseteq Records
<1>1. Len(o) \in Nat /\ o \in [1..Len(o) -> Records] /\ Elems(o) \subseteq Records
  BY SeqFacts DEF HashRep
<1>2. head = At(o, 1, NULL) BY DEF HashRep, Linked
<1>3. Len(o) # 0 => 1 \in 1..Len(o) /\ Len(o) \in 1..Len(o) BY <1>1
<1>4. head = NULL <=> Len(o) = 0 BY <1>1, <1>2, <1>3, NodesAssumption DEF At
<1> QED BY <1>1, <1>3, <1>4 DEF At, HashRep

(* HASH_MAKE_TABLE makes a table that fits no elements. *)
LEMMA FreshTable ==
    ASSUME NEW x \in Records, NEW h
    PROVE  /\ TableFits(h, MakeTable(x), {})
           /\ MakeTable(x).num_buckets = InitialBuckets /\ MakeTable(x).tail = x
           /\ MakeTable(x).num_items = 0
<1> DEFINE n == InitialBuckets
           B == EmptyBuckets(n)
           t == MakeTable(x)
<1>1. n \in Nat \ {0} /\ Threshold \in Nat \ {0} BY BucketsAssumption
<1>2. B \in [0..n - 1 -> Bucket] /\ \E c : Chained(h, B, n, c, {}) BY <1>1, NoChains
<1>3. t = [buckets |-> B, num_buckets |-> n, num_items |-> 0, tail |-> x,
           ideal_chain_maxlen |-> 0, nonideal_items |-> 0, ineff_expands |-> 0,
           noexpand |-> FALSE]
  BY DEF MakeTable
<1>4. ASSUME NEW d \in 0..n - 1 PROVE Tight(B[d])
  <2>1. B[d].count = 0 /\ B[d].expand_mult = 0 BY DEF EmptyBuckets
  <2>2. (0 + 1) * Threshold = Threshold /\ 0 < Threshold BY <1>1
  <2> QED BY <2>1, <2>2 DEF Tight
<1>5. MultsBounded(B, n)
  <2> DEFINE q == [i \in 0..n |-> 0]
  <2>1. Mults(B, n) = [b \in 0..n - 1 |-> 0] BY DEF Mults, EmptyBuckets
  <2>2. PrefixSums(q, n, Mults(B, n))
    <3>1. \A i \in 1..n : i \in 0..n /\ i - 1 \in 0..n /\ i - 1 \in 0..n - 1 BY <1>1
    <3>2. q \in [0..n -> Nat] /\ q[0] = 0 BY <1>1
    <3>3. \A i \in 1..n : q[i] = q[i - 1] + Mults(B, n)[i - 1] BY <3>1, <2>1
    <3> QED BY <3>2, <3>3 DEF PrefixSums
  <2>3. q[n] <= n BY <1>1
  <2> QED BY <2>2, <2>3 DEF MultsBounded
<1> HIDE DEF B, t, n
<1>6. t \in TableOf(n) /\ t.num_buckets = n /\ t.buckets = B /\ t.tail = x /\ t.num_items = 0
  BY <1>1, <1>2, <1>3 DEF TableOf
<1> QED BY <1>1, <1>2, <1>4, <1>5, <1>6 DEF TableFits, t, n

(* A table does not notice changes to the order. *)
LEMMA TableFrame ==
    ASSUME NEW h, NEW h2, NEW t, NEW t2, NEW S, S \subseteq Records,
           TableFits(h, t, S),
           t2 \in TableOf(t.num_buckets), t2.num_buckets = t.num_buckets,
           t2.buckets = t.buckets, t2.noexpand = t.noexpand,
           \A y \in Records : h2[y].hh_next = h[y].hh_next /\ h2[y].hh_prev = h[y].hh_prev,
           \A y \in S : h2[y].hashv = h[y].hashv
    PROVE  TableFits(h2, t2, S)
<1>1. PICK c : Chained(h, t.buckets, t.num_buckets, c, S) BY DEF TableFits
<1>2. Chained(h2, t.buckets, t.num_buckets, c, S) BY <1>1, ChainedFrame
<1> QED BY <1>2 DEF TableFits

(* HASH_ADD of an element that is not in the hash, under a key that is     *)
(* not: afterwards the hash represents the sequence with it at the end.    *)
LEMMA HashAddRep ==
    ASSUME HashTyped, NEW o, HashRep(o), NEW x \in Records \ Elems(o), NEW k \in Uids,
           \A y \in Elems(o) : key[y] # k,
           HASH_ADD(x, k)
    PROVE  HashTyped' /\ HashRep(Append(o, x))' /\ key' = [key EXCEPT ![x] = k]
<1> DEFINE S == Elems(o)
           v == hash_fcn[k]
           t == IF head = NULL THEN MakeTable(x) ELSE [tbl EXCEPT !.tail = x]
           last == IF head = NULL THEN NULL ELSE tbl.tail
           ordered == [y \in Records |->
                         CASE y = x -> [hh[x] EXCEPT !.next = NULL, !.prev = last, !.hashv = v]
                           [] y = last /\ y # x -> [hh[y] EXCEPT !.next = x]
                           [] OTHER -> hh[y]]
           t1 == [t EXCEPT !.num_items = @ + 1]
           b == v % t.num_buckets
           added == HASH_ADD_TO_BKT(ordered, t1, x, b)
<1>1. /\ head' = IF head = NULL THEN x ELSE head
      /\ key' = [key EXCEPT ![x] = k] /\ hash_fcn' = hash_fcn
      /\ hh' = added.handles /\ tbl' = added.table
  BY DEF HASH_ADD, HASH_TO_BKT
<1> HIDE DEF added
<1>2. /\ head = NULL <=> Len(o) = 0
      /\ head # NULL => At(o, Len(o), NULL) = tbl.tail
      /\ Len(o) \in Nat /\ o \in [1..Len(o) -> Records] /\ S \subseteq Records
  BY EmptyOrder
<1>3. v \in Nat BY HashAssumption DEF HashTyped
<1>4. last = At(o, Len(o), NULL) /\ last \in Records \cup {NULL} /\ last # x
  <2>1. Len(o) = 0 => At(o, Len(o), NULL) = NULL BY DEF At
  <2>2. Len(o) # 0 => At(o, Len(o), NULL) \in S BY <1>2 DEF At, Elems
  <2> QED BY <2>1, <2>2, <1>2, NodesAssumption
<1> HIDE DEF last
<1>5. /\ ordered \in [Records -> Handle]
      /\ \A y \in Records :
           /\ ordered[y].hh_next = hh[y].hh_next /\ ordered[y].hh_prev = hh[y].hh_prev
           /\ ordered[y].hashv = IF y = x THEN v ELSE hh[y].hashv
           /\ ordered[y].next = IF y = x THEN NULL ELSE IF y = last THEN x ELSE hh[y].next
           /\ ordered[y].prev = IF y = x THEN last ELSE hh[y].prev
  <2>1. hh \in [Records -> Handle] BY DEF HashTyped
  <2>2. \A y \in Records :
          ordered[y] = CASE y = x -> [hh[x] EXCEPT !.next = NULL, !.prev = last, !.hashv = v]
                         [] y = last /\ y # x -> [hh[y] EXCEPT !.next = x]
                         [] OTHER -> hh[y]
    OBVIOUS
  <2>3. ordered = [y \in Records |-> ordered[y]] OBVIOUS
  <2> HIDE DEF ordered, v
  <2>4. ASSUME NEW y \in Records
        PROVE  /\ ordered[y] \in Handle
               /\ ordered[y].hh_next = hh[y].hh_next /\ ordered[y].hh_prev = hh[y].hh_prev
               /\ ordered[y].hashv = IF y = x THEN v ELSE hh[y].hashv
               /\ ordered[y].next = IF y = x THEN NULL ELSE IF y = last THEN x ELSE hh[y].next
               /\ ordered[y].prev = IF y = x THEN last ELSE hh[y].prev
    <3>1. hh[y] \in Handle BY <2>1
    <3>2. CASE y = x
      <4>1. ordered[y] = [hh[x] EXCEPT !.next = NULL, !.prev = last, !.hashv = v] BY <3>2, <2>2
      <4> QED BY <4>1, <3>1, <3>2, <1>3, <1>4 DEF Handle
    <3>3. CASE y # x /\ y = last
      <4>1. ordered[y] = [hh[y] EXCEPT !.next = x] BY <3>3, <2>2
      <4> QED BY <4>1, <3>1, <3>3 DEF Handle
    <3>4. CASE y # x /\ y # last
      <4>1. ordered[y] = hh[y] BY <3>4, <2>2
      <4> QED BY <4>1, <3>1, <3>4
    <3> QED BY <3>2, <3>3, <3>4
  <2> QED BY <2>3, <2>4
<1> HIDE DEF ordered
<1>6. TableFits(ordered, t1, S) /\ t1.num_items = Len(o) + 1 /\ t1.tail = x
      /\ t1.num_buckets = t.num_buckets
  <2>1. CASE head = NULL
    <3>1. t = MakeTable(x) /\ S = {} BY <2>1, <1>2 DEF Elems
    <3>2. TableFits(hh, t, {}) /\ t.tail = x /\ t.num_items = 0 BY <3>1, FreshTable
    <3>3. t \in TableOf(t.num_buckets) BY <3>2 DEF TableFits
    <3> HIDE DEF t
    <3>4. /\ t1 \in TableOf(t.num_buckets) /\ t1.num_buckets = t.num_buckets
          /\ t1.buckets = t.buckets /\ t1.noexpand = t.noexpand /\ t1.tail = x
          /\ t1.num_items = 1
      BY <3>2, <3>3 DEF TableOf
    <3> HIDE DEF t1, S
    <3>5. TableFits(ordered, t1, {}) BY <3>2, <3>4, <1>5, TableFrame
    <3> QED BY <3>1, <3>4, <3>5, <2>1, <1>2
  <2>2. CASE head # NULL
    <3>1. t = [tbl EXCEPT !.tail = x] BY <2>2
    <3>2. TableFits(hh, tbl, S) /\ tbl.num_items = Len(o) BY <2>2 DEF HashRep
    <3>3. tbl \in TableOf(tbl.num_buckets) BY <3>2 DEF TableFits
    <3> HIDE DEF t
    <3>4. /\ t \in TableOf(tbl.num_buckets) /\ t.num_buckets = tbl.num_buckets
          /\ t.buckets = tbl.buckets /\ t.noexpand = tbl.noexpand /\ t.tail = x
          /\ t.num_items = Len(o)
      BY <3>1, <3>2, <3>3 DEF TableOf
    <3>5. /\ t1 \in TableOf(tbl.num_buckets) /\ t1.num_buckets = tbl.num_buckets
          /\ t1.buckets = tbl.buckets /\ t1.noexpand = tbl.noexpand /\ t1.tail = x
          /\ t1.num_items = Len(o) + 1
      BY <3>4, <1>2 DEF TableOf
    <3> HIDE DEF t1, S
    <3>6. \A y \in S : ordered[y].hashv = hh[y].hashv BY <1>2, <1>5 DEF S
    <3>7. TableFits(ordered, t1, S) BY <1>2, <1>5, <3>2, <3>5, <3>6, TableFrame
    <3> QED BY <3>4, <3>5, <3>7
  <2> QED BY <2>1, <2>2
<1> HIDE DEF t1, t
<1>7. Cardinality(S) = Len(o) BY DistinctCount DEF HashRep
<1> HIDE DEF S
<1>8. /\ hh' \in [Records -> Handle] /\ SameOrder(ordered, hh')
      /\ TableFits(hh', tbl', S \cup {x})
      /\ tbl'.num_items = Len(o) + 1 /\ tbl'.tail = x
  <2>1. x \in Records \ S /\ S \subseteq Records BY <1>2 DEF S
  <2>2. b = ordered[x].hashv % t1.num_buckets BY <1>5, <1>6
  <2>3. t1.num_items = Cardinality(S) + 1 BY <1>6, <1>7
  <2>4. Added(ordered, t1, S \cup {x},
              HASH_ADD_TO_BKT(ordered, t1, x, ordered[x].hashv % t1.num_buckets))
    BY <1>5, <1>6, <2>1, <2>3, AddToBktFacts
  <2>5. Added(ordered, t1, S \cup {x}, added) BY <2>2, <2>4 DEF added
  <2> QED BY <2>5, <1>1, <1>6 DEF Added
<1>9. \A y \in Records :
        /\ hh'[y].hashv = IF y = x THEN v ELSE hh[y].hashv
        /\ hh'[y].next = IF y = x THEN NULL ELSE IF y = last THEN x ELSE hh[y].next
        /\ hh'[y].prev = IF y = x THEN last ELSE hh[y].prev
  BY <1>5, <1>8 DEF SameOrder
<1> DEFINE a == Append(o, x)
<1>10. /\ a \in Seq(Records) /\ Len(a) = Len(o) + 1 /\ a[Len(o) + 1] = x
       /\ Distinct(a) /\ Elems(a) = S \cup {x}
  BY AppendFacts DEF HashRep, S
<1>11. Linked(a, head', NextOf(hh'), PrevOf(hh'), NULL)
  <2> DEFINE N1 == NextOf(hh)
             P1 == PrevOf(hh)
             N2 == NextOf(hh')
             P2 == PrevOf(hh')
  <2>1. \A y \in Records : /\ N2[y] = IF y = x THEN NULL ELSE IF y = last THEN x ELSE N1[y]
                           /\ P2[y] = IF y = x THEN last ELSE P1[y]
    BY <1>9 DEF NextOf, PrevOf
  <2>2. Linked(o, head, N1, P1, NULL) /\ o \in Seq(Records) /\ Distinct(o) BY DEF HashRep
  <2> HIDE DEF N1, P1, N2, P2
  <2>3. AppendedAt(x, o, N1, P1, N2, P2, NULL)
    <3>1. N2[x] = NULL /\ P2[x] = At(o, Len(o), NULL) BY <2>1, <1>4
    <3>2. ASSUME NEW i \in 1..Len(o)
          PROVE  N2[o[i]] = (IF i = Len(o) THEN x ELSE N1[o[i]]) /\ P2[o[i]] = P1[o[i]]
      <4>1. o[i] \in Records /\ o[i] # x BY <1>2 DEF Elems
      <4>2. last = o[Len(o)] /\ Len(o) \in 1..Len(o) BY <1>2, <1>4 DEF At
      <4>3. o[i] = last <=> i = Len(o) BY <4>2, <2>2 DEF Distinct
      <4> QED BY <4>1, <4>3, <2>1
    <3> QED BY <3>1, <3>2 DEF AppendedAt
  <2>4. Linked(a, IF Len(o) = 0 THEN x ELSE head, N2, P2, NULL)
    BY <2>2, <2>3, AppendLinked
  <2>5. head' = IF Len(o) = 0 THEN x ELSE head BY <1>1, <1>2
  <2> HIDE DEF a
  <2> QED BY <2>4, <2>5 DEF N2, P2
<1>12. key' \in [Records -> Uids \cup {NULL}] /\ key'[x] = k
       /\ \A y \in Records : y # x => key'[y] = key[y]
  BY <1>1 DEF HashTyped
<1>13. \A y \in S : y \in Records /\ y # x /\ key[y] \in Uids /\ key[y] # k
                    /\ hh[y].hashv = hash_fcn[key[y]]
  BY <1>2 DEF S, HashRep
<1>14. \A y \in Elems(a) : key'[y] \in Uids /\ hh'[y].hashv = hash_fcn'[key'[y]]
  BY <1>1, <1>9, <1>10, <1>12, <1>13
<1>15. \A y, z \in Elems(a) : key'[y] = key'[z] => y = z
  <2>1. \A y, z \in S : key[y] = key[z] => y = z BY DEF S, HashRep
  <2> QED BY <2>1, <1>10, <1>12, <1>13
<1>16. HashTyped'
  <2>1. head' \in Records \cup {NULL} BY <1>1 DEF HashTyped
  <2>2. hash_fcn' \in HashFunctions BY <1>1 DEF HashTyped
  <2>3. tbl'.num_buckets \in Nat \ {0} /\ tbl' \in TableOf(tbl'.num_buckets)
    BY <1>8 DEF TableFits
  <2> QED BY <2>1, <2>2, <2>3, <1>8, <1>12 DEF HashTyped
<1>17. HashRep(a)'
  <2> HIDE DEF a
  <2>1. tbl'.num_items = Len(a) /\ tbl'.tail = a[Len(a)] /\ TableFits(hh', tbl', Elems(a))
    BY <1>8, <1>10
  <2> QED BY <2>1, <1>10, <1>11, <1>14, <1>15 DEF HashRep
<1> QED BY <1>1, <1>16, <1>17 DEF a
-----------------------------------------------------------------------------
(* HASH_FIND returns the one element that has the key, or NULL if there is *)
(* none.                                                                   *)
LEMMA HashFindFacts ==
    ASSUME HashTyped, NEW o, HashRep(o), NEW k \in Uids
    PROVE  /\ HASH_FIND(k) \in Elems(o) \cup {NULL}
           /\ HASH_FIND(k) # NULL => key[HASH_FIND(k)] = k
           /\ \A y \in Elems(o) : key[y] = k => HASH_FIND(k) = y
           /\ HASH_FIND(k) = NULL => \A y \in Elems(o) : key[y] # k
<1>1. /\ head = NULL <=> Len(o) = 0
      /\ Len(o) \in Nat /\ Elems(o) \subseteq Records
  BY EmptyOrder
<1>2. CASE head = NULL
  <2>1. HASH_FIND(k) = NULL /\ Elems(o) = {} BY <1>1, <1>2 DEF HASH_FIND, Elems
  <2> QED BY <2>1
<1>3. CASE head # NULL
  <2> DEFINE n == tbl.num_buckets
             b == hash_fcn[k] % n
             chain == Chain(hh, tbl.buckets[b])
             hits == {i \in DOMAIN chain : key[chain[i]] = k}
             m == CHOOSE i \in hits : \A j \in hits : i <= j
  <2>1. HASH_FIND(k) = IF hits = {} THEN NULL ELSE chain[m]
    BY <1>3 DEF HASH_FIND, HASH_TO_BKT
  <2>2. TableFits(hh, tbl, Elems(o)) BY <1>3 DEF HashRep
  <2>3. n \in Nat \ {0} BY <2>2 DEF TableFits
  <2>4. PICK c : Chained(hh, tbl.buckets, n, c, Elems(o)) BY <2>2 DEF TableFits
  <2>5. b \in 0..n - 1
    <3>1. hash_fcn[k] \in Nat BY HashAssumption DEF HashTyped
    <3> QED BY <3>1, <2>3, Remainder
  <2> HIDE DEF n, chain
  <2>6. chain = c[b] BY <2>4, <2>5, ChainIs DEF chain, n
  <2>7. /\ chain \in Seq(Records)
        /\ \A y \in Records : y \in Elems(chain) <=> y \in Elems(o) /\ hh[y].hashv % n = b
    BY <2>4, <2>5, <2>6 DEF Chained
  <2>8. DOMAIN chain = 1..Len(chain) /\ Len(chain) \in Nat /\ Elems(chain) \subseteq Records
    BY <2>7, SeqFacts
  <2> HIDE DEF b, m
  <2>9. \A i \in hits : chain[i] \in Elems(o) /\ key[chain[i]] = k
    BY <2>7, <2>8 DEF Elems
  <2>10. hits # {} => m \in hits
    <3>1. hits \subseteq Nat BY <2>8
    <3> HIDE DEF hits
    <3>2. hits # {} => \E i \in hits : \A j \in hits : i <= j BY <3>1, LeastElement
    <3> QED BY <3>2 DEF m
  <2>11. \A y \in Elems(o) : key[y] = k => hits # {}
    <3> SUFFICES ASSUME NEW y \in Elems(o), key[y] = k PROVE hits # {} OBVIOUS
    <3>1. y \in Records /\ hh[y].hashv % n = b BY <1>1 DEF HashRep, b
    <3>2. y \in Elems(chain) BY <3>1, <2>7
    <3>3. PICK i \in 1..Len(chain) : chain[i] = y BY <3>2 DEF Elems
    <3> QED BY <3>3, <2>8
  <2>12. \A y, z \in Elems(o) : key[y] = key[z] => y = z BY DEF HashRep
  <2>13. \A y \in Elems(o) : y # NULL BY <1>1, NodesAssumption
  <2> HIDE DEF hits
  <2>14. HASH_FIND(k) # NULL => HASH_FIND(k) \in Elems(o) /\ key[HASH_FIND(k)] = k
    BY <2>1, <2>9, <2>10
  <2>15. hits # {} => HASH_FIND(k) # NULL BY <2>1, <2>9, <2>10, <2>13
  <2> QED BY <2>11, <2>12, <2>14, <2>15
<1> QED BY <1>2, <1>3

(* The pointers around x, in both lists, bypass it. *)
Bypassed(h, h2, x) ==
    \A y \in Records :
      /\ h2[y].next = IF y = h[x].prev THEN h[x].next ELSE h[y].next
      /\ h2[y].prev = IF y = h[x].next THEN h[x].prev ELSE h[y].prev
      /\ h2[y].hh_next = IF y = h[x].hh_prev THEN h[x].hh_next ELSE h[y].hh_next
      /\ h2[y].hh_prev = IF y = h[x].hh_next THEN h[x].hh_prev ELSE h[y].hh_prev
      /\ h2[y].hashv = h[y].hashv

(* The pointers that HASH_DELETE writes, one by one. *)
LEMMA UnlinkFacts ==
    ASSUME NEW h \in [Records -> Handle], NEW x \in Records
    PROVE  LET h2 == Unlink(Unlink(h, x, "prev", "next"), x, "hh_prev", "hh_next")
           IN  h2 \in [Records -> Handle] /\ Bypassed(h, h2, x)
<1> DEFINE h1 == Unlink(h, x, "prev", "next")
           h2 == Unlink(h1, x, "hh_prev", "hh_next")
           pass1(y) == IF y = h[x].prev THEN [h[y] EXCEPT !.next = h[x].next] ELSE h[y]
           pass2(y) == IF y = h1[x].hh_prev THEN [h1[y] EXCEPT !.hh_next = h1[x].hh_next]
                       ELSE h1[y]
<1>1. /\ h1 = [y \in Records |-> h1[y]]
      /\ \A y \in Records :
           h1[y] = IF y = h[x].next THEN [pass1(y) EXCEPT !.prev = h[x].prev] ELSE pass1(y)
  BY DEF Unlink
<1> HIDE DEF h1
<1>2. /\ h2 = [y \in Records |-> h2[y]]
      /\ \A y \in Records :
           h2[y] = IF y = h1[x].hh_next THEN [pass2(y) EXCEPT !.hh_prev = h1[x].hh_prev]
                   ELSE pass2(y)
  BY DEF Unlink
<1> HIDE DEF h2
<1>3. ASSUME NEW y \in Records
      PROVE  /\ h1[y] \in Handle
             /\ h1[y].next = IF y = h[x].prev THEN h[x].next ELSE h[y].next
             /\ h1[y].prev = IF y = h[x].next THEN h[x].prev ELSE h[y].prev
             /\ h1[y].hh_next = h[y].hh_next /\ h1[y].hh_prev = h[y].hh_prev
             /\ h1[y].hashv = h[y].hashv
  <2>1. h[y] \in Handle /\ h[x] \in Handle OBVIOUS
  <2>2. /\ pass1(y) \in Handle
        /\ pass1(y).next = (IF y = h[x].prev THEN h[x].next ELSE h[y].next)
        /\ pass1(y).prev = h[y].prev
        /\ pass1(y).hh_next = h[y].hh_next /\ pass1(y).hh_prev = h[y].hh_prev
        /\ pass1(y).hashv = h[y].hashv
    BY <2>1 DEF Handle
  <2> HIDE DEF pass1
  <2>3. h1[y] = IF y = h[x].next THEN [pass1(y) EXCEPT !.prev = h[x].prev] ELSE pass1(y)
    BY <1>1
  <2> QED BY <2>1, <2>2, <2>3 DEF Handle
<1>4. ASSUME NEW y \in Records
      PROVE  /\ h2[y] \in Handle
             /\ h2[y].next = h1[y].next /\ h2[y].prev = h1[y].prev
             /\ h2[y].hh_next = IF y = h1[x].hh_prev THEN h1[x].hh_next ELSE h1[y].hh_next
             /\ h2[y].hh_prev = IF y = h1[x].hh_next THEN h1[x].hh_prev ELSE h1[y].hh_prev
             /\ h2[y].hashv = h1[y].hashv
  <2>1. h1[y] \in Handle /\ h1[x] \in Handle BY <1>3
  <2>2. /\ pass2(y) \in Handle
        /\ pass2(y).hh_next = (IF y = h1[x].hh_prev THEN h1[x].hh_next ELSE h1[y].hh_next)
        /\ pass2(y).hh_prev = h1[y].hh_prev
        /\ pass2(y).next = h1[y].next /\ pass2(y).prev = h1[y].prev
        /\ pass2(y).hashv = h1[y].hashv
    BY <2>1 DEF Handle
  <2> HIDE DEF pass2
  <2>3. h2[y] = IF y = h1[x].hh_next THEN [pass2(y) EXCEPT !.hh_prev = h1[x].hh_prev]
                ELSE pass2(y)
    BY <1>2
  <2> QED BY <2>1, <2>2, <2>3 DEF Handle
<1>5. h2 \in [Records -> Handle] BY <1>2, <1>4
<1>6. Bypassed(h, h2, x) BY <1>3, <1>4 DEF Bypassed
<1> QED BY <1>5, <1>6 DEF h1, h2

(* What HASH_DEL_IN_BKT does to the bucket; a bucket at most at its        *)
(* threshold stays so.                                                     *)
LEMMA ShrunkBucket ==
    ASSUME HashTyped, NEW bucket \in Bucket, NEW x \in Records, bucket.count \in Nat \ {0}
    PROVE  /\ DelInBucket(bucket, x) \in Bucket
           /\ DelInBucket(bucket, x).hh_head
                = IF bucket.hh_head = x THEN hh[x].hh_next ELSE bucket.hh_head
           /\ DelInBucket(bucket, x).count = bucket.count - 1
           /\ DelInBucket(bucket, x).expand_mult = bucket.expand_mult
           /\ Tight(bucket) => Tight(DelInBucket(bucket, x))
<1> DEFINE k == bucket.count - 1
           f == IF bucket.hh_head = x THEN hh[x].hh_next ELSE bucket.hh_head
           new == DelInBucket(bucket, x)
<1>1. new = [bucket EXCEPT !.count = k, !.hh_head = f] BY DEF DelInBucket
<1>2. k \in Nat OBVIOUS
<1>3. f \in Records \cup {NULL}
  <2>1. hh[x] \in Handle BY DEF HashTyped
  <2> QED BY <2>1 DEF Bucket, Handle
<1> HIDE DEF k, f, new
<1>4. new \in Bucket /\ new.hh_head = f /\ new.count = k /\ new.expand_mult = bucket.expand_mult
  BY <1>1, <1>2, <1>3 DEF Bucket
<1>5. ASSUME Tight(bucket) PROVE Tight(new)
  <2> DEFINE T == Threshold
             m == bucket.expand_mult
             z == (m + 1) * T
             q == bucket.count
  <2>1. T \in Nat \ {0} /\ m \in Nat /\ q \in Nat /\ k = q - 1 /\ new.count = k
        /\ new.expand_mult = m
    BY <1>4, BucketsAssumption DEF Bucket, k
  <2>2. q < z \/ (m = 0 /\ q = T) BY <1>5 DEF Tight
  <2>3. m = 0 => z = T BY <2>1
  <2>4. z \in Nat BY <2>1
  <2> HIDE DEF T, m, z, q
  <2>5. k < z BY <2>1, <2>2, <2>3, <2>4
  <2> QED BY <2>5, <2>1 DEF Tight, z, T
<1> QED BY <1>4, <1>5 DEF new, f, k

(* Bucket b lost x. *)
ShrunkAt(h, B, B2, n, b, x) ==
    /\ B2[b].hh_head = IF B[b].hh_head = x THEN h[x].hh_next ELSE B[b].hh_head
    /\ B2[b].count = B[b].count - 1
    /\ \A d \in 0..n - 1 : d # b => B2[d] = B[d]

(* HASH_DEL_IN_BKT takes an element out of its chain, wherever in the      *)
(* chain it is.                                                            *)
LEMMA TakeFromChain ==
    ASSUME NEW n \in Nat \ {0}, NEW h \in [Records -> Handle], NEW h2,
           NEW S, S \subseteq Records, NEW x \in S, NEW c, NEW B, NEW B2,
           Chained(h, B, n, c, S), Bypassed(h, h2, x),
           NEW b, b = h[x].hashv % n,
           ShrunkAt(h, B, B2, n, b, x)
    PROVE  b \in 0..n - 1 /\ B[b].count \in Nat \ {0}
           /\ \E c2 : Chained(h2, B2, n, c2, S \ {x})
<1> USE DEF ShrunkAt
<1> DEFINE s == c[b]
           N1 == ChainNext(h)
           P1 == ChainPrev(h)
           N2 == ChainNext(h2)
           P2 == ChainPrev(h2)
<1>1. b \in 0..n - 1
  <2>1. h[x].hashv \in Nat BY DEF Handle
  <2> QED BY <2>1, Remainder
<1>2. c \in [0..n - 1 -> Seq(Records)] /\ s \in Seq(Records) BY <1>1 DEF Chained
<1>3. \A d \in 0..n - 1 :
         /\ Distinct(c[d])
         /\ Linked(c[d], B[d].hh_head, N1, P1, NULL)
         /\ B[d].count = Len(c[d])
         /\ \A y \in Records : y \in Elems(c[d]) <=> y \in S /\ h[y].hashv % n = d
  BY DEF Chained
<1>4. \A y \in Records :
        /\ N2[y] = IF y = P1[x] THEN N1[x] ELSE N1[y]
        /\ P2[y] = IF y = N1[x] THEN P1[x] ELSE P1[y]
        /\ h2[y].hashv = h[y].hashv
  BY DEF Bypassed, ChainNext, ChainPrev
<1>5. N1[x] = h[x].hh_next BY DEF ChainNext
<1> HIDE DEF s, N1, P1, N2, P2
<1>6. /\ Distinct(s) /\ Linked(s, B[b].hh_head, N1, P1, NULL) /\ B[b].count = Len(s)
      /\ \A y \in Records : y \in Elems(s) <=> y \in S /\ h[y].hashv % n = b
  BY <1>1, <1>3 DEF s
<1>7. Len(s) \in Nat /\ s \in [1..Len(s) -> Records] /\ Elems(s) \subseteq Records
  BY <1>2, SeqFacts
<1>8. x \in Elems(s) BY <1>6
<1>9. PICK q \in 1..Len(s) : s[q] = x BY <1>8 DEF Elems
<1> DEFINE a == Without(s, q)
           c2 == [c EXCEPT ![b] = a]
<1>10. /\ a \in Seq(Records) /\ Len(a) = Len(s) - 1 /\ Distinct(a)
       /\ Elems(a) = Elems(s) \ {x}
  <2>1. /\ a \in Seq(Records) /\ Len(a) = Len(s) - 1 /\ Distinct(a)
        /\ Elems(a) = Elems(s) \ {s[q]}
    <3>1. s \in Seq(Records) /\ Distinct(s) BY <1>2, <1>6
    <3> HIDE DEF s
    <3> QED BY <3>1, <1>9, WithoutFacts
  <2> HIDE DEF a
  <2> QED BY <2>1, <1>9
<1> HIDE DEF a
<1>11. c2 \in [0..n - 1 -> Seq(Records)] /\ c2[b] = a
       /\ \A d \in 0..n - 1 : d # b => c2[d] = c[d]
  BY <1>1, <1>2, <1>10
<1> HIDE DEF c2
<1>12. Linked(a, B2[b].hh_head, N2, P2, NULL)
  <2> DEFINE f == B[b].hh_head
  <2>1. TakenOut(s, s[q], N1, P1, N2, P2)
    <3>1. \A y \in Elems(s) \ {x} : y \in Records BY <1>7
    <3> QED BY <3>1, <1>4, <1>9 DEF TakenOut
  <2>2. Linked(s, f, N1, P1, NULL) BY <1>6
  <2>3. f = x <=> q = 1
    <3>1. f = s[1] /\ 1 \in 1..Len(s) BY <2>2, <1>7, <1>9 DEF Linked, At
    <3> QED BY <3>1, <1>6, <1>9 DEF Distinct
  <2>4. B2[b].hh_head = IF q = 1 THEN N1[s[q]] ELSE f BY <2>3, <1>5, <1>9
  <2> HIDE DEF f
  <2>5. Linked(Without(s, q), IF q = 1 THEN N1[s[q]] ELSE f, N2, P2, NULL)
    BY <1>2, <1>6, <1>9, <2>1, <2>2, NodesAssumption, WithoutLinked
  <2> QED BY <2>4, <2>5 DEF a
<1>13. ASSUME NEW d \in 0..n - 1, d # b
       PROVE  Linked(c[d], B[d].hh_head, N2, P2, NULL)
  <2>1. \A y \in Elems(c[d]) : y \in Records /\ y # P1[x] /\ y # N1[x]
    <3> SUFFICES ASSUME NEW y \in Elems(c[d])
                 PROVE y \in Records /\ y # P1[x] /\ y # N1[x] OBVIOUS
    <3>1. y \in Records BY <1>2, SeqFacts
    <3>2. y \in S /\ h[y].hashv % n = d BY <3>1, <1>3
    <3>3. y \notin Elems(s) BY <3>1, <3>2, <1>6, <1>13
    <3>4. N1[x] = At(s, q + 1, NULL) /\ P1[x] = At(s, q - 1, NULL)
      BY <1>6, <1>9 DEF Linked
    <3>5. \A i : At(s, i, NULL) = NULL \/ At(s, i, NULL) \in Elems(s) BY DEF At, Elems
    <3> QED BY <3>1, <3>3, <3>4, <3>5, NodesAssumption
  <2>2. \A y \in Elems(c[d]) : N2[y] = N1[y] /\ P2[y] = P1[y] BY <2>1, <1>4
  <2>3. Linked(c[d], B[d].hh_head, N1, P1, NULL) BY <1>3
  <2> QED BY <2>2, <2>3, LinkedFrame
<1>14. \A d \in 0..n - 1 :
         /\ Distinct(c2[d]) /\ Linked(c2[d], B2[d].hh_head, N2, P2, NULL)
         /\ B2[d].count = Len(c2[d])
         /\ \A y \in Records : y \in Elems(c2[d]) <=> y \in S \ {x} /\ h2[y].hashv % n = d
  <2> SUFFICES ASSUME NEW d \in 0..n - 1
               PROVE  /\ Distinct(c2[d]) /\ Linked(c2[d], B2[d].hh_head, N2, P2, NULL)
                      /\ B2[d].count = Len(c2[d])
                      /\ \A y \in Records : y \in Elems(c2[d])
                                            <=> y \in S \ {x} /\ h2[y].hashv % n = d
    OBVIOUS
  <2>1. CASE d = b
    <3>1. c2[d] = a BY <2>1, <1>11
    <3>2. Distinct(c2[d]) /\ Linked(c2[d], B2[d].hh_head, N2, P2, NULL)
      BY <2>1, <3>1, <1>10, <1>12
    <3>3. B2[d].count = Len(c2[d]) BY <2>1, <3>1, <1>4, <1>6, <1>7, <1>10
    <3>4. ASSUME NEW y \in Records
          PROVE  y \in Elems(c2[d]) <=> y \in S \ {x} /\ h2[y].hashv % n = d
      <4>1. h2[y].hashv = h[y].hashv BY <1>4
      <4>2. y \in Elems(s) <=> y \in S /\ h[y].hashv % n = b BY <1>6
      <4>3. Elems(c2[d]) = Elems(s) \ {x} BY <3>1, <1>10
      <4> QED BY <2>1, <4>1, <4>2, <4>3
    <3> QED BY <3>2, <3>3, <3>4
  <2>2. CASE d # b
    <3>1. c2[d] = c[d] /\ B2[d] = B[d] BY <2>2, <1>11
    <3>2. Linked(c[d], B[d].hh_head, N2, P2, NULL) BY <2>2, <1>13
    <3>3. Distinct(c[d]) /\ B[d].count = Len(c[d]) BY <1>3
    <3>4. ASSUME NEW y \in Records
          PROVE  y \in Elems(c[d]) <=> y \in S \ {x} /\ h2[y].hashv % n = d
      <4>1. y \in Elems(c[d]) <=> y \in S /\ h[y].hashv % n = d BY <1>3
      <4>2. h2[y].hashv = h[y].hashv BY <1>4
      <4>3. h[x].hashv % n # d BY <2>2
      <4> QED BY <4>1, <4>2, <4>3
    <3> QED BY <3>1, <3>2, <3>3, <3>4
  <2> QED BY <2>1, <2>2
<1>15. Chained(h2, B2, n, c2, S \ {x}) BY <1>11, <1>14 DEF Chained, N2, P2
<1>16. B[b].count \in Nat \ {0}
  <2>1. B[b].count = Len(s) BY <1>6
  <2>2. Len(s) \in Nat \ {0} BY <1>7, <1>9
  <2> QED BY <2>1, <2>2
<1> QED BY <1>1, <1>15, <1>16

(* HASH_DELETE of any element, the first, the last and the only one        *)
(* included: afterwards the hash represents the sequence without it.       *)
LEMMA HashDeleteRep ==
    ASSUME HashTyped, NEW o, HashRep(o), NEW p \in 1..Len(o), HASH_DELETE(o[p])
    PROVE  /\ HashTyped' /\ HashRep(Without(o, p))' /\ key' = key
           /\ p = 1 => head' = hh[o[p]].next
<1> DEFINE x == o[p]
           S == Elems(o)
           a == Without(o, p)
           N1 == NextOf(hh)
           P1 == PrevOf(hh)
<1>1. /\ head = NULL <=> Len(o) = 0
      /\ Len(o) \in Nat /\ o \in [1..Len(o) -> Records] /\ S \subseteq Records
  BY EmptyOrder
<1>2. x \in Records /\ x \in S /\ head # NULL BY <1>1 DEF Elems
<1>3. /\ o \in Seq(Records) /\ Distinct(o) /\ Linked(o, head, N1, P1, NULL)
      /\ TableFits(hh, tbl, S) /\ tbl.num_items = Len(o) /\ tbl.tail = o[Len(o)]
      /\ \A y \in S : key[y] \in Uids /\ hh[y].hashv = hash_fcn[key[y]]
      /\ \A y, z \in S : key[y] = key[z] => y = z
  BY <1>2 DEF HashRep
<1>4. /\ a \in Seq(Records) /\ Len(a) = Len(o) - 1 /\ Distinct(a) /\ Elems(a) = S \ {x}
      /\ \A i \in 1..Len(o) - 1 : a[i] = IF i < p THEN o[i] ELSE o[i + 1]
  BY <1>3, WithoutFacts
<1>5. /\ hh[x].next = At(o, p + 1, NULL) /\ hh[x].prev = At(o, p - 1, NULL)
      /\ N1[x] = hh[x].next /\ P1[x] = hh[x].prev
  BY <1>2, <1>3 DEF Linked, NextOf, PrevOf
<1>6. /\ hh[x].prev = NULL <=> p = 1
      /\ hh[x].next = NULL <=> p = Len(o)
  <2> DEFINE m == Len(o)
  <2>1. m \in Nat /\ p \in 1..m BY <1>1
  <2>2. \A i \in Int : At(o, i, NULL) = IF i \in 1..m THEN o[i] ELSE NULL BY DEF At
  <2>3. \A i \in 1..m : o[i] # NULL BY <1>1, NodesAssumption
  <2> HIDE DEF m, x
  <2>4. p - 1 \in Int /\ p + 1 \in Int /\ (p - 1 \in 1..m <=> p # 1)
        /\ (p + 1 \in 1..m <=> p # m)
    BY <2>1
  <2> QED BY <2>2, <2>3, <2>4, <1>5 DEF m
<1> HIDE DEF a, x
<1>7. CASE hh[x].prev = NULL /\ hh[x].next = NULL
  <2>1. head' = NULL /\ key' = key /\ hh' = hh /\ tbl' = tbl /\ hash_fcn' = hash_fcn
    BY <1>7 DEF HASH_DELETE, x
  <2>2. p = 1 /\ Len(o) = 1 BY <1>6, <1>7
  <2>3. Len(a) = 0 /\ Elems(a) = {} BY <2>2, <1>4 DEF Elems
  <2>4. Linked(a, NULL, NextOf(hh'), PrevOf(hh'), NULL) BY <2>3 DEF Linked, At
  <2>5. HashRep(a)' BY <2>1, <2>3, <2>4, <1>4 DEF HashRep
  <2>6. HashTyped' BY <2>1 DEF HashTyped
  <2>7. head' = hh[x].next BY <2>1, <1>7
  <2> QED BY <2>1, <2>5, <2>6, <2>7 DEF a, x
<1>8. CASE ~(hh[x].prev = NULL /\ hh[x].next = NULL)
  <2> DEFINE n == tbl.num_buckets
             b == hh[x].hashv % n
             B == tbl.buckets
             B2 == [B EXCEPT ![b] = DelInBucket(@, x)]
             h2 == Unlink(Unlink(hh, x, "prev", "next"), x, "hh_prev", "hh_next")
             tail2 == IF tbl.tail = x THEN hh[x].prev ELSE tbl.tail
  <2>1. /\ head' = IF hh[x].prev = NULL THEN hh[x].next ELSE head
        /\ hh' = h2 /\ key' = key /\ hash_fcn' = hash_fcn
        /\ tbl' = [tbl EXCEPT !.tail = tail2, !.num_items = @ - 1, !.buckets = B2]
    <3>1. /\ head' = IF hh[x].prev = NULL THEN hh[x].next ELSE head
          /\ hh' = h2 /\ key' = key /\ hash_fcn' = hash_fcn
          /\ tbl' = [tbl EXCEPT !.tail = tail2, !.num_items = @ - 1,
                                !.buckets[b] = DelInBucket(@, x)]
      BY <1>8 DEF HASH_DELETE, HASH_TO_BKT, x
    <3> QED BY <3>1
  <2>2. h2 \in [Records -> Handle] /\ Bypassed(hh, h2, x)
    BY <1>2, UnlinkFacts DEF HashTyped
  <2> HIDE DEF h2, tail2
  <2>3. n \in Nat \ {0} /\ tbl \in TableOf(n) /\ B \in [0..n - 1 -> Bucket] /\ tbl.num_items \in Nat
    BY DEF HashTyped, TableOf
  <2>4. PICK c : Chained(hh, B, n, c, S) BY <1>3 DEF TableFits
  <2> HIDE DEF n, B
  <2>5. b \in 0..n - 1
    <3>1. hh[x].hashv \in Nat BY <1>2 DEF HashTyped, Handle
    <3> QED BY <3>1, <2>3, Remainder
  <2>6. B[b] \in Bucket BY <2>3, <2>5
  <2>7. B[b].count \in Nat \ {0}
    <3> DEFINE s == c[b]
    <3>1. s \in Seq(Records) /\ B[b].count = Len(s) /\ x \in Elems(s)
      BY <1>2, <2>4, <2>5 DEF Chained
    <3> HIDE DEF s
    <3>2. Len(s) \in Nat /\ 1..Len(s) # {} BY <3>1, SeqFacts DEF Elems
    <3> QED BY <3>1, <3>2
  <2>8. /\ B2 \in [0..n - 1 -> Bucket] /\ B2[b] = DelInBucket(B[b], x)
        /\ \A d \in 0..n - 1 : d # b => B2[d] = B[d]
    BY <2>3, <2>5, <2>6, <2>7, <1>2, ShrunkBucket
  <2> HIDE DEF B2, b
  <2>9. /\ B2[b].hh_head = IF B[b].hh_head = x THEN hh[x].hh_next ELSE B[b].hh_head
        /\ B2[b].count = B[b].count - 1
        /\ B2[b].expand_mult = B[b].expand_mult
        /\ Tight(B[b]) => Tight(B2[b])
    BY <1>2, <2>6, <2>7, <2>8, ShrunkBucket
  <2>10. \E c2 : Chained(h2, B2, n, c2, S \ {x})
    <3>1. hh \in [Records -> Handle] BY DEF HashTyped
    <3>2. b = hh[x].hashv % n BY DEF b
    <3>3. ShrunkAt(hh, B, B2, n, b, x) BY <2>8, <2>9 DEF ShrunkAt
    <3> HIDE DEF S
    <3> QED BY <1>1, <1>2, <2>2, <2>3, <2>4, <3>1, <3>2, <3>3, TakeFromChain
  <2>11. tail2 \in Records \cup {NULL}
    <3>1. tbl.tail \in Records \cup {NULL} BY <2>3 DEF TableOf
    <3>2. hh[x] \in Handle BY <1>2 DEF HashTyped
    <3> QED BY <3>1, <3>2 DEF Handle, tail2
  <2>12. tbl.num_items - 1 \in Nat BY <1>1, <1>3
  <2>13. /\ tbl' \in TableOf(n) /\ tbl'.num_buckets = n /\ tbl'.buckets = B2
         /\ tbl'.noexpand = tbl.noexpand /\ tbl'.tail = tail2
         /\ tbl'.num_items = tbl.num_items - 1
    BY <2>1, <2>3, <2>8, <2>11, <2>12 DEF TableOf
  <2>14. TableFits(h2, tbl', S \ {x})
    <3>1. ASSUME ~tbl.noexpand
          PROVE  (\A d \in 0..n - 1 : Tight(B2[d])) /\ MultsBounded(B2, n)
      <4>1. (\A d \in 0..n - 1 : Tight(B[d])) /\ MultsBounded(B, n)
        BY <3>1, <1>3 DEF TableFits, n, B
      <4>2. Mults(B2, n) = Mults(B, n) BY <2>8, <2>9 DEF Mults
      <4> QED BY <4>1, <4>2, <2>8, <2>9 DEF MultsBounded
    <3> QED BY <3>1, <2>3, <2>10, <2>13 DEF TableFits
  <2>15. Linked(a, head', NextOf(hh'), PrevOf(hh'), NULL)
    <3> DEFINE N2 == NextOf(hh')
               P2 == PrevOf(hh')
    <3>1. TakenOut(o, o[p], N1, P1, N2, P2)
      BY <1>1, <1>2, <1>5, <2>1, <2>2 DEF TakenOut, Bypassed, NextOf, PrevOf, x
    <3>2. head' = IF p = 1 THEN N1[o[p]] ELSE head BY <2>1, <1>5, <1>6 DEF x
    <3> HIDE DEF N1, P1, N2, P2
    <3>3. Linked(Without(o, p), IF p = 1 THEN N1[o[p]] ELSE head, N2, P2, NULL)
      BY <1>3, <3>1, NodesAssumption, WithoutLinked
    <3> QED BY <3>2, <3>3 DEF a, N2, P2
  <2>16. tail2 = a[Len(a)]
    <3> DEFINE m == Len(o) - 1
    <3>1. m \in 1..m /\ Len(a) = m /\ m + 1 = Len(o) /\ m \in 1..Len(o) /\ Len(o) \in 1..Len(o)
      <4>1. Len(o) \in Nat /\ p \in 1..Len(o) /\ Len(a) = Len(o) - 1 BY <1>1, <1>4
      <4>2. Len(o) # 1 BY <1>6, <1>8, <4>1
      <4> QED BY <4>1, <4>2
    <3>2. a[m] = IF m < p THEN o[m] ELSE o[m + 1] BY <3>1, <1>4
    <3>3. tbl.tail = x <=> p = Len(o)
      <4>1. o[Len(o)] = o[p] <=> p = Len(o) BY <3>1, <1>3 DEF Distinct
      <4> QED BY <4>1, <1>3 DEF x
    <3>4. CASE p = Len(o)
      <4>1. tail2 = hh[x].prev BY <3>3, <3>4 DEF tail2
      <4>2. hh[x].prev = o[m] BY <3>1, <3>4, <1>5 DEF At
      <4>3. m < p BY <3>1, <3>4, <1>1
      <4> QED BY <4>1, <4>2, <4>3, <3>1, <3>2
    <3>5. CASE p # Len(o)
      <4>1. tail2 = o[Len(o)] BY <3>3, <3>5, <1>3 DEF tail2
      <4>2. ~(m < p) BY <3>1, <3>5, <1>1
      <4> QED BY <4>1, <4>2, <3>1, <3>2
    <3> QED BY <3>4, <3>5
  <2>17. \A y \in S : h2[y].hashv = hh[y].hashv BY <1>1, <2>2 DEF Bypassed
  <2>18. HashRep(a)'
    <3>1. \A y \in Elems(a) : key'[y] \in Uids /\ hh'[y].hashv = hash_fcn'[key'[y]]
      BY <1>3, <1>4, <2>1, <2>17
    <3>2. \A y, z \in Elems(a) : key'[y] = key'[z] => y = z BY <1>3, <1>4, <2>1
    <3>3. TableFits(hh', tbl', Elems(a)) /\ tbl'.num_items = Len(a) /\ tbl'.tail = a[Len(a)]
      BY <1>3, <1>4, <2>1, <2>13, <2>14, <2>16
    <3> QED BY <3>1, <3>2, <3>3, <2>15, <1>4 DEF HashRep
  <2>19. HashTyped'
    <3>1. head' \in Records \cup {NULL}
      <4>1. hh[x] \in Handle BY <1>2 DEF HashTyped
      <4> QED BY <4>1, <2>1 DEF HashTyped, Handle
    <3>2. hh' \in [Records -> Handle] BY <2>1, <2>2
    <3>3. tbl'.num_buckets \in Nat \ {0} /\ tbl' \in TableOf(tbl'.num_buckets)
      BY <2>3, <2>13
    <3>4. key' \in [Records -> Uids \cup {NULL}] /\ hash_fcn' \in HashFunctions
      BY <2>1 DEF HashTyped
    <3> QED BY <3>1, <3>2, <3>3, <3>4 DEF HashTyped
  <2>20. p = 1 => head' = hh[x].next BY <1>6, <2>1
  <2> QED BY <2>1, <2>18, <2>19, <2>20 DEF a, x
<1> QED BY <1>7, <1>8
=============================================================================

--------------------------- MODULE Pointers_proofs ---------------------------
(***************************************************************************)
(* Doubly linked lists of pointers and the sequences they represent, in    *)
(* general: uthash.h keeps two (the order of insertion and the chain of    *)
(* each bucket) and list.h one.  A list is a first pointer and two         *)
(* functions, nxt and prv; nil is what the pointers at its ends hold.  For *)
(* the three things the code does to such a list (an element put in front, *)
(* one put at the end, one taken out) a lemma says what sequence the       *)
(* pointers represent then.                                                *)
(*                                                                         *)
(* Nothing here mentions a variable of the model.                          *)
(***************************************************************************)
EXTENDS Integers, Sequences, SequenceTheorems, WellFoundedInduction, TLAPS

(* The entries of a sequence. *)
Elems(s) == {s[i] : i \in 1..Len(s)}

(* No entry comes twice. *)
Distinct(s) == \A i, j \in 1..Len(s) : s[i] = s[j] => i = j

(* Entry i of s, and nil beyond its ends. *)
At(s, i, nil) == IF i \in 1..Len(s) THEN s[i] ELSE nil

(* From first on, the pointers nxt run through s and end in nil; the       *)
(* pointers prv run back through it.                                       *)
Linked(s, first, nxt, prv, nil) ==
    /\ first = At(s, 1, nil)
    /\ \A i \in 1..Len(s) : /\ nxt[s[i]] = At(s, i + 1, nil)
                            /\ prv[s[i]] = At(s, i - 1, nil)

(* x in front of s. *)
Pushed(x, s) == [i \in 1..Len(s) + 1 |-> IF i = 1 THEN x ELSE s[i - 1]]

(* What HASH_ADD_TO_BKT does to the pointers of a chain s (uthash.h:650):  *)
(* x points to the old first, which points back to x.                      *)
PushedAt(x, s, first, nxt, prv, nxt2, prv2, nil) ==
    /\ nxt2[x] = first /\ prv2[x] = nil
    /\ \A i \in 1..Len(s) : /\ nxt2[s[i]] = nxt[s[i]]
                            /\ prv2[s[i]] = IF i = 1 THEN x ELSE prv[s[i]]

(* What HASH_ADD does to the pointers of the order s (uthash.h:150): the   *)
(* old last points to x, which points back to it.                          *)
AppendedAt(x, s, nxt, prv, nxt2, prv2, nil) ==
    /\ nxt2[x] = nil /\ prv2[x] = At(s, Len(s), nil)
    /\ \A i \in 1..Len(s) : /\ nxt2[s[i]] = (IF i = Len(s) THEN x ELSE nxt[s[i]])
                            /\ prv2[s[i]] = prv[s[i]]

(* What HASH_DELETE does to the pointers of the elements that stay         *)
(* (uthash.h:192): the two neighbours of x bypass it.                      *)
TakenOut(s, x, nxt, prv, nxt2, prv2) ==
    \A y \in Elems(s) \ {x} :
      /\ nxt2[y] = IF y = prv[x] THEN nxt[x] ELSE nxt[y]
      /\ prv2[y] = IF y = nxt[x] THEN prv[x] ELSE prv[y]

(* The sequence s without its entry p. *)
Without(s, p) == [i \in 1..Len(s) - 1 |-> IF i < p THEN s[i] ELSE s[i + 1]]
-----------------------------------------------------------------------------
(* A set of natural numbers that is not empty has a least element: the     *)
(* form in which the proofs below do induction, by a least counterexample. *)
LEMMA LeastElement ==
    ASSUME NEW T, T \subseteq Nat, T # {}
    PROVE  \E n \in T : \A m \in T : n <= m
<1> DEFINE R == {ss \in Nat \X Nat : ss[1] < ss[2]}
<1>1. IsWellFoundedOn(R, Nat) BY NatLessThanWellFounded DEF OpToRel
<1> HIDE DEF R
<1>2. PICK n \in T : \A m \in T : ~(<<m, n>> \in R) BY <1>1, WFMin
<1>3. \A m \in T : n <= m
  <2> SUFFICES ASSUME NEW m \in T, m < n PROVE FALSE OBVIOUS
  <2>1. <<m, n>> \in R BY DEF R
  <2> QED BY <2>1, <1>2
<1> QED BY <1>3

(* A sequence over E is a function on 1..Len, and its entries are in E. *)
LEMMA SeqFacts ==
    ASSUME NEW E, NEW s \in Seq(E)
    PROVE  /\ Len(s) \in Nat /\ DOMAIN s = 1..Len(s) /\ s \in [1..Len(s) -> E]
           /\ Elems(s) \subseteq E
<1>1. Len(s) \in Nat /\ DOMAIN s = 1..Len(s) /\ s \in [1..Len(s) -> E]
  BY LenProperties, Zenon
<1> QED BY <1>1 DEF Elems

(* A list does not notice a change to pointers of elements that are not    *)
(* its own.                                                                *)
LEMMA LinkedFrame ==
    ASSUME NEW s, NEW first, NEW nil, NEW nxt, NEW prv, NEW nxt2, NEW prv2,
           Linked(s, first, nxt, prv, nil),
           \A x \in Elems(s) : nxt2[x] = nxt[x] /\ prv2[x] = prv[x]
    PROVE  Linked(s, first, nxt2, prv2, nil)
BY DEF Linked, Elems

(* A new element at the end of a sequence that has none twice. *)
LEMMA AppendFacts ==
    ASSUME NEW E, NEW s \in Seq(E), Distinct(s), NEW x \in E \ Elems(s)
    PROVE  /\ Append(s, x) \in Seq(E) /\ Len(Append(s, x)) = Len(s) + 1
           /\ Append(s, x)[Len(s) + 1] = x
           /\ \A i \in 1..Len(s) : Append(s, x)[i] = s[i]
           /\ Distinct(Append(s, x)) /\ Elems(Append(s, x)) = Elems(s) \cup {x}
<1> DEFINE a == Append(s, x)
           n == Len(s)
<1>1. /\ a \in Seq(E) /\ Len(a) = n + 1 /\ a[n + 1] = x
      /\ \A i \in 1..n : a[i] = s[i]
  BY AppendProperties
<1>2. n \in Nat /\ s \in [1..n -> E] BY SeqFacts
<1> HIDE DEF a
<1>3. Distinct(a)
  <2> SUFFICES ASSUME NEW i \in 1..Len(a), NEW j \in 1..Len(a), a[i] = a[j] PROVE i = j
    BY DEF Distinct
  <2>1. \A k \in 1..n : a[k] # x BY <1>1 DEF Elems
  <2>2. i \in 1..n \/ i = n + 1 BY <1>1, <1>2
  <2>3. j \in 1..n \/ j = n + 1 BY <1>1, <1>2
  <2> QED BY <1>1, <2>1, <2>2, <2>3 DEF Distinct
<1>4. Elems(a) = Elems(s) \cup {x}
  <2>1. \A i \in 1..(n + 1) : i \in 1..n \/ i = n + 1 BY <1>2
  <2>2. \A i \in 1..n : i \in 1..(n + 1) BY <1>2
  <2>3. n + 1 \in 1..(n + 1) BY <1>2
  <2> QED BY <1>1, <2>1, <2>2, <2>3 DEF Elems
<1> QED BY <1>1, <1>3, <1>4 DEF a

(* After HASH_ADD the pointers of the order represent the order with the   *)
(* new element at its end.                                                 *)
LEMMA AppendLinked ==
    ASSUME NEW E, NEW nil, NEW s \in Seq(E), Distinct(s), NEW x \in E \ Elems(s),
           NEW first, NEW nxt, NEW prv, NEW nxt2, NEW prv2,
           Linked(s, first, nxt, prv, nil),
           AppendedAt(x, s, nxt, prv, nxt2, prv2, nil)
    PROVE  Linked(Append(s, x), IF Len(s) = 0 THEN x ELSE first, nxt2, prv2, nil)
<1> USE DEF AppendedAt
<1> DEFINE a == Append(s, x)
           n == Len(s)
<1>1. /\ a \in Seq(E) /\ Len(a) = n + 1 /\ a[n + 1] = x
      /\ \A i \in 1..n : a[i] = s[i]
  BY AppendFacts
<1>2. n \in Nat BY SeqFacts
<1> HIDE DEF a
<1>3. \A i \in 1..n : At(a, i, nil) = At(s, i, nil) BY <1>1, <1>2 DEF At
<1>4. At(a, n + 1, nil) = x /\ At(a, n + 2, nil) = nil /\ At(a, 0, nil) = nil BY <1>1, <1>2 DEF At
<1>5. (IF n = 0 THEN x ELSE first) = At(a, 1, nil)
  BY <1>1, <1>2, <1>3, <1>4 DEF Linked
<1>6. ASSUME NEW i \in 1..Len(a)
      PROVE  nxt2[a[i]] = At(a, i + 1, nil) /\ prv2[a[i]] = At(a, i - 1, nil)
  <2>1. CASE i = n + 1
    <3>1. n = 0 => At(s, n, nil) = nil BY DEF At
    <3>2. n # 0 => At(a, n, nil) = At(s, n, nil) BY <1>2, <1>3
    <3> QED BY <2>1, <1>1, <1>2, <1>4, <3>1, <3>2
  <2>2. CASE i \in 1..n
    <3>1. prv2[a[i]] = At(s, i - 1, nil) BY <2>2, <1>1 DEF Linked
    <3>2. At(s, i - 1, nil) = At(a, i - 1, nil) BY <2>2, <1>1, <1>2 DEF At
    <3>3. CASE i = n BY <3>1, <3>2, <3>3, <1>1, <1>2, <1>4, <2>2
    <3>4. CASE i # n
      <4>1. nxt2[a[i]] = At(s, i + 1, nil) BY <2>2, <1>1, <3>4 DEF Linked
      <4>2. i + 1 \in 1..n BY <2>2, <3>4, <1>2
      <4> QED BY <4>1, <4>2, <1>3, <3>1, <3>2
    <3> QED BY <3>3, <3>4
  <2> QED BY <1>1, <1>2, <2>1, <2>2
<1> QED BY <1>1, <1>5, <1>6 DEF Linked, a

(* A new element in front of a sequence that has none twice. *)
LEMMA PushedFacts ==
    ASSUME NEW E, NEW s \in Seq(E), Distinct(s), NEW x \in E \ Elems(s)
    PROVE  /\ Pushed(x, s) \in Seq(E) /\ Len(Pushed(x, s)) = Len(s) + 1
           /\ Pushed(x, s)[1] = x
           /\ \A i \in 1..Len(s) : Pushed(x, s)[i + 1] = s[i]
           /\ Distinct(Pushed(x, s)) /\ Elems(Pushed(x, s)) = Elems(s) \cup {x}
<1> DEFINE n == Len(s)
           a == Pushed(x, s)
<1>1. n \in Nat /\ s \in [1..n -> E] BY SeqFacts
<1>2. a = [i \in 1..(n + 1) |-> IF i = 1 THEN x ELSE s[i - 1]] BY DEF Pushed
<1> HIDE DEF n, a
<1>3. a \in [1..(n + 1) -> E]
  <2> SUFFICES ASSUME NEW i \in 1..(n + 1), i # 1 PROVE s[i - 1] \in E BY <1>1, <1>2
  <2>1. i - 1 \in 1..n BY <1>1
  <2> QED BY <2>1, <1>1
<1>4. n + 1 \in Nat BY <1>1
<1>5. a \in Seq(E) BY <1>3, <1>4, SeqDef
<1>6. Len(a) = n + 1
  <2>1. DOMAIN a = 1..(n + 1) /\ DOMAIN a = 1..Len(a) /\ Len(a) \in Nat BY <1>3, <1>5, SeqFacts
  <2> QED BY <2>1, <1>4
<1>7. a[1] = x /\ \A i \in 1..n : a[i + 1] = s[i] BY <1>1, <1>2
<1>8. \A i \in 1..n : s[i] # x BY DEF Elems, n
<1>9. Distinct(a)
  <2> SUFFICES ASSUME NEW i \in 1..(n + 1), NEW j \in 1..(n + 1), a[i] = a[j] PROVE i = j
    BY <1>6 DEF Distinct
  <2>1. CASE i = 1 /\ j = 1 BY <2>1
  <2>2. CASE i = 1 /\ j # 1
    <3>1. j - 1 \in 1..n /\ a[j] = s[j - 1] BY <2>2, <1>1, <1>2
    <3> QED BY <3>1, <2>2, <1>7, <1>8
  <2>3. CASE i # 1 /\ j = 1
    <3>1. i - 1 \in 1..n /\ a[i] = s[i - 1] BY <2>3, <1>1, <1>2
    <3> QED BY <3>1, <2>3, <1>7, <1>8
  <2>4. CASE i # 1 /\ j # 1
    <3>1. i - 1 \in 1..n /\ a[i] = s[i - 1] BY <2>4, <1>1, <1>2
    <3>2. j - 1 \in 1..n /\ a[j] = s[j - 1] BY <2>4, <1>1, <1>2
    <3>3. i - 1 = j - 1 BY <3>1, <3>2 DEF Distinct, n
    <3> QED BY <3>3
  <2> QED BY <2>1, <2>2, <2>3, <2>4
<1>10. Elems(a) = Elems(s) \cup {x}
  <2>1. \A i \in 1..(n + 1) : a[i] \in Elems(s) \cup {x}
    <3> SUFFICES ASSUME NEW i \in 1..(n + 1), i # 1 PROVE a[i] \in Elems(s) BY <1>7
    <3>1. i - 1 \in 1..n /\ a[i] = s[i - 1] BY <1>1, <1>2
    <3> QED BY <3>1 DEF Elems, n
  <2>2. \A i \in 1..n : i + 1 \in 1..(n + 1) BY <1>1
  <2>3. 1 \in 1..(n + 1) BY <1>1
  <2>4. Elems(s) = {s[i] : i \in 1..n} /\ Elems(a) = {a[i] : i \in 1..(n + 1)}
    BY <1>6 DEF Elems, n
  <2> QED BY <1>7, <2>1, <2>2, <2>3, <2>4
<1> QED BY <1>5, <1>6, <1>7, <1>9, <1>10 DEF n, a

(* After HASH_ADD_TO_BKT the pointers of the chain represent the chain     *)
(* with the new element in front.                                          *)
LEMMA PushedLinked ==
    ASSUME NEW E, NEW nil, NEW s \in Seq(E), Distinct(s), NEW x \in E \ Elems(s),
           NEW first, NEW nxt, NEW prv, NEW nxt2, NEW prv2,
           Linked(s, first, nxt, prv, nil),
           PushedAt(x, s, first, nxt, prv, nxt2, prv2, nil)
    PROVE  Linked(Pushed(x, s), x, nxt2, prv2, nil)
<1> DEFINE n == Len(s)
           a == Pushed(x, s)
<1>1. n \in Nat BY SeqFacts
<1>0. /\ nxt2[x] = first /\ prv2[x] = nil
      /\ \A i \in 1..n : nxt2[s[i]] = nxt[s[i]] /\ prv2[s[i]] = IF i = 1 THEN x ELSE prv[s[i]]
  BY DEF PushedAt
<1>2. Len(a) = n + 1 /\ a[1] = x /\ \A i \in 1..n : a[i + 1] = s[i] BY PushedFacts
<1> HIDE DEF a
<1>3. \A i \in 1..(n + 1) : At(a, i + 1, nil) = At(s, i, nil)
  <2> SUFFICES ASSUME NEW i \in 1..(n + 1) PROVE At(a, i + 1, nil) = At(s, i, nil) OBVIOUS
  <2>1. CASE i \in 1..n
    <3>1. i + 1 \in 1..(n + 1) BY <2>1, <1>1
    <3> QED BY <2>1, <3>1, <1>2 DEF At
  <2>2. CASE i = n + 1
    <3>1. i + 1 \notin 1..(n + 1) /\ i \notin 1..n BY <2>2, <1>1
    <3> QED BY <3>1, <1>2 DEF At
  <2> QED BY <2>1, <2>2, <1>1
<1>4. At(a, 1, nil) = x /\ At(a, 0, nil) = nil BY <1>1, <1>2 DEF At
<1>5. ASSUME NEW i \in 1..(n + 1)
      PROVE  nxt2[a[i]] = At(a, i + 1, nil) /\ prv2[a[i]] = At(a, i - 1, nil)
  <2>1. CASE i = 1 BY <2>1, <1>0, <1>2, <1>3, <1>4 DEF Linked
  <2>2. CASE i # 1
    <3> DEFINE k == i - 1
    <3>1. k \in 1..n /\ k + 1 = i BY <2>2, <1>1
    <3> HIDE DEF k
    <3>2. a[i] = s[k] BY <3>1, <1>2
    <3>3. nxt2[a[i]] = At(s, k + 1, nil) BY <1>0, <3>1, <3>2 DEF Linked
    <3>4. At(s, k + 1, nil) = At(a, i + 1, nil) BY <3>1, <1>3
    <3>5. CASE k = 1
      <4>1. prv2[a[i]] = x BY <1>0, <3>1, <3>2, <3>5
      <4>2. i - 1 = 1 BY <3>1, <3>5
      <4> QED BY <4>1, <4>2, <1>4, <3>3, <3>4
    <3>6. CASE k # 1
      <4>1. prv2[a[i]] = At(s, k - 1, nil) BY <1>0, <3>1, <3>2, <3>6 DEF Linked
      <4>2. k - 1 \in 1..(n + 1) /\ (k - 1) + 1 = i - 1 BY <3>1, <3>6, <1>1
      <4>3. At(a, (k - 1) + 1, nil) = At(s, k - 1, nil) BY <4>2, <1>3
      <4> QED BY <4>1, <4>2, <4>3, <3>3, <3>4
    <3> QED BY <3>5, <3>6
  <2> QED BY <2>1, <2>2
<1> QED BY <1>2, <1>4, <1>5 DEF Linked, a

(* One entry taken out of a sequence that has none twice. *)
LEMMA WithoutFacts ==
    ASSUME NEW E, NEW s \in Seq(E), Distinct(s), NEW p \in 1..Len(s)
    PROVE  /\ Without(s, p) \in Seq(E) /\ Len(Without(s, p)) = Len(s) - 1
           /\ \A i \in 1..Len(s) - 1 : Without(s, p)[i] = IF i < p THEN s[i] ELSE s[i + 1]
           /\ Distinct(Without(s, p)) /\ Elems(Without(s, p)) = Elems(s) \ {s[p]}
<1> DEFINE n == Len(s)
           a == Without(s, p)
<1>1. n \in Nat /\ s \in [1..n -> E] /\ p \in 1..n BY SeqFacts
<1>2. a = [i \in 1..n - 1 |-> IF i < p THEN s[i] ELSE s[i + 1]] BY DEF Without
<1> HIDE DEF n, a
<1>3. n - 1 \in Nat /\ \A i \in 1..n - 1 : i \in 1..n /\ i + 1 \in 1..n /\ i \in Int BY <1>1
<1>4. a \in [1..n - 1 -> E] BY <1>1, <1>2, <1>3
<1>5. a \in Seq(E) BY <1>3, <1>4, SeqDef
<1>6. Len(a) = n - 1
  <2>1. DOMAIN a = 1..n - 1 /\ DOMAIN a = 1..Len(a) /\ Len(a) \in Nat BY <1>4, <1>5, SeqFacts
  <2> QED BY <2>1, <1>3
<1>7. \A i \in 1..n - 1 : a[i] = IF i < p THEN s[i] ELSE s[i + 1] BY <1>2
<1>8. \A i, j \in 1..n : s[i] = s[j] => i = j BY DEF Distinct, n
<1>9. Distinct(a)
  <2> SUFFICES ASSUME NEW i \in 1..n - 1, NEW j \in 1..n - 1, a[i] = a[j] PROVE i = j
    BY <1>6 DEF Distinct
  <2> DEFINE f(k) == IF k < p THEN k ELSE k + 1
  <2>1. f(i) \in 1..n /\ f(j) \in 1..n /\ a[i] = s[f(i)] /\ a[j] = s[f(j)] BY <1>3, <1>7
  <2>2. f(i) = f(j) BY <2>1, <1>8
  <2> QED BY <2>2, <1>1, <1>3
<1>10. Elems(a) = Elems(s) \ {s[p]}
  <2>1. Elems(s) = {s[i] : i \in 1..n} /\ Elems(a) = {a[i] : i \in 1..n - 1}
    BY <1>6 DEF Elems, n
  <2>2. ASSUME NEW i \in 1..n - 1 PROVE a[i] \in Elems(s) /\ a[i] # s[p]
    <3>1. CASE i < p BY <3>1, <1>1, <1>3, <1>7, <1>8, <2>1
    <3>2. CASE ~(i < p)
      <4>1. i + 1 \in 1..n /\ i + 1 # p BY <3>2, <1>1, <1>3
      <4> QED BY <3>2, <4>1, <1>1, <1>7, <1>8, <2>1
    <3> QED BY <3>1, <3>2
  <2>3. ASSUME NEW i \in 1..n, s[i] # s[p] PROVE s[i] \in Elems(a)
    <3>1. CASE i < p
      <4>1. i \in 1..n - 1 BY <3>1, <1>1
      <4> QED BY <3>1, <4>1, <1>7, <2>1
    <3>2. CASE p < i
      <4>1. i - 1 \in 1..n - 1 /\ ~(i - 1 < p) /\ (i - 1) + 1 = i BY <3>2, <1>1
      <4>2. a[i - 1] = s[i] BY <4>1, <1>7
      <4> QED BY <4>1, <4>2, <2>1
    <3>3. i # p BY <2>3
    <3> QED BY <3>1, <3>2, <3>3, <1>1
  <2> QED BY <2>1, <2>2, <2>3
<1> QED BY <1>5, <1>6, <1>7, <1>9, <1>10 DEF n, a

(* After HASH_DELETE the pointers that are left represent the list without *)
(* the element, wherever in the list it was; the first pointer is moved    *)
(* only if it was the first.                                               *)
LEMMA WithoutLinked ==
    ASSUME NEW E, NEW nil, nil \notin E, NEW s \in Seq(E), Distinct(s), NEW p \in 1..Len(s),
           NEW first, NEW nxt, NEW prv, NEW nxt2, NEW prv2,
           Linked(s, first, nxt, prv, nil),
           TakenOut(s, s[p], nxt, prv, nxt2, prv2)
    PROVE  Linked(Without(s, p), IF p = 1 THEN nxt[s[p]] ELSE first, nxt2, prv2, nil)
<1> USE DEF TakenOut
<1> DEFINE n == Len(s)
           a == Without(s, p)
           x == s[p]
<1>1. n \in Nat /\ s \in [1..n -> E] /\ p \in 1..n BY SeqFacts
<1>2. Len(a) = n - 1 /\ \A i \in 1..n - 1 : a[i] = IF i < p THEN s[i] ELSE s[i + 1]
  BY WithoutFacts
<1>3. \A i, j \in 1..n : s[i] = s[j] => i = j BY DEF Distinct
<1>4. /\ \A i \in 1..n : nxt[s[i]] = At(s, i + 1, nil) /\ prv[s[i]] = At(s, i - 1, nil)
      /\ first = At(s, 1, nil)
  BY DEF Linked
<1>5. \A i \in 1..n : s[i] \in Elems(s) BY DEF Elems
<1>6. \A i \in Int : At(s, i, nil) = IF i \in 1..n THEN s[i] ELSE nil BY DEF At
<1>7. \A i \in Int : At(a, i, nil) = IF i \in 1..n - 1 THEN a[i] ELSE nil BY <1>2 DEF At
<1>8. \A i \in 0..n : At(a, i, nil) = IF i < p THEN At(s, i, nil) ELSE At(s, i + 1, nil)
  <2> HIDE DEF a, n
  <2> SUFFICES ASSUME NEW i \in 0..n
               PROVE At(a, i, nil) = IF i < p THEN At(s, i, nil) ELSE At(s, i + 1, nil)
    OBVIOUS
  <2> QED BY <1>1, <1>2, <1>6, <1>7
<1>9. ASSUME NEW i \in 1..n, i # p
      PROVE  /\ nxt2[s[i]] = IF i = p - 1 THEN At(s, p + 1, nil) ELSE At(s, i + 1, nil)
             /\ prv2[s[i]] = IF i = p + 1 THEN At(s, p - 1, nil) ELSE At(s, i - 1, nil)
  <2> HIDE DEF a, n
  <2>1. s[i] \in Elems(s) \ {x} BY <1>1, <1>3, <1>5, <1>9
  <2>2. s[i] = prv[x] <=> i = p - 1
    <3>1. prv[x] = At(s, p - 1, nil) BY <1>1, <1>4
    <3>2. s[i] # nil BY <1>1
    <3> QED BY <1>1, <1>3, <1>6, <3>1, <3>2
  <2>3. s[i] = nxt[x] <=> i = p + 1
    <3>1. nxt[x] = At(s, p + 1, nil) BY <1>1, <1>4
    <3>2. s[i] # nil BY <1>1
    <3> QED BY <1>1, <1>3, <1>6, <3>1, <3>2
  <2> QED BY <1>1, <1>4, <2>1, <2>2, <2>3
<1>10. (IF p = 1 THEN nxt[x] ELSE first) = At(a, 1, nil)
  <2>1. nxt[x] = At(s, p + 1, nil) /\ first = At(s, 1, nil) BY <1>1, <1>4
  <2> HIDE DEF a, n, x
  <2> QED BY <1>1, <1>8, <2>1
<1>11. ASSUME NEW i \in 1..n - 1
       PROVE  nxt2[a[i]] = At(a, i + 1, nil) /\ prv2[a[i]] = At(a, i - 1, nil)
  <2> HIDE DEF a, n, x
  <2>1. CASE i < p
    <3>1. a[i] = s[i] /\ i \in 1..n /\ i # p BY <2>1, <1>1, <1>2
    <3>2. At(a, i - 1, nil) = At(s, i - 1, nil) BY <2>1, <1>1, <1>8
    <3>3. prv2[a[i]] = At(s, i - 1, nil) BY <3>1, <2>1, <1>1, <1>9
    <3>4. nxt2[a[i]] = IF i = p - 1 THEN At(s, p + 1, nil) ELSE At(s, i + 1, nil)
      BY <3>1, <1>9
    <3>5. At(a, i + 1, nil) = IF i + 1 < p THEN At(s, i + 1, nil) ELSE At(s, (i + 1) + 1, nil)
      BY <1>1, <1>8
    <3>6. i = p - 1 => ~(i + 1 < p) /\ (i + 1) + 1 = p + 1 BY <1>1
    <3>7. i # p - 1 => i + 1 < p BY <1>1, <2>1
    <3> QED BY <3>2, <3>3, <3>4, <3>5, <3>6, <3>7
  <2>2. CASE ~(i < p)
    <3> DEFINE k == i + 1
    <3>1. a[i] = s[k] /\ k \in 1..n /\ k # p /\ k # p - 1 /\ k - 1 = i BY <2>2, <1>1, <1>2
    <3>2. At(a, i + 1, nil) = At(s, k + 1, nil) BY <2>2, <1>1, <1>8
    <3>3. nxt2[a[i]] = At(s, k + 1, nil) BY <3>1, <1>9
    <3>4. prv2[a[i]] = IF k = p + 1 THEN At(s, p - 1, nil) ELSE At(s, k - 1, nil) BY <3>1, <1>9
    <3>5. At(a, i - 1, nil) = IF i - 1 < p THEN At(s, i - 1, nil) ELSE At(s, (i - 1) + 1, nil)
      BY <1>1, <1>8
    <3>6. k = p + 1 <=> i - 1 < p BY <2>2, <1>1
    <3>7. k = p + 1 => i - 1 = p - 1 BY <1>1
    <3>8. (i - 1) + 1 = k - 1 BY <1>1
    <3> QED BY <3>2, <3>3, <3>4, <3>5, <3>6, <3>7, <3>8
  <2> QED BY <2>1, <2>2
<1> QED BY <1>2, <1>10, <1>11 DEF Linked, a
=============================================================================

------------------------------ MODULE LinkedList ------------------------------
(***************************************************************************)
(* The doubly linked, circular list of list.h, pointer by pointer, as the  *)
(* arbiter uses it for dead_list: a head and one link inside each record.  *)
(* list_add_tail writes both pointers of a new link before anything reads  *)
(* them; until then a link is taken to point at the head.                  *)
(***************************************************************************)
EXTENDS Integers, Sequences

CONSTANTS
    Records,    \* the records, each with its dead_link
    ListHead    \* the list_head of the list itself

Nodes == Records \cup {ListHead}

VARIABLES next, prev    \* the two pointers of each struct list_head

ListTypeOK == next \in [Nodes -> Nodes] /\ prev \in [Nodes -> Nodes]

(* INIT_LIST_HEAD(ListHead) *)
ListInit ==
    /\ next = [node \in Nodes |-> ListHead]
    /\ prev = [node \in Nodes |-> ListHead]

(* A variant: the pointer back from the old last entry is not used up. *)
list_add_one_way(new, before, after) ==
    /\ next' = [next EXCEPT ![new] = after, ![before] = new]
    /\ prev' = [prev EXCEPT ![new] = before]

__list_add(new, before, after) ==
    /\ prev' = [prev EXCEPT ![after] = new, ![new] = before]
    /\ next' = [next EXCEPT ![new] = after, ![before] = new]

(* A variant: list_add. *)
list_add(new) == __list_add(new, ListHead, next[ListHead])

list_add_tail(new) == __list_add(new, prev[ListHead], ListHead)

list_empty == next[ListHead] = ListHead

(* The loop of list_for_each_entry_safe, with its two cursors.             *)
SafeFirst == [pos |-> next[ListHead], n |-> next[next[ListHead]]]
SafeNext(cursor) == [pos |-> cursor.n, n |-> next[cursor.n]]
SafeMore(cursor) == cursor.pos # ListHead
-----------------------------------------------------------------------------
(* node i of the list that represents s; the head is at both of its ends. *)
NodeAt(s, i) == IF i \in 1..Len(s) THEN s[i] ELSE ListHead

(* The pointers of the head and of the elements of s, in both directions,  *)
(* are those of a list whose entries are s, each once.                     *)
Represents(s) ==
    /\ \A i, j \in 1..Len(s) : s[i] = s[j] => i = j
    /\ \A i \in 0..Len(s) : next[NodeAt(s, i)] = NodeAt(s, i + 1)
    /\ \A i \in 1..Len(s) + 1 : prev[NodeAt(s, i)] = NodeAt(s, i - 1)
=============================================================================

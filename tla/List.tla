-------------------------------- MODULE List --------------------------------
(***************************************************************************)
(* The doubly linked lists of lib/kernel/list.c, pointer by pointer.  The  *)
(* other modules keep thread_ready_list, thread_all_list, the waiters of a *)
(* semaphore and the free lists as sequences: Represents says what the     *)
(* pointers have to be for that, SyncLemmas that the operations keep it.   *)
(***************************************************************************)
EXTENDS Naturals, Sequences

CONSTANTS
  Nodes,   \* the list_elems that can be linked into lists
  HeadElem,   \* &plist->head
  TailElem,    \* &plist->tail
  NULL

(* The sentinels are never elements, and only they have a NULL side. *)
ListAssumption == HeadElem # TailElem /\ HeadElem \notin Nodes /\ TailElem \notin Nodes

(* The two fields of every list_elem. *)
Links == [next : [Nodes \cup {HeadElem, TailElem} -> Nodes \cup {HeadElem, TailElem, NULL}],
          prev : [Nodes \cup {HeadElem, TailElem} -> Nodes \cup {HeadElem, TailElem, NULL}]]

list_init(l) ==
  [next |-> [l.next EXCEPT ![HeadElem] = TailElem, ![TailElem] = NULL],
   prev |-> [l.prev EXCEPT ![HeadElem] = NULL, ![TailElem] = HeadElem]]

(* Four assignments, in this order: the third reads before->prev again. *)
list_insert_before(l, before, elem) ==
  LET prev1 == [l.prev EXCEPT ![elem] = l.prev[before]]
      next1 == [l.next EXCEPT ![elem] = before]
  IN  [next |-> [next1 EXCEPT ![prev1[before]] = elem],
       prev |-> [prev1 EXCEPT ![before] = elem]]

list_push(l, elem)   == list_insert_before(l, l.next[HeadElem], elem)
list_append(l, elem) == list_insert_before(l, TailElem, elem)

(* The removed element keeps its own pointers. *)
list_remove(l, elem) ==
  LET next1 == [l.next EXCEPT ![l.prev[elem]] = l.next[elem]]
  IN  [next |-> next1, prev |-> [l.prev EXCEPT ![next1[elem]] = l.prev[elem]]]

list_empty(l) == l.next[HeadElem] = TailElem

list_pop(l) == list_remove(l, l.next[HeadElem])

-----------------------------------------------------------------------------

(* The i-th list_elem a walk from plist->head meets. *)
Elem(s, i) == IF i = 0 THEN HeadElem ELSE IF i = Len(s) + 1 THEN TailElem ELSE s[i]

(* The pointers of l are those of a list with the elements of s. *)
Represents(l, s) ==
  \A i \in 0 .. Len(s) : /\ l.next[Elem(s, i)] = Elem(s, i + 1)
                         /\ l.prev[Elem(s, i + 1)] = Elem(s, i)

(* The sequence with x before its i-th element, and without it. *)
Inserted(s, i, x) == [j \in 1 .. Len(s) + 1 |->
                        IF j < i THEN s[j] ELSE IF j = i THEN x ELSE s[j - 1]]
Removed(s, i)     == [j \in 1 .. Len(s) - 1 |-> IF j < i THEN s[j] ELSE s[j + 1]]
=============================================================================

------------------------------- MODULE FlowList -------------------------------
(***************************************************************************)
(* The circular doubly linked lists of flow_core_list.h, as two functions  *)
(* on the entries: nx for the next pointers, pv for the prev pointers.  A  *)
(* list is known by its head entry.                                        *)
(***************************************************************************)
EXTENDS Integers, Sequences

CONSTANTS
  Entry,     \* struct list_head objects: heads and list members
  NULL       \* the null pointer, not an entry

Links == [Entry -> Entry \cup {NULL}]

(* INIT_LIST_HEAD: e points to itself.                                     *)
SelfLinked(f, e) == [f EXCEPT ![e] = e]

(* Mutant of AddTail: the head's prev is not moved on.                     *)
AddTailStale(nx, pv, e, h) ==
  LET last == pv[h] IN
  [next |-> [[nx EXCEPT ![e] = h] EXCEPT ![last] = e],
   prev |-> [pv EXCEPT ![e] = last]]

(* Mutant of AddTail: the new entry's prev is the head.                    *)
AddTailHead(nx, pv, e, h) ==
  LET last == pv[h] IN
  [next |-> [[nx EXCEPT ![e] = h] EXCEPT ![last] = e],
   prev |-> [[pv EXCEPT ![h] = e] EXCEPT ![e] = h]]

(* list_add_tail(e, h): four writes, in this order; h's old prev is read   *)
(* first.  The pair of the new next and prev pointers.                     *)
AddTail(nx, pv, e, h) ==
  LET last == pv[h] IN
  [next |-> [[nx EXCEPT ![e] = h] EXCEPT ![last] = e],
   prev |-> [[pv EXCEPT ![h] = e] EXCEPT ![e] = last]]

(* s is what a walk from h over nx visits before it is back at h.          *)
Walks(nx, h, s) ==
  /\ nx[h] = IF s = << >> THEN h ELSE s[1]
  /\ \A i \in 1..Len(s) :
       /\ s[i] # h
       /\ nx[s[i]] = IF i = Len(s) THEN h ELSE s[i + 1]

(* The prev pointers lead back along s, from h to h.                       *)
Back(pv, h, s) ==
  /\ pv[h] = IF s = << >> THEN h ELSE s[Len(s)]
  /\ \A i \in 1..Len(s) : pv[s[i]] = IF i = 1 THEN h ELSE s[i - 1]

(* The entries of s, each once and in this order, are the list of h.       *)
IsList(nx, pv, h, s) ==
  /\ s \in Seq(Entry \ {h})
  /\ \A i, j \in 1..Len(s) : s[i] = s[j] => i = j
  /\ Walks(nx, h, s)
  /\ Back(pv, h, s)
===============================================================================

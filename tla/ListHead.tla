------------------------------ MODULE ListHead ------------------------------
(***************************************************************************)
(* The intrusive circular doubly linked lists of the lab4 kernel: struct   *)
(* ListHead with its next and prev pointers.  A list head and every PCB's  *)
(* `blocked' field are nodes; nx and pv map a node to the node its next    *)
(* and its prev field points to.                                           *)
(***************************************************************************)
EXTENDS Naturals

(* n->next = h->next; n->prev = h; h->next = n; (n->next)->prev = n:       *)
(* the node n is inserted right after the head h.                          *)
NextAfterInsert(nx, h, n) == [nx EXCEPT ![n] = nx[h], ![h] = n]

PrevAfterInsert(nx, pv, h, n) == [pv EXCEPT ![n] = h, ![nx[h]] = n]

(* h->prev = (h->prev)->prev; (h->prev)->next = h: the node before the     *)
(* head h, the oldest one, is unlinked; its own pointers keep their values.*)
PrevAfterRemove(pv, h) == [pv EXCEPT ![h] = pv[pv[h]]]

(* Mutant: the second assignment is forgotten.                             *)
NextNotRemoved(nx, pv, h) == nx

NextAfterRemove(nx, pv, h) == [nx EXCEPT ![pv[pv[h]]] = h]

(* h->next = h; h->prev = h: the empty list.                               *)
SelfLinked(ptr, h) == [ptr EXCEPT ![h] = h]

-----------------------------------------------------------------------------
(* Walk(pv, h)[k]: the node reached from h by k steps along prev, so       *)
(* Walk(pv, h)[1] is the oldest node of h's list.                          *)
Walk(pv, h) ==
  LET w[k \in Nat] == IF k = 0 THEN h ELSE pv[w[k - 1]] IN w

(* h's list is the n processes in members, each once: some order q of them *)
(* is the list from the oldest, pv goes from h through q and back to h, and*)
(* nx goes the same way backwards.                                         *)
OnRing(q, h, k) == IF k \in DOMAIN q THEN q[k] ELSE h

Linked(nx, pv, h, q, n) ==
  \A k \in 0 .. n : /\ pv[OnRing(q, h, k)] = OnRing(q, h, k + 1)
                    /\ nx[OnRing(q, h, k + 1)] = OnRing(q, h, k)

EachOnce(q, members, n) ==
  /\ \A m \in members : \E k \in 1 .. n : q[k] = m
  /\ \A j, k \in 1 .. n : q[j] = q[k] => j = k

IsListOf(nx, pv, h, members, n) ==
  \E q \in [1 .. n -> members] :
    EachOnce(q, members, n) /\ Linked(nx, pv, h, q, n)

(* The members of h's list, oldest first.                                  *)
ListOf(pv, h, n) == [k \in 1 .. n |-> Walk(pv, h)[k]]
=============================================================================

-------------------------------- MODULE DList --------------------------------
(***************************************************************************)
(* The doubly linked lists of kernel/tools/list.c, pointer by pointer.     *)
(*                                                                         *)
(* Callers insert nodes that are on no list, and list_pop is given a node  *)
(* of the list it names: that is what OneQueue of module Kernel shows of   *)
(* task.c, sem.c and mutex.c.  The auxiliary variable order holds what the *)
(* callers mean: the nodes of each list, in order.  It is only read by the *)
(* conditions under which a caller may make a call.                        *)
(***************************************************************************)
EXTENDS Integers, SequencesExt

CONSTANTS Nodes, Lists, NULL

ASSUME DListAssumption == NULL \notin Nodes \cup Lists

VARIABLES
  frist, last, count,  \* list_t of each list
  pre, next,           \* list_node_t of each node
  result,              \* what the last call returned
  order                \* auxiliary: the nodes of each list

listVars == <<frist, last, count, pre, next, result, order>>

LinkedIn(n, l) == n \in Range(order[l])

Detached(n) == \A l \in Lists : ~LinkedIn(n, l)

Without(s, n) == RemoveAt(s, CHOOSE k \in DOMAIN s : s[k] = n)

ListInit ==
  /\ frist = [l \in Lists |-> NULL]
  /\ last = [l \in Lists |-> NULL]
  /\ count = [l \in Lists |-> 0]
  /\ pre = [n \in Nodes |-> NULL]
  /\ next = [n \in Nodes |-> NULL]
  /\ result = NULL
  /\ order = [l \in Lists |-> <<>>]

\* x->field = v, unless x is null
Set(field, x, v) == IF x = NULL THEN field ELSE [field EXCEPT ![x] = v]

Count(l, by) == count' = [count EXCEPT ![l] = @ + by]
Order(l, s) == order' = [order EXCEPT ![l] = s]

list_insert_first(l, n) ==
  /\ Detached(n)
  /\ next' = Set(next, n, frist[l])
  /\ pre' = Set(Set(pre, n, NULL), IF count[l] = 0 THEN NULL ELSE frist[l], n)
  /\ frist' = Set(frist, l, n)
  /\ last' = IF count[l] = 0 THEN Set(last, l, n) ELSE last
  /\ Count(l, 1)
  /\ Order(l, <<n>> \o order[l])
  /\ UNCHANGED result

\* mutant of old_last: it is not linked to the new node
old_last_not(l) == NULL

old_last(l) == IF count[l] = 0 THEN NULL ELSE last[l]

list_insert_last(l, n) ==
  /\ Detached(n)
  /\ pre' = Set(pre, n, last[l])
  /\ next' = Set(Set(next, n, NULL), old_last(l), n)
  /\ last' = Set(last, l, n)
  /\ frist' = IF count[l] = 0 THEN Set(frist, l, n) ELSE frist
  /\ Count(l, 1)
  /\ Order(l, Append(order[l], n))
  /\ UNCHANGED result

pop_none(l) ==
  /\ count[l] = 0 /\ result' = NULL
  /\ UNCHANGED <<frist, last, count, pre, next, order>>

list_pop_first(l) ==
  \/ pop_none(l)
  \/ /\ count[l] # 0
     /\ LET n == frist[l] IN
        /\ frist' = Set(frist, l, next[n])
        /\ last' = IF next[n] = NULL THEN Set(last, l, NULL) ELSE last
        /\ pre' = Set(Set(pre, next[n], NULL), n, NULL)
        /\ next' = Set(next, n, NULL)
        /\ result' = n
     /\ Count(l, -1)
     /\ Order(l, Tail(order[l]))

\* mutant of remove_last: l->last after it has been moved
remove_last_moved(l) == pre[last[l]]

remove_last(l) == last[l]

list_pop_last(l) ==
  \/ pop_none(l)
  \/ /\ count[l] # 0
     /\ LET n == last[l] IN
        /\ last' = Set(last, l, pre[n])
        /\ frist' = IF pre[n] = NULL THEN Set(frist, l, NULL) ELSE frist
        /\ next' = Set(Set(next, pre[n], NULL), n, NULL)
        /\ pre' = Set(pre, n, NULL)
     /\ result' = remove_last(l)
     /\ Count(l, -1)
     /\ Order(l, Front(order[l]))

list_pop(l, n) ==
  /\ LinkedIn(n, l)
  /\ frist' = IF n = frist[l] THEN Set(frist, l, next[n]) ELSE frist
  /\ last' = IF n = last[l] THEN Set(last, l, pre[n]) ELSE last
  /\ next' = Set(Set(next, pre[n], next[n]), n, NULL)
  /\ pre' = Set(Set(pre, next[n], pre[n]), n, NULL)
  /\ result' = n
  /\ Count(l, -1)
  /\ Order(l, Without(order[l], n))

ListNext ==
  \E l \in Lists :
    \/ list_pop_first(l)
    \/ list_pop_last(l)
    \/ \E n \in Nodes : \/ list_insert_first(l, n)
                        \/ list_insert_last(l, n)
                        \/ list_pop(l, n)

ListSpec == ListInit /\ [][ListNext]_listVars

-----------------------------------------------------------------------------

\* What sits at position k of a sequence of nodes, NULL before and after it.
At(s, k) == IF k \in DOMAIN s THEN s[k] ELSE NULL

\* Forwards from frist and backwards from last, the pointers spell out the
\* nodes of the list in order, between two null pointers; count is the number
\* of them.  A node on no list points nowhere.  list.c has to keep this up
\* through every order of insertions and removals at the ends and inside.
Linked ==
  /\ \A l \in Lists :
       /\ frist[l] = At(order[l], 1)
       /\ last[l] = At(order[l], Len(order[l]))
       /\ count[l] = Len(order[l])
       /\ \A k \in DOMAIN order[l] :
            /\ next[order[l][k]] = At(order[l], k + 1)
            /\ pre[order[l][k]] = At(order[l], k - 1)
  /\ \A n \in Nodes : Detached(n) => next[n] = NULL /\ pre[n] = NULL

\* A call that shortens a list returns the very node it took off.
PopReturns ==
  [][\A l \in Lists :
       Len(order'[l]) < Len(order[l])
         => /\ result' \in Range(order[l]) \ Range(order'[l])
            /\ Range(order'[l]) = Range(order[l]) \ {result'}]_listVars

=============================================================================

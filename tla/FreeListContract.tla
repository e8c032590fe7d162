--------------------------- MODULE FreeListContract ---------------------------
(***************************************************************************)
(* The free list as the allocator sees it (IList, src/include/list.h): a   *)
(* sequence of nodes.  insert puts a node in front, remove takes one out   *)
(* and leaves the others in their order.                                   *)
(***************************************************************************)
EXTENDS SequencesExt

CONSTANT Node

VARIABLE list

Init == list = <<>>

InsertNode(n) ==
    /\ n \notin Range(list)
    /\ list' = Cons(n, list)

RemoveNode(i) == list' = RemoveAt(list, i)

Next ==
    \/ \E n \in Node : InsertNode(n)
    \/ \E i \in DOMAIN list : RemoveNode(i)

Spec == Init /\ [][Next]_list

=============================================================================

----------------------------- MODULE HeaderList -----------------------------
(***************************************************************************)
(* The circular doubly linked free list (src/src/list.cpp), pointer by     *)
(* pointer.  A node is in the first bytes of its block's user area, so as  *)
(* long as it is not listed its links are the program's data: anything.    *)
(*                                                                         *)
(* A node is named by the address of its block, in units.  The sizes of    *)
(* the blocks do not change here; the queries are asked for every node and *)
(* every size, whether or not the blocks could lie in one heap.            *)
(***************************************************************************)
EXTENDS Naturals, SequencesExt

CONSTANTS
    Node,       \* the addresses of the blocks
    Null,       \* nullptr
    Sizes,      \* user sizes
    Data        \* what the program's data may look like, read as a link

ASSUME ListAssumption ==
    /\ Node \subseteq Nat /\ Null \notin Node
    /\ Sizes \subseteq Nat \ {0}
    /\ Data \subseteq Node \union {Null}

VARIABLES
    head,       \* head_
    pre, next,  \* the links in each node
    count,      \* count_
    size        \* the size of each node's block, what size_fn_ reads

listVars == <<head, pre, next, count, size>>

Init ==
    /\ head = Null
    /\ pre \in [Node -> {Null}] /\ next \in [Node -> {Null}]
    /\ count = 0
    /\ size \in [Node -> Sizes]

-----------------------------------------------------------------------------
(* What the links say                                                      *)

\* The node k steps behind the head.
Behind[k \in Nat] == IF k = 0 THEN head ELSE next[Behind[k - 1]]

\* The list as a sequence.
Listing == [i \in 1 .. count |-> Behind[i - 1]]
Members == Range(Listing)

-----------------------------------------------------------------------------
(* insert and remove                                                       *)

\* Faulty variants: the node is not made a ring first; a removed head stays
\* the head; a removal is counted twice.
InsertNode_NoRing(n) ==
    /\ IF head = Null
         THEN UNCHANGED <<pre, next>>
         ELSE /\ next' = [next EXCEPT ![pre[head]] = n, ![n] = head]
              /\ pre' = [pre EXCEPT ![n] = pre[head], ![head] = n]
    /\ head' = n
    /\ count' = count + 1
    /\ UNCHANGED size

RemoveNode_HeadStays(n) ==
    /\ head' = IF next[head] = head THEN Null ELSE head
    /\ next' = [next EXCEPT ![pre[n]] = next[n], ![n] = n]
    /\ pre' = [pre EXCEPT ![next[n]] = pre[n], ![n] = n]
    /\ count' = count - 1
    /\ UNCHANGED size

RemoveNode_CountedTwice(n) ==
    /\ head' = IF n # head THEN head ELSE IF next[n] = n THEN Null ELSE next[n]
    /\ next' = [next EXCEPT ![pre[n]] = next[n], ![n] = n]
    /\ pre' = [pre EXCEPT ![next[n]] = pre[n], ![n] = n]
    /\ count' = count - 2
    /\ UNCHANGED size

\* init_free makes the node a ring of its own; insert puts it in front.
InsertNode(n) ==
    LET tail == pre[head]
    IN  /\ IF head = Null
             THEN /\ next' = [next EXCEPT ![n] = n]
                  /\ pre' = [pre EXCEPT ![n] = n]
             ELSE /\ next' = [next EXCEPT ![tail] = n, ![n] = head]
                  /\ pre' = [pre EXCEPT ![n] = tail, ![head] = n]
        /\ head' = n
        /\ count' = count + 1
        /\ UNCHANGED size

\* The writes in the order of the code: the neighbours first, then the node.
RemoveNode(n) ==
    /\ head # Null
    /\ IF next[head] = head
         THEN /\ head' = Null
              /\ next' = [next EXCEPT ![n] = n]
              /\ pre' = [pre EXCEPT ![n] = n]
         ELSE /\ head' = IF n = head THEN next[head] ELSE head
              /\ next' = [next EXCEPT ![pre[n]] = next[n], ![n] = n]
              /\ pre' = [pre EXCEPT ![next[n]] = pre[n], ![n] = n]
    /\ count' = count - 1
    /\ UNCHANGED size

\* The owner of a block writes its data where the links are.
WriteData(n) ==
    /\ \E x, y \in Data :
         /\ pre' = [pre EXCEPT ![n] = x]
         /\ next' = [next EXCEPT ![n] = y]
    /\ UNCHANGED <<head, count, size>>

Next ==
    \/ \E n \in Node \ Members : InsertNode(n) \/ WriteData(n)
    \/ \E n \in Members : RemoveNode(n)

Spec == Init /\ [][Next]_listVars

-----------------------------------------------------------------------------
(* The queries, as the loops of the code                                   *)

End(n) == n + 1 + size[n]

\* A loop from the head that stops at the first node with stop[n], or before
\* it comes back to the head: from[k] is the node it stops at when it has
\* passed k nodes.
Scan(stop) ==
    LET from[k \in Nat] ==
          IF stop[Behind[k]] \/ next[Behind[k]] = head
            THEN Behind[k]
            ELSE from[k + 1]
    IN  from[0]

\* Faulty variant: the node the loop stopped at is not looked at again.
FirstWith_Unchecked(stop) == IF head = Null THEN Null ELSE Scan(stop)

FirstWith(stop) ==
    IF head = Null THEN Null
    ELSE LET n == Scan(stop) IN IF stop[n] THEN n ELSE Null

FindFirstFit(need) == FirstWith([n \in Node |-> size[n] >= need])
ContainsNode(node)     == FirstWith([n \in Node |-> n = node]) # Null
FindPrevPhys(node) == FirstWith([n \in Node |-> End(n) = node])
FindNextPhys(node) == FirstWith([n \in Node |-> n = End(node)])

\* Faulty variant: the last of several equally short nodes wins.
Better_Last(n, best, need) ==
    size[n] >= need /\ (best = Null \/ size[n] =< size[best])

\* What BestFit's callback asks of the next node.
Better(n, best, need) ==
    size[n] >= need /\ (best = Null \/ size[n] < size[best])

\* BestFit's for_each: best after the nodes up to the one k steps behind the
\* head, and k for the last node.
BestOf(need) ==
    LET upTo[k \in Nat] ==
          LET best == IF k = 0 THEN Null ELSE upTo[k - 1]
          IN  IF Better(Behind[k], best, need) THEN Behind[k] ELSE best
        last[k \in Nat] == IF next[Behind[k]] = head THEN k ELSE last[k + 1]
    IN  IF head = Null THEN Null ELSE upTo[last[0]]

-----------------------------------------------------------------------------
(* Properties                                                              *)

\* Every variable has its type.
TypeOK ==
    /\ head \in Node \union {Null}
    /\ pre \in [Node -> Node \union {Null}]
    /\ next \in [Node -> Node \union {Null}]
    /\ count \in Nat
    /\ size \in [Node -> Sizes]

\* The list is one ring through count nodes, closed in both directions, and
\* empty exactly when head is null (list.h 73-77).
Ring ==
    /\ head = Null <=> count = 0
    /\ IsInjective(Listing)
    /\ \A n \in Members : pre[n] \in Members /\ next[n] \in Members
    /\ \A n \in Members : next[pre[n]] = n /\ pre[next[n]] = n
    /\ count > 0 => Behind[count] = head

\* The position of the first listed node with test[n]; 0 if there is none.
FirstPosition(test) ==
    IF \E i \in 1 .. count : test[Listing[i]]
      THEN CHOOSE i \in 1 .. count :
             test[Listing[i]] /\ \A j \in 1 .. i - 1 : ~ test[Listing[j]]
      ELSE 0

NodeAt(i) == IF i = 0 THEN Null ELSE Listing[i]

\* The loops look at every node and stop at the first match, in the order in
\* which the allocator assumes them to look: none is skipped, the last one
\* included, and a list without a match gives null (list.cpp 36-102).
QueriesExact ==
    /\ \A need \in Sizes :
         FindFirstFit(need) = NodeAt(FirstPosition([n \in Node |-> size[n] >= need]))
    /\ \A node \in Node :
         /\ ContainsNode(node) <=> node \in Members
         /\ FindPrevPhys(node) = NodeAt(FirstPosition([n \in Node |-> End(n) = node]))
         /\ FindNextPhys(node) = NodeAt(FirstPosition([n \in Node |-> n = End(node)]))

\* BestFit returns the shortest node that fits, the first one of that size,
\* and null only if none fits (find_strategy.h 39-58).
BestFitExact ==
    \A need \in Sizes :
        LET fits == {n \in Members : size[n] >= need}
            shortest == {n \in fits : \A m \in fits : size[n] =< size[m]}
        IN  BestOf(need) =
              NodeAt(FirstPosition([n \in Node |-> n \in shortest]))

Contract == INSTANCE FreeListContract WITH list <- Listing

\* insert and remove do to the ring what the contract does to a sequence.
ImplementsList == Contract!Spec

=============================================================================

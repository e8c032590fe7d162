---------------------------- MODULE HeapContract ----------------------------
(***************************************************************************)
(* What malloc and free promise to a caller, and nothing about how: areas  *)
(* of memory that never overlap, each long enough for its request and at   *)
(* most one unit longer, each staying where it is until it is freed.       *)
(***************************************************************************)
EXTENDS Naturals

CONSTANTS
    Space,      \* the addresses, in units
    Request     \* the sizes asked for, in units

VARIABLE live   \* the areas that callers own, with the size each was asked for

Area(start, len, n) == [start |-> start, len |-> len, asked |-> n]

Disjoint(x, y) ==
    \/ x.start + x.len =< y.start
    \/ y.start + y.len =< x.start

Init == live = {}

Malloc(n) ==
    \E start \in Space, len \in n .. n + 1 :
        /\ \A x \in live : Disjoint(x, Area(start, len, n))
        /\ live' = live \union {Area(start, len, n)}

Free(x) == live' = live \ {x}

\* realloc leaves an area that is long enough where it is.
Stay(x, n) ==
    /\ x.len >= n
    /\ live' = (live \ {x}) \union {Area(x.start, x.len, n)}

\* realloc moves an area that is too short; the new one is owned before the
\* old one is freed.
Move(x, n) ==
    /\ x.len < n
    /\ \E start \in Space, len \in n .. n + 1 :
         /\ \A y \in live : Disjoint(y, Area(start, len, n))
         /\ live' = (live \ {x}) \union {Area(start, len, n)}

Next ==
    \/ \E n \in Request : Malloc(n)
    \/ \E x \in live : Free(x)
    \/ \E x \in live, n \in Request : Stay(x, n) \/ Move(x, n)

Spec == Init /\ [][Next]_live

=============================================================================

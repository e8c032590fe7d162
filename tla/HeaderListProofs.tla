-------------------------- MODULE HeaderListProofs --------------------------
(***************************************************************************)
(* Proofs about HeaderList: the links form the ring, insert and remove do  *)
(* what they do to a sequence, and the loops find what they look for, for  *)
(* any set of nodes and any sizes.                                         *)
(*                                                                         *)
(* The invariant speaks about a sequence s that the links spell out, and   *)
(* so about each link on its own.  Only then the recursive functions come  *)
(* in: a recursive function of TLA+ is a CHOOSE, and nothing follows from  *)
(* its definition until some function is known to solve the equation.      *)
(* Each is therefore used in three steps: a solution is given, the         *)
(* equation of the function itself follows, and an induction says what the *)
(* equation makes of it.                                                   *)
(***************************************************************************)
EXTENDS HeaderList, WellFoundedInduction, TLAPS

-----------------------------------------------------------------------------
(* Numbers                                                                 *)

\* A set of numbers has a least one.
LEMMA LeastNat ==
    ASSUME NEW T \in SUBSET Nat, T # {}
    PROVE  \E m \in T : \A k \in T : m =< k
<1>1. PICK m \in T : \A k \in T : ~ (<<k, m>> \in OpToRel(<, Nat))
  BY NatLessThanWellFounded, WFMin
<1>2. ASSUME NEW k \in T
      PROVE  m =< k
  <2>1. m \in Nat /\ k \in Nat
    OBVIOUS
  <2>2. <<k, m>> \in Nat \X Nat /\ ~ (<<k, m>> \in OpToRel(<, Nat))
    BY <1>1, <2>1
  <2>3. ~ (k < m)
    BY <2>2 DEF OpToRel
  <2> QED
    BY <2>1, <2>3
<1> QED
  BY <1>2

\* Induction, over a set in place of a predicate.
LEMMA NatInd ==
    ASSUME NEW S \in SUBSET Nat, 0 \in S, \A n \in S : n + 1 \in S
    PROVE  S = Nat
<1> SUFFICES ASSUME Nat \ S # {}
             PROVE  FALSE
  OBVIOUS
<1>1. PICK m \in Nat \ S : \A k \in Nat \ S : m =< k
  <2>1. Nat \ S \in SUBSET Nat
    OBVIOUS
  <2> QED
    BY <2>1, LeastNat
<1>2. m - 1 \in Nat
  BY <1>1
<1>3. m - 1 \in S
  BY <1>1, <1>2
<1> QED
  BY <1>1, <1>3

-----------------------------------------------------------------------------
(* Recursion                                                               *)

\* h is what the recursion from v0 with the step g gives up to n.
RunTo(V, v0, g, n, h) ==
    /\ h \in [0 .. n -> V]
    /\ h[0] = v0
    /\ \A i \in 0 .. n - 1 : h[i + 1] = g[<<i, h[i]>>]

\* Two runs agree as far as both go.
LEMMA RunsAgree ==
    ASSUME NEW V, NEW v0, NEW g, NEW m \in Nat, NEW n \in Nat, m =< n,
           NEW h, NEW k, RunTo(V, v0, g, m, h), RunTo(V, v0, g, n, k)
    PROVE  h[m] = k[m]
<1> DEFINE S == {i \in Nat : i =< m => h[i] = k[i]}
<1>1. 0 \in S
  BY DEF RunTo
<1>2. ASSUME NEW i \in S
      PROVE  i + 1 \in S
  <2>1. CASE i + 1 =< m
    <3>1. i \in 0 .. m - 1 /\ i \in 0 .. n - 1 /\ h[i] = k[i]
      BY <2>1
    <3>2. h[i + 1] = g[<<i, h[i]>>] /\ k[i + 1] = g[<<i, k[i]>>]
      BY <3>1 DEF RunTo
    <3> QED
      BY <3>1, <3>2
  <2> QED
    BY <2>1
<1> HIDE DEF S
<1>3. S \in SUBSET Nat
  BY DEF S
<1>4. S = Nat
  BY <1>1, <1>2, <1>3, NatInd
<1> QED
  BY <1>4 DEF S

\* There is a run of every length.
LEMMA RunsExist ==
    ASSUME NEW V, NEW v0 \in V, NEW g \in [Nat \X V -> V], NEW m \in Nat
    PROVE  \E h : RunTo(V, v0, g, m, h)
<1> DEFINE S == {n \in Nat : \E h : RunTo(V, v0, g, n, h)}
<1>1. 0 \in S
  <2>1. RunTo(V, v0, g, 0, [i \in 0 .. 0 |-> v0])
    BY DEF RunTo
  <2> QED
    BY <2>1
<1>2. ASSUME NEW n \in S
      PROVE  n + 1 \in S
  <2>1. PICK h : RunTo(V, v0, g, n, h)
    OBVIOUS
  <2>2. PICK k : k = [i \in 0 .. n + 1 |-> IF i = n + 1 THEN g[<<n, h[n]>>] ELSE h[i]]
    OBVIOUS
  <2>3. h[n] \in V /\ g[<<n, h[n]>>] \in V
    BY <2>1 DEF RunTo
  <2>4. k \in [0 .. n + 1 -> V]
    BY <2>1, <2>2, <2>3 DEF RunTo
  <2>5. \A i \in 0 .. n : k[i] = h[i]
    BY <2>2
  <2>6. k[n + 1] = g[<<n, k[n]>>]
    <3>1. k[n] = h[n] /\ n + 1 \in 0 .. n + 1
      BY <2>5
    <3>2. k[n + 1] = g[<<n, h[n]>>]
      BY <2>2, <3>1
    <3> QED
      BY <3>1, <3>2
  <2>7. ASSUME NEW i \in 0 .. n
        PROVE  k[i + 1] = g[<<i, k[i]>>]
    <3>1. CASE i = n
      BY <2>6, <3>1
    <3>2. CASE i # n
      <4>1. i \in 0 .. n - 1 /\ i + 1 \in 0 .. n
        BY <3>2
      <4> QED
        BY <2>1, <2>5, <4>1 DEF RunTo
    <3> QED
      BY <3>1, <3>2
  <2>8. RunTo(V, v0, g, n + 1, k)
    BY <2>1, <2>4, <2>5, <2>7 DEF RunTo
  <2> QED
    BY <2>8
<1> HIDE DEF S
<1>3. S \in SUBSET Nat
  BY DEF S
<1>4. S = Nat
  BY <1>1, <1>2, <1>3, NatInd
<1> QED
  BY <1>4 DEF S

\* f is the recursion from v0 with the step g.
Runs(V, v0, g, f) ==
    /\ f \in [Nat -> V]
    /\ f[0] = v0
    /\ \A n \in Nat : f[n + 1] = g[<<n, f[n]>>]

\* A recursion over the numbers defines a function.
LEMMA Recursion ==
    ASSUME NEW V, NEW v0 \in V, NEW g \in [Nat \X V -> V]
    PROVE  \E f : Runs(V, v0, g, f)
<1>1. PICK run : run = [n \in Nat |-> CHOOSE h : RunTo(V, v0, g, n, h)]
  OBVIOUS
<1>2. ASSUME NEW n \in Nat
      PROVE  RunTo(V, v0, g, n, run[n])
  BY <1>1, RunsExist
<1>3. PICK f : f = [n \in Nat |-> run[n][n]]
  OBVIOUS
<1>4. f \in [Nat -> V]
  BY <1>2, <1>3 DEF RunTo
<1>5. f[0] = v0
  BY <1>2, <1>3 DEF RunTo
<1>6. ASSUME NEW n \in Nat
      PROVE  f[n + 1] = g[<<n, f[n]>>]
  <2>1. RunTo(V, v0, g, n, run[n]) /\ RunTo(V, v0, g, n + 1, run[n + 1])
    BY <1>2
  <2>2. run[n + 1][n] = run[n][n]
    BY <2>1, RunsAgree
  <2>3. run[n + 1][n + 1] = g[<<n, run[n + 1][n]>>]
    BY <2>1 DEF RunTo
  <2> QED
    BY <1>3, <2>2, <2>3
<1> QED
  BY <1>4, <1>5, <1>6 DEF Runs

-----------------------------------------------------------------------------
(* The sequence that the links spell out                                   *)

IsListing(s) ==
    /\ s \in Seq(Node) /\ Len(s) = count
    /\ \A i, j \in 1 .. count : s[i] = s[j] => i = j
    /\ head = Null <=> count = 0
    /\ count > 0 => head = s[1] /\ next[s[count]] = s[1] /\ pre[s[1]] = s[count]
    /\ \A i \in 1 .. count - 1 : next[s[i]] = s[i + 1] /\ pre[s[i + 1]] = s[i]

ListInv == TypeOK /\ \E s : IsListing(s)

\* The empty list is spelled by the empty sequence.
LEMMA InitList == Init => ListInv
<1> SUFFICES ASSUME Init PROVE ListInv
  OBVIOUS
<1>1. TypeOK
  BY DEF Init, TypeOK
<1>2. IsListing(<<>>)
  BY DEF Init, IsListing
<1> QED
  BY <1>1, <1>2 DEF ListInv

\* The facts about s in a form the steps use.
LEMMA ListingFacts ==
    ASSUME TypeOK, NEW s, IsListing(s)
    PROVE  /\ count \in Nat /\ DOMAIN s = 1 .. count
           /\ \A i \in 1 .. count : s[i] \in Node /\ s[i] # Null
           /\ count > 0 => 1 \in 1 .. count /\ count \in 1 .. count
  BY ListAssumption DEF TypeOK, IsListing

\* A node goes in front: the ring is cut between its last node and its head.
LEMMA InsertSpells ==
    ASSUME TypeOK, NEW s, IsListing(s), NEW n \in Node, n \notin Range(s), InsertNode(n)
    PROVE  TypeOK' /\ IsListing(Cons(n, s))'
<1>1. PICK r : r = Cons(n, s)
  OBVIOUS
<1>2. /\ r \in Seq(Node) /\ Len(r) = count + 1
      /\ \A i \in 1 .. count + 1 : r[i] = IF i = 1 THEN n ELSE s[i - 1]
  <2>1. s \in Seq(Node) /\ Len(s) = count
    BY DEF IsListing
  <2>2. /\ Cons(n, s) \in Seq(Node) /\ Len(Cons(n, s)) = Len(s) + 1
        /\ \A i \in 1 .. Len(s) + 1 : Cons(n, s)[i] = IF i = 1 THEN n ELSE s[i - 1]
    BY <2>1 DEF Cons
  <2> QED
    BY <1>1, <2>1, <2>2, Zenon
<1>3. /\ count \in Nat /\ \A i \in 1 .. count : s[i] \in Node /\ s[i] # Null
      /\ \A i \in 1 .. count : s[i] # n
      /\ \A i, j \in 1 .. count : s[i] = s[j] => i = j
  BY ListingFacts DEF IsListing, Range
<1>4. /\ head' = n /\ head' # Null /\ count' = count + 1 /\ size' = size
      /\ r[1] = n /\ \A i \in 2 .. count + 1 : r[i] = s[i - 1]
  BY <1>2, <1>3, ListAssumption DEF InsertNode
<1>5. \A i, j \in 1 .. count + 1 : r[i] = r[j] => i = j
  BY <1>2, <1>3
<1>6. CASE count = 0
  <2>1. /\ next' = [next EXCEPT ![n] = n]
        /\ pre' = [pre EXCEPT ![n] = n]
    BY <1>6 DEF InsertNode, IsListing
  <2>2. TypeOK'
    BY <1>3, <1>4, <2>1 DEF TypeOK
  <2>3. next'[n] = n /\ pre'[n] = n
    BY <2>1 DEF TypeOK
  <2> QED
    BY <1>1, <1>2, <1>4, <1>5, <1>6, <2>2, <2>3 DEF IsListing
<1>7. CASE count # 0
  <2>1. /\ head = s[1] /\ head \in Node /\ head # n /\ head # Null
        /\ pre[head] = s[count] /\ s[count] \in Node /\ s[count] # n
        /\ 1 \in 1 .. count /\ count \in 1 .. count
    BY <1>3, <1>7 DEF IsListing
  <2>2. /\ next' = [next EXCEPT ![s[count]] = n, ![n] = head]
        /\ pre' = [pre EXCEPT ![n] = s[count], ![head] = n]
    BY <2>1 DEF InsertNode
  <2>3. TypeOK'
    BY <1>3, <1>4, <2>1, <2>2 DEF TypeOK
  <2>4. /\ next'[n] = s[1] /\ next'[s[count]] = n
        /\ \A i \in 1 .. count - 1 : next'[s[i]] = s[i + 1]
    BY <1>3, <2>1, <2>2 DEF TypeOK, IsListing
  <2>5. /\ pre'[n] = s[count] /\ pre'[s[1]] = n
        /\ \A i \in 1 .. count - 1 : pre'[s[i + 1]] = s[i]
    BY <1>3, <2>1, <2>2 DEF TypeOK, IsListing
  <2>6. r[count + 1] = s[count]
    BY <1>3, <1>4, <2>1
  <2>7. ASSUME NEW i \in 1 .. count
        PROVE  next'[r[i]] = r[i + 1] /\ pre'[r[i + 1]] = r[i]
    <3>1. r[i + 1] = s[i]
      BY <1>3, <1>4
    <3>2. CASE i = 1
      BY <1>4, <2>4, <2>5, <3>1, <3>2
    <3>3. CASE i # 1
      <4>1. i - 1 \in 1 .. count - 1 /\ r[i] = s[i - 1] /\ (i - 1) + 1 = i
        BY <1>3, <1>4, <3>3
      <4> QED
        BY <2>4, <2>5, <3>1, <4>1
    <3> QED
      BY <3>2, <3>3
  <2>8. next'[r[count + 1]] = r[1] /\ pre'[r[1]] = r[count + 1]
    BY <1>4, <2>4, <2>5, <2>6
  <2>9. (count + 1) - 1 = count /\ count + 1 # 0
    BY <1>3
  <2> QED
    BY <1>1, <1>2, <1>4, <1>5, <2>3, <2>7, <2>8, <2>9 DEF IsListing
<1> QED
  BY <1>6, <1>7

\* RemoveAt moves every later element one position to the front.
LEMMA LeavingOut ==
    ASSUME NEW S, NEW s \in Seq(S), NEW i \in DOMAIN s
    PROVE  /\ RemoveAt(s, i) \in Seq(S)
           /\ Len(RemoveAt(s, i)) = Len(s) - 1
           /\ \A k \in 1 .. Len(s) - 1 :
                RemoveAt(s, i)[k] = IF k < i THEN s[k] ELSE s[k + 1]
<1> DEFINE front == SubSeq(s, 1, i - 1)
           back == SubSeq(s, i + 1, Len(s))
<1>1. i \in 1 .. Len(s) /\ Len(s) \in Nat
  OBVIOUS
<1>2. front \in Seq(S) /\ Len(front) = i - 1
      /\ \A k \in 1 .. i - 1 : front[k] = s[k]
  BY <1>1
<1>3. back \in Seq(S) /\ Len(back) = Len(s) - i
      /\ \A k \in 1 .. Len(s) - i : back[k] = s[i + k]
  BY <1>1
<1> HIDE DEF front, back
<1>4. front \o back \in Seq(S) /\ Len(front \o back) = Len(s) - 1
  BY <1>1, <1>2, <1>3
<1>5. ASSUME NEW k \in 1 .. Len(s) - 1
      PROVE  (front \o back)[k] = IF k < i THEN s[k] ELSE s[k + 1]
  BY <1>1, <1>2, <1>3
<1> QED
  BY <1>4, <1>5 DEF RemoveAt, front, back

\* A node leaves: its neighbours are linked to each other, and the head moves
\* on if it was the head.
LEMMA RemoveSpells ==
    ASSUME TypeOK, NEW s, IsListing(s), NEW j \in 1 .. count, RemoveNode(s[j])
    PROVE  TypeOK' /\ IsListing(RemoveAt(s, j))'
<1>1. PICK r, n : r = RemoveAt(s, j) /\ n = s[j]
  OBVIOUS
<1>2. /\ r \in Seq(Node) /\ Len(r) = count - 1
      /\ \A i \in 1 .. count - 1 : r[i] = IF i < j THEN s[i] ELSE s[i + 1]
  <2>1. s \in Seq(Node) /\ Len(s) = count /\ j \in DOMAIN s
    BY ListingFacts DEF IsListing
  <2> QED
    BY <1>1, <2>1, LeavingOut
<1>3. /\ count \in Nat /\ count # 0 /\ head # Null /\ n \in Node
      /\ 1 \in 1 .. count /\ count \in 1 .. count
      /\ \A i \in 1 .. count : s[i] \in Node /\ s[i] # Null
      /\ \A i, k \in 1 .. count : s[i] = s[k] => i = k
      /\ head = s[1] /\ next[s[count]] = s[1] /\ pre[s[1]] = s[count]
      /\ \A i \in 1 .. count - 1 : next[s[i]] = s[i + 1] /\ pre[s[i + 1]] = s[i]
  BY <1>1, ListingFacts DEF IsListing
<1>4. /\ count' = count - 1 /\ size' = size
      /\ pre \in [Node -> Node \union {Null}] /\ next \in [Node -> Node \union {Null}]
  BY DEF RemoveNode, TypeOK
<1>5. \A i, k \in 1 .. count - 1 : r[i] = r[k] => i = k
  <2> SUFFICES ASSUME NEW i \in 1 .. count - 1, NEW k \in 1 .. count - 1, r[i] = r[k]
               PROVE  i = k
    OBVIOUS
  <2>1. PICK x, y : /\ x = (IF i < j THEN i ELSE i + 1)
                    /\ y = (IF k < j THEN k ELSE k + 1)
    OBVIOUS
  <2>2. x \in 1 .. count /\ y \in 1 .. count /\ s[x] = s[y]
    BY <1>2, <1>3, <2>1
  <2>3. x = y
    BY <1>3, <2>2
  <2> QED
    BY <1>3, <2>1, <2>3
<1>6. next[head] = head <=> count = 1
  <2>1. CASE count > 1
    <3>1. 1 \in 1 .. count - 1 /\ 2 \in 1 .. count /\ next[head] = s[2]
      BY <1>3, <2>1
    <3> QED
      BY <1>3, <2>1, <3>1
  <2> QED
    BY <1>3, <2>1
<1>7. CASE count = 1
  <2>1. /\ head' = Null
        /\ next' = [next EXCEPT ![n] = n] /\ pre' = [pre EXCEPT ![n] = n]
    BY <1>1, <1>6, <1>7 DEF RemoveNode
  <2>2. TypeOK'
    BY <1>3, <1>4, <1>7, <2>1 DEF TypeOK
  <2>3. Len(r) = 0 /\ count' = 0
    BY <1>2, <1>4, <1>7
  <2> QED
    BY <1>1, <1>2, <2>1, <2>2, <2>3 DEF IsListing
<1>8. CASE count # 1
  <2>1. /\ head' = (IF n = head THEN next[head] ELSE head)
        /\ next' = [next EXCEPT ![pre[n]] = next[n], ![n] = n]
        /\ pre' = [pre EXCEPT ![next[n]] = pre[n], ![n] = n]
    BY <1>1, <1>6, <1>8 DEF RemoveNode
  <2>2. PICK b, f :                 \* the positions before and after j
          /\ b = (IF j = 1 THEN count ELSE j - 1)
          /\ f = (IF j = count THEN 1 ELSE j + 1)
    OBVIOUS
  <2>3. /\ b \in 1 .. count /\ f \in 1 .. count /\ b # j /\ f # j
        /\ pre[n] = s[b] /\ next[n] = s[f]
    <3>1. b \in 1 .. count /\ f \in 1 .. count /\ b # j /\ f # j
      BY <1>3, <1>8, <2>2
    <3>2. pre[n] = s[b]
      <4>1. CASE j = 1
        BY <1>1, <1>3, <2>2, <4>1
      <4>2. CASE j # 1
        <5>1. j - 1 \in 1 .. count - 1 /\ (j - 1) + 1 = j /\ b = j - 1
          BY <1>3, <2>2, <4>2
        <5> QED
          BY <1>1, <1>3, <5>1
      <4> QED
        BY <4>1, <4>2
    <3>3. next[n] = s[f]
      <4>1. CASE j = count
        BY <1>1, <1>3, <2>2, <4>1
      <4>2. CASE j # count
        <5>1. j \in 1 .. count - 1 /\ f = j + 1
          BY <1>3, <2>2, <4>2
        <5> QED
          BY <1>1, <1>3, <5>1
      <4> QED
        BY <4>1, <4>2
    <3> QED
      BY <3>1, <3>2, <3>3
  <2>4. s[b] \in Node /\ s[f] \in Node /\ s[b] # n /\ s[f] # n
    BY <1>1, <1>3, <2>3
  <2>5. TypeOK'
    <3>1. head' \in Node \union {Null}
      BY <1>3, <2>1, <2>3, <2>4
    <3>2. next' \in [Node -> Node \union {Null}] /\ pre' \in [Node -> Node \union {Null}]
      BY <1>3, <1>4, <2>1, <2>3, <2>4
    <3> QED
      BY <1>3, <1>4, <3>1, <3>2 DEF TypeOK
  <2>6. ASSUME NEW i \in 1 .. count, i # j
        PROVE  /\ next'[s[i]] = IF i = b THEN s[f] ELSE next[s[i]]
               /\ pre'[s[i]] = IF i = f THEN s[b] ELSE pre[s[i]]
    <3>1. /\ s[i] \in Node /\ s[i] # n
          /\ s[i] = s[b] <=> i = b
          /\ s[i] = s[f] <=> i = f
      BY <1>1, <1>3, <2>3, <2>6
    <3> QED
      BY <1>4, <2>1, <2>3, <2>4, <3>1
  <2>7. ASSUME NEW i \in 1 .. count - 2
        PROVE  next'[r[i]] = r[i + 1] /\ pre'[r[i + 1]] = r[i]
    <3>0. i \in 1 .. count - 1 /\ i + 1 \in 1 .. count - 1 /\ i \in 1 .. count
          /\ i + 1 \in 1 .. count
      BY <1>3
    <3>1. CASE i < j - 1
      <4>1. r[i] = s[i] /\ r[i + 1] = s[i + 1] /\ i # j /\ i + 1 # j
        BY <1>2, <1>3, <3>0, <3>1
      <4>2. i # b /\ i + 1 # f
        BY <1>3, <2>2, <3>0, <3>1
      <4> QED
        BY <1>3, <2>6, <3>0, <4>1, <4>2
    <3>2. CASE i = j - 1
      <4>1. r[i] = s[i] /\ r[i + 1] = s[j + 1]
        BY <1>2, <1>3, <3>0, <3>2
      <4>2. i = b /\ j + 1 = f /\ i # j
        BY <1>3, <2>2, <3>0, <3>2
      <4> QED
        BY <1>3, <2>3, <2>6, <3>0, <4>1, <4>2
    <3>3. CASE i > j - 1
      <4>1. r[i] = s[i + 1] /\ r[i + 1] = s[(i + 1) + 1] /\ i + 1 # j /\ (i + 1) + 1 # j
            /\ (i + 1) + 1 \in 1 .. count
        BY <1>2, <1>3, <3>0, <3>3
      <4>2. i + 1 # b /\ (i + 1) + 1 # f
        BY <1>3, <2>2, <3>0, <3>3
      <4> QED
        BY <1>3, <2>6, <3>0, <4>1, <4>2
    <3> QED
      BY <1>3, <3>1, <3>2, <3>3
  <2>8. PICK x, y :                 \* the positions of the new ends
          /\ x = (IF j = 1 THEN 2 ELSE 1)
          /\ y = (IF j = count THEN count - 1 ELSE count)
    OBVIOUS
  <2>9. /\ x \in 1 .. count /\ y \in 1 .. count /\ x # j /\ y # j
        /\ 1 \in 1 .. count - 1 /\ count - 1 \in 1 .. count - 1
        /\ r[1] = s[x] /\ r[count - 1] = s[y]
    <3>1. count - 1 \in Nat /\ count > 1
      BY <1>3, <1>8
    <3>2. /\ x \in 1 .. count /\ y \in 1 .. count /\ x # j /\ y # j
          /\ 1 \in 1 .. count - 1 /\ count - 1 \in 1 .. count - 1
      BY <1>3, <2>8, <3>1
    <3>3. r[1] = s[x]
      BY <1>2, <1>3, <2>8, <3>1, <3>2
    <3>4. r[count - 1] = s[y]
      BY <1>2, <1>3, <2>8, <3>1, <3>2
    <3> QED
      BY <3>2, <3>3, <3>4
  <2>10. next'[s[y]] = s[x] /\ pre'[s[x]] = s[y]
    <3>1. CASE j = 1
      <4>1. y = count /\ b = count /\ x = 2 /\ f = 2
        BY <1>3, <1>8, <2>2, <2>8, <3>1
      <4> QED
        BY <2>6, <2>9, <4>1
    <3>2. CASE j = count
      <4>1. y = count - 1 /\ b = count - 1 /\ x = 1 /\ f = 1
        BY <1>3, <1>8, <2>2, <2>8, <3>2
      <4> QED
        BY <2>6, <2>9, <4>1
    <3>3. CASE j # 1 /\ j # count
      <4>1. y = count /\ b # y /\ x = 1 /\ f # x
        BY <1>3, <1>8, <2>2, <2>8, <3>3
      <4> QED
        BY <1>3, <2>6, <2>9, <4>1
    <3> QED
      BY <3>1, <3>2, <3>3
  <2>11. head' = s[x]
    <3>1. n = head <=> j = 1
      BY <1>1, <1>3
    <3> QED
      BY <1>3, <1>8, <2>1, <2>2, <2>3, <2>8, <3>1
  <2>12. /\ r \in Seq(Node) /\ Len(r) = count' /\ count' # 0 /\ count' - 1 = count - 2
         /\ head' # Null
    BY <1>2, <1>3, <1>4, <1>8, <2>9, <2>11
  <2>13. IsListing(r)'
    BY <1>4, <1>5, <2>7, <2>9, <2>10, <2>11, <2>12 DEF IsListing
  <2> QED
    BY <1>1, <2>5, <2>13
<1> QED
  BY <1>7, <1>8

\* What the owner of a block does to its data leaves the ring alone.
LEMMA WriteSpells ==
    ASSUME TypeOK, NEW s, IsListing(s), NEW n \in Node, n \notin Range(s), WriteData(n)
    PROVE  TypeOK' /\ IsListing(s)'
<1>1. PICK x \in Data, y \in Data :
        /\ pre' = [pre EXCEPT ![n] = x]
        /\ next' = [next EXCEPT ![n] = y]
  BY DEF WriteData
<1>2. /\ UNCHANGED <<head, count, size>> /\ x \in Node \union {Null}
      /\ y \in Node \union {Null}
  BY ListAssumption DEF WriteData
<1>3. /\ count \in Nat /\ \A i \in 1 .. count : s[i] \in Node /\ s[i] # n
      /\ count > 0 => 1 \in 1 .. count /\ count \in 1 .. count
      /\ \A i \in 1 .. count - 1 : i \in 1 .. count /\ i + 1 \in 1 .. count
  BY ListingFacts DEF Range
<1>4. TypeOK'
  BY <1>1, <1>2 DEF TypeOK
<1>5. \A i \in 1 .. count : next'[s[i]] = next[s[i]] /\ pre'[s[i]] = pre[s[i]]
  BY <1>1, <1>3 DEF TypeOK
<1> QED
  BY <1>2, <1>3, <1>4, <1>5 DEF IsListing

-----------------------------------------------------------------------------
(* The nodes behind the head                                               *)

\* In a ring, following the links from the head defines a function.
LEMMA BehindDefined ==
    ASSUME TypeOK, NEW s, IsListing(s), head # Null
    PROVE  \E f : f = [k \in Nat |-> IF k = 0 THEN head ELSE next[f[k - 1]]]
<1>1. \A i \in 1 .. count : next[s[i]] \in Range(s)
  <2>1. ASSUME NEW i \in 1 .. count
        PROVE  \E k \in 1 .. count : next[s[i]] = s[k]
    <3>1. CASE i = count
      BY <3>1, ListingFacts DEF IsListing
    <3>2. CASE i # count
      <4>1. i \in 1 .. count - 1 /\ i + 1 \in 1 .. count
        BY <3>2, ListingFacts
      <4> QED
        BY <4>1 DEF IsListing
    <3> QED
      BY <3>1, <3>2
  <2> QED
    BY <2>1, ListingFacts DEF Range
<1>2. head \in Range(s)
  BY ListingFacts DEF IsListing, Range
<1>3. \A x \in Range(s) : next[x] \in Range(s)
  BY <1>1, ListingFacts DEF Range
<1>4. PICK V, g : V = Range(s) /\ g = [a \in Nat \X V |-> next[a[2]]]
  OBVIOUS
<1>5. head \in V /\ g \in [Nat \X V -> V]
  BY <1>2, <1>3, <1>4
<1>6. PICK f : Runs(V, head, g, f)
  BY <1>5, Recursion
<1>7. f[0] = head /\ \A n \in Nat : f[n + 1] = next[f[n]]
  BY <1>4, <1>6 DEF Runs
<1>8. ASSUME NEW k \in Nat
      PROVE  f[k] = IF k = 0 THEN head ELSE next[f[k - 1]]
  <2>1. CASE k # 0
    <3>1. k - 1 \in Nat /\ (k - 1) + 1 = k
      BY <2>1
    <3> QED
      BY <1>7, <2>1, <3>1
  <2> QED
    BY <1>7, <2>1
<1>9. f = [k \in Nat |-> IF k = 0 THEN head ELSE next[f[k - 1]]]
  BY <1>6, <1>8 DEF Runs
<1> QED
  BY <1>9

\* So Behind does what its definition says.
LEMMA BehindSteps ==
    ASSUME TypeOK, NEW s, IsListing(s), head # Null
    PROVE  Behind[0] = head /\ \A k \in Nat : Behind[k + 1] = next[Behind[k]]
<1>1. \E f : f = [k \in Nat |-> IF k = 0 THEN head ELSE next[f[k - 1]]]
  BY BehindDefined
<1>2. Behind = [k \in Nat |-> IF k = 0 THEN head ELSE next[Behind[k - 1]]]
  BY Zenon, <1>1 DEF Behind
<1>3. \A k \in Nat : k + 1 \in Nat /\ k + 1 # 0 /\ (k + 1) - 1 = k
  OBVIOUS
<1> QED
  BY <1>2, <1>3

\* It visits the nodes of s in their order and comes back to the head.
LEMMA BehindVisits ==
    ASSUME TypeOK, NEW s, IsListing(s), head # Null
    PROVE  /\ \A k \in 0 .. count - 1 : Behind[k] = s[k + 1]
           /\ Behind[count] = head
<1>1. Behind[0] = head /\ \A k \in Nat : Behind[k + 1] = next[Behind[k]]
  BY BehindSteps
<1>2. /\ count \in Nat /\ count # 0 /\ head = s[1] /\ next[s[count]] = s[1]
      /\ \A i \in 1 .. count - 1 : next[s[i]] = s[i + 1]
  BY ListingFacts DEF IsListing
<1> DEFINE S == {k \in Nat : k < count => Behind[k] = s[k + 1]}
<1>3. 0 \in S
  BY <1>1, <1>2
<1>4. ASSUME NEW k \in S
      PROVE  k + 1 \in S
  <2>1. CASE k + 1 < count
    <3>1. k + 1 \in 1 .. count - 1 /\ Behind[k] = s[k + 1] /\ k \in Nat
      BY <1>2, <2>1
    <3> QED
      BY <1>1, <1>2, <3>1
  <2> QED
    BY <2>1
<1>5. S \in SUBSET Nat
  OBVIOUS
<1> HIDE DEF S
<1>6. S = Nat
  BY <1>3, <1>4, <1>5, NatInd
<1>7. \A k \in 0 .. count - 1 : Behind[k] = s[k + 1]
  BY <1>2, <1>6 DEF S
<1>8. Behind[count] = head
  <2>1. count - 1 \in 0 .. count - 1 /\ count - 1 \in Nat /\ (count - 1) + 1 = count
    BY <1>2
  <2> QED
    BY <1>1, <1>2, <1>7, <2>1
<1> QED
  BY <1>7, <1>8

\* There is one sequence that the links spell out: the list.
OnlyListing == \A s : TypeOK /\ IsListing(s) => s = Listing

\* Any sequence the links spell out is the one the header chain gives.
LEMMA Spelled == OnlyListing
<1> SUFFICES ASSUME NEW s, TypeOK, IsListing(s)
             PROVE  s = Listing
  BY DEF OnlyListing
<1>1. s \in Seq(Node) /\ Len(s) = count /\ count \in Nat
  BY DEF IsListing, TypeOK
<1>2. ASSUME NEW i \in 1 .. count
      PROVE  s[i] = Behind[i - 1]
  <2>1. head # Null /\ i - 1 \in 0 .. count - 1 /\ (i - 1) + 1 = i
    BY <1>1 DEF IsListing
  <2> QED
    BY <2>1, BehindVisits
<1>3. s = [i \in 1 .. count |-> s[i]]
  BY <1>1
<1>4. Listing = [i \in 1 .. count |-> Behind[i - 1]]
  BY Zenon DEF Listing
<1> QED
  BY <1>2, <1>3, <1>4

\* In the next state too.
LEMMA SpelledNext == OnlyListing'
BY Spelled, PTL

-----------------------------------------------------------------------------
(* The steps                                                               *)

\* The invariant gives the sequence a name.
LEMMA ListingSpelled ==
    ASSUME ListInv
    PROVE  TypeOK /\ IsListing(Listing)
  BY Spelled DEF ListInv, OnlyListing

\* Every step keeps the ring, and does to the list what the contract allows.
LEMMA ListStep ==
    ASSUME ListInv, [Next]_listVars
    PROVE  ListInv' /\ [Contract!Next]_Listing
<1>1. PICK s : s = Listing
  OBVIOUS
<1>2. TypeOK /\ IsListing(s)
  BY <1>1, ListingSpelled
<1>3. /\ s \in Seq(Node) /\ DOMAIN s = 1 .. count /\ Members = Range(s)
  BY <1>1, <1>2, ListingFacts DEF Members, IsListing
<1>4. ASSUME NEW r, TypeOK' /\ IsListing(r)'
      PROVE  ListInv' /\ Listing' = r
  BY <1>4, SpelledNext DEF OnlyListing, ListInv
<1>5. ASSUME NEW n \in Node \ Members, InsertNode(n)
      PROVE  ListInv' /\ [Contract!Next]_Listing
  <2>1. TypeOK' /\ IsListing(Cons(n, s))'
    BY <1>2, <1>3, <1>5, InsertSpells
  <2>2. ListInv' /\ Listing' = Cons(n, Listing)
    BY <1>1, <1>4, <2>1
  <2>3. Contract!Range(Listing) = Range(Listing) /\ Contract!Cons(n, Listing) = Cons(n, Listing)
    BY DEF Contract!Range, Range, Contract!Cons, Cons
  <2>4. Contract!InsertNode(n)
    BY <1>1, <1>3, <1>5, <2>2, <2>3 DEF Contract!InsertNode
  <2> QED
    BY <2>2, <2>4 DEF Contract!Next
<1>6. ASSUME NEW n \in Members, RemoveNode(n)
      PROVE  ListInv' /\ [Contract!Next]_Listing
  <2>1. PICK j \in 1 .. count : n = s[j]
    BY <1>3 DEF Range
  <2>2. TypeOK' /\ IsListing(RemoveAt(s, j))'
    BY <1>2, <1>6, <2>1, RemoveSpells
  <2>3. ListInv' /\ Listing' = RemoveAt(Listing, j)
    BY <1>1, <1>4, <2>2
  <2>4. Contract!RemoveAt(Listing, j) = RemoveAt(Listing, j)
    BY DEF Contract!RemoveAt, RemoveAt
  <2>5. Contract!RemoveNode(j) /\ j \in DOMAIN Listing
    BY <1>1, <1>3, <2>1, <2>3, <2>4 DEF Contract!RemoveNode
  <2> QED
    BY <2>3, <2>5 DEF Contract!Next
<1>7. ASSUME NEW n \in Node \ Members, WriteData(n)
      PROVE  ListInv' /\ [Contract!Next]_Listing
  <2>1. TypeOK' /\ IsListing(s)'
    BY <1>2, <1>3, <1>7, WriteSpells
  <2> QED
    BY <1>1, <1>4, <2>1
<1>8. CASE UNCHANGED listVars
  <2>1. TypeOK' /\ IsListing(s)'
    BY <1>2, <1>8 DEF listVars, TypeOK, IsListing
  <2> QED
    BY <1>1, <1>4, <2>1
<1> QED
  BY <1>5, <1>6, <1>7, <1>8 DEF Next

\* The links always spell out a sequence.
THEOREM ListInvariant == Spec => []ListInv
<1>1. ListInv /\ [Next]_listVars => ListInv'
  BY ListStep
<1> QED
  BY InitList, <1>1, PTL DEF Spec

\* Every variable has its type.
THEOREM ListTypeCorrect == Spec => []TypeOK
<1>1. ListInv => TypeOK
  BY DEF ListInv
<1> QED
  BY ListInvariant, <1>1, PTL

\* The list is one ring, closed in both directions, through the nodes that
\* were inserted and not removed (list.cpp 17-31, 119-144).
THEOREM IsRing == Spec => []Ring
<1>1. ASSUME ListInv
      PROVE  Ring
  <2>1. PICK s : s = Listing
    OBVIOUS
  <2>2. TypeOK /\ IsListing(s)
    BY <1>1, <2>1, ListingSpelled
  <2>3. /\ count \in Nat /\ DOMAIN s = 1 .. count /\ Members = Range(s)
        /\ count > 0 => 1 \in 1 .. count /\ count \in 1 .. count
    BY <2>1, <2>2, ListingFacts DEF Members
  <2>4. IsInjective(Listing)
    BY <2>1, <2>2, <2>3 DEF IsListing, IsInjective
  <2>5. ASSUME NEW n \in Members
        PROVE  /\ pre[n] \in Members /\ next[n] \in Members
               /\ next[pre[n]] = n /\ pre[next[n]] = n
    <3>1. PICK i \in 1 .. count : n = s[i]
      BY <2>3 DEF Range
    <3>2. \E k \in 1 .. count : next[n] = s[k] /\ pre[s[k]] = n
      <4>1. CASE i = count
        BY <2>2, <2>3, <3>1, <4>1 DEF IsListing
      <4>2. CASE i # count
        <5>1. i \in 1 .. count - 1 /\ i + 1 \in 1 .. count
          BY <2>3, <4>2
        <5> QED
          BY <2>2, <3>1, <5>1 DEF IsListing
      <4> QED
        BY <4>1, <4>2
    <3>3. \E k \in 1 .. count : pre[n] = s[k] /\ next[s[k]] = n
      <4>1. CASE i = 1
        BY <2>2, <2>3, <3>1, <4>1 DEF IsListing
      <4>2. CASE i # 1
        <5>1. i - 1 \in 1 .. count - 1 /\ i - 1 \in 1 .. count /\ (i - 1) + 1 = i
          BY <2>3, <4>2
        <5> QED
          BY <2>2, <3>1, <5>1 DEF IsListing
      <4> QED
        BY <4>1, <4>2
    <3> QED
      BY <2>3, <3>2, <3>3 DEF Range
  <2>6. head = Null <=> count = 0
    BY <2>2 DEF IsListing
  <2>7. count > 0 => Behind[count] = head
    BY <2>2, <2>6, BehindVisits
  <2> QED
    BY <2>4, <2>5, <2>6, <2>7 DEF Ring
<1> QED
  BY ListInvariant, <1>1, PTL

\* insert and remove do to the ring what they do to a sequence: the allocator
\* may take the free list for one.
THEOREM ListImplementsSequence == Spec => ImplementsList
<1>1. Init => Contract!Init
  <2> SUFFICES ASSUME Init PROVE Listing = <<>>
    BY DEF Contract!Init
  <2>1. IsListing(<<>>) /\ TypeOK
    BY DEF Init, IsListing, TypeOK
  <2> QED
    BY <2>1, Spelled DEF OnlyListing
<1>2. ListInv /\ [Next]_listVars => [Contract!Next]_Listing
  BY ListStep
<1> QED
  BY ListInvariant, <1>1, <1>2, PTL DEF Spec, ImplementsList, Contract!Spec

-----------------------------------------------------------------------------
(* The loops                                                               *)

\* A loop that goes on until stops[k] defines a function, which gives val of
\* the step it stops at, whether or not it ever stops.
LEMMA LoopDefined ==
    ASSUME NEW stops \in [Nat -> BOOLEAN], NEW val
    PROVE  \E f : f = [k \in Nat |-> IF stops[k] THEN val[k] ELSE f[k + 1]]
<1> DEFINE Later(k) == {j \in Nat : stops[j] /\ k =< j}
           First(T) == CHOOSE m \in T : \A j \in T : m =< j
           Value(k) == IF Later(k) = {} THEN 0 ELSE val[First(Later(k))]
<1>1. PICK f : f = [k \in Nat |-> Value(k)]
  OBVIOUS
<1> HIDE DEF Value
<1>2. f = [k \in Nat |-> f[k]] /\ \A k \in Nat : f[k] = Value(k)
  BY <1>1
<1>3. ASSUME NEW k \in Nat
      PROVE  f[k] = IF stops[k] THEN val[k] ELSE f[k + 1]
  <2>1. CASE stops[k]
    <3>1. k \in Later(k) /\ \A j \in Later(k) : k =< j
      BY <2>1
    <3>2. \A m \in Later(k) : (\A j \in Later(k) : m =< j) => m = k
      BY <3>1
    <3>3. First(Later(k)) = k
      BY <3>1, <3>2
    <3>4. Value(k) = val[k]
      BY <3>1, <3>3 DEF Value
    <3> QED
      BY <1>2, <2>1, <3>4
  <2>2. CASE ~ stops[k]
    <3>1. Later(k) = Later(k + 1)
      <4>1. \A j \in Nat : stops[j] => (k =< j <=> k + 1 =< j)
        <5> SUFFICES ASSUME NEW j \in Nat, stops[j]
                     PROVE  k =< j <=> k + 1 =< j
          OBVIOUS
        <5>1. j # k
          BY <2>2
        <5> QED
          BY <5>1
      <4> QED
        BY <4>1
    <3>2. k + 1 \in Nat
      OBVIOUS
    <3>3. Value(k) = Value(k + 1)
      <4> HIDE DEF Later, First
      <4> QED
        BY <3>1 DEF Value
    <3> QED
      BY <1>2, <2>2, <3>2, <3>3
  <2> QED
    BY <2>1, <2>2
<1>4. f = [k \in Nat |-> IF stops[k] THEN val[k] ELSE f[k + 1]]
  BY <1>2, <1>3
<1> QED
  BY <1>4

\* It gives val of the first step at which it stops.
LEMMA LoopStops ==
    ASSUME NEW stops \in [Nat -> BOOLEAN], NEW val, NEW f,
           \A k \in Nat : f[k] = IF stops[k] THEN val[k] ELSE f[k + 1],
           NEW m \in Nat, stops[m], \A j \in 0 .. m - 1 : ~ stops[j]
    PROVE  f[0] = val[m]
<1> DEFINE S == {k \in Nat : k =< m => f[0] = f[k]}
<1>1. 0 \in S
  OBVIOUS
<1>2. ASSUME NEW k \in S
      PROVE  k + 1 \in S
  <2>1. CASE k + 1 =< m
    <3>1. k \in 0 .. m - 1 /\ k \in Nat /\ f[0] = f[k]
      BY <2>1
    <3> QED
      BY <3>1
  <2> QED
    BY <2>1
<1>3. S \in SUBSET Nat
  OBVIOUS
<1> HIDE DEF S
<1>4. S = Nat
  BY <1>1, <1>2, <1>3, NatInd
<1>5. f[0] = f[m]
  BY <1>4 DEF S
<1> QED
  BY <1>5

\* The condition under which a search ends at step k.
Ends(stop) == [k \in Nat |-> stop[Behind[k]] \/ next[Behind[k]] = head]

\* The search of the code ends at the first step where Ends says so.
LEMMA ScanStops ==
    ASSUME NEW stop, Ends(stop) \in [Nat -> BOOLEAN],
           NEW m \in Nat, Ends(stop)[m], \A j \in 0 .. m - 1 : ~ Ends(stop)[j]
    PROVE  Scan(stop) = Behind[m]
<1> DEFINE From == CHOOSE f :
             f = [k \in Nat |-> IF stop[Behind[k]] \/ next[Behind[k]] = head
                                  THEN Behind[k] ELSE f[k + 1]]
<1>1. Scan(stop) = From[0]
  BY Zenon DEF Scan
<1>2. \E f : f = [k \in Nat |-> IF stop[Behind[k]] \/ next[Behind[k]] = head
                                  THEN Behind[k] ELSE f[k + 1]]
  <2>1. PICK f : f = [k \in Nat |-> IF Ends(stop)[k] THEN Behind[k] ELSE f[k + 1]]
    BY LoopDefined
  <2>2. f = [k \in Nat |-> IF stop[Behind[k]] \/ next[Behind[k]] = head
                                  THEN Behind[k] ELSE f[k + 1]]
    BY <2>1 DEF Ends
  <2> QED
    BY <2>2
<1>3. From = [k \in Nat |-> IF stop[Behind[k]] \/ next[Behind[k]] = head
                              THEN Behind[k] ELSE From[k + 1]]
  BY Zenon, <1>2
<1> HIDE DEF From
<1>4. \A k \in Nat : From[k] = IF Ends(stop)[k] THEN Behind[k] ELSE From[k + 1]
  BY <1>3 DEF Ends
<1> QED
  BY <1>1, <1>4, LoopStops

\* The first position with a test is the one before which there is none.
LEMMA FirstPositionIs ==
    ASSUME NEW test, NEW i \in 1 .. count, count \in Nat,
           test[Listing[i]], \A j \in 1 .. i - 1 : ~ test[Listing[j]]
    PROVE  FirstPosition(test) = i /\ NodeAt(FirstPosition(test)) = Listing[i]
<1> DEFINE First(k) == test[Listing[k]] /\ \A j \in 1 .. k - 1 : ~ test[Listing[j]]
<1>1. First(i)
  OBVIOUS
<1>2. ASSUME NEW k \in 1 .. count, First(k)
      PROVE  k = i
  <2>1. ~ (k \in 1 .. i - 1)
    BY <1>2
  <2>2. ~ (i \in 1 .. k - 1)
    BY <1>2
  <2> QED
    BY <2>1, <2>2
<1> DEFINE Position == CHOOSE k \in 1 .. count : First(k)
<1>3. Position = i
  <2> HIDE DEF First
  <2> QED
    BY <1>1, <1>2
<1>4. FirstPosition(test) = Position
  BY DEF FirstPosition
<1> QED
  BY <1>3, <1>4 DEF NodeAt

\* A search of the code gives the first listed node it looks for, and null if
\* there is none: it looks at every node, the last one included.
LEMMA FirstWithExact ==
    ASSUME ListInv, NEW stop \in [Node -> BOOLEAN]
    PROVE  FirstWith(stop) = NodeAt(FirstPosition(stop))
<1>1. PICK s : s = Listing
  OBVIOUS
<1>2. TypeOK /\ IsListing(s)
  BY <1>1, ListingSpelled
<1>3. /\ count \in Nat /\ \A i \in 1 .. count : s[i] \in Node
      /\ \A i, j \in 1 .. count : s[i] = s[j] => i = j
      /\ head = Null <=> count = 0
  BY <1>2, ListingFacts DEF IsListing
<1>4. CASE count = 0
  <2>1. FirstPosition(stop) = 0
    BY <1>4 DEF FirstPosition
  <2> QED
    BY <1>3, <1>4, <2>1 DEF FirstWith, NodeAt
<1>5. CASE count # 0
  <2>1. /\ head # Null /\ head = s[1] /\ next[s[count]] = s[1]
        /\ \A i \in 1 .. count - 1 : next[s[i]] = s[i + 1]
    BY <1>2, <1>3, <1>5 DEF IsListing
  <2>2. \A k \in 0 .. count - 1 : Behind[k] = s[k + 1]
    BY <1>2, <2>1, BehindVisits
  <2>3. PICK ends : ends = Ends(stop)
    OBVIOUS
  <2>4. ends \in [Nat -> BOOLEAN]
    BY <2>3 DEF Ends
  <2>5. ASSUME NEW k \in 0 .. count - 1
        PROVE  ends[k] <=> stop[s[k + 1]] \/ k = count - 1
    <3>1. k \in Nat /\ k + 1 \in 1 .. count /\ Behind[k] = s[k + 1]
      BY <1>3, <2>2
    <3>2. ends[k] <=> stop[s[k + 1]] \/ next[s[k + 1]] = head
      BY <2>3, <3>1 DEF Ends
    <3>3. next[s[k + 1]] = head <=> k = count - 1
      <4>1. CASE k = count - 1
        BY <1>3, <2>1, <4>1
      <4>2. CASE k # count - 1
        <5>1. k + 1 \in 1 .. count - 1 /\ (k + 1) + 1 \in 1 .. count
              /\ 1 \in 1 .. count /\ (k + 1) + 1 # 1
          BY <1>3, <4>2
        <5> QED
          BY <1>3, <2>1, <4>2, <5>1
      <4> QED
        BY <4>1, <4>2
    <3> QED
      BY <3>2, <3>3
  <2>6. PICK m \in 0 .. count - 1 : ends[m] /\ \A j \in 0 .. m - 1 : ~ ends[j]
    <3>1. PICK T : T = {k \in 0 .. count - 1 : ends[k]}
      OBVIOUS
    <3>2. count - 1 \in T
      BY <1>3, <1>5, <2>5, <3>1
    <3>3. T \in SUBSET Nat /\ T # {}
      BY <1>3, <3>1, <3>2
    <3>4. PICK m \in T : \A k \in T : m =< k
      BY <3>3, LeastNat
    <3>5. \A j \in 0 .. m - 1 : j \notin T /\ j \in 0 .. count - 1
      BY <1>3, <3>1, <3>4
    <3> QED
      BY <3>1, <3>4, <3>5
  <2>7. Scan(stop) = s[m + 1]
    <3>1. m \in Nat
      BY <1>3
    <3>2. Scan(stop) = Behind[m]
      BY <2>3, <2>4, <2>6, <3>1, ScanStops
    <3> QED
      BY <2>2, <3>2
  <2>8. FirstWith(stop) = IF stop[s[m + 1]] THEN s[m + 1] ELSE Null
    BY <2>1, <2>7 DEF FirstWith
  <2>9. m + 1 \in 1 .. count /\ \A i \in 1 .. m : ~ stop[s[i]]
    <3>1. m + 1 \in 1 .. count
      BY <1>3
    <3>2. ASSUME NEW i \in 1 .. m
          PROVE  ~ stop[s[i]]
      <4>1. i - 1 \in 0 .. m - 1 /\ i - 1 \in 0 .. count - 1 /\ (i - 1) + 1 = i
        BY <1>3
      <4> QED
        BY <2>5, <2>6, <4>1
    <3> QED
      BY <3>1, <3>2
  <2>10. CASE stop[s[m + 1]]
    <3>1. \A j \in 1 .. (m + 1) - 1 : ~ stop[s[j]]
      BY <1>3, <2>9
    <3> QED
      BY <1>1, <1>3, <2>8, <2>9, <2>10, <3>1, FirstPositionIs
  <2>11. CASE ~ stop[s[m + 1]]
    <3>1. m = count - 1
      BY <2>5, <2>6, <2>11
    <3>2. \A i \in 1 .. count : ~ stop[s[i]]
      BY <1>3, <2>9, <2>11, <3>1
    <3>3. FirstPosition(stop) = 0
      BY <1>1, <3>2 DEF FirstPosition
    <3> QED
      BY <2>8, <2>11, <3>3 DEF NodeAt
  <2> QED
    BY <2>10, <2>11
<1> QED
  BY <1>4, <1>5

\* The loops look at every node, stop at the first match and give null if
\* there is none (list.cpp 36-102).
THEOREM FindsExactly == Spec => []QueriesExact
<1>1. ASSUME ListInv
      PROVE  QueriesExact
  <2>1. ASSUME NEW need \in Sizes
        PROVE  FindFirstFit(need)
                 = NodeAt(FirstPosition([n \in Node |-> size[n] >= need]))
    <3>1. PICK test : test = [n \in Node |-> size[n] >= need]
      OBVIOUS
    <3>2. test \in [Node -> BOOLEAN]
      BY <3>1
    <3>3. FindFirstFit(need) = FirstWith(test)
      BY <3>1 DEF FindFirstFit
    <3> QED
      BY <1>1, <3>1, <3>2, <3>3, FirstWithExact
  <2>2. ASSUME NEW node \in Node
        PROVE  /\ FindPrevPhys(node) = NodeAt(FirstPosition([n \in Node |-> End(n) = node]))
               /\ FindNextPhys(node) = NodeAt(FirstPosition([n \in Node |-> n = End(node)]))
    BY <1>1, FirstWithExact DEF FindPrevPhys, FindNextPhys
  <2>3. ASSUME NEW node \in Node
        PROVE  ContainsNode(node) <=> node \in Members
    <3>1. PICK test : test = [n \in Node |-> n = node]
      OBVIOUS
    <3>2. ContainsNode(node) <=> NodeAt(FirstPosition(test)) # Null
      BY <1>1, <3>1, FirstWithExact DEF ContainsNode
    <3>3. /\ count \in Nat /\ DOMAIN Listing = 1 .. count
          /\ \A i \in 1 .. count : Listing[i] \in Node /\ Listing[i] # Null
          /\ \A i, j \in 1 .. count : Listing[i] = Listing[j] => i = j
      BY <1>1, ListingSpelled, ListingFacts DEF IsListing
    <3>4. CASE node \in Members
      <4>1. PICK i \in 1 .. count : node = Listing[i]
        BY <3>3, <3>4 DEF Members, Range
      <4>2. test[Listing[i]] /\ \A j \in 1 .. i - 1 : ~ test[Listing[j]]
        <5>1. ASSUME NEW j \in 1 .. i - 1
              PROVE  j \in 1 .. count /\ j # i
          BY <3>3
        <5>2. \A j \in 1 .. count : test[Listing[j]] <=> Listing[j] = node
          BY <3>1, <3>3
        <5> QED
          BY <3>3, <4>1, <5>1, <5>2
      <4>3. NodeAt(FirstPosition(test)) = node
        BY <3>3, <4>1, <4>2, FirstPositionIs
      <4> QED
        BY <3>2, <3>3, <3>4, <4>1, <4>3
    <3>5. CASE node \notin Members
      <4>1. \A i \in 1 .. count : ~ test[Listing[i]]
        BY <3>1, <3>3, <3>5 DEF Members, Range
      <4>2. NodeAt(FirstPosition(test)) = Null
        BY <4>1 DEF FirstPosition, NodeAt
      <4> QED
        BY <3>2, <3>5, <4>2
    <3> QED
      BY <3>4, <3>5
  <2> QED
    BY <2>1, <2>2, <2>3 DEF QueriesExact
<1> QED
  BY ListInvariant, <1>1, PTL

-----------------------------------------------------------------------------
(* Best fit                                                                *)

\* What the callback makes of best when it is called with the next node.
Keeps(n, best, need) == IF Better(n, best, need) THEN n ELSE best

\* The best node so far is defined for every number of calls.
LEMMA BestDefined ==
    ASSUME NEW need
    PROVE  \E f : f = [k \in Nat |->
                         IF Better(Behind[k], IF k = 0 THEN Null ELSE f[k - 1], need)
                           THEN Behind[k]
                           ELSE IF k = 0 THEN Null ELSE f[k - 1]]
<1>1. PICK V, v, g :
        /\ V = {Behind[k] : k \in Nat} \union {Null}
        /\ v = Keeps(Behind[0], Null, need)
        /\ g = [a \in Nat \X V |-> Keeps(Behind[a[1] + 1], a[2], need)]
  OBVIOUS
<1>2. \A k \in Nat, b \in V : Keeps(Behind[k], b, need) \in V
  BY <1>1 DEF Keeps
<1>3. v \in V
  BY <1>1, <1>2
<1>4. g \in [Nat \X V -> V]
  <2>1. ASSUME NEW a \in Nat \X V
        PROVE  Keeps(Behind[a[1] + 1], a[2], need) \in V
    <3>1. a[1] + 1 \in Nat /\ a[2] \in V
      OBVIOUS
    <3> QED
      BY <1>2, <3>1
  <2> QED
    BY <1>1, <2>1
<1>5. PICK f : Runs(V, v, g, f)
  BY <1>3, <1>4, Recursion
<1>6. ASSUME NEW k \in Nat
      PROVE  f[k] = Keeps(Behind[k], IF k = 0 THEN Null ELSE f[k - 1], need)
  <2>1. CASE k = 0
    BY <1>1, <1>5, <2>1 DEF Runs
  <2>2. CASE k # 0
    <3>1. k - 1 \in Nat /\ (k - 1) + 1 = k /\ f[k - 1] \in V
      BY <1>5, <2>2 DEF Runs
    <3>2. f[k] = g[<<k - 1, f[k - 1]>>]
      BY <1>5, <3>1 DEF Runs
    <3>3. g[<<k - 1, f[k - 1]>>] = Keeps(Behind[k], f[k - 1], need)
      BY <1>1, <3>1
    <3> QED
      BY <2>2, <3>2, <3>3
  <2> QED
    BY <2>1, <2>2
<1>7. f = [k \in Nat |-> f[k]]
  BY <1>5 DEF Runs
<1>8. f = [k \in Nat |-> IF Better(Behind[k], IF k = 0 THEN Null ELSE f[k - 1], need)
                           THEN Behind[k]
                           ELSE IF k = 0 THEN Null ELSE f[k - 1]]
  BY <1>6, <1>7 DEF Keeps
<1> QED
  BY <1>8

\* So is the step with which a walk that does not look for anything ends.
LEMMA LastDefined ==
    \E f : f = [k \in Nat |-> IF next[Behind[k]] = head THEN k ELSE f[k + 1]]
<1>1. PICK stops : stops = [k \in Nat |-> next[Behind[k]] = head]
  OBVIOUS
<1>2. PICK val : val = [k \in Nat |-> k]
  OBVIOUS
<1>3. stops \in [Nat -> BOOLEAN]
  BY <1>1
<1>4. \E f : f = [k \in Nat |-> IF stops[k] THEN val[k] ELSE f[k + 1]]
  BY <1>3, LoopDefined
<1>5. PICK f : f = [k \in Nat |-> IF stops[k] THEN val[k] ELSE f[k + 1]]
  BY <1>4
<1>6. f = [k \in Nat |-> IF next[Behind[k]] = head THEN k ELSE f[k + 1]]
  BY <1>1, <1>2, <1>5
<1> QED
  BY <1>6

\* for_each calls back for every node up to the one in front of the head, and
\* BestFit returns what it has then.
LEMMA BestOfLast ==
    ASSUME NEW need, head # Null, NEW m \in Nat, next[Behind[m]] = head,
           \A j \in 0 .. m - 1 : next[Behind[j]] # head
    PROVE  \E f : /\ f[0] = Keeps(Behind[0], Null, need)
                  /\ \A k \in Nat : f[k + 1] = Keeps(Behind[k + 1], f[k], need)
                  /\ BestOf(need) = f[m]
<1> DEFINE UpTo == CHOOSE f :
             f = [k \in Nat |->
                    IF Better(Behind[k], IF k = 0 THEN Null ELSE f[k - 1], need)
                      THEN Behind[k]
                      ELSE IF k = 0 THEN Null ELSE f[k - 1]]
           LastOne == CHOOSE f :
             f = [k \in Nat |-> IF next[Behind[k]] = head THEN k ELSE f[k + 1]]
<1>1. BestOf(need) = UpTo[LastOne[0]]
  BY Zenon DEF BestOf
<1>2. UpTo = [k \in Nat |->
                IF Better(Behind[k], IF k = 0 THEN Null ELSE UpTo[k - 1], need)
                  THEN Behind[k]
                  ELSE IF k = 0 THEN Null ELSE UpTo[k - 1]]
  BY Zenon, BestDefined
<1>3. LastOne = [k \in Nat |-> IF next[Behind[k]] = head THEN k ELSE LastOne[k + 1]]
  BY Zenon, LastDefined
<1> HIDE DEF UpTo, LastOne
<1>4. LastOne[0] = m
  <2>1. PICK stops, val : /\ stops = [k \in Nat |-> next[Behind[k]] = head]
                          /\ val = [k \in Nat |-> k]
    OBVIOUS
  <2>2. stops \in [Nat -> BOOLEAN] /\ stops[m] /\ val[m] = m
    BY <2>1
  <2>4. ASSUME NEW j \in 0 .. m - 1
        PROVE  ~ stops[j]
    <3>1. j \in Nat /\ next[Behind[j]] # head
      OBVIOUS
    <3> QED
      BY <2>1, <3>1
  <2>3. \A k \in Nat : LastOne[k] = IF stops[k] THEN val[k] ELSE LastOne[k + 1]
    BY <1>3, <2>1
  <2> QED
    BY <2>2, <2>3, <2>4, LoopStops
<1>5. UpTo[0] = Keeps(Behind[0], Null, need)
  BY <1>2 DEF Keeps
<1>6. ASSUME NEW k \in Nat
      PROVE  UpTo[k + 1] = Keeps(Behind[k + 1], UpTo[k], need)
  <2>1. k + 1 \in Nat /\ k + 1 # 0 /\ (k + 1) - 1 = k
    OBVIOUS
  <2> QED
    BY <1>2, <2>1 DEF Keeps
<1> QED
  BY <1>1, <1>4, <1>5, <1>6

\* After k calls best is the first of the shortest nodes that fit among them.
Leads(s, best, k, need) ==
    \/ best = Null /\ \A i \in 1 .. k : ~ (size[s[i]] >= need)
    \/ \E i \in 1 .. k :
         /\ best = s[i] /\ size[s[i]] >= need
         /\ \A j \in 1 .. k : size[s[j]] >= need => size[s[i]] =< size[s[j]]
         /\ \A j \in 1 .. i - 1 : size[s[j]] >= need => size[s[i]] < size[s[j]]

\* One turn of the best-fit loop: the better of the two leads one node more.
LEMMA LeadsOn ==
    ASSUME TypeOK, NEW s, \A i \in 1 .. count : s[i] \in Node,
           NEW best, NEW need \in Nat, NEW k \in Nat, k < count,
           Leads(s, best, k, need)
    PROVE  Leads(s, Keeps(s[k + 1], best, need), k + 1, need)
<1>1. count \in Nat /\ k + 1 \in 1 .. count /\ k + 1 \in 1 .. k + 1
  BY DEF TypeOK
<1>2. ASSUME NEW i \in 1 .. k + 1
      PROVE  s[i] \in Node /\ s[i] # Null /\ size[s[i]] \in Nat
  <2>1. i \in 1 .. count
    BY <1>1
  <2>2. s[i] \in Node
    BY <2>1
  <2> QED
    BY <2>2, ListAssumption DEF TypeOK
<1>3. PICK t : \A i \in 1 .. k + 1 : t[i] = size[s[i]] /\ t[i] \in Nat
  <2>1. \A i \in 1 .. k + 1 :
          [j \in 1 .. k + 1 |-> size[s[j]]][i] = size[s[i]]
    OBVIOUS
  <2> QED
    BY <1>2, <2>1
<1>4. \A i \in 1 .. k + 1 : i \in 1 .. k \/ i = k + 1
  OBVIOUS
<1>5. CASE best = Null /\ \A i \in 1 .. k : ~ (size[s[i]] >= need)
  <2>1. \A i \in 1 .. k : ~ (t[i] >= need)
    BY <1>3, <1>5
  <2>2. CASE t[k + 1] >= need
    <3>1. Keeps(s[k + 1], best, need) = s[k + 1] /\ size[s[k + 1]] >= need
      BY <1>1, <1>3, <1>5, <2>2 DEF Keeps, Better
    <3>2. \A j \in 1 .. k + 1 : size[s[j]] >= need => size[s[k + 1]] =< size[s[j]]
      BY <1>1, <1>3, <1>4, <2>1
    <3>3. \A j \in 1 .. (k + 1) - 1 :
            size[s[j]] >= need => size[s[k + 1]] < size[s[j]]
      BY <1>5
    <3> QED
      BY <1>1, <3>1, <3>2, <3>3 DEF Leads
  <2>3. CASE ~ (t[k + 1] >= need)
    <3>1. Keeps(s[k + 1], best, need) = Null
      BY <1>1, <1>3, <1>5, <2>3 DEF Keeps, Better
    <3>2. \A i \in 1 .. k + 1 : ~ (size[s[i]] >= need)
      BY <1>1, <1>3, <1>4, <2>1, <2>3
    <3> QED
      BY <3>1, <3>2 DEF Leads
  <2> QED
    BY <2>2, <2>3
<1>6. ASSUME NEW i \in 1 .. k, best = s[i], size[s[i]] >= need,
             \A j \in 1 .. k : size[s[j]] >= need => size[s[i]] =< size[s[j]],
             \A j \in 1 .. i - 1 : size[s[j]] >= need => size[s[i]] < size[s[j]]
      PROVE  Leads(s, Keeps(s[k + 1], best, need), k + 1, need)
  <2>1. i \in 1 .. k + 1 /\ best # Null /\ size[best] = t[i] /\ t[i] \in Nat
        /\ t[k + 1] \in Nat /\ t[i] >= need
    BY <1>1, <1>2, <1>3, <1>6
  <2>2. \A j \in 1 .. k : t[j] >= need => t[i] =< t[j]
    BY <1>3, <1>6, <2>1
  <2>3. CASE t[k + 1] >= need /\ t[k + 1] < t[i]
    <3>1. Keeps(s[k + 1], best, need) = s[k + 1] /\ size[s[k + 1]] >= need
      BY <1>1, <1>3, <2>1, <2>3 DEF Keeps, Better
    <3>2. \A j \in 1 .. k : t[j] >= need => t[k + 1] < t[j]
      BY <1>3, <2>1, <2>2, <2>3
    <3>3. \A j \in 1 .. (k + 1) - 1 :
            size[s[j]] >= need => size[s[k + 1]] < size[s[j]]
      BY <1>1, <1>3, <3>2
    <3>4. \A j \in 1 .. k + 1 : size[s[j]] >= need => size[s[k + 1]] =< size[s[j]]
      BY <1>1, <1>3, <1>4, <3>2
    <3> QED
      BY <1>1, <3>1, <3>3, <3>4 DEF Leads
  <2>4. CASE ~ (t[k + 1] >= need /\ t[k + 1] < t[i])
    <3>1. Keeps(s[k + 1], best, need) = s[i]
      BY <1>1, <1>3, <1>6, <2>1, <2>4 DEF Keeps, Better
    <3>2. \A j \in 1 .. k + 1 : size[s[j]] >= need => size[s[i]] =< size[s[j]]
      BY <1>1, <1>3, <1>4, <2>1, <2>2, <2>4
    <3> QED
      BY <1>6, <2>1, <3>1, <3>2 DEF Leads
  <2> QED
    BY <2>3, <2>4
<1> QED
  BY <1>5, <1>6 DEF Leads

\* After the last turn the loop holds the leader of the whole list.
LEMMA BestOfLeads ==
    ASSUME ListInv, head # Null, NEW need \in Nat
    PROVE  Leads(Listing, BestOf(need), count, need)
<1>1. PICK s : s = Listing
  OBVIOUS
<1>2. TypeOK /\ IsListing(s)
  BY <1>1, ListingSpelled
<1>3. /\ count \in Nat /\ \A i \in 1 .. count : s[i] \in Node
      /\ \A i, j \in 1 .. count : s[i] = s[j] => i = j
      /\ count > 0 /\ count # 0
  BY <1>2, ListingFacts DEF IsListing
<1>4. /\ head = s[1] /\ next[s[count]] = s[1]
      /\ \A i \in 1 .. count - 1 : next[s[i]] = s[i + 1]
  BY <1>2, <1>3 DEF IsListing
<1>5. \A k \in 0 .. count - 1 : Behind[k] = s[k + 1]
  BY <1>2, <1>3, BehindVisits
<1>6. PICK m \in Nat : m = count - 1
  BY <1>3
<1>7. m + 1 = count /\ m \in 0 .. count - 1
  BY <1>3, <1>6
<1>8. next[Behind[m]] = head
  BY <1>4, <1>5, <1>7
<1>9. ASSUME NEW j \in 0 .. m - 1
      PROVE  next[Behind[j]] # head
  <2>1. j \in 0 .. count - 1 /\ j + 1 \in 1 .. count - 1
        /\ (j + 1) + 1 \in 1 .. count /\ 1 \in 1 .. count /\ (j + 1) + 1 # 1
    BY <1>3, <1>6
  <2>2. Behind[j] = s[j + 1] /\ next[s[j + 1]] = s[(j + 1) + 1]
    BY <1>4, <1>5, <2>1
  <2> QED
    BY <1>3, <1>4, <2>1, <2>2
<1>10. PICK f : /\ f[0] = Keeps(Behind[0], Null, need)
                /\ \A k \in Nat : f[k + 1] = Keeps(Behind[k + 1], f[k], need)
                /\ BestOf(need) = f[m]
  BY <1>8, <1>9, BestOfLast
<1> DEFINE S == {k \in Nat : k < count => Leads(s, f[k], k + 1, need)}
<1>11. 0 \in S
  <2>1. Leads(s, Null, 0, need)
    BY DEF Leads
  <2>2. 0 \in Nat /\ 0 < count /\ 0 \in 0 .. count - 1 /\ 0 + 1 = 1
    BY <1>3
  <2>3. f[0] = Keeps(s[0 + 1], Null, need)
    BY <1>5, <1>10, <2>2
  <2>4. Leads(s, Keeps(s[0 + 1], Null, need), 0 + 1, need)
    BY <1>2, <1>3, <2>1, <2>2, LeadsOn
  <2> QED
    BY <2>2, <2>3, <2>4
<1>12. ASSUME NEW k \in S
       PROVE  k + 1 \in S
  <2>1. k \in Nat /\ k + 1 \in Nat
    OBVIOUS
  <2>2. CASE k + 1 < count
    <3>1. Leads(s, f[k], k + 1, need)
      BY <1>3, <2>1, <2>2
    <3>2. k + 1 \in 0 .. count - 1
      BY <1>3, <2>1, <2>2
    <3>3. f[k + 1] = Keeps(s[(k + 1) + 1], f[k], need)
      BY <1>5, <1>10, <2>1, <3>2
    <3>4. Leads(s, Keeps(s[(k + 1) + 1], f[k], need), (k + 1) + 1, need)
      BY <1>2, <1>3, <2>1, <2>2, <3>1, LeadsOn
    <3> QED
      BY <2>1, <3>3, <3>4
  <2>3. CASE ~ (k + 1 < count)
    BY <2>1, <2>3
  <2> QED
    BY <2>2, <2>3
<1>13. S = Nat
  <2>1. S \in SUBSET Nat
    OBVIOUS
  <2> HIDE DEF S
  <2> QED
    BY <1>11, <1>12, <2>1, NatInd
<1>14. Leads(s, f[m], m + 1, need)
  BY <1>3, <1>6, <1>13
<1> QED
  BY <1>1, <1>7, <1>10, <1>14

\* The shortest of the nodes that fit.
Shortest(need) ==
    LET fits == {n \in Members : size[n] >= need}
    IN  {n \in fits : \A m \in fits : size[n] =< size[m]}

\* BestFit returns the shortest node that fits, the first one of that size,
\* and null only if none fits (find_strategy.h 39-58).
THEOREM BestFitsExactly == Spec => []BestFitExact
<1>1. ASSUME ListInv, NEW need \in Sizes
      PROVE  BestOf(need) =
               NodeAt(FirstPosition([n \in Node |-> n \in Shortest(need)]))
  <2>1. PICK s : s = Listing
    OBVIOUS
  <2>2. TypeOK /\ IsListing(s)
    BY <1>1, <2>1, ListingSpelled
  <2>3. /\ count \in Nat /\ DOMAIN s = 1 .. count
        /\ \A i \in 1 .. count : s[i] \in Node /\ s[i] # Null
        /\ \A i, j \in 1 .. count : s[i] = s[j] => i = j
        /\ head = Null <=> count = 0
    BY <2>2, ListingFacts DEF IsListing
  <2>4. PICK test : test = [n \in Node |-> n \in Shortest(need)]
    OBVIOUS
  <2>5. need \in Nat /\ \A i \in 1 .. count : size[s[i]] \in Nat
    BY <2>2, <2>3, ListAssumption DEF TypeOK
  <2>6. ASSUME NEW i \in 1 .. count
        PROVE  test[s[i]] <=>
                 /\ size[s[i]] >= need
                 /\ \A j \in 1 .. count : size[s[j]] >= need => size[s[i]] =< size[s[j]]
    <3>1. \A n : n \in Members <=> \E j \in 1 .. count : n = s[j]
      BY <2>1, <2>3 DEF Members, Range
    <3>2. test[s[i]] <=> s[i] \in Shortest(need)
      BY <2>3, <2>4
    <3> QED
      BY <3>1, <3>2 DEF Shortest
  <2>7. ASSUME \A i \in 1 .. count : ~ (size[s[i]] >= need)
        PROVE  NodeAt(FirstPosition(test)) = Null
    <3>1. \A i \in 1 .. count : ~ test[Listing[i]]
      BY <2>1, <2>6, <2>7
    <3> QED
      BY <3>1 DEF FirstPosition, NodeAt
  <2>8. CASE head = Null
    <3>1. \A i \in 1 .. count : ~ (size[s[i]] >= need)
      BY <2>3, <2>8
    <3>2. BestOf(need) = Null
      BY Zenon, <2>8 DEF BestOf
    <3> QED
      BY <2>4, <2>7, <3>1, <3>2
  <2>9. CASE head # Null
    <3>1. Leads(s, BestOf(need), count, need)
      BY <1>1, <2>1, <2>5, <2>9, BestOfLeads
    <3>2. CASE BestOf(need) = Null /\ \A i \in 1 .. count : ~ (size[s[i]] >= need)
      BY <2>4, <2>7, <3>2
    <3>3. ASSUME NEW i \in 1 .. count, BestOf(need) = s[i], size[s[i]] >= need,
                 \A j \in 1 .. count : size[s[j]] >= need => size[s[i]] =< size[s[j]],
                 \A j \in 1 .. i - 1 : size[s[j]] >= need => size[s[i]] < size[s[j]]
          PROVE  BestOf(need) = NodeAt(FirstPosition(test))
      <4>1. test[Listing[i]]
        BY <2>1, <2>6, <3>3
      <4>2. ASSUME NEW j \in 1 .. i - 1
            PROVE  ~ test[Listing[j]]
        <5>1. j \in 1 .. count
          BY <2>3
        <5>2. size[s[i]] \in Nat /\ size[s[j]] \in Nat
          BY <2>5, <5>1
        <5>3. test[s[j]] => size[s[j]] >= need /\ size[s[j]] =< size[s[i]]
          BY <2>6, <3>3, <5>1
        <5> QED
          BY <2>1, <3>3, <5>2, <5>3
      <4>3. NodeAt(FirstPosition(test)) = Listing[i]
        BY <2>3, <4>1, <4>2, FirstPositionIs
      <4> QED
        BY <2>1, <3>3, <4>3
    <3> QED
      BY <2>4, <3>1, <3>2, <3>3 DEF Leads
  <2> QED
    BY <2>8, <2>9
<1>2. ListInv => BestFitExact
  BY <1>1 DEF BestFitExact, Shortest
<1> QED
  BY ListInvariant, <1>2, PTL

=============================================================================

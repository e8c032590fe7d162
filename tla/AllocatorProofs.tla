--------------------------- MODULE AllocatorProofs ---------------------------
(***************************************************************************)
(* The allocator's safety, for every heap size, every set of threads and   *)
(* requests, both strategies, and whether or not brk fails.                *)
(*                                                                         *)
(* HeapInv is the invariant about the shape of the heap.  It does not      *)
(* speak about inuse: the proofs that the actions preserve it hold in any  *)
(* system that composes them, also one where the flags are written from    *)
(* elsewhere, as the thread caches do.                                     *)
(***************************************************************************)
EXTENDS Allocator, TLAPS

-----------------------------------------------------------------------------
(* Sequences: what inserting at the head and removing a position do to a   *)
(* sequence's set of elements, the free list's two operations              *)

\* RemoveAt moves every later element one position to the front.
LEMMA RemoveAtFacts ==
    ASSUME NEW S, NEW s \in Seq(S), NEW i \in DOMAIN s
    PROVE  /\ RemoveAt(s, i) \in Seq(S)
           /\ Len(RemoveAt(s, i)) = Len(s) - 1
           /\ \A k \in 1 .. Len(s) - 1 :
                RemoveAt(s, i)[k] = IF k < i THEN s[k] ELSE s[k + 1]
<1> DEFINE front == SubSeq(s, 1, i - 1)
           back == SubSeq(s, i + 1, Len(s))
<1>1. i \in 1 .. Len(s) /\ Len(s) \in Nat
  OBVIOUS
<1>2. front \in Seq(S) /\ Len(front) = i - 1
      /\ \A k \in 1 .. i - 1 : front[k] = s[k]
  BY <1>1
<1>3. back \in Seq(S) /\ Len(back) = Len(s) - i
      /\ \A k \in 1 .. Len(s) - i : back[k] = s[i + k]
  BY <1>1
<1> HIDE DEF front, back
<1>4. front \o back \in Seq(S) /\ Len(front \o back) = Len(s) - 1
  BY <1>1, <1>2, <1>3
<1>5. ASSUME NEW k \in 1 .. Len(s) - 1
      PROVE  (front \o back)[k] = IF k < i THEN s[k] ELSE s[k + 1]
  BY <1>1, <1>2, <1>3
<1> QED
  BY <1>4, <1>5 DEF RemoveAt, front, back

\* Cons moves every element one position to the back.
LEMMA ConsFacts ==
    ASSUME NEW S, NEW s \in Seq(S), NEW e \in S
    PROVE  /\ Cons(e, s) \in Seq(S)
           /\ Len(Cons(e, s)) = Len(s) + 1
           /\ \A k \in 1 .. Len(s) + 1 :
                Cons(e, s)[k] = IF k = 1 THEN e ELSE s[k - 1]
  BY DEF Cons

\* From a sequence without repetitions RemoveAt takes exactly one element (the
\* free list's remove, list.cpp 121-144).
LEMMA RemoveAtRange ==
    ASSUME NEW S, NEW s \in Seq(S), NEW i \in DOMAIN s, IsInjective(s)
    PROVE  /\ Range(RemoveAt(s, i)) = Range(s) \ {s[i]}
           /\ IsInjective(RemoveAt(s, i))
<1> DEFINE r == RemoveAt(s, i)
<1>1. r \in Seq(S) /\ Len(r) = Len(s) - 1
      /\ \A k \in 1 .. Len(s) - 1 : r[k] = IF k < i THEN s[k] ELSE s[k + 1]
  BY RemoveAtFacts
<1>2. i \in 1 .. Len(s) /\ Len(s) \in Nat
  OBVIOUS
<1> HIDE DEF r
<1>3. Range(r) \subseteq Range(s) \ {s[i]}
  BY <1>1, <1>2 DEF Range, IsInjective
<1>4. ASSUME NEW x \in Range(s) \ {s[i]}
      PROVE  x \in Range(r)
  <2>1. PICK j \in 1 .. Len(s) : x = s[j] /\ j # i
    BY <1>2 DEF Range
  <2>2. CASE j < i
    <3>1. j \in 1 .. Len(r) /\ r[j] = x
      BY <1>1, <1>2, <2>1, <2>2
    <3> QED
      BY <1>1, <3>1 DEF Range
  <2>3. CASE j > i
    <3>1. j - 1 \in 1 .. Len(r) /\ r[j - 1] = x
      BY <1>1, <1>2, <2>1, <2>3
    <3> QED
      BY <1>1, <3>1 DEF Range
  <2> QED
    BY <2>1, <2>2, <2>3, <1>2
<1>5. IsInjective(r)
  <2> DOMAIN r = 1 .. Len(r)
    BY <1>1
  <2>1. SUFFICES ASSUME NEW a \in 1 .. Len(r), NEW b \in 1 .. Len(r), r[a] = r[b]
                 PROVE  a = b
    BY DEF IsInjective
  <2> DEFINE old(k) == IF k < i THEN k ELSE k + 1
  <2>2. \A k \in 1 .. Len(r) : old(k) \in 1 .. Len(s) /\ r[k] = s[old(k)]
    BY <1>1, <1>2
  <2>3. old(a) = old(b)
    <3>1. old(a) \in DOMAIN s /\ old(b) \in DOMAIN s /\ s[old(a)] = s[old(b)]
      BY <1>2, <2>1, <2>2
    <3> HIDE DEF old
    <3> QED
      BY <3>1 DEF IsInjective
  <2> QED
    BY <1>2, <2>3
<1> QED
  BY <1>3, <1>4, <1>5 DEF r

\* Cons adds exactly one element (the free list's insert, list.cpp 19-31).
LEMMA ConsRange ==
    ASSUME NEW S, NEW s \in Seq(S), NEW e \in S, IsInjective(s), e \notin Range(s)
    PROVE  /\ Range(Cons(e, s)) = Range(s) \union {e}
           /\ IsInjective(Cons(e, s))
<1> DEFINE r == Cons(e, s)
<1>1. r \in Seq(S) /\ Len(r) = Len(s) + 1
      /\ \A k \in 1 .. Len(s) + 1 : r[k] = IF k = 1 THEN e ELSE s[k - 1]
  BY ConsFacts
<1>2. Len(s) \in Nat /\ DOMAIN s = 1 .. Len(s) /\ DOMAIN r = 1 .. Len(s) + 1
  BY <1>1
<1> HIDE DEF r
<1>3. Range(r) \subseteq Range(s) \union {e}
  BY <1>1, <1>2 DEF Range
<1>4. e \in Range(r)
  BY <1>1, <1>2 DEF Range
<1>5. ASSUME NEW x \in Range(s)
      PROVE  x \in Range(r)
  <2>1. PICK j \in 1 .. Len(s) : x = s[j]
    BY <1>2 DEF Range
  <2>2. j + 1 \in 1 .. Len(r) /\ r[j + 1] = x
    BY <1>1, <1>2, <2>1
  <2> QED
    BY <1>1, <2>2 DEF Range
<1>6. IsInjective(r)
  <2>1. SUFFICES ASSUME NEW a \in 1 .. Len(r), NEW b \in 1 .. Len(r), r[a] = r[b]
                 PROVE  a = b
    BY <1>1 DEF IsInjective
  <2>2. CASE a = 1 \/ b = 1
    <3>1. ASSUME NEW k \in 2 .. Len(r)
          PROVE  r[k] # e
      <4>1. k - 1 \in DOMAIN s /\ r[k] = s[k - 1]
        BY <1>1, <1>2
      <4> QED
        BY <4>1 DEF Range
    <3> QED
      BY <1>1, <1>2, <2>1, <2>2, <3>1
  <2>3. CASE a # 1 /\ b # 1
    <3>1. a - 1 \in DOMAIN s /\ b - 1 \in DOMAIN s /\ s[a - 1] = s[b - 1]
      BY <1>1, <1>2, <2>1, <2>3
    <3>2. a - 1 = b - 1
      BY <3>1 DEF IsInjective
    <3> QED
      BY <1>1, <3>2
  <2> QED
    BY <2>2, <2>3
<1> QED
  BY <1>3, <1>4, <1>5, <1>6 DEF r

\* Tail takes exactly the head out of a sequence without repetitions (pop and
\* flush_bin, tcache.cpp 41-49, 87-94).
LEMMA TailRange ==
    ASSUME NEW S, NEW s \in Seq(S), s # <<>>, IsInjective(s)
    PROVE  /\ Head(s) \in Range(s) /\ Head(s) \in S
           /\ Tail(s) \in Seq(S)
           /\ Len(s) >= 1 /\ Len(Tail(s)) = Len(s) - 1
           /\ Range(Tail(s)) = Range(s) \ {Head(s)}
           /\ IsInjective(Tail(s))
<1> DEFINE r == Tail(s)
<1>1. /\ Len(s) \in Nat /\ Len(s) >= 1 /\ Head(s) = s[1] /\ Head(s) \in S
      /\ r \in Seq(S) /\ Len(r) = Len(s) - 1
      /\ \A k \in 1 .. Len(s) - 1 : r[k] = s[k + 1]
  OBVIOUS
<1>2. /\ DOMAIN s = 1 .. Len(s) /\ DOMAIN r = 1 .. Len(s) - 1
      /\ \A i, j \in 1 .. Len(s) : s[i] = s[j] => i = j
  BY <1>1 DEF IsInjective
<1> HIDE DEF r
<1>3. Range(r) \subseteq Range(s) \ {Head(s)}
  BY <1>1, <1>2 DEF Range
<1>4. Range(s) \ {Head(s)} \subseteq Range(r)
  <2> SUFFICES ASSUME NEW i \in 1 .. Len(s), s[i] # Head(s)
               PROVE  \E k \in DOMAIN r : r[k] = s[i]
    BY <1>2 DEF Range
  <2>1. i - 1 \in 1 .. Len(s) - 1 /\ (i - 1) + 1 = i
    BY <1>1
  <2> QED
    BY <1>1, <1>2, <2>1
<1>5. IsInjective(r)
  <2> SUFFICES ASSUME NEW i \in DOMAIN r, NEW j \in DOMAIN r, r[i] = r[j]
               PROVE  i = j
    BY DEF IsInjective
  <2>1. s[i + 1] = s[j + 1] /\ i + 1 \in 1 .. Len(s) /\ j + 1 \in 1 .. Len(s)
    BY <1>1, <1>2
  <2> QED
    BY <1>2, <2>1
<1>6. Head(s) \in Range(s)
  BY <1>1, <1>2 DEF Range
<1> QED
  BY <1>1, <1>3, <1>4, <1>5, <1>6 DEF r

-----------------------------------------------------------------------------
(* Tilings: the four things the allocator does to the blocks that tile the *)
(* heap. B is the set of blocks, s gives the size of the user areas, lo    *)
(* and hi are the ends of the heap                                         *)

\* A cut lies inside the block: the remainder's header is where no block
\* starts (malloc's split, allocator.cpp 60-63).
LEMMA CutInside ==
    ASSUME NEW B \in SUBSET Addr, NEW s \in [Addr -> Nat],
           NEW lo \in Nat, NEW hi \in 0 .. MaxBreak, Tiled(B, s, lo, hi),
           NEW b \in B, NEW need \in Nat \ {0}, s[b] >= need + HeaderUnits + 1,
           NEW rest, rest = b + Total(need)
    PROVE  /\ rest \in Addr /\ rest \notin B
           /\ b < rest
           /\ s[b] - Total(need) \in Nat \ {0}
           /\ rest + Total(s[b] - Total(need)) = b + Total(s[b])
<1> USE DEF Total, HeaderUnits
<1>1. /\ b \in Nat /\ s[b] \in Nat /\ MaxBreak \in Nat
      /\ b + 1 + s[b] =< hi
  BY MemoryAssumption DEF Tiled, Addr
<1>2. rest \in Addr /\ b < rest /\ rest < b + 1 + s[b]
  BY <1>1 DEF Addr
<1>3. \A c \in B : b < c => b + 1 + s[b] =< c
  BY DEF Tiled
<1>4. rest \notin B
  BY <1>1, <1>2, <1>3
<1> QED
  BY <1>1, <1>2, <1>4

\* Cutting a block in two keeps the heap tiled (allocator.cpp 60-69).
LEMMA TiledSplit ==
    ASSUME NEW B \in SUBSET Addr, NEW s \in [Addr -> Nat],
           NEW lo \in Nat, NEW hi \in 0 .. MaxBreak, Tiled(B, s, lo, hi),
           NEW b \in B, NEW need \in Nat \ {0}, s[b] >= need + HeaderUnits + 1,
           NEW rest, rest = b + Total(need),
           NEW s2 \in [Addr -> Nat], s2[b] = need, s2[rest] = s[b] - Total(need),
           \A c \in B \ {b} : s2[c] = s[c]
    PROVE  Tiled(B \union {rest}, s2, lo, hi)
<1> USE DEF Total, HeaderUnits
<1>1. /\ b \in Nat /\ s[b] \in Nat /\ MaxBreak \in Nat
      /\ s[b] >= need + 2
      /\ b + 1 + s[b] =< hi
  BY MemoryAssumption DEF Tiled, Addr
<1>2. rest \in Addr /\ b < rest /\ rest < b + 1 + s[b]
  BY <1>1 DEF Addr
<1>3. rest \notin B
  BY CutInside
<1>4. /\ s2[b] = need
      /\ s2[rest] = s[b] - 1 - need
      /\ \A c \in B \ {b} : s2[c] = s[c]
  BY <1>1
<1>5. rest + Total(s2[rest]) = b + Total(s[b])
  BY <1>1, <1>2, <1>4
<1>0. /\ \A c \in B : c \in Nat /\ s[c] \in Nat
      /\ need \in Nat /\ rest \in Nat /\ rest = b + 1 + need
  BY <1>1 DEF Addr
<1>6. Tiled(B \union {rest}, s2, lo, hi)
  <2>1. lo \in B \union {rest} \union {hi}
    BY DEF Tiled
  <2>2. ASSUME NEW c \in B \union {rest}
        PROVE  /\ s2[c] >= 1
               /\ lo =< c
               /\ c + Total(s2[c]) =< hi
               /\ c + Total(s2[c]) \in B \union {rest} \union {hi}
    <3>1. CASE c = rest
      <4>1. b + Total(s[b]) =< hi /\ b + Total(s[b]) \in B \union {hi} /\ lo =< b
        BY DEF Tiled
      <4> QED
        BY <3>1, <4>1, <1>0, <1>1, <1>2, <1>4, <1>5
    <3>2. CASE c = b
      <4>1. b + Total(s2[b]) = rest /\ lo =< b
        BY <1>0, <1>4 DEF Tiled
      <4> QED
        BY <3>2, <4>1, <1>0, <1>1, <1>2, <1>4
    <3>3. CASE c \in B \ {b}
      BY <3>3, <1>4 DEF Tiled
    <3> QED
      BY <3>1, <3>2, <3>3
  <2>3. ASSUME NEW c \in B \union {rest}, NEW d \in B \union {rest}, c < d
        PROVE  c + Total(s2[c]) =< d
    <3>1. CASE c = rest
      <4>1. d \in B /\ b < d
        BY <3>1, <2>3, <1>0, <1>1, <1>2
      <4>2. b + Total(s[b]) =< d
        BY <4>1 DEF Tiled
      <4> QED
        BY <3>1, <4>2, <1>5
    <3>2. CASE c = b
      <4>1. CASE d = rest
        BY <3>2, <4>1, <1>0, <1>1, <1>4
      <4>2. CASE d \in B
        <5>1. b + Total(s[b]) =< d
          BY <3>2, <4>2, <2>3 DEF Tiled
        <5> QED
          BY <3>2, <4>2, <5>1, <1>0, <1>1, <1>4
      <4> QED
        BY <4>1, <4>2
    <3>3. CASE c \in B \ {b}
      <4>1. CASE d = rest
        <5>1. c < b
          <6>1. CASE b < c
            <7>1. b + Total(s[b]) =< c
              BY <3>3, <6>1 DEF Tiled
            <7> QED
              BY <7>1, <2>3, <4>1, <3>3, <1>0, <1>1, <1>2
          <6> QED
            BY <3>3, <6>1, <1>0, <1>1
        <5>2. c + Total(s[c]) =< b
          BY <3>3, <5>1 DEF Tiled
        <5> QED
          BY <3>3, <4>1, <5>2, <1>0, <1>1, <1>2, <1>4
      <4>2. CASE d \in B
        BY <3>3, <4>2, <2>3, <1>4 DEF Tiled
      <4> QED
        BY <4>1, <4>2
    <3> QED
      BY <3>1, <3>2, <3>3
  <2> QED
    BY <2>1, <2>2, <2>3 DEF Tiled
<1> QED
  BY <1>6

\* Absorbing the block right behind keeps the heap tiled (free's merges,
\* allocator.cpp 141-160).
LEMMA TiledMerge ==
    ASSUME NEW B \in SUBSET Addr, NEW s \in [Addr -> Nat],
           NEW lo \in Nat, NEW hi \in 0 .. MaxBreak, Tiled(B, s, lo, hi),
           NEW b \in B, NEW c \in B, c = b + Total(s[b]),
           NEW s2 \in [Addr -> Nat], s2[b] = s[b] + Total(s[c]),
           \A d \in B \ {b} : s2[d] = s[d]
    PROVE  /\ b < c
           /\ b + Total(s2[b]) = c + Total(s[c])
           /\ Tiled(B \ {c}, s2, lo, hi)
<1> USE DEF Total, HeaderUnits
<1>1. /\ b \in Nat /\ c \in Nat /\ s[b] \in Nat /\ s[c] \in Nat
      /\ b < c
  BY DEF Addr
<1>2. /\ s2 \in [Addr -> Nat]
      /\ s2[b] = s[b] + 1 + s[c]
      /\ \A d \in B \ {b} : s2[d] = s[d]
  BY <1>1
<1>3. b + Total(s2[b]) = c + Total(s[c])
  BY <1>1, <1>2
<1>4. Tiled(B \ {c}, s2, lo, hi)
  <2>1. lo \in (B \ {c}) \union {hi}
    BY <1>1 DEF Tiled, Addr
  <2>2. ASSUME NEW d \in B \ {c}
        PROVE  /\ s2[d] >= 1
               /\ lo =< d
               /\ d + Total(s2[d]) =< hi
               /\ d + Total(s2[d]) \in (B \ {c}) \union {hi}
    <3>1. CASE d = b
      <4>1. c + Total(s[c]) =< hi /\ c + Total(s[c]) \in B \union {hi}
        BY DEF Tiled
      <4> QED
        BY <3>1, <4>1, <1>1, <1>2, <1>3 DEF Tiled
    <3>2. CASE d \in B \ {b, c}
      <4>1. d + Total(s[d]) # c
        <5>1. d \in Nat /\ s[d] \in Nat /\ d # b
          BY <3>2 DEF Addr
        <5>2. d < b => d + Total(s[d]) =< b
          BY <3>2 DEF Tiled
        <5>3. b < d => c =< d
          BY <3>2 DEF Tiled
        <5> QED
          BY <5>1, <5>2, <5>3, <1>1
      <4> QED
        BY <3>2, <4>1, <1>2 DEF Tiled
    <3> QED
      BY <3>1, <3>2
  <2>3. ASSUME NEW d \in B \ {c}, NEW e \in B \ {c}, d < e
        PROVE  d + Total(s2[d]) =< e
    <3>1. CASE d = b
      <4>1. c =< e /\ e \in Nat
        BY <3>1, <2>3 DEF Tiled, Addr
      <4>2. c + Total(s[c]) =< e
        BY <4>1, <1>1 DEF Tiled
      <4> QED
        BY <3>1, <4>2, <1>3
    <3>2. CASE d # b
      BY <3>2, <2>3, <1>2 DEF Tiled
    <3> QED
      BY <3>1, <3>2
  <2> QED
    BY <2>1, <2>2, <2>3 DEF Tiled
<1> QED
  BY <1>1, <1>2, <1>3, <1>4

\* A block on top of the heap extends it (malloc's miss, allocator.cpp 82-92).
LEMMA TiledExtend ==
    ASSUME NEW B \in SUBSET Addr, NEW s \in [Addr -> Nat],
           NEW lo \in Nat, NEW hi \in 0 .. MaxBreak, Tiled(B, s, lo, hi),
           lo =< hi, NEW need \in Nat \ {0}, hi + Total(need) =< MaxBreak,
           NEW s2 \in [Addr -> Nat], s2[hi] = need, \A c \in B : s2[c] = s[c]
    PROVE  /\ hi \in Addr /\ hi \notin B
           /\ Tiled(B \union {hi}, s2, lo, hi + Total(need))
<1> USE DEF Total, HeaderUnits
<1>1. hi \in Addr /\ hi \in Nat
  BY MemoryAssumption DEF Addr
<1>2. \A c \in B : c \in Nat /\ s[c] \in Nat /\ c < hi
  BY <1>1 DEF Tiled, Addr
<1>3. hi \notin B
  BY <1>1, <1>2
<1>4. s2 \in [Addr -> Nat] /\ s2[hi] = need /\ \A c \in B : s2[c] = s[c]
  BY <1>1, <1>3
<1>5. Tiled(B \union {hi}, s2, lo, hi + Total(need))
  <2>1. ASSUME NEW c \in B
        PROVE  /\ s2[c] >= 1 /\ lo =< c
               /\ c + Total(s2[c]) =< hi + Total(need)
               /\ c + Total(s2[c]) \in B \union {hi}
               /\ c + Total(s2[c]) =< hi
    BY <1>1, <1>2, <1>4 DEF Tiled
  <2>2. \A c, d \in B : c < d => c + Total(s2[c]) =< d
    BY <1>4 DEF Tiled
  <2> QED
    BY <1>1, <1>2, <1>4, <2>1, <2>2 DEF Tiled
<1> QED
  BY <1>1, <1>3, <1>4, <1>5

\* Giving back the block on top leaves the others tiling the smaller heap
\* (release_block, memory.cpp 49-69).
LEMMA TiledShrink ==
    ASSUME NEW B \in SUBSET Addr, NEW s \in [Addr -> Nat],
           NEW lo \in Nat, NEW hi \in 0 .. MaxBreak, Tiled(B, s, lo, hi),
           NEW b \in B, b + Total(s[b]) = hi
    PROVE  /\ b \in 0 .. MaxBreak
           /\ lo =< b
           /\ Tiled(B \ {b}, s, lo, b)
<1> USE DEF Total, HeaderUnits
<1>1. b \in Nat /\ s[b] \in Nat /\ b < hi /\ lo =< b
  BY DEF Tiled, Addr
<1>2. ASSUME NEW c \in B \ {b}
      PROVE  c + Total(s[c]) =< b
  <2>1. c \in Nat /\ s[c] \in Nat /\ c + Total(s[c]) =< hi
    BY DEF Tiled, Addr
  <2>2. b < c => hi =< c
    BY DEF Tiled
  <2>3. c < b => c + Total(s[c]) =< b
    BY DEF Tiled
  <2> QED
    BY <1>1, <2>1, <2>2, <2>3
<1>3. \A c \in B \ {b} : c \in Nat /\ s[c] \in Nat
  BY DEF Addr
<1>4. \A c \in B \ {b} : c + Total(s[c]) \in (B \ {b}) \union {b}
  BY <1>1, <1>2, <1>3 DEF Tiled
<1>5. lo \in (B \ {b}) \union {b}
  BY <1>1 DEF Tiled
<1>6. Tiled(B \ {b}, s, lo, b)
  BY <1>2, <1>4, <1>5 DEF Tiled
<1> QED
  BY <1>1, <1>6, MemoryAssumption

-----------------------------------------------------------------------------
(* The invariant                                                           *)

\* What free has done to node so far: nothing listed is behind it after the
\* first merge, and nothing listed is before it after the second.
MergedInHand ==
    /\ phase \in {"prev", "release"} => End(node) \notin Listed
    /\ phase = "release" => \A c \in Listed : End(c) # node

HeapInv ==
    /\ HeapTypeOK
    /\ HeapTiled
    /\ OneOwner
    /\ Coalesced
    /\ TopReleased
    /\ MergedInHand

-----------------------------------------------------------------------------
(* Consequences of the invariant                                           *)

\* Where the blocks and the break are.
LEMMA HeapFacts ==
    ASSUME HeapInv
    PROVE  /\ Blocks \in SUBSET Addr
           /\ size \in [Addr -> Nat]
           /\ heapStart \in Nat /\ sysBreak \in 0 .. MaxBreak
           /\ heapStart =< sysBreak
           /\ curBreak = sysBreak
           /\ Tiled(Blocks, size, heapStart, sysBreak)
           /\ \A b \in Blocks : /\ b \in Nat /\ size[b] \in Nat
                                /\ heapStart =< b /\ b < End(b)
                                /\ End(b) =< sysBreak
                                /\ End(b) = b + Total(size[b])
<1>1. /\ size \in [Addr -> Nat]
      /\ heapStart \in 0 .. MaxBreak /\ sysBreak \in 0 .. MaxBreak
      /\ curBreak = sysBreak
      /\ Tiled(Blocks, size, heapStart, sysBreak)
  BY DEF HeapInv, HeapTypeOK, HeapTiled
<1>2. Listed \subseteq Addr
  BY DEF HeapInv, HeapTypeOK, Listed, Range
<1>3. Blocks \in SUBSET Addr
  BY <1>2 DEF HeapInv, HeapTypeOK, Blocks, InHand
<1>4. \A b \in Blocks : /\ b \in Nat /\ size[b] \in Nat
                        /\ heapStart =< b /\ b < End(b)
                        /\ End(b) =< sysBreak
                        /\ End(b) = b + Total(size[b])
  BY <1>1, <1>3 DEF Tiled, End, Total, HeaderUnits, Addr
<1>5. heapStart =< sysBreak
  <2>1. heapStart \in Blocks => heapStart + Total(size[heapStart]) =< sysBreak
    BY <1>1 DEF Tiled
  <2> QED
    BY <1>1, <1>4, <2>1, MemoryAssumption DEF Tiled, Total, HeaderUnits
<1> QED
  BY <1>1, <1>3, <1>4, <1>5, MemoryAssumption

\* Taking a position out of the list takes one block out of Listed.
LEMMA Unlist ==
    ASSUME freeList \in Seq(Addr), IsInjective(freeList), NEW i \in DOMAIN freeList
    PROVE  /\ freeList[i] \in Listed
           /\ RemoveAt(freeList, i) \in Seq(Addr)
           /\ Range(RemoveAt(freeList, i)) = Listed \ {freeList[i]}
           /\ IsInjective(RemoveAt(freeList, i))
<1>1. /\ Range(RemoveAt(freeList, i)) = Range(freeList) \ {freeList[i]}
      /\ IsInjective(RemoveAt(freeList, i))
  BY RemoveAtRange
<1>2. RemoveAt(freeList, i) \in Seq(Addr)
  BY RemoveAtFacts
<1> QED
  BY <1>1, <1>2 DEF Listed, Range

\* A listed block that leaves the list (a reuse by malloc, a merge in free).
LEMMA ListRemove ==
    ASSUME HeapInv, NEW i \in DOMAIN freeList
    PROVE  /\ freeList[i] \in Listed
           /\ RemoveAt(freeList, i) \in Seq(Addr)
           /\ Range(RemoveAt(freeList, i)) = Listed \ {freeList[i]}
           /\ IsInjective(RemoveAt(freeList, i))
  BY Unlist DEF HeapInv, HeapTypeOK, OneOwner

\* No two blocks end at the same address.
LEMMA EndsDiffer ==
    ASSUME HeapInv, NEW b \in Blocks, NEW c \in Blocks, End(b) = End(c)
    PROVE  b = c
<1>1. /\ b \in Nat /\ c \in Nat
      /\ b < End(b) /\ c < End(c)
      /\ End(b) = b + Total(size[b]) /\ End(c) = c + Total(size[c])
      /\ size[b] \in Nat /\ size[c] \in Nat
  BY HeapFacts
<1>2. /\ b < c => End(b) =< c
      /\ c < b => End(c) =< b
  BY <1>1, HeapFacts DEF Tiled
<1> QED
  BY <1>1, <1>2 DEF Total, HeaderUnits

\* find_next_phys misses no block (list.cpp 85-102).
LEMMA NextPhysComplete ==
    ASSUME HeapInv, NEW b, \A i \in DOMAIN freeList : ~ NextPhys(i, b)
    PROVE  End(b) \notin Listed
<1> SUFFICES ASSUME NEW i \in DOMAIN freeList, freeList[i] = End(b)
             PROVE  FALSE
  BY DEF Listed, Range
<1>1. freeList \in Seq(Addr) /\ IsInjective(freeList)
  BY DEF HeapInv, HeapTypeOK, OneOwner
<1>2. \A j \in 1 .. i - 1 : j \in DOMAIN freeList /\ j # i
  BY <1>1
<1>3. \A j \in 1 .. i - 1 : freeList[j] # End(b)
  BY <1>1, <1>2 DEF IsInjective
<1> QED
  BY <1>3 DEF NextPhys

\* find_prev_phys misses no block (list.cpp 63-81).
LEMMA PrevPhysComplete ==
    ASSUME HeapInv, NEW b, \A i \in DOMAIN freeList : ~ PrevPhys(i, b)
    PROVE  \A c \in Listed : End(c) # b
<1> SUFFICES ASSUME NEW i \in DOMAIN freeList, End(freeList[i]) = b
             PROVE  FALSE
  BY DEF Listed, Range
<1>1. freeList \in Seq(Addr) /\ IsInjective(freeList)
  BY DEF HeapInv, HeapTypeOK, OneOwner
<1>2. \A j \in 1 .. i - 1 : j \in DOMAIN freeList /\ j # i
  BY <1>1
<1>3. \A j \in DOMAIN freeList : freeList[j] \in Blocks
  BY DEF Blocks, Listed, Range
<1>4. ASSUME NEW j \in 1 .. i - 1
      PROVE  End(freeList[j]) # b
  <2>1. freeList[j] # freeList[i]
    BY <1>1, <1>2 DEF IsInjective
  <2> QED
    BY <2>1, <1>2, <1>3, EndsDiffer
<1> QED
  BY <1>4 DEF PrevPhys

-----------------------------------------------------------------------------
(* The heap starts well, and every action keeps it well                    *)

\* The empty heap.
LEMMA InitHeap ==
    AllocatorInit => HeapInv
<1> SUFFICES ASSUME AllocatorInit
             PROVE  HeapInv
  OBVIOUS
<1>1. Listed = {} /\ InHand = {} /\ Blocks = {}
  BY DEF AllocatorInit, Listed, Range, InHand, Blocks
<1>2. HeapTypeOK
  BY MemoryAssumption, AllocatorAssumption
     DEF AllocatorInit, ConstructMemory, HeapTypeOK, Addr
<1>3. HeapTiled
  BY <1>1 DEF AllocatorInit, ConstructMemory, HeapTiled, Tiled
<1>4. OneOwner
  BY <1>1 DEF AllocatorInit, OneOwner, IsInjective
<1> QED
  BY <1>1, <1>2, <1>3, <1>4
     DEF HeapInv, Coalesced, TopReleased, MergedInHand, AllocatorInit

\* malloc out of the free list, with and without a split.
LEMMA MallocReuseKeepsHeap ==
    ASSUME HeapInv, NEW need \in Nat \ {0}, MallocReuse(need)
    PROVE  HeapInv'
<1>1. PICK i, b, others, rest :
        /\ i \in DOMAIN freeList
        /\ b = freeList[i] /\ others = RemoveAt(freeList, i)
        /\ rest = b + Total(need)
        /\ Found(i, need)
        /\ IF Splits(b, need)
             THEN /\ size' = [size EXCEPT ![rest] = size[b] - Total(need), ![b] = need]
                  /\ inuse' = [inuse EXCEPT ![rest] = FALSE, ![b] = TRUE]
                  /\ freeList' = Cons(rest, others)
             ELSE /\ inuse' = [inuse EXCEPT ![b] = TRUE]
                  /\ freeList' = others
                  /\ size' = size
        /\ alloc' = alloc \union {b}
        /\ asked' = [asked EXCEPT ![b] = need]
  BY Zenon DEF MallocReuse
<1>2. /\ locker = NoThread /\ locker' = NoThread
      /\ phase' = phase /\ node' = node
      /\ heapStart' = heapStart /\ curBreak' = curBreak /\ sysBreak' = sysBreak
  BY DEF MallocReuse, memVars
<1>3. /\ b \in Listed /\ others \in Seq(Addr)
      /\ Range(others) = Listed \ {b} /\ IsInjective(others)
  BY <1>1, ListRemove
<1>4. b \in Blocks /\ b \in Addr /\ b \notin alloc /\ InHand = {}
  BY <1>2, <1>3, HeapFacts DEF Blocks, HeapInv, OneOwner, InHand
<1>5. phase = "idle" /\ InHand' = {}
  BY <1>2 DEF HeapInv, HeapTypeOK, InHand
<1>6. MergedInHand'
  BY <1>2, <1>5 DEF MergedInHand
<1>7. CASE Splits(b, need)
  <2>1. /\ size' = [size EXCEPT ![rest] = size[b] - Total(need), ![b] = need]
        /\ inuse' = [inuse EXCEPT ![rest] = FALSE, ![b] = TRUE]
        /\ freeList' = Cons(rest, others)
        /\ alloc' = alloc \union {b}
    BY <1>1, <1>7
  <2>2. /\ Blocks \in SUBSET Addr /\ size \in [Addr -> Nat]
        /\ heapStart \in Nat /\ sysBreak \in 0 .. MaxBreak
        /\ Tiled(Blocks, size, heapStart, sysBreak)
    BY HeapFacts
  <2>2a. b \in Blocks /\ rest = b + Total(need)
    BY <1>1, <1>4
  <2>2b. size[b] >= need + HeaderUnits + 1
    BY <1>7 DEF Splits
  <2>3. /\ rest \in Addr /\ rest \notin Blocks
        /\ b < rest
        /\ size[b] - Total(need) \in Nat \ {0}
        /\ rest + Total(size[b] - Total(need)) = b + Total(size[b])
    BY <2>2, <2>2a, <2>2b, CutInside
  <2>4. /\ size' \in [Addr -> Nat]
        /\ size'[b] = need
        /\ size'[rest] = size[b] - Total(need)
        /\ \A c \in Blocks \ {b} : size'[c] = size[c]
    BY <1>4, <2>1, <2>2, <2>2a, <2>3
  <2>5. Tiled(Blocks \union {rest}, size', heapStart, sysBreak)
    BY <2>2, <2>2a, <2>2b, <2>4, TiledSplit
  <2>6. /\ freeList' \in Seq(Addr)
        /\ Listed' = (Listed \ {b}) \union {rest}
        /\ IsInjective(freeList')
    <3>1. rest \notin Range(others)
      BY <1>3, <2>3 DEF Blocks
    <3>2. Range(Cons(rest, others)) = Range(others) \union {rest}
          /\ IsInjective(Cons(rest, others))
      BY <1>3, <2>3, <3>1, ConsRange
    <3>3. Cons(rest, others) \in Seq(Addr)
      BY <1>3, <2>3, ConsFacts
    <3> QED
      BY <1>3, <2>1, <3>2, <3>3 DEF Listed
  <2>7. Blocks' = Blocks \union {rest}
    BY <1>3, <1>4, <1>5, <2>1, <2>6 DEF Blocks
  <2>8. HeapTypeOK'
    BY <1>1, <1>2, <1>4, <2>1, <2>3, <2>4, <2>6 DEF HeapInv, HeapTypeOK
  <2>9. HeapTiled'
    BY <1>2, <2>5, <2>7 DEF HeapInv, HeapTiled
  <2>10. OneOwner'
    BY <1>3, <1>4, <1>5, <2>1, <2>3, <2>6 DEF HeapInv, OneOwner, Blocks
  <2>11. End(rest)' = End(b)
    BY <2>3, <2>4 DEF End
  <2>12. ASSUME NEW c \in Listed \ {b}
         PROVE  /\ End(c)' = End(c)
                /\ End(c) # rest
    <3>1. c \in Blocks /\ End(c)' = End(c)
      BY <2>4 DEF Blocks, End
    <3>2. End(c) \in Blocks \union {sysBreak}
      BY <3>1, HeapFacts DEF Tiled, End
    <3>3. rest # sysBreak
      <4>1. rest + Total(size[b] - Total(need)) =< sysBreak
        BY <1>4, <2>3, HeapFacts
      <4>2. /\ rest \in Nat /\ sysBreak \in Nat
            /\ size[b] - Total(need) \in Nat
        BY <2>3, HeapFacts, MemoryAssumption DEF Addr
      <4>3. \A x \in Nat : rest + Total(x) =< sysBreak => rest # sysBreak
        BY <4>2 DEF Total, HeaderUnits
      <4> QED
        BY <4>1, <4>2, <4>3
    <3> QED
      BY <3>1, <3>2, <3>3, <2>3
  <2>13. Coalesced'
    <3>1. End(b) \notin Listed
      BY <1>3 DEF HeapInv, Coalesced
    <3>2. End(b) # rest
      <4>1. rest \in Nat /\ size[b] - Total(need) \in Nat
        BY <2>3 DEF Addr
      <4> QED
        BY <2>3, <4>1 DEF End, Total, HeaderUnits
    <3>3. \A c \in Listed \ {b} : End(c) \notin Listed
      BY DEF HeapInv, Coalesced
    <3>4. \A c \in Listed' : End(c)' \notin Listed'
      BY <2>6, <2>11, <2>12, <3>1, <3>2, <3>3
    <3> QED
      BY <3>4 DEF Coalesced
  <2>14. TopReleased'
    <3>1. ~ BrkMayFail => \A c \in Listed' : End(c)' # sysBreak'
      BY <1>2, <1>3, <2>6, <2>11, <2>12 DEF HeapInv, TopReleased
    <3> QED
      BY <3>1 DEF TopReleased
  <2> QED
    BY <1>6, <2>8, <2>9, <2>10, <2>13, <2>14 DEF HeapInv
<1>8. CASE ~ Splits(b, need)
  <2>1. /\ size' = size
        /\ inuse' = [inuse EXCEPT ![b] = TRUE]
        /\ freeList' = others
        /\ alloc' = alloc \union {b}
    BY <1>1, <1>8
  <2>2. Listed' = Listed \ {b}
    BY <1>3, <2>1 DEF Listed
  <2>3. Blocks' = Blocks
    BY <1>3, <1>4, <1>5, <2>1, <2>2 DEF Blocks
  <2>4. HeapTypeOK'
    BY <1>1, <1>2, <1>3, <1>4, <2>1 DEF HeapInv, HeapTypeOK
  <2>5. HeapTiled'
    BY <1>2, <2>1, <2>3 DEF HeapInv, HeapTiled
  <2>6. OneOwner'
    BY <1>3, <1>4, <1>5, <2>1, <2>2 DEF HeapInv, OneOwner
  <2>7. \A c : End(c)' = End(c)
    BY <2>1 DEF End
  <2>8. Coalesced' /\ TopReleased'
    BY <1>2, <2>2, <2>7 DEF HeapInv, Coalesced, TopReleased
  <2> QED
    BY <1>6, <2>4, <2>5, <2>6, <2>8 DEF HeapInv
<1> QED
  BY <1>7, <1>8

\* malloc by growing the heap.
LEMMA MallocExtendKeepsHeap ==
    ASSUME HeapInv, NEW need \in Nat \ {0}, MallocExtend(need)
    PROVE  HeapInv'
<1>1. /\ locker = NoThread /\ locker' = NoThread
      /\ phase' = phase /\ node' = node /\ freeList' = freeList
      /\ heapStart' = heapStart
      /\ sysBreak + Total(need) =< MaxBreak
      /\ sysBreak' = sysBreak + Total(need) /\ curBreak' = sysBreak + Total(need)
      /\ size' = [size EXCEPT ![sysBreak] = need]
      /\ inuse' = [inuse EXCEPT ![sysBreak] = TRUE]
      /\ alloc' = alloc \union {sysBreak}
      /\ asked' = [asked EXCEPT ![sysBreak] = need]
  BY DEF MallocExtend, Allocate
<1>2. phase = "idle" /\ InHand = {} /\ InHand' = {} /\ Listed' = Listed
  BY <1>1 DEF HeapInv, HeapTypeOK, InHand, Listed
<1>3. sysBreak \in Addr
  BY <1>1, HeapFacts, MemoryAssumption DEF Addr, Total, HeaderUnits
<1>4. \A b \in Blocks : b # sysBreak
  <2>1. \A b \in Blocks : /\ b \in Nat /\ size[b] \in Nat
                          /\ b + Total(size[b]) =< sysBreak
    BY HeapFacts
  <2> QED
    BY <1>3, <2>1 DEF Addr, Total, HeaderUnits
<1>5. /\ size' \in [Addr -> Nat]
      /\ size'[sysBreak] = need
      /\ \A c \in Blocks : size'[c] = size[c]
  BY <1>1, <1>3, <1>4, HeapFacts
<1>6. Blocks' = Blocks \union {sysBreak}
  BY <1>1, <1>2 DEF Blocks
<1>7. Tiled(Blocks \union {sysBreak}, size', heapStart, sysBreak + Total(need))
  <2>1. /\ Blocks \in SUBSET Addr /\ size \in [Addr -> Nat]
        /\ heapStart \in Nat /\ sysBreak \in 0 .. MaxBreak
        /\ heapStart =< sysBreak
        /\ Tiled(Blocks, size, heapStart, sysBreak)
    BY HeapFacts
  <2>2. sysBreak + Total(need) =< MaxBreak
    BY <1>1
  <2> QED
    BY <1>5, <2>1, <2>2, TiledExtend
<1>8. HeapTypeOK'
  <2>1. sysBreak' \in 0 .. MaxBreak
    BY <1>1, HeapFacts, MemoryAssumption DEF Total, HeaderUnits
  <2> QED
    BY <1>1, <1>3, <1>5, <2>1 DEF HeapInv, HeapTypeOK
<1>9. HeapTiled'
  BY <1>1, <1>6, <1>7 DEF HeapTiled
<1>10. OneOwner'
  BY <1>1, <1>2, <1>4 DEF HeapInv, OneOwner, Blocks
<1>11. \A c \in Listed : End(c)' = End(c) /\ End(c) =< sysBreak /\ c \in Blocks
  BY <1>5, HeapFacts DEF End, Blocks
<1>12. Coalesced'
  BY <1>2, <1>11 DEF HeapInv, Coalesced
<1>13. TopReleased'
  <2>1. \A c \in Listed : End(c) # sysBreak + Total(need)
    <3>1. \A c \in Listed : End(c) \in Nat
      BY <1>11, HeapFacts DEF Total, HeaderUnits
    <3> QED
      BY <1>3, <1>11, <3>1 DEF Total, HeaderUnits, Addr
  <2> QED
    BY <1>1, <1>2, <1>11, <2>1 DEF TopReleased
<1>14. MergedInHand'
  BY <1>1, <1>2 DEF MergedInHand
<1> QED
  BY <1>8, <1>9, <1>10, <1>12, <1>13, <1>14 DEF HeapInv

\* A malloc that fails touches nothing.
LEMMA MallocFailsKeepsHeap ==
    ASSUME HeapInv, NEW need, MallocFails(need)
    PROVE  HeapInv'
  BY DEF MallocFails, AllocateFails, memVars, HeapInv, HeapTypeOK, HeapTiled,
         Tiled, OneOwner, Coalesced, TopReleased, MergedInHand,
         Blocks, Listed, InHand, End

\* free takes a block from its owner into the hands of a thread.
LEMMA FreeBeginKeepsHeap ==
    ASSUME HeapInv, NEW t \in Thread, NEW b \in alloc, FreeBegin(t, b)
    PROVE  HeapInv'
<1>1. /\ locker = NoThread /\ locker' = t /\ t # NoThread
      /\ phase' = "next" /\ node' = b
      /\ alloc' = alloc \ {b} /\ asked' = [asked EXCEPT ![b] = 0]
      /\ heapStart' = heapStart /\ curBreak' = curBreak /\ sysBreak' = sysBreak
      /\ size' = size /\ inuse' = inuse /\ freeList' = freeList
  BY AllocatorAssumption DEF FreeBegin, heapVars, memVars
<1>2. InHand = {} /\ InHand' = {b} /\ Listed' = Listed
  BY <1>1 DEF InHand, Listed
<1>3. Blocks' = Blocks
  BY <1>1, <1>2 DEF Blocks
<1>4. \A c : End(c)' = End(c)
  BY <1>1 DEF End
<1>5. HeapTypeOK'
  BY <1>1 DEF HeapInv, HeapTypeOK
<1>6. HeapTiled'
  BY <1>1, <1>3 DEF HeapInv, HeapTiled
<1>7. OneOwner'
  BY <1>1, <1>2 DEF HeapInv, OneOwner
<1>8. Coalesced' /\ TopReleased'
  BY <1>1, <1>2, <1>4 DEF HeapInv, Coalesced, TopReleased
<1>9. MergedInHand'
  BY <1>1 DEF MergedInHand
<1> QED
  BY <1>5, <1>6, <1>7, <1>8, <1>9 DEF HeapInv

\* free absorbs the listed block behind node, or finds none.
LEMMA MergeNextKeepsHeap ==
    ASSUME HeapInv, NEW t \in Thread, MergeNext(t)
    PROVE  HeapInv'
<1>1. /\ locker = t /\ phase = "next" /\ phase' = "prev"
      /\ locker' = locker /\ node' = node /\ alloc' = alloc /\ inuse' = inuse
      /\ asked' = asked
      /\ heapStart' = heapStart /\ curBreak' = curBreak /\ sysBreak' = sysBreak
      /\ t # NoThread
  BY AllocatorAssumption DEF MergeNext, memVars
<1>2. /\ InHand = {node} /\ InHand' = {node}
      /\ node \in Blocks /\ node \in Addr /\ node \notin Listed
  BY <1>1, HeapFacts DEF InHand, Blocks, HeapInv, OneOwner
<1>3. CASE \E i \in DOMAIN freeList :
             /\ NextPhys(i, node)
             /\ size' = [size EXCEPT ![node] = @ + Total(size[freeList[i]])]
             /\ freeList' = RemoveAt(freeList, i)
  <2>1. PICK i, c :
          /\ i \in DOMAIN freeList
          /\ c = freeList[i] /\ c = End(node)
          /\ size' = [size EXCEPT ![node] = @ + Total(size[c])]
          /\ freeList' = RemoveAt(freeList, i)
    BY <1>3 DEF NextPhys
  <2>2. /\ c \in Listed /\ freeList' \in Seq(Addr)
        /\ Listed' = Listed \ {c} /\ IsInjective(freeList')
    BY <2>1, ListRemove DEF Listed
  <2>3. c \in Blocks /\ c \notin alloc /\ c # node
    BY <1>2, <2>2 DEF Blocks, HeapInv, OneOwner
  <2>4. Blocks' = Blocks \ {c}
    BY <1>1, <1>2, <2>2, <2>3 DEF Blocks
  <2>5. /\ size' \in [Addr -> Nat]
        /\ size'[node] = size[node] + Total(size[c])
        /\ \A d \in Blocks \ {node} : size'[d] = size[d]
    <3>1. size[node] + Total(size[c]) \in Nat
      BY <1>2, <2>3, HeapFacts DEF Total, HeaderUnits
    <3> QED
      BY <1>2, <2>1, <3>1, HeapFacts
  <2>6. c = node + Total(size[node])
    BY <2>1 DEF End
  <2>7. /\ node + Total(size'[node]) = c + Total(size[c])
        /\ Tiled(Blocks \ {c}, size', heapStart, sysBreak)
    BY <1>2, <2>3, <2>5, <2>6, HeapFacts, TiledMerge
  <2>8. HeapTypeOK'
    BY <1>1, <2>2, <2>5 DEF HeapInv, HeapTypeOK
  <2>9. HeapTiled'
    BY <1>1, <2>4, <2>7 DEF HeapInv, HeapTiled
  <2>10. OneOwner'
    BY <1>1, <1>2, <2>2 DEF HeapInv, OneOwner
  <2>11. \A d \in Listed' : d \in Listed /\ End(d)' = End(d)
    BY <1>2, <2>2, <2>5 DEF End, Blocks
  <2>12. Coalesced' /\ TopReleased'
    BY <1>1, <2>2, <2>11 DEF HeapInv, Coalesced, TopReleased
  <2>13. MergedInHand'
    <3>1. node' + Total(size'[node']) \notin Listed'
      BY <1>1, <2>2, <2>7 DEF HeapInv, Coalesced, End
    <3> QED
      BY <1>1, <3>1 DEF MergedInHand, End
  <2> QED
    BY <2>8, <2>9, <2>10, <2>12, <2>13 DEF HeapInv
<1>4. CASE /\ \A i \in DOMAIN freeList : ~ NextPhys(i, node)
           /\ size' = size /\ freeList' = freeList
  <2>1. Listed' = Listed /\ Blocks' = Blocks
    BY <1>1, <1>2, <1>4 DEF Listed, Blocks
  <2>2. \A d : End(d)' = End(d)
    BY <1>4 DEF End
  <2>3. HeapTypeOK'
    BY <1>1, <1>4 DEF HeapInv, HeapTypeOK
  <2>4. HeapTiled'
    BY <1>1, <1>4, <2>1 DEF HeapInv, HeapTiled
  <2>5. OneOwner'
    BY <1>1, <1>2, <1>4, <2>1 DEF HeapInv, OneOwner
  <2>6. Coalesced' /\ TopReleased'
    BY <1>1, <2>1, <2>2 DEF HeapInv, Coalesced, TopReleased
  <2>7. MergedInHand'
    <3>1. End(node) \notin Listed
      BY <1>4, NextPhysComplete
    <3> QED
      BY <1>1, <1>4, <2>1, <3>1 DEF MergedInHand, End
  <2> QED
    BY <2>3, <2>4, <2>5, <2>6, <2>7 DEF HeapInv
<1> QED
  BY <1>3, <1>4 DEF MergeNext

\* The listed block before node absorbs it, or there is none.
LEMMA MergePrevKeepsHeap ==
    ASSUME HeapInv, NEW t \in Thread, MergePrev(t)
    PROVE  HeapInv'
<1>1. /\ locker = t /\ phase = "prev" /\ phase' = "release"
      /\ locker' = locker /\ alloc' = alloc /\ inuse' = inuse
      /\ asked' = asked
      /\ heapStart' = heapStart /\ curBreak' = curBreak /\ sysBreak' = sysBreak
      /\ t # NoThread
  BY AllocatorAssumption DEF MergePrev, memVars
<1>2. /\ InHand = {node} /\ InHand' = {node'}
      /\ node \in Blocks /\ node \in Addr /\ node \notin Listed /\ node \notin alloc
      /\ End(node) \notin Listed
  BY <1>1, HeapFacts DEF InHand, Blocks, HeapInv, OneOwner, MergedInHand
<1>3. CASE \E i \in DOMAIN freeList :
             /\ PrevPhys(i, node)
             /\ size' = [size EXCEPT ![freeList[i]] = @ + Total(size[node])]
             /\ freeList' = RemoveAt(freeList, i)
             /\ node' = freeList[i]
  <2>1. PICK i, c :
          /\ i \in DOMAIN freeList
          /\ c = freeList[i] /\ End(c) = node
          /\ size' = [size EXCEPT ![c] = @ + Total(size[node])]
          /\ freeList' = RemoveAt(freeList, i)
          /\ node' = c
    BY <1>3 DEF PrevPhys
  <2>2. /\ c \in Listed /\ freeList' \in Seq(Addr)
        /\ Listed' = Listed \ {c} /\ IsInjective(freeList')
    BY <2>1, ListRemove DEF Listed
  <2>3. c \in Blocks /\ c \in Addr /\ c \notin alloc /\ c # node
    BY <1>2, <2>2, HeapFacts DEF Blocks, HeapInv, OneOwner
  <2>4. Blocks' = Blocks \ {node}
    BY <1>1, <1>2, <2>1, <2>2, <2>3 DEF Blocks
  <2>5. /\ size' \in [Addr -> Nat]
        /\ size'[c] = size[c] + Total(size[node])
        /\ \A d \in Blocks \ {c} : size'[d] = size[d]
    <3>1. size[c] + Total(size[node]) \in Nat
      BY <1>2, <2>3, HeapFacts DEF Total, HeaderUnits
    <3> QED
      BY <2>1, <2>3, <3>1, HeapFacts
  <2>6. node = c + Total(size[c])
    BY <2>1 DEF End
  <2>7. /\ c + Total(size'[c]) = node + Total(size[node])
        /\ Tiled(Blocks \ {node}, size', heapStart, sysBreak)
    BY <1>2, <2>3, <2>5, <2>6, HeapFacts, TiledMerge
  <2>8. HeapTypeOK'
    BY <1>1, <2>1, <2>2, <2>3, <2>5 DEF HeapInv, HeapTypeOK
  <2>9. HeapTiled'
    BY <1>1, <2>4, <2>7 DEF HeapInv, HeapTiled
  <2>10. OneOwner'
    BY <1>1, <1>2, <2>1, <2>2, <2>3 DEF HeapInv, OneOwner
  <2>11. \A d \in Listed' : d \in Listed /\ End(d)' = End(d)
    BY <2>2, <2>5 DEF End, Blocks
  <2>12. Coalesced' /\ TopReleased'
    BY <1>1, <2>2, <2>11 DEF HeapInv, Coalesced, TopReleased
  <2>13. MergedInHand'
    <3>1. End(c)' \notin Listed'
      BY <1>2, <2>2, <2>7 DEF End
    <3>2. \A d \in Listed' : End(d)' # c
      BY <2>2, <2>11 DEF HeapInv, Coalesced
    <3> QED
      BY <2>1, <3>1, <3>2 DEF MergedInHand, End
  <2> QED
    BY <2>8, <2>9, <2>10, <2>12, <2>13 DEF HeapInv
<1>4. CASE /\ \A i \in DOMAIN freeList : ~ PrevPhys(i, node)
           /\ size' = size /\ freeList' = freeList /\ node' = node
  <2>1. Listed' = Listed /\ Blocks' = Blocks
    BY <1>1, <1>2, <1>4 DEF Listed, Blocks
  <2>2. \A d : End(d)' = End(d)
    BY <1>4 DEF End
  <2>3. HeapTypeOK'
    BY <1>1, <1>4 DEF HeapInv, HeapTypeOK
  <2>4. HeapTiled'
    BY <1>1, <1>4, <2>1 DEF HeapInv, HeapTiled
  <2>5. OneOwner'
    BY <1>1, <1>2, <1>4, <2>1 DEF HeapInv, OneOwner
  <2>6. Coalesced' /\ TopReleased'
    BY <1>1, <2>1, <2>2 DEF HeapInv, Coalesced, TopReleased
  <2>7. MergedInHand'
    <3>1. \A c \in Listed : End(c) # node
      BY <1>4, PrevPhysComplete
    <3> QED
      BY <1>2, <1>4, <2>1, <3>1 DEF MergedInHand, End
  <2> QED
    BY <2>3, <2>4, <2>5, <2>6, <2>7 DEF HeapInv
<1> QED
  BY <1>3, <1>4 DEF MergePrev

\* The release loop gives node back: no listed block ends where node starts,
\* so the loop ends here (allocator.cpp 175-188).
LEMMA ReleaseToMemoryStep ==
    ASSUME HeapInv, NEW t \in Thread, ReleaseToMemory(t)
    PROVE  /\ locker = t /\ locker' = NoThread
           /\ phase = "release" /\ phase' = "idle" /\ node' = 0
           /\ End(node) = sysBreak /\ sysBreak' = node /\ curBreak' = node
           /\ UNCHANGED <<heapStart, size, inuse, freeList, alloc, asked>>
<1>1. /\ locker = t /\ phase = "release"
      /\ node + Total(size[node]) = sysBreak
      /\ sysBreak' = node /\ curBreak' = node
      /\ UNCHANGED <<heapStart, size, inuse, alloc, asked>>
  BY DEF ReleaseToMemory, ReleaseBlock, AtBreak
<1>2. \A c \in Listed : End(c) # node
  BY <1>1 DEF HeapInv, MergedInHand
<1>3. \A i \in DOMAIN freeList : freeList[i] \in Listed
  BY ListRemove
<1>4. ~ \E i \in DOMAIN freeList : PrevPhys(i, node)
  BY <1>2, <1>3 DEF PrevPhys
<1>5. Unlock /\ UNCHANGED freeList
  BY <1>4 DEF ReleaseToMemory
<1> QED
  BY <1>1, <1>5 DEF Unlock, End

\* Giving node back to the provider.
LEMMA ReleaseToMemoryKeepsHeap ==
    ASSUME HeapInv, NEW t \in Thread, ReleaseToMemory(t)
    PROVE  HeapInv'
<1>1. /\ locker = t /\ locker' = NoThread /\ t # NoThread
      /\ phase = "release" /\ phase' = "idle" /\ node' = 0
      /\ sysBreak' = node /\ curBreak' = node
      /\ heapStart' = heapStart /\ size' = size /\ inuse' = inuse
      /\ freeList' = freeList /\ alloc' = alloc /\ asked' = asked
  BY ReleaseToMemoryStep, AllocatorAssumption
<1>2. /\ InHand = {node} /\ InHand' = {} /\ Listed' = Listed
      /\ node \in Blocks /\ node \notin Listed /\ node \notin alloc
  BY <1>1 DEF InHand, Listed, Blocks, HeapInv, OneOwner
<1>3. Blocks' = Blocks \ {node}
  BY <1>1, <1>2 DEF Blocks
<1>4. /\ node \in 0 .. MaxBreak
      /\ Tiled(Blocks \ {node}, size, heapStart, node)
  <2>1. /\ Blocks \in SUBSET Addr /\ size \in [Addr -> Nat]
        /\ heapStart \in Nat /\ sysBreak \in 0 .. MaxBreak
        /\ Tiled(Blocks, size, heapStart, sysBreak)
    BY HeapFacts
  <2>2. node + Total(size[node]) = sysBreak
    BY ReleaseToMemoryStep DEF End
  <2> QED
    BY <1>2, <2>1, <2>2, TiledShrink
<1>5. HeapTypeOK'
  <2>1. 0 \in Addr
    BY MemoryAssumption DEF Addr
  <2> QED
    BY <1>1, <1>4, <2>1 DEF HeapInv, HeapTypeOK
<1>6. HeapTiled'
  BY <1>1, <1>3, <1>4 DEF HeapTiled
<1>7. OneOwner'
  BY <1>1, <1>2 DEF HeapInv, OneOwner
<1>8. \A c : End(c)' = End(c)
  BY <1>1 DEF End
<1>9. Coalesced'
  BY <1>2, <1>8 DEF HeapInv, Coalesced
<1>10. TopReleased'
  <2>1. \A c \in Listed : End(c) # node
    BY <1>1 DEF HeapInv, MergedInHand
  <2> QED
    BY <1>1, <1>2, <1>8, <2>1 DEF TopReleased
<1>11. MergedInHand'
  BY <1>1 DEF MergedInHand
<1> QED
  BY <1>5, <1>6, <1>7, <1>9, <1>10, <1>11 DEF HeapInv

\* The provider does not take node, and it goes to the head of the list.
LEMMA ReleaseToListKeepsHeap ==
    ASSUME HeapInv, NEW t \in Thread, ReleaseToList(t)
    PROVE  HeapInv'
<1>1. /\ locker = t /\ locker' = NoThread /\ t # NoThread
      /\ phase = "release" /\ phase' = "idle" /\ node' = 0
      /\ sysBreak' = sysBreak /\ curBreak' = curBreak
      /\ heapStart' = heapStart /\ size' = size /\ alloc' = alloc
      /\ asked' = asked
      /\ inuse' = [inuse EXCEPT ![node] = FALSE]
      /\ freeList' = Cons(node, freeList)
      /\ ~ BrkMayFail => node + Total(size[node]) # sysBreak
  BY AllocatorAssumption
  DEF ReleaseToList, ReleaseBlockFails, AtBreak, Unlock, memVars
<1>2. /\ InHand = {node} /\ InHand' = {}
      /\ node \in Addr /\ node \notin Listed /\ node \notin alloc
  BY <1>1 DEF InHand, HeapInv, HeapTypeOK, OneOwner
<1>3. /\ Listed' = Listed \union {node} /\ IsInjective(freeList')
      /\ freeList' \in Seq(Addr)
  <2>1. freeList \in Seq(Addr) /\ IsInjective(freeList) /\ node \notin Range(freeList)
    BY <1>2 DEF HeapInv, HeapTypeOK, OneOwner, Listed
  <2>2. /\ Range(Cons(node, freeList)) = Range(freeList) \union {node}
        /\ IsInjective(Cons(node, freeList))
    BY <1>2, <2>1, ConsRange
  <2>3. Cons(node, freeList) \in Seq(Addr)
    BY <1>2, <2>1, ConsFacts
  <2> QED
    BY <1>1, <2>2, <2>3 DEF Listed
<1>4. Blocks' = Blocks
  BY <1>1, <1>2, <1>3 DEF Blocks
<1>5. HeapTypeOK'
  <2>1. 0 \in Addr
    BY MemoryAssumption DEF Addr
  <2> QED
    BY <1>1, <1>2, <1>3, <2>1 DEF HeapInv, HeapTypeOK
<1>6. HeapTiled'
  BY <1>1, <1>4 DEF HeapInv, HeapTiled
<1>7. OneOwner'
  BY <1>1, <1>2, <1>3 DEF HeapInv, OneOwner
<1>8. \A c : End(c)' = End(c)
  BY <1>1 DEF End
<1>9. Coalesced'
  <2>1. End(node) \notin Listed /\ \A c \in Listed : End(c) # node
    BY <1>1 DEF HeapInv, MergedInHand
  <2>2. End(node) # node
    BY <1>2, HeapFacts DEF Blocks
  <2> QED
    BY <1>3, <1>8, <2>1, <2>2 DEF HeapInv, Coalesced
<1>10. TopReleased'
  BY <1>1, <1>3, <1>8 DEF HeapInv, TopReleased, End
<1>11. MergedInHand'
  BY <1>1 DEF MergedInHand
<1> QED
  BY <1>5, <1>6, <1>7, <1>9, <1>10, <1>11 DEF HeapInv

\* Every step of the allocator keeps the heap's shape.
LEMMA StepKeepsHeap ==
    ASSUME HeapInv, [AllocatorNext]_allocatorVars
    PROVE  HeapInv'
<1>1. CASE \E need \in Request : Malloc(need)
  <2>1. PICK need \in Request : Malloc(need)
    BY <1>1
  <2>2. need \in Nat \ {0}
    BY AllocatorAssumption
  <2> QED
    BY <2>1, <2>2, MallocReuseKeepsHeap, MallocExtendKeepsHeap,
       MallocFailsKeepsHeap DEF Malloc
<1>2. CASE \E t \in Thread : \E b \in alloc : FreeBegin(t, b)
  BY <1>2, FreeBeginKeepsHeap
<1>3. CASE \E t \in Thread : FreeStep(t)
  BY <1>3, MergeNextKeepsHeap, MergePrevKeepsHeap, ReleaseToMemoryKeepsHeap,
     ReleaseToListKeepsHeap DEF FreeStep
<1>4. CASE UNCHANGED allocatorVars
  BY <1>4 DEF allocatorVars, heapVars, memVars, HeapInv, HeapTypeOK, HeapTiled,
              Tiled, OneOwner, Coalesced, TopReleased, MergedInHand,
              Blocks, Listed, InHand, End
<1> QED
  BY <1>1, <1>2, <1>3, <1>4 DEF AllocatorNext

\* HeapInv is an invariant of the allocator.
THEOREM HeapInvariant == AllocatorSpec => []HeapInv
<1>1. HeapInv /\ [AllocatorNext]_allocatorVars => HeapInv'
  BY StepKeepsHeap
<1> QED
  BY InitHeap, <1>1, PTL DEF AllocatorSpec

-----------------------------------------------------------------------------
(* What the allocator guarantees.  Everything follows from the invariant   *)
(* HeapInv and, where the inuse flag matters, from FlagInv.                *)

\* The parts of HeapInv, as invariants of the specification: every variable
\* has its type.
THEOREM TypeCorrect == AllocatorSpec => []HeapTypeOK
<1>1. HeapInv => HeapTypeOK
  BY DEF HeapInv
<1> QED
  BY HeapInvariant, <1>1, PTL

\* The blocks tile the heap: no split, merge or release loses a unit or
\* counts one twice.
THEOREM TilesHeap == AllocatorSpec => []HeapTiled
<1>1. HeapInv => HeapTiled
  BY DEF HeapInv
<1> QED
  BY HeapInvariant, <1>1, PTL

\* A block is with its caller, in the list once, or with the thread in free.
THEOREM SingleOwner == AllocatorSpec => []OneOwner
<1>1. HeapInv => OneOwner
  BY DEF HeapInv
<1> QED
  BY HeapInvariant, <1>1, PTL

\* Two free blocks never touch.
THEOREM AlwaysCoalesced == AllocatorSpec => []Coalesced
<1>1. HeapInv => Coalesced
  BY DEF HeapInv
<1> QED
  BY HeapInvariant, <1>1, PTL

\* While brk works, free memory on top of the heap is given back.
THEOREM ReleasesTop == AllocatorSpec => []TopReleased
<1>1. HeapInv => TopReleased
  BY DEF HeapInv
<1> QED
  BY HeapInvariant, <1>1, PTL

-----------------------------------------------------------------------------

\* With every block freed the list is empty: each listed block would end
\* where another listed block starts, or at the break, and neither happens.
LEMMA NothingLeft ==
    ASSUME HeapInv
    PROVE  FullyReclaimed
<1> SUFFICES ASSUME ~ BrkMayFail, locker = NoThread, alloc = {}
             PROVE  sysBreak = heapStart
  BY DEF FullyReclaimed
<1>1. Blocks = Listed
  BY DEF Blocks, InHand
<1>2. Tiled(Listed, size, heapStart, sysBreak)
  BY <1>1, HeapFacts
<1>3. ASSUME NEW b \in Listed
      PROVE  FALSE
  <2>1. End(b) \in Listed \union {sysBreak}
    BY <1>2, <1>3 DEF Tiled, End
  <2>2. End(b) \notin Listed /\ End(b) # sysBreak
    BY <1>3 DEF HeapInv, Coalesced, TopReleased
  <2> QED
    BY <2>1, <2>2
<1> QED
  BY <1>2, <1>3 DEF Tiled

\* When everything was freed, in whatever order, the heap is back to nothing.
THEOREM ReclaimsAll == AllocatorSpec => []FullyReclaimed
BY HeapInvariant, NothingLeft, PTL

\* The break falls only in a step of the release loop, and that step unlocks.
LEMMA BreakFallsOnce ==
    ASSUME HeapInv, [AllocatorNext]_allocatorVars
    PROVE  [sysBreak' < sysBreak => locker' = NoThread]_allocatorVars
<1> SUFFICES ASSUME AllocatorNext, sysBreak' < sysBreak
             PROVE  locker' = NoThread
  OBVIOUS
<1>1. sysBreak \in Nat
  BY HeapFacts, MemoryAssumption
<1>2. sysBreak' # sysBreak
  BY <1>1
<1>3. ASSUME NEW need \in Request, Malloc(need)
      PROVE  FALSE
  <2>1. need \in Nat
    BY AllocatorAssumption
  <2>2. sysBreak' = sysBreak + Total(need)
    BY <1>2, <1>3 DEF Malloc, MallocReuse, MallocExtend, MallocFails,
                      Allocate, AllocateFails, memVars
  <2> QED
    BY <1>1, <2>1, <2>2 DEF Total, HeaderUnits
<1>4. ASSUME NEW t \in Thread,
             (\E b \in alloc : FreeBegin(t, b)) \/ FreeStep(t)
      PROVE  ReleaseToMemory(t)
  BY <1>2, <1>4 DEF FreeBegin, FreeStep, MergeNext, MergePrev,
                    ReleaseToList, ReleaseBlockFails, heapVars, memVars
<1> QED
  BY <1>3, <1>4, ReleaseToMemoryStep DEF AllocatorNext

\* The loop that gives memory back never goes round a second time.
THEOREM ReleasesOnce == AllocatorSpec => ReleaseOnce
<1>1. HeapInv /\ [AllocatorNext]_allocatorVars
        => [sysBreak' < sysBreak => locker' = NoThread]_allocatorVars
  BY BreakFallsOnce
<1> QED
  BY HeapInvariant, <1>1, PTL DEF AllocatorSpec, ReleaseOnce

-----------------------------------------------------------------------------
(* The inuse flag                                                          *)

\* Listed blocks are marked free.
ListedFree == \A b \in Listed : ~ inuse[b]

\* A block that joins the list is marked free, one that leaves it is not looked
\* at again.
LEMMA StepKeepsListed ==
    ASSUME HeapInv, ListedFree, [AllocatorNext]_allocatorVars
    PROVE  ListedFree'
<1> USE DEF ListedFree
<1>1. inuse \in [Addr -> BOOLEAN] /\ Listed \subseteq Addr /\ alloc \subseteq Addr
  BY DEF HeapInv, HeapTypeOK, Listed, Range
<1>2. ASSUME NEW need \in Request, MallocReuse(need)
      PROVE  ListedFree'
  <2>1. PICK i, b, rest :
          /\ i \in DOMAIN freeList
          /\ b = freeList[i] /\ rest = b + Total(need)
          /\ IF Splits(b, need)
               THEN /\ inuse' = [inuse EXCEPT ![rest] = FALSE, ![b] = TRUE]
                    /\ freeList' = Cons(rest, RemoveAt(freeList, i))
               ELSE /\ inuse' = [inuse EXCEPT ![b] = TRUE]
                    /\ freeList' = RemoveAt(freeList, i)
          /\ alloc' = alloc \union {b}
    BY <1>2 DEF MallocReuse
  <2>2. /\ b \in Listed /\ RemoveAt(freeList, i) \in Seq(Addr)
        /\ Range(RemoveAt(freeList, i)) = Listed \ {b}
        /\ IsInjective(RemoveAt(freeList, i))
    BY <2>1, ListRemove
  <2>3. CASE Splits(b, need)
    <3>1. rest \in Addr /\ rest \notin Blocks /\ b # rest
      <4>1. /\ Blocks \in SUBSET Addr /\ size \in [Addr -> Nat]
            /\ heapStart \in Nat /\ sysBreak \in 0 .. MaxBreak
            /\ Tiled(Blocks, size, heapStart, sysBreak)
        BY HeapFacts
      <4>2. b \in Blocks /\ need \in Nat \ {0}
        BY <2>2, AllocatorAssumption DEF Blocks
      <4>3. size[b] >= need + HeaderUnits + 1
        BY <2>3 DEF Splits
      <4> QED
        BY <2>1, <4>1, <4>2, <4>3, CutInside
    <3>2. Listed' = (Listed \ {b}) \union {rest}
      <4>1. rest \notin Range(RemoveAt(freeList, i))
        BY <2>2, <3>1 DEF Blocks
      <4> QED
        BY <2>1, <2>2, <2>3, <3>1, <4>1, ConsRange DEF Listed
    <3> QED
      BY <1>1, <2>1, <2>2, <2>3, <3>1, <3>2
  <2>4. CASE ~ Splits(b, need)
    <3>1. Listed' = Listed \ {b}
      BY <2>1, <2>2, <2>4 DEF Listed
    <3> QED
      BY <1>1, <2>1, <2>2, <2>4, <3>1
  <2> QED
    BY <2>3, <2>4
<1>3. ASSUME NEW need \in Request, MallocExtend(need)
      PROVE  ListedFree'
  <2>1. /\ inuse' = [inuse EXCEPT ![sysBreak] = TRUE]
        /\ alloc' = alloc \union {sysBreak}
        /\ Listed' = Listed
        /\ sysBreak + Total(need) =< MaxBreak
    BY <1>3 DEF MallocExtend, Allocate, Listed
  <2>2. sysBreak \in Addr
    <3>1. sysBreak \in Nat /\ need \in Nat
      BY HeapFacts, MemoryAssumption, AllocatorAssumption
    <3> QED
      BY <2>1, <3>1, MemoryAssumption DEF Addr, Total, HeaderUnits
  <2>3. sysBreak \notin Listed
    <3>1. \A b \in Blocks : b \in Nat /\ b < End(b) /\ End(b) =< sysBreak /\ End(b) \in Nat
      BY HeapFacts DEF Total, HeaderUnits
    <3> QED
      BY <2>2, <3>1 DEF Blocks, Addr
  <2> QED
    BY <1>1, <2>1, <2>2, <2>3
<1>4. ASSUME NEW t \in Thread, MergeNext(t) \/ MergePrev(t)
      PROVE  ListedFree'
  <2>1. inuse' = inuse /\ alloc' = alloc
    BY <1>4 DEF MergeNext, MergePrev
  <2>2. \/ freeList' = freeList
        \/ \E i \in DOMAIN freeList : freeList' = RemoveAt(freeList, i)
    BY <1>4 DEF MergeNext, MergePrev
  <2>3. Listed' \subseteq Listed
    BY <2>2, ListRemove DEF Listed
  <2> QED
    BY <2>1, <2>3
<1>5. ASSUME NEW t \in Thread, ReleaseToList(t)
      PROVE  ListedFree'
  <2>1. /\ inuse' = [inuse EXCEPT ![node] = FALSE]
        /\ freeList' = Cons(node, freeList) /\ alloc' = alloc
        /\ locker # NoThread
    BY <1>5, AllocatorAssumption DEF ReleaseToList
  <2>2. node \in Addr /\ node \notin alloc /\ node \notin Listed
    BY <2>1 DEF HeapInv, HeapTypeOK, OneOwner, InHand
  <2>3. freeList \in Seq(Addr) /\ IsInjective(freeList)
    BY DEF HeapInv, HeapTypeOK, OneOwner
  <2>4. Listed' = Listed \union {node}
    BY <2>1, <2>2, <2>3, ConsRange DEF Listed
  <2> QED
    BY <1>1, <2>1, <2>2, <2>4
<1>6. ASSUME NEW t \in Thread, ReleaseToMemory(t)
      PROVE  ListedFree'
  BY <1>6, ReleaseToMemoryStep DEF Listed
<1>7. ASSUME NEW t \in Thread, NEW b \in alloc, FreeBegin(t, b)
      PROVE  ListedFree'
  BY <1>7 DEF FreeBegin, heapVars, Listed
<1>8. ASSUME NEW need \in Request, MallocFails(need)
      PROVE  ListedFree'
  BY <1>8 DEF MallocFails, Listed
<1>9. CASE UNCHANGED allocatorVars
  BY <1>9 DEF allocatorVars, heapVars, Listed
<1> QED
  BY <1>2, <1>3, <1>4, <1>5, <1>6, <1>7, <1>8, <1>9
     DEF AllocatorNext, Malloc, FreeStep

-----------------------------------------------------------------------------
(* Blocks that are handed out                                              *)

\* An address lies in one block at most.
LEMMA InsideOne ==
    ASSUME HeapInv, NEW b \in Blocks, NEW d \in Blocks, b # d,
           NEW a \in Addr, Inside(a, b)
    PROVE  ~ Inside(a, d)
<1>1. /\ b \in Nat /\ d \in Nat /\ a \in Nat
      /\ End(b) \in Nat /\ End(d) \in Nat
  BY HeapFacts DEF Addr, Total, HeaderUnits
<1>2. /\ b < d => End(b) =< d
      /\ d < b => End(d) =< b
  BY HeapFacts DEF Tiled, End
<1> QED
  BY <1>1, <1>2 DEF Inside

\* A block's header lies in the block.
LEMMA OwnHeader ==
    ASSUME HeapInv, NEW b \in Blocks
    PROVE  b \in Addr /\ Inside(b, b)
<1>1. b \in Addr /\ b \in Nat /\ b < End(b) /\ End(b) \in Nat
  BY HeapFacts DEF Total, HeaderUnits
<1> QED
  BY <1>1 DEF Inside

\* What reuse writes lies in the listed block it hands out, and the user area
\* is the request or one unit more (allocator.cpp 60-72).
LEMMA ReuseWrites ==
    ASSUME HeapInv, NEW need \in Request, MallocReuse(need)
    PROVE  \E b \in Listed :
             /\ alloc' = alloc \union {b}
             /\ asked' = [asked EXCEPT ![b] = need]
             /\ UNCHANGED memVars
             /\ \A a \in Addr : size'[a] # size[a] \/ inuse'[a] # inuse[a]
                                  => Inside(a, b)
             /\ size[b] >= need
             /\ size'[b] \in need .. need + 1
<1>1. PICK i, b, rest :
        /\ i \in DOMAIN freeList
        /\ b = freeList[i] /\ rest = b + Total(need)
        /\ Found(i, need)
        /\ IF Splits(b, need)
             THEN /\ size' = [size EXCEPT ![rest] = size[b] - Total(need), ![b] = need]
                  /\ inuse' = [inuse EXCEPT ![rest] = FALSE, ![b] = TRUE]
             ELSE /\ inuse' = [inuse EXCEPT ![b] = TRUE]
                  /\ size' = size
        /\ alloc' = alloc \union {b}
        /\ asked' = [asked EXCEPT ![b] = need]
        /\ UNCHANGED memVars
  BY DEF MallocReuse
<1>2. b \in Listed /\ b \in Blocks
  BY <1>1, ListRemove DEF Blocks
<1>3. size[b] >= need
  BY <1>1, AllocatorAssumption DEF Found, FirstFit, BestFit, Fits
<1>4. /\ b \in Addr /\ b \in Nat /\ size[b] \in Nat /\ need \in Nat \ {0}
      /\ End(b) = b + Total(size[b]) /\ Inside(b, b)
      /\ size \in [Addr -> Nat] /\ inuse \in [Addr -> BOOLEAN]
  BY <1>2, OwnHeader, HeapFacts, AllocatorAssumption DEF HeapInv, HeapTypeOK
<1>5. CASE Splits(b, need)
  <2>1. size[b] >= need + 2
    BY <1>4, <1>5 DEF Splits, HeaderUnits
  <2>2. rest \in Nat /\ rest # b /\ Inside(rest, b)
    BY <1>1, <1>4, <2>1 DEF Inside, Total, HeaderUnits
  <2>3. \A a \in Addr \ {b, rest} : size'[a] = size[a] /\ inuse'[a] = inuse[a]
    BY <1>1, <1>4, <1>5
  <2>4. size'[b] = need
    BY <1>1, <1>4, <1>5
  <2>5. \A a \in Addr : size'[a] # size[a] \/ inuse'[a] # inuse[a] => Inside(a, b)
    BY <1>4, <2>2, <2>3
  <2>6. size'[b] \in need .. need + 1
    BY <1>4, <2>4
  <2> QED
    BY <1>1, <1>2, <1>3, <2>5, <2>6
<1>6. CASE ~ Splits(b, need)
  <2>1. \A a \in Addr \ {b} : size'[a] = size[a] /\ inuse'[a] = inuse[a]
    BY <1>1, <1>4, <1>6
  <2>2. size'[b] \in need .. need + 1
    BY <1>1, <1>3, <1>4, <1>6 DEF Splits, HeaderUnits
  <2> QED
    BY <1>1, <1>2, <1>3, <1>4, <2>1, <2>2
<1> QED
  BY <1>5, <1>6

\* Where growing the heap writes a header: at the break, behind every block.
LEMMA ExtendWrites ==
    ASSUME HeapInv, NEW need \in Request, MallocExtend(need)
    PROVE  /\ alloc' = alloc \union {sysBreak}
           /\ asked' = [asked EXCEPT ![sysBreak] = need]
           /\ \A b \in Blocks : End(b) =< sysBreak /\ ~ Inside(sysBreak, b)
           /\ \A a \in Addr \ {sysBreak} : size'[a] = size[a] /\ inuse'[a] = inuse[a]
           /\ sysBreak \in Addr /\ size'[sysBreak] = need
<1>1. /\ size' = [size EXCEPT ![sysBreak] = need]
      /\ inuse' = [inuse EXCEPT ![sysBreak] = TRUE]
      /\ alloc' = alloc \union {sysBreak}
      /\ asked' = [asked EXCEPT ![sysBreak] = need]
      /\ sysBreak + Total(need) =< MaxBreak
  BY DEF MallocExtend, Allocate
<1>2. sysBreak \in Nat /\ need \in Nat
  BY HeapFacts, MemoryAssumption, AllocatorAssumption
<1>3. sysBreak \in Addr
  BY <1>1, <1>2, MemoryAssumption DEF Addr, Total, HeaderUnits
<1>4. \A b \in Blocks : End(b) \in Nat /\ End(b) =< sysBreak
  BY HeapFacts DEF Total, HeaderUnits
<1>5. \A b \in Blocks : ~ Inside(sysBreak, b)
  BY <1>2, <1>4 DEF Inside
<1>6. size \in [Addr -> Nat] /\ inuse \in [Addr -> BOOLEAN]
  BY DEF HeapInv, HeapTypeOK
<1> QED
  BY <1>1, <1>3, <1>4, <1>5, <1>6

\* Where free writes a header: at its own block or at one it took off the list.
LEMMA FreeWrites ==
    ASSUME HeapInv, NEW t \in Thread, FreeStep(t)
    PROVE  /\ alloc' = alloc /\ asked' = asked
           /\ \E b \in Blocks \ alloc :
                \A a \in Addr \ {b} : size'[a] = size[a] /\ inuse'[a] = inuse[a]
<1>1. node \in Blocks \ alloc
  <2>1. locker = t /\ locker # NoThread
    BY AllocatorAssumption
       DEF FreeStep, MergeNext, MergePrev, ReleaseToMemory, ReleaseToList
  <2> QED
    BY <2>1 DEF Blocks, InHand, HeapInv, OneOwner
<1>2. size \in [Addr -> Nat] /\ inuse \in [Addr -> BOOLEAN]
  BY DEF HeapInv, HeapTypeOK
<1>3. \A i \in DOMAIN freeList : freeList[i] \in Blocks \ alloc
  BY ListRemove DEF Blocks, HeapInv, OneOwner
<1>4. CASE MergeNext(t)
  <2>1. \A a \in Addr \ {node} : size'[a] = size[a]
    BY <1>2, <1>4 DEF MergeNext
  <2> QED
    BY <1>1, <1>4, <2>1 DEF MergeNext
<1>5. CASE MergePrev(t)
  <2>1. \/ size' = size
        \/ \E i \in DOMAIN freeList :
             size' = [size EXCEPT ![freeList[i]] = @ + Total(size[node])]
    BY <1>5 DEF MergePrev
  <2>2. \E b \in Blocks \ alloc : \A a \in Addr \ {b} : size'[a] = size[a]
    BY <1>1, <1>2, <1>3, <2>1
  <2> QED
    BY <1>5, <2>2 DEF MergePrev
<1>6. CASE ReleaseToMemory(t)
  BY <1>1, <1>6 DEF ReleaseToMemory
<1>7. CASE ReleaseToList(t)
  BY <1>1, <1>2, <1>7 DEF ReleaseToList
<1> QED
  BY <1>4, <1>5, <1>6, <1>7 DEF FreeStep

\* No step writes a header inside a block that stays with its caller.
LEMMA StepLeavesHandedOut ==
    ASSUME HeapInv, AllocatorNext,
           NEW a \in Addr, size'[a] # size[a] \/ inuse'[a] # inuse[a],
           NEW d \in alloc \intersect alloc'
    PROVE  ~ Inside(a, d)
<1>1. d \in Blocks /\ d \notin Listed
  BY DEF Blocks, HeapInv, OneOwner
<1>2. ASSUME NEW need \in Request, MallocReuse(need)
      PROVE  ~ Inside(a, d)
  <2>1. PICK b \in Listed : Inside(a, b)
    BY <1>2, ReuseWrites
  <2> QED
    BY <1>1, <2>1, InsideOne DEF Blocks
<1>3. ASSUME NEW need \in Request, MallocExtend(need)
      PROVE  ~ Inside(a, d)
  BY <1>1, <1>3, ExtendWrites
<1>4. ASSUME NEW t \in Thread, FreeStep(t)
      PROVE  ~ Inside(a, d)
  <2>1. a \in Blocks \ alloc
    BY <1>4, FreeWrites
  <2> QED
    BY <1>1, <2>1, OwnHeader, InsideOne
<1> QED
  BY <1>2, <1>3, <1>4 DEF AllocatorNext, Malloc, MallocFails, FreeBegin, heapVars

\* A step leaves the header of a block that stays handed out as it is.
LEMMA HandedOutKept ==
    ASSUME HeapInv, [AllocatorNext]_allocatorVars, NEW d \in alloc \intersect alloc'
    PROVE  size'[d] = size[d] /\ inuse'[d] = inuse[d]
<1>1. d \in Addr /\ Inside(d, d)
  BY OwnHeader DEF Blocks
<1>2. CASE AllocatorNext
  BY <1>1, <1>2, StepLeavesHandedOut
<1> QED
  BY <1>2 DEF allocatorVars, heapVars

\* A block that a step hands out is marked in use.
LEMMA HandedOutMarked ==
    ASSUME HeapInv, [AllocatorNext]_allocatorVars, NEW d \in alloc' \ alloc
    PROVE  inuse'[d]
<1>1. inuse \in [Addr -> BOOLEAN] /\ Listed \subseteq Addr
  BY DEF HeapInv, HeapTypeOK, Listed, Range
<1>2. ASSUME NEW need \in Request, MallocReuse(need)
      PROVE  inuse'[d]
  <2>1. PICK i \in DOMAIN freeList :
          /\ \/ \E rest : inuse' = [inuse EXCEPT ![rest] = FALSE, ![freeList[i]] = TRUE]
             \/ inuse' = [inuse EXCEPT ![freeList[i]] = TRUE]
          /\ alloc' = alloc \union {freeList[i]}
    BY <1>2 DEF MallocReuse
  <2>2. d = freeList[i] /\ d \in Addr
    BY <1>1, <2>1, ListRemove
  <2> QED
    BY <1>1, <2>1, <2>2
<1>3. ASSUME NEW need \in Request, MallocExtend(need)
      PROVE  inuse'[d]
  <2>1. d = sysBreak /\ d \in Addr /\ inuse' = [inuse EXCEPT ![sysBreak] = TRUE]
    BY <1>3, ExtendWrites DEF MallocExtend
  <2> QED
    BY <1>1, <2>1
<1>4. ASSUME NEW t \in Thread, FreeStep(t)
      PROVE  FALSE
  BY <1>4, FreeWrites
<1> QED
  BY <1>2, <1>3, <1>4 DEF AllocatorNext, Malloc, MallocFails, FreeBegin, allocatorVars

\* Handed out blocks are marked in use, listed ones are not.
FlagInv == (\A b \in alloc : inuse[b]) /\ ListedFree

\* Only malloc and the end of free write flags, each for the block that
\* changes hands.
LEMMA StepKeepsFlags ==
    ASSUME HeapInv, FlagInv, [AllocatorNext]_allocatorVars
    PROVE  FlagInv'
<1>1. ListedFree'
  BY StepKeepsListed DEF FlagInv
<1>2. ASSUME NEW b \in alloc'
      PROVE  inuse'[b]
  BY HandedOutKept, HandedOutMarked DEF FlagInv
<1> QED
  BY <1>1, <1>2 DEF FlagInv

\* free accepts every block its caller was handed, and no listed one.
THEOREM FlagsTellOwner == AllocatorSpec => []FlagTellsOwner
<1>1. AllocatorInit => FlagInv
  BY DEF AllocatorInit, FlagInv, ListedFree, Listed, Range
<1>2. HeapInv /\ FlagInv /\ [AllocatorNext]_allocatorVars => FlagInv'
  BY StepKeepsFlags
<1>3. HeapInv /\ FlagInv => FlagTellsOwner
  <2> SUFFICES ASSUME HeapInv, FlagInv
               PROVE  FlagTellsOwner
    OBVIOUS
  <2>1. \A b \in Blocks : OwnsAddress(b)
    <3>1. \A b \in Blocks : heapStart =< b /\ b < End(b) /\ End(b) =< sysBreak
                            /\ b \in Nat /\ End(b) \in Nat
      BY HeapFacts DEF Total, HeaderUnits
    <3>2. curBreak = sysBreak /\ sysBreak \in Nat
      BY HeapFacts, MemoryAssumption
    <3> QED
      BY <3>1, <3>2 DEF OwnsAddress
  <2> QED
    BY <2>1 DEF FlagInv, ListedFree, FlagTellsOwner, Accepts, Blocks
<1> QED
  BY HeapInvariant, <1>1, <1>2, <1>3, PTL DEF AllocatorSpec

\* Nobody writes a header inside a block while it is handed out.
THEOREM LeavesHandedOut == AllocatorSpec => HandedOutUntouched
<1>1. HeapInv /\ [AllocatorNext]_allocatorVars
        => [\A a \in Addr : size'[a] # size[a] \/ inuse'[a] # inuse[a] =>
              \A b \in alloc \intersect alloc' : ~ Inside(a, b)]_allocatorVars
  BY StepLeavesHandedOut
<1> QED
  BY HeapInvariant, <1>1, PTL DEF AllocatorSpec, HandedOutUntouched

-----------------------------------------------------------------------------
(* The allocator implements the contract                                   *)

\* The user areas of two blocks of a tiled heap do not overlap.
LEMMA AreasDisjoint ==
    ASSUME NEW B \in SUBSET Addr, NEW s \in [Addr -> Nat], NEW lo, NEW hi,
           Tiled(B, s, lo, hi), NEW b \in B, NEW d \in B, b # d, NEW n
    PROVE  AllocatorContract!Disjoint(AreaOf(b, s, n), AreaOf(d, s, n))
<1>1. /\ b \in Nat /\ d \in Nat /\ s[b] \in Nat /\ s[d] \in Nat
  BY DEF Addr
<1>2. /\ b < d => b + 1 + s[b] =< d
      /\ d < b => d + 1 + s[d] =< b
  BY <1>1 DEF Tiled, Total, HeaderUnits
<1> QED
  BY <1>1, <1>2 DEF AllocatorContract!Disjoint, AreaOf, HeaderUnits

\* malloc that hands out block b, and leaves the other blocks' sizes alone, is
\* a step of the contract.
LEMMA HandingOut ==
    ASSUME HeapInv, HeapInv', NEW need \in Request,
           NEW b \in Addr, b \notin alloc, alloc' = alloc \union {b},
           asked' = [asked EXCEPT ![b] = need],
           size'[b] \in need .. need + 1,
           \A d \in alloc : size'[d] = size[d]
    PROVE  AllocatorContract!Next
<1> DEFINE area == AreaOf(b, size', asked')
<1>1. /\ Blocks' \in SUBSET Addr /\ size' \in [Addr -> Nat]
      /\ sysBreak' \in 0 .. MaxBreak
      /\ Tiled(Blocks', size', heapStart', sysBreak')
      /\ alloc' \subseteq Blocks'
  <2>1. freeList' \in Seq(Addr)
    BY DEF HeapInv, HeapTypeOK
  <2>2. Listed' \subseteq Addr
    BY <2>1 DEF Listed, Range
  <2> QED
    BY <2>2 DEF HeapInv, HeapTypeOK, HeapTiled, Blocks, InHand
<1>2. b + 1 \in Addr
  <2>1. b + Total(size'[b]) =< sysBreak' /\ size'[b] >= 1
    BY <1>1 DEF Tiled
  <2>2. size'[b] \in Nat /\ sysBreak' \in Nat /\ sysBreak' =< MaxBreak
    BY <1>1, MemoryAssumption
  <2> QED
    BY <2>1, <2>2, MemoryAssumption DEF Total, HeaderUnits, Addr
<1>3. /\ \A d \in alloc : AreaOf(d, size, asked) = AreaOf(d, size', asked')
      /\ asked'[b] = need
  BY DEF AreaOf, HeapInv, HeapTypeOK
<1>4. \A x \in Areas : AllocatorContract!Disjoint(x, area)
  <2>1. \A d \in alloc : AllocatorContract!Disjoint(AreaOf(d, size', asked'), area)
    BY <1>1, AreasDisjoint
  <2> QED
    BY <1>3, <2>1 DEF Areas
<1>5. Areas' = Areas \union {area}
  BY <1>3 DEF Areas, AreaOf
<1>6. area = AllocatorContract!Area(b + 1, size'[b], need)
  BY <1>3 DEF AreaOf, HeaderUnits, AllocatorContract!Area
<1> HIDE DEF area
<1>7. AllocatorContract!Malloc(need)
  BY <1>2, <1>4, <1>5, <1>6 DEF AllocatorContract!Malloc
<1> QED
  BY <1>7 DEF AllocatorContract!Next

\* free gives up exactly the area of the block it was passed.
LEMMA GivingUp ==
    ASSUME HeapInv, NEW b \in alloc, alloc' = alloc \ {b}, size' = size,
           asked' = [asked EXCEPT ![b] = 0]
    PROVE  AllocatorContract!Next
<1>1. alloc \subseteq Nat
  BY DEF HeapInv, HeapTypeOK, Addr
<1>2. \A d \in alloc : AreaOf(d, size, asked) = AreaOf(b, size, asked) => d = b
  BY <1>1 DEF AreaOf, HeaderUnits
<1>3. \A d \in alloc \ {b} : AreaOf(d, size', asked') = AreaOf(d, size, asked)
  BY DEF AreaOf, HeapInv, HeapTypeOK
<1>4. Areas' = Areas \ {AreaOf(b, size, asked)} /\ AreaOf(b, size, asked) \in Areas
  <2>1. AreaOf(b, size, asked) \in Areas
    BY DEF Areas
  <2>2. Areas' = {AreaOf(d, size, asked) : d \in alloc \ {b}}
    BY <1>3 DEF Areas
  <2>3. {AreaOf(d, size, asked) : d \in alloc \ {b}} = Areas \ {AreaOf(b, size, asked)}
    BY <1>2 DEF Areas
  <2> QED
    BY <2>1, <2>2, <2>3
<1>5. AllocatorContract!Free(AreaOf(b, size, asked))
  BY <1>4 DEF AllocatorContract!Free
<1> QED
  BY <1>4, <1>5 DEF AllocatorContract!Next

\* A step that hands out nothing and resizes nothing handed out is a stutter.
LEMMA Unseen ==
    ASSUME alloc' = alloc, asked' = asked, \A d \in alloc : size'[d] = size[d]
    PROVE  UNCHANGED Areas
  BY DEF Areas, AreaOf

\* Each step of the allocator is a step of the contract or a stutter.
LEMMA StepKeepsContract ==
    ASSUME HeapInv, HeapInv', [AllocatorNext]_allocatorVars
    PROVE  AllocatorContract!Next
             \/ UNCHANGED Areas
<1>1. /\ alloc \subseteq Addr /\ alloc \subseteq Blocks
      /\ alloc \intersect Listed = {}
  BY DEF HeapInv, HeapTypeOK, OneOwner, Blocks
<1>2. ASSUME NEW need \in Request, MallocReuse(need)
      PROVE  AllocatorContract!Next
  <2>1. PICK b \in Listed :
          /\ alloc' = alloc \union {b}
          /\ asked' = [asked EXCEPT ![b] = need]
          /\ \A a \in Addr : size'[a] # size[a] \/ inuse'[a] # inuse[a]
                               => Inside(a, b)
          /\ size'[b] \in need .. need + 1
    BY <1>2, ReuseWrites
  <2>2. b \in Blocks /\ b \in Addr /\ b \notin alloc
    BY <1>1, OwnHeader DEF Blocks
  <2>3. ASSUME NEW d \in alloc
        PROVE  size'[d] = size[d]
    BY <1>1, <2>1, <2>2, OwnHeader, InsideOne
  <2> QED
    BY <2>1, <2>2, <2>3, HandingOut
<1>3. ASSUME NEW need \in Request, MallocExtend(need)
      PROVE  AllocatorContract!Next
  <2>1. /\ alloc' = alloc \union {sysBreak}
        /\ asked' = [asked EXCEPT ![sysBreak] = need]
        /\ sysBreak \in Addr /\ size'[sysBreak] = need
        /\ \A a \in Addr \ {sysBreak} : size'[a] = size[a]
        /\ \A b \in Blocks : ~ Inside(sysBreak, b)
    BY <1>3, ExtendWrites
  <2>2. sysBreak \notin alloc
    BY <1>1, <2>1, OwnHeader
  <2>3. size'[sysBreak] \in need .. need + 1
    BY <2>1, AllocatorAssumption
  <2>4. \A d \in alloc : size'[d] = size[d]
    BY <1>1, <2>1, <2>2
  <2> QED
    BY <2>1, <2>2, <2>3, <2>4, HandingOut
<1>4. ASSUME NEW t \in Thread, FreeStep(t)
      PROVE  UNCHANGED Areas
  <2>1. alloc' = alloc /\ asked' = asked /\ \A d \in alloc : size'[d] = size[d]
    BY <1>1, <1>4, FreeWrites
  <2> QED
    BY <2>1, Unseen
<1>5. ASSUME NEW t \in Thread, NEW b \in alloc, FreeBegin(t, b)
      PROVE  AllocatorContract!Next
  <2>1. /\ alloc' = alloc \ {b} /\ size' = size
        /\ asked' = [asked EXCEPT ![b] = 0]
    BY <1>5 DEF FreeBegin, heapVars
  <2> QED
    BY <2>1, GivingUp
<1>6. ASSUME (\E need \in Request : MallocFails(need)) \/ UNCHANGED allocatorVars
      PROVE  UNCHANGED Areas
  <2>1. alloc' = alloc /\ asked' = asked /\ size' = size
    BY <1>6 DEF MallocFails, allocatorVars, heapVars
  <2> QED
    BY <2>1, Unseen
<1> QED
  BY <1>2, <1>3, <1>4, <1>5, <1>6 DEF AllocatorNext, Malloc

\* malloc and free keep their promise to callers: areas that never overlap,
\* of the size asked for or one unit more, that stay put until they are freed.
THEOREM ImplementsContract == AllocatorSpec => AllocatorKeepsContract
<1>1. AllocatorInit => AllocatorContract!Init
  BY DEF AllocatorInit, AllocatorContract!Init, Areas
<1>2. HeapInv /\ HeapInv' /\ [AllocatorNext]_allocatorVars
        => AllocatorContract!Next
             \/ UNCHANGED Areas
  BY StepKeepsContract
<1>3. HeapInv /\ HeapInv' /\ [AllocatorNext]_allocatorVars
        => [AllocatorContract!Next]_Areas
  BY <1>2
<1> QED
  BY HeapInvariant, <1>1, <1>3, PTL
     DEF AllocatorSpec, AllocatorKeepsContract, AllocatorContract!Spec

-----------------------------------------------------------------------------
(* An allocator beside others                                              *)

\* What holds of one allocator when other blocks, O, are in the same memory:
\* all blocks together tile it, and the cached break is above its own ones.
Beside(O) ==
    /\ HeapTypeOK
    /\ O \in SUBSET Addr /\ O \intersect Blocks = {}
    /\ Tiled(Blocks \union O, size, 0, sysBreak)
    /\ OneOwner
    /\ \A b \in Blocks : End(b) =< curBreak
    /\ \A b \in alloc : inuse[b]

\* No header inside a block of B changes.
Spares(B) ==
    \A a \in Addr : size'[a] # size[a] \/ inuse'[a] # inuse[a] =>
       \A d \in B : ~ Inside(a, d)

\* What Beside says about the two sets of blocks and the heap they tile.
LEMMA BesideFacts ==
    ASSUME NEW O, Beside(O)
    PROVE  /\ Blocks \in SUBSET Addr /\ Blocks \union O \in SUBSET Addr
           /\ size \in [Addr -> Nat] /\ inuse \in [Addr -> BOOLEAN]
           /\ sysBreak \in 0 .. MaxBreak /\ sysBreak \in Nat /\ curBreak \in Nat
           /\ freeList \in Seq(Addr) /\ IsInjective(freeList)
           /\ Tiled(Blocks \union O, size, 0, sysBreak)
<1>1. /\ size \in [Addr -> Nat] /\ inuse \in [Addr -> BOOLEAN]
      /\ sysBreak \in 0 .. MaxBreak /\ curBreak \in 0 .. MaxBreak
      /\ freeList \in Seq(Addr) /\ IsInjective(freeList)
      /\ Tiled(Blocks \union O, size, 0, sysBreak)
  BY DEF Beside, HeapTypeOK, OneOwner
<1>2. Blocks \in SUBSET Addr /\ Blocks \union O \in SUBSET Addr
  <2>1. Listed \subseteq Addr
    BY <1>1 DEF Listed, Range
  <2> QED
    BY <2>1 DEF Beside, HeapTypeOK, Blocks, InHand
<1> QED
  BY <1>1, <1>2, MemoryAssumption

\* The same after a step.
LEMMA BesideNext ==
    ASSUME NEW O, Beside(O)'
    PROVE  /\ Blocks' \in SUBSET Addr
           /\ size' \in [Addr -> Nat] /\ inuse' \in [Addr -> BOOLEAN]
           /\ sysBreak' \in 0 .. MaxBreak
           /\ O \intersect Blocks' = {}
           /\ Tiled(Blocks' \union O, size', 0, sysBreak')
<1>1. /\ size' \in [Addr -> Nat] /\ inuse' \in [Addr -> BOOLEAN]
      /\ sysBreak' \in 0 .. MaxBreak /\ O \intersect Blocks' = {}
      /\ Tiled(Blocks' \union O, size', 0, sysBreak')
  BY DEF Beside, HeapTypeOK
<1>2. Blocks' \in SUBSET Addr
  <2>1. freeList' \in Seq(Addr)
    BY DEF Beside, HeapTypeOK
  <2>2. Listed' \subseteq Addr
    BY <2>1 DEF Listed, Range
  <2> QED
    BY <2>2 DEF Beside, HeapTypeOK, Blocks, InHand
<1> QED
  BY <1>1, <1>2

\* Where a block is, its own or not.
LEMMA BesideBlock ==
    ASSUME NEW O, Beside(O), NEW b \in Blocks \union O
    PROVE  /\ b \in Addr /\ b \in Nat /\ size[b] \in Nat
           /\ End(b) \in Nat /\ b < End(b) /\ End(b) =< sysBreak
           /\ End(b) = b + Total(size[b]) /\ Inside(b, b)
           /\ b # sysBreak /\ ~ Inside(sysBreak, b)
           /\ \A d \in Blocks \union O : b < d => End(b) =< d
<1>1. b \in Addr /\ b \in Nat /\ size[b] \in Nat /\ sysBreak \in Nat
  <2>1. b \in Addr /\ size \in [Addr -> Nat] /\ sysBreak \in Nat
    BY BesideFacts
  <2> QED
    BY <2>1 DEF Addr
<1>2. b + Total(size[b]) =< sysBreak
  BY BesideFacts DEF Tiled
<1>3. \A d \in Blocks \union O : b < d => End(b) =< d
  BY BesideFacts DEF Tiled, End
<1>4. b + 1 + size[b] =< sysBreak /\ End(b) = b + 1 + size[b]
      /\ End(b) = b + Total(size[b])
  BY <1>1, <1>2 DEF End, Total, HeaderUnits
<1> QED
  BY <1>1, <1>3, <1>4 DEF Inside

\* What lies inside one block lies inside no other.
LEMMA BesideInsideOne ==
    ASSUME NEW O, Beside(O), NEW b \in Blocks \union O, NEW d \in Blocks \union O,
           b # d, NEW a \in Addr, Inside(a, b)
    PROVE  ~ Inside(a, d)
<1>1. b \in Nat /\ d \in Nat /\ a \in Nat /\ End(b) \in Nat /\ End(d) \in Nat
  BY BesideBlock DEF Addr
<1>2. (b < d => End(b) =< d) /\ (d < b => End(d) =< b)
  BY BesideBlock
<1> QED
  BY <1>1, <1>2 DEF Inside

\* A step that writes inside one block that is not handed out spares the rest.
LEMMA WritesInside ==
    ASSUME NEW O, Beside(O), NEW b \in Blocks \ alloc,
           \A a \in Addr : size'[a] # size[a] \/ inuse'[a] # inuse[a] => Inside(a, b)
    PROVE  Spares(alloc \union O)
<1> SUFFICES ASSUME NEW a \in Addr, size'[a] # size[a] \/ inuse'[a] # inuse[a],
                    NEW d \in alloc \union O
             PROVE  ~ Inside(a, d)
  BY DEF Spares
<1>1. b # d /\ d \in Blocks \union O /\ Inside(a, b)
  BY DEF Beside, Blocks
<1> QED
  BY <1>1, BesideInsideOne

\* Block b takes over the block c right behind it.
Absorbs(b, c) ==
    /\ b \in Blocks \ alloc /\ c \in Blocks \ alloc
    /\ c = End(b)
    /\ size' = [size EXCEPT ![b] = @ + Total(size[c])]
    /\ UNCHANGED <<inuse, sysBreak, curBreak, alloc>>

\* When b grows over its free neighbour c, one block stands where two did and
\* nothing of the other blocks is written.
LEMMA AbsorbsBeside ==
    ASSUME NEW O, Beside(O), NEW b, NEW c, Absorbs(b, c)
    PROVE  /\ size' \in [Addr -> Nat] /\ Spares(alloc \union O)
           /\ HeapTypeOK' /\ OneOwner' /\ Blocks' = Blocks \ {c} => Beside(O)'
<1>1. PICK B : B = Blocks \union O
  OBVIOUS
<1>2. /\ b \in Blocks \ alloc /\ c \in Blocks \ alloc
      /\ c = b + Total(size[b])
      /\ size' = [size EXCEPT ![b] = size[b] + Total(size[c])]
      /\ inuse' = inuse /\ sysBreak' = sysBreak /\ curBreak' = curBreak
      /\ alloc' = alloc
  BY DEF Absorbs, End
<1>3. /\ B \in SUBSET Addr /\ size \in [Addr -> Nat]
      /\ 0 \in Nat /\ sysBreak \in 0 .. MaxBreak
      /\ Tiled(B, size, 0, sysBreak) /\ b \in B /\ c \in B
      /\ b \in Addr /\ size[b] \in Nat /\ size[c] \in Nat
  BY <1>1, <1>2, BesideFacts, BesideBlock
<1>4. /\ size' \in [Addr -> Nat] /\ size'[b] = size[b] + Total(size[c])
      /\ \A a \in Addr \ {b} : size'[a] = size[a]
  <2>1. size[b] + Total(size[c]) \in Nat
    BY <1>3 DEF Total, HeaderUnits
  <2> QED
    BY <1>2, <1>3, <2>1
<1>5. /\ b + Total(size'[b]) = c + Total(size[c])
      /\ Tiled(B \ {c}, size', 0, sysBreak)
  <2>1. \A d \in B \ {b} : size'[d] = size[d]
    BY <1>3, <1>4
  <2>2. PICK s2 : s2 = size'
    OBVIOUS
  <2>3. /\ s2 \in [Addr -> Nat] /\ s2[b] = size[b] + Total(size[c])
        /\ \A d \in B \ {b} : s2[d] = size[d]
    BY <1>4, <2>1, <2>2
  <2>4. b \in B /\ c \in B /\ c = b + Total(size[b])
    BY <1>2, <1>3
  <2>5. /\ b + Total(s2[b]) = c + Total(size[c])
        /\ Tiled(B \ {c}, s2, 0, sysBreak)
    BY <1>3, <2>3, <2>4, TiledMerge
  <2> QED
    BY <2>2, <2>5
<1>6. Spares(alloc \union O)
  <2>1. Inside(b, b)
    BY <1>1, <1>3, BesideBlock
  <2>2. \A a \in Addr : size'[a] # size[a] \/ inuse'[a] # inuse[a] => Inside(a, b)
    BY <1>2, <1>4, <2>1
  <2> QED
    BY <1>2, <2>2, WritesInside
<1>7. ASSUME HeapTypeOK', OneOwner', Blocks' = Blocks \ {c}
      PROVE  Beside(O)'
  <2>1. Blocks' \union O = B \ {c}
    BY <1>1, <1>2, <1>7 DEF Beside
  <2>2. Tiled(Blocks' \union O, size', 0, sysBreak')
    BY <1>2, <1>5, <2>1
  <2>3. \A d \in Blocks' : End(d)' =< curBreak'
    <3>1. \A d \in Blocks : End(d) =< curBreak
      BY DEF Beside
    <3>2. End(b)' = End(c)
      BY <1>5 DEF End
    <3>3. \A d \in Blocks \ {b} : End(d)' = End(d)
      BY <1>1, <1>3, <1>4 DEF End
    <3> QED
      BY <1>2, <1>7, <3>1, <3>2, <3>3
  <2>4. O \in SUBSET Addr /\ O \intersect Blocks' = {} /\ \A d \in alloc' : inuse'[d]
    BY <1>2, <1>7 DEF Beside
  <2> QED
    BY <1>7, <2>2, <2>3, <2>4 DEF Beside
<1> QED
  BY <1>4, <1>6, <1>7

\* A step that leaves the memory and the blocks alone.
LEMMA StandsBeside ==
    ASSUME NEW O, Beside(O),
           UNCHANGED <<size, inuse, sysBreak, curBreak, heapStart>>,
           UNCHANGED <<freeList, alloc, asked, locker, node>>,
           phase' \in {"idle", "next", "prev", "release"},
           phase' = "idle" <=> phase = "idle"
    PROVE  Beside(O)' /\ Spares(alloc \union O)
<1>1. InHand' = InHand /\ Listed' = Listed /\ Blocks' = Blocks
  BY DEF InHand, Listed, Blocks
<1>2. HeapTypeOK'
  BY DEF Beside, HeapTypeOK
<1>3. OneOwner'
  BY <1>1 DEF Beside, OneOwner
<1>4. Tiled(Blocks' \union O, size', 0, sysBreak')
  BY <1>1 DEF Beside
<1>5. \A d \in Blocks' : End(d)' =< curBreak'
  BY <1>1 DEF Beside, End
<1> QED
  BY <1>1, <1>2, <1>3, <1>4, <1>5 DEF Beside, Spares

\* malloc takes a listed block, and splits it when it can (allocator.cpp 53-80).
LEMMA ReuseBeside ==
    ASSUME NEW O, Beside(O), NEW need \in Request, MallocReuse(need)
    PROVE  Beside(O)' /\ Spares(alloc \union O)
<1>1. PICK i, b, others, rest :
        /\ i \in DOMAIN freeList
        /\ b = freeList[i] /\ others = RemoveAt(freeList, i)
        /\ rest = b + Total(need)
        /\ IF Splits(b, need)
             THEN /\ size' = [size EXCEPT ![rest] = size[b] - Total(need), ![b] = need]
                  /\ inuse' = [inuse EXCEPT ![rest] = FALSE, ![b] = TRUE]
                  /\ freeList' = Cons(rest, others)
             ELSE /\ inuse' = [inuse EXCEPT ![b] = TRUE]
                  /\ freeList' = others
                  /\ size' = size
        /\ alloc' = alloc \union {b}
        /\ asked' = [asked EXCEPT ![b] = need]
  BY Zenon DEF MallocReuse
<1>2. /\ locker = NoThread /\ locker' = NoThread
      /\ phase' = phase /\ node' = node
      /\ heapStart' = heapStart /\ curBreak' = curBreak /\ sysBreak' = sysBreak
  BY DEF MallocReuse, memVars
<1>3. /\ b \in Listed /\ others \in Seq(Addr)
      /\ Range(others) = Listed \ {b} /\ IsInjective(others)
  BY <1>1, BesideFacts, Unlist
<1>4. /\ b \in Blocks /\ b \in Addr /\ b \notin alloc /\ b \notin O
      /\ InHand = {} /\ InHand' = {}
  BY <1>2, <1>3, BesideFacts DEF Blocks, Beside, OneOwner, InHand
<1>5. need \in Nat \ {0}
  BY AllocatorAssumption
<1>6. PICK B : B = Blocks \union O
  OBVIOUS
<1>7. /\ B \in SUBSET Addr /\ size \in [Addr -> Nat] /\ inuse \in [Addr -> BOOLEAN]
      /\ 0 \in Nat /\ sysBreak \in 0 .. MaxBreak
      /\ Tiled(B, size, 0, sysBreak) /\ b \in B
  BY <1>4, <1>6, BesideFacts
<1>8. CASE Splits(b, need)
  <2>1. /\ size' = [size EXCEPT ![rest] = size[b] - Total(need), ![b] = need]
        /\ inuse' = [inuse EXCEPT ![rest] = FALSE, ![b] = TRUE]
        /\ freeList' = Cons(rest, others)
    BY <1>1, <1>8
  <2>2. size[b] >= need + HeaderUnits + 1 /\ rest = b + Total(need)
    BY <1>1, <1>8 DEF Splits
  <2>3. /\ rest \in Addr /\ rest \notin B /\ b < rest
        /\ size[b] - Total(need) \in Nat \ {0}
        /\ rest + Total(size[b] - Total(need)) = b + Total(size[b])
    <3>1. b \in B /\ need \in Nat \ {0} /\ size[b] >= need + HeaderUnits + 1
      BY <1>5, <1>7, <2>2
    <3>2. PICK lo : lo \in Nat /\ Tiled(B, size, lo, sysBreak)
      BY <1>7
    <3>3. B \in SUBSET Addr /\ size \in [Addr -> Nat] /\ sysBreak \in 0 .. MaxBreak
      BY <1>7
    <3> QED
      BY <2>2, <3>1, <3>2, <3>3, CutInside
  <2>4. /\ size' \in [Addr -> Nat] /\ inuse' \in [Addr -> BOOLEAN]
        /\ size'[b] = need /\ size'[rest] = size[b] - Total(need)
        /\ \A c \in B \ {b} : size'[c] = size[c]
        /\ inuse'[b] /\ \A c \in B \ {b} : inuse'[c] = inuse[c]
        /\ \A a \in Addr \ {b, rest} : size'[a] = size[a] /\ inuse'[a] = inuse[a]
    <3>1. b # rest /\ rest \notin B /\ rest \in Addr /\ b \in Addr
          /\ size[b] - Total(need) \in Nat /\ need \in Nat
      BY <1>4, <1>5, <1>7, <2>3
    <3>2. size' \in [Addr -> Nat] /\ size'[b] = need
          /\ size'[rest] = size[b] - Total(need)
          /\ \A a \in Addr \ {b, rest} : size'[a] = size[a]
      BY <1>7, <2>1, <3>1
    <3>3. inuse' \in [Addr -> BOOLEAN] /\ inuse'[b]
          /\ \A a \in Addr \ {b, rest} : inuse'[a] = inuse[a]
      BY <1>7, <2>1, <3>1
    <3> QED
      BY <1>7, <3>1, <3>2, <3>3
  <2>5. Tiled(B \union {rest}, size', 0, sysBreak)
    BY <1>5, <1>7, <2>2, <2>4, TiledSplit
  <2>6. /\ freeList' \in Seq(Addr)
        /\ Listed' = (Listed \ {b}) \union {rest}
        /\ IsInjective(freeList')
    <3>1. rest \notin Range(others)
      BY <1>3, <1>6, <2>3 DEF Blocks
    <3>2. Range(Cons(rest, others)) = Range(others) \union {rest}
          /\ IsInjective(Cons(rest, others))
      BY <1>3, <2>3, <3>1, ConsRange
    <3>3. Cons(rest, others) \in Seq(Addr)
      BY <1>3, <2>3, ConsFacts
    <3> QED
      BY <1>3, <2>1, <3>2, <3>3 DEF Listed
  <2>7. Blocks' = Blocks \union {rest}
    BY <1>1, <1>3, <1>4, <2>6 DEF Blocks
  <2>8. HeapTypeOK'
    BY <1>1, <1>2, <1>4, <1>5, <2>4, <2>6 DEF Beside, HeapTypeOK
  <2>9. OneOwner'
    BY <1>1, <1>3, <1>4, <1>6, <2>3, <2>6 DEF Beside, OneOwner, Blocks
  <2>10. \A c \in Blocks' : End(c)' =< curBreak'
    <3>1. End(b) =< curBreak /\ \A c \in Blocks \ {b} : End(c)' = End(c) /\ End(c) =< curBreak
      BY <1>4, <1>6, <2>4 DEF Beside, End
    <3>2. End(rest)' = End(b)
      BY <2>3, <2>4 DEF End
    <3>3. End(b)' =< End(b)
      <4>1. b \in Nat /\ size[b] \in Nat /\ size[b] >= need + 1 + 1
        BY <1>4, <1>7, <2>2 DEF Addr, HeaderUnits
      <4>2. End(b)' = b + 1 + need /\ End(b) = b + 1 + size[b]
        BY <1>5, <2>4, <4>1 DEF End, Total, HeaderUnits
      <4> QED
        BY <1>5, <4>1, <4>2
    <3>4. End(b)' \in Nat /\ End(b) \in Nat /\ curBreak \in Nat
      <4>1. b \in Nat /\ size'[b] = need
        BY <1>4, <2>4 DEF Addr
      <4>2. End(b)' = b + 1 + need
        BY <1>5, <4>1 DEF End, Total, HeaderUnits
      <4>3. End(b) \in Nat /\ curBreak \in Nat
        BY <1>4, BesideBlock, BesideFacts
      <4> QED
        BY <1>5, <4>1, <4>2, <4>3
    <3>5. End(b)' =< curBreak
      BY <3>1, <3>3, <3>4
    <3> QED
      BY <1>2, <2>7, <3>1, <3>2, <3>5
  <2>11. \A d \in alloc' : inuse'[d]
    BY <1>1, <1>4, <1>6, <2>4 DEF Beside, Blocks
  <2>12. O \in SUBSET Addr /\ O \intersect Blocks' = {}
    BY <1>6, <2>3, <2>7 DEF Beside
  <2>13. Tiled(Blocks' \union O, size', 0, sysBreak')
    <3>1. Blocks' \union O = B \union {rest}
      BY <1>6, <2>7
    <3> QED
      BY <1>2, <2>5, <3>1
  <2>14. Inside(rest, b) /\ Inside(b, b)
    <3>1. b \in Nat /\ rest \in Nat /\ size[b] \in Nat /\ size[b] >= need + 1 + 1
      BY <1>4, <1>7, <2>2, <2>3 DEF Addr, HeaderUnits
    <3>2. End(b) = b + 1 + size[b] /\ rest = b + 1 + need
      BY <1>5, <2>2, <3>1 DEF End, Total, HeaderUnits
    <3> QED
      BY <1>5, <3>1, <3>2 DEF Inside
  <2>15. Spares(alloc \union O)
    <3>1. \A a \in Addr : size'[a] # size[a] \/ inuse'[a] # inuse[a] => Inside(a, b)
      BY <2>4, <2>14
    <3> QED
      BY <1>4, <3>1, WritesInside
  <2> QED
    BY <2>8, <2>9, <2>10, <2>11, <2>12, <2>13, <2>15 DEF Beside
<1>9. CASE ~ Splits(b, need)
  <2>1. /\ size' = size /\ inuse' = [inuse EXCEPT ![b] = TRUE] /\ freeList' = others
    BY <1>1, <1>9
  <2>2. /\ Listed' = Listed \ {b} /\ Blocks' = Blocks
    BY <1>1, <1>3, <1>4, <2>1 DEF Listed, Blocks
  <2>3. /\ inuse' \in [Addr -> BOOLEAN] /\ inuse'[b]
        /\ \A a \in Addr \ {b} : inuse'[a] = inuse[a]
    BY <1>4, <1>7, <2>1
  <2>4. HeapTypeOK'
    BY <1>1, <1>2, <1>3, <1>4, <1>5, <2>1, <2>3 DEF Beside, HeapTypeOK
  <2>5. OneOwner'
    BY <1>1, <1>3, <1>4, <2>1, <2>2 DEF Beside, OneOwner
  <2>6. \A c \in Blocks' : End(c)' =< curBreak'
    BY <1>2, <2>1, <2>2 DEF Beside, End
  <2>7. \A d \in alloc' : inuse'[d]
    BY <1>1, <1>4, <2>3 DEF Beside, HeapTypeOK
  <2>8. Spares(alloc \union O)
    <3>1. Inside(b, b)
      BY <1>4, BesideBlock
    <3>2. \A a \in Addr : size'[a] # size[a] \/ inuse'[a] # inuse[a] => Inside(a, b)
      BY <2>1, <2>3, <3>1
    <3> QED
      BY <1>4, <3>2, WritesInside
  <2>9. Tiled(Blocks' \union O, size', 0, sysBreak')
    BY <1>2, <1>6, <1>7, <2>1, <2>2
  <2> QED
    BY <2>2, <2>4, <2>5, <2>6, <2>7, <2>8, <2>9 DEF Beside
<1> QED
  BY <1>8, <1>9

\* malloc moves the break up and takes the new block (allocator.cpp 81-101).
LEMMA ExtendBeside ==
    ASSUME NEW O, Beside(O), NEW need \in Request, MallocExtend(need)
    PROVE  Beside(O)' /\ Spares(alloc \union O)
<1>1. /\ locker = NoThread /\ locker' = NoThread
      /\ phase' = phase /\ node' = node /\ freeList' = freeList
      /\ heapStart' = heapStart
      /\ sysBreak + Total(need) =< MaxBreak
      /\ sysBreak' = sysBreak + Total(need) /\ curBreak' = sysBreak + Total(need)
      /\ size' = [size EXCEPT ![sysBreak] = need]
      /\ inuse' = [inuse EXCEPT ![sysBreak] = TRUE]
      /\ alloc' = alloc \union {sysBreak}
      /\ asked' = [asked EXCEPT ![sysBreak] = need]
  BY DEF MallocExtend, Allocate
<1>2. need \in Nat \ {0}
  BY AllocatorAssumption
<1>3. PICK B : B = Blocks \union O
  OBVIOUS
<1>4. /\ B \in SUBSET Addr /\ size \in [Addr -> Nat] /\ inuse \in [Addr -> BOOLEAN]
      /\ 0 \in Nat /\ sysBreak \in 0 .. MaxBreak /\ sysBreak \in Nat
      /\ Tiled(B, size, 0, sysBreak)
  BY <1>3, BesideFacts
<1>5. sysBreak \in Addr /\ sysBreak + Total(need) \in 0 .. MaxBreak
  <2>1. sysBreak + 1 + need =< MaxBreak /\ Total(need) = 1 + need
    BY <1>1, <1>2, <1>4, MemoryAssumption DEF Total, HeaderUnits
  <2> QED
    BY <1>2, <1>4, <2>1, MemoryAssumption DEF Addr
<1>6. \A b \in B : b # sysBreak /\ ~ Inside(sysBreak, b)
  BY <1>3, BesideBlock
<1>7. /\ size' \in [Addr -> Nat] /\ inuse' \in [Addr -> BOOLEAN]
      /\ size'[sysBreak] = need /\ inuse'[sysBreak]
      /\ \A a \in Addr \ {sysBreak} : size'[a] = size[a] /\ inuse'[a] = inuse[a]
  BY <1>1, <1>2, <1>4, <1>5
<1>8. \A c \in B : size'[c] = size[c] /\ inuse'[c] = inuse[c]
  BY <1>4, <1>6, <1>7
<1>9. Tiled(B \union {sysBreak}, size', 0, sysBreak + Total(need))
  <2>1. sysBreak + Total(need) =< MaxBreak
    BY <1>1
  <2>2. size' \in [Addr -> Nat] /\ size'[sysBreak] = need
        /\ \A c \in B : size'[c] = size[c]
    BY <1>7, <1>8
  <2> QED
    BY <1>2, <1>4, <2>1, <2>2, TiledExtend
<1>10. InHand = {} /\ InHand' = {} /\ Listed' = Listed
  BY <1>1 DEF InHand, Listed
<1>11. Blocks' = Blocks \union {sysBreak}
  BY <1>1, <1>10 DEF Blocks
<1>12. HeapTypeOK'
  <2>1. sysBreak' \in 0 .. MaxBreak
    BY <1>1, <1>5
  <2> QED
    BY <1>1, <1>2, <1>5, <1>7, <2>1 DEF Beside, HeapTypeOK
<1>13. OneOwner'
  BY <1>1, <1>3, <1>6, <1>10 DEF Beside, OneOwner, Blocks
<1>14. \A c \in Blocks' : End(c)' =< curBreak'
  <2>1. ASSUME NEW c \in Blocks
        PROVE  End(c)' =< curBreak'
    <3>1. End(c)' = End(c)
      BY <1>3, <1>8 DEF End
    <3>2. End(c) =< sysBreak /\ End(c) \in Nat /\ sysBreak \in Nat
      BY <1>4, BesideBlock
    <3> QED
      BY <1>1, <1>2, <3>1, <3>2 DEF Total, HeaderUnits
  <2>3. ASSUME NEW c, c = sysBreak
        PROVE  End(c)' =< curBreak'
    <3>1. size'[c] = need /\ curBreak' = c + Total(need) /\ c \in Nat
      BY <1>1, <1>4, <1>7, <2>3
    <3>2. c + Total(size'[c]) =< curBreak'
      BY <1>2, <3>1 DEF Total, HeaderUnits
    <3> QED
      BY <3>2 DEF End
  <2> QED
    BY <1>11, <2>1, <2>3
<1>15. \A d \in alloc' : inuse'[d]
  BY <1>1, <1>3, <1>7, <1>8 DEF Beside, Blocks
<1>16. O \in SUBSET Addr /\ O \intersect Blocks' = {}
  BY <1>3, <1>6, <1>11 DEF Beside
<1>17. Tiled(Blocks' \union O, size', 0, sysBreak')
  <2>1. Blocks' \union O = B \union {sysBreak}
    BY <1>3, <1>11
  <2> QED
    BY <1>1, <1>9, <2>1
<1>18. Spares(alloc \union O)
  BY <1>3, <1>6, <1>7 DEF Spares, Blocks
<1> QED
  BY <1>12, <1>13, <1>14, <1>15, <1>16, <1>17, <1>18 DEF Beside

\* free takes a block back from its caller.
LEMMA FreeBeginBeside ==
    ASSUME NEW O, Beside(O), NEW t \in Thread, NEW b \in alloc, FreeBegin(t, b)
    PROVE  Beside(O)' /\ Spares(alloc \union O)
<1>1. /\ locker = NoThread /\ locker' = t /\ t # NoThread
      /\ phase' = "next" /\ node' = b
      /\ alloc' = alloc \ {b} /\ asked' = [asked EXCEPT ![b] = 0]
      /\ heapStart' = heapStart /\ curBreak' = curBreak /\ sysBreak' = sysBreak
      /\ size' = size /\ inuse' = inuse /\ freeList' = freeList
  BY AllocatorAssumption DEF FreeBegin, heapVars, memVars
<1>2. InHand = {} /\ InHand' = {b} /\ Listed' = Listed
  BY <1>1 DEF InHand, Listed
<1>3. Blocks' = Blocks
  BY <1>1, <1>2 DEF Blocks
<1>4. HeapTypeOK'
  BY <1>1 DEF Beside, HeapTypeOK
<1>5. OneOwner'
  BY <1>1, <1>2 DEF Beside, OneOwner
<1>6. \A c \in Blocks' : End(c)' =< curBreak'
  BY <1>1, <1>3 DEF Beside, End
<1>7. Tiled(Blocks' \union O, size', 0, sysBreak')
  BY <1>1, <1>3 DEF Beside
<1> QED
  BY <1>1, <1>3, <1>4, <1>5, <1>6, <1>7 DEF Beside, Spares

\* free merges the free block behind, if there is one.
LEMMA MergeNextBeside ==
    ASSUME NEW O, Beside(O), NEW t \in Thread, MergeNext(t)
    PROVE  Beside(O)' /\ Spares(alloc \union O)
<1>1. /\ locker = t /\ phase = "next" /\ phase' = "prev"
      /\ locker' = locker /\ node' = node /\ alloc' = alloc /\ inuse' = inuse
      /\ asked' = asked
      /\ heapStart' = heapStart /\ curBreak' = curBreak /\ sysBreak' = sysBreak
      /\ t # NoThread
  BY AllocatorAssumption DEF MergeNext, memVars
<1>2. /\ InHand = {node} /\ InHand' = {node}
      /\ node \in Blocks /\ node \in Addr /\ node \notin Listed /\ node \notin alloc
  BY <1>1, BesideFacts DEF InHand, Blocks, Beside, OneOwner
<1>3. CASE \E i \in DOMAIN freeList :
             /\ NextPhys(i, node)
             /\ size' = [size EXCEPT ![node] = @ + Total(size[freeList[i]])]
             /\ freeList' = RemoveAt(freeList, i)
  <2>1. PICK i, c :
          /\ i \in DOMAIN freeList
          /\ c = freeList[i] /\ c = End(node)
          /\ size' = [size EXCEPT ![node] = @ + Total(size[c])]
          /\ freeList' = RemoveAt(freeList, i)
    BY <1>3 DEF NextPhys
  <2>2. /\ c \in Listed /\ freeList' \in Seq(Addr)
        /\ Listed' = Listed \ {c} /\ IsInjective(freeList')
    BY <2>1, BesideFacts, Unlist DEF Listed
  <2>3. c \in Blocks /\ c \notin alloc /\ c # node
    BY <1>2, <2>2 DEF Blocks, Beside, OneOwner
  <2>4. Absorbs(node, c)
    BY <1>1, <1>2, <2>1, <2>3, BesideFacts DEF Absorbs
  <2>5. Blocks' = Blocks \ {c}
    BY <1>1, <1>2, <2>2, <2>3 DEF Blocks
  <2>6. OneOwner'
    BY <1>1, <1>2, <2>2 DEF Beside, OneOwner
  <2>7. HeapTypeOK'
    BY <1>1, <2>2, <2>4, AbsorbsBeside DEF Beside, HeapTypeOK
  <2> QED
    BY <1>1, <2>4, <2>5, <2>6, <2>7, AbsorbsBeside
<1>4. CASE size' = size /\ freeList' = freeList
  BY <1>1, <1>2, <1>4, StandsBeside
<1> QED
  BY <1>3, <1>4 DEF MergeNext

\* free merges into the free block before, if there is one.
LEMMA MergePrevBeside ==
    ASSUME NEW O, Beside(O), NEW t \in Thread, MergePrev(t)
    PROVE  Beside(O)' /\ Spares(alloc \union O)
<1>1. /\ locker = t /\ phase = "prev" /\ phase' = "release"
      /\ locker' = locker /\ alloc' = alloc /\ inuse' = inuse
      /\ asked' = asked
      /\ heapStart' = heapStart /\ curBreak' = curBreak /\ sysBreak' = sysBreak
      /\ t # NoThread
  BY AllocatorAssumption DEF MergePrev, memVars
<1>2. /\ InHand = {node} /\ InHand' = {node'}
      /\ node \in Blocks /\ node \in Addr /\ node \notin Listed /\ node \notin alloc
  BY <1>1, BesideFacts DEF InHand, Blocks, Beside, OneOwner
<1>3. CASE \E i \in DOMAIN freeList :
             /\ PrevPhys(i, node)
             /\ size' = [size EXCEPT ![freeList[i]] = @ + Total(size[node])]
             /\ freeList' = RemoveAt(freeList, i)
             /\ node' = freeList[i]
  <2>1. PICK i, c :
          /\ i \in DOMAIN freeList
          /\ c = freeList[i] /\ End(c) = node
          /\ size' = [size EXCEPT ![c] = @ + Total(size[node])]
          /\ freeList' = RemoveAt(freeList, i)
          /\ node' = c
    BY <1>3 DEF PrevPhys
  <2>2. /\ c \in Listed /\ freeList' \in Seq(Addr)
        /\ Listed' = Listed \ {c} /\ IsInjective(freeList')
    BY <2>1, BesideFacts, Unlist DEF Listed
  <2>3. c \in Blocks /\ c \in Addr /\ c \notin alloc /\ c # node
    BY <1>2, <2>2, BesideFacts DEF Blocks, Beside, OneOwner
  <2>4. Absorbs(c, node)
    BY <1>1, <1>2, <2>1, <2>3, BesideFacts DEF Absorbs
  <2>5. Blocks' = Blocks \ {node}
    BY <1>1, <1>2, <2>1, <2>2, <2>3 DEF Blocks
  <2>6. OneOwner'
    BY <1>1, <1>2, <2>1, <2>2, <2>3 DEF Beside, OneOwner
  <2>7. HeapTypeOK'
    BY <1>1, <2>1, <2>2, <2>3, <2>4, AbsorbsBeside DEF Beside, HeapTypeOK
  <2> QED
    BY <1>1, <2>4, <2>5, <2>6, <2>7, AbsorbsBeside
<1>4. CASE size' = size /\ freeList' = freeList /\ node' = node
  BY <1>1, <1>2, <1>4, StandsBeside
<1> QED
  BY <1>3, <1>4 DEF MergePrev

\* free gives the block at the break back to the provider.
LEMMA ReleaseToMemoryBeside ==
    ASSUME NEW O, Beside(O), NEW t \in Thread, ReleaseToMemory(t)
    PROVE  Beside(O)' /\ Spares(alloc \union O)
<1>1. /\ locker = t /\ phase = "release" /\ t # NoThread
      /\ node + Total(size[node]) = sysBreak
      /\ sysBreak' = node /\ curBreak' = node
      /\ heapStart' = heapStart /\ size' = size /\ inuse' = inuse
      /\ alloc' = alloc /\ asked' = asked
  BY AllocatorAssumption DEF ReleaseToMemory, ReleaseBlock, AtBreak
<1>2. /\ InHand = {node} /\ node \in Addr
      /\ node \in Blocks /\ node \notin Listed /\ node \notin alloc /\ node \notin O
  BY <1>1, BesideFacts DEF InHand, Blocks, Beside, OneOwner
<1>3. /\ Blocks' = Blocks \ {node}
      /\ OneOwner'
      /\ freeList' \in Seq(Addr)
      /\ locker' \in Thread \union {NoThread} /\ phase' \in {"idle", "release"}
      /\ phase' = "idle" <=> locker' = NoThread
      /\ node' \in Addr
  <2>1. CASE \E i \in DOMAIN freeList :
               /\ freeList' = RemoveAt(freeList, i) /\ node' = freeList[i]
               /\ locker' = locker /\ phase' = phase
    <3>1. PICK i, c : /\ i \in DOMAIN freeList /\ c = freeList[i]
                      /\ freeList' = RemoveAt(freeList, i) /\ node' = c
      BY <2>1
    <3>2. /\ c \in Listed /\ freeList' \in Seq(Addr)
          /\ Listed' = Listed \ {c} /\ IsInjective(freeList')
      BY <3>1, BesideFacts, Unlist DEF Listed
    <3>3. c \in Blocks /\ c \in Addr /\ c \notin alloc /\ c # node
      BY <1>2, <3>2, BesideFacts DEF Blocks, Beside, OneOwner
    <3>4. InHand' = {c}
      BY <1>1, <2>1, <3>1 DEF InHand
    <3>5. Blocks' = Blocks \ {node}
      BY <1>1, <1>2, <3>2, <3>3, <3>4 DEF Blocks
    <3>6. OneOwner'
      BY <1>1, <3>2, <3>3, <3>4 DEF Beside, OneOwner
    <3> QED
      BY <1>1, <2>1, <3>1, <3>2, <3>3, <3>5, <3>6
  <2>2. CASE Unlock /\ freeList' = freeList
    <3>1. InHand' = {} /\ Listed' = Listed
      BY <2>2 DEF Unlock, InHand, Listed
    <3>2. 0 \in Addr
      BY MemoryAssumption DEF Addr
    <3>3. Blocks' = Blocks \ {node}
      BY <1>1, <1>2, <3>1 DEF Blocks
    <3>4. OneOwner'
      BY <1>1, <2>2, <3>1 DEF Beside, OneOwner
    <3> QED
      BY <2>2, <3>2, <3>3, <3>4, BesideFacts DEF Unlock
  <2> QED
    BY <2>1, <2>2 DEF ReleaseToMemory
<1>4. PICK B : B = Blocks \union O
  OBVIOUS
<1>5. node \in 0 .. MaxBreak /\ Tiled(B \ {node}, size, 0, node)
  <2>1. /\ B \in SUBSET Addr /\ size \in [Addr -> Nat]
        /\ 0 \in Nat /\ sysBreak \in 0 .. MaxBreak
        /\ Tiled(B, size, 0, sysBreak) /\ node \in B
    BY <1>2, <1>4, BesideFacts
  <2> QED
    BY <1>1, <2>1, TiledShrink
<1>6. Blocks' \union O = B \ {node}
  BY <1>2, <1>3, <1>4
<1>7. HeapTypeOK'
  BY <1>1, <1>3, <1>5 DEF Beside, HeapTypeOK
<1>8. Tiled(Blocks' \union O, size', 0, sysBreak')
  BY <1>1, <1>5, <1>6
<1>9. \A c \in Blocks' : End(c)' =< curBreak'
  BY <1>1, <1>8 DEF Tiled, End
<1> QED
  BY <1>1, <1>3, <1>7, <1>8, <1>9 DEF Beside, Spares

\* free lists the block; nothing but its flag is written.
LEMMA ReleaseToListBeside ==
    ASSUME NEW O, Beside(O), NEW t \in Thread, ReleaseToList(t)
    PROVE  Beside(O)' /\ Spares(alloc \union O)
<1>1. /\ locker = t /\ locker' = NoThread /\ t # NoThread
      /\ phase = "release" /\ phase' = "idle" /\ node' = 0
      /\ sysBreak' = sysBreak /\ curBreak' = curBreak
      /\ heapStart' = heapStart /\ size' = size /\ alloc' = alloc
      /\ asked' = asked
      /\ inuse' = [inuse EXCEPT ![node] = FALSE]
      /\ freeList' = Cons(node, freeList)
  BY AllocatorAssumption DEF ReleaseToList, ReleaseBlockFails, Unlock, memVars
<1>2. /\ InHand = {node} /\ InHand' = {} /\ node \in Blocks
      /\ node \in Addr /\ node \notin Listed /\ node \notin alloc
  BY <1>1 DEF InHand, Blocks, Beside, HeapTypeOK, OneOwner
<1>3. /\ Listed' = Listed \union {node} /\ IsInjective(freeList')
      /\ freeList' \in Seq(Addr)
  <2>1. freeList \in Seq(Addr) /\ IsInjective(freeList) /\ node \notin Range(freeList)
    BY <1>2, BesideFacts DEF Listed
  <2>2. /\ Range(Cons(node, freeList)) = Range(freeList) \union {node}
        /\ IsInjective(Cons(node, freeList))
    BY <1>2, <2>1, ConsRange
  <2>3. Cons(node, freeList) \in Seq(Addr)
    BY <1>2, <2>1, ConsFacts
  <2> QED
    BY <1>1, <2>2, <2>3 DEF Listed
<1>4. Blocks' = Blocks
  BY <1>1, <1>2, <1>3 DEF Blocks
<1>5. /\ inuse' \in [Addr -> BOOLEAN]
      /\ \A a \in Addr \ {node} : inuse'[a] = inuse[a]
  BY <1>1, <1>2, BesideFacts
<1>6. HeapTypeOK'
  <2>1. 0 \in Addr
    BY MemoryAssumption DEF Addr
  <2> QED
    BY <1>1, <1>3, <1>5, <2>1 DEF Beside, HeapTypeOK
<1>7. OneOwner'
  BY <1>1, <1>2, <1>3 DEF Beside, OneOwner
<1>8. \A c \in Blocks' : End(c)' =< curBreak'
  BY <1>1, <1>4 DEF Beside, End
<1>9. Tiled(Blocks' \union O, size', 0, sysBreak')
  BY <1>1, <1>4 DEF Beside
<1>10. \A d \in alloc' : inuse'[d]
  BY <1>1, <1>2, <1>5 DEF Beside, HeapTypeOK
<1>11. Spares(alloc \union O)
  <2>1. Inside(node, node)
    BY <1>2, BesideBlock
  <2>2. \A a \in Addr : size'[a] # size[a] \/ inuse'[a] # inuse[a] => Inside(a, node)
    BY <1>1, <1>5, <2>1
  <2> QED
    BY <1>2, <2>2, WritesInside
<1> QED
  BY <1>4, <1>6, <1>7, <1>8, <1>9, <1>10, <1>11 DEF Beside

\* Every step of an allocator keeps to its own blocks, whatever other blocks
\* are in the memory.
LEMMA StepBeside ==
    ASSUME NEW O, Beside(O), AllocatorNext
    PROVE  Beside(O)' /\ Spares(alloc \union O) /\ heapStart' = heapStart
<1>1. heapStart' = heapStart
  BY DEF AllocatorNext, Malloc, MallocReuse, MallocExtend, Allocate, MallocFails,
         AllocateFails, FreeBegin, FreeStep, MergeNext, MergePrev,
         ReleaseToMemory, ReleaseBlock, ReleaseToList, ReleaseBlockFails,
         heapVars, memVars
<1>2. ASSUME NEW need \in Request, MallocFails(need)
      PROVE  Beside(O)' /\ Spares(alloc \union O)
  <2>1. /\ UNCHANGED <<size, inuse, sysBreak, curBreak, heapStart>>
        /\ UNCHANGED <<freeList, alloc, asked, locker, node>>
        /\ phase' = phase
    BY <1>2 DEF MallocFails, AllocateFails, memVars
  <2>2. phase' \in {"idle", "next", "prev", "release"}
    BY <2>1 DEF Beside, HeapTypeOK
  <2> QED
    BY <2>1, <2>2, StandsBeside
<1>3. ASSUME NEW need \in Request, Malloc(need)
      PROVE  Beside(O)' /\ Spares(alloc \union O)
  <2>1. CASE MallocReuse(need)
    BY <2>1, ReuseBeside
  <2>2. CASE MallocExtend(need)
    BY <2>2, ExtendBeside
  <2> QED
    BY <1>2, <1>3, <2>1, <2>2 DEF Malloc
<1>4. ASSUME NEW t \in Thread, NEW b \in alloc, FreeBegin(t, b)
      PROVE  Beside(O)' /\ Spares(alloc \union O)
  BY <1>4, FreeBeginBeside
<1>5. ASSUME NEW t \in Thread, FreeStep(t)
      PROVE  Beside(O)' /\ Spares(alloc \union O)
  <2>1. CASE MergeNext(t)
    BY <2>1, MergeNextBeside
  <2>2. CASE MergePrev(t)
    BY <2>2, MergePrevBeside
  <2>3. CASE ReleaseToMemory(t)
    BY <2>3, ReleaseToMemoryBeside
  <2>4. CASE ReleaseToList(t)
    BY <2>4, ReleaseToListBeside
  <2> QED
    BY <1>5, <2>1, <2>2, <2>3, <2>4 DEF FreeStep
<1> QED
  BY <1>1, <1>3, <1>4, <1>5 DEF AllocatorNext

\* Steps of the others leave the allocator beside their blocks, now P.
LEMMA OthersBeside ==
    ASSUME NEW O, Beside(O), NEW P,
           P \in SUBSET Addr, P \intersect Blocks = {},
           size' \in [Addr -> Nat], inuse' \in [Addr -> BOOLEAN],
           sysBreak' \in 0 .. MaxBreak,
           Tiled(Blocks \union P, size', 0, sysBreak'),
           \A b \in Blocks : size'[b] = size[b] /\ inuse'[b] = inuse[b],
           UNCHANGED <<heapStart, curBreak>>,
           UNCHANGED <<freeList, locker, phase, node, alloc, asked>>
    PROVE  Beside(P)'
<1>1. InHand' = InHand /\ Listed' = Listed /\ Blocks' = Blocks
  BY DEF InHand, Listed, Blocks
<1>2. HeapTypeOK'
  BY DEF Beside, HeapTypeOK
<1>3. OneOwner'
  BY <1>1 DEF Beside, OneOwner
<1>4. \A b \in Blocks' : End(b)' =< curBreak'
  BY <1>1 DEF Beside, End
<1>5. \A b \in alloc' : inuse'[b]
  BY DEF Beside, Blocks
<1> QED
  BY <1>1, <1>2, <1>3, <1>4, <1>5 DEF Beside

\* A provider that is constructed before its allocator has blocks starts at
\* the break.
LEMMA ConstructBeside ==
    ASSUME NEW O, Beside(O), Blocks = {},
           heapStart' = sysBreak, curBreak' = sysBreak,
           UNCHANGED <<sysBreak, size, inuse>>,
           UNCHANGED <<freeList, locker, phase, node, alloc, asked>>
    PROVE  Beside(O)'
<1>1. InHand' = InHand /\ Listed' = Listed /\ Blocks' = {}
  BY DEF InHand, Listed, Blocks
<1>2. HeapTypeOK'
  BY DEF Beside, HeapTypeOK
<1>3. OneOwner'
  BY <1>1 DEF Beside, OneOwner
<1>4. Tiled(Blocks' \union O, size', 0, sysBreak')
  BY <1>1 DEF Beside
<1> QED
  BY <1>1, <1>2, <1>3, <1>4 DEF Beside, Blocks

=============================================================================

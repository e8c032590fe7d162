------------------------------ MODULE LogProofs ------------------------------
(***************************************************************************)
(* Proofs about LogLocks: who holds which lock, and that without the       *)
(* redirection of malloc no threads wait for each other in a circle, for   *)
(* every number of threads and calls nested to any depth.                  *)
(*                                                                         *)
(* The invariant says which program point may be right above which one in  *)
(* a thread's stack, and that the points that hold a lock occur at most    *)
(* once, in the stack of the lock's holder.                                *)
(***************************************************************************)
EXTENDS LogLocks, SequenceTheorems, TLAPS

\* The points of a call of the library and the points of the logger, and
\* those between taking a lock and giving it back.
Library == {"call", "inside", "leave", "unlocked"}
Logging == {"logger", "init", "built", "sink", "write", "written"}

MutexHeld == {"inside", "leave"}
GuardHeld == {"init", "built"}
SinkHeld  == {"write", "written"}

\* y may be the point right above x: a call waits above it for a message to
\* be logged, or the logger for memory.
Above(b, x, y) ==
    \/ x = "leave" /\ y \in Logging
    \/ x \in {"inside", "unlocked"} /\ b.debug /\ y \in Logging
    \/ x \in {"built", "written"} /\ b.override /\ y \in Library

Chain(b, s) == \A i \in 1 .. Len(s) - 1 : Above(b, s[i], s[i + 1])

In(s, C)   == \E i \in 1 .. Len(s) : s[i] \in C
Once(s, C) == \A i, j \in 1 .. Len(s) : s[i] \in C /\ s[j] \in C => i = j

\* The lock of the points C is held by h.
Owner(st, C, h) ==
    \A u \in Thread : (h = u <=> In(st[u], C)) /\ Once(st[u], C)

Types ==
    /\ build \in Build
    /\ stack \in [Thread -> Seq(Point)]
    /\ locker \in Thread \union {NoThread}
    /\ guard \in Thread \union {NoThread}
    /\ sink \in Thread \union {NoThread}
    /\ ready \in BOOLEAN

LogInv ==
    /\ Types
    /\ \A t \in Thread : Chain(build, stack[t])
    /\ Owner(stack, MutexHeld, locker)
    /\ Owner(stack, GuardHeld, guard)
    /\ Owner(stack, SinkHeld, sink)
    /\ guard # NoThread => ~ ready

-----------------------------------------------------------------------------
(* Replacing the innermost point                                           *)

Replaced(s, path) == Front(s) \o path

\* What is below the innermost point stays, and path comes above it.
LEMMA ReplacedFacts ==
    ASSUME NEW S, NEW s \in Seq(S), s # <<>>, NEW path \in Seq(S)
    PROVE  /\ Replaced(s, path) \in Seq(S)
           /\ Len(Replaced(s, path)) = Len(s) - 1 + Len(path)
           /\ \A i \in 1 .. Len(s) - 1 : Replaced(s, path)[i] = s[i]
           /\ \A i \in 1 .. Len(path) :
                Replaced(s, path)[Len(s) - 1 + i] = path[i]
<1> DEFINE front == SubSeq(s, 1, Len(s) - 1)
<1>1. Len(s) \in Nat /\ Len(s) # 0 /\ Len(path) \in Nat
  OBVIOUS
<1>2. \A i \in 1 .. Len(s) - 1 : s[i] \in S
  BY <1>1
<1>3. front \in Seq(S)
  BY <1>1, <1>2, SubSeqProperties, Z3T(20)
<1>4. Len(front) = Len(s) - 1
  <2>1. \A k \in Nat : Len(s) = k + 1 => Len(SubSeq(s, 1, k)) = k
    BY <1>2, SubSeqProperties
  <2>2. Len(s) - 1 \in Nat /\ Len(s) = Len(s) - 1 + 1
    BY <1>1
  <2> QED
    BY <2>1, <2>2
<1>5. \A i \in 1 .. Len(s) - 1 : front[i] = s[i]
  BY <1>1
<1> HIDE DEF front
<1>6. front \o path \in Seq(S)
  BY <1>3
<1>7. Len(front \o path) = Len(s) - 1 + Len(path)
  BY <1>3, <1>4
<1>8. \A i \in 1 .. Len(s) - 1 : (front \o path)[i] = s[i]
  BY <1>1, <1>3, <1>4, <1>5
<1>9. \A i \in 1 .. Len(path) : (front \o path)[Len(s) - 1 + i] = path[i]
  BY <1>1, <1>3, <1>4
<1> QED
  BY <1>6, <1>7, <1>8, <1>9 DEF Replaced, Front, front

\* The innermost point becomes one of the same kind, and at most one more is
\* put above it.
LEMMA ChainReplaced ==
    ASSUME NEW b, NEW s \in Seq(Point), s # <<>>,
           NEW path \in Seq(Point), Len(path) =< 2,
           Chain(b, s),
           Len(path) >= 1 => (Last(s) \in Library <=> path[1] \in Library),
           Len(path) = 2 => Above(b, path[1], path[2])
    PROVE  Chain(b, Replaced(s, path))
<1> DEFINE q == Replaced(s, path)
           n == Len(s)
           m == Len(path)
<1>1. Len(s) \in Nat /\ Len(s) # 0
  OBVIOUS
<1>2. Len(path) \in Nat
  OBVIOUS
<1>3. Len(q) = n - 1 + m
  BY ReplacedFacts
<1>4. \A i \in 1 .. n - 1 : q[i] = s[i]
  BY ReplacedFacts
<1>5. \A i \in 1 .. m : q[n - 1 + i] = path[i]
  BY ReplacedFacts
<1>6. m =< 2 /\ n \in Nat /\ m \in Nat /\ n # 0
  BY <1>1, <1>2
<1>7. Last(s) = s[n]
  BY DEF Last
<1>8. Last(s) \in Library \union Logging
  <2>1. s[Len(s)] \in Point
    BY <1>1
  <2> QED
    BY <1>7, <2>1 DEF Point, Library, Logging
<1>9. m >= 1 => path[1] \in Library \union Logging
  <2>1. m >= 1 => path[1] \in Point
    BY <1>2
  <2> QED
    BY <2>1 DEF Point, Library, Logging
<1>10. /\ m >= 1 => (Last(s) \in Library <=> path[1] \in Library)
       /\ m = 2 => Above(b, path[1], path[2])
  OBVIOUS
<1>11. \A i \in 1 .. n - 1 : Above(b, s[i], s[i + 1])
  BY DEF Chain
<1> HIDE DEF q, n, m
<1>12. ASSUME NEW i \in 1 .. Len(q) - 1
       PROVE  Above(b, q[i], q[i + 1])
  <2>1. CASE i < n - 1
    <3>1. i \in 1 .. n - 1 /\ i + 1 \in 1 .. n - 1
      BY <1>3, <1>6, <2>1
    <3>2. q[i] = s[i] /\ q[i + 1] = s[i + 1]
      BY <1>4, <3>1
    <3> QED
      BY <1>11, <3>1, <3>2
  <2>2. CASE i = n - 1
    <3>1. i \in 1 .. n - 1 /\ 1 \in 1 .. m /\ m >= 1 /\ i + 1 = n /\ n - 1 + 1 = i + 1
      BY <1>3, <1>6, <2>2
    <3>2. q[i] = s[i] /\ q[i + 1] = path[1]
      BY <1>4, <1>5, <3>1
    <3>3. Above(b, s[i], Last(s))
      BY <1>7, <1>11, <3>1
    <3> QED
      BY <1>8, <1>9, <1>10, <3>1, <3>2, <3>3 DEF Above, Library, Logging
  <2>3. CASE i > n - 1
    <3>1. m = 2 /\ i = n /\ 1 \in 1 .. m /\ 2 \in 1 .. m
          /\ n - 1 + 1 = i /\ n - 1 + 2 = i + 1
      BY <1>3, <1>6, <2>3
    <3>2. q[i] = path[1] /\ q[i + 1] = path[2]
      BY <1>5, <3>1
    <3> QED
      BY <1>10, <3>1, <3>2
  <2> QED
    BY <1>6, <2>1, <2>2, <2>3
<1> QED
  BY <1>12 DEF Chain, q

\* What is left below the innermost point keeps its points of C.
LEMMA InReplaced ==
    ASSUME NEW C, NEW s \in Seq(Point), s # <<>>, NEW path \in Seq(Point)
    PROVE  /\ In(path, C) => In(Replaced(s, path), C)
           /\ Last(s) \notin C /\ ~ In(path, C)
                => (In(Replaced(s, path), C) <=> In(s, C))
           /\ Once(s, C) /\ ~ In(path, C) => Once(Replaced(s, path), C)
           /\ Last(s) \in C => In(s, C)
           /\ Once(s, C) /\ Last(s) \in C /\ ~ In(path, C)
                => ~ In(Replaced(s, path), C)
           /\ Once(s, C) /\ (Last(s) \in C \/ ~ In(s, C)) /\ Once(path, C)
                => Once(Replaced(s, path), C)
<1> DEFINE q == Replaced(s, path)
           n == Len(s)
           m == Len(path)
<1>1. n \in Nat /\ n # 0 /\ m \in Nat /\ Last(s) = s[n]
  <2>1. Len(s) \in Nat /\ Len(s) # 0
    OBVIOUS
  <2>2. Len(path) \in Nat
    OBVIOUS
  <2> QED
    BY <2>1, <2>2 DEF Last
<1>2. /\ Len(q) = n - 1 + m
      /\ \A i \in 1 .. n - 1 : q[i] = s[i]
      /\ \A i \in 1 .. m : q[n - 1 + i] = path[i]
  <2>1. Len(q) = n - 1 + m
    BY ReplacedFacts
  <2>2. \A i \in 1 .. n - 1 : q[i] = s[i]
    BY ReplacedFacts
  <2>3. \A i \in 1 .. m : q[n - 1 + i] = path[i]
    BY ReplacedFacts
  <2> QED
    BY <2>1, <2>2, <2>3
<1> HIDE DEF q
<1>3. \A i \in 1 .. Len(q) :
        \/ i \in 1 .. n - 1 /\ q[i] = s[i]
        \/ i - (n - 1) \in 1 .. m /\ q[i] = path[i - (n - 1)]
  <2> TAKE i \in 1 .. Len(q)
  <2>1. CASE i =< n - 1
    BY <1>1, <1>2, <2>1
  <2>2. CASE i > n - 1
    <3>1. i - (n - 1) \in 1 .. m /\ n - 1 + (i - (n - 1)) = i
      BY <1>1, <1>2, <2>2
    <3> QED
      BY <1>2, <3>1
  <2> QED
    BY <1>1, <2>1, <2>2
<1>4. In(path, C) => In(q, C)
  <2>1. SUFFICES ASSUME NEW i \in 1 .. m, path[i] \in C
                 PROVE  In(q, C)
    BY DEF In
  <2>2. n - 1 + i \in 1 .. Len(q) /\ q[n - 1 + i] = path[i]
    BY <1>1, <1>2
  <2> QED
    BY <2>1, <2>2 DEF In
<1>5. ASSUME Last(s) \notin C, ~ In(path, C)
      PROVE  In(q, C) <=> In(s, C)
  <2>1. ASSUME In(q, C) PROVE In(s, C)
    BY <1>1, <1>3, <1>5, <2>1 DEF In
  <2>2. ASSUME In(s, C) PROVE In(q, C)
    <3>1. PICK i \in 1 .. n : s[i] \in C
      BY <2>2 DEF In
    <3>2. i \in 1 .. n - 1
      BY <1>1, <1>5, <3>1
    <3>3. i \in 1 .. Len(q) /\ q[i] \in C
      BY <1>1, <1>2, <3>1, <3>2
    <3> QED
      BY <3>3 DEF In
  <2> QED
    BY <2>1, <2>2
<1>6. ASSUME Once(s, C), ~ In(path, C)
      PROVE  Once(q, C)
  <2>1. \A i \in 1 .. Len(q) : q[i] \in C => i \in 1 .. n /\ s[i] \in C
    BY <1>1, <1>3, <1>6 DEF In
  <2> QED
    BY <1>6, <2>1 DEF Once
<1>7. Last(s) \in C => In(s, C)
  BY <1>1 DEF In
<1>8. ASSUME Once(s, C), Last(s) \in C
      PROVE  \A i \in 1 .. n - 1 : s[i] \notin C
  BY <1>1, <1>8 DEF Once
<1>9. ASSUME ~ In(s, C)
      PROVE  \A i \in 1 .. n - 1 : s[i] \notin C
  BY <1>1, <1>9 DEF In
<1>10. ASSUME Once(s, C), Last(s) \in C, ~ In(path, C)
       PROVE  ~ In(q, C)
  <2>1. \A i \in 1 .. n - 1 : s[i] \notin C
    BY <1>8, <1>10
  <2> QED
    BY <1>3, <1>10, <2>1 DEF In
<1>11. ASSUME Once(s, C), Last(s) \in C \/ ~ In(s, C), Once(path, C)
       PROVE  Once(q, C)
  <2>1. \A i \in 1 .. n - 1 : s[i] \notin C
    BY <1>8, <1>9, <1>11
  <2>2. SUFFICES ASSUME NEW i \in 1 .. Len(q), NEW j \in 1 .. Len(q),
                        q[i] \in C, q[j] \in C
                 PROVE  i = j
    BY DEF Once
  <2>3. /\ i - (n - 1) \in 1 .. m /\ path[i - (n - 1)] \in C
        /\ j - (n - 1) \in 1 .. m /\ path[j - (n - 1)] \in C
    BY <1>3, <2>1, <2>2
  <2>4. i - (n - 1) = j - (n - 1)
    BY <1>11, <2>3 DEF Once
  <2> QED
    BY <1>1, <2>4
<1> QED
  BY <1>4, <1>5, <1>6, <1>7, <1>10, <1>11 DEF q

\* What a step of t does to the holder of the lock with the points C: nothing,
\* or t takes the lock, or t gives it back.
LEMMA OwnerKept ==
    ASSUME NEW st \in [Thread -> Seq(Point)], NEW t \in Thread,
           st[t] # <<>>, NEW path \in Seq(Point), NEW C, NEW h,
           Owner(st, C, h),
           Once(path, C), Last(st[t]) \in C <=> In(path, C)
    PROVE  Owner([st EXCEPT ![t] = Replaced(st[t], path)], C, h)
<1> DEFINE q == Replaced(st[t], path)
<1>1. st[t] \in Seq(Point) /\ Once(st[t], C) /\ (h = t <=> In(st[t], C))
  BY DEF Owner
<1>2. Once(q, C) /\ (In(q, C) <=> In(st[t], C))
  BY <1>1, InReplaced
<1> HIDE DEF q
<1>3. ASSUME NEW u \in Thread
      PROVE  /\ h = u <=> In([st EXCEPT ![t] = q][u], C)
             /\ Once([st EXCEPT ![t] = q][u], C)
  <2>1. (h = u <=> In(st[u], C)) /\ Once(st[u], C)
    BY DEF Owner
  <2>2. [st EXCEPT ![t] = q][u] = IF u = t THEN q ELSE st[u]
    OBVIOUS
  <2> QED
    BY <1>1, <1>2, <2>1, <2>2
<1> QED
  BY <1>3 DEF Owner, q

\* A thread enters a critical section nobody is in.
LEMMA OwnerTaken ==
    ASSUME NEW st \in [Thread -> Seq(Point)], NEW t \in Thread,
           st[t] # <<>>, NEW path \in Seq(Point), NEW C,
           Owner(st, C, NoThread),
           Once(path, C), In(path, C)
    PROVE  Owner([st EXCEPT ![t] = Replaced(st[t], path)], C, t)
<1> DEFINE q == Replaced(st[t], path)
<1>1. st[t] \in Seq(Point) /\ Once(st[t], C) /\ ~ In(st[t], C)
  BY LogAssumption DEF Owner
<1>2. Once(q, C) /\ In(q, C)
  BY <1>1, InReplaced
<1> HIDE DEF q
<1>3. ASSUME NEW u \in Thread
      PROVE  /\ t = u <=> In([st EXCEPT ![t] = q][u], C)
             /\ Once([st EXCEPT ![t] = q][u], C)
  <2>1. ~ In(st[u], C) /\ Once(st[u], C)
    BY LogAssumption DEF Owner
  <2>2. [st EXCEPT ![t] = q][u] = IF u = t THEN q ELSE st[u]
    OBVIOUS
  <2> QED
    BY <1>2, <2>1, <2>2
<1> QED
  BY <1>3 DEF Owner, q

\* The thread in a critical section leaves it.
LEMMA OwnerGiven ==
    ASSUME NEW st \in [Thread -> Seq(Point)], NEW t \in Thread,
           st[t] # <<>>, NEW path \in Seq(Point), NEW C, NEW h,
           Owner(st, C, h),
           Last(st[t]) \in C, ~ In(path, C)
    PROVE  /\ h = t
           /\ Owner([st EXCEPT ![t] = Replaced(st[t], path)], C, NoThread)
<1> DEFINE q == Replaced(st[t], path)
<1>1. st[t] \in Seq(Point) /\ Once(st[t], C) /\ (h = t <=> In(st[t], C))
  BY DEF Owner
<1>2. h = t /\ Once(q, C) /\ ~ In(q, C)
  BY <1>1, InReplaced
<1> HIDE DEF q
<1>3. ASSUME NEW u \in Thread
      PROVE  /\ NoThread = u <=> In([st EXCEPT ![t] = q][u], C)
             /\ Once([st EXCEPT ![t] = q][u], C)
  <2>1. (h = u <=> In(st[u], C)) /\ Once(st[u], C)
    BY DEF Owner
  <2>2. [st EXCEPT ![t] = q][u] = IF u = t THEN q ELSE st[u]
    OBVIOUS
  <2> QED
    BY <1>2, <2>1, <2>2, LogAssumption
<1> QED
  BY <1>2, <1>3 DEF Owner, q

-----------------------------------------------------------------------------
(* Every step keeps the invariant                                          *)

\* The paths that steps take, of no, one or two points.
LEMMA PathFacts ==
    ASSUME NEW C, NEW x \in Point, NEW y \in Point
    PROVE  /\ <<>> \in Seq(Point) /\ Len(<<>>) = 0
           /\ ~ In(<<>>, C) /\ Once(<<>>, C)
           /\ <<x>> \in Seq(Point) /\ Len(<<x>>) = 1 /\ <<x>>[1] = x
           /\ (In(<<x>>, C) <=> x \in C) /\ Once(<<x>>, C)
           /\ <<x, y>> \in Seq(Point) /\ Len(<<x, y>>) = 2
           /\ <<x, y>>[1] = x /\ <<x, y>>[2] = y
           /\ In(<<x, y>>, C) <=> x \in C \/ y \in C
           /\ x \notin C \/ y \notin C => Once(<<x, y>>, C)
<1>1. /\ <<>> \in Seq(Point) /\ Len(<<>>) = 0
      /\ ~ In(<<>>, C) /\ Once(<<>>, C)
  BY DEF In, Once
<1>2. <<x>> \in Seq(Point) /\ Len(<<x>>) = 1 /\ <<x>>[1] = x
  OBVIOUS
<1>3. (In(<<x>>, C) <=> x \in C) /\ Once(<<x>>, C)
  BY DEF In, Once
<1>4. /\ <<x, y>> \in Seq(Point) /\ Len(<<x, y>>) = 2
      /\ <<x, y>>[1] = x /\ <<x, y>>[2] = y
  OBVIOUS
<1>5. \A i \in 1 .. 2 : i = 1 \/ i = 2
  OBVIOUS
<1>6. 1 \in 1 .. 2 /\ 2 \in 1 .. 2
  OBVIOUS
<1>7. In(<<x, y>>, C) <=> x \in C \/ y \in C
  BY <1>4, <1>5, <1>6 DEF In
<1>8. x \notin C \/ y \notin C => Once(<<x, y>>, C)
  BY <1>4, <1>5, <1>6 DEF Once
<1> QED
  BY <1>1, <1>2, <1>3, <1>4, <1>7, <1>8

\* The innermost point of t, p, becomes the points of path.
LEMMA Moves ==
    ASSUME LogInv, NEW t \in Thread, NEW p, At(t, p),
           NEW path \in Seq(Point), Continue(t, path),
           Len(path) =< 2,
           Len(path) >= 1 => (p \in Library <=> path[1] \in Library),
           Len(path) = 2 => Above(build, path[1], path[2])
    PROVE  /\ build' = build
           /\ stack' \in [Thread -> Seq(Point)]
           /\ \A u \in Thread : Chain(build, stack'[u])
           /\ \A C, h :
                Owner(stack, C, h) /\ Once(path, C) /\ (p \in C <=> In(path, C))
                    => Owner(stack', C, h)
           /\ \A C :
                Owner(stack, C, NoThread) /\ Once(path, C) /\ In(path, C)
                    => Owner(stack', C, t)
           /\ \A C, h :
                Owner(stack, C, h) /\ p \in C /\ ~ In(path, C)
                    => h = t /\ Owner(stack', C, NoThread)
<1> DEFINE q == Replaced(stack[t], path)
<1>1. /\ stack \in [Thread -> Seq(Point)] /\ stack[t] \in Seq(Point)
      /\ stack[t] # <<>> /\ Last(stack[t]) = p /\ Chain(build, stack[t])
  BY DEF LogInv, Types, At
<1>2. build' = build /\ stack' = [stack EXCEPT ![t] = q]
  BY DEF Continue, Replaced
<1>3. q \in Seq(Point)
  BY <1>1, ReplacedFacts
<1>4. Chain(build, q)
  BY <1>1, ChainReplaced
<1>5. \A C, h :
        Owner(stack, C, h) /\ Once(path, C) /\ (p \in C <=> In(path, C))
            => Owner(stack', C, h)
  BY <1>1, <1>2, OwnerKept
<1>6. \A C :
        Owner(stack, C, NoThread) /\ Once(path, C) /\ In(path, C)
            => Owner(stack', C, t)
  BY <1>1, <1>2, OwnerTaken
<1>7. \A C, h :
        Owner(stack, C, h) /\ p \in C /\ ~ In(path, C)
            => h = t /\ Owner(stack', C, NoThread)
  BY <1>1, <1>2, OwnerGiven
<1> HIDE DEF q
<1>8. stack' \in [Thread -> Seq(Point)]
  BY <1>1, <1>2, <1>3
<1>9. \A u \in Thread : Chain(build, stack'[u])
  BY <1>1, <1>2, <1>4 DEF LogInv
<1> QED
  BY <1>2, <1>5, <1>6, <1>7, <1>8, <1>9

\* An idle thread begins with one point.
LEMMA Begins ==
    ASSUME LogInv, NEW t \in Thread, stack[t] = <<>>,
           NEW x \in {"call", "logger"},
           stack' = [stack EXCEPT ![t] = <<x>>],
           UNCHANGED <<build, locker, guard, ready, sink>>
    PROVE  LogInv'
<1>1. x \in Point /\ x \notin MutexHeld /\ x \notin GuardHeld /\ x \notin SinkHeld
  BY DEF Point, MutexHeld, GuardHeld, SinkHeld
<1>2. <<x>> \in Seq(Point) /\ Len(<<x>>) = 1
  BY <1>1, PathFacts
<1>3. stack \in [Thread -> Seq(Point)]
  BY DEF LogInv, Types
<1>4. \A u \in Thread : stack'[u] = IF u = t THEN <<x>> ELSE stack[u]
  BY <1>3
<1>5. Types'
  BY <1>2, <1>3 DEF LogInv, Types
<1>6. Chain(build, <<x>>)
  BY <1>2 DEF Chain
<1>7. \A u \in Thread : Chain(build', stack'[u])
  BY <1>4, <1>6 DEF LogInv
<1>8. ASSUME NEW C, NEW h, Owner(stack, C, h), x \notin C
      PROVE  Owner(stack', C, h)
  <2>1. ~ In(<<x>>, C) /\ Once(<<x>>, C)
    BY <1>1, <1>8, PathFacts
  <2>2. ~ In(<<>>, C)
    BY <1>1, PathFacts
  <2> QED
    BY <1>4, <1>8, <2>1, <2>2 DEF Owner
<1>9. /\ Owner(stack', MutexHeld, locker)
      /\ Owner(stack', GuardHeld, guard)
      /\ Owner(stack', SinkHeld, sink)
  BY <1>1, <1>8 DEF LogInv
<1> QED
  BY <1>5, <1>7, <1>9 DEF LogInv

\* The innermost point of t was p, and the points of Q take its place: what
\* that does to the lock with the points C, held by h.
Handed(t, p, Q, C, h) ==
    /\ (p \in C <=> \E x \in Q : x \in C) => Owner(stack', C, h)
    /\ h = NoThread /\ (\E x \in Q : x \in C) => Owner(stack', C, t)
    /\ p \in C /\ (\A x \in Q : x \notin C) => h = t /\ Owner(stack', C, NoThread)

Moved(t, p, Q) ==
    /\ build' = build
    /\ stack' \in [Thread -> Seq(Point)]
    /\ \A u \in Thread : Chain(build, stack'[u])
    /\ Handed(t, p, Q, MutexHeld, locker)
    /\ Handed(t, p, Q, GuardHeld, guard)
    /\ Handed(t, p, Q, SinkHeld, sink)

\* A step described lock by lock is a move.
LEMMA HandedAll ==
    ASSUME LogInv, NEW t \in Thread, NEW p, NEW Q,
           build' = build,
           stack' \in [Thread -> Seq(Point)],
           \A u \in Thread : Chain(build, stack'[u]),
           \A C \in {MutexHeld, GuardHeld, SinkHeld} : \A h :
               Owner(stack, C, h) => Handed(t, p, Q, C, h)
    PROVE  Moved(t, p, Q)
BY DEF Moved, LogInv

\* The innermost point is done.
LEMMA MovesOut ==
    ASSUME LogInv, NEW t \in Thread, NEW p, At(t, p), Continue(t, <<>>)
    PROVE  Moved(t, p, {})
<1> DEFINE path == <<>>
<1>1. path \in Seq(Point) /\ Len(path) = 0
  OBVIOUS
<1>2. \A C : ~ In(path, C) /\ Once(path, C)
  BY <1>1 DEF In, Once
<1>3. Continue(t, path)
  OBVIOUS
<1> HIDE DEF path
<1>4. /\ path \in Seq(Point) /\ Len(path) =< 2
      /\ Len(path) >= 1 => (p \in Library <=> path[1] \in Library)
      /\ Len(path) = 2 => Above(build, path[1], path[2])
  BY <1>1
<1>5. /\ build' = build
      /\ stack' \in [Thread -> Seq(Point)]
      /\ \A u \in Thread : Chain(build, stack'[u])
      /\ \A C, h :
           Owner(stack, C, h) /\ Once(path, C) /\ (p \in C <=> In(path, C))
               => Owner(stack', C, h)
      /\ \A C :
           Owner(stack, C, NoThread) /\ Once(path, C) /\ In(path, C)
               => Owner(stack', C, t)
      /\ \A C, h :
           Owner(stack, C, h) /\ p \in C /\ ~ In(path, C)
               => h = t /\ Owner(stack', C, NoThread)
  BY <1>3, <1>4, Moves, Zenon
<1>6. \A C, h : Owner(stack, C, h) => Handed(t, p, {}, C, h)
  BY <1>2, <1>5 DEF Handed
<1> QED
  BY <1>5, <1>6, HandedAll

\* The innermost point becomes the next one of its call.
LEMMA MovesTo ==
    ASSUME LogInv, NEW t \in Thread, NEW p, At(t, p),
           NEW x \in Point, Continue(t, <<x>>),
           p \in Library <=> x \in Library
    PROVE  Moved(t, p, {x})
<1> DEFINE path == <<x>>
<1>1. path \in Seq(Point) /\ Len(path) = 1 /\ path[1] = x
  OBVIOUS
<1>2. \A C : (In(path, C) <=> x \in C) /\ Once(path, C)
  BY <1>1 DEF In, Once
<1>3. Continue(t, path)
  OBVIOUS
<1> HIDE DEF path
<1>4. /\ path \in Seq(Point) /\ Len(path) =< 2
      /\ Len(path) >= 1 => (p \in Library <=> path[1] \in Library)
      /\ Len(path) = 2 => Above(build, path[1], path[2])
  BY <1>1
<1>5. /\ build' = build
      /\ stack' \in [Thread -> Seq(Point)]
      /\ \A u \in Thread : Chain(build, stack'[u])
      /\ \A C, h :
           Owner(stack, C, h) /\ Once(path, C) /\ (p \in C <=> In(path, C))
               => Owner(stack', C, h)
      /\ \A C :
           Owner(stack, C, NoThread) /\ Once(path, C) /\ In(path, C)
               => Owner(stack', C, t)
      /\ \A C, h :
           Owner(stack, C, h) /\ p \in C /\ ~ In(path, C)
               => h = t /\ Owner(stack', C, NoThread)
  BY <1>3, <1>4, Moves, Zenon
<1>6. \A C, h : Owner(stack, C, h) => Handed(t, p, {x}, C, h)
  BY <1>2, <1>5 DEF Handed
<1> QED
  BY <1>5, <1>6, HandedAll

\* As before, and a call goes on above it.
LEMMA MovesUp ==
    ASSUME LogInv, NEW t \in Thread, NEW p, At(t, p),
           NEW x \in Point, NEW y \in Point, Continue(t, <<x, y>>),
           p \in Library <=> x \in Library,
           Above(build, x, y)
    PROVE  Moved(t, p, {x, y})
<1> DEFINE path == <<x, y>>
<1>1. path \in Seq(Point) /\ Len(path) = 2 /\ path[1] = x /\ path[2] = y
  OBVIOUS
<1>2. \A C \in {MutexHeld, GuardHeld, SinkHeld} :
        (In(path, C) <=> x \in C \/ y \in C) /\ Once(path, C)
  <2>1. TAKE C \in {MutexHeld, GuardHeld, SinkHeld}
  <2>2. x \notin C \/ y \notin C
    BY DEF Above, Library, Logging, MutexHeld, GuardHeld, SinkHeld
  <2> QED
    BY <2>2, PathFacts
<1>3. Continue(t, path)
  OBVIOUS
<1> HIDE DEF path
<1>4. /\ path \in Seq(Point) /\ Len(path) =< 2
      /\ Len(path) >= 1 => (p \in Library <=> path[1] \in Library)
      /\ Len(path) = 2 => Above(build, path[1], path[2])
  BY <1>1
<1>5. /\ build' = build
      /\ stack' \in [Thread -> Seq(Point)]
      /\ \A u \in Thread : Chain(build, stack'[u])
      /\ \A C, h :
           Owner(stack, C, h) /\ Once(path, C) /\ (p \in C <=> In(path, C))
               => Owner(stack', C, h)
      /\ \A C :
           Owner(stack, C, NoThread) /\ Once(path, C) /\ In(path, C)
               => Owner(stack', C, t)
      /\ \A C, h :
           Owner(stack, C, h) /\ p \in C /\ ~ In(path, C)
               => h = t /\ Owner(stack', C, NoThread)
  BY <1>3, <1>4, Moves, Zenon
<1>6. \A C \in {MutexHeld, GuardHeld, SinkHeld} : \A h :
        Owner(stack, C, h) => Handed(t, p, {x, y}, C, h)
  BY <1>2, <1>5 DEF Handed
<1> QED
  BY <1>5, <1>6, HandedAll

\* Nobody holds anything at the start.
LEMMA InitInv == Init => LogInv
<1> SUFFICES ASSUME Init PROVE LogInv
  OBVIOUS
<1>1. \A t \in Thread : stack[t] = <<>>
  BY DEF Init
<1>2. stack \in [Thread -> Seq(Point)]
  <2>1. <<>> \in Seq(Point)
    OBVIOUS
  <2> QED
    BY <2>1 DEF Init
<1>3. Types
  BY <1>2 DEF Init, Types
<1>4. \A t \in Thread : Chain(build, stack[t])
  BY <1>1 DEF Chain
<1>5. \A C : Owner(stack, C, NoThread)
  BY <1>1, LogAssumption DEF Owner, In, Once
<1> QED
  BY <1>3, <1>4, <1>5 DEF LogInv, Init

\* The rest of the invariant follows from what the step does to the locks.
LEMMA LocksKept ==
    ASSUME LogInv, NEW t \in Thread, NEW p, NEW Q, Moved(t, p, Q),
           locker' \in Thread \union {NoThread},
           guard' \in Thread \union {NoThread},
           sink' \in Thread \union {NoThread},
           ready' \in BOOLEAN,
           Owner(stack', MutexHeld, locker'),
           Owner(stack', GuardHeld, guard'),
           Owner(stack', SinkHeld, sink'),
           guard' # NoThread => ~ ready'
    PROVE  LogInv'
<1>1. build \in Build
  BY DEF LogInv, Types
<1>2. Types'
  BY <1>1 DEF Moved, Types
<1>3. \A u \in Thread : Chain(build', stack'[u])
  BY DEF Moved
<1> QED
  BY <1>2, <1>3 DEF LogInv

\* A thread takes the mutex only when nobody holds it.
LEMMA LockInv ==
    ASSUME LogInv, NEW t \in Thread, Lock(t)
    PROVE  LogInv'
<1>1. /\ At(t, "call") /\ locker = NoThread /\ locker' = t
      /\ UNCHANGED <<guard, ready, sink>>
  BY DEF Lock
<1>2. \E Q \in {{"inside"}, {"inside", "logger"}} : Moved(t, "call", Q)
  <2>1. /\ "inside" \in Point /\ "logger" \in Point
        /\ "call" \in Library /\ "inside" \in Library /\ "logger" \in Logging
    BY DEF Point, Library, Logging
  <2>2. CASE build.debug
    <3>1. Continue(t, <<"inside", "logger">>)
      BY <2>2 DEF Lock
    <3>2. Above(build, "inside", "logger")
      BY <2>1, <2>2 DEF Above
    <3> QED
      BY <1>1, <2>1, <3>1, <3>2, MovesUp
  <2>3. CASE ~ build.debug
    <3>1. Continue(t, <<"inside">>)
      BY <2>3 DEF Lock
    <3> QED
      BY <1>1, <2>1, <3>1, MovesTo
  <2> QED
    BY <2>2, <2>3
<1>3. PICK Q \in {{"inside"}, {"inside", "logger"}} : Moved(t, "call", Q)
  BY <1>2
<1>4. Owner(stack', MutexHeld, t)
  BY <1>1, <1>3 DEF Moved, Handed, MutexHeld
<1>5. Owner(stack', GuardHeld, guard)
  BY <1>3 DEF Moved, Handed, GuardHeld
<1>6. Owner(stack', SinkHeld, sink)
  BY <1>3 DEF Moved, Handed, SinkHeld
<1> QED
  BY <1>1, <1>3, <1>4, <1>5, <1>6, LocksKept DEF LogInv, Types

\* A failing call keeps the mutex while it logs.
LEMMA FailInv ==
    ASSUME LogInv, NEW t \in Thread, Fail(t)
    PROVE  LogInv'
<1>1. /\ At(t, "inside") /\ Continue(t, <<"leave", "logger">>)
      /\ UNCHANGED <<locker, guard, ready, sink>>
  BY DEF Fail
<1>2. Moved(t, "inside", {"leave", "logger"})
  <2>1. /\ "leave" \in Point /\ "logger" \in Point
        /\ "inside" \in Library /\ "leave" \in Library
    BY DEF Point, Library
  <2>2. Above(build, "leave", "logger")
    BY DEF Above, Logging
  <2> QED
    BY <1>1, <2>1, <2>2, MovesUp
<1>3. Owner(stack', MutexHeld, locker)
  BY <1>2 DEF Moved, Handed, MutexHeld
<1>4. Owner(stack', GuardHeld, guard)
  BY <1>2 DEF Moved, Handed, GuardHeld
<1>5. Owner(stack', SinkHeld, sink)
  BY <1>2 DEF Moved, Handed, SinkHeld
<1> QED
  BY <1>1, <1>2, <1>3, <1>4, <1>5, LocksKept DEF LogInv, Types

\* The ways out of a call that end with the unlock give the mutex back.
LEMMA UnlockInv ==
    ASSUME LogInv, NEW t \in Thread, Unlock(t) \/ UnlockFailed(t)
    PROVE  LogInv'
<1>1. PICK p \in {"inside", "leave"} : At(t, p)
  BY DEF Unlock, UnlockFailed
<1>2. /\ Continue(t, <<>>) /\ locker' = NoThread
      /\ UNCHANGED <<guard, ready, sink>>
  BY DEF Unlock, UnlockFailed
<1>3. Moved(t, p, {})
  BY <1>1, <1>2, MovesOut
<1>4. Owner(stack', MutexHeld, NoThread)
  BY <1>1, <1>3 DEF Moved, Handed, MutexHeld
<1>5. Owner(stack', GuardHeld, guard)
  BY <1>1, <1>3 DEF Moved, Handed, GuardHeld
<1>6. Owner(stack', SinkHeld, sink)
  BY <1>1, <1>3 DEF Moved, Handed, SinkHeld
<1> QED
  BY <1>2, <1>3, <1>4, <1>5, <1>6, LocksKept DEF LogInv, Types

\* So does the one that may log afterwards.
LEMMA UnlockExtendedInv ==
    ASSUME LogInv, NEW t \in Thread, UnlockExtended(t)
    PROVE  LogInv'
<1>1. /\ At(t, "inside") /\ locker' = NoThread
      /\ UNCHANGED <<guard, ready, sink>>
  BY DEF UnlockExtended
<1>2. PICK Q \in {{}, {"unlocked", "logger"}} : Moved(t, "inside", Q)
  <2>1. /\ "unlocked" \in Point /\ "logger" \in Point /\ "logger" \in Logging
        /\ "inside" \in Library /\ "unlocked" \in Library
    BY DEF Point, Library, Logging
  <2>2. CASE build.debug
    <3>1. Continue(t, <<"unlocked", "logger">>)
      BY <2>2 DEF UnlockExtended
    <3>2. Above(build, "unlocked", "logger")
      BY <2>1, <2>2 DEF Above
    <3> QED
      BY <1>1, <2>1, <3>1, <3>2, MovesUp
  <2>3. CASE ~ build.debug
    <3>1. Continue(t, <<>>)
      BY <2>3 DEF UnlockExtended
    <3> QED
      BY <1>1, <3>1, MovesOut
  <2> QED
    BY <2>2, <2>3
<1>3. Owner(stack', MutexHeld, NoThread)
  BY <1>2 DEF Moved, Handed, MutexHeld
<1>4. Owner(stack', GuardHeld, guard)
  BY <1>2 DEF Moved, Handed, GuardHeld
<1>5. Owner(stack', SinkHeld, sink)
  BY <1>2 DEF Moved, Handed, SinkHeld
<1> QED
  BY <1>1, <1>2, <1>3, <1>4, <1>5, LocksKept DEF LogInv, Types

\* A call that has logged after its unlock returns.
LEMMA FinishInv ==
    ASSUME LogInv, NEW t \in Thread, Finish(t)
    PROVE  LogInv'
<1>1. /\ At(t, "unlocked") /\ Continue(t, <<>>)
      /\ UNCHANGED <<locker, guard, ready, sink>>
  BY DEF Finish
<1>2. Moved(t, "unlocked", {})
  BY <1>1, MovesOut
<1>3. Owner(stack', MutexHeld, locker)
  BY <1>2 DEF Moved, Handed, MutexHeld
<1>4. Owner(stack', GuardHeld, guard)
  BY <1>2 DEF Moved, Handed, GuardHeld
<1>5. Owner(stack', SinkHeld, sink)
  BY <1>2 DEF Moved, Handed, SinkHeld
<1> QED
  BY <1>1, <1>2, <1>3, <1>4, <1>5, LocksKept DEF LogInv, Types

\* Only one thread constructs the logger.
LEMMA GetLoggerInv ==
    ASSUME LogInv, NEW t \in Thread, GetLogger(t)
    PROVE  LogInv'
<1>1. At(t, "logger") /\ UNCHANGED <<locker, ready, sink>>
  BY DEF GetLogger
<1>2. /\ "sink" \in Point /\ "init" \in Point
      /\ "logger" \notin Library /\ "sink" \notin Library /\ "init" \notin Library
  BY DEF Point, Library
<1>3. CASE ready /\ Continue(t, <<"sink">>) /\ UNCHANGED guard
  <2>1. Moved(t, "logger", {"sink"})
    BY <1>1, <1>2, <1>3, MovesTo
  <2>2. Owner(stack', MutexHeld, locker)
    BY <2>1 DEF Moved, Handed, MutexHeld
  <2>3. Owner(stack', GuardHeld, guard)
    BY <2>1 DEF Moved, Handed, GuardHeld
  <2>4. Owner(stack', SinkHeld, sink)
    BY <2>1 DEF Moved, Handed, SinkHeld
  <2> QED
    BY <1>1, <1>3, <2>1, <2>2, <2>3, <2>4, LocksKept DEF LogInv, Types
<1>4. CASE ~ ready /\ guard = NoThread /\ guard' = t /\ Continue(t, <<"init">>)
  <2>1. Moved(t, "logger", {"init"})
    BY <1>1, <1>2, <1>4, MovesTo
  <2>2. Owner(stack', MutexHeld, locker)
    BY <2>1 DEF Moved, Handed, MutexHeld
  <2>3. Owner(stack', GuardHeld, t)
    BY <1>4, <2>1 DEF Moved, Handed, GuardHeld
  <2>4. Owner(stack', SinkHeld, sink)
    BY <2>1 DEF Moved, Handed, SinkHeld
  <2> QED
    BY <1>1, <1>4, <2>1, <2>2, <2>3, <2>4, LocksKept DEF LogInv, Types
<1> QED
  BY <1>3, <1>4 DEF GetLogger

\* The logger's own memory: nothing, or a call if malloc is redirected.
LEMMA AllocatingMoves ==
    ASSUME LogInv, NEW t \in Thread, NEW p \in Logging, At(t, p),
           NEW x \in {"built", "written"}, Allocating(t, x)
    PROVE  \E Q \in {{x}, {x, "call"}} : Moved(t, p, Q)
<1>1. /\ x \in Point /\ "call" \in Point
      /\ p \notin Library /\ x \notin Library /\ "call" \in Library
  BY DEF Point, Library, Logging
<1>2. CASE Continue(t, <<x>>)
  BY <1>1, <1>2, MovesTo
<1>3. CASE build.override /\ Continue(t, <<x, "call">>)
  <2>1. Above(build, x, "call")
    BY <1>1, <1>3 DEF Above
  <2> QED
    BY <1>1, <1>3, <2>1, MovesUp
<1> QED
  BY <1>2, <1>3 DEF Allocating

\* Constructing goes on under the guard.
LEMMA ConstructInv ==
    ASSUME LogInv, NEW t \in Thread, Construct(t)
    PROVE  LogInv'
<1>1. At(t, "init") /\ UNCHANGED <<locker, guard, ready, sink>>
  BY DEF Construct
<1>2. PICK Q \in {{"built"}, {"built", "call"}} : Moved(t, "init", Q)
  <2>1. Allocating(t, "built")
    BY DEF Construct
  <2>2. "init" \in Logging
    BY DEF Logging
  <2> QED
    BY <1>1, <2>1, <2>2, AllocatingMoves
<1>3. Owner(stack', MutexHeld, locker)
  BY <1>2 DEF Moved, Handed, MutexHeld
<1>4. Owner(stack', GuardHeld, guard)
  BY <1>2 DEF Moved, Handed, GuardHeld
<1>5. Owner(stack', SinkHeld, sink)
  BY <1>2 DEF Moved, Handed, SinkHeld
<1> QED
  BY <1>1, <1>2, <1>3, <1>4, <1>5, LocksKept DEF LogInv, Types

\* The logger is ready and the guard free.
LEMMA ConstructedInv ==
    ASSUME LogInv, NEW t \in Thread, Constructed(t)
    PROVE  LogInv'
<1>1. /\ At(t, "built") /\ Continue(t, <<"sink">>)
      /\ ready' = TRUE /\ guard' = NoThread /\ UNCHANGED <<locker, sink>>
  BY DEF Constructed
<1>2. Moved(t, "built", {"sink"})
  <2>1. "sink" \in Point /\ "built" \notin Library /\ "sink" \notin Library
    BY DEF Point, Library
  <2> QED
    BY <1>1, <2>1, MovesTo
<1>3. Owner(stack', MutexHeld, locker)
  BY <1>2 DEF Moved, Handed, MutexHeld
<1>4. Owner(stack', GuardHeld, NoThread)
  BY <1>2 DEF Moved, Handed, GuardHeld
<1>5. Owner(stack', SinkHeld, sink)
  BY <1>2 DEF Moved, Handed, SinkHeld
<1> QED
  BY <1>1, <1>2, <1>3, <1>4, <1>5, LocksKept DEF LogInv, Types

\* A thread takes the sink only when nobody holds it.
LEMMA TakeSinkInv ==
    ASSUME LogInv, NEW t \in Thread, TakeSink(t)
    PROVE  LogInv'
<1>1. /\ At(t, "sink") /\ Continue(t, <<"write">>)
      /\ sink = NoThread /\ sink' = t /\ UNCHANGED <<locker, guard, ready>>
  BY DEF TakeSink
<1>2. Moved(t, "sink", {"write"})
  <2>1. "write" \in Point /\ "sink" \notin Library /\ "write" \notin Library
    BY DEF Point, Library
  <2> QED
    BY <1>1, <2>1, MovesTo
<1>3. Owner(stack', MutexHeld, locker)
  BY <1>2 DEF Moved, Handed, MutexHeld
<1>4. Owner(stack', GuardHeld, guard)
  BY <1>2 DEF Moved, Handed, GuardHeld
<1>5. Owner(stack', SinkHeld, t)
  BY <1>1, <1>2 DEF Moved, Handed, SinkHeld
<1> QED
  BY <1>1, <1>2, <1>3, <1>4, <1>5, LocksKept DEF LogInv, Types

\* The message is written under the sink's mutex.
LEMMA WriteInv ==
    ASSUME LogInv, NEW t \in Thread, Write(t)
    PROVE  LogInv'
<1>1. At(t, "write") /\ UNCHANGED <<locker, guard, ready, sink>>
  BY DEF Write
<1>2. PICK Q \in {{"written"}, {"written", "call"}} : Moved(t, "write", Q)
  <2>1. Allocating(t, "written")
    BY DEF Write
  <2>2. "write" \in Logging
    BY DEF Logging
  <2> QED
    BY <1>1, <2>1, <2>2, AllocatingMoves
<1>3. Owner(stack', MutexHeld, locker)
  BY <1>2 DEF Moved, Handed, MutexHeld
<1>4. Owner(stack', GuardHeld, guard)
  BY <1>2 DEF Moved, Handed, GuardHeld
<1>5. Owner(stack', SinkHeld, sink)
  BY <1>2 DEF Moved, Handed, SinkHeld
<1> QED
  BY <1>1, <1>2, <1>3, <1>4, <1>5, LocksKept DEF LogInv, Types

\* The sink's mutex is given back.
LEMMA WrittenInv ==
    ASSUME LogInv, NEW t \in Thread, Written(t)
    PROVE  LogInv'
<1>1. /\ At(t, "written") /\ Continue(t, <<>>)
      /\ sink' = NoThread /\ UNCHANGED <<locker, guard, ready>>
  BY DEF Written
<1>2. Moved(t, "written", {})
  BY <1>1, MovesOut
<1>3. Owner(stack', MutexHeld, locker)
  BY <1>2 DEF Moved, Handed, MutexHeld
<1>4. Owner(stack', GuardHeld, guard)
  BY <1>2 DEF Moved, Handed, GuardHeld
<1>5. Owner(stack', SinkHeld, NoThread)
  BY <1>2 DEF Moved, Handed, SinkHeld
<1> QED
  BY <1>1, <1>2, <1>3, <1>4, <1>5, LocksKept DEF LogInv, Types

\* The invariant holds in every state of every build.
THEOREM LogInvariant == Spec => []LogInv
<1>1. LogInv /\ [Next]_vars => LogInv'
  <2> SUFFICES ASSUME LogInv, [Next]_vars PROVE LogInv'
    OBVIOUS
  <2>1. CASE UNCHANGED vars
    BY <2>1 DEF vars, LogInv, Types, Owner, Chain, In, Once, Above
  <2>2. ASSUME NEW t \in Thread,
               Call(t) \/ Complain(t) \/ Fail(t) \/ Acquire(t) \/ Proceed(t)
        PROVE  LogInv'
    <3>1. CASE Call(t)
      BY <3>1, Begins DEF Call
    <3>2. CASE Complain(t)
      BY <3>2, Begins DEF Complain
    <3>3. CASE Fail(t)
      BY <3>3, FailInv
    <3>4. CASE Acquire(t)
      BY <3>4, LockInv, GetLoggerInv, TakeSinkInv DEF Acquire
    <3>5. CASE Proceed(t)
      BY <3>5, UnlockInv, UnlockExtendedInv, FinishInv, ConstructInv,
         ConstructedInv, WriteInv, WrittenInv DEF Proceed
    <3> QED
      BY <2>2, <3>1, <3>2, <3>3, <3>4, <3>5
  <2> QED
    BY <2>1, <2>2 DEF Next
<1> QED
  BY <1>1, InitInv, PTL DEF Spec

-----------------------------------------------------------------------------
(* What the invariant says                                                 *)

\* Passes, on positions of the stack.
LEMMA PassesIn ==
    ASSUME LogInv, NEW t \in Thread, NEW C
    PROVE  Passes(t, C) <=> In(stack[t], C)
<1>1. stack[t] \in Seq(Point)
  BY DEF LogInv, Types
<1>2. Range(stack[t]) = {stack[t][i] : i \in 1 .. Len(stack[t])}
  BY <1>1 DEF Range
<1> QED
  BY <1>2 DEF Passes, In

\* Who passes the points that hold a lock holds it.
LEMMA HolderPasses ==
    ASSUME LogInv, NEW t \in Thread
    PROVE  /\ locker = t <=> In(stack[t], MutexHeld)
           /\ guard = t  <=> In(stack[t], GuardHeld)
           /\ sink = t   <=> In(stack[t], SinkHeld)
BY DEF LogInv, Owner

\* A point of t is its innermost one, or one that a call goes on above.
LEMMA InnermostOrBelow ==
    ASSUME LogInv, NEW t \in Thread, NEW i \in 1 .. Len(stack[t])
    PROVE  \/ At(t, stack[t][i])
           \/ i + 1 \in 1 .. Len(stack[t]) /\ Above(build, stack[t][i], stack[t][i + 1])
<1>1. stack[t] \in Seq(Point) /\ Chain(build, stack[t])
  BY DEF LogInv, Types
<1>2. Len(stack[t]) \in Nat
  BY <1>1
<1>3. CASE i = Len(stack[t])
  <2>1. stack[t] # <<>>
    BY <1>1, <1>2, <1>3
  <2> QED
    BY <1>3, <2>1 DEF At, Last
<1>4. CASE i # Len(stack[t])
  <2>1. i \in 1 .. Len(stack[t]) - 1 /\ i + 1 \in 1 .. Len(stack[t])
    BY <1>2, <1>4
  <2> QED
    BY <1>1, <2>1 DEF Chain
<1> QED
  BY <1>3, <1>4

\* Every variable has its type, and without the redirection no thread is more
\* than two points deep.
THEOREM TypeCorrect == Spec => []TypeOK
<1>1. ASSUME LogInv PROVE TypeOK
  <2>1. ASSUME ~ build.override, NEW t \in Thread
        PROVE  Len(stack[t]) =< 2
    <3>1. stack[t] \in Seq(Point) /\ Chain(build, stack[t])
      BY <1>1 DEF LogInv, Types
    <3>2. Len(stack[t]) \in Nat
      BY <3>1
    <3>3. SUFFICES ASSUME Len(stack[t]) > 2 PROVE FALSE
      BY <3>2
    <3>4. 1 \in 1 .. Len(stack[t]) - 1 /\ 2 \in 1 .. Len(stack[t]) - 1
      BY <3>2, <3>3
    <3>5. Above(build, stack[t][1], stack[t][2]) /\ Above(build, stack[t][2], stack[t][3])
      BY <3>1, <3>4 DEF Chain
    <3> QED
      BY <2>1, <3>5 DEF Above, Logging
  <2> QED
    BY <1>1, <2>1 DEF LogInv, Types, TypeOK
<1> QED
  BY <1>1, LogInvariant, PTL

\* Each lock is held exactly between taking it and giving it back.
THEOREM LocksHeldInside == Spec => []HeldInside
<1>1. ASSUME LogInv PROVE HeldInside
  <2>1. ASSUME NEW t \in Thread
        PROVE  /\ locker = t <=> Passes(t, {"inside", "leave"})
               /\ guard = t  <=> Passes(t, {"init", "built"})
               /\ sink = t   <=> Passes(t, {"write", "written"})
    BY <1>1, PassesIn, HolderPasses DEF MutexHeld, GuardHeld, SinkHeld
  <2>2. ASSUME NEW t \in Thread, guard = t PROVE ~ ready
    BY <1>1, <2>2, LogAssumption DEF LogInv
  <2> QED
    BY <2>1, <2>2 DEF HeldInside
<1> QED
  BY <1>1, LogInvariant, PTL

\* A thread that is stuck with others is at one of the three points that wait.
LEMMA StuckAt ==
    ASSUME LogInv, NEW S \in SUBSET Thread, Stuck(S), NEW t \in S
    PROVE  \/ At(t, "call") /\ locker \in S
           \/ At(t, "logger") /\ guard \in S
           \/ At(t, "sink") /\ sink \in S
<1>1. WaitsFor(t) \in S /\ NoThread \notin S
  BY LogAssumption DEF Stuck
<1> QED
  BY <1>1 DEF WaitsFor, At

\* Without the redirection no threads wait for each other in a circle.
THEOREM NoThreadsInACircle == Spec => []NoWaitCycle
<1>1. ASSUME LogInv PROVE NoWaitCycle
  <2>1. SUFFICES ASSUME ~ build.override, NEW S \in SUBSET Thread, Stuck(S)
                 PROVE  FALSE
    BY DEF NoWaitCycle
  <2>2. PICK t \in S : TRUE
    BY <2>1 DEF Stuck
  <2>3. ~ sink \in S
    <3>1. SUFFICES ASSUME sink \in S PROVE FALSE
      OBVIOUS
    <3>2. PICK i \in 1 .. Len(stack[sink]) : stack[sink][i] \in SinkHeld
      BY <1>1, <2>1, <3>1, HolderPasses DEF In
    <3>3. At(sink, "write") \/ At(sink, "written")
      BY <1>1, <2>1, <3>1, <3>2, InnermostOrBelow DEF Above, SinkHeld
    <3> QED
      BY <1>1, <2>1, <3>1, <3>3, StuckAt DEF At
  <2>4. ~ guard \in S
    <3>1. SUFFICES ASSUME guard \in S PROVE FALSE
      OBVIOUS
    <3>2. PICK i \in 1 .. Len(stack[guard]) : stack[guard][i] \in GuardHeld
      BY <1>1, <2>1, <3>1, HolderPasses DEF In
    <3>3. At(guard, "init") \/ At(guard, "built")
      BY <1>1, <2>1, <3>1, <3>2, InnermostOrBelow DEF Above, GuardHeld
    <3> QED
      BY <1>1, <2>1, <3>1, <3>3, StuckAt DEF At
  <2>5. locker \in S /\ At(locker, "call")
    <3>1. locker \in S
      BY <1>1, <2>1, <2>2, <2>3, <2>4, StuckAt
    <3> QED
      BY <1>1, <2>1, <2>3, <2>4, <3>1, StuckAt
  <2>6. PICK i \in 1 .. Len(stack[locker]) : stack[locker][i] \in MutexHeld
    BY <1>1, <2>1, <2>5, HolderPasses DEF In
  <2>7. /\ i + 1 \in 1 .. Len(stack[locker])
        /\ stack[locker][i + 1] \in Logging
    BY <1>1, <2>1, <2>5, <2>6, InnermostOrBelow DEF Above, MutexHeld, At
  <2>8. At(locker, stack[locker][i + 1])
    BY <1>1, <2>1, <2>5, <2>7, InnermostOrBelow DEF Above, Logging
  <2> QED
    BY <2>5, <2>7, <2>8 DEF At, Logging
<1> QED
  BY <1>1, LogInvariant, PTL

\* With the redirection, and without DEBUG, threads wait for each other in a
\* circle only if one of them logs a failure while it holds the mutex.
THEOREM StuckOnlyAfterFailure == Spec => []StuckAfterFailure
<1>1. ASSUME LogInv PROVE StuckAfterFailure
  <2>1. SUFFICES ASSUME ~ build.debug, NEW S \in SUBSET Thread, Stuck(S),
                        \A t \in S : ~ Passes(t, {"leave"})
                 PROVE  FALSE
    BY DEF StuckAfterFailure
  <2>2. PICK t \in S : TRUE
    BY <2>1 DEF Stuck
  <2>3. ASSUME NEW u \in S, NEW i \in 1 .. Len(stack[u])
        PROVE  stack[u][i] # "leave" /\ (stack[u][i] = "inside" => At(u, "inside"))
    <3>1. stack[u][i] # "leave"
      BY <1>1, <2>1, PassesIn DEF In
    <3>2. stack[u][i] = "inside" => At(u, "inside")
      BY <1>1, <2>1, InnermostOrBelow DEF Above
    <3> QED
      BY <3>1, <3>2
  <2>4. ~ locker \in S
    <3>1. SUFFICES ASSUME locker \in S PROVE FALSE
      OBVIOUS
    <3>2. PICK i \in 1 .. Len(stack[locker]) : stack[locker][i] \in MutexHeld
      BY <1>1, <2>1, <3>1, HolderPasses DEF In
    <3>3. At(locker, "inside")
      BY <2>3, <3>1, <3>2 DEF MutexHeld
    <3> QED
      BY <1>1, <2>1, <3>1, <3>3, StuckAt DEF At
  <2>5. ASSUME NEW u \in S, NEW i \in 1 .. Len(stack[u]),
               stack[u][i] \in {"init", "built", "write", "written"}
        PROVE  FALSE
    <3>1. CASE At(u, stack[u][i])
      BY <1>1, <2>1, <2>5, <3>1, StuckAt DEF At
    <3>2. CASE /\ i + 1 \in 1 .. Len(stack[u])
               /\ Above(build, stack[u][i], stack[u][i + 1])
      <4>1. stack[u][i + 1] \in {"call", "inside", "leave", "unlocked"}
        BY <2>5, <3>2 DEF Above, Library
      <4>2. CASE stack[u][i + 1] = "call"
        <5>1. At(u, "call")
          BY <1>1, <2>1, <3>2, <4>2, InnermostOrBelow DEF Above
        <5> QED
          BY <1>1, <2>1, <2>4, <5>1, StuckAt DEF At
      <4>3. CASE stack[u][i + 1] = "inside"
        <5>1. At(u, "inside")
          BY <2>3, <3>2, <4>3
        <5> QED
          BY <1>1, <2>1, <5>1, StuckAt DEF At
      <4>4. CASE stack[u][i + 1] = "unlocked"
        <5>1. At(u, "unlocked")
          BY <1>1, <2>1, <3>2, <4>4, InnermostOrBelow DEF Above
        <5> QED
          BY <1>1, <2>1, <5>1, StuckAt DEF At
      <4> QED
        BY <2>3, <3>2, <4>1, <4>2, <4>3, <4>4
    <3> QED
      BY <1>1, <2>1, <3>1, <3>2, InnermostOrBelow
  <2>6. ~ guard \in S
    BY <1>1, <2>1, <2>5, HolderPasses DEF In, GuardHeld
  <2>7. ~ sink \in S
    BY <1>1, <2>1, <2>5, HolderPasses DEF In, SinkHeld
  <2> QED
    BY <1>1, <2>1, <2>2, <2>4, <2>6, <2>7, StuckAt
<1> QED
  BY <1>1, LogInvariant, PTL

=============================================================================

-------------------------- MODULE SizeArithProofs ---------------------------
(***************************************************************************)
(* Proofs about SizeArith: the least block and the bin for every size that *)
(* fits an unsigned with the header, and calloc's guard for every pair of  *)
(* arguments, on a machine of any width.                                   *)
(*                                                                         *)
(* The powers of two are named once, u and w: to the provers they are two  *)
(* numbers about which PowersAssumption and SizeAssumption say all that is *)
(* needed.                                                                 *)
(***************************************************************************)
EXTENDS SizeArith, TLAPS

-----------------------------------------------------------------------------
(* Division                                                                *)

\* Quotient and remainder.
LEMMA Division ==
    ASSUME NEW a \in Nat \ {0}, NEW n \in Nat
    PROVE  /\ n \div a \in Nat
           /\ n % a \in 0 .. a - 1
           /\ n = a * (n \div a) + (n % a)
  OBVIOUS

\* There is only one quotient and one remainder.
LEMMA Quotient ==
    ASSUME NEW a \in Nat \ {0}, NEW q \in Nat, NEW r \in 0 .. a - 1
    PROVE  (a * q + r) \div a = q /\ (a * q + r) % a = r
  OBVIOUS

\* A multiple is divided exactly.
LEMMA Multiple ==
    ASSUME NEW a \in Nat \ {0}, NEW n \in Nat, n % a = 0
    PROVE  n \div a \in Nat /\ n = a * (n \div a)
  BY Division

\* Below the modulus nothing wraps.
LEMMA Below ==
    ASSUME NEW m \in Nat \ {0}, NEW n \in Nat, n < m
    PROVE  n % m = n
<1>1. n = m * 0 + n /\ n \in 0 .. m - 1
  OBVIOUS
<1> QED
  BY <1>1, Quotient

\* At the modulus and above it the remainder is another number.
LEMMA Wraps ==
    ASSUME NEW m \in Nat \ {0}, NEW n \in Nat, n >= m
    PROVE  n % m # n
  BY Division

\* Multiples of a are compared by their quotients.
LEMMA Multiples ==
    ASSUME NEW a \in Nat \ {0}, NEW j \in Nat, NEW k \in Nat
    PROVE  /\ a * j < a * k + a => j =< k
           /\ j =< k => a * j =< a * k
           /\ j =< k => a * k - a * j = a * (k - j)
<1>1. j =< k => a * j =< a * k
  OBVIOUS
<1>2. j >= k + 1 => a * j >= a * k + a
  OBVIOUS
<1>3. a * j \in Nat /\ a * k \in Nat
  OBVIOUS
<1>4. a * k - a * j = a * (k - j)
  OBVIOUS
<1> QED
  BY <1>1, <1>2, <1>3, <1>4

-----------------------------------------------------------------------------
(* The block for a request                                                 *)

\* No request so large that the header and the alignment take it past the
\* values of unsigned: the sizes below 4 GiB, where the mask's zeros above
\* unsigned clear nothing.
OrdinarySizes == LargestSize =< 2 ^ UnsignedBits - HeaderBytes - AlignTo

\* The size of the user area is the least multiple of AlignTo that holds the
\* request (allocator.cpp 47-50).
LEMMA OrdinaryUserSize ==
    ASSUME OrdinarySizes, NEW s \in 0 .. LargestSize
    PROVE  \E k \in Nat : /\ UserSize(s) = AlignTo * k
                          /\ s =< AlignTo * k /\ AlignTo * k < s + AlignTo
<1>1. PICK a, h, u, w : a = AlignTo /\ h = HeaderBytes
                        /\ u = 2 ^ UnsignedBits /\ w = 2 ^ SizeBits
  OBVIOUS
<1>2. /\ a \in Nat \ {0} /\ h \in Nat /\ u \in Nat \ {0} /\ w \in Nat \ {0}
      /\ u =< w /\ h % a = 0
      /\ s \in Nat /\ s + h + a =< u
  BY <1>1, SizeAssumption, PowersAssumption DEF OrdinarySizes
<1>3. PICK x : x = h + s + a - 1
  OBVIOUS
<1>4. x \in Nat /\ x < u /\ x < w
  BY <1>2, <1>3
<1>5. x % w = x /\ x % u = x
  BY <1>2, <1>4, Below
<1>6. PICK q \in Nat, r \in 0 .. a - 1 : x = a * q + r /\ r = x % a
  BY <1>2, <1>4, Division
<1>7. TotalSize(s) = a * q
  <2>1. TotalSize(s) = x - r
    BY <1>1, <1>3, <1>5, <1>6 DEF TotalSize, AlignMask, SizeT
  <2>2. a * q \in Nat /\ r \in Nat
    BY <1>2
  <2>3. PICK z \in Nat : z = a * q
    BY <2>2
  <2>4. x - r = z
    BY <1>6, <2>2, <2>3
  <2> QED
    BY <2>1, <2>3, <2>4
<1>8. PICK j \in Nat : h = a * j
  BY <1>2, Multiple
<1>9. a * j + s =< a * q /\ a * q < a * j + s + a
  BY <1>2, <1>3, <1>6, <1>8
<1>10. j =< q
  BY <1>2, <1>9, Multiples
<1>11. PICK k \in Nat : k = q - j
  BY <1>10
<1>12. a * q - a * j = a * k
  BY <1>2, <1>10, <1>11, Multiples
<1>13. a * k \in Nat /\ s =< a * k /\ a * k < s + a
  BY <1>2, <1>9, <1>12
<1>14. UserSize(s) = a * k
  <2>1. TotalSize(s) - HeaderBytes = a * k
    BY <1>1, <1>7, <1>8, <1>12
  <2>2. a * k < w
    BY <1>2, <1>13
  <2>3. (a * k) % w = a * k
    BY <1>2, <1>13, <2>2, Below
  <2> QED
    BY <1>1, <2>1, <2>3 DEF UserSize, SizeT
<1> QED
  BY <1>1, <1>13, <1>14

-----------------------------------------------------------------------------
(* The requests                                                            *)

\* The arguments stay within their bounds.
InRange == num \in Nums /\ size \in 0 .. LargestSize

\* The sizes are asked for in turn, and after the largest comes 0 again.
LEMMA StaysInRange == Spec => []InRange
<1>1. LargestSize \in Nat
  BY SizeAssumption, PowersAssumption
<1>2. Init => InRange
  BY <1>1 DEF Init, InRange
<1>3. InRange /\ [Next]_sizeVars => InRange'
  <2> SUFFICES ASSUME InRange, [Next]_sizeVars
               PROVE  InRange'
    OBVIOUS
  <2>1. CASE Next
    <3>1. num' = num /\ size' = (size + 1) % (LargestSize + 1)
      BY <2>1 DEF Next
    <3>2. size + 1 \in Nat /\ LargestSize + 1 \in Nat \ {0}
      BY <1>1 DEF InRange
    <3>3. (size + 1) % (LargestSize + 1) \in 0 .. (LargestSize + 1) - 1
      BY <3>2, Division
    <3>4. (LargestSize + 1) - 1 = LargestSize
      BY <1>1
    <3>5. size' \in 0 .. LargestSize
      BY <3>1, <3>3, <3>4
    <3> QED
      BY <3>1, <3>5 DEF InRange
  <2>2. CASE UNCHANGED sizeVars
    BY <2>2 DEF sizeVars, InRange
  <2> QED
    BY <2>1, <2>2
<1> QED
  BY <1>2, <1>3, PTL DEF Spec

\* A request below 4 GiB gets the least block that holds it.
THEOREM GetsLeastBlock == OrdinarySizes => (Spec => []LeastBlock)
<1> SUFFICES ASSUME OrdinarySizes PROVE Spec => []LeastBlock
  OBVIOUS
<1>1. InRange => LeastBlock
  <2> SUFFICES ASSUME InRange
               PROVE  /\ UserSize(size) % AlignTo = 0
                      /\ UserSize(size) >= size
                      /\ UserSize(size) < size + AlignTo
    BY DEF LeastBlock
  <2>1. PICK k \in Nat : /\ UserSize(size) = AlignTo * k
                         /\ size =< AlignTo * k /\ AlignTo * k < size + AlignTo
    BY OrdinaryUserSize DEF InRange
  <2>2. AlignTo \in Nat \ {0} /\ AlignTo * k + 0 = AlignTo * k /\ 0 \in 0 .. AlignTo - 1
    BY SizeAssumption
  <2>3. (AlignTo * k) % AlignTo = 0
    BY <2>2, Quotient
  <2>4. size \in Nat
    BY SizeAssumption, PowersAssumption DEF InRange
  <2> QED
    BY <2>1, <2>2, <2>3, <2>4
<1> QED
  BY StaysInRange, <1>1, PTL

\* The blocks in the bin malloc looks into, whatever request each of them was
\* cut for, are the least that hold this one, and the bin is one of the
\* cache's.
THEOREM FindsTheSameBin == OrdinarySizes => (Spec => []BinsAgree)
<1> SUFFICES ASSUME OrdinarySizes PROVE Spec => []BinsAgree
  OBVIOUS
<1>1. InRange => BinsAgree
  <2> SUFFICES ASSUME InRange, size > 0, size =< MaxBytes
               PROVE  /\ \A user \in 1 .. LargestSize :
                           BinOfBlock(UserSize(user)) = BinOfRequest(size)
                             => UserSize(user) >= size /\ UserSize(user) < size + AlignTo
                      /\ BinOfRequest(size) \in 0 .. BinCount - 1
                      /\ UserSize(size) =< MaxBytes
    BY DEF BinsAgree, Covers
  <2>1. PICK k \in Nat : /\ UserSize(size) = AlignTo * k
                         /\ size =< AlignTo * k /\ AlignTo * k < size + AlignTo
    BY OrdinaryUserSize DEF InRange
  <2>2. PICK a, m : a = AlignTo /\ m = MaxBytes
    OBVIOUS
  <2>3. a \in Nat \ {0} /\ m \in Nat /\ m % a = 0 /\ size \in Nat
    BY <2>2, SizeAssumption, PowersAssumption DEF InRange
  <2>4. PICK c \in Nat : m = a * c /\ c = m \div a
    BY <2>3, Multiple
  <2>5. a * k < a * c + a
    BY <2>1, <2>2, <2>3, <2>4
  <2>6. k =< c /\ a * k =< a * c
    BY <2>3, <2>5, Multiples
  <2>7. k # 0
    BY <2>1, <2>2, <2>3
  <2>8. ASSUME NEW j \in Nat
        PROVE  (a * j) \div a = j
    <3>1. a * j = a * j + 0 /\ 0 \in 0 .. a - 1
      BY <2>3
    <3> QED
      BY <2>3, <3>1, Quotient
  <2>9. BinOfRequest(size) = k - 1
    <3>1. BinOfRequest(size) = UserSize(size) \div AlignTo - 1
      BY DEF BinOfRequest, UserSize, TotalSize
    <3> QED
      BY <2>1, <2>2, <2>8, <3>1
  <2>10. ASSUME NEW user \in 1 .. LargestSize,
                BinOfBlock(UserSize(user)) = BinOfRequest(size)
         PROVE  UserSize(user) = AlignTo * k
    <3>1. user \in 0 .. LargestSize
      BY SizeAssumption, PowersAssumption
    <3>2. PICK j \in Nat : UserSize(user) = AlignTo * j
      BY <3>1, OrdinaryUserSize
    <3>3. BinOfBlock(UserSize(user)) = j - 1
      BY <2>2, <2>8, <3>2 DEF BinOfBlock
    <3>4. j = k
      BY <2>9, <2>10, <3>3
    <3> QED
      BY <3>2, <3>4
  <2>11. BinCount = c
    BY <2>2, <2>4 DEF BinCount
  <2>12. AlignTo * k >= size
    BY <2>1, <2>2, <2>3
  <2> QED
    BY <2>1, <2>2, <2>4, <2>6, <2>7, <2>9, <2>10, <2>11, <2>12
<1> QED
  BY StaysInRange, <1>1, PTL

-----------------------------------------------------------------------------
(* calloc's guard                                                          *)

\* n fits t \div s times exactly when the product does not exceed t.
LEMMA Fits ==
    ASSUME NEW n \in Nat, NEW s \in Nat \ {0}, NEW t \in Nat
    PROVE  n > t \div s <=> n * s > t
<1>1. PICK q \in Nat, r \in 0 .. s - 1 : t = s * q + r /\ q = t \div s
  BY Division
<1>2. n =< q => n * s =< q * s
  OBVIOUS
<1>3. n >= q + 1 => n * s >= q * s + s
  OBVIOUS
<1>4. q * s = s * q /\ n * s \in Nat /\ s * q \in Nat
  OBVIOUS
<1> QED
  BY <1>1, <1>2, <1>3, <1>4

\* calloc rejects exactly the products that do not fit a size_t, whatever the
\* arguments.
THEOREM RejectsExactly == Spec => []CallocExact
<1>1. InRange => CallocExact
  <2> SUFFICES ASSUME InRange, num > 0, size > 0
               PROVE  CallocRejects(num, size) <=> CallocSize(num, size) # num * size
    BY DEF CallocExact
  <2>1. PICK n, s, w : n = num /\ s = size /\ w = 2 ^ SizeBits
    OBVIOUS
  <2>2. n \in Nat \ {0} /\ s \in Nat \ {0} /\ w \in Nat \ {0}
    BY <2>1, SizeAssumption, PowersAssumption DEF InRange
  <2>3. CallocRejects(num, size) <=> n > (w - 1) \div s
    BY <2>1, <2>2 DEF CallocRejects, SizeMax
  <2>4. CallocSize(num, size) = (n * s) % w
    BY <2>1 DEF CallocSize, SizeT
  <2>5. n > (w - 1) \div s <=> n * s > w - 1
    BY <2>2, Fits
  <2>6. n * s \in Nat
    BY <2>2
  <2>7. n * s > w - 1 <=> (n * s) % w # n * s
    BY <2>2, <2>6, Below, Wraps
  <2> QED
    BY <2>1, <2>3, <2>4, <2>5, <2>7
<1> QED
  BY StaysInRange, <1>1, PTL

=============================================================================

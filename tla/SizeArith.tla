------------------------------ MODULE SizeArith ------------------------------
(***************************************************************************)
(* The arithmetic on byte counts: how malloc turns a request into a block  *)
(* (src/src/allocator.cpp), how the cache turns sizes into bins            *)
(* (src/src/tcache.cpp) and how calloc guards its product.                 *)
(*                                                                         *)
(* Arithmetic keeps its width: size_t has SizeBits bits and unsigned, the  *)
(* type of align_to, has UnsignedBits.  The widths are parameters, so that *)
(* TLC can go through every size_t of a small machine.                     *)
(***************************************************************************)
EXTENDS Integers

CONSTANTS
    SizeBits,       \* width of size_t
    UnsignedBits,   \* width of unsigned
    HeaderBytes,    \* sizeof(block_t)
    AlignTo,        \* align_to, a power of two
    MaxBytes,       \* Tcache::kMaxBytes
    Nums,           \* the first arguments of calloc
    LargestSize     \* the largest size asked for

ASSUME SizeAssumption ==
    /\ SizeBits \in Nat /\ UnsignedBits \in 1 .. SizeBits
    /\ AlignTo \in Nat \ {0} /\ 2 ^ UnsignedBits % AlignTo = 0
    /\ HeaderBytes \in Nat \ {0} /\ HeaderBytes % AlignTo = 0
    /\ MaxBytes \in Nat \ {0} /\ MaxBytes % AlignTo = 0
    /\ Nums \subseteq Nat
    /\ LargestSize \in 0 .. 2 ^ SizeBits - 1

\* What arithmetic says of these powers of two.  It is stated because the
\* provers have no definition of ^.
ASSUME PowersAssumption ==
    /\ 2 ^ UnsignedBits \in Nat /\ 2 ^ SizeBits \in Nat
    /\ 1 =< 2 ^ UnsignedBits /\ 2 ^ UnsignedBits =< 2 ^ SizeBits

VARIABLES
    num,    \* calloc's num
    size    \* malloc's size, calloc's size

sizeVars == <<num, size>>

SizeMax == 2 ^ SizeBits - 1
SizeT(x) == x % 2 ^ SizeBits

\* x & ~(align_to - 1).  The complement is taken in unsigned and then widened
\* with zeros, so the mask clears the bits of x above unsigned's too.
AlignMask(x) == (x % 2 ^ UnsignedBits) - (x % AlignTo)

\* Faulty variants of the definitions below: no header, no alignment, a
\* comparison off by one.
TotalSize_NoHeader(user) == AlignMask(SizeT(user + AlignTo - 1))
BinOfRequest_Unaligned(user) == user \div AlignTo
CallocRejects_OffByOne(n, s) == n = 0 \/ s = 0 \/ n >= SizeMax \div s

TotalSize(user) == AlignMask(SizeT(HeaderBytes + user + AlignTo - 1))
UserSize(user) == SizeT(TotalSize(user) - HeaderBytes)

\* malloc's early returns.
MallocRejects(user) == user = 0 \/ user > SizeMax - HeaderBytes - AlignTo

Covers(user) == user =< MaxBytes
BinCount == MaxBytes \div AlignTo
\* The cache computes the total of a request by a formula of its own.
BinOfRequest(user) ==
    LET total == AlignMask(SizeT(HeaderBytes + user + AlignTo - 1))
    IN  SizeT(total - HeaderBytes) \div AlignTo - 1
BinOfBlock(blockSize) == blockSize \div AlignTo - 1

\* calloc's early returns, and what it asks malloc for.
CallocRejects(n, s) == n = 0 \/ s = 0 \/ n > SizeMax \div s
CallocSize(n, s) == SizeT(n * s)

Init == num \in Nums /\ size = 0

\* Another request: the sizes in turn, again and again.
Next == size' = (size + 1) % (LargestSize + 1) /\ UNCHANGED num

Spec == Init /\ [][Next]_sizeVars

-----------------------------------------------------------------------------
(* Properties                                                              *)

\* A request that malloc does not reject gets the least block that holds it:
\* the user area is a multiple of AlignTo, large enough, and less than AlignTo
\* bytes too large (allocator.cpp 47-50).
LeastBlock ==
    ~ MallocRejects(size) =>
        /\ UserSize(size) % AlignTo = 0
        /\ UserSize(size) >= size
        /\ UserSize(size) < size + AlignTo

\* Whatever request the blocks were cut for that free put in the bin that
\* malloc looks into, each of them is the least block for this request too; and
\* the bin exists, so pop and push index inside the arrays (tcache.cpp 24-33).
BinsAgree ==
    size > 0 /\ Covers(size) =>
        /\ \A user \in 1 .. LargestSize :
             BinOfBlock(UserSize(user)) = BinOfRequest(size)
                 => UserSize(user) >= size /\ UserSize(user) < size + AlignTo
        /\ BinOfRequest(size) \in 0 .. BinCount - 1
        /\ Covers(UserSize(size))

\* calloc rejects a product exactly when it does not fit a size_t, so the
\* block it clears is as long as the caller thinks (allocator.cpp 213-219).
CallocExact ==
    num > 0 /\ size > 0 =>
        (CallocRejects(num, size) <=> CallocSize(num, size) # num * size)

\* The comment on malloc's guard (allocator.cpp 39-40): it keeps the total
\* from wrapping round to a tiny value, so no block is smaller than its
\* request.
NeverTooSmall ==
    ~ MallocRejects(size) => UserSize(size) >= size

=============================================================================

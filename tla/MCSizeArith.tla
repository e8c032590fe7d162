----------------------------- MODULE MCSizeArith -----------------------------
(***************************************************************************)
(* SizeArith on a machine with 10-bit size_t and 8-bit unsigned.           *)
(***************************************************************************)
EXTENDS SizeArith

\* Small factors, and factors around the square root and the ends of the range.
MCNums == 0 .. 35 \union {63, 64, 65, 127, 128, 255, 256, 511, 512, 1022, 1023}

=============================================================================

------------------------------ MODULE CedrusArith ------------------------------
(***************************************************************************)
(* The kernel's integer helpers that the engines compute sizes and         *)
(* register fields with.                                                   *)
(***************************************************************************)
EXTENDS Integers

DIV_ROUND_UP(n, d) == (n + d - 1) \div d
ALIGN(n, a) == DIV_ROUND_UP(n, a) * a
Clamp(v, lo, hi) == IF v < lo THEN lo ELSE IF v > hi THEN hi ELSE v

\* 1 << log, for log up to 16.
Pow2(log) == <<1, 2, 4, 8, 16, 32, 64, 128, 256, 512, 1024, 2048, 4096, 8192,
               16384, 32768, 65536>>[log + 1]

\* A value stored in 16 bits of a register word.
Field16(v) == v % 65536
=============================================================================

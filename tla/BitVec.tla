------------------------------- MODULE BitVec -------------------------------
(***************************************************************************)
(* The fixed-width bit-vector primitives bzla_bv_* that the kernel calls.  *)
(* They live outside this repository's sources; they are modelled from the *)
(* contract of the specification: a w-bit vector is a natural in           *)
(* 0 .. 2^w - 1 and every operation wraps around modulo 2^w.  Bitwise AND, *)
(* OR and XOR come from the community module Bitwise.                      *)
(***************************************************************************)
EXTENDS Integers, Bitwise

\* The w-bit vectors, and the all-ones vector bzla_bv_ones.
BV(w) == 0 .. 2^w - 1
Ones(w) == 2^w - 1

\* bzla_bv_uint64_to_bv: the value truncated to w bits.
Uint64ToBv(v, w) == v % 2^w

\* bzla_bv_not, bzla_bv_neg, bzla_bv_add, bzla_bv_sub, bzla_bv_mul.
BvNot(w, a) == Ones(w) - a
BvNeg(w, a) == (2^w - a) % 2^w
BvAdd(w, a, b) == (a + b) % 2^w
BvSub(w, a, b) == (a - b) % 2^w
BvMul(w, a, b) == (a * b) % 2^w
BvXnor(w, a, b) == BvNot(w, a ^^ b)

\* bzla_bv_udiv and bzla_bv_urem with the SMT-LIB convention for a zero
\* divisor: x / 0 = ones, x % 0 = x.
BvUdiv(w, a, b) == IF b = 0 THEN Ones(w) ELSE a \div b
BvUrem(w, a, b) == IF b = 0 THEN a ELSE a % b

\* bzla_bv_sll and bzla_bv_srl by a shift amount that is itself a value.
BvSll(w, a, s) == IF s >= w THEN 0 ELSE (a * 2^s) % 2^w
BvSrl(w, a, s) == IF s >= w THEN 0 ELSE a \div 2^s

\* bzla_bv_get_bit, bzla_bv_set_bit and bzla_bv_slice (bits u down to l).
GetBit(a, i) == (a \div 2^i) % 2
SetBit(a, i, v) == a - GetBit(a, i) * 2^i + v * 2^i
BvSlice(a, u, l) == (a \div 2^l) % 2^(u - l + 1)

\* bzla_bv_get_num_trailing_zeros: w for the zero vector.
Ctz(w, a) == IF a = 0 THEN w
             ELSE CHOOSE z \in 0 .. w - 1 :
                    GetBit(a, z) = 1 /\ \A k \in 0 .. z - 1 : GetBit(a, k) = 0

\* bzla_bv_mod_inverse: the inverse modulo 2^w of an odd vector.
ModInverse(w, a) == CHOOSE y \in BV(w) : BvMul(w, a, y) = 1

=============================================================================

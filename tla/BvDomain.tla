------------------------------ MODULE BvDomain ------------------------------
(***************************************************************************)
(* The three-valued bit-vector domain of bzlabvdomain.c (src/unnamed/     *)
(* part_000).  A domain is a record [lo, hi, bw]: two bw-bit vectors, and  *)
(* bit i is fixed when lo and hi agree on it.  The operators below are the *)
(* domain functions of that file; the functions bzla_bvprop_* called from *)
(* bzlainvutils.c are the same functions under their older names.         *)
(***************************************************************************)
EXTENDS Integers, FiniteSets, Sequences, FiniteSetsExt, BitVec

\* bzla_bvdomain_new_init: every bit unknown.
bzla_bvdomain_new_init(width) == [lo |-> 0, hi |-> Ones(width), bw |-> width]

\* bzla_bvdomain_new: no validity check, the caller is responsible.
bzla_bvdomain_new(lo, hi, width) == [lo |-> lo, hi |-> hi, bw |-> width]

\* char_to_bv: the ternary string with every 'x' replaced by 'bit', read as
\* a binary number, most significant character first (bzla_bv_char_to_bv).
char_to_bv(c, bit) ==
  LET n == Len(c)
      digit(i) == IF c[i] = "x" THEN bit ELSE IF c[i] = "1" THEN 1 ELSE 0
  IN  MapThenSumSet(LAMBDA i : digit(i) * 2^(n - i), 1 .. n)

bzla_bvdomain_new_from_char(val) ==
  bzla_bvdomain_new(char_to_bv(val, 0), char_to_bv(val, 1), Len(val))

bzla_bvdomain_new_fixed(bv, width) == [lo |-> bv, hi |-> bv, bw |-> width]

bzla_bvdomain_new_fixed_uint64(val, width) ==
  bzla_bvdomain_new_fixed(Uint64ToBv(val, width), width)

bzla_bvdomain_is_equal(a, b) == a.hi = b.hi /\ a.lo = b.lo

bzla_bvdomain_slice(d, hi, lo) ==
  [lo |-> BvSlice(d.lo, hi, lo), hi |-> BvSlice(d.hi, hi, lo), bw |-> hi - lo + 1]

\* Mutant: each bound is negated in place, without the swap.
not_noswap(d) == [lo |-> BvNot(d.bw, d.lo), hi |-> BvNot(d.bw, d.hi), bw |-> d.bw]

\* bzla_bvdomain_not swaps the bounds: lo' = ~hi, hi' = ~lo.
bzla_bvdomain_not(d) ==
  [lo |-> BvNot(d.bw, d.hi), hi |-> BvNot(d.bw, d.lo), bw |-> d.bw]

bzla_bvdomain_is_valid(d) == (BvNot(d.bw, d.lo) | d.hi) = Ones(d.bw)

bzla_bvdomain_is_fixed(d) == d.lo = d.hi

bzla_bvdomain_has_fixed_bits(d) == BvXnor(d.bw, d.lo, d.hi) # 0

\* Mutant: only lo is set; hi keeps its bit.
fix_bit_lo_only(d, pos, value) == [d EXCEPT !.lo = SetBit(@, pos, value)]

\* bzla_bvdomain_fix_bit mutates both bounds in place.
bzla_bvdomain_fix_bit(d, pos, value) ==
  [d EXCEPT !.lo = SetBit(@, pos, value), !.hi = SetBit(@, pos, value)]

bzla_bvdomain_is_fixed_bit(d, pos) == GetBit(d.lo, pos) = GetBit(d.hi, pos)

bzla_bvdomain_is_fixed_bit_true(d, pos) ==
  GetBit(d.lo, pos) = 1 /\ bzla_bvdomain_is_fixed_bit(d, pos)

bzla_bvdomain_is_fixed_bit_false(d, pos) ==
  GetBit(d.lo, pos) = 0 /\ bzla_bvdomain_is_fixed_bit(d, pos)

\* Mutant: the value is masked with lo instead of hi.
check_fixed_bits_lo(d, bv) == ((bv & d.lo) | d.lo) = bv

\* ((bv & hi) | lo) = bv: every fixed bit of d has its value in bv.
bzla_bvdomain_check_fixed_bits(d, bv) == ((bv & d.hi) | d.lo) = bv

\* The same question asked bit by bit.
bzla_bvdomain_is_consistent(d, bv) ==
  \A i \in 0 .. d.bw - 1 :
    bzla_bvdomain_is_fixed_bit(d, i) => GetBit(d.lo, i) = GetBit(bv, i)

\* Mutant: the characters are emitted least significant bit first.
to_char_lsb_first(d) ==
  [i \in 1 .. d.bw |->
     LET l == GetBit(d.lo, i - 1)
         h == GetBit(d.hi, i - 1)
     IN  IF l = h THEN IF l = 0 THEN "0" ELSE "1"
         ELSE IF l = 0 THEN "x" ELSE "?"]

\* bzla_bvdomain_to_char: MSB first, '0'/'1' where lo and hi agree, 'x' for
\* lo = 0, hi = 1 and '?' for the invalid lo = 1, hi = 0.
bzla_bvdomain_to_char(d) ==
  [i \in 1 .. d.bw |->
     LET l == GetBit(d.lo, d.bw - i)
         h == GetBit(d.hi, d.bw - i)
     IN  IF l = h THEN IF l = 0 THEN "0" ELSE "1"
         ELSE IF l = 0 THEN "x" ELSE "?"]

(***************************************************************************)
(* Reference semantics, not code: the concretisation of a domain, and the  *)
(* valid domains of a width.                                               *)
(***************************************************************************)
Gamma(d) == {b \in BV(d.bw) : (d.lo & b) = d.lo /\ (b | d.hi) = d.hi}

ValidDomains(w) ==
  {d \in {bzla_bvdomain_new(lo, hi, w) : lo \in BV(w), hi \in BV(w)} :
     (d.lo & d.hi) = d.lo}

=============================================================================

------------------------------ MODULE InvUtils ------------------------------
(***************************************************************************)
(* The invertibility checks of src/src/bzlainvutils.c.  Each check decides *)
(* whether some x makes f(x, s) = t (pos_x = 0) or f(s, x) = t (pos_x = 1) *)
(* true: bzla_is_inv_<op> for an unconstrained x, bzla_is_inv_<op>_const   *)
(* for an x in the domain x.  Bit-vectors are naturals (module BitVec);    *)
(* every operand has the width w = x.bw of the domain except where noted:  *)
(* t is 1 bit for eq and ult; for concat s has width bw_s and t width      *)
(* x.bw + bw_s; for slice t has width upper - lower + 1.                   *)
(***************************************************************************)
EXTENDS BvDomainGen

(***************************************************************************)
(* Checks without considering the fixed bits of x.                         *)
(***************************************************************************)
bzla_is_inv_add(x, t, s, pos_x) == TRUE

bzla_is_inv_and(x, t, s, pos_x) == (t & s) = t

bzla_is_inv_concat(x, t, s, bw_s, pos_x) ==
  LET bw_t == x.bw + bw_s
  IN  IF pos_x = 0 THEN s = BvSlice(t, bw_s - 1, 0)
                   ELSE s = BvSlice(t, bw_t - 1, bw_t - bw_s)

bzla_is_inv_eq(x, t, s, pos_x) == TRUE

bzla_is_inv_mul(x, t, s, pos_x) == ((BvNeg(x.bw, s) | s) & t) = t

\* Mutant: the loop of pos_x = 1 stops below bw(s), as its comment says.
sll_loop_below_bw(x, t, s, pos_x) ==
  LET w == x.bw
  IN  IF pos_x = 0 THEN BvSll(w, BvSrl(w, t, s), s) = t
      ELSE \E i \in 0 .. w - 1 : BvSll(w, s, Uint64ToBv(i, w)) = t

\* pos_x = 1 loops i = 0 .. bw(s) inclusive with i as a bw(s)-bit vector,
\* stopping at the first match.
bzla_is_inv_sll(x, t, s, pos_x) ==
  LET w == x.bw
  IN  IF pos_x = 0 THEN BvSll(w, BvSrl(w, t, s), s) = t
      ELSE \E i \in 0 .. w : BvSll(w, s, Uint64ToBv(i, w)) = t

bzla_is_inv_srl(x, t, s, pos_x) ==
  LET w == x.bw
  IN  IF pos_x = 0 THEN BvSrl(w, BvSll(w, t, s), s) = t
      ELSE \E i \in 0 .. w : BvSrl(w, s, Uint64ToBv(i, w)) = t

bzla_is_inv_ult(x, t, s, pos_x) ==
  IF pos_x = 0 THEN t = 0 \/ s # 0 ELSE t = 0 \/ s # Ones(x.bw)

bzla_is_inv_udiv(x, t, s, pos_x) ==
  LET w == x.bw
  IN  IF pos_x = 0 THEN BvUdiv(w, BvMul(w, s, t), s) = t
                   ELSE BvUdiv(w, s, BvUdiv(w, s, t)) = t

bzla_is_inv_urem(x, t, s, pos_x) ==
  LET w == x.bw
  IN  IF pos_x = 0 THEN t <= BvNot(w, BvNeg(w, s))
      ELSE t <= (BvAdd(w, BvAdd(w, t, t), BvNeg(w, s)) & s)

bzla_is_inv_slice(x, t, upper, lower) == TRUE

(***************************************************************************)
(* Helpers of the domain-aware checks.                                     *)
(***************************************************************************)
check_const_bits(d, bv) == ((bv & d.hi) | d.lo) = bv

check_const_bits_val(d, val) ==
  check_const_bits(d, IF val # 0 THEN Ones(d.bw) ELSE 0)

\* The two domains agree on every position fixed in both.
check_const_domain_bits(d1, d2) ==
  LET common == BvXnor(d1.bw, d1.lo, d1.hi) & BvXnor(d2.bw, d2.lo, d2.hi)
  IN  (common & d1.lo) = (common & d2.lo)

(***************************************************************************)
(* Checks with respect to the fixed bits of x.                             *)
(***************************************************************************)
bzla_is_inv_add_const(x, t, s, pos_x) ==
  check_const_bits(x, BvSub(x.bw, t, s))

bzla_is_inv_and_const(x, t, s, pos_x) ==
  LET mask == BvXnor(x.bw, x.lo, x.hi)
  IN  /\ bzla_is_inv_and(x, t, s, pos_x)
      /\ ((s & x.hi) & mask) = (t & mask)

\* The half of t that belongs to x must fit x, the other half must be s.
bzla_is_inv_concat_const(x, t, s, bw_s, pos_x) ==
  LET bw_t  == x.bw + bw_s
      t_h   == IF pos_x = 0 THEN BvSlice(t, bw_t - 1, bw_s) ELSE BvSlice(t, bw_t - 1, x.bw)
      t_l   == IF pos_x = 0 THEN BvSlice(t, bw_s - 1, 0) ELSE BvSlice(t, x.bw - 1, 0)
      t_and == IF pos_x = 0 THEN t_h ELSE t_l
      t_s   == IF pos_x = 0 THEN t_l ELSE t_h
  IN  ((t_and & x.hi) | x.lo) = t_and /\ s = t_s

bzla_is_inv_eq_const(x, t, s, pos_x) ==
  IF t = 0 THEN x.hi # x.lo \/ x.hi # s
  ELSE check_const_bits(x, s)

(***************************************************************************)
(* x * s = t.  After the domain-oblivious check, a non-zero s and an x     *)
(* with fixed bits are refined: a fixed x is multiplied out; an odd s      *)
(* determines x = s^-1 * t; an even s = s' * 2^z determines the low w - z  *)
(* bits of x as (s')^-1 * (t >> z), which becomes a domain whose top z     *)
(* bits are unknown and which must agree with x on common fixed bits.      *)
(***************************************************************************)
\* Mutant: the masks swapped, fixing the top z bits instead of the low ones.
mul_const_even_swapped(x, t, s) ==
  LET w       == x.bw
      tz_s    == Ctz(w, s)
      tmp_x   == BvMul(w, ModInverse(w, BvSrl(w, s, tz_s)), BvSrl(w, t, tz_s))
      mask_lo == BvSrl(w, Ones(w), tz_s)
      mask_hi == BvNot(w, mask_lo)
      d_tmp_x == bzla_bvdomain_new(mask_hi & tmp_x, mask_lo | tmp_x, w)
  IN  check_const_domain_bits(d_tmp_x, x)

mul_const_even(x, t, s) ==
  LET w       == x.bw
      tz_s    == Ctz(w, s)
      tmp_x   == BvMul(w, ModInverse(w, BvSrl(w, s, tz_s)), BvSrl(w, t, tz_s))
      mask_lo == BvSrl(w, Ones(w), tz_s)
      mask_hi == BvNot(w, mask_lo)
      d_tmp_x == bzla_bvdomain_new(mask_lo & tmp_x, mask_hi | tmp_x, w)
  IN  check_const_domain_bits(d_tmp_x, x)

bzla_is_inv_mul_const(x, t, s, pos_x) ==
  LET w == x.bw
  IN  /\ bzla_is_inv_mul(x, t, s, pos_x)
      /\ s # 0 /\ bzla_bvdomain_has_fixed_bits(x) =>
           CASE bzla_bvdomain_is_fixed(x) -> BvMul(w, x.lo, s) = t
             [] GetBit(s, 0) = 1 -> check_const_bits(x, BvMul(w, ModInverse(w, s), t))
             [] OTHER -> mul_const_even(x, t, s)

(***************************************************************************)
(* s << x = t with x in a domain (pos_x = 1): shifting by any x >= bw(s)   *)
(* gives 0, which hi reaches when hi >= bw(s); otherwise some i in         *)
(* 0 .. bw(s) that the domain allows must shift s onto t.                  *)
(***************************************************************************)
shift_const_pos1(x, t, s, op) ==
  LET w == x.bw
      Shift(a, b) == IF op = "sll" THEN BvSll(w, a, b) ELSE BvSrl(w, a, b)
      possible(i) == (i & x.hi) = i /\ (i | x.lo) = i
  IN  \/ x.hi >= Uint64ToBv(w, w) /\ t = 0
      \/ \E i \in 0 .. w : possible(Uint64ToBv(i, w)) /\ Shift(s, Uint64ToBv(i, w)) = t

bzla_is_inv_sll_const(x, t, s, pos_x) ==
  LET w == x.bw
  IN  IF pos_x = 0
      THEN /\ bzla_is_inv_sll(x, t, s, pos_x)
           /\ (BvSll(w, x.hi, s) & t) = t
           /\ (BvSll(w, x.lo, s) | t) = t
      ELSE shift_const_pos1(x, t, s, "sll")

bzla_is_inv_srl_const(x, t, s, pos_x) ==
  LET w == x.bw
  IN  IF pos_x = 0
      THEN /\ bzla_is_inv_srl(x, t, s, pos_x)
           /\ (BvSrl(w, x.hi, s) & t) = t
           /\ (BvSrl(w, x.lo, s) | t) = t
      ELSE shift_const_pos1(x, t, s, "srl")

bzla_is_inv_udiv_const(x, t, s, pos_x) == TRUE

bzla_is_inv_ult_const(x, t, s, pos_x) ==
  IF pos_x = 0
  THEN IF t = 1 THEN s # 0 /\ x.lo < s ELSE x.hi >= s
  ELSE IF t = 1 THEN s # Ones(x.bw) /\ x.hi > s ELSE x.lo <= s


(***************************************************************************)
(* s % x = t with s > t (pos_x = 1): x ranges over 1 .. hi, hi derived     *)
(* from s - t and t; the generator enumerates the values of the domain in  *)
(* that range and every value with s % x = t whose remainder fits the      *)
(* fixed bits of x is pushed onto the candidate stack.                     *)
(***************************************************************************)
urem_pos1_candidates(x, t, s) ==
  LET w   == x.bw
      sub == BvSub(w, s, t)
      div == BvUdiv(w, sub, t)
      hi  == IF t = 0 THEN s
             ELSE IF BvUrem(w, sub, t) = 0 THEN BvSub(w, div, 1) ELSE div
      gen == bzla_bvdomain_gen_init_range(x, 1, hi)
  IN  {bv \in gen_drain(gen) :
         BvUrem(w, s, bv) = t /\ check_const_bits(x, BvUrem(w, s, bv))}

(***************************************************************************)
(* bzla_is_inv_urem_const.  pos_x = 1: t = ones needs x = 0; s = t needs   *)
(* hi >= t; s > t answers whether the candidate stack is EMPTY.            *)
(* pos_x = 0: s = 0 or t = ones needs x = t; otherwise x = t is accepted   *)
(* when the fixed bits allow it, and only the overflow of s + t rejects;   *)
(* the search for x = s * n + t is left empty in the code and keeps the    *)
(* domain-oblivious answer.                                                *)
(***************************************************************************)
\* Mutant: the overflow test for n = 1 also fires when s + t = ones.
urem_const_overflow_le(x, t, s, pos_x) ==
  LET w    == x.bw
      ones == Ones(w)
  IN  /\ bzla_is_inv_urem(x, t, s, pos_x)
      /\ IF pos_x # 0
         THEN CASE t = ones -> check_const_bits_val(x, 0)
                [] s = t    -> x.hi >= t
                [] OTHER    -> urem_pos1_candidates(x, t, s) = {}
         ELSE IF s = 0 \/ t = ones
              THEN check_const_bits(x, t)
              ELSE check_const_bits(x, t) \/ ~(BvSub(w, ones, s) <= t)

bzla_is_inv_urem_const(x, t, s, pos_x) ==
  LET w    == x.bw
      ones == Ones(w)
  IN  /\ bzla_is_inv_urem(x, t, s, pos_x)
      /\ IF pos_x # 0
         THEN CASE t = ones -> check_const_bits_val(x, 0)
                [] s = t    -> x.hi >= t
                [] OTHER    -> urem_pos1_candidates(x, t, s) = {}
         ELSE IF s = 0 \/ t = ones
              THEN check_const_bits(x, t)
              ELSE check_const_bits(x, t) \/ ~(BvSub(w, ones, s) < t)

\* x[upper:lower] = t: the slice of lo must equal t on the fixed bits.
bzla_is_inv_slice_const(x, t, upper, lower) ==
  LET mask_sliced == BvSlice(BvXnor(x.bw, x.lo, x.hi), upper, lower)
  IN  BvSlice(x.lo, upper, lower) = (mask_sliced & t)

=============================================================================

------------------------------ MODULE InvCheck ------------------------------
(***************************************************************************)
(* The solver consulting the invertibility checks of bzlainvutils.c.  Each *)
(* step is one call: the caller picks an operator, a domain x, the values  *)
(* s and t and the position of x, and the step records what the           *)
(* domain-oblivious check (res_obl) and the domain-aware check (res)       *)
(* answer.  The invariants compare the answers with the reference          *)
(* question: does some x (in the domain, for res) satisfy the equation?    *)
(***************************************************************************)
EXTENDS InvUtils

CONSTANTS
  Widths,        \* widths of x (and of s and t) for the same-width operators
  ConcatWidths   \* widths of x and of s for concat

ASSUME Widths \subseteq Nat \ {0} /\ ConcatWidths \subseteq Nat \ {0}

VARIABLES query, res, res_obl

vars == <<query, res, res_obl>>

Ops == {"add", "and", "concat", "eq", "mul", "sll", "srl", "udiv", "ult",
        "urem", "slice"}

\* No call has happened yet.
NoQuery == [op |-> "none", x |-> bzla_bvdomain_new_init(1), s |-> 0, t |-> 0,
            pos_x |-> 0, bw_s |-> 0, upper |-> 0, lower |-> 0]

(***************************************************************************)
(* Reference semantics: the value f(v, s) (pos_x = 0) or f(s, v)           *)
(* (pos_x = 1) that the equation compares with t, for x = v.               *)
(***************************************************************************)
Apply(q, v) ==
  LET w  == q.x.bw
      s  == q.s
      p0 == q.pos_x = 0
      bool(b) == IF b THEN 1 ELSE 0
  IN  CASE q.op = "add"    -> BvAdd(w, v, s)
        [] q.op = "and"    -> v & s
        [] q.op = "mul"    -> BvMul(w, v, s)
        [] q.op = "eq"     -> bool(v = s)
        [] q.op = "concat" -> IF p0 THEN v * 2^q.bw_s + s ELSE s * 2^w + v
        [] q.op = "sll"    -> IF p0 THEN BvSll(w, v, s) ELSE BvSll(w, s, v)
        [] q.op = "srl"    -> IF p0 THEN BvSrl(w, v, s) ELSE BvSrl(w, s, v)
        [] q.op = "ult"    -> IF p0 THEN bool(v < s) ELSE bool(s < v)
        [] q.op = "udiv"   -> IF p0 THEN BvUdiv(w, v, s) ELSE BvUdiv(w, s, v)
        [] q.op = "urem"   -> IF p0 THEN BvUrem(w, v, s) ELSE BvUrem(w, s, v)
        [] q.op = "slice"  -> BvSlice(v, q.upper, q.lower)

Solvable(q, vals) == \E v \in vals : Apply(q, v) = q.t

(***************************************************************************)
(* One call of the pair of checks of an operator.                          *)
(***************************************************************************)
Call(op, x, s, t, pos_x, bw_s, upper, lower, obl, cst) ==
  /\ query' = [op |-> op, x |-> x, s |-> s, t |-> t, pos_x |-> pos_x,
               bw_s |-> bw_s, upper |-> upper, lower |-> lower]
  /\ res_obl' = obl
  /\ res' = cst

\* The operators whose operands all have the width of x.
SameWidth(op, Obl(_, _, _, _), Cst(_, _, _, _)) ==
  \E w \in Widths, p \in {0, 1} :
    \E x \in ValidDomains(w), s \in BV(w), t \in BV(w) :
      Call(op, x, s, t, p, w, 0, 0, Obl(x, t, s, p), Cst(x, t, s, p))

CheckAdd  == SameWidth("add", bzla_is_inv_add, bzla_is_inv_add_const)
CheckAnd  == SameWidth("and", bzla_is_inv_and, bzla_is_inv_and_const)
CheckMul  == SameWidth("mul", bzla_is_inv_mul, bzla_is_inv_mul_const)
CheckSll  == SameWidth("sll", bzla_is_inv_sll, bzla_is_inv_sll_const)
CheckSrl  == SameWidth("srl", bzla_is_inv_srl, bzla_is_inv_srl_const)
CheckUdiv == SameWidth("udiv", bzla_is_inv_udiv, bzla_is_inv_udiv_const)
CheckUrem == SameWidth("urem", bzla_is_inv_urem, bzla_is_inv_urem_const)

\* eq and ult: t is a single bit.
CheckEq ==
  \E w \in Widths, p \in {0, 1}, t \in BV(1) :
    \E x \in ValidDomains(w), s \in BV(w) :
      Call("eq", x, s, t, p, w, 0, 0,
           bzla_is_inv_eq(x, t, s, p), bzla_is_inv_eq_const(x, t, s, p))

CheckUlt ==
  \E w \in Widths, p \in {0, 1}, t \in BV(1) :
    \E x \in ValidDomains(w), s \in BV(w) :
      Call("ult", x, s, t, p, w, 0, 0,
           bzla_is_inv_ult(x, t, s, p), bzla_is_inv_ult_const(x, t, s, p))

\* concat: x and s of their own widths, t of the sum.
CheckConcat ==
  \E wx \in ConcatWidths, ws \in ConcatWidths, p \in {0, 1} :
    \E x \in ValidDomains(wx), s \in BV(ws), t \in BV(wx + ws) :
      Call("concat", x, s, t, p, ws, 0, 0,
           bzla_is_inv_concat(x, t, s, ws, p),
           bzla_is_inv_concat_const(x, t, s, ws, p))

\* slice: t has the width of the slice x[upper:lower].
CheckSlice ==
  \E w \in Widths :
    \E upper \in 0 .. w - 1, x \in ValidDomains(w) :
      \E lower \in 0 .. upper :
        \E t \in BV(upper - lower + 1) :
          Call("slice", x, 0, t, 0, w, upper, lower,
               bzla_is_inv_slice(x, t, upper, lower),
               bzla_is_inv_slice_const(x, t, upper, lower))

\* The call returns its answer and the solver is ready for the next one.
Return ==
  /\ query.op # "none"
  /\ query' = NoQuery
  /\ res' = FALSE
  /\ res_obl' = FALSE

Init ==
  /\ query = NoQuery
  /\ res = FALSE
  /\ res_obl = FALSE

\* A call is made only when the solver is not waiting for an answer; the
\* test comes before the choice of arguments.
Next ==
  \/ /\ query.op = "none"
     /\ \/ CheckAdd \/ CheckAnd \/ CheckMul \/ CheckSll \/ CheckSrl
        \/ CheckUdiv \/ CheckUrem \/ CheckEq \/ CheckUlt \/ CheckConcat
        \/ CheckSlice
  \/ Return

Spec == Init /\ [][Next]_vars

(***************************************************************************)
(* Properties.                                                             *)
(***************************************************************************)
Asked == query.op # "none"

\* The domain-oblivious checks (bzla_is_inv_<op>) answer exactly whether
\* some x of the width makes the equation true: the invertibility
\* conditions of the comments, and the shift loops over 0 .. bw(s), are
\* neither too strong nor too weak.
ObliviousExact ==
  Asked => (res_obl <=> Solvable(query, BV(query.x.bw)))

\* Every domain-aware check except udiv and urem answers exactly whether
\* some x in the domain makes the equation true (spec 8.1).
ExactOps == Ops \ {"udiv", "urem"}

ConstExact ==
  query.op \in ExactOps => (res <=> Solvable(query, Gamma(query.x)))

\* x % s = t: bzla_is_inv_urem_const never rejects a domain holding a
\* solution.  When x = t is excluded it rejects only if s + t overflows,
\* and then no x = s * n + t with n >= 1 fits the width.
UremConstCompletePos0 ==
  query.op = "urem" /\ query.pos_x = 0
  => (Solvable(query, Gamma(query.x)) => res)

(***************************************************************************)
(* Properties that the code is found to violate (violation runs).          *)
(***************************************************************************)

\* s % x = t with s = t < ones: the solutions are x = 0 and every x > t,
\* so bzla_is_inv_urem_const should accept exactly when the domain holds
\* one of them; the code tests hi >= t.
UremConstExactSEqT ==
  query.op = "urem" /\ query.pos_x = 1 /\ query.s = query.t
  /\ query.t # Ones(query.x.bw)
  => (res <=> Solvable(query, Gamma(query.x)))

\* s % x = t with s > t: bzla_is_inv_urem_const should accept exactly when
\* some x of the domain has s % x = t; the code collects such x as
\* candidates and answers whether the candidate stack is empty.
UremConstExactSGtT ==
  query.op = "urem" /\ query.pos_x = 1 /\ query.s > query.t
  => (res <=> Solvable(query, Gamma(query.x)))

=============================================================================

--------------------------- MODULE WheelFactorizer ---------------------------
(***************************************************************************)
(* bzla_bvdomain_get_factor and the wheel factorizer it drives             *)
(* (bzlabvdomain.c): get_factor calls wfact_next until a returned factor   *)
(* is above excl_min_val and matches the fixed bits of x; wfact_next runs  *)
(* trial division with the mod-30 wheel.  Each iteration of the wfact_next *)
(* loop is one step, so that termination is a question about the loop.    *)
(* The bit-vectors are naturals below 2^bw; memory is not modelled.        *)
(***************************************************************************)
EXTENDS BvDomain

CONSTANTS
  Widths,   \* widths of n
  Limits    \* iteration limits passed to get_factor (0: none)

ASSUME Widths \subseteq Nat \ {0} /\ Limits \subseteq Nat

\* A null pointer: no x, no excl_min_val, no factor.
None == -1

\* A null domain pointer.
NoDomain == [lo |-> None, hi |-> None, bw |-> 0]

VARIABLES
  phase,  \* "call" (get_factor calls wfact_next), "loop" (inside
          \* wfact_next), "check" (get_factor tests the factor), "done"
  bw,     \* the width of n
  n,      \* the argument num of get_factor
  x,      \* the domain argument, or NoDomain
  excl,   \* excl_min_val, or None
  limit,  \* the iteration limit
  wf,     \* the WheelFactorizer: [done, num, fact, pos]
  iters,  \* num_iterations of the current wfact_next call
  fact,   \* the factor wfact_next returned last
  res,    \* the result of get_factor, or None
  prod    \* ghost: product of the factors wfact_next found by division

vars == <<phase, bw, n, x, excl, limit, wf, iters, fact, res, prod>>

\* wf->inc: one, two, four and six truncated to the width by uint64_to_bv.
inc(w, pos) == Uint64ToBv(<<1, 2, 2, 4, 2, 4, 2, 4, 6, 2, 6>>[pos + 1], w)

\* After index 10 the wheel returns to index 3.
NextPos(pos) == IF pos = 10 THEN 3 ELSE pos + 1

\* wfact_init: fact = two, num = n.
wfact_init(w, num) == [done |-> FALSE, num |-> num, fact |-> Uint64ToBv(2, w), pos |-> 0]

(***************************************************************************)
(* bzla_bvdomain_get_factor: the caller's part.                            *)
(***************************************************************************)
\* wfact_next on a done factorizer returns null: get_factor gives up.
CallDone ==
  /\ phase = "call" /\ wf.done
  /\ phase' = "done" /\ res' = None
  /\ UNCHANGED <<bw, n, x, excl, limit, wf, iters, fact, prod>>

CallNext ==
  /\ phase = "call" /\ ~wf.done
  /\ phase' = "loop" /\ iters' = 0
  /\ UNCHANGED <<bw, n, x, excl, limit, wf, fact, res, prod>>

\* Mutant: a factor equal to excl_min_val is accepted.
Acceptable_ge(f) ==
  /\ excl = None \/ f >= excl
  /\ x = NoDomain \/ bzla_bvdomain_check_fixed_bits(x, f)

\* The first factor above excl_min_val that matches x is copied out.
Acceptable(f) ==
  /\ excl = None \/ f > excl
  /\ x = NoDomain \/ bzla_bvdomain_check_fixed_bits(x, f)

Accept ==
  /\ phase = "check" /\ Acceptable(fact)
  /\ phase' = "done" /\ res' = fact
  /\ UNCHANGED <<bw, n, x, excl, limit, wf, iters, fact, prod>>

Reject ==
  /\ phase = "check" /\ ~Acceptable(fact)
  /\ phase' = "call"
  /\ UNCHANGED <<bw, n, x, excl, limit, wf, iters, fact, res, prod>>

(***************************************************************************)
(* One iteration of the wfact_next loop, in the order of its exits.        *)
(***************************************************************************)
LoopUnchanged == UNCHANGED <<bw, n, x, excl, limit, prod>>

\* ++num_iterations; past a non-zero limit: done, no result.
LimitHit ==
  /\ phase = "loop"
  /\ limit # 0 /\ iters + 1 > limit
  /\ wf' = [wf EXCEPT !.done = TRUE]
  /\ phase' = "done" /\ res' = None
  /\ UNCHANGED <<iters, fact>> /\ LoopUnchanged

WithinLimit == limit = 0 \/ iters + 1 <= limit

\* fact * fact (modulo 2^bw) above num: num is the last factor.
SqrtDone ==
  /\ phase = "loop" /\ WithinLimit
  /\ BvMul(bw, wf.fact, wf.fact) > wf.num
  /\ wf' = [wf EXCEPT !.done = TRUE]
  /\ fact' = wf.num
  /\ phase' = "check" /\ iters' = iters + 1
  /\ UNCHANGED res /\ LoopUnchanged

\* Mutant: the quotient is freed instead of replacing num.
Divide_keep_num ==
  /\ phase = "loop" /\ WithinLimit
  /\ ~(BvMul(bw, wf.fact, wf.fact) > wf.num)
  /\ BvUrem(bw, wf.num, wf.fact) = 0
  /\ fact' = wf.fact
  /\ prod' = prod * wf.fact
  /\ phase' = "check" /\ iters' = iters + 1
  /\ UNCHANGED <<bw, n, x, excl, limit, res, wf>>

\* fact divides num (bzla_bv_udiv_urem; fact may be 0 at width 1).
Divide ==
  /\ phase = "loop" /\ WithinLimit
  /\ ~(BvMul(bw, wf.fact, wf.fact) > wf.num)
  /\ BvUrem(bw, wf.num, wf.fact) = 0
  /\ wf' = [wf EXCEPT !.num = BvUdiv(bw, wf.num, wf.fact)]
  /\ fact' = wf.fact
  /\ prod' = prod * wf.fact
  /\ phase' = "check" /\ iters' = iters + 1
  /\ UNCHANGED <<bw, n, x, excl, limit, res>>

\* Mutant: no overflow test; fact wraps around and the search goes on.
Advance_no_overflow_check ==
  /\ phase = "loop" /\ WithinLimit
  /\ ~(BvMul(bw, wf.fact, wf.fact) > wf.num)
  /\ BvUrem(bw, wf.num, wf.fact) # 0
  /\ wf' = [wf EXCEPT !.fact = BvAdd(bw, @, inc(bw, wf.pos)), !.pos = NextPos(@)]
  /\ iters' = iters + 1
  /\ UNCHANGED <<fact, phase, res>> /\ LoopUnchanged

\* No factor: step the wheel; an addition that does not grow fact
\* (overflow) ends the factorizer with no result.
Advance ==
  /\ phase = "loop" /\ WithinLimit
  /\ ~(BvMul(bw, wf.fact, wf.fact) > wf.num)
  /\ BvUrem(bw, wf.num, wf.fact) # 0
  /\ LET tmp == BvAdd(bw, wf.fact, inc(bw, wf.pos))
     IN  /\ wf' = [wf EXCEPT !.fact = tmp, !.pos = NextPos(@), !.done = tmp <= wf.fact]
         /\ IF tmp <= wf.fact
            THEN phase' = "done" /\ res' = None
            ELSE UNCHANGED <<phase, res>>
  /\ iters' = iters + 1
  /\ UNCHANGED fact /\ LoopUnchanged

\* get_factor is called with a positive n and, when given, a valid domain
\* x of the width of n; wfact_init sets up the factorizer.
Init ==
  /\ bw \in Widths
  /\ n \in 1 .. 2^bw - 1
  /\ x \in ValidDomains(bw) \cup {NoDomain}
  /\ excl \in BV(bw) \cup {None}
  /\ limit \in Limits
  /\ wf = wfact_init(bw, n)
  /\ phase = "call"
  /\ iters = 0 /\ fact = None /\ res = None /\ prod = 1

Loop == LimitHit \/ SqrtDone \/ Divide \/ Advance

Next == CallDone \/ CallNext \/ Accept \/ Reject \/ Loop

\* get_factor is one sequential loop: once called it keeps running.
Spec == Init /\ [][Next]_vars /\ WF_vars(Next)

(***************************************************************************)
(* Properties.                                                             *)
(***************************************************************************)
\* The factors wfact_next finds by division, times what is left in num, are
\* the original n (spec 8.8): a division never loses or invents a factor.
ProductOfFactors == prod * wf.num = n

\* get_factor's result divides n, lies above excl_min_val and matches the
\* fixed bits of x.
GetFactorSound ==
  phase = "done" /\ res # None =>
    /\ n % res = 0
    /\ excl = None \/ res > excl
    /\ x = NoDomain \/ res \in Gamma(x)

Terminates == <>(phase = "done")

\* Spec 4.5: the number left when fact * fact exceeds it is the final,
\* prime factor; for n > 1 every factor wfact_next returns is a prime,
\* even where fact * fact wraps around the width.
IsPrime(k) == k > 1 /\ \A d \in 2 .. k - 1 : k % d # 0

FactorsPrime == phase = "check" /\ n > 1 => IsPrime(fact)

=============================================================================

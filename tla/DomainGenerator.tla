--------------------------- MODULE DomainGenerator ---------------------------
(***************************************************************************)
(* A caller driving one BzlaBvDomainGenerator (bzlabvdomain.c): it         *)
(* initialises the generator over a domain and an optional range, calls    *)
(* gen_next while gen_has_next holds and gen_random whenever it likes, and *)
(* deletes the generator.  The generator's functions are the operators of *)
(* module BvDomainGen.  A draining caller (the candidate loop of           *)
(* bzla_is_inv_urem_const, bzlainvutils.c) calls gen_next only, until     *)
(* gen_has_next is false.                                                  *)
(***************************************************************************)
EXTENDS BvDomainGen, SequencesExt

CONSTANT Widths   \* the widths of the domains enumerated

ASSUME Widths \subseteq Nat \ {0}

MaxWidth == Max(Widths)

VARIABLES
  gen,      \* the generator record, or NoGen before init / after delete
  range,    \* the range [min, max] the caller asked for (NoBits: none)
  nexts,    \* the set of values gen_next returned since init or the last
            \* gen_random
  randomized, \* gen_random was called since init
  target,   \* ghost: Target(domain, range), fixed at init
  draining  \* the caller is a "while (gen_has_next) gen_next" loop

vars == <<gen, range, nexts, randomized, target, draining>>

NoGen == [domain |-> bzla_bvdomain_new_init(1), cnt |-> 0, min |-> 0, max |-> 0,
          cur |-> NoBits, bits_min |-> NoBits, bits_max |-> NoBits,
          bits |-> NoBits, init_ok |-> TRUE]

Bound(w) == BV(w) \cup {NoBits}

\* The values a generator over d and the requested range must produce.
Target(d, r) ==
  {v \in Gamma(d) : (r.min = NoBits \/ v >= r.min) /\ (r.max = NoBits \/ v <= r.max)}

(***************************************************************************)
(* Actions: one per function of the generator.                             *)
(***************************************************************************)
GenInitRange ==
  /\ gen = NoGen
  /\ \E w \in Widths :
       \E d \in ValidDomains(w), min \in Bound(w), max \in Bound(w) :
         /\ gen' = bzla_bvdomain_gen_init_range(d, min, max)
         /\ range' = [min |-> min, max |-> max]
         /\ target' = Target(d, [min |-> min, max |-> max])
  /\ nexts' = {}
  /\ randomized' = FALSE
  /\ draining' \in BOOLEAN

\* gen_next asserts gen_has_next.
GenNext ==
  /\ gen # NoGen
  /\ bzla_bvdomain_gen_has_next(gen)
  /\ gen' = bzla_bvdomain_gen_next(gen)
  /\ nexts' = nexts \cup {gen'.cur}
  /\ UNCHANGED <<range, randomized, target, draining>>

\* gen_random asserts bits_min and bits_max; the RNG draws in between.
GenRandom ==
  /\ gen # NoGen /\ ~draining
  /\ gen.bits_min # NoBits /\ gen.bits_max # NoBits
  /\ \E r \in gen.bits_min .. gen.bits_max :
       gen' = bzla_bvdomain_gen_random(gen, r)
  /\ nexts' = {}
  /\ randomized' = TRUE
  /\ UNCHANGED <<range, target, draining>>

\* A draining caller leaves its loop only when gen_has_next is false.
GenDelete ==
  /\ gen # NoGen
  /\ draining => ~bzla_bvdomain_gen_has_next(gen)
  /\ gen' = NoGen
  /\ nexts' = {}
  /\ range' = [min |-> NoBits, max |-> NoBits]
  /\ randomized' = FALSE
  /\ target' = {}
  /\ draining' = FALSE

Init ==
  /\ gen = NoGen
  /\ range = [min |-> NoBits, max |-> NoBits]
  /\ nexts = {}
  /\ randomized = FALSE
  /\ target = {}
  /\ draining = FALSE

Next == GenInitRange \/ GenNext \/ GenRandom \/ GenDelete

\* The drain loop calls gen_next as long as gen_has_next holds: GenNext is
\* weakly fair.  Nothing obliges any other caller to act.
Spec == Init /\ [][Next]_vars /\ WF_vars(GenNext)

(***************************************************************************)
(* Properties.                                                             *)
(***************************************************************************)
Counter(g) == (0 .. 2^g.cnt - 1) \cup {NoBits}

TypeOK ==
  /\ gen.bits \in Counter(gen) /\ gen.bits_min \in Counter(gen)
  /\ gen.bits_max \in Counter(gen)
  /\ gen.cur \in Nat \cup {NoBits}
  /\ nexts \subseteq Nat
  /\ randomized \in BOOLEAN
  /\ draining \in BOOLEAN

\* The assertions of gen_init_range hold for every domain and range: the
\* clipped range lies within [lo, hi], and where a fixed bit disagrees with
\* min (max) the scan has already seen an unknown bit j0 holding 0 (1) to
\* repair.
InitAssertions == gen # NoGen => gen.init_ok

\* Every value gen_next or gen_random returns is a member of the domain
\* and lies in the range the caller asked for (the assertions at the end
\* of gen_next_bits).
YieldsInRange ==
  gen # NoGen /\ gen.cur # NoBits => gen.cur \in target

\* Successive gen_next calls return strictly ascending values: a gen_next
\* that follows a gen_next returns a value above the previous one.
Ascending == [][GenNext /\ nexts # {} => gen'.cur > gen.cur]_vars

\* Once gen_has_next is false after gen_next calls only, the values returned
\* are every member of the domain in the range (spec 8.6), for a domain
\* with at least one unknown bit.
Exhaustive ==
  gen # NoGen /\ gen.cnt > 0 /\ ~bzla_bvdomain_gen_has_next(gen)
  /\ ~randomized
  => nexts = target

\* Spec 8.6 without the restriction: draining any generator yields every
\* member of the domain in the range, fixed domains included.
ExhaustiveAll ==
  gen # NoGen /\ ~bzla_bvdomain_gen_has_next(gen)
  /\ ~randomized
  => nexts = target

\* gen_random's preconditions (bits_min and bits_max set, and a non-empty
\* range between them for bzla_bv_new_random_range) hold exactly when the
\* domain has an unknown bit and the requested range holds one of its
\* values: a caller can tell from the domain and the range alone whether
\* gen_random is safe to call, whatever gen_next has done since.
RandomDefined ==
  gen # NoGen =>
    ((gen.bits_min # NoBits /\ gen.bits_max # NoBits /\ gen.bits_min <= gen.bits_max)
     <=> (gen.cnt > 0 /\ target # {}))

\* The drain loop of bzla_is_inv_urem_const terminates: a caller that
\* calls gen_next while gen_has_next holds eventually finds it false, for
\* every domain and range, including an enumeration whose bits_max is the
\* counter's all-ones value (where the increment would wrap to 0).
DrainEnds ==
  draining ~> (draining /\ ~bzla_bvdomain_gen_has_next(gen))

(***************************************************************************)
(* Refinement: the generator implements ValueEnumerator.  The pool is the *)
(* set of domain values in the range, empty for a domain without unknown  *)
(* bits (the generator's documented behaviour, see ExhaustiveAll); the    *)
(* values still to come are those from the value 'bits' composes to.      *)
(***************************************************************************)
Pool == IF gen = NoGen \/ gen.cnt = 0 THEN {} ELSE target

Todo ==
  IF gen = NoGen \/ gen.bits = NoBits THEN {}
  ELSE {v \in Pool : v >= gen_compose(gen.domain, gen.bits)}

E == INSTANCE ValueEnumerator
       WITH Values <- 0 .. 2^MaxWidth - 1, None <- NoBits,
            live <- gen # NoGen, pool <- Pool, todo <- Todo, cur <- gen.cur

\* gen_next returns the pool's values in ascending order and ends after the
\* last; gen_random returns a pool value and gen_next then continues above
\* it, or from the start when the draw was bits_max (the restart at
\* bits_min); has_next holds only while values are left.
Refinement == E!ASpec

=============================================================================

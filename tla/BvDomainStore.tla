----------------------------- MODULE BvDomainStore -----------------------------
(***************************************************************************)
(* A caller of the domain functions of bzlabvdomain.c that keeps domains   *)
(* in a few slots (the pointers it holds).  Each step is one function:     *)
(* a constructor allocates a domain into a free slot, copy, slice and not  *)
(* build a new domain from a live one, fix_bit changes a live domain in    *)
(* place, free releases one.  The module is shown to implement DomainSets *)
(* under the mapping from a domain to the set of values it stands for.    *)
(***************************************************************************)
EXTENDS BvDomain

CONSTANTS
  Slots,    \* the places a caller keeps domains in
  Widths,   \* the widths of the domains created
  Uint64s   \* the values passed to new_fixed_uint64

ASSUME Widths \subseteq Nat \ {0} /\ Uint64s \subseteq Nat

VARIABLE dom   \* dom[s]: the domain slot s points to, or NoDomain

\* A null pointer.
NoDomain == [lo |-> 0, hi |-> 0, bw |-> 0]

Alloc(t, d) == dom[t] = NoDomain /\ dom' = [dom EXCEPT ![t] = d]

Live(s) == dom[s] # NoDomain

\* bzla_bvdomain_new's caller must pass a valid pair (spec 4.1).
ValidPairs(w) == {p \in BV(w) \X BV(w) : (p[1] & p[2]) = p[1]}

Strings == UNION {[1 .. w -> {"0", "1", "x"}] : w \in Widths}

NewInit(t, w) == Alloc(t, bzla_bvdomain_new_init(w))

New(t, lo, hi, w) == Alloc(t, bzla_bvdomain_new(lo, hi, w))

NewFromChar(t, str) == Alloc(t, bzla_bvdomain_new_from_char(str))

NewFixed(t, bv, w) == Alloc(t, bzla_bvdomain_new_fixed(bv, w))

NewFixedUint64(t, val, w) == Alloc(t, bzla_bvdomain_new_fixed_uint64(val, w))

\* bzla_bvdomain_copy: a new domain with copies of lo and hi.
Copy(t, s) == Live(s) /\ Alloc(t, bzla_bvdomain_new(dom[s].lo, dom[s].hi, dom[s].bw))

\* bzla_bvdomain_slice asserts hi >= lo; the bit-vector slice asserts hi < bw.
Slice(t, s, hi, lo) == Live(s) /\ Alloc(t, bzla_bvdomain_slice(dom[s], hi, lo))

NotDomain(t, s) == Live(s) /\ Alloc(t, bzla_bvdomain_not(dom[s]))

\* bzla_bvdomain_fix_bit asserts pos < width and changes the domain in place.
FixBit(s, pos, value) ==
  /\ Live(s)
  /\ dom' = [dom EXCEPT ![s] = bzla_bvdomain_fix_bit(@, pos, value)]

Free(s) == Live(s) /\ dom' = [dom EXCEPT ![s] = NoDomain]

Init == dom = [s \in Slots |-> NoDomain]

Next ==
  \/ \E t \in Slots, w \in Widths :
       \/ NewInit(t, w)
       \/ \E p \in ValidPairs(w) : New(t, p[1], p[2], w)
       \/ \E bv \in BV(w) : NewFixed(t, bv, w)
       \/ \E val \in Uint64s : NewFixedUint64(t, val, w)
  \/ \E t \in Slots, str \in Strings : NewFromChar(t, str)
  \/ \E t, s \in Slots :
       \/ Copy(t, s) \/ NotDomain(t, s)
       \/ \E hi, lo \in 0 .. dom[s].bw - 1 : hi >= lo /\ Slice(t, s, hi, lo)
  \/ \E s \in Slots :
       \/ Free(s)
       \/ \E pos \in 0 .. dom[s].bw - 1, value \in {0, 1} : FixBit(s, pos, value)

Spec == Init /\ [][Next]_dom

(***************************************************************************)
(* Properties.                                                             *)
(***************************************************************************)
\* Printing a live domain with to_char and reading it back with
\* new_from_char gives the same domain (spec 8.3), after any sequence of
\* constructions, slices, negations and fixed bits.
RoundTrip ==
  \A s \in Slots : Live(s) =>
    bzla_bvdomain_is_equal(bzla_bvdomain_new_from_char(bzla_bvdomain_to_char(dom[s])), dom[s])

\* The word-level test check_fixed_bits and the bit-by-bit test
\* is_consistent agree on every live domain and every value (spec 8.7).
FixedBitsAgree ==
  \A s \in Slots : Live(s) =>
    \A bv \in BV(dom[s].bw) :
      bzla_bvdomain_check_fixed_bits(dom[s], bv) <=> bzla_bvdomain_is_consistent(dom[s], bv)

\* Every live domain is valid (is_valid: no bit with lo = 1 and hi = 0),
\* whatever sequence of copies, slices, negations and in-place fix_bit
\* calls produced it: once its constructor got a valid pair, no domain
\* function makes a domain invalid.
AllValid == \A s \in Slots : Live(s) => bzla_bvdomain_is_valid(dom[s])

\* The refinement mapping: a slot holds the set of values its domain
\* stands for.
AbsOf(d) == IF d = NoDomain THEN [w |-> 0, vals |-> {}] ELSE [w |-> d.bw, vals |-> Gamma(d)]

A == INSTANCE DomainSets WITH vals <- [s \in Slots |-> AbsOf(dom[s])]

\* Every domain function does to the values a domain stands for what spec 3
\* and 4.1 say, bit by bit: the lo/hi encoding, the swap of not, the
\* slicing of both bounds and the in-place fix_bit are exact.
Refinement == A!ASpec

=============================================================================

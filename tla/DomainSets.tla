------------------------------ MODULE DomainSets ------------------------------
(***************************************************************************)
(* What the domain functions of bzlabvdomain.c promise (spec sections 3    *)
(* and 4.1), stated on the sets of bit-vectors a domain stands for.  Each  *)
(* slot holds nothing or an abstract domain [w, vals]: a width and the set *)
(* of w-bit values.  Every constructor and operation is stated bit by bit, *)
(* without lo and hi.                                                      *)
(***************************************************************************)
EXTENDS Integers, Sequences

CONSTANTS
  Slots,    \* the places a caller keeps domains in
  Widths,   \* the widths of the domains created
  Uint64s   \* the values passed to new_fixed_uint64

VARIABLE vals

NoSet == [w |-> 0, vals |-> {}]

Vals(w) == 0 .. 2^w - 1

Bit(v, i) == (v \div 2^i) % 2

\* The values whose bits lie between those of lo and hi (spec 3: lo <=bit b <=bit hi).
Between(lo, hi, w) ==
  {b \in Vals(w) : \A i \in 0 .. w - 1 : Bit(lo, i) <= Bit(b, i) /\ Bit(b, i) <= Bit(hi, i)}

\* The values a ternary string stands for, most significant character first.
Matching(str) ==
  LET w == Len(str)
  IN  {b \in Vals(w) :
         \A k \in 1 .. w : str[k] # "x" => Bit(b, w - k) = IF str[k] = "1" THEN 1 ELSE 0}

Put(t, w, S) == vals' = [vals EXCEPT ![t] = [w |-> w, vals |-> S]]

Free(t) == vals[t] = NoSet

ANewInit(t, w) == Free(t) /\ Put(t, w, Vals(w))

ANew(t, lo, hi, w) == Free(t) /\ Put(t, w, Between(lo, hi, w))

ANewFromChar(t, str) == Free(t) /\ Put(t, Len(str), Matching(str))

ANewFixed(t, bv, w) == Free(t) /\ Put(t, w, {bv})

ANewFixedUint64(t, val, w) == Free(t) /\ Put(t, w, {val % 2^w})

ACopy(t, s) == Free(t) /\ vals[s] # NoSet /\ Put(t, vals[s].w, vals[s].vals)

ASlice(t, s, hi, lo) ==
  /\ Free(t) /\ vals[s] # NoSet
  /\ Put(t, hi - lo + 1, {(v \div 2^lo) % 2^(hi - lo + 1) : v \in vals[s].vals})

ANot(t, s) ==
  /\ Free(t) /\ vals[s] # NoSet
  /\ Put(t, vals[s].w, {2^vals[s].w - 1 - v : v \in vals[s].vals})

\* Fixing a bit forces it in every value of the domain.
AFixBit(s, pos, value) ==
  /\ vals[s] # NoSet
  /\ vals' = [vals EXCEPT ![s].vals = {v - Bit(v, pos) * 2^pos + value * 2^pos : v \in @}]

AFree(s) == vals[s] # NoSet /\ vals' = [vals EXCEPT ![s] = NoSet]

AInit == vals = [s \in Slots |-> NoSet]

Strings == UNION {[1 .. w -> {"0", "1", "x"}] : w \in Widths}

\* A step allocates into a free slot t, or changes or frees a live slot s.
ANext ==
  \/ \E t \in Slots :
       /\ Free(t)
       /\ \/ \E w \in Widths :
               \/ ANewInit(t, w)
               \/ \E lo, hi \in Vals(w) : ANew(t, lo, hi, w)
               \/ \E bv \in Vals(w) : ANewFixed(t, bv, w)
               \/ \E val \in Uint64s : ANewFixedUint64(t, val, w)
          \/ \E str \in Strings : ANewFromChar(t, str)
          \/ \E s \in Slots :
               \/ ACopy(t, s) \/ ANot(t, s)
               \/ \E hi \in 0 .. vals[s].w - 1, lo \in 0 .. vals[s].w - 1 :
                    hi >= lo /\ ASlice(t, s, hi, lo)
  \/ \E s \in Slots :
       /\ vals[s] # NoSet
       /\ \/ AFree(s)
          \/ \E pos \in 0 .. vals[s].w - 1, value \in {0, 1} : AFixBit(s, pos, value)

ASpec == AInit /\ [][ANext]_vals

=============================================================================

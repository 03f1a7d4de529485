----------------------------- MODULE BvDomainGen -----------------------------
(***************************************************************************)
(* The domain value generator of bzlabvdomain.c (BzlaBvDomainGenerator).   *)
(* A generator is a record; the operators below are the generator's        *)
(* functions, each returning the record the C function leaves behind.      *)
(* The generator counts with 'bits', a cnt-bit vector holding only the     *)
(* unknown positions of the domain; a value is composed from lo and bits.  *)
(* A null pointer (bits, bits_min, bits_max, cur) is NoBits.               *)
(*                                                                         *)
(* init_ok is a ghost field: it records whether the assertions of          *)
(* bzla_bvdomain_gen_init_range held while the record was built.          *)
(***************************************************************************)
EXTENDS BvDomain

NoBits == -1

\* Number of unknown positions (the cnt loop of gen_init_range).
gen_cnt(d) == Cardinality({i \in 0 .. d.bw - 1 : ~bzla_bvdomain_is_fixed_bit(d, i)})

\* Mutant: the repair sets bit p but leaves the bits below it.
BumpAt_keep_low(bits, p) == SetBit(bits, p, 1)

\* Set bit p and clear every bit below it (the repair of bits_min).
BumpAt(bits, p) == (bits \div 2^(p + 1)) * 2^(p + 1) + 2^p

\* Clear bit p and set every bit below it (the repair of bits_max).
DropAt(bits, p) == (bits \div 2^(p + 1)) * 2^(p + 1) + (2^p - 1)

(***************************************************************************)
(* The MSB-to-LSB scan that derives bits_min from min.  i is the scan      *)
(* position, j the number of unknown bits seen, j0 the last of them where  *)
(* min had a 0.  The result carries the bits and whether the assertions    *)
(* j > 0 and "bit cnt-1-j0 is 0" held at the repair.                       *)
(***************************************************************************)
\* Mutant: j0 remembers the last unknown bit where min had a 1.
RECURSIVE bits_min_scan_j0_on_one(_, _, _, _, _, _, _)
bits_min_scan_j0_on_one(d, cnt, min, i, j, j0, bits) ==
  IF i = d.bw THEN [bits |-> bits, ok |-> TRUE]
  ELSE
  LET idx_i == d.bw - 1 - i
      bit   == GetBit(min, idx_i)
  IN  CASE ~bzla_bvdomain_is_fixed_bit(d, idx_i) ->
             bits_min_scan_j0_on_one(d, cnt, min, i + 1, j + 1,
                           IF bit = 1 THEN j ELSE j0,
                           SetBit(bits, cnt - 1 - j, bit))
        [] bzla_bvdomain_is_fixed_bit_true(d, idx_i) /\ bit = 0 ->
             [bits |-> bits, ok |-> TRUE]
        [] bzla_bvdomain_is_fixed_bit_false(d, idx_i) /\ bit = 1 ->
             [bits |-> BumpAt(bits, cnt - 1 - j0),
              ok   |-> j > 0 /\ GetBit(bits, cnt - 1 - j0) = 0]
        [] OTHER ->
             bits_min_scan_j0_on_one(d, cnt, min, i + 1, j, j0, bits)

RECURSIVE bits_min_scan(_, _, _, _, _, _, _)
bits_min_scan(d, cnt, min, i, j, j0, bits) ==
  IF i = d.bw THEN [bits |-> bits, ok |-> TRUE]
  ELSE
  LET idx_i == d.bw - 1 - i
      bit   == GetBit(min, idx_i)
  IN  CASE ~bzla_bvdomain_is_fixed_bit(d, idx_i) ->
             bits_min_scan(d, cnt, min, i + 1, j + 1,
                           IF bit = 0 THEN j ELSE j0,
                           SetBit(bits, cnt - 1 - j, bit))
        [] bzla_bvdomain_is_fixed_bit_true(d, idx_i) /\ bit = 0 ->
             [bits |-> bits, ok |-> TRUE]
        [] bzla_bvdomain_is_fixed_bit_false(d, idx_i) /\ bit = 1 ->
             [bits |-> BumpAt(bits, cnt - 1 - j0),
              ok   |-> j > 0 /\ GetBit(bits, cnt - 1 - j0) = 0]
        [] OTHER ->
             bits_min_scan(d, cnt, min, i + 1, j, j0, bits)

\* The symmetric scan deriving bits_max from max; j0 tracks the last 1.
RECURSIVE bits_max_scan(_, _, _, _, _, _, _)
bits_max_scan(d, cnt, max, i, j, j0, bits) ==
  IF i = d.bw THEN [bits |-> bits, ok |-> TRUE]
  ELSE
  LET idx_i == d.bw - 1 - i
      bit   == GetBit(max, idx_i)
  IN  CASE ~bzla_bvdomain_is_fixed_bit(d, idx_i) ->
             bits_max_scan(d, cnt, max, i + 1, j + 1,
                           IF bit = 1 THEN j ELSE j0,
                           SetBit(bits, cnt - 1 - j, bit))
        [] bzla_bvdomain_is_fixed_bit_true(d, idx_i) /\ bit = 0 ->
             [bits |-> DropAt(bits, cnt - 1 - j0),
              ok   |-> j > 0 /\ GetBit(bits, cnt - 1 - j0) = 1]
        [] bzla_bvdomain_is_fixed_bit_false(d, idx_i) /\ bit = 1 ->
             [bits |-> bits, ok |-> TRUE]
        [] OTHER ->
             bits_max_scan(d, cnt, max, i + 1, j, j0, bits)

(***************************************************************************)
(* bzla_bvdomain_gen_init_range.  min0/max0 are NoBits when the caller     *)
(* passes no bound (bzla_bvdomain_gen_init passes none).  The range is     *)
(* clipped to [lo, hi]; the counters are set only when cnt > 0 and the     *)
(* clipped range meets [lo, hi]; bits starts at bits_min unless            *)
(* bits_min > bits_max.                                                    *)
(***************************************************************************)
\* Mutant: bits_max starts as a bw-bit (not cnt-bit) vector of ones.
gen_init_range_ones_bw(d, min0, max0) ==
  LET cnt  == gen_cnt(d)
      min  == IF min0 = NoBits \/ d.lo > min0 THEN d.lo ELSE min0
      max  == IF max0 = NoBits \/ d.hi < max0 THEN d.hi ELSE max0
      live == cnt # 0 /\ min <= d.hi /\ max >= d.lo
      bmin == bits_min_scan(d, cnt, min, 0, 0, 0, 0)
      bmax == bits_max_scan(d, cnt, max, 0, 0, 0, Ones(d.bw))
  IN  [domain |-> d, cnt |-> cnt, min |-> min, max |-> max, cur |-> NoBits,
       bits_min |-> IF live THEN bmin.bits ELSE NoBits,
       bits_max |-> IF live THEN bmax.bits ELSE NoBits,
       bits     |-> IF live /\ bmin.bits <= bmax.bits THEN bmin.bits ELSE NoBits,
       init_ok  |-> live => /\ min >= d.lo /\ max <= d.hi
                            /\ bmin.ok /\ bmax.ok]

\* Mutant: the range is not tested against [lo, hi] before the scans.
gen_init_range_no_overlap(d, min0, max0) ==
  LET cnt  == gen_cnt(d)
      min  == IF min0 = NoBits \/ d.lo > min0 THEN d.lo ELSE min0
      max  == IF max0 = NoBits \/ d.hi < max0 THEN d.hi ELSE max0
      bmin == bits_min_scan(d, cnt, min, 0, 0, 0, 0)
      bmax == bits_max_scan(d, cnt, max, 0, 0, 0, Ones(cnt))
  IN  [domain |-> d, cnt |-> cnt, min |-> min, max |-> max, cur |-> NoBits,
       bits_min |-> IF cnt # 0 THEN bmin.bits ELSE NoBits,
       bits_max |-> IF cnt # 0 THEN bmax.bits ELSE NoBits,
       bits     |-> IF cnt # 0 /\ bmin.bits <= bmax.bits THEN bmin.bits ELSE NoBits,
       init_ok  |-> TRUE]

bzla_bvdomain_gen_init_range(d, min0, max0) ==
  LET cnt  == gen_cnt(d)
      min  == IF min0 = NoBits \/ d.lo > min0 THEN d.lo ELSE min0
      max  == IF max0 = NoBits \/ d.hi < max0 THEN d.hi ELSE max0
      live == cnt # 0 /\ min <= d.hi /\ max >= d.lo
      bmin == bits_min_scan(d, cnt, min, 0, 0, 0, 0)
      bmax == bits_max_scan(d, cnt, max, 0, 0, 0, Ones(cnt))
  IN  [domain   |-> d,
       cnt      |-> cnt,
       min      |-> min,
       max      |-> max,
       cur      |-> NoBits,
       bits_min |-> IF live THEN bmin.bits ELSE NoBits,
       bits_max |-> IF live THEN bmax.bits ELSE NoBits,
       bits     |-> IF live /\ bmin.bits <= bmax.bits THEN bmin.bits ELSE NoBits,
       init_ok  |-> live => /\ min >= d.lo /\ max <= d.hi
                            /\ bmin.ok /\ bmax.ok]

bzla_bvdomain_gen_init(d) == bzla_bvdomain_gen_init_range(d, NoBits, NoBits)

\* The value composed from lo and the counter: the j-th unknown position
\* (counted from the LSB) takes bit j of bits.
\* Mutant: the unknown positions are filled from the MSB of bits down.
gen_compose_msb_first(d, bits) ==
  LET cnt == gen_cnt(d)
      rank(i) == Cardinality({k \in 0 .. i - 1 : ~bzla_bvdomain_is_fixed_bit(d, k)})
      bitAt(i) == IF bzla_bvdomain_is_fixed_bit(d, i) THEN GetBit(d.lo, i)
                  ELSE GetBit(bits, cnt - 1 - rank(i))
  IN  MapThenSumSet(LAMBDA i : bitAt(i) * 2^i, 0 .. d.bw - 1)

gen_compose(d, bits) ==
  LET rank(i) == Cardinality({k \in 0 .. i - 1 : ~bzla_bvdomain_is_fixed_bit(d, k)})
      bitAt(i) == IF bzla_bvdomain_is_fixed_bit(d, i) THEN GetBit(d.lo, i)
                  ELSE GetBit(bits, rank(i))
  IN  MapThenSumSet(LAMBDA i : bitAt(i) * 2^i, 0 .. d.bw - 1)

bzla_bvdomain_gen_has_next(g) == g.bits # NoBits /\ g.bits <= g.bits_max

(***************************************************************************)
(* gen_next_bits: compose cur from bits (a fresh random draw r in random   *)
(* mode), then advance: past bits_max the enumeration ends (bits is        *)
(* freed) while random mode starts again at bits_min.                      *)
(***************************************************************************)
\* Mutant: the restart after bits_max is applied to gen_next, and
\* gen_random ends the enumeration instead.
gen_next_bits_restart_swapped(g, random, r) ==
  LET bits == IF random THEN r ELSE g.bits
  IN  [g EXCEPT
         !.cur  = gen_compose(g.domain, bits),
         !.bits = IF bits = g.bits_max
                  THEN IF random THEN NoBits ELSE g.bits_min
                  ELSE (bits + 1) % 2^g.cnt]

\* Mutant: no end test after bits_max; the counter increment wraps.
gen_next_bits_no_end(g, random, r) ==
  LET bits == IF random THEN r ELSE g.bits
  IN  [g EXCEPT
         !.cur  = gen_compose(g.domain, bits),
         !.bits = IF bits = g.bits_max /\ random THEN g.bits_min
                  ELSE (bits + 1) % 2^g.cnt]

gen_next_bits(g, random, r) ==
  LET bits == IF random THEN r ELSE g.bits
  IN  [g EXCEPT
         !.cur  = gen_compose(g.domain, bits),
         !.bits = IF bits = g.bits_max
                  THEN IF random THEN g.bits_min ELSE NoBits
                  ELSE (bits + 1) % 2^g.cnt]

bzla_bvdomain_gen_next(g) == gen_next_bits(g, FALSE, 0)

bzla_bvdomain_gen_random(g, r) == gen_next_bits(g, TRUE, r)

\* The values of the loop "while (gen_has_next) gen_next" of a caller.
RECURSIVE gen_drain(_)
gen_drain(g) ==
  IF ~bzla_bvdomain_gen_has_next(g) THEN {}
  ELSE LET g1 == bzla_bvdomain_gen_next(g) IN {g1.cur} \cup gen_drain(g1)

=============================================================================

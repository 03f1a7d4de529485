----------------------------- MODULE PrintBuffer -----------------------------
(***************************************************************************)
(* bzla_bvdomain_to_str (bzlabvdomain.c): the rendering of a domain into   *)
(* the static rotating buffer s_buf of PRINT_BUFFER_SIZE characters, with  *)
(* the static write position s_buf_pos.  A call is one step: the function  *)
(* runs to completion and calls nothing that re-enters it.                 *)
(*                                                                         *)
(* The characters themselves are abstracted: cell k of the buffer holds    *)
(* <<c, i>>, the i-th character written by a call with tag c (i = len + 1  *)
(* for the terminating NUL), which is what tells a result that is intact   *)
(* from one that a later call overwrote.  Tags cycle through 1 .. Tags;    *)
(* only the width of a domain matters.                                     *)
(***************************************************************************)
EXTENDS Integers, Sequences

CONSTANTS
  PRINT_BUFFER_SIZE,   \* the size of s_buf (1024 in the code)
  MaxWidth,            \* the widest domain printed
  Tags                 \* number of distinct call tags (at least 3)

ASSUME PRINT_BUFFER_SIZE >= 5 /\ MaxWidth \in Nat \ {0} /\ Tags >= 3

VARIABLES
  s_buf,       \* s_buf[k] for k in 0 .. PRINT_BUFFER_SIZE - 1
  s_buf_pos,   \* the next free position
  tag,         \* the tag of the last call (0: none yet)
  results,     \* the last two results [tag, start, len], the latest last
  asserts_ok,  \* every assertion of to_str held so far
  overflow     \* a write went past the end of s_buf

vars == <<s_buf, s_buf_pos, tag, results, asserts_ok, overflow>>

Cells == 0 .. PRINT_BUFFER_SIZE - 1

Empty == <<0, 0>>

(***************************************************************************)
(* One call on a domain of the given width.                                *)
(***************************************************************************)
\* Mutant: the reset only when the bits alone do not fit.
to_str_start_gt(width, pos) == IF width > PRINT_BUFFER_SIZE - pos THEN 0 ELSE pos

\* Mutant: no room kept for the NUL in the reset test.
to_str_start_no_nul(width, pos) == IF width >= PRINT_BUFFER_SIZE - pos THEN 0 ELSE pos

\* The reset to the buffer's start when the bits and the NUL do not fit
\* behind s_buf_pos.
to_str_start(width, pos) == IF width + 1 >= PRINT_BUFFER_SIZE - pos THEN 0 ELSE pos

\* Mutant: the reset moves the start of the string but not s_buf_pos.
to_str_pos_not_reset(width) ==
  LET too_long    == width + 1 >= PRINT_BUFFER_SIZE
      buf_start   == to_str_start(width, s_buf_pos)
      print_width == IF too_long THEN width - 3 ELSE width
      len         == print_width + (IF too_long THEN 3 ELSE 0)
      end         == buf_start + len + 1   \* s_buf_pos after the NUL
      c           == (tag % Tags) + 1
  IN  /\ s_buf' = [k \in Cells |->
                     IF buf_start <= k /\ k < end THEN <<c, k - buf_start + 1>> ELSE s_buf[k]]
      /\ s_buf_pos' = s_buf_pos + len + 1
      /\ overflow' = (overflow \/ end > PRINT_BUFFER_SIZE)
      /\ asserts_ok' =
           /\ asserts_ok
           /\ s_buf_pos <= PRINT_BUFFER_SIZE
           \* assert(s_buf_pos < PRINT_BUFFER_SIZE - 1) after each bit
           /\ print_width = 0 \/ buf_start + print_width < PRINT_BUFFER_SIZE - 1
           /\ ~too_long \/ buf_start + print_width < PRINT_BUFFER_SIZE - 4
      /\ results' = SubSeq(results, IF Len(results) = 2 THEN 2 ELSE 1, Len(results))
                     \o <<[tag |-> c, start |-> buf_start, len |-> len]>>
      /\ tag' = c

\* Mutant: the NUL is written without advancing s_buf_pos.
to_str_nul_not_counted(width) ==
  LET too_long    == width + 1 >= PRINT_BUFFER_SIZE
      buf_start   == to_str_start(width, s_buf_pos)
      print_width == IF too_long THEN width - 3 ELSE width
      len         == print_width + (IF too_long THEN 3 ELSE 0)
      end         == buf_start + len + 1   \* s_buf_pos after the NUL
      c           == (tag % Tags) + 1
  IN  /\ s_buf' = [k \in Cells |->
                     IF buf_start <= k /\ k < end THEN <<c, k - buf_start + 1>> ELSE s_buf[k]]
      /\ s_buf_pos' = end - 1
      /\ overflow' = (overflow \/ end > PRINT_BUFFER_SIZE)
      /\ asserts_ok' =
           /\ asserts_ok
           /\ s_buf_pos <= PRINT_BUFFER_SIZE
           \* assert(s_buf_pos < PRINT_BUFFER_SIZE - 1) after each bit
           /\ print_width = 0 \/ buf_start + print_width < PRINT_BUFFER_SIZE - 1
           /\ ~too_long \/ buf_start + print_width < PRINT_BUFFER_SIZE - 4
      /\ results' = SubSeq(results, IF Len(results) = 2 THEN 2 ELSE 1, Len(results))
                     \o <<[tag |-> c, start |-> buf_start, len |-> len]>>
      /\ tag' = c

bzla_bvdomain_to_str(width) ==
  LET too_long    == width + 1 >= PRINT_BUFFER_SIZE
      buf_start   == to_str_start(width, s_buf_pos)
      print_width == IF too_long THEN width - 3 ELSE width
      len         == print_width + (IF too_long THEN 3 ELSE 0)
      end         == buf_start + len + 1   \* s_buf_pos after the NUL
      c           == (tag % Tags) + 1
  IN  /\ s_buf' = [k \in Cells |->
                     IF buf_start <= k /\ k < end THEN <<c, k - buf_start + 1>> ELSE s_buf[k]]
      /\ s_buf_pos' = end
      /\ overflow' = (overflow \/ end > PRINT_BUFFER_SIZE)
      /\ asserts_ok' =
           /\ asserts_ok
           /\ s_buf_pos <= PRINT_BUFFER_SIZE
           \* assert(s_buf_pos < PRINT_BUFFER_SIZE - 1) after each bit
           /\ print_width = 0 \/ buf_start + print_width < PRINT_BUFFER_SIZE - 1
           /\ ~too_long \/ buf_start + print_width < PRINT_BUFFER_SIZE - 4
      /\ results' = SubSeq(results, IF Len(results) = 2 THEN 2 ELSE 1, Len(results))
                     \o <<[tag |-> c, start |-> buf_start, len |-> len]>>
      /\ tag' = c

\* A write past s_buf is undefined behaviour: the model stops there.
ToStr ==
  /\ ~overflow
  /\ \E width \in 1 .. MaxWidth : bzla_bvdomain_to_str(width)

Init ==
  /\ s_buf = [k \in Cells |-> Empty]
  /\ s_buf_pos = 0
  /\ tag = 0
  /\ results = <<>>
  /\ asserts_ok = TRUE
  /\ overflow = FALSE

Next == ToStr

Spec == Init /\ [][Next]_vars

(***************************************************************************)
(* Properties.                                                             *)
(***************************************************************************)
TypeOK ==
  /\ s_buf \in [Cells -> (0 .. Tags) \X (0 .. MaxWidth + 1)]
  /\ s_buf_pos \in 0 .. PRINT_BUFFER_SIZE
  /\ Len(results) <= 2

\* The string result r still reads as written: its characters and its NUL,
\* in place.
Intact(r) ==
  \A i \in 1 .. r.len + 1 :
    r.start + i - 1 \in Cells /\ s_buf[r.start + i - 1] = <<r.tag, i>>

\* The assertions of to_str hold on every call.
AssertionsHold == asserts_ok

\* No call writes past the end of s_buf.
NoOverflow == ~overflow

\* A caller that holds the pointer from one call while making the next (two
\* domains in one printf) still reads its string intact unless that next
\* call wrapped around to the start of s_buf: the position left after the
\* NUL is where the next string begins.
PrevIntactUntilWrap ==
  Len(results) = 2 /\ results[2].start # 0 => Intact(results[1])

=============================================================================

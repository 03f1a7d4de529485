--------------------------- MODULE ValueEnumerator ---------------------------
(***************************************************************************)
(* What a domain value generator promises its caller (spec 4.3 and 8.6),   *)
(* stated without counters: once started, it holds a set 'pool' of values; *)
(* 'next' returns the least value not yet returned, in ascending order,    *)
(* until none is left; 'random' returns any member of the pool, after      *)
(* which 'next' continues above it, or from the start of the pool when it  *)
(* returned the greatest one.                                              *)
(***************************************************************************)
EXTENDS Integers, FiniteSetsExt

CONSTANTS
  Values,   \* the values a pool may hold
  None      \* no value returned yet

VARIABLES
  live,     \* the enumerator has been started and not stopped
  pool,     \* the set it enumerates
  todo,     \* the values 'next' still returns, in ascending order
  cur       \* the value returned last, or None

AInit == live = FALSE /\ pool = {} /\ todo = {} /\ cur = None

AStart ==
  /\ ~live
  /\ live' = TRUE
  /\ pool' \in SUBSET Values
  /\ todo' = pool'
  /\ cur' = None

ANext ==
  /\ live /\ todo # {}
  /\ cur' = Min(todo)
  /\ todo' = todo \ {Min(todo)}
  /\ UNCHANGED <<live, pool>>

\* After the greatest value the enumeration starts over.
ARandom ==
  /\ live /\ pool # {}
  /\ \E v \in pool :
       /\ cur' = v
       /\ todo' = IF v = Max(pool) THEN pool ELSE {u \in pool : u > v}
  /\ UNCHANGED <<live, pool>>

AStop ==
  /\ live
  /\ live' = FALSE /\ pool' = {} /\ todo' = {} /\ cur' = None

ANextStep == AStart \/ ANext \/ ARandom \/ AStop

ASpec == AInit /\ [][ANextStep]_<<live, pool, todo, cur>>

=============================================================================

--------------------------- MODULE MonotonicClock ---------------------------
(***************************************************************************)
(* time.monotonic() as the gateway's handlers read it.  A blocking call     *)
(* with a timeout returns no later than its timeout: the clock does not     *)
(* pass an instant at which a call in progress must return.                 *)
(***************************************************************************)
EXTENDS Integers

CONSTANT MaxNow   \* bound of the model on time

VARIABLE now

ASSUME HorizonAssumption == MaxNow \in Nat

Instants == 0..MaxNow

Later(a, b) == IF a >= b THEN a ELSE b
Earlier(a, b) == IF a <= b THEN a ELSE b

=============================================================================

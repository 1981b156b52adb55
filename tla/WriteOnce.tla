----------------------------- MODULE WriteOnce -----------------------------
(***************************************************************************)
(* What the diagnostic gateway promises the backend about a state-changing *)
(* call: an action ID is claimed at most once, its host command takes      *)
(* effect at most once and only after the claim, and the verdict kept for  *)
(* it is written once and says "ok" only of a command that took effect.    *)
(* Nothing is promised about a claimed ID ever taking effect.              *)
(***************************************************************************)
EXTENDS Naturals

CONSTANT ActionIds

VARIABLES
  claimed,      \* IDs that can never be claimed again
  effects,      \* how often the host command of an ID has taken effect
  verdict       \* the durable outcome of an ID

promiseVars == <<claimed, effects, verdict>>

Verdicts == {"none", "ok", "failed"}

Init ==
  /\ claimed = {}
  /\ effects = [id \in ActionIds |-> 0]
  /\ verdict = [id \in ActionIds |-> "none"]

Claim(id) ==
  /\ id \notin claimed
  /\ claimed' = claimed \cup {id}
  /\ UNCHANGED <<effects, verdict>>

TakeEffect(id) ==
  /\ id \in claimed
  /\ effects[id] = 0
  /\ effects' = [effects EXCEPT ![id] = 1]
  /\ UNCHANGED <<claimed, verdict>>

Conclude(id, v) ==
  /\ id \in claimed
  /\ verdict[id] = "none"
  /\ v = "ok" => effects[id] = 1
  /\ verdict' = [verdict EXCEPT ![id] = v]
  /\ UNCHANGED <<claimed, effects>>

Next ==
  \E id \in ActionIds :
    \/ Claim(id)
    \/ TakeEffect(id)
    \/ \E v \in {"ok", "failed"} : Conclude(id, v)

Spec == Init /\ [][Next]_promiseVars

=============================================================================

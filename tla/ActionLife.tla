----------------------------- MODULE ActionLife -----------------------------
(***************************************************************************)
(* What the backend promises of every action it records: it is decided     *)
(* once, only what an operator approved or the policy granted is sent, and *)
(* once; nothing is stopped without an approval; nothing is sent of which  *)
(* an outcome was recorded; and an approved action that passed its         *)
(* verification stays so.  Nothing is promised about an action ever being  *)
(* decided, sent or verified.                                              *)
(***************************************************************************)
EXTENDS Naturals

CONSTANTS
  ActionIds,
  Proposals,     \* what may be asked of the host, for which incident
  Nothing

VARIABLES
  proposal,      \* what an action is, once it is recorded
  decision,      \* what was decided of it
  sends,         \* how often its signed write was sent
  landed,        \* the actions whose write changed the host
  outcome        \* what the verification of it found

lifeVars == <<proposal, decision, sends, landed, outcome>>

Init ==
  /\ proposal = [a \in ActionIds |-> Nothing]
  /\ decision = [a \in ActionIds |-> "ABSENT"]
  /\ sends = [a \in ActionIds |-> 0]
  /\ landed = {}
  /\ outcome = [a \in ActionIds |-> "NOT_RUN"]

Granted(a) == decision[a] \in {"APPROVED", "AUTO_AUTHORIZED"}

\* New rows: proposals for an operator, or a recovery that the policy grants.
Record(N, how) ==
  /\ \A a \in N : decision[a] = "ABSENT"
  /\ \E what \in [N -> Proposals] :
       /\ how = "AUTO_AUTHORIZED" => \A a \in N : what[a].tool = "recover"
       /\ proposal' = [a \in ActionIds |-> IF a \in N THEN what[a] ELSE proposal[a]]
  /\ decision' = [a \in ActionIds |-> IF a \in N THEN how ELSE decision[a]]
  /\ UNCHANGED <<sends, landed, outcome>>

Decide(a, what) ==
  /\ decision[a] = "PENDING"
  /\ decision' = [decision EXCEPT ![a] = what]
  /\ UNCHANGED <<proposal, sends, landed, outcome>>

Send(a) ==
  /\ Granted(a) /\ sends[a] = 0 /\ outcome[a] = "NOT_RUN"
  /\ sends' = [sends EXCEPT ![a] = 1]
  /\ UNCHANGED <<proposal, decision, landed, outcome>>

Land(a) ==
  /\ sends[a] = 1 /\ a \notin landed
  /\ landed' = landed \cup {a}
  /\ UNCHANGED <<proposal, decision, sends, outcome>>

\* An incident that has recovered needs none of its other proposals.
Retire(incident) ==
  decision' = [a \in ActionIds |-> IF decision[a] = "PENDING" /\ proposal[a].inc = incident
                                   THEN "EXPIRED" ELSE decision[a]]

Recover(a) ==
  /\ decision[a] = "PENDING"
  /\ Retire(proposal[a].inc)
  /\ UNCHANGED <<proposal, sends, landed, outcome>>

Conclude(a, found) ==
  /\ Granted(a)
  /\ decision[a] = "APPROVED" => outcome[a] # "PASSED"
  /\ outcome' = [outcome EXCEPT ![a] = found]
  /\ UNCHANGED decision \/ (found = "PASSED" /\ Retire(proposal[a].inc))
  /\ UNCHANGED <<proposal, sends, landed>>

Next ==
  \/ \E N \in SUBSET ActionIds, how \in {"PENDING", "AUTO_AUTHORIZED"} : Record(N, how)
  \/ \E a \in ActionIds :
       \/ \E what \in {"APPROVED", "REJECTED", "EXPIRED"} : Decide(a, what)
       \/ Send(a) \/ Land(a) \/ Recover(a)
       \/ \E found \in {"PASSED", "FAILED", "BLOCKED"} : Conclude(a, found)

Spec == Init /\ [][Next]_lifeVars

-----------------------------------------------------------------------------
\* README.md 43: "a deliberate stop is never autonomous recovery"; the host is only
\* stopped by an action that an operator approved.
StopsApproved ==
  \A a \in landed : proposal[a].tool = "stop" => decision[a] = "APPROVED"

=============================================================================

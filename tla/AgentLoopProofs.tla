--------------------------- MODULE AgentLoopProofs ---------------------------
(***************************************************************************)
(* For every set of targets, every budget and every number of runs: no     *)
(* diagnostic is repeated without a write between, a narrowed schema       *)
(* offers nothing the duplicate guard refuses, and the budget holds.       *)
(*                                                                         *)
(* The three properties read the observations and the control of the run.  *)
(* TypeInv is the basis; WayStep says the only ways in which any step      *)
(* changes those variables, and each invariant has one case for each way.  *)
(***************************************************************************)
EXTENDS AgentLoop, FiniteSetTheorems, SequenceTheorems, TLAPS

\* What the run awaits, and a decision in hand for each step that will cost one.
Placed ==
  /\ pc \in {"routing", "reading", "inspecting"} => call \in Reads
  /\ pc = "writing" => call \in Writes
  /\ pc \notin {"routing", "reading", "inspecting", "writing"} => call = NoCall
  /\ pc \in {"classifying", "routing", "verifying"} => left >= 1

TypeInv == TypeOK /\ Placed

-----------------------------------------------------------------------------
\* Every answer of a tool is a result.
LEMMA AnswersAreResults == \A c : Answers(c) \subseteq Results
  BY ResultAssumption DEF Answers

\* There are finitely many writes, so that proposals can be counted.
LEMMA WritesFinite == IsFiniteSet(Writes)
<1> DEFINE start == [t \in Targets |->
                       [tool |-> "start_container", target |-> t, knob |-> NoKnob]]
           restart == [t \in Targets |->
                         [tool |-> "restart_container", target |-> t, knob |-> NoKnob]]
           starts == {start[t] : t \in Targets}
           restarts == {restart[t] : t \in Targets}
<1>1. start \in Surjection(Targets, starts) /\ restart \in Surjection(Targets, restarts)
  BY DEF Surjection
<1>3. IsFiniteSet(starts) /\ IsFiniteSet(restarts)
  <2> HIDE DEF start, restart, starts, restarts
  <2> QED BY <1>1, TargetAssumption, FS_Surjection
<1>2. Writes \subseteq starts \cup restarts
  <2> SUFFICES ASSUME NEW w \in Writes PROVE w \in starts \cup restarts
    OBVIOUS
  <2>1. w.target \in Targets /\ (w = start[w.target] \/ w = restart[w.target])
    BY DEF Writes
  <2> QED BY <2>1
<1> HIDE DEF starts, restarts
<1> QED BY <1>2, <1>3, FS_Union, FS_Subset

\* Proposing adds a natural number of rows.
LEMMA RowsInNat == ASSUME NEW W \in SUBSET Writes PROVE Rows(W) \in Nat
  BY WritesFinite, FS_Subset, FS_CardinalityType DEF Rows

\* A verification is a sequence of observations.
LEMMA VerificationType ==
  ASSUME run \in Nat, NEW r \in Outcomes
  PROVE  Verification(r) \in Seq(Observations)
<1>1. Len(Checks) \in Nat /\ DOMAIN Checks = 1..Len(Checks)
      /\ \A k \in DOMAIN Checks : Checks[k] \in Targets
  BY PermittedAssumption, LenProperties, ElementOfSeq
<1>2. \A k \in DOMAIN Checks : Observation(Inspect(Checks[k]), r[k], "VERIFICATION") \in Observations
  BY <1>1 DEF Outcomes, Observation, Observations, Inspect, Reads, Phases
<1>3. Verification(r) \in [1..Len(Checks) -> Observations]
  BY <1>1, <1>2 DEF Verification
<1> QED BY <1>1, <1>3

\* A verdict keeps the types, whoever asked for it.
LEMMA VerdictType ==
  ASSUME TypeOK, NEW r \in Outcomes, NEW waiting \in SUBSET Writes, Verdict(r, waiting)
  PROVE  obs' \in Seq(Observations) /\ proposed' \subseteq Writes /\ status' \in Statuses
<1>1. Verification(r) \in Seq(Observations)
  BY VerificationType DEF TypeOK
<1>2. obs' \in Seq(Observations)
  BY <1>1, ConcatProperties DEF Verdict, TypeOK
<1>3. proposed' \subseteq Writes
  BY DEF Verdict
<1>4. status' \in Statuses
  <2>1. Passed(r) \in BOOLEAN
    BY DEF Passed
  <2> QED BY <2>1 DEF Verdict, Statuses
<1> QED BY <1>2, <1>3, <1>4

\* So does an answer.
LEMMA RecordType ==
  ASSUME TypeOK, call \in Reads \cup Writes, NEW result \in Answers(call),
         NEW phase \in Phases, Record(result, phase)
  PROVE  obs' \in Seq(Observations)
<1>1. Observation(call, result, phase) \in Observations
  BY AnswersAreResults DEF Observation, Observations, TypeOK
<1> QED BY <1>1, AppendProperties DEF Record, TypeOK

\* The budget of a run is at least one decision.
LEMMA BudgetPositive == Budget \in Nat /\ Budget >= 1
  BY LimitAssumption DEF Budget

\* Every step of the loop, the operator and the backend keeps types and places.
LEMMA TypeStep ==
  ASSUME TypeInv, [Next]_vars
  PROVE  TypeInv'
<1> USE DEF TypeInv, TypeOK, Placed, incidentVars, runVars, Points, Statuses
<1>1. CASE RunStep
  <2>1. CASE NoRoute
    BY <2>1 DEF NoRoute
  <2>2. ASSUME NEW t \in Targets, Route(t) PROVE TypeInv'
    BY <2>2 DEF Route, Inspect, Reads
  <2>3. ASSUME NEW result \in Results, RouteAnswered(result) PROVE TypeInv'
    <3>1. obs' \in Seq(Observations)
      BY <2>3, RecordType DEF RouteAnswered, Phases
    <3> QED BY <2>3, <3>1 DEF RouteAnswered
  <2>4. ASSUME NEW result \in Results, ReadAnswered(result) PROVE TypeInv'
    <3>1. obs' \in Seq(Observations)
      BY <2>4, RecordType DEF ReadAnswered, Phases
    <3> QED BY <2>4, <3>1 DEF ReadAnswered
  <2>5. ASSUME NEW result \in Results, WriteAnswered(result) PROVE TypeInv'
    <3>1. obs' \in Seq(Observations)
      BY <2>5, RecordType DEF WriteAnswered, Phases
    <3>2. Inspect(call.target) \in Reads
      BY <2>5 DEF WriteAnswered, Writes, Inspect, Reads
    <3> QED BY <2>5, <3>1, <3>2, LimitAssumption DEF WriteAnswered
  <2>6. ASSUME NEW result \in Results, InspectAgain(result) PROVE TypeInv'
    <3>1. obs' \in Seq(Observations)
      BY <2>6, RecordType DEF InspectAgain, Phases
    <3> QED BY <2>6, <3>1 DEF InspectAgain
  <2>7. ASSUME NEW result \in Results, Inspected(result) PROVE TypeInv'
    <3>1. obs' \in Seq(Observations)
      BY <2>7, RecordType DEF Inspected, Phases
    <3> QED BY <2>7, <3>1 DEF Inspected
  <2>8. CASE Decide
    <3>1. ASSUME NEW c \in Reads, Read(c) PROVE TypeInv'
      BY <3>1 DEF Read
    <3>2. CASE Reject
      BY <3>2 DEF Reject, Rejected, Over
    <3>3. ASSUME NEW W \in SUBSET Writes, NEW rejected \in BOOLEAN, DiagnoseForApproval(W, rejected)
          PROVE TypeInv'
      <4>1. rows' \in Nat
        BY <3>3, RowsInNat DEF DiagnoseForApproval
      <4> QED BY <3>3, <4>1 DEF DiagnoseForApproval, Rejected, Over
    <3>4. ASSUME NEW w \in Writes, RequestApproval(w) PROVE TypeInv'
      <4>1. rows' \in Nat
        BY <3>4, RowsInNat DEF RequestApproval
      <4> QED BY <3>4, <4>1 DEF RequestApproval, Over
    <3>5. ASSUME NEW w \in Writes, Claim(w), pc = "deciding", left > 0,
                 status' \in Statuses, reported' \in BOOLEAN
          PROVE TypeInv'
      <4>1. Len(obs) \in Nat
        BY LenProperties
      <4>2. w.target \in Targets
        BY DEF Writes
      <4> QED BY <3>5, <4>1, <4>2 DEF Claim
    <3>6. ASSUME NEW w \in Writes, Execute(w) PROVE TypeInv'
      BY <3>5, <3>6 DEF Execute
    <3>7. ASSUME NEW w \in Writes, DiagnoseAndExecute(w) PROVE TypeInv'
      BY <3>5, <3>7 DEF DiagnoseAndExecute
    <3>8. CASE DiagnoseAndVerify
      BY <3>8 DEF DiagnoseAndVerify
    <3>9. CASE DiagnoseMalformed
      BY <3>9 DEF DiagnoseMalformed, Rejected, Over
    <3>10. CASE ModelFails \/ Conclude
      BY <3>10 DEF ModelFails, Conclude, Over
    <3> QED BY <2>8, <3>1, <3>2, <3>3, <3>4, <3>6, <3>7, <3>8, <3>9, <3>10 DEF Decide
  <2>9. CASE Exhausted \/ VerificationStarts
    BY <2>9 DEF Exhausted, VerificationStarts, Over
  <2>10. ASSUME NEW r \in Outcomes, Verified(r) PROVE TypeInv'
    <3>1. obs' \in Seq(Observations) /\ proposed' \subseteq Writes /\ status' \in Statuses
      BY <2>10, VerdictType DEF Verified
    <3> QED BY <2>10, <3>1 DEF Verified, Over
  <2>11. ASSUME NEW rejected \in BOOLEAN, VerificationRefused(rejected) PROVE TypeInv'
    BY <2>11 DEF VerificationRefused, Rejected, Over
  <2> QED BY <1>1, <2>1, <2>2, <2>3, <2>4, <2>5, <2>6, <2>7, <2>8, <2>9, <2>10, <2>11 DEF RunStep
<1>2. CASE RuntimeLimit
  BY <1>2 DEF RuntimeLimit, Over
<1>3. CASE OperatorStep
  <2>1. CASE Begin
    BY <2>1, BudgetPositive DEF Begin
  <2>2. ASSUME NEW w \in Writes, ApproveUncertain(w) PROVE TypeInv'
    <3>1. Len(obs) \in Nat
      BY LenProperties
    <3> QED BY <2>2, <3>1 DEF ApproveUncertain
  <2>3. ASSUME NEW w \in Writes, RejectProposal(w) \/ ApproveExpires(w) PROVE TypeInv'
    BY <2>3 DEF RejectProposal, ApproveExpires, Withdraw
  <2>4. ASSUME NEW w \in Writes, NEW r \in Outcomes, Approve(w, r) PROVE TypeInv'
    <3>1. obs' \in Seq(Observations) /\ proposed' \subseteq Writes /\ status' \in Statuses
      BY <2>4, VerdictType DEF Approve
    <3>2. Len(obs) \in Nat
      BY LenProperties
    <3> QED BY <2>4, <3>1, <3>2 DEF Approve
  <2>5. ASSUME NEW r \in Outcomes, RequestVerify(r) PROVE TypeInv'
    <3>1. obs' \in Seq(Observations) /\ proposed' \subseteq Writes /\ status' \in Statuses
      BY <2>5, VerdictType DEF RequestVerify
    <3> QED BY <2>5, <3>1 DEF RequestVerify
  <2>6. CASE RequestVerifyBlocked
    BY <2>6 DEF RequestVerifyBlocked
  <2> QED BY <1>3, <2>1, <2>2, <2>3, <2>4, <2>5, <2>6 DEF OperatorStep
<1>4. ASSUME NEW mode \in Modes, Restart(mode) PROVE TypeInv'
  BY <1>4, LimitAssumption DEF Restart, Over
<1>5. CASE UNCHANGED vars
  BY <1>5 DEF vars
<1> QED BY <1>1, <1>2, <1>3, <1>4, <1>5 DEF Next

\* An incident that was just created, before any run.
LEMMA TypeInit == Init => TypeInv
<1> SUFFICES ASSUME Init PROVE TypeInv
  OBVIOUS
<1>1. obs \in Seq(Observations)
  BY EmptySeq DEF Init
<1>2. touched \in [Targets -> Nat \cup {-1}]
  BY DEF Init
<1>3. call \in Reads \cup Writes \cup {NoCall}
  BY DEF Init
<1>4. autonomous \in BOOLEAN /\ reported \in BOOLEAN
  <2>1. Modes \subseteq BOOLEAN
    BY LimitAssumption
  <2> QED BY <2>1, Zenon DEF Init
<1>5. /\ status \in Statuses
      /\ rows \in Nat /\ proposed \subseteq Writes /\ attempted \subseteq Targets
      /\ run \in Nat /\ pc \in Points /\ calls \subseteq Reads /\ left \in Nat
      /\ invalid \in 0..2 /\ attempts \in Nat
  BY DEF Init, Statuses, Points
<1>6. Placed
  BY DEF Init, Placed
<1> QED BY <1>1, <1>2, <1>3, <1>4, <1>5, <1>6 DEF TypeInv, TypeOK

\* Types and places hold in every behaviour.
LEMMA TypeInvariance == Spec => []TypeInv
  BY TypeInit, TypeStep, PTL DEF Spec

\* The incident and the run keep their types.
THEOREM Typing == Spec => []TypeOK
<1>1. TypeInv => TypeOK
  BY DEF TypeInv
<1> QED BY <1>1, TypeInvariance, PTL

-----------------------------------------------------------------------------
(* The ways in which the run and the observations change. *)

Prefix == Len(obs) <= Len(obs') /\ \A n \in 1..Len(obs) : obs'[n] = obs[n]

\* Nothing but verifications was observed.
Verifies ==
  /\ Prefix
  /\ \A n \in 1..Len(obs') : n > Len(obs) =>
       obs'[n].phase = "VERIFICATION" /\ obs'[n].run = run

Observes(result, phase) ==
  /\ Prefix
  /\ Len(obs') = Len(obs) + 1
  /\ obs'[Len(obs) + 1] = Observation(call, result, phase)

Rests == Verifies /\ UNCHANGED <<run, pc, call, calls, left>>
Ends == Verifies /\ run' = run /\ pc' = "idle" /\ calls' = {} /\ left' = 0
Starts ==
  /\ UNCHANGED obs
  /\ pc = "idle" /\ pc' = "classifying"
  /\ run' = run + 1
  /\ calls' = {}
  /\ left' = Budget
Thinks ==
  /\ UNCHANGED <<obs, run, calls>>
  /\ pc \in {"classifying", "deciding", "verifying"}
  /\ pc' \in {"deciding", "verifying", "checking"}
  /\ left' <= left
Asks(c) ==
  /\ UNCHANGED <<obs, run>>
  /\ calls' = calls \cup {c}
  /\ call' = c
  /\ \/ pc = "classifying" /\ pc' = "routing" /\ left' = left
     \/ pc = "deciding" /\ pc' = "reading" /\ c \notin calls /\ left' = left - 1
Hears(result) ==
  /\ pc \in {"routing", "reading"} /\ pc' = "deciding"
  /\ Observes(result, "INVESTIGATION")
  /\ UNCHANGED <<run, calls>>
  /\ left' = IF pc = "routing" THEN left - 1 ELSE left
Sends ==
  /\ pc = "deciding" /\ pc' = "writing"
  /\ UNCHANGED <<obs, run, calls>>
  /\ left' = left - 1
Acts(result) ==
  /\ pc = "writing" /\ pc' = "inspecting"
  /\ Observes(result, "REMEDIATION")
  /\ UNCHANGED <<run, calls, left>>
Forgets ==
  /\ pc = "inspecting" /\ pc' = "deciding"
  /\ Verifies
  /\ calls' = {}
  /\ UNCHANGED <<run, left>>

Ways ==
  \/ Rests \/ Ends \/ Starts \/ Thinks \/ Sends \/ Forgets
  \/ \E c \in Reads : Asks(c)
  \/ \E result \in Results : Hears(result) \/ Acts(result)

\* Without an observation nothing but verifications was observed.
LEMMA NothingObserved ==
  ASSUME TypeInv, UNCHANGED obs
  PROVE  Verifies
<1>1. Len(obs) \in Nat
  BY LenProperties DEF TypeInv, TypeOK
<1> QED BY <1>1 DEF Verifies, Prefix

\* A verdict observes verifications.
LEMMA VerdictVerifies ==
  ASSUME TypeInv, NEW r \in Outcomes, NEW waiting, Verdict(r, waiting)
  PROVE  Verifies
<1>1. Verification(r) \in Seq(Observations) /\ obs \in Seq(Observations)
  BY VerificationType DEF TypeInv, TypeOK
<1>2. /\ Len(obs) \in Nat /\ Len(Verification(r)) \in Nat
      /\ DOMAIN Verification(r) = 1..Len(Verification(r))
  BY <1>1, LenProperties
<1>3. obs' = obs \o Verification(r)
  BY DEF Verdict
<1>4. /\ Len(obs') = Len(obs) + Len(Verification(r))
      /\ \A n \in 1..Len(obs) + Len(Verification(r)) :
           obs'[n] = IF n <= Len(obs) THEN obs[n] ELSE Verification(r)[n - Len(obs)]
  BY <1>1, <1>3, ConcatProperties
<1>5. \A k \in DOMAIN Verification(r) :
        Verification(r)[k].phase = "VERIFICATION" /\ Verification(r)[k].run = run
  BY DEF Verification, Observation
<1> QED BY <1>2, <1>4, <1>5 DEF Verifies, Prefix

\* An answer observes itself.
LEMMA RecordObserves ==
  ASSUME TypeInv, call \in Reads \cup Writes, NEW result \in Answers(call),
         NEW phase \in Phases, Record(result, phase)
  PROVE  /\ Observes(result, phase)
         /\ phase = "VERIFICATION" => Verifies
<1>1. Observation(call, result, phase) \in Observations /\ obs \in Seq(Observations)
  BY AnswersAreResults DEF Observation, Observations, TypeInv, TypeOK
<1>2. Len(obs) \in Nat
  BY <1>1, LenProperties
<1>3. /\ Len(obs') = Len(obs) + 1
      /\ \A n \in 1..Len(obs) : obs'[n] = obs[n]
      /\ obs'[Len(obs) + 1] = Observation(call, result, phase)
  BY <1>1, AppendProperties DEF Record
<1>4. Observation(call, result, phase).phase = phase /\ Observation(call, result, phase).run = run
  BY DEF Observation
<1> QED BY <1>2, <1>3, <1>4 DEF Observes, Verifies, Prefix

\* There is no other way.
LEMMA WayStep ==
  ASSUME TypeInv, [Next]_vars
  PROVE  Ways
<1> USE DEF incidentVars, runVars
<1>0. call \in Reads \cup Writes \cup {NoCall} /\ left \in Nat
  BY DEF TypeInv, TypeOK
<1>1. CASE RunStep
  <2>1. ASSUME NEW t \in Targets, Route(t) PROVE Ways
    <3>1. Inspect(t) \in Reads
      BY DEF Inspect, Reads
    <3> QED BY <2>1, <3>1 DEF Route, Ways, Asks
  <2>2. ASSUME NEW result \in Results, RouteAnswered(result) \/ ReadAnswered(result)
        PROVE  Ways
    <3>1. Observes(result, "INVESTIGATION")
      BY <2>2, RecordObserves DEF RouteAnswered, ReadAnswered, Phases, TypeInv, Placed
    <3> QED BY <2>2, <3>1 DEF RouteAnswered, ReadAnswered, Ways, Hears
  <2>3. ASSUME NEW result \in Results, WriteAnswered(result) PROVE Ways
    <3>1. Observes(result, "REMEDIATION")
      BY <2>3, RecordObserves DEF WriteAnswered, Phases, TypeInv, Placed
    <3> QED BY <2>3, <3>1 DEF WriteAnswered, Ways, Acts
  <2>4. ASSUME NEW result \in Results, InspectAgain(result) \/ Inspected(result)
        PROVE  Ways
    <3>1. Verifies
      BY <2>4, RecordObserves DEF InspectAgain, Inspected, Phases, TypeInv, Placed
    <3> QED BY <2>4, <3>1 DEF InspectAgain, Inspected, Ways, Forgets, Rests
  <2>5. CASE Decide
    <3>1. ASSUME NEW c \in Reads, Read(c) PROVE Ways
      BY <3>1 DEF Read, Ways, Asks
    <3>2. ASSUME NEW w \in Writes, Execute(w) \/ DiagnoseAndExecute(w) PROVE Ways
      BY <3>2 DEF Execute, DiagnoseAndExecute, Claim, Ways, Sends
    <3>3. CASE DiagnoseAndVerify
      BY <3>3, <1>0 DEF DiagnoseAndVerify, Ways, Thinks
    <3>4. ASSUME NEW W \in SUBSET Writes, NEW rejected \in BOOLEAN, DiagnoseForApproval(W, rejected)
          PROVE  Ways
      BY <3>4, <1>0, NothingObserved DEF DiagnoseForApproval, Rejected, Over, Ways, Thinks, Ends
    <3>5. ASSUME NEW w \in Writes, RequestApproval(w) PROVE Ways
      BY <3>5, NothingObserved DEF RequestApproval, Over, Ways, Ends
    <3>6. CASE Reject \/ DiagnoseMalformed
      BY <3>6, <1>0, NothingObserved DEF Reject, DiagnoseMalformed, Rejected, Over, Ways, Thinks, Ends
    <3>7. CASE ModelFails \/ Conclude
      BY <3>7, NothingObserved DEF ModelFails, Conclude, Over, Ways, Ends
    <3> QED BY <2>5, <3>1, <3>2, <3>3, <3>4, <3>5, <3>6, <3>7 DEF Decide
  <2>6. CASE NoRoute \/ VerificationStarts
    BY <2>6, <1>0 DEF NoRoute, VerificationStarts, Ways, Thinks
  <2>7. CASE Exhausted
    BY <2>7, NothingObserved DEF Exhausted, Over, Ways, Ends
  <2>8. ASSUME NEW r \in Outcomes, Verified(r) PROVE Ways
    BY <2>8, VerdictVerifies DEF Verified, Over, Ways, Ends
  <2>9. ASSUME NEW rejected \in BOOLEAN, VerificationRefused(rejected) PROVE Ways
    BY <2>9, <1>0, NothingObserved DEF VerificationRefused, Rejected, Over, Ways, Thinks, Ends
  <2> QED BY <1>1, <2>1, <2>2, <2>3, <2>4, <2>5, <2>6, <2>7, <2>8, <2>9 DEF RunStep
<1>2. CASE RuntimeLimit \/ \E mode \in Modes : Restart(mode)
  BY <1>2, NothingObserved DEF RuntimeLimit, Restart, Over, Ways, Ends
<1>3. CASE OperatorStep
  <2>1. CASE Begin
    BY <2>1 DEF Begin, Ways, Starts
  <2>2. ASSUME NEW w \in Writes, ApproveUncertain(w) \/ RejectProposal(w) \/ ApproveExpires(w)
        PROVE  Ways
    BY <2>2, NothingObserved
    DEF ApproveUncertain, RejectProposal, ApproveExpires, Withdraw, Ways, Rests
  <2>3. ASSUME NEW w \in Writes, NEW r \in Outcomes, Approve(w, r) PROVE Ways
    BY <2>3, VerdictVerifies DEF Approve, Ways, Rests
  <2>4. ASSUME NEW r \in Outcomes, RequestVerify(r) PROVE Ways
    BY <2>4, VerdictVerifies DEF RequestVerify, Ways, Rests
  <2>5. CASE RequestVerifyBlocked
    BY <2>5, NothingObserved DEF RequestVerifyBlocked, Ways, Rests
  <2> QED BY <1>3, <2>1, <2>2, <2>3, <2>4, <2>5 DEF OperatorStep
<1>4. CASE UNCHANGED vars
  BY <1>4, NothingObserved DEF vars, Ways, Rests
<1> QED BY <1>1, <1>2, <1>3, <1>4 DEF Next

-----------------------------------------------------------------------------
(* What the run remembers. *)

\* An investigation only observes in its own time, and a run begins with no calls.
Chronicle ==
  /\ \A n \in DOMAIN obs : obs[n].run <= run
  /\ pc = "classifying" => calls = {}

Investigated(n) == obs[n].run = run /\ obs[n].phase = "INVESTIGATION"

\* Every diagnostic of this run since its last write is one of its calls; the
\* one it awaits is a call that was not answered yet; and after a write nothing
\* is left to remember.
Remembers ==
  /\ pc # "idle" =>
       \A n \in DOMAIN obs : Investigated(n) => Superseded(n) \/ obs[n].call \in calls
  /\ pc \in {"routing", "reading"} =>
       /\ call \in calls
       /\ \A n \in DOMAIN obs : Investigated(n) => Superseded(n) \/ obs[n].call # call
  /\ pc = "inspecting" => \A n \in DOMAIN obs : Investigated(n) => Superseded(n)

\* Every call of this run is awaited or was observed since its last write.
Answered(c) == \E n \in DOMAIN obs : SameDiagnostic(obs[n].call, c) /\ ~ Superseded(n)
Noticed == pc # "inspecting" => \A c \in calls : c = call \/ Answered(c)

\* Observations are numbered from one and have the columns of an observation.
LEMMA ObservationType ==
  ASSUME TypeInv
  PROVE  /\ DOMAIN obs = 1..Len(obs) /\ Len(obs) \in Nat
         /\ \A n \in DOMAIN obs : obs[n] \in Observations /\ obs[n].run \in Nat
<1>1. obs \in Seq(Observations)
  BY DEF TypeInv, TypeOK
<1>2. DOMAIN obs = 1..Len(obs) /\ Len(obs) \in Nat
  BY <1>1, LenProperties
<1>3. \A n \in DOMAIN obs : obs[n] \in Observations
  BY <1>1, <1>2, ElementOfSeq
<1>4. \A o \in Observations : o.run \in Nat
  BY DEF Observations
<1> QED BY <1>2, <1>3, <1>4

\* Verifications leave the past as it was.
LEMMA VerifiesKeeps ==
  ASSUME TypeInv, TypeInv', Verifies
  PROVE  /\ DOMAIN obs = 1..Len(obs) /\ DOMAIN obs' = 1..Len(obs') /\ Len(obs) \in Nat
         /\ DOMAIN obs \subseteq DOMAIN obs'
         /\ \A n \in DOMAIN obs : obs'[n] = obs[n] /\ (Superseded(n)' <=> Superseded(n))
         /\ \A n \in DOMAIN obs' : n \notin DOMAIN obs =>
              obs'[n].phase = "VERIFICATION" /\ obs'[n].run = run
<1>1. /\ DOMAIN obs = 1..Len(obs) /\ Len(obs) \in Nat
      /\ DOMAIN obs' = 1..Len(obs') /\ Len(obs') \in Nat
  BY LenProperties DEF TypeInv, TypeOK
<1>2. \A n \in DOMAIN obs' : n \notin DOMAIN obs =>
        obs'[n].phase = "VERIFICATION" /\ obs'[n].run = run
  BY <1>1 DEF Verifies, Prefix
<1>3. DOMAIN obs \subseteq DOMAIN obs' /\ \A n \in DOMAIN obs : obs'[n] = obs[n]
  BY <1>1 DEF Verifies, Prefix
<1>4. \A n \in DOMAIN obs : Superseded(n)' <=> Superseded(n)
  BY <1>2, <1>3 DEF Superseded
<1> QED BY <1>1, <1>2, <1>3, <1>4

\* An answer adds itself; a write supersedes all there is.
LEMMA ObservesAdds ==
  ASSUME TypeInv, TypeInv', NEW result, NEW phase, Observes(result, phase)
  PROVE  /\ DOMAIN obs = 1..Len(obs) /\ Len(obs) \in Nat
         /\ DOMAIN obs' = DOMAIN obs \cup {Len(obs) + 1}
         /\ obs'[Len(obs) + 1].call = call /\ obs'[Len(obs) + 1].phase = phase
         /\ obs'[Len(obs) + 1].run = run
         /\ \A n \in DOMAIN obs : obs'[n] = obs[n] /\ (Superseded(n) => Superseded(n)')
         /\ phase # "REMEDIATION" =>
              \A n \in DOMAIN obs' : Superseded(n)' => n \in DOMAIN obs /\ Superseded(n)
         /\ phase = "REMEDIATION" => \A n \in DOMAIN obs' : Superseded(n)'
<1>1. /\ DOMAIN obs = 1..Len(obs) /\ Len(obs) \in Nat
      /\ DOMAIN obs' = 1..Len(obs') /\ Len(obs') \in Nat
  BY LenProperties DEF TypeInv, TypeOK
<1>2. DOMAIN obs' = DOMAIN obs \cup {Len(obs) + 1}
  <2>1. Len(obs') = Len(obs) + 1
    BY DEF Observes
  <2> QED BY <1>1, <2>1
<1>3. obs'[Len(obs) + 1] = Observation(call, result, phase)
  BY DEF Observes
<1>4. \A n \in DOMAIN obs : obs'[n] = obs[n]
  BY <1>1 DEF Observes, Prefix
<1>5. /\ obs'[Len(obs) + 1].call = call /\ obs'[Len(obs) + 1].phase = phase
      /\ obs'[Len(obs) + 1].run = run
  BY <1>3 DEF Observation
<1>6. \A n \in DOMAIN obs : Superseded(n) => Superseded(n)'
  BY <1>2, <1>4 DEF Superseded
<1>7. ASSUME phase # "REMEDIATION", NEW n \in DOMAIN obs', Superseded(n)'
      PROVE  n \in DOMAIN obs /\ Superseded(n)
  <2>1. PICK m \in DOMAIN obs' : n <= m /\ obs'[m].phase = "REMEDIATION"
    BY <1>7 DEF Superseded
  <2>2. m \in DOMAIN obs
    BY <2>1, <1>2, <1>5, <1>7
  <2> QED BY <2>1, <2>2, <1>1, <1>4, <1>2 DEF Superseded
<1>8. ASSUME phase = "REMEDIATION", NEW n \in DOMAIN obs' PROVE Superseded(n)'
  <2>1. Len(obs) + 1 \in DOMAIN obs'
    BY <1>2
  <2>2. n \in 1..Len(obs) \/ n = Len(obs) + 1
    BY <1>1, <1>2, <1>8
  <2>3. n <= Len(obs) + 1
    BY <1>1, <2>2
  <2> QED BY <1>8, <2>1, <2>3, <1>5 DEF Superseded
<1> QED BY <1>1, <1>2, <1>5, <1>4, <1>6, <1>7, <1>8

\* Begin takes a new number and forgets the calls; all observations keep theirs.
LEMMA ChronicleStep ==
  ASSUME TypeInv, TypeInv', Ways, Chronicle
  PROVE  Chronicle'
<1>1. run \in Nat
  BY DEF TypeInv, TypeOK
<1>2. ASSUME Verifies, run' = run, calls' = {} \/ UNCHANGED <<pc, calls>>
      PROVE  Chronicle'
  BY <1>1, <1>2, VerifiesKeeps DEF Chronicle
<1>3. CASE Rests \/ Ends \/ Forgets
  BY <1>2, <1>3 DEF Rests, Ends, Forgets
<1>4. CASE Starts
  <2>1. \A n \in DOMAIN obs : obs[n].run \in Nat
    BY ObservationType
  <2> QED BY <1>1, <1>4, <2>1 DEF Starts, Chronicle
<1>5. CASE Thinks \/ Sends \/ \E c \in Reads : Asks(c)
  BY <1>5 DEF Thinks, Sends, Asks, Chronicle
<1>6. ASSUME NEW result \in Results, Hears(result) \/ Acts(result) PROVE Chronicle'
  <2>1. Observes(result, "INVESTIGATION") \/ Observes(result, "REMEDIATION")
    BY <1>6 DEF Hears, Acts
  <2>2. \A n \in DOMAIN obs' : obs'[n].run <= run
    BY <1>1, <2>1, ObservesAdds DEF Chronicle
  <2> QED BY <1>6, <2>2 DEF Hears, Acts, Chronicle
<1> QED BY <1>3, <1>4, <1>5, <1>6 DEF Ways

\* Read and Route remember the call before it is answered, Inspected forgets the
\* calls only after the write has superseded what they observed.
LEMMA RemembersStep ==
  ASSUME TypeInv, TypeInv', Ways, Chronicle, Remembers
  PROVE  Remembers'
<1>1. CASE Rests
  BY <1>1, VerifiesKeeps DEF Rests, Remembers, Investigated
<1>2. CASE Ends
  BY <1>2 DEF Ends, Remembers
<1>3. CASE Starts
  <2>1. run \in Nat /\ \A n \in DOMAIN obs : obs[n].run \in Nat
    BY ObservationType DEF TypeInv, TypeOK
  <2>2. \A n \in DOMAIN obs' : ~ Investigated(n)'
    BY <1>3, <2>1 DEF Starts, Chronicle, Investigated
  <2> QED BY <1>3, <2>2 DEF Starts, Remembers
<1>4. CASE Thinks \/ Sends
  BY <1>4 DEF Thinks, Sends, Remembers, Investigated, Superseded
<1>5. ASSUME NEW c \in Reads, Asks(c) PROVE Remembers'
  BY <1>5 DEF Asks, Remembers, Chronicle, Investigated, Superseded
<1>6. ASSUME NEW result \in Results, Hears(result) PROVE Remembers'
  <2>1. Observes(result, "INVESTIGATION")
    BY <1>6 DEF Hears
  <2>2. ASSUME NEW n \in DOMAIN obs', Investigated(n)'
        PROVE  Superseded(n)' \/ obs'[n].call \in calls'
    BY <1>6, <2>1, <2>2, ObservesAdds DEF Hears, Remembers, Investigated
  <2> QED BY <1>6, <2>2 DEF Hears, Remembers
<1>7. ASSUME NEW result \in Results, Acts(result) PROVE Remembers'
  <2>1. \A n \in DOMAIN obs' : Superseded(n)'
    BY <1>7, ObservesAdds DEF Acts
  <2> QED BY <1>7, <2>1 DEF Acts, Remembers
<1>8. CASE Forgets
  BY <1>8, VerifiesKeeps DEF Forgets, Remembers, Investigated
<1> QED BY <1>1, <1>2, <1>3, <1>4, <1>5, <1>6, <1>7, <1>8 DEF Ways

\* Only an answer adds a diagnostic, and it was not answered since the last write.
LEMMA NoRepeatStep ==
  ASSUME TypeInv, TypeInv', Ways, Remembers, NoRepeatBetweenWrites
  PROVE  NoRepeatBetweenWrites'
<1>1. ASSUME Verifies PROVE NoRepeatBetweenWrites'
  BY <1>1, VerifiesKeeps DEF NoRepeatBetweenWrites
<1>2. CASE UNCHANGED obs
  BY <1>2 DEF NoRepeatBetweenWrites
<1>3. ASSUME NEW result \in Results, Acts(result) PROVE NoRepeatBetweenWrites'
  BY <1>3, ObservesAdds DEF Acts, NoRepeatBetweenWrites
<1>4. ASSUME NEW result \in Results, Hears(result) PROVE NoRepeatBetweenWrites'
  <2> DEFINE last == Len(obs) + 1
  <2>1. Observes(result, "INVESTIGATION")
    BY <1>4 DEF Hears
  <2>2. /\ DOMAIN obs = 1..Len(obs) /\ Len(obs) \in Nat
        /\ DOMAIN obs' = DOMAIN obs \cup {last}
        /\ obs'[last].call = call /\ obs'[last].run = run
        /\ \A n \in DOMAIN obs : obs'[n] = obs[n]
    BY <2>1, ObservesAdds
  <2> SUFFICES ASSUME NEW m \in DOMAIN obs', NEW n \in DOMAIN obs', m < n,
                      obs'[m].call = obs'[n].call, obs'[m].run = obs'[n].run,
                      obs'[m].phase = "INVESTIGATION", obs'[n].phase = "INVESTIGATION"
               PROVE  \E k \in m..n : obs'[k].phase = "REMEDIATION"
    BY DEF NoRepeatBetweenWrites
  <2>3. m \in DOMAIN obs
    BY <2>2
  <2>4. CASE n \in DOMAIN obs
    <3>1. PICK k \in m..n : obs[k].phase = "REMEDIATION"
      BY <2>2, <2>3, <2>4 DEF NoRepeatBetweenWrites
    <3> QED BY <2>2, <2>3, <2>4, <3>1
  <2>5. CASE n = last
    <3>1. Investigated(m) /\ obs[m].call = call
      BY <2>2, <2>3, <2>5 DEF Investigated
    <3>2. Superseded(m)
      BY <1>4, <2>3, <3>1 DEF Hears, Remembers
    <3> QED BY <2>2, <2>3, <2>5, <3>2 DEF Superseded
  <2> QED BY <2>2, <2>4, <2>5
<1> QED BY <1>1, <1>2, <1>3, <1>4 DEF Ways, Rests, Ends, Starts, Thinks, Asks, Sends, Forgets

\* A call is noticed by its answer, and a write forgets it.
LEMMA NoticedStep ==
  ASSUME TypeInv, TypeInv', Ways, Noticed
  PROVE  Noticed'
<1>1. calls \subseteq Reads /\ NoCall \notin Reads
  BY DEF TypeInv, TypeOK, NoCall, Reads, Inspect
<1>2. CASE Rests
  BY <1>2, VerifiesKeeps DEF Rests, Noticed, Answered
<1>3. CASE Ends \/ Starts \/ Forgets
  BY <1>3 DEF Ends, Starts, Forgets, Noticed
<1>4. CASE Thinks \/ Sends \/ \E c \in Reads : Asks(c)
  <2>1. call = NoCall /\ pc # "inspecting" /\ UNCHANGED obs
    BY <1>4 DEF Thinks, Sends, Asks, TypeInv, Placed
  <2>2. \A c \in calls : Answered(c)
    BY <1>1, <2>1 DEF Noticed
  <2>3. \A c \in calls : Answered(c)'
    BY <2>1, <2>2 DEF Answered, Superseded
  <2>4. \A c \in calls' : c \in calls \/ c = call'
    BY <1>4 DEF Thinks, Sends, Asks
  <2> QED BY <2>3, <2>4 DEF Noticed
<1>5. ASSUME NEW result \in Results, Hears(result) PROVE Noticed'
  <2>1. Observes(result, "INVESTIGATION")
    BY <1>5 DEF Hears
  <2>2. ASSUME NEW c, Answered(c) \/ c = call PROVE Answered(c)'
    <3>1. CASE c = call
      BY <2>1, <3>1, ObservesAdds DEF Answered, SameDiagnostic
    <3>2. CASE Answered(c)
      BY <2>1, <3>2, ObservesAdds DEF Answered, SameDiagnostic
    <3> QED BY <2>2, <3>1, <3>2
  <2> QED BY <1>5, <2>2 DEF Hears, Noticed
<1>6. ASSUME NEW result \in Results, Acts(result) PROVE Noticed'
  BY <1>6 DEF Acts, Noticed
<1> QED BY <1>2, <1>3, <1>4, <1>5, <1>6 DEF Ways

-----------------------------------------------------------------------------
(* What the run has spent. *)

\* The diagnostics and writes of run k.
Spent(k) == {n \in DOMAIN obs : obs[n].run = k /\ obs[n].phase # "VERIFICATION"}

\* The decisions that are left fit the budget, and so does the call the run
\* awaits. (The routed call is paid when it is answered.)
Budgeted ==
  /\ \A k \in Nat : Cardinality(Spent(k)) <= Budget
  /\ pc # "idle" => Cardinality(Spent(run)) + left <= Budget
  /\ pc \in {"reading", "writing"} => Cardinality(Spent(run)) + left < Budget

\* What a run has spent can be counted.
LEMMA SpentFinite ==
  ASSUME TypeInv, NEW k
  PROVE  IsFiniteSet(Spent(k)) /\ Cardinality(Spent(k)) \in Nat
<1>1. IsFiniteSet(1..Len(obs))
  BY ObservationType, FS_Interval
<1>2. Spent(k) \in SUBSET (1..Len(obs))
  BY ObservationType DEF Spent
<1>3. IsFiniteSet(Spent(k))
  BY <1>1, <1>2, FS_Subset
<1> QED BY <1>3, FS_CardinalityType

\* Every decision that leads to a call is paid, and no other call is made.
LEMMA BudgetedStep ==
  ASSUME TypeInv, TypeInv', Ways, Chronicle, Budgeted
  PROVE  Budgeted'
<1>1. run \in Nat /\ left \in Nat /\ left' \in Nat /\ Budget \in Nat /\ run' \in Nat
  BY BudgetPositive DEF TypeInv, TypeOK
<1>2. \A k \in Nat : Cardinality(Spent(k)) \in Nat
  BY SpentFinite
<1>3. ASSUME Verifies PROVE \A k : Spent(k)' = Spent(k)
  BY <1>3, VerifiesKeeps DEF Spent
<1>4. ASSUME UNCHANGED obs PROVE \A k : Spent(k)' = Spent(k)
  BY <1>4 DEF Spent
<1>5. ASSUME NEW result, NEW phase \in {"INVESTIGATION", "REMEDIATION"},
             Observes(result, phase), run' = run
      PROVE  /\ \A k : k # run => Spent(k)' = Spent(k)
             /\ Cardinality(Spent(run)') = Cardinality(Spent(run)) + 1
  <2>1. /\ DOMAIN obs = 1..Len(obs) /\ Len(obs) \in Nat
        /\ DOMAIN obs' = DOMAIN obs \cup {Len(obs) + 1}
        /\ obs'[Len(obs) + 1].phase = phase /\ obs'[Len(obs) + 1].run = run
        /\ \A n \in DOMAIN obs : obs'[n] = obs[n]
    BY <1>5, ObservesAdds
  <2>2. \A k : k # run => Spent(k)' = Spent(k)
    BY <2>1 DEF Spent
  <2>3. Spent(run)' = Spent(run) \cup {Len(obs) + 1} /\ Len(obs) + 1 \notin Spent(run)
    BY <1>5, <2>1 DEF Spent
  <2> QED BY <2>2, <2>3, SpentFinite, FS_AddElement
<1>6. CASE Rests \/ Ends \/ Forgets
  <2>1. \A k : Spent(k)' = Spent(k)
    BY <1>3, <1>6 DEF Rests, Ends, Forgets
  <2>2. Cardinality(Spent(run)') = Cardinality(Spent(run)) /\ run' = run
    BY <1>6, <2>1 DEF Rests, Ends, Forgets
  <2>3. \A k \in Nat : Cardinality(Spent(k)') <= Budget
    BY <2>1 DEF Budgeted
  <2> QED BY <1>1, <1>6, <2>2, <2>3 DEF Rests, Ends, Forgets, Budgeted
<1>7. CASE Starts
  <2>1. \A k : Spent(k)' = Spent(k)
    BY <1>4, <1>7 DEF Starts
  <2>2. Spent(run + 1) = {}
    BY <1>1, ObservationType DEF Chronicle, Spent
  <2>3. Cardinality(Spent(run)') = 0
    BY <1>1, <1>7, <2>1, <2>2, FS_EmptySet DEF Starts
  <2>4. \A k \in Nat : Cardinality(Spent(k)') <= Budget
    BY <2>1 DEF Budgeted
  <2> QED BY <1>1, <1>7, <2>3, <2>4 DEF Starts, Budgeted
<1>8. CASE Thinks \/ Sends \/ \E c \in Reads : Asks(c)
  <2>1. /\ UNCHANGED <<obs, run>> /\ pc # "idle" /\ left' <= left
        /\ pc' \in {"reading", "writing"} => left' = left - 1
    BY <1>1, <1>8 DEF Thinks, Sends, Asks
  <2>2. \A k : Spent(k)' = Spent(k)
    BY <1>4, <2>1
  <2>3. Cardinality(Spent(run)') = Cardinality(Spent(run))
    BY <2>1, <2>2
  <2>4. \A k \in Nat : Cardinality(Spent(k)') <= Budget
    BY <2>2 DEF Budgeted
  <2> QED BY <1>1, <1>2, <2>1, <2>3, <2>4 DEF Budgeted
<1>9. ASSUME NEW result \in Results, Hears(result) \/ Acts(result) PROVE Budgeted'
  <2>1. /\ run' = run /\ pc # "idle" /\ pc' \notin {"idle", "reading", "writing"}
        /\ left' = left - 1 \/ (left' = left /\ pc \in {"reading", "writing"})
    BY <1>9 DEF Hears, Acts
  <2>2. /\ \A k : k # run => Spent(k)' = Spent(k)
        /\ Cardinality(Spent(run)') = Cardinality(Spent(run)) + 1
    BY <1>5, <1>9 DEF Hears, Acts
  <2>3. Cardinality(Spent(run)') + left' <= Budget
    BY <1>1, <1>2, <2>1, <2>2 DEF Budgeted
  <2>4. Cardinality(Spent(run)') <= Budget
    BY <1>1, <1>2, <2>2, <2>3
  <2>5. \A k \in Nat : Cardinality(Spent(k)') <= Budget
    BY <2>1, <2>2, <2>4 DEF Budgeted
  <2> QED BY <2>1, <2>3, <2>5 DEF Budgeted
<1> QED BY <1>6, <1>7, <1>8, <1>9 DEF Ways

-----------------------------------------------------------------------------
\* Together with the types.
Inv == TypeInv /\ Chronicle /\ Remembers /\ NoRepeatBetweenWrites /\ Noticed /\ Budgeted

\* The invariant holds in every behaviour.
LEMMA Invariance == Spec => []Inv
<1>1. Init => Inv
  <2> SUFFICES ASSUME Init PROVE Inv
    OBVIOUS
  <2>1. TypeInv
    BY TypeInit
  <2>2. DOMAIN obs = {}
    BY DEF Init
  <2>3. Chronicle /\ Remembers /\ NoRepeatBetweenWrites /\ Noticed
    BY <2>2 DEF Init, Chronicle, Remembers, NoRepeatBetweenWrites, Noticed
  <2>4. \A k : Spent(k) = {}
    BY <2>2 DEF Spent
  <2>5. Budgeted
    BY <2>4, FS_EmptySet, BudgetPositive DEF Init, Budgeted
  <2> QED BY <2>1, <2>3, <2>5 DEF Inv
<1>2. Inv /\ [Next]_vars => Inv'
  <2> SUFFICES ASSUME Inv, [Next]_vars PROVE Inv'
    OBVIOUS
  <2> USE DEF Inv
  <2>1. TypeInv'
    BY TypeStep
  <2>2. Ways
    BY WayStep
  <2>3. Chronicle' /\ Remembers' /\ NoRepeatBetweenWrites' /\ Noticed' /\ Budgeted'
    BY <2>1, <2>2, ChronicleStep, RemembersStep, NoRepeatStep, NoticedStep, BudgetedStep
  <2> QED BY <2>1, <2>3
<1> QED BY <1>1, <1>2, PTL DEF Spec

\* agent.py 384: no run repeats a diagnostic without a write between, for every
\* registry and every order of rejections, failures and operator decisions.
THEOREM NoDiagnosticRepeated == Spec => []NoRepeatBetweenWrites
<1>1. Inv => NoRepeatBetweenWrites
  BY DEF Inv
<1> QED BY <1>1, Invariance, PTL

\* llm.py 53-87: for tools whose choices are enumerated, whatever the schema still
\* offers the duplicate guard lets through, however many runs and writes came before.
THEOREM OffersAreAccepted == Spec => []OfferedIsAccepted
<1>1. Inv => OfferedIsAccepted
  <2> SUFFICES ASSUME Inv, pc = "deciding", NEW c \in Offered, c \in calls PROVE ~ Narrowed(c)
    BY DEF OfferedIsAccepted
  <2>1. c \in Reads /\ call = NoCall
    BY DEF Inv, TypeInv, TypeOK, Placed
  <2>2. c # call
    BY <2>1 DEF NoCall, Reads, Inspect
  <2>3. Answered(c)
    BY <2>2 DEF Inv, Noticed
  <2> QED BY <2>1, <2>3 DEF Answered, Offered
<1> QED BY <1>1, Invariance, PTL

\* agent.py 309: no run exceeds the smaller of its two limits.
THEOREM BudgetKept == Spec => []WithinBudget
<1>1. Inv => WithinBudget
  <2> SUFFICES ASSUME Inv, NEW k \in 1..run
               PROVE  Cardinality({n \in DOMAIN obs :
                        obs[n].run = k /\ obs[n].phase # "VERIFICATION"}) <= Budget
    BY DEF WithinBudget
  <2>1. k \in Nat
    BY DEF Inv, TypeInv, TypeOK
  <2> QED BY <2>1 DEF Inv, Budgeted, Spent
<1> QED BY <1>1, Invariance, PTL

=============================================================================

------------------------------ MODULE AgentLoop ------------------------------
(***************************************************************************)
(* The decision loop of an investigation (agent.py _run): a first          *)
(* diagnostic may be routed without the model, then the model is asked for *)
(* one decision after the other until it concludes, three of its decisions *)
(* were rejected or the step budget is used up. Every result becomes an    *)
(* observation of the incident, and observations outlive the run: they are *)
(* evidence for writes and narrow what the model is offered (llm.py).      *)
(*                                                                         *)
(* One incident, its runs one after the other. The model decides whatever  *)
(* its decision type allows, offered or not; tools answer whatever they    *)
(* like; the runtime limit may end a run at every await. Write targets are *)
(* containers. The lock, the claim and the concurrency of operators and    *)
(* task are the subject of IncidentLifecycle.                              *)
(***************************************************************************)
EXTENDS Integers, FiniteSets, Sequences

CONSTANTS
  Targets,        \* containers the registry grants
  Names,          \* process names: find_process takes any, no enum lists them
  MaxChoices,     \* targets a schema may enumerate one by one (256)
  Knobs,          \* values of the optional "lines" of docker_logs
  NoKnob,
  Needs,          \* containers that must be healthy before a target is written
  Permitted,      \* targets in the topology, granted for autonomous writes
  MaxSteps,       \* agent_max_steps
  MaxModelCalls,  \* agent_max_model_calls
  MaxPerIncident, \* autonomous_max_actions_per_incident
  MaxAttempts,    \* inspections of a target after a successful write
  Checks,         \* verification checks of the incident's service, in order
  MaxRows,        \* bound of the model on proposals
  MaxObs,         \* bound of the model on observations when an operator acts
  MaxRuns,        \* bound of the model on investigations
  Results,        \* what an observation can show
  Modes           \* settings of enable_autonomous_actions in use

ASSUME TargetAssumption == IsFiniteSet(Targets) /\ Needs \in [Targets -> SUBSET Targets]
ASSUME KnobAssumption == NoKnob \notin Knobs
ASSUME ChoiceAssumption == MaxChoices \in Nat
ASSUME PermittedAssumption == Permitted \subseteq Targets /\ Checks \in Seq(Targets)
ASSUME ResultAssumption ==
  /\ {"failed", "fine"} \subseteq Results
  /\ Results \subseteq {"failed", "stopped", "sick", "fine"}
ASSUME LimitAssumption ==
  /\ MaxSteps \in Nat \ {0} /\ MaxModelCalls \in Nat \ {0}
  /\ MaxPerIncident \in Nat /\ MaxAttempts \in Nat \ {0}
  /\ MaxRows \in Nat /\ MaxObs \in Nat /\ MaxRuns \in Nat
  /\ Modes \subseteq BOOLEAN

VARIABLES
  autonomous, \* enable_autonomous_actions since the last start of the backend
  status,     \* Incident.status
  reported,   \* Incident.report has evidence_observation_ids
  obs,        \* Incident.observations, in order of step_number
  rows,       \* how many actions the incident has
  proposed,   \* calls of its PENDING actions
  attempted,  \* targets of its actions that did not require approval
  touched,    \* for each target, Len(obs) when its last write was sent
  run,        \* number of the current or last run
  pc,         \* where the run is suspended
  call,       \* the tool call the run awaits
  calls,      \* signatures called since the run began or a write was executed
  left,       \* decisions the run still may ask for
  invalid,    \* invalid_count
  attempts    \* inspections the run still may make of the target it wrote

incidentVars == <<status, reported, obs, rows, proposed, attempted, touched>>
runVars == <<run, pc, call, calls, left, invalid, attempts>>
vars == <<autonomous, incidentVars, runVars>>

Inspect(t) == [tool |-> "docker_inspect", target |-> t, knob |-> NoKnob]
Reads == {Inspect(t) : t \in Targets}
         \cup [tool : {"docker_logs"}, target : Targets, knob : Knobs]
         \cup [tool : {"find_process"}, target : Names, knob : {NoKnob}]
Writes == [tool : {"start_container", "restart_container"}, target : Targets, knob : {NoKnob}]
NoCall == [tool |-> "none", target |-> NoKnob, knob |-> NoKnob]

\* "failed" is a result without ok; logs are "sick" when they blame a dependency.
Answers(c) ==
  CASE c.tool = "docker_inspect" -> Results
    [] c.tool = "docker_logs" -> Results \ {"stopped"}
    [] OTHER -> {"failed", "fine"}

Phases == {"INVESTIGATION", "REMEDIATION", "VERIFICATION"}
Observations == [call : Reads \cup Writes, result : Results, phase : Phases, run : Nat]
Observation(c, result, phase) == [call |-> c, result |-> result, phase |-> phase, run |-> run]

Statuses == {"OPEN", "INVESTIGATING", "WAITING_FOR_APPROVAL", "VERIFYING", "RESOLVED",
             "FAILED", "ESCALATED"}
Points == {"idle", "classifying", "routing", "deciding", "reading", "writing", "inspecting",
           "verifying", "checking"}

TypeOK ==
  /\ autonomous \in BOOLEAN
  /\ status \in Statuses
  /\ reported \in BOOLEAN
  /\ obs \in Seq(Observations)
  /\ rows \in Nat
  /\ proposed \subseteq Writes
  /\ attempted \subseteq Targets
  /\ touched \in [Targets -> Nat \cup {-1}]
  /\ run \in Nat
  /\ pc \in Points
  /\ call \in Reads \cup Writes \cup {NoCall}
  /\ calls \subseteq Reads
  /\ left \in Nat
  /\ invalid \in 0..2
  /\ attempts \in Nat

Init ==
  /\ autonomous \in Modes
  /\ status = "OPEN"
  /\ reported = FALSE
  /\ obs = <<>>
  /\ rows = 0
  /\ proposed = {}
  /\ attempted = {}
  /\ touched = [t \in Targets |-> -1]
  /\ run = 0
  /\ pc = "idle"
  /\ call = NoCall
  /\ calls = {}
  /\ left = 0
  /\ invalid = 0
  /\ attempts = 0

-----------------------------------------------------------------------------
(* Reading the observations. *)

\* docker_logs of one container is one diagnostic, whatever its optional lines.
SameDiagnostic(c, d) == c.tool = d.tool /\ c.target = d.target

\* remaining_parameters: only observations after the last write count.
Superseded(n) == \E m \in DOMAIN obs : n <= m /\ obs[m].phase = "REMEDIATION"

\* Only a tool whose required arguments are enumerated, by not too many values,
\* is offered without the choices already observed. The others (find_process
\* stands for inspect_process and port_check too) keep their whole schema.
Narrowed(c) == c.tool # "find_process" /\ Cardinality(Targets) <= MaxChoices

\* The read-only calls in the schema the model has to answer in.
Offered ==
  {c \in Reads :
     Narrowed(c) => \A n \in DOMAIN obs : SameDiagnostic(obs[n].call, c) => Superseded(n)}

\* Observation n, of those in N, is the last successful one of the diagnostic.
Latest(n, N, tool, t) ==
  LET successful == {m \in N : /\ obs[m].call.tool = tool /\ obs[m].call.target = t
                               /\ obs[m].result # "failed"}
  IN n \in successful /\ \A m \in successful : m <= n

\* The state that justifies a write.
Shows(w) == IF w.tool = "start_container" THEN "stopped" ELSE "sick"

StateIs(N, t, result) ==
  \E n \in N : Latest(n, N, "docker_inspect", t) /\ obs[n].result = result
LogsBlameNobody(N, t) ==
  \E n \in N : Latest(n, N, "docker_logs", t) /\ obs[n].result = "fine"

\* validate_remediation_preconditions: whatever the age of the observation.
Proposable(w) == StateIs(DOMAIN obs, w.target, Shows(w))

\* authorize, with N the observations it weighs: cited and not too old.
Authorized(w, N) ==
  /\ autonomous
  /\ w.target \in Permitted \ attempted
  /\ rows < MaxPerIncident
  /\ StateIs(N, w.target, Shows(w))
  /\ \A d \in Needs[w.target] :
       \E n \in N : obs[n].call = Inspect(d) /\ obs[n].result = "fine"
  /\ w.tool = "restart_container" => LogsBlameNobody(N, w.target)

-----------------------------------------------------------------------------
(* A run begins and ends. *)

Budget == IF MaxSteps < MaxModelCalls THEN MaxSteps ELSE MaxModelCalls

Begin ==
  /\ pc = "idle"
  /\ run < MaxRuns /\ Len(obs) <= MaxObs
  /\ status \in {"OPEN", "FAILED", "ESCALATED"}
  /\ status' = "INVESTIGATING"
  /\ run' = run + 1
  /\ pc' = "classifying"
  /\ calls' = {}
  /\ left' = Budget
  /\ invalid' = 0
  /\ UNCHANGED <<autonomous, reported, obs, rows, proposed, attempted, touched, call,
                 attempts>>

\* The run returns or raises; its local variables are gone.
Over ==
  /\ pc' = "idle"
  /\ call' = NoCall
  /\ calls' = {}
  /\ left' = 0
  /\ invalid' = 0
  /\ attempts' = 0
  /\ run' = run

\* No decision is left, or agent_max_runtime_seconds cancels what is awaited.
Exhausted ==
  /\ pc = "deciding"
  /\ left = 0
  /\ status' = "FAILED"
  /\ Over
  /\ UNCHANGED <<autonomous, reported, obs, rows, proposed, attempted, touched>>

RuntimeLimit ==
  /\ pc # "idle"
  /\ status' = "FAILED"
  /\ Over
  /\ UNCHANGED <<autonomous, reported, obs, rows, proposed, attempted, touched>>

\* The backend stops and starts again, perhaps with another setting.
Restart(mode) ==
  /\ status' = IF status \in {"INVESTIGATING", "VERIFYING"} THEN "FAILED" ELSE status
  /\ Over
  /\ autonomous' = mode
  /\ UNCHANGED <<reported, obs, rows, proposed, attempted, touched>>

\* The model fails or its answer cannot be parsed.
ModelFails ==
  /\ pc = "deciding"
  /\ left > 0
  /\ status' = "FAILED"
  /\ Over
  /\ UNCHANGED <<autonomous, reported, obs, rows, proposed, attempted, touched>>

\* NEED_USER_INPUT and STOP.
Conclude ==
  /\ pc = "deciding"
  /\ left > 0
  /\ status' \in {"ESCALATED", "OPEN"}
  /\ Over
  /\ UNCHANGED <<autonomous, reported, obs, rows, proposed, attempted, touched>>

-----------------------------------------------------------------------------
(* Diagnostics. *)

NoRoute ==
  /\ pc = "classifying"
  /\ pc' = "deciding"
  /\ UNCHANGED <<autonomous, incidentVars, run, call, calls, left, invalid, attempts>>

\* Mutant of Route: the routed call is not remembered.
RouteForgets(t) ==
  /\ pc = "classifying"
  /\ call' = Inspect(t)
  /\ pc' = "routing"
  /\ UNCHANGED <<autonomous, incidentVars, run, calls, left, invalid, attempts>>

\* initial_diagnostic: for a container the first call is always its inspection.
Route(t) ==
  /\ pc = "classifying"
  /\ calls' = calls \cup {Inspect(t)}
  /\ call' = Inspect(t)
  /\ pc' = "routing"
  /\ UNCHANGED <<autonomous, incidentVars, run, left, invalid, attempts>>

Record(result, phase) == obs' = Append(obs, Observation(call, result, phase))

\* Mutant of RouteAnswered: the routed diagnostic is free.
RouteAnsweredFree(result) ==
  /\ pc = "routing"
  /\ result \in Answers(call)
  /\ Record(result, "INVESTIGATION")
  /\ call' = NoCall
  /\ pc' = "deciding"
  /\ UNCHANGED <<autonomous, status, reported, rows, proposed, attempted, touched, run,
                 calls, left, invalid, attempts>>

\* It costs one decision, which may be the only one.
RouteAnswered(result) ==
  /\ pc = "routing"
  /\ result \in Answers(call)
  /\ Record(result, "INVESTIGATION")
  /\ left' = left - 1
  /\ call' = NoCall
  /\ pc' = "deciding"
  /\ UNCHANGED <<autonomous, status, reported, rows, proposed, attempted, touched, run,
                 calls, invalid, attempts>>

\* TOOL_CALL: an identical call is rejected, the decision is spent either way.
Read(c) ==
  /\ pc = "deciding"
  /\ left > 0
  /\ c \notin calls
  /\ calls' = calls \cup {c}
  /\ call' = c
  /\ left' = left - 1
  /\ pc' = "reading"
  /\ UNCHANGED <<autonomous, incidentVars, run, invalid, attempts>>

ReadAnswered(result) ==
  /\ pc = "reading"
  /\ result \in Answers(call)
  /\ Record(result, "INVESTIGATION")
  /\ call' = NoCall
  /\ pc' = "deciding"
  /\ UNCHANGED <<autonomous, status, reported, rows, proposed, attempted, touched, run,
                 calls, left, invalid, attempts>>

\* Mutant of Rejected: a rejected decision costs nothing and is not counted.
RejectedFree(s) ==
  /\ status' = s
  /\ pc' = "deciding"
  /\ UNCHANGED <<run, call, calls, left, invalid, attempts>>

\* Mutant of Rejected: the third rejection is let through.
RejectedLate(s) ==
  IF invalid = 3 THEN status' = "FAILED" /\ Over
  ELSE /\ status' = s
       /\ invalid' = invalid + 1
       /\ left' = left - 1
       /\ pc' = "deciding"
       /\ UNCHANGED <<run, call, calls, attempts>>

\* A decision that raises a ValueError or fails its JSON schema: three end the
\* run, and before that the next decision is asked for.
Rejected(s) ==
  IF invalid = 2 THEN status' = "FAILED" /\ Over
  ELSE /\ status' = s
       /\ invalid' = invalid + 1
       /\ left' = left - 1
       /\ pc' = "deciding"
       /\ UNCHANGED <<run, call, calls, attempts>>

\* A duplicate, an unknown tool, evidence that does not hold, a refused write.
Reject ==
  /\ pc = "deciding"
  /\ left > 0
  /\ Rejected(status)
  /\ UNCHANGED <<autonomous, reported, obs, rows, proposed, attempted, touched>>

-----------------------------------------------------------------------------
(* Diagnosis and proposals. *)

\* validate_evidence can be satisfied: some observation succeeded.
EvidenceExists == \E n \in DOMAIN obs : obs[n].result # "failed"

Rows(W) == Cardinality(W \ proposed)

\* DIAGNOSIS with approval required. A remediation that fails its JSON schema
\* rejects the decision after the ones before it were proposed.
DiagnoseForApproval(W, rejected) ==
  LET saved == IF Rows(W) > 0 THEN "WAITING_FOR_APPROVAL" ELSE "OPEN" IN
  /\ pc = "deciding"
  /\ left > 0
  /\ ~ autonomous
  /\ EvidenceExists
  /\ \A w \in W : Proposable(w)
  /\ rows + Rows(W) <= MaxRows
  /\ reported' = TRUE
  /\ proposed' = proposed \cup W
  /\ rows' = rows + Rows(W)
  /\ IF rejected THEN Rejected(saved) ELSE status' = saved /\ Over
  /\ UNCHANGED <<autonomous, obs, attempted, touched>>

\* REQUEST_APPROVAL; an identical pending proposal leaves the status alone.
RequestApproval(w) ==
  /\ pc = "deciding"
  /\ left > 0
  /\ reported
  /\ Proposable(w)
  /\ rows + Rows({w}) <= MaxRows
  /\ proposed' = proposed \cup {w}
  /\ rows' = rows + Rows({w})
  /\ status' = IF w \in proposed THEN status ELSE "WAITING_FOR_APPROVAL"
  /\ Over
  /\ UNCHANGED <<autonomous, reported, obs, attempted, touched>>

\* The autonomous action is claimed, committed and sent.
Claim(w) ==
  /\ rows' = rows + 1
  /\ attempted' = attempted \cup {w.target}
  /\ touched' = [touched EXCEPT ![w.target] = Len(obs)]
  /\ call' = w
  /\ left' = left - 1
  /\ pc' = "writing"
  /\ UNCHANGED <<autonomous, obs, proposed, run, calls, invalid, attempts>>

\* EXECUTE_ACTION weighs all observations that are not too old.
Execute(w) ==
  /\ pc = "deciding"
  /\ left > 0
  /\ \E k \in DOMAIN obs : Authorized(w, k..Len(obs))
  /\ Claim(w)
  /\ UNCHANGED <<status, reported>>

\* DIAGNOSIS weighs the ones it cites and that are not too old.
DiagnoseAndExecute(w) ==
  /\ pc = "deciding"
  /\ left > 0
  /\ \E N \in SUBSET DOMAIN obs : Authorized(w, N)
  /\ Claim(w)
  /\ status' = "OPEN"
  /\ reported' = TRUE

\* Without a remediation, or with one that is refused, the service is verified.
DiagnoseAndVerify ==
  /\ pc = "deciding"
  /\ left > 0
  /\ autonomous
  /\ EvidenceExists
  /\ status' = "OPEN"
  /\ reported' = TRUE
  /\ pc' = "verifying"
  /\ UNCHANGED <<autonomous, obs, rows, proposed, attempted, touched, run, call, calls,
                 left, invalid, attempts>>

\* A remediation that fails its JSON schema: the diagnosis is saved, the
\* decision is rejected.
DiagnoseMalformed ==
  /\ pc = "deciding"
  /\ left > 0
  /\ autonomous
  /\ EvidenceExists
  /\ reported' = TRUE
  /\ Rejected("OPEN")
  /\ UNCHANGED <<autonomous, obs, rows, proposed, attempted, touched>>

-----------------------------------------------------------------------------
(* Writes without approval, and verification. *)

WriteAnswered(result) ==
  /\ pc = "writing"
  /\ result \in Answers(call)
  /\ Record(result, "REMEDIATION")
  /\ attempts' = IF result = "fine" THEN MaxAttempts ELSE 1
  /\ call' = Inspect(call.target)
  /\ pc' = "inspecting"
  /\ UNCHANGED <<autonomous, status, reported, rows, proposed, attempted, touched, run,
                 calls, left, invalid>>

\* The target is inspected until it is fine or the attempts are used up; with
\* the write over, a repeated diagnostic is meaningful.
InspectAgain(result) ==
  /\ pc = "inspecting"
  /\ result \in Answers(call) \ {"fine"}
  /\ attempts > 1
  /\ Record(result, "VERIFICATION")
  /\ attempts' = attempts - 1
  /\ UNCHANGED <<autonomous, status, reported, rows, proposed, attempted, touched, run, pc,
                 call, calls, left, invalid>>

\* Mutant of Inspected: the calls made before the write stay forbidden.
InspectedKeeps(result) ==
  /\ pc = "inspecting"
  /\ result \in Answers(call)
  /\ result = "fine" \/ attempts = 1
  /\ Record(result, "VERIFICATION")
  /\ attempts' = 0
  /\ call' = NoCall
  /\ pc' = "deciding"
  /\ UNCHANGED <<autonomous, status, reported, rows, proposed, attempted, touched, run,
                 calls, left, invalid>>

Inspected(result) ==
  /\ pc = "inspecting"
  /\ result \in Answers(call)
  /\ result = "fine" \/ attempts = 1
  /\ Record(result, "VERIFICATION")
  /\ attempts' = 0
  /\ calls' = {}
  /\ call' = NoCall
  /\ pc' = "deciding"
  /\ UNCHANGED <<autonomous, status, reported, rows, proposed, attempted, touched, run,
                 left, invalid>>

\* One observation for each check of the service, with the results r. (An exact
\* target is inspected up to seven times, which records the same call again.)
Verification(r) ==
  [k \in DOMAIN Checks |-> Observation(Inspect(Checks[k]), r[k], "VERIFICATION")]
Outcomes == [DOMAIN Checks -> Results]
Passed(r) == Checks # <<>> /\ \A k \in DOMAIN Checks : r[k] = "fine"

\* A recovery retires the proposals that are still pending.
Verdict(r, waiting) ==
  /\ obs' = obs \o Verification(r)
  /\ proposed' = IF Passed(r) THEN {} ELSE waiting
  /\ status' = CASE Passed(r) -> "RESOLVED"
                 [] ~ Passed(r) /\ waiting # {} -> "WAITING_FOR_APPROVAL"
                 [] ~ Passed(r) /\ waiting = {} -> "OPEN"

VerificationStarts ==
  /\ pc = "verifying"
  /\ status' = "VERIFYING"
  /\ pc' = "checking"
  /\ UNCHANGED <<autonomous, reported, obs, rows, proposed, attempted, touched, run, call,
                 calls, left, invalid, attempts>>

Verified(r) ==
  /\ pc = "checking"
  /\ Verdict(r, proposed)
  /\ Over
  /\ UNCHANGED <<autonomous, reported, rows, attempted, touched>>

\* No check covers the service, or the registry does not grant one of them:
\* the first ends the run, the second counts as a rejected decision.
VerificationRefused(rejected) ==
  /\ pc = "verifying"
  /\ IF rejected THEN Rejected(status) ELSE status' = "OPEN" /\ Over
  /\ UNCHANGED <<autonomous, reported, obs, rows, proposed, attempted, touched>>

-----------------------------------------------------------------------------
(* The operator, while the run does not hold the lock of the incident. What an *)
(* approval does under the lock is one step here.                              *)

Unlocked == pc \notin {"writing", "inspecting", "verifying", "checking"}

\* An approved write is sent and answered: the service is verified. It is not
\* recorded as an observation.
Approve(w, r) ==
  /\ w \in proposed
  /\ status = "WAITING_FOR_APPROVAL"
  /\ Unlocked
  /\ touched' = [touched EXCEPT ![w.target] = Len(obs)]
  /\ Verdict(r, proposed \ {w})
  /\ UNCHANGED <<autonomous, reported, rows, attempted, runVars>>

\* Its answer is a failure or is lost.
ApproveUncertain(w) ==
  /\ w \in proposed
  /\ status = "WAITING_FOR_APPROVAL"
  /\ Unlocked
  /\ touched' = [touched EXCEPT ![w.target] = Len(obs)]
  /\ proposed' = proposed \ {w}
  /\ status' = IF proposed' = {} THEN "OPEN" ELSE status
  /\ UNCHANGED <<autonomous, reported, obs, rows, attempted, runVars>>

Withdraw(w) ==
  /\ w \in proposed
  /\ proposed' = proposed \ {w}
  /\ UNCHANGED <<autonomous, reported, obs, rows, attempted, touched, runVars>>

\* reject does not wait for the lock.
RejectProposal(w) ==
  /\ Withdraw(w)
  /\ status' = IF status \notin {"VERIFYING", "INVESTIGATING"} /\ proposed' = {}
               THEN "OPEN" ELSE status

\* An approval that finds its proposal expired does not look at the status.
ApproveExpires(w) ==
  /\ Unlocked
  /\ Withdraw(w)
  /\ status' = IF proposed' = {} THEN "OPEN" ELSE status

RequestVerify(r) ==
  /\ reported
  /\ status # "INVESTIGATING"
  /\ Unlocked
  /\ Len(obs) <= MaxObs
  /\ Verdict(r, proposed)
  /\ UNCHANGED <<autonomous, reported, rows, attempted, touched, runVars>>

\* No check covers the service.
RequestVerifyBlocked ==
  /\ reported
  /\ status # "INVESTIGATING"
  /\ Unlocked
  /\ status' = "OPEN"
  /\ UNCHANGED <<autonomous, reported, obs, rows, proposed, attempted, touched, runVars>>

-----------------------------------------------------------------------------
Decide ==
  \/ \E c \in Reads : Read(c)
  \/ Reject
  \/ \E W \in SUBSET Writes, rejected \in BOOLEAN : DiagnoseForApproval(W, rejected)
  \/ \E w \in Writes : RequestApproval(w) \/ Execute(w) \/ DiagnoseAndExecute(w)
  \/ DiagnoseAndVerify
  \/ DiagnoseMalformed
  \/ ModelFails
  \/ Conclude

RunStep ==
  \/ NoRoute
  \/ \E t \in Targets : Route(t)
  \/ \E result \in Results :
       \/ RouteAnswered(result) \/ ReadAnswered(result) \/ WriteAnswered(result)
       \/ InspectAgain(result) \/ Inspected(result)
  \/ Decide
  \/ Exhausted
  \/ VerificationStarts
  \/ \E r \in Outcomes : Verified(r)
  \/ \E rejected \in BOOLEAN : VerificationRefused(rejected)

OperatorStep ==
  \/ Begin
  \/ \E w \in Writes : ApproveUncertain(w) \/ RejectProposal(w) \/ ApproveExpires(w)
  \/ \E w \in Writes, r \in Outcomes : Approve(w, r)
  \/ \E r \in Outcomes : RequestVerify(r)
  \/ RequestVerifyBlocked

Next == RunStep \/ RuntimeLimit \/ OperatorStep \/ \E mode \in Modes : Restart(mode)

Spec == Init /\ [][Next]_vars

\* Every await of the loop has a deadline, so the run always takes its next
\* step. The runtime limit is not counted on.
FairSpec == Spec /\ WF_vars(RunStep)

-----------------------------------------------------------------------------
(* Properties. *)

\* agent.py 384: within a run the same diagnostic is not executed again unless
\* a write came between, however routes, rejections and failures interleave.
NoRepeatBetweenWrites ==
  \A m, n \in DOMAIN obs :
    /\ m < n
    /\ obs[m].call = obs[n].call
    /\ obs[m].run = obs[n].run
    /\ obs[m].phase = "INVESTIGATION" /\ obs[n].phase = "INVESTIGATION"
    => \E k \in m..n : obs[k].phase = "REMEDIATION"

\* llm.py 53-87 and agent.py 384-387 restrict the model's choice on their own, one
\* from the observations, the other from the calls of the run. Where the schema
\* is narrowed, what it still offers is never rejected as a duplicate. (Where it
\* is not, llm.py 57 leaves a repetition to the guard.)
OfferedIsAccepted ==
  pc = "deciding" => \A c \in Offered \cap calls : ~ Narrowed(c)

\* agent.py 341 and 349: diagnostics and writes of a run, the routed one
\* included, never exceed the smaller of the two limits.
WithinBudget ==
  \A k \in 1..run :
    Cardinality({n \in DOMAIN obs : obs[n].run = k /\ obs[n].phase # "VERIFICATION"}) <= Budget

\* A run ends by itself, without its runtime limit.
RunsEnd == pc # "idle" ~> pc = "idle"

-----------------------------------------------------------------------------
(* What the documentation says and the code does not do. *)

\* INTERVIEW.md 101: "duplicate read-call rejection until a write makes
\* re-probing meaningful". A target written since it was last inspected is
\* offered for inspection.
OfferedAfterWrite ==
  pc = "deciding" =>
    \A t \in Targets :
      /\ touched[t] # -1
      /\ \A n \in DOMAIN obs : n > touched[t] => obs[n].call # Inspect(t)
      => Inspect(t) \in Offered

=============================================================================

-------------------------- MODULE IncidentLifecycle --------------------------
(***************************************************************************)
(* The life of incidents and of the writes proposed for them, as the       *)
(* backend's single event loop runs it: operator requests (service.py,     *)
(* main.py) and the investigation task of each incident (agent.py) are     *)
(* coroutines that interleave at their awaits and share the database, one  *)
(* lock per incident and the dictionary of running tasks.                  *)
(*                                                                         *)
(* One action of this module is the code between two awaits. The language  *)
(* model, the diagnostics and the gateway answer whatever they like; a     *)
(* write may land at the gateway after the backend stopped waiting for it; *)
(* the backend may restart at any point.                                   *)
(***************************************************************************)
EXTENDS Integers, FiniteSets

CONSTANTS
  Incidents,      \* incident IDs; an incident's task is a worker of that name
  Requests,       \* slots for operator requests in progress
  Targets,        \* containers and services a write can name
  MaxActions,     \* bound of the model on rows of the actions table
  MaxParallel,    \* agent_max_parallel_incidents
  MaxPerIncident, \* autonomous_max_actions_per_incident
  Autonomous,     \* enable_autonomous_actions
  Profiles,       \* service profiles an incident may start with
  TopologyEdits,  \* whether the topology file may change while in use
  NoOne

ActionIds == 1..MaxActions      \* in order of created_at
NoAction == 0
Workers == Incidents \cup Requests
Tools == {"recover", "stop"}    \* start_* and restart_* are "recover"

ASSUME WorkerAssumption ==
  /\ Incidents \cap Requests = {}
  /\ NoOne \notin Workers
  /\ IsFiniteSet(Incidents)
ASSUME BoundAssumption ==
  /\ MaxActions \in Nat
  /\ MaxParallel \in Nat
  /\ MaxPerIncident \in Nat
ASSUME SettingAssumption ==
  /\ Autonomous \in BOOLEAN
  /\ TopologyEdits \in BOOLEAN
  /\ Profiles \subseteq {"sound", "misfit", "missing"}

VARIABLES
  status,       \* Incident.status, "ABSENT" before the row exists
  evidence,     \* Incident.report has evidence_observation_ids
  resolvedAt,   \* Incident.resolved_at is set
  profile,      \* what the topology file says of the incident's service
  proposal,     \* the columns of an Action that never change
  approval,     \* Action.approval_status, "ABSENT" before the row exists
  verification, \* Action.verification_status
  due,          \* Action.expires_at has passed
  worker,       \* where each coroutine is suspended
  lock,         \* IncidentService._locks: the holder for each incident
  tasks,        \* main.py tasks: incidents with a registered task
  sent,         \* how often a signed write was sent for an action
  landed        \* actions whose write changed the host

incidentVars == <<status, evidence, resolvedAt>>
actionVars == <<proposal, approval, verification, due>>
hostVars == <<sent, landed>>
vars == <<incidentVars, profile, actionVars, worker, lock, tasks, hostVars>>

Statuses == {"ABSENT", "OPEN", "INVESTIGATING", "WAITING_FOR_APPROVAL",
             "VERIFYING", "RESOLVED", "FAILED", "ESCALATED"}
Approvals == {"ABSENT", "PENDING", "APPROVED", "AUTO_AUTHORIZED", "REJECTED", "EXPIRED"}
Verifications == {"NOT_RUN", "PASSED", "FAILED", "BLOCKED"}
Proposals == [inc : Incidents, tool : Tools, target : Targets]

\* Where a coroutine can be suspended. From "approving" on it holds the lock.
Unlocked == {"idle", "queued", "thinking", "approveLock", "verifyLock", "executeLock", "done"}
Locked == {"approving", "authorizing", "claimed", "writing", "inspecting",
           "preparing", "checking", "indexing"}
Positions ==
  [pc : Unlocked \cup Locked, inc : Incidents \cup {NoOne},
   act : ActionIds \cup {NoAction}, diagnosed : BOOLEAN]

Position(pc, i, a, diagnosed) == [pc |-> pc, inc |-> i, act |-> a, diagnosed |-> diagnosed]
At(pc, i, a) == Position(pc, i, a, FALSE)
Idle == At("idle", NoOne, NoAction)

Holding(w) == worker[w].pc \in Locked

TypeOK ==
  /\ status \in [Incidents -> Statuses]
  /\ evidence \in [Incidents -> BOOLEAN]
  /\ resolvedAt \in [Incidents -> BOOLEAN]
  /\ profile \in [Incidents -> {"sound", "misfit", "missing"}]
  /\ proposal \in [ActionIds -> Proposals \cup {NoOne}]
  /\ approval \in [ActionIds -> Approvals]
  /\ verification \in [ActionIds -> Verifications]
  /\ due \in [ActionIds -> BOOLEAN]
  /\ worker \in [Workers -> Positions]
  /\ lock \in [Incidents -> Workers \cup {NoOne}]
  /\ tasks \subseteq Incidents
  /\ sent \in [ActionIds -> Nat]
  /\ landed \subseteq ActionIds

Init ==
  /\ status = [i \in Incidents |-> "ABSENT"]
  /\ evidence = [i \in Incidents |-> FALSE]
  /\ resolvedAt = [i \in Incidents |-> FALSE]
  /\ profile \in [Incidents -> Profiles]
  /\ proposal = [a \in ActionIds |-> NoOne]
  /\ approval = [a \in ActionIds |-> "ABSENT"]
  /\ verification = [a \in ActionIds |-> "NOT_RUN"]
  /\ due = [a \in ActionIds |-> FALSE]
  /\ worker = [w \in Workers |-> Idle]
  /\ lock = [i \in Incidents |-> NoOne]
  /\ tasks = {}
  /\ sent = [a \in ActionIds |-> 0]
  /\ landed = {}

-----------------------------------------------------------------------------
(* Reading the database. *)

ActionsOf(i) == {a \in ActionIds : approval[a] # "ABSENT" /\ proposal[a].inc = i}
PendingOf(i) == {a \in ActionsOf(i) : approval[a] = "PENDING"}
AutonomousOf(i) == {a \in ActionsOf(i) : approval[a] = "AUTO_AUTHORIZED"}

\* Mutant of FailedOf: every approved action may be verified again.
ApprovedOf(i) == {a \in ActionsOf(i) : approval[a] = "APPROVED"}

FailedOf(i) == {a \in ActionsOf(i) : approval[a] = "APPROVED" /\ verification[a] = "FAILED"}

\* incident.actions[-1] of a selection, when there is one
IsLatest(a, S) == IF S = {} THEN a = NoAction ELSE a \in S /\ \A b \in S : b <= a

Claimed(a) == approval[a] \in {"APPROVED", "AUTO_AUTHORIZED"}

\* The rows of N are the next ones the actions table gets.
NextRows(N) ==
  \A a \in N :
    /\ approval[a] = "ABSENT"
    /\ \A b \in ActionIds : b < a /\ approval[b] = "ABSENT" => b \in N

IsStop(a) == a # NoAction /\ proposal[a].tool = "stop"

SetStatus(i, s) == status' = [status EXCEPT ![i] = s]

-----------------------------------------------------------------------------
(* Proposals. *)

Exact(i, call) == [inc |-> i, tool |-> call.tool, target |-> call.target]
Calls == [tool : Tools, target : Targets]

\* An identical proposal is still pending: propose_action returns its ID.
AlreadyPending(i, call) == \E a \in PendingOf(i) : proposal[a] = Exact(i, call)

\* The rows of N become pending proposals of incident i, one for each call.
Propose(i, N, call) ==
  /\ NextRows(N)
  /\ proposal' = [a \in ActionIds |-> IF a \in N THEN Exact(i, call[a]) ELSE proposal[a]]
  /\ approval' = [a \in ActionIds |-> IF a \in N THEN "PENDING" ELSE approval[a]]
  /\ UNCHANGED <<verification, due>>

\* Status after proposals: propose_action writes it only for a new row.
AfterProposing(N, otherwise) == IF N = {} THEN otherwise ELSE "WAITING_FOR_APPROVAL"

CreateIncident(i) ==
  /\ status[i] = "ABSENT"
  /\ SetStatus(i, "OPEN")
  /\ UNCHANGED <<evidence, resolvedAt, profile, actionVars, worker, lock, tasks, hostVars>>

\* POST /operations/propose after its precheck: the incident, its evidence and
\* the proposal. A proposal that propose_action refuses (nothing catches its
\* ValueError) leaves the other two behind.
ProposeOperation(i) ==
  /\ status[i] = "ABSENT"
  /\ profile[i] = "sound"
  /\ evidence' = [evidence EXCEPT ![i] = TRUE]
  /\ \E N \in SUBSET ActionIds :
       /\ Cardinality(N) <= 1
       /\ \E call \in [N -> Calls] : Propose(i, N, call)
       /\ SetStatus(i, AfterProposing(N, "OPEN"))
  /\ UNCHANGED <<resolvedAt, profile, worker, lock, tasks, hostVars>>

\* expires_at passes while the proposal waits.
Elapse(a) ==
  /\ approval[a] = "PENDING"
  /\ ~ due[a]
  /\ due' = [due EXCEPT ![a] = TRUE]
  /\ UNCHANGED <<incidentVars, profile, proposal, approval, verification, worker, lock,
                 tasks, hostVars>>

\* An incident with no other pending action stops waiting.
OthersPending(a) == PendingOf(proposal[a].inc) \ {a} # {}

\* Mutant of Reject: any action can be rejected.
RejectAnything(a) ==
  LET i == proposal[a].inc IN
  /\ approval[a] # "ABSENT"
  /\ approval' = [approval EXCEPT ![a] = "REJECTED"]
  /\ status' = IF status[i] \in {"VERIFYING", "INVESTIGATING"} \/ OthersPending(a)
               THEN status ELSE [status EXCEPT ![i] = "OPEN"]
  /\ UNCHANGED <<evidence, resolvedAt, profile, proposal, verification, due, worker, lock,
                 tasks, hostVars>>

Reject(a) ==
  LET i == proposal[a].inc IN
  /\ approval[a] = "PENDING"
  /\ approval' = [approval EXCEPT ![a] = "REJECTED"]
  /\ status' = IF status[i] \in {"VERIFYING", "INVESTIGATING"} \/ OthersPending(a)
               THEN status ELSE [status EXCEPT ![i] = "OPEN"]
  /\ UNCHANGED <<evidence, resolvedAt, profile, proposal, verification, due, worker, lock,
                 tasks, hostVars>>

\* The administrator edits config/topology.json; it is read at every use.
EditTopology(i, p) ==
  /\ TopologyEdits
  /\ profile[i] # p
  /\ profile' = [profile EXCEPT ![i] = p]
  /\ UNCHANGED <<incidentVars, actionVars, worker, lock, tasks, hostVars>>

-----------------------------------------------------------------------------
(* Operator requests and the per-incident lock. *)

Move(w, pos) == worker' = [worker EXCEPT ![w] = pos]

RequestApproval(w, a) ==
  /\ worker[w].pc = "idle"
  /\ approval[a] # "ABSENT"
  /\ Move(w, At("approveLock", proposal[a].inc, a))
  /\ UNCHANGED <<incidentVars, profile, actionVars, lock, tasks, hostVars>>

RequestVerify(w, i) ==
  /\ worker[w].pc = "idle"
  /\ status[i] # "ABSENT"
  /\ Move(w, At("verifyLock", i, NoAction))
  /\ UNCHANGED <<incidentVars, profile, actionVars, lock, tasks, hostVars>>

Waiting == {"approveLock", "executeLock", "verifyLock"}
Granted(pc) ==
  CASE pc = "approveLock" -> "approving"
    [] pc = "executeLock" -> "authorizing"
    [] pc = "verifyLock" -> "preparing"

\* A verify without an action takes up the last approved action that failed.
Chosen(w, a) ==
  IF worker[w].pc = "verifyLock" /\ worker[w].act = NoAction
  THEN IsLatest(a, FailedOf(worker[w].inc))
  ELSE a = worker[w].act

\* Mutant of LockFree: a lock for each request instead of one for each incident.
LockFreeAlways(i) == i \in Incidents

LockFree(i) == lock[i] = NoOne

Acquire(w) ==
  /\ worker[w].pc \in Waiting
  /\ LockFree(worker[w].inc)
  /\ lock' = [lock EXCEPT ![worker[w].inc] = w]
  /\ \E a \in ActionIds \cup {NoAction} :
       /\ Chosen(w, a)
       /\ Move(w, Position(Granted(worker[w].pc), worker[w].inc, a, worker[w].diagnosed))
  /\ UNCHANGED <<incidentVars, profile, actionVars, tasks, hostVars>>

Unlock(w) == lock' = [lock EXCEPT ![worker[w].inc] = NoOne]

\* Where a coroutine goes when its service call returns, and when it raises an
\* error: an operator's request is answered, the agent's task ends or reports
\* the rejected decision to the model.
Returned(w) == IF w \in Requests THEN Idle ELSE At("done", w, NoAction)
Raised(w) == IF w \in Requests THEN Idle ELSE At("thinking", w, NoAction)

-----------------------------------------------------------------------------
(* Approval. *)

\* Mutant of Approvable: the claim does not compare the approval status.
ApprovableAgain(a) ==
  /\ ~ due[a]
  /\ status[proposal[a].inc] = "WAITING_FOR_APPROVAL"
  /\ evidence[proposal[a].inc]
  /\ profile[proposal[a].inc] = "sound"

Approvable(a) ==
  /\ approval[a] = "PENDING"
  /\ ~ due[a]
  /\ status[proposal[a].inc] = "WAITING_FOR_APPROVAL"
  /\ evidence[proposal[a].inc]
  /\ profile[proposal[a].inc] = "sound"

ApproveExpires(w) ==
  LET a == worker[w].act
      i == worker[w].inc
  IN
  /\ worker[w].pc = "approving"
  /\ approval[a] = "PENDING"
  /\ due[a]
  /\ approval' = [approval EXCEPT ![a] = "EXPIRED"]
  /\ status' = IF OthersPending(a) THEN status ELSE [status EXCEPT ![i] = "OPEN"]
  /\ Unlock(w)
  /\ Move(w, Idle)
  /\ UNCHANGED <<evidence, resolvedAt, profile, proposal, verification, due, tasks, hostVars>>

ApproveRefused(w) ==
  LET a == worker[w].act IN
  /\ worker[w].pc = "approving"
  /\ ~ Approvable(a)
  /\ ~ (approval[a] = "PENDING" /\ due[a])
  /\ Unlock(w)
  /\ Move(w, Idle)
  /\ UNCHANGED <<incidentVars, profile, actionVars, tasks, hostVars>>

\* Mutant of ApproveClaims: the lock covers the claim but not the write.
ApproveClaimsUnlocked(w) ==
  LET a == worker[w].act IN
  /\ worker[w].pc = "approving"
  /\ Approvable(a)
  /\ approval' = [approval EXCEPT ![a] = "APPROVED"]
  /\ SetStatus(worker[w].inc, "VERIFYING")
  /\ Unlock(w)
  /\ Move(w, At("claimed", worker[w].inc, a))
  /\ UNCHANGED <<evidence, resolvedAt, profile, proposal, verification, due, tasks, hostVars>>

\* The claim and the dispatch marker are committed before anything is sent.
ApproveClaims(w) ==
  LET a == worker[w].act IN
  /\ worker[w].pc = "approving"
  /\ Approvable(a)
  /\ approval' = [approval EXCEPT ![a] = "APPROVED"]
  /\ SetStatus(worker[w].inc, "VERIFYING")
  /\ Move(w, At("claimed", worker[w].inc, a))
  /\ UNCHANGED <<evidence, resolvedAt, profile, proposal, verification, due, lock, tasks,
                 hostVars>>

\* gateway.execute sends the signed request.
Dispatch(w) ==
  /\ worker[w].pc = "claimed"
  /\ sent' = [sent EXCEPT ![worker[w].act] = @ + 1]
  /\ Move(w, At("writing", worker[w].inc, worker[w].act))
  /\ UNCHANGED <<incidentVars, profile, actionVars, lock, tasks, landed>>

\* The gateway carries a write out, in time for its answer or not.
Land(a) ==
  /\ sent[a] > 0
  /\ a \notin landed
  /\ landed' = landed \cup {a}
  /\ UNCHANGED <<incidentVars, profile, actionVars, worker, lock, tasks, sent>>

WriteConfirmed(w) ==
  /\ worker[w].pc = "writing"
  /\ approval[worker[w].act] = "APPROVED"
  /\ worker[w].act \in landed
  /\ Move(w, At("preparing", worker[w].inc, worker[w].act))
  /\ UNCHANGED <<incidentVars, profile, actionVars, lock, tasks, hostVars>>

\* Mutant of WriteUncertain: the incident stays VERIFYING.
WriteUncertainForgets(w) ==
  /\ worker[w].pc \in {"claimed", "writing"}
  /\ approval[worker[w].act] = "APPROVED"
  /\ verification' = [verification EXCEPT ![worker[w].act] = "FAILED"]
  /\ Unlock(w)
  /\ Move(w, Idle)
  /\ UNCHANGED <<incidentVars, profile, proposal, approval, due, tasks, hostVars>>

\* A refusal, a failure, a lost answer or agent_write_timeout_seconds.
WriteUncertain(w) ==
  LET a == worker[w].act
      i == worker[w].inc
  IN
  /\ worker[w].pc \in {"claimed", "writing"}
  /\ approval[a] = "APPROVED"
  /\ verification' = [verification EXCEPT ![a] = "FAILED"]
  /\ SetStatus(i, IF OthersPending(a) THEN "WAITING_FOR_APPROVAL" ELSE "OPEN")
  /\ Unlock(w)
  /\ Move(w, Idle)
  /\ UNCHANGED <<evidence, resolvedAt, profile, proposal, approval, due, tasks, hostVars>>

-----------------------------------------------------------------------------
(* Verification. *)

UnderInvestigation(i) == status[i] = "INVESTIGATING"

VerifyRefused(w) ==
  LET i == worker[w].inc IN
  /\ worker[w].pc = "preparing"
  /\ UnderInvestigation(i) \/ ~ evidence[i] \/ profile[i] = "misfit"
  /\ Unlock(w)
  /\ Move(w, Raised(w))
  /\ UNCHANGED <<incidentVars, profile, actionVars, tasks, hostVars>>

\* No configured check covers the service: BLOCKED, and the incident is open.
VerifyBlocked(w) ==
  LET a == worker[w].act
      i == worker[w].inc
  IN
  /\ worker[w].pc = "preparing"
  /\ ~ UnderInvestigation(i)
  /\ evidence[i]
  /\ profile[i] = "missing"
  /\ SetStatus(i, "OPEN")
  /\ verification' = IF a = NoAction THEN verification
                     ELSE [verification EXCEPT ![a] = "BLOCKED"]
  /\ Unlock(w)
  /\ Move(w, Returned(w))
  /\ UNCHANGED <<evidence, resolvedAt, profile, proposal, approval, due, tasks, hostVars>>

VerifyStarts(w) ==
  LET i == worker[w].inc IN
  /\ worker[w].pc = "preparing"
  /\ ~ UnderInvestigation(i)
  /\ evidence[i]
  /\ profile[i] = "sound"
  /\ SetStatus(i, "VERIFYING")
  /\ Move(w, At("checking", i, worker[w].act))
  /\ UNCHANGED <<evidence, resolvedAt, profile, actionVars, lock, tasks, hostVars>>

\* The status a verification leaves: a deliberate stop is never a recovery.
Verdict(i, a, passed) ==
  CASE IsStop(a) -> "OPEN"
    [] ~ IsStop(a) /\ passed -> "RESOLVED"
    [] ~ IsStop(a) /\ ~ passed ->
         IF PendingOf(i) # {} THEN "WAITING_FOR_APPROVAL" ELSE "OPEN"

\* Mutant of Retired: the remaining proposals stay pending after a recovery.
RetiredNone(i, passed) == approval

\* Approvals after a verification: recovery makes the remaining proposals stale.
Retired(i, passed) ==
  [a \in ActionIds |-> IF passed /\ a \in PendingOf(i) THEN "EXPIRED" ELSE approval[a]]

\* The checks were run, each with its own deadline; the outcome is committed
\* and a recovery is then indexed for later retrieval.
VerifyEnds(w, passed) ==
  LET a == worker[w].act
      i == worker[w].inc
  IN
  /\ worker[w].pc = "checking"
  /\ SetStatus(i, Verdict(i, a, passed))
  /\ resolvedAt' = [resolvedAt EXCEPT ![i] = passed /\ ~ IsStop(a)]
  /\ verification' = IF a = NoAction THEN verification
                     ELSE [verification EXCEPT ![a] = IF passed THEN "PASSED" ELSE "FAILED"]
  /\ approval' = Retired(i, passed)
  /\ IF passed THEN Move(w, At("indexing", i, a)) /\ UNCHANGED lock
               ELSE Unlock(w) /\ Move(w, Returned(w))
  /\ UNCHANGED <<evidence, profile, proposal, due, tasks, hostVars>>

Indexed(w) ==
  /\ worker[w].pc = "indexing"
  /\ Unlock(w)
  /\ Move(w, Returned(w))
  /\ UNCHANGED <<incidentVars, profile, actionVars, tasks, hostVars>>

-----------------------------------------------------------------------------
(* The investigation task. *)

Live == {i \in tasks : worker[i].pc # "done"}

\* Mutant of SlotFree: incidents are counted by status instead of by task.
SlotFreeByStatus ==
  Cardinality({i \in Incidents : status[i] = "INVESTIGATING"}) < MaxParallel

SlotFree == Cardinality(Live) < MaxParallel

\* POST /incidents/{id}/investigate claims the incident and creates its task.
Investigate(i) ==
  /\ status[i] \in {"OPEN", "FAILED", "ESCALATED"}
  /\ i \notin tasks
  /\ SlotFree
  /\ SetStatus(i, "INVESTIGATING")
  /\ tasks' = tasks \cup {i}
  /\ Move(i, At("queued", i, NoAction))
  /\ UNCHANGED <<evidence, resolvedAt, profile, actionVars, lock, hostVars>>

\* The first step of Agent.investigate.
TaskStarts(i) ==
  /\ worker[i].pc = "queued"
  /\ IF status[i] \in {"RESOLVED", "VERIFYING", "WAITING_FOR_APPROVAL"}
     THEN Move(i, At("done", i, NoAction)) /\ UNCHANGED status
     ELSE Move(i, At("thinking", i, NoAction)) /\ SetStatus(i, "INVESTIGATING")
  /\ UNCHANGED <<evidence, resolvedAt, profile, actionVars, lock, tasks, hostVars>>

\* DIAGNOSIS, approvals required: the diagnosis is saved and the incident is
\* open, then its remediations become proposals. The ones propose_action
\* refuses with a ValueError are skipped; one that fails its JSON schema ends
\* the decision as rejected, with what was written so far, and the task goes on.
DiagnoseForApproval(i, rejected) ==
  /\ worker[i].pc = "thinking"
  /\ ~ Autonomous
  /\ evidence' = [evidence EXCEPT ![i] = TRUE]
  /\ \E N \in SUBSET ActionIds : \E call \in [N -> Calls] :
       /\ \A a \in N : ~ AlreadyPending(i, call[a])
       /\ \A a, b \in N : a # b => call[a] # call[b]
       /\ Propose(i, N, call)
       /\ SetStatus(i, AfterProposing(N, "OPEN"))
  /\ Move(i, At(IF rejected THEN "thinking" ELSE "done", i, NoAction))
  /\ UNCHANGED <<resolvedAt, profile, lock, tasks, hostVars>>

\* The incident is verified with its last autonomous action.
VerifyAsIs(i) ==
  \E a \in ActionIds \cup {NoAction} :
    /\ IsLatest(a, AutonomousOf(i))
    /\ Move(i, At("verifyLock", i, a))

\* DIAGNOSIS, recovery without approval: the first remediation is executed, and
\* without one the incident is verified with the last autonomous action.
DiagnoseAutonomously(i, remedy) ==
  /\ worker[i].pc = "thinking"
  /\ Autonomous
  /\ evidence' = [evidence EXCEPT ![i] = TRUE]
  /\ SetStatus(i, "OPEN")
  /\ IF remedy THEN Move(i, Position("executeLock", i, NoAction, TRUE))
               ELSE VerifyAsIs(i)
  /\ UNCHANGED <<resolvedAt, profile, actionVars, lock, tasks, hostVars>>

\* EXECUTE_ACTION
Execute(i) ==
  /\ worker[i].pc = "thinking"
  /\ Move(i, At("executeLock", i, NoAction))
  /\ UNCHANGED <<incidentVars, profile, actionVars, lock, tasks, hostVars>>

\* REQUEST_APPROVAL; the task ends either way, and an identical pending
\* proposal leaves the status alone.
RequestFromAgent(i, call) ==
  /\ worker[i].pc = "thinking"
  /\ evidence[i]
  /\ \/ /\ AlreadyPending(i, call)
        /\ UNCHANGED <<status, actionVars>>
     \/ /\ ~ AlreadyPending(i, call)
        /\ \E a \in ActionIds : Propose(i, {a}, [b \in {a} |-> call])
        /\ SetStatus(i, "WAITING_FOR_APPROVAL")
  /\ Move(i, At("done", i, NoAction))
  /\ UNCHANGED <<evidence, resolvedAt, profile, lock, tasks, hostVars>>

\* NEED_USER_INPUT and STOP
Conclude(i, s) ==
  /\ worker[i].pc = "thinking"
  /\ SetStatus(i, s)
  /\ Move(i, At("done", i, NoAction))
  /\ UNCHANGED <<evidence, resolvedAt, profile, actionVars, lock, tasks, hostVars>>

\* A model failure, a third rejected decision or an exhausted step budget.
TaskFails(i) ==
  /\ worker[i].pc = "thinking"
  /\ SetStatus(i, "FAILED")
  /\ Move(i, At("done", i, NoAction))
  /\ UNCHANGED <<evidence, resolvedAt, profile, actionVars, lock, tasks, hostVars>>

\* Mutant of RuntimeLimit: only the wait for the model has a deadline.
RuntimeLimitOfModel(i) ==
  /\ worker[i].pc = "thinking"
  /\ SetStatus(i, "FAILED")
  /\ Move(i, At("done", i, NoAction))
  /\ UNCHANGED <<evidence, resolvedAt, profile, actionVars, lock, tasks, hostVars>>

\* agent_max_runtime_seconds: the task is cancelled at whatever it awaits, in
\* service.py too, where no handler catches a cancellation.
RuntimeLimit(i) ==
  /\ worker[i].pc \notin {"idle", "queued", "done"}
  /\ SetStatus(i, "FAILED")
  /\ IF Holding(i) THEN Unlock(i) ELSE UNCHANGED lock
  /\ Move(i, At("done", i, NoAction))
  /\ UNCHANGED <<evidence, resolvedAt, profile, actionVars, tasks, hostVars>>

\* The done callback.
TaskPopped(i) ==
  /\ worker[i].pc = "done"
  /\ tasks' = tasks \ {i}
  /\ Move(i, Idle)
  /\ UNCHANGED <<incidentVars, profile, actionVars, lock, hostVars>>

-----------------------------------------------------------------------------
(* Recovery without approval. *)

WithinBudget(i) == Cardinality(ActionsOf(i)) < MaxPerIncident

\* Mutant of FirstAttempt: an attempt that was not verified may be repeated.
FirstSuccess(i, t) ==
  \A a \in AutonomousOf(i) : verification[a] = "PASSED" => proposal[a].target # t

FirstAttempt(i, t) == \A a \in AutonomousOf(i) : proposal[a].target # t

\* autonomy.authorize, but for the evidence it weighs, and the claim.
AuthorizeAndClaim(i, t) ==
  /\ worker[i].pc = "authorizing"
  /\ Autonomous
  /\ WithinBudget(i)
  /\ FirstAttempt(i, t)
  /\ profile[i] = "sound"
  /\ \E a \in ActionIds :
       /\ NextRows({a})
       /\ proposal' = [proposal EXCEPT ![a] = [inc |-> i, tool |-> "recover", target |-> t]]
       /\ approval' = [approval EXCEPT ![a] = "AUTO_AUTHORIZED"]
       /\ Move(i, At("claimed", i, a))
  /\ UNCHANGED <<incidentVars, profile, verification, due, lock, tasks, hostVars>>

\* authorize or the target's checks raise: after a DIAGNOSIS the incident is
\* verified as it stands (a schema error is a rejected decision instead).
AuthorizationRefused(i, schemaError) ==
  /\ worker[i].pc = "authorizing"
  /\ Unlock(i)
  /\ IF worker[i].diagnosed /\ ~ schemaError
     THEN VerifyAsIs(i)
     ELSE Move(i, At("thinking", i, NoAction))
  /\ UNCHANGED <<incidentVars, profile, actionVars, tasks, hostVars>>

\* Answered, failed or timed out: the exact target is inspected.
AutonomousWriteEnds(i) ==
  /\ worker[i].pc \in {"claimed", "writing"}
  /\ approval[worker[i].act] = "AUTO_AUTHORIZED"
  /\ Move(i, At("inspecting", i, worker[i].act))
  /\ UNCHANGED <<incidentVars, profile, actionVars, lock, tasks, hostVars>>

InspectionEnds(i, passed) ==
  /\ worker[i].pc = "inspecting"
  /\ verification' = [verification EXCEPT ![worker[i].act] = IF passed THEN "PASSED" ELSE "FAILED"]
  /\ Unlock(i)
  /\ Move(i, At("thinking", i, NoAction))
  /\ UNCHANGED <<incidentVars, profile, proposal, approval, due, tasks, hostVars>>

-----------------------------------------------------------------------------
(* The process. *)

\* Mutant of Interrupted: startup looks for interrupted investigations only.
InterruptedTasks(s) == IF s = "INVESTIGATING" THEN "FAILED" ELSE s

\* Mutant of Interrupted: the phase is written to the status.
InterruptedPhase(s) == IF s \in {"INVESTIGATING", "VERIFYING"} THEN "INTERRUPTED" ELSE s

\* Every coroutine and every lock is lost; startup marks interrupted work.
Interrupted(s) == IF s \in {"INVESTIGATING", "VERIFYING"} THEN "FAILED" ELSE s

Restart ==
  /\ status' = [i \in Incidents |-> Interrupted(status[i])]
  /\ worker' = [w \in Workers |-> Idle]
  /\ lock' = [i \in Incidents |-> NoOne]
  /\ tasks' = {}
  /\ UNCHANGED <<evidence, resolvedAt, profile, actionVars, hostVars>>

\* What one suspended coroutine does next.
ServiceStep(w) ==
  \/ ApproveExpires(w) \/ ApproveRefused(w) \/ ApproveClaims(w)
  \/ Dispatch(w) \/ WriteConfirmed(w) \/ WriteUncertain(w)
  \/ VerifyRefused(w) \/ VerifyBlocked(w) \/ VerifyStarts(w)
  \/ \E passed \in BOOLEAN : VerifyEnds(w, passed)
  \/ Indexed(w)

AutonomousStep(i) ==
  \/ \E t \in Targets : AuthorizeAndClaim(i, t)
  \/ \E schemaError \in BOOLEAN : AuthorizationRefused(i, schemaError)
  \/ AutonomousWriteEnds(i)
  \/ \E passed \in BOOLEAN : InspectionEnds(i, passed)

Decide(i) ==
  \/ \E rejected \in BOOLEAN : DiagnoseForApproval(i, rejected)
  \/ \E remedy \in BOOLEAN : DiagnoseAutonomously(i, remedy)
  \/ Execute(i)
  \/ \E call \in Calls : RequestFromAgent(i, call)
  \/ \E s \in {"ESCALATED", "OPEN"} : Conclude(i, s)
  \/ TaskFails(i)

TaskStep(i) ==
  \/ TaskStarts(i) \/ Decide(i) \/ AutonomousStep(i) \/ RuntimeLimit(i) \/ TaskPopped(i)

OperatorStep ==
  \/ \E i \in Incidents : CreateIncident(i) \/ ProposeOperation(i) \/ Investigate(i)
  \/ \E a \in ActionIds : Reject(a)
  \/ \E w \in Requests, a \in ActionIds : RequestApproval(w, a)
  \/ \E w \in Requests, i \in Incidents : RequestVerify(w, i)
  \/ \E i \in Incidents, p \in {"sound", "misfit", "missing"} : EditTopology(i, p)

Next ==
  \/ OperatorStep
  \/ \E w \in Workers : Acquire(w) \/ ServiceStep(w)
  \/ \E i \in Incidents : TaskStep(i)
  \/ \E a \in ActionIds : Land(a) \/ Elapse(a)
  \/ Restart

Spec == Init /\ [][Next]_vars

\* asyncio.Lock serves its waiters in order, every await of service.py has a
\* deadline, a created task is scheduled and its runtime limit is a timer.
\* Nothing makes an operator, the model or the gateway do anything.
Fairness ==
  /\ \A w \in Workers : SF_vars(Acquire(w)) /\ WF_vars(ServiceStep(w))
  /\ \A i \in Incidents :
       /\ WF_vars(TaskStarts(i)) /\ WF_vars(RuntimeLimit(i)) /\ WF_vars(TaskPopped(i))
       /\ WF_vars(AutonomousStep(i))

FairSpec == Spec /\ Fairness

-----------------------------------------------------------------------------
(* Properties. *)

\* service.py 144: however approvals, restarts, timeouts and cancellations
\* interleave, the signed write of an action is sent at most once, and only
\* after the claim was committed; nothing pending, rejected or expired is sent.
SentOnceAfterClaim ==
  \A a \in ActionIds : sent[a] <= 1 /\ (sent[a] > 0 => Claimed(a))

\* service.py 301: "they must never execute later". A resolved incident has no
\* proposal left that an operator could still approve.
ResolvedRetiresProposals ==
  \A i \in Incidents : status[i] = "RESOLVED" => PendingOf(i) = {}

\* service.py _locks: approving, executing and verifying exclude each other
\* within an incident, whichever way a coroutine left its critical section.
OneServiceCallPerIncident ==
  \A v, w \in Workers :
    v # w /\ Holding(v) /\ Holding(w) => worker[v].inc # worker[w].inc

\* main.py 52: an incident is only VERIFYING while the coroutine that made it
\* so is still there to finish it; a restart leaves no such incident behind.
VerifyingHasWorker ==
  \A i \in Incidents : status[i] = "VERIFYING" =>
    \E w \in Workers :
      worker[w].inc = i /\ worker[w].pc \in {"claimed", "writing", "preparing", "checking"}

\* autonomy.py 41-44: no target is written twice without approval within an
\* incident, and unapproved writes stay within the budget.
NoRestartLoop ==
  \A i \in Incidents :
    /\ Cardinality(AutonomousOf(i)) <= MaxPerIncident
    /\ \A a, b \in AutonomousOf(i) : a # b => proposal[a].target # proposal[b].target

\* main.py 145: never more live investigations than the provider is sized for.
ParallelLimit == Cardinality(Live) <= MaxParallel

\* An approval decision is final: no step of any actor changes the status of an
\* action that is no longer pending, so a replayed or late decision has no effect.
DecisionsAreFinal ==
  [][\A a \in ActionIds :
       approval[a] \notin {"ABSENT", "PENDING"} => approval'[a] = approval[a]]_vars

\* An incident only becomes RESOLVED when no write of this incident is still
\* waiting for its answer.
ResolvedAfterWrites ==
  [][\A i \in Incidents :
       status'[i] = "RESOLVED" /\ status[i] # "RESOLVED" =>
         \A w \in Workers : worker[w].pc \in {"claimed", "writing", "inspecting"} =>
           worker[w].inc # i]_vars

\* An investigation is over some time after it was registered.
TasksEnd == \A i \in Incidents : i \in tasks ~> i \notin tasks

\* Verification is over some time after it started.
VerifyingEnds ==
  \A i \in Incidents : status[i] = "VERIFYING" ~> status[i] # "VERIFYING"

\* What operators, tasks, timeouts and restarts implement together, for every
\* action they record.
Life == INSTANCE ActionLife
  WITH Nothing <- NoOne, decision <- approval, sends <- sent, outcome <- verification
KeepsLife == Life!Spec

-----------------------------------------------------------------------------
(* What the documentation, a message or a test says and the code does not do. *)

\* README.md 3: "every write has ... deterministic verification".
EveryWriteVerified ==
  \A a \in ActionIds : sent[a] > 0 ~> verification[a] # "NOT_RUN"

\* service.py 252: an INVESTIGATING incident has a current investigation.
InvestigatingHasTask ==
  \A i \in Incidents : UnderInvestigation(i) => i \in tasks

\* dashboard.ts 57 and test_approval.py 79: an incident has a resolution time
\* only when it is resolved (or being verified once more), also when an operator
\* has it verified while a task still thinks that writes a status of its own.
DatedOnlyWhenResolved ==
  \A i \in Incidents : resolvedAt[i] => status[i] \in {"RESOLVED", "VERIFYING"}

=============================================================================

------------------------ MODULE IncidentLifecycleProofs ------------------------
(***************************************************************************)
(* Proofs about IncidentLifecycle, for every set of incidents, requests    *)
(* and targets and every bound.                                            *)
(*                                                                         *)
(* TypeInv is the basis. Each further invariant depends on few variables:  *)
(* a lemma first says the only ways in which any step changes those        *)
(* variables (RowsKept, Claiming, LockSteps, LiveSteps, StatusSteps), and  *)
(* the theorem then has one case for each of these ways instead of one for *)
(* each action.                                                            *)
(*                                                                         *)
(* The last part proves that every step is a step of ActionLife or leaves  *)
(* it alone, and draws from the abstract steps that nothing is stopped     *)
(* without an approval.                                                    *)
(***************************************************************************)
EXTENDS IncidentLifecycle, FiniteSetTheorems, TLAPS

\* Every row of the actions table has its columns.
RowsComplete == \A a \in ActionIds : approval[a] # "ABSENT" => proposal[a] \in Proposals

\* A busy coroutine works on an incident, a task on its own one, and an approval
\* on an existing row.
Placed ==
  \A w \in Workers :
    /\ worker[w].pc # "idle" => worker[w].inc \in Incidents
    /\ worker[w].pc # "idle" /\ w \in Incidents => worker[w].inc = w
    /\ worker[w].pc \in {"approveLock", "approving", "claimed"} => worker[w].act \in ActionIds

TypeInv == TypeOK /\ RowsComplete /\ Placed

\* Every step of the backend keeps the types, the rows and the places.
LEMMA TypeStep ==
  ASSUME TypeInv, [Next]_vars
  PROVE  TypeInv'
<1> USE WorkerAssumption, SettingAssumption, BoundAssumption DEF TypeInv
<1>1. CASE OperatorStep
  <2> USE DEF TypeOK, RowsComplete, Placed, Workers, Positions, Unlocked, Locked, At, Position, Move, SetStatus,
    Statuses, Approvals, Verifications, Proposals, Calls, Idle, NoAction, incidentVars, actionVars, hostVars
  <2>1. ASSUME NEW i \in Incidents, CreateIncident(i) PROVE TypeInv'
    BY <2>1 DEF CreateIncident
  <2>2. ASSUME NEW i \in Incidents, ProposeOperation(i) PROVE TypeInv'
    BY <2>2 DEF ProposeOperation, Propose, AfterProposing, Exact
  <2>3. ASSUME NEW i \in Incidents, Investigate(i) PROVE TypeInv'
    BY <2>3 DEF Investigate
  <2>4. ASSUME NEW a \in ActionIds, Reject(a) PROVE TypeInv'
    BY <2>4 DEF Reject
  <2>5. ASSUME NEW w \in Requests, NEW a \in ActionIds, RequestApproval(w, a) PROVE TypeInv'
    BY <2>5 DEF RequestApproval
  <2>6. ASSUME NEW w \in Requests, NEW i \in Incidents, RequestVerify(w, i) PROVE TypeInv'
    BY <2>6 DEF RequestVerify
  <2>7. ASSUME NEW i \in Incidents, NEW p \in {"sound", "misfit", "missing"}, EditTopology(i, p) PROVE TypeInv'
    BY <2>7 DEF EditTopology
  <2> HIDE DEF TypeInv
  <2> QED BY <1>1, <2>1, <2>2, <2>3, <2>4, <2>5, <2>6, <2>7
    DEF OperatorStep
<1>2. ASSUME NEW w \in Workers, Acquire(w) \/ ServiceStep(w) PROVE TypeInv'
  <2> USE DEF TypeOK, RowsComplete, Placed, Workers, Positions, Unlocked, Locked, At, Position, Move, SetStatus,
    Statuses, Approvals, Verifications, Proposals, Calls, Idle, NoAction, incidentVars, actionVars, hostVars
  <2>1. CASE Acquire(w)
    <3>1. PICK a \in ActionIds \cup {NoAction} :
              /\ Chosen(w, a)
              /\ Move(w, Position(Granted(worker[w].pc), worker[w].inc, a, worker[w].diagnosed))
      BY <2>1 DEF Acquire
    <3>2. worker[w].pc = "approveLock" => a \in ActionIds
      BY <3>1 DEF Chosen
    <3>3. Granted(worker[w].pc) \in Locked \ {"claimed"}
      BY <2>1 DEF Acquire, Waiting, Granted
    <3>4. Granted(worker[w].pc) = "approving" => worker[w].pc = "approveLock"
      BY <2>1 DEF Acquire, Waiting, Granted
    <3>5. worker[w].inc \in Incidents
      BY <2>1 DEF Acquire, Waiting
    <3>6. w \in Incidents => worker[w].inc = w
      BY <2>1 DEF Acquire, Waiting
    <3>7. UNCHANGED <<incidentVars, profile, actionVars, tasks, hostVars>>
      BY <2>1 DEF Acquire
    <3>8. lock' \in [Incidents -> Workers \cup {NoOne}]
      BY <2>1 DEF Acquire
    <3>9. Position(Granted(worker[w].pc), worker[w].inc, a, worker[w].diagnosed) \in Positions
      BY <3>3, <3>5
    <3> QED BY <3>1, <3>2, <3>3, <3>4, <3>5, <3>6, <3>7, <3>8, <3>9
  <2>2. CASE ApproveExpires(w)
    BY <2>2 DEF ApproveExpires, Unlock
  <2>3. CASE ApproveRefused(w)
    BY <2>3 DEF ApproveRefused, Unlock
  <2>4. CASE ApproveClaims(w)
    BY <2>4 DEF ApproveClaims, Approvable
  <2>5. CASE Dispatch(w)
    BY <2>5 DEF Dispatch
  <2>6. CASE WriteConfirmed(w)
    BY <2>6 DEF WriteConfirmed
  <2>7. CASE WriteUncertain(w)
    BY <2>7 DEF WriteUncertain, Unlock
  <2>8. CASE VerifyRefused(w)
    BY <2>8 DEF VerifyRefused, Raised, Unlock
  <2>9. CASE VerifyBlocked(w)
    BY <2>9 DEF VerifyBlocked, Returned, Unlock
  <2>10. CASE VerifyStarts(w)
    BY <2>10 DEF VerifyStarts
  <2>11. ASSUME NEW passed \in BOOLEAN, VerifyEnds(w, passed) PROVE TypeInv'
    <3>1. Verdict(worker[w].inc, worker[w].act, passed) \in Statuses
      BY DEF Verdict
    <3>2. approval' = Retired(worker[w].inc, passed) /\ UNCHANGED proposal
      BY <2>11 DEF VerifyEnds
    <3>3. approval' \in [ActionIds -> Approvals]
      BY <3>2 DEF Retired
    <3>4. \A a \in ActionIds : approval'[a] # "ABSENT" => approval[a] # "ABSENT"
      BY <3>2 DEF Retired, PendingOf
    <3>5. verification' \in [ActionIds -> Verifications]
      BY <2>11 DEF VerifyEnds
    <3>6. /\ status' \in [Incidents -> Statuses]
          /\ resolvedAt' \in [Incidents -> BOOLEAN]
      BY <2>11, <3>1 DEF VerifyEnds, IsStop
    <3>7. UNCHANGED <<evidence, profile, proposal, due, tasks, hostVars>>
      BY <2>11 DEF VerifyEnds
    <3>8. CASE worker' = [worker EXCEPT ![w] = At("indexing", worker[w].inc, worker[w].act)] /\ UNCHANGED lock
      BY <2>11, <3>3, <3>4, <3>5, <3>6, <3>7, <3>8 DEF VerifyEnds
    <3>9. CASE lock' = [lock EXCEPT ![worker[w].inc] = NoOne] /\ worker' = [worker EXCEPT ![w] = Returned(w)]
      BY <2>11, <3>3, <3>4, <3>5, <3>6, <3>7, <3>9 DEF Returned
    <3> QED BY <2>11, <3>8, <3>9 DEF VerifyEnds, Unlock
  <2>12. CASE Indexed(w)
    BY <2>12 DEF Indexed, Returned, Unlock
  <2> HIDE DEF TypeInv
  <2> QED BY <1>2, <2>1, <2>2, <2>3, <2>4, <2>5, <2>6, <2>7, <2>8, <2>9, <2>10, <2>11, <2>12
    DEF ServiceStep
<1>3. ASSUME NEW i \in Incidents, TaskStep(i) PROVE TypeInv'
  <2> USE DEF TypeOK, RowsComplete, Placed, Workers, Positions, Unlocked, Locked, At, Position, Move, SetStatus,
    Statuses, Approvals, Verifications, Proposals, Calls, Idle, NoAction, incidentVars, actionVars, hostVars
  <2>1. CASE TaskStarts(i)
    <3>1. CASE status[i] \in {"RESOLVED", "VERIFYING", "WAITING_FOR_APPROVAL"}
      <4>1. worker' = [worker EXCEPT ![i] = At("done", i, NoAction)]
        BY <2>1, <3>1 DEF TaskStarts
      <4>2. UNCHANGED <<incidentVars, profile, actionVars, lock, tasks, hostVars>>
        BY <2>1, <3>1 DEF TaskStarts
      <4> QED BY <4>1, <4>2
    <3>2. CASE status[i] \notin {"RESOLVED", "VERIFYING", "WAITING_FOR_APPROVAL"}
      <4>1. /\ worker' = [worker EXCEPT ![i] = At("thinking", i, NoAction)]
            /\ status' = [status EXCEPT ![i] = "INVESTIGATING"]
        BY <2>1, <3>2 DEF TaskStarts
      <4>2. UNCHANGED <<evidence, resolvedAt, profile, actionVars, lock, tasks, hostVars>>
        BY <2>1 DEF TaskStarts
      <4> QED BY <4>1, <4>2
    <3> QED BY <3>1, <3>2
  <2>2. ASSUME NEW rejected \in BOOLEAN, DiagnoseForApproval(i, rejected) PROVE TypeInv'
    BY <2>2 DEF DiagnoseForApproval, Propose, AfterProposing, Exact
  <2>3. ASSUME NEW remedy \in BOOLEAN, DiagnoseAutonomously(i, remedy) PROVE TypeInv'
    <3>1. /\ SetStatus(i, "OPEN") /\ evidence' = [evidence EXCEPT ![i] = TRUE]
          /\ UNCHANGED <<resolvedAt, profile, actionVars, lock, tasks, hostVars>>
      BY <2>3 DEF DiagnoseAutonomously
    <3>2. Move(i, Position("executeLock", i, NoAction, TRUE)) \/ VerifyAsIs(i)
      BY <2>3 DEF DiagnoseAutonomously
    <3>3. CASE Move(i, Position("executeLock", i, NoAction, TRUE))
      BY <3>1, <3>3
    <3>4. CASE VerifyAsIs(i)
      BY <3>1, <3>4 DEF VerifyAsIs
    <3> QED BY <3>2, <3>3, <3>4
  <2>4. CASE Execute(i)
    BY <2>4 DEF Execute
  <2>5. ASSUME NEW call \in Calls, RequestFromAgent(i, call) PROVE TypeInv'
    <3>1. CASE UNCHANGED <<status, actionVars>>
      BY <2>5, <3>1 DEF RequestFromAgent
    <3>2. ASSUME NEW a \in ActionIds, Propose(i, {a}, [b \in {a} |-> call])
          PROVE  TypeInv'
      <4>1. Exact(i, call) \in Proposals
        BY DEF Exact
      <4>2. /\ proposal' = [b \in ActionIds |-> IF b = a THEN Exact(i, call) ELSE proposal[b]]
            /\ approval' = [b \in ActionIds |-> IF b = a THEN "PENDING" ELSE approval[b]]
            /\ UNCHANGED <<verification, due>>
        BY <3>2 DEF Propose, Exact
      <4>3. /\ status' \in [Incidents -> Statuses]
            /\ worker' = [worker EXCEPT ![i] = At("done", i, NoAction)]
            /\ UNCHANGED <<evidence, resolvedAt, profile, lock, tasks, hostVars>>
        BY <2>5 DEF RequestFromAgent
      <4>4. proposal' \in [ActionIds -> Proposals \cup {NoOne}] /\ RowsComplete'
        BY <4>1, <4>2
      <4>5. approval' \in [ActionIds -> Approvals]
        BY <4>2
      <4> QED BY <4>2, <4>3, <4>4, <4>5
    <3> QED BY <2>5, <3>1, <3>2 DEF RequestFromAgent
  <2>6. ASSUME NEW s \in {"ESCALATED", "OPEN"}, Conclude(i, s) PROVE TypeInv'
    BY <2>6 DEF Conclude
  <2>7. CASE TaskFails(i)
    BY <2>7 DEF TaskFails
  <2>8. ASSUME NEW t \in Targets, AuthorizeAndClaim(i, t) PROVE TypeInv'
    <3>1. PICK a \in ActionIds : NextRows({a})
              /\ proposal' = [proposal EXCEPT ![a] = [inc |-> i, tool |-> "recover", target |-> t]]
              /\ approval' = [approval EXCEPT ![a] = "AUTO_AUTHORIZED"]
              /\ Move(i, At("claimed", i, a))
      BY <2>8 DEF AuthorizeAndClaim
    <3>2. [inc |-> i, tool |-> "recover", target |-> t] \in Proposals
      BY DEF Tools
    <3> QED BY <2>8, <3>1, <3>2 DEF AuthorizeAndClaim
  <2>9. ASSUME NEW schemaError \in BOOLEAN, AuthorizationRefused(i, schemaError) PROVE TypeInv'
    <3>1. CASE VerifyAsIs(i)
      BY <2>9, <3>1 DEF AuthorizationRefused, VerifyAsIs, Unlock
    <3>2. CASE Move(i, At("thinking", i, NoAction))
      BY <2>9, <3>2 DEF AuthorizationRefused, Unlock
    <3> QED BY <2>9, <3>1, <3>2 DEF AuthorizationRefused
  <2>10. CASE AutonomousWriteEnds(i)
    BY <2>10 DEF AutonomousWriteEnds
  <2>11. ASSUME NEW passed \in BOOLEAN, InspectionEnds(i, passed) PROVE TypeInv'
    BY <2>11 DEF InspectionEnds, Unlock
  <2>12. CASE RuntimeLimit(i)
    BY <2>12 DEF RuntimeLimit, Unlock
  <2>13. CASE TaskPopped(i)
    BY <2>13 DEF TaskPopped
  <2> HIDE DEF TypeInv
  <2> QED BY <1>3, <2>1, <2>2, <2>3, <2>4, <2>5, <2>6, <2>7, <2>8, <2>9, <2>10, <2>11,
         <2>12, <2>13
    DEF TaskStep, Decide, AutonomousStep
<1>4. ASSUME NEW a \in ActionIds, Land(a) \/ Elapse(a) PROVE TypeInv'
  <2> USE DEF TypeOK, RowsComplete, Placed, Workers, Positions, Unlocked, Locked, At, Position, Move, SetStatus,
    Statuses, Approvals, Verifications, Proposals, Calls, Idle, NoAction, incidentVars, actionVars, hostVars
  <2>1. CASE Land(a)
    BY <2>1 DEF Land
  <2>2. CASE Elapse(a)
    BY <2>2 DEF Elapse
  <2> HIDE DEF TypeInv
  <2> QED BY <1>4, <2>1, <2>2
<1>5. CASE Restart
  BY <1>5 DEF Restart, Interrupted, TypeOK, RowsComplete, Placed, Statuses, Workers, Positions, Unlocked,
    Idle, At, Position, NoAction, actionVars, hostVars
<1>6. CASE UNCHANGED vars
  BY <1>6 DEF vars, TypeOK, RowsComplete, Placed, incidentVars, actionVars, hostVars
<1> QED BY <1>1, <1>2, <1>3, <1>4, <1>5, <1>6 DEF Next

\* What every step keeps of the rows of the actions table: a decision is final,
\* a proposal never changes, and only an authorization makes a row autonomous.
RowsKept ==
  /\ \A a \in ActionIds :
       /\ approval[a] \notin {"ABSENT", "PENDING"} => approval'[a] = approval[a]
       /\ approval[a] # "ABSENT" => approval'[a] # "ABSENT" /\ proposal'[a] = proposal[a]
  /\ \/ \A a \in ActionIds : approval'[a] = "AUTO_AUTHORIZED" => approval[a] = "AUTO_AUTHORIZED"
     \/ \E i \in Incidents, t \in Targets : AuthorizeAndClaim(i, t)

\* No step gives a row to another incident or target, returns a decided action to
\* pending, or authorises an action without AuthorizeAndClaim.
LEMMA RowStep ==
  ASSUME TypeInv, [Next]_vars
  PROVE  RowsKept
<1> USE DEF TypeInv
<1>1. CASE OperatorStep
  <2> USE DEF TypeOK, RowsKept
  <2>1. ASSUME NEW i \in Incidents, ProposeOperation(i) PROVE RowsKept
    BY <2>1 DEF ProposeOperation, Propose, NextRows
  <2>2. ASSUME NEW a \in ActionIds, Reject(a) PROVE RowsKept
    BY <2>2 DEF Reject, actionVars
  <2>3. CASE \/ \E i \in Incidents : CreateIncident(i) \/ Investigate(i)
             \/ \E w \in Requests, a \in ActionIds : RequestApproval(w, a)
             \/ \E w \in Requests, i \in Incidents : RequestVerify(w, i)
             \/ \E i \in Incidents, p \in {"sound", "misfit", "missing"} : EditTopology(i, p)
    BY <2>3 DEF CreateIncident, Investigate, RequestApproval, RequestVerify, EditTopology,
         RowsKept, actionVars
  <2> HIDE DEF RowsKept
  <2> QED BY <1>1, <2>1, <2>2, <2>3
    DEF OperatorStep
<1>2. ASSUME NEW w \in Workers, Acquire(w) \/ ServiceStep(w) PROVE RowsKept
  <2> USE DEF TypeOK, RowsKept
  <2>1. CASE ApproveExpires(w)
    BY <2>1 DEF ApproveExpires
  <2>2. CASE ApproveClaims(w)
    BY <2>2 DEF ApproveClaims, Approvable
  <2>3. ASSUME NEW passed \in BOOLEAN, VerifyEnds(w, passed) PROVE RowsKept
    BY <2>3 DEF VerifyEnds, Retired, PendingOf
  <2>4. CASE \/ Acquire(w) \/ ApproveRefused(w) \/ Dispatch(w) \/ WriteConfirmed(w)
             \/ WriteUncertain(w) \/ VerifyRefused(w) \/ VerifyBlocked(w) \/ VerifyStarts(w)
             \/ Indexed(w)
    BY <2>4 DEF Acquire, ApproveRefused, Dispatch, WriteConfirmed, WriteUncertain,
         VerifyRefused, VerifyBlocked, VerifyStarts, Indexed, RowsKept, actionVars
  <2> HIDE DEF RowsKept
  <2> QED BY <1>2, <2>1, <2>2, <2>3, <2>4
    DEF ServiceStep
<1>3. ASSUME NEW i \in Incidents, TaskStep(i) PROVE RowsKept
  <2> USE DEF TypeOK, RowsKept
  <2>1. ASSUME NEW rejected \in BOOLEAN, DiagnoseForApproval(i, rejected) PROVE RowsKept
    BY <2>1 DEF DiagnoseForApproval, Propose, NextRows
  <2>2. ASSUME NEW call \in Calls, RequestFromAgent(i, call) PROVE RowsKept
    BY <2>2 DEF RequestFromAgent, Propose, NextRows, actionVars
  <2>3. ASSUME NEW t \in Targets, AuthorizeAndClaim(i, t) PROVE RowsKept
    BY <2>3 DEF AuthorizeAndClaim, NextRows
  <2>4. CASE \/ TaskStarts(i) \/ Execute(i) \/ TaskFails(i) \/ AutonomousWriteEnds(i)
             \/ RuntimeLimit(i) \/ TaskPopped(i)
             \/ \E remedy \in BOOLEAN : DiagnoseAutonomously(i, remedy)
             \/ \E s \in {"ESCALATED", "OPEN"} : Conclude(i, s)
             \/ \E schemaError \in BOOLEAN : AuthorizationRefused(i, schemaError)
             \/ \E passed \in BOOLEAN : InspectionEnds(i, passed)
    BY <2>4 DEF TaskStarts, DiagnoseAutonomously, Execute, Conclude, TaskFails,
         AuthorizationRefused, AutonomousWriteEnds, InspectionEnds, RuntimeLimit,
         TaskPopped, RowsKept, actionVars
  <2> HIDE DEF RowsKept
  <2> QED BY <1>3, <2>1, <2>2, <2>3, <2>4
    DEF TaskStep, Decide, AutonomousStep
<1>4. ASSUME NEW a \in ActionIds, Land(a) \/ Elapse(a) PROVE RowsKept
  BY <1>4 DEF Land, Elapse, RowsKept, actionVars
<1>5. CASE Restart
  BY <1>5 DEF Restart, RowsKept, actionVars
<1>6. CASE UNCHANGED vars
  BY <1>6 DEF vars, RowsKept, actionVars
<1> QED BY <1>1, <1>2, <1>3, <1>4, <1>5, <1>6 DEF Next


\* What a step does to the writes: one claim, one dispatch, or neither.
Claiming ==
  \/ /\ sent' = sent
     /\ \A w \in Workers : worker'[w].pc = "claimed" => worker'[w] = worker[w]
  \/ /\ sent' = sent
     /\ \E w \in Workers, i \in Incidents, a \in ActionIds :
          ~ Claimed(a) /\ Claimed(a)' /\ worker' = [worker EXCEPT ![w] = At("claimed", i, a)]
  \/ \E w \in Workers : Dispatch(w)

\* A coroutine only reaches its dispatch by claiming the action in that step.
LEMMA ClaimingStep ==
  ASSUME TypeInv, [Next]_vars
  PROVE  Claiming
<1> USE DEF TypeInv
<1>1. CASE OperatorStep
  <2>1. CASE \/ \E i \in Incidents : CreateIncident(i) \/ ProposeOperation(i) \/ Investigate(i)
             \/ \E a \in ActionIds : Reject(a)
             \/ \E w \in Requests, a \in ActionIds : RequestApproval(w, a)
             \/ \E w \in Requests, i \in Incidents : RequestVerify(w, i)
             \/ \E i \in Incidents, p \in {"sound", "misfit", "missing"} : EditTopology(i, p)
    BY <2>1 DEF CreateIncident, ProposeOperation, Investigate, Reject, RequestApproval,
         RequestVerify, EditTopology, TypeOK, Claiming, hostVars, Move, At, Position, Idle,
         Raised, Returned, VerifyAsIs, Waiting, Granted, Workers, Positions
  <2> HIDE DEF Claiming
  <2> QED BY <1>1, <2>1
    DEF OperatorStep
<1>2. ASSUME NEW w \in Workers, Acquire(w) \/ ServiceStep(w) PROVE Claiming
  <2>1. CASE Acquire(w)
    BY <2>1 DEF Acquire, Claiming, TypeOK, Placed, Waiting, Granted, Move, Position,
         Positions, hostVars
  <2>2. CASE ApproveClaims(w)
    BY <2>2 DEF ApproveClaims, Claiming, Claimed, Approvable, TypeOK, Placed, Move, hostVars
  <2>3. CASE Dispatch(w)
    BY <2>3 DEF Dispatch, Claiming
  <2>4. ASSUME NEW passed \in BOOLEAN, VerifyEnds(w, passed) PROVE Claiming
    BY <2>4 DEF VerifyEnds, Claiming, TypeOK, Move, At, Position, Returned, Idle, hostVars
  <2>5. CASE \/ ApproveExpires(w) \/ ApproveRefused(w) \/ WriteConfirmed(w)
             \/ WriteUncertain(w) \/ VerifyRefused(w) \/ VerifyBlocked(w) \/ VerifyStarts(w)
             \/ Indexed(w)
    BY <2>5 DEF ApproveExpires, ApproveRefused, WriteConfirmed, WriteUncertain,
         VerifyRefused, VerifyBlocked, VerifyStarts, Indexed, TypeOK, Claiming, hostVars,
         Move, At, Position, Idle, Raised, Returned, VerifyAsIs, Waiting, Granted, Workers,
         Positions
  <2> HIDE DEF Claiming
  <2> QED BY <1>2, <2>1, <2>2, <2>3, <2>4, <2>5
    DEF ServiceStep
<1>3. ASSUME NEW i \in Incidents, TaskStep(i) PROVE Claiming
  <2>1. ASSUME NEW t \in Targets, AuthorizeAndClaim(i, t) PROVE Claiming
    <3>1. PICK a \in ActionIds : NextRows({a})
              /\ approval' = [approval EXCEPT ![a] = "AUTO_AUTHORIZED"]
              /\ worker' = [worker EXCEPT ![i] = At("claimed", i, a)]
      BY <2>1 DEF AuthorizeAndClaim, Move
    <3>2. ~ Claimed(a) /\ Claimed(a)'
      BY <3>1 DEF NextRows, Claimed, TypeOK
    <3>3. sent' = sent /\ i \in Workers
      BY <2>1 DEF AuthorizeAndClaim, hostVars, Workers
    <3> QED BY <3>1, <3>2, <3>3 DEF Claiming
  <2>2. CASE \/ TaskStarts(i) \/ Execute(i) \/ TaskFails(i) \/ AutonomousWriteEnds(i)
             \/ RuntimeLimit(i) \/ TaskPopped(i)
             \/ \E rejected \in BOOLEAN : DiagnoseForApproval(i, rejected)
             \/ \E remedy \in BOOLEAN : DiagnoseAutonomously(i, remedy)
             \/ \E call \in Calls : RequestFromAgent(i, call)
             \/ \E s \in {"ESCALATED", "OPEN"} : Conclude(i, s)
             \/ \E schemaError \in BOOLEAN : AuthorizationRefused(i, schemaError)
             \/ \E passed \in BOOLEAN : InspectionEnds(i, passed)
    BY <2>2 DEF TaskStarts, DiagnoseForApproval, DiagnoseAutonomously, Execute,
         RequestFromAgent, Conclude, TaskFails, AuthorizationRefused, AutonomousWriteEnds,
         InspectionEnds, RuntimeLimit, TaskPopped, TypeOK, Claiming, hostVars, Move, At,
         Position, Idle, Raised, Returned, VerifyAsIs, Waiting, Granted, Workers, Positions
  <2> HIDE DEF Claiming
  <2> QED BY <1>3, <2>1, <2>2
    DEF TaskStep, Decide, AutonomousStep
<1>4. ASSUME NEW a \in ActionIds, Land(a) \/ Elapse(a) PROVE Claiming
  BY <1>4 DEF Land, Elapse, TypeOK, Claiming, hostVars, Move, At, Position, Idle, Raised,
       Returned, VerifyAsIs, Waiting, Granted, Workers, Positions
<1>5. CASE Restart
  BY <1>5 DEF Restart, Claiming, Idle, At, Position, hostVars
<1>6. CASE UNCHANGED vars
  BY <1>6 DEF vars, Claiming, hostVars
<1> QED BY <1>1, <1>2, <1>3, <1>4, <1>5, <1>6 DEF Next


\* What a step does to the locks: they stay with their holders, one is taken,
\* one is released, or all are lost.
LockSteps ==
  \/ /\ lock' = lock
     /\ \A w \in Workers : Holding(w)' => Holding(w) /\ worker'[w].inc = worker[w].inc
  \/ \E w \in Workers : Acquire(w)
  \/ \E w \in Workers :
       /\ Holding(w) /\ ~ Holding(w)' /\ Unlock(w)
       /\ \A v \in Workers \ {w} : worker'[v] = worker[v]
  \/ Restart

\* A step takes a free lock, keeps to its critical section, leaves it and frees
\* the lock, moves outside of it, or is a restart.
LEMMA LockStep ==
  ASSUME TypeInv, [Next]_vars
  PROVE  LockSteps
<1> USE WorkerAssumption DEF TypeInv
<1>1. CASE OperatorStep
  <2>1. CASE \/ \E i \in Incidents : CreateIncident(i) \/ ProposeOperation(i) \/ Investigate(i)
             \/ \E a \in ActionIds : Reject(a)
             \/ \E w \in Requests, a \in ActionIds : RequestApproval(w, a)
             \/ \E w \in Requests, i \in Incidents : RequestVerify(w, i)
             \/ \E i \in Incidents, p \in {"sound", "misfit", "missing"} : EditTopology(i, p)
    BY <2>1 DEF CreateIncident, ProposeOperation, Investigate, Reject, RequestApproval,
         RequestVerify, EditTopology, TypeOK, Placed, Holding, LockSteps, Locked, Move, At,
         Position, Idle, Workers, Positions, VerifyAsIs
  <2> HIDE DEF LockSteps
  <2> QED BY <1>1, <2>1
    DEF OperatorStep
<1>2. ASSUME NEW w \in Workers, Acquire(w) \/ ServiceStep(w) PROVE LockSteps
  <2>1. CASE Acquire(w)
    BY <2>1 DEF Acquire, LockSteps
  <2>2. CASE ApproveExpires(w)
    BY <2>2 DEF ApproveExpires, TypeOK, Placed, Holding, LockSteps, Locked, Move, At,
         Position, Idle, Workers, Positions, Unlock, Unlocked, Returned, Raised, VerifyAsIs
  <2>3. CASE ApproveRefused(w)
    BY <2>3 DEF ApproveRefused, TypeOK, Placed, Holding, LockSteps, Locked, Move, At,
         Position, Idle, Workers, Positions, Unlock, Unlocked, Returned, Raised, VerifyAsIs
  <2>4. CASE ApproveClaims(w)
    BY <2>4 DEF ApproveClaims, TypeOK, Placed, Holding, LockSteps, Locked, Move, At,
         Position, Idle, Workers, Positions
  <2>5. CASE Dispatch(w)
    BY <2>5 DEF Dispatch, TypeOK, Placed, Holding, LockSteps, Locked, Move, At, Position,
         Idle, Workers, Positions
  <2>6. CASE WriteConfirmed(w)
    BY <2>6 DEF WriteConfirmed, TypeOK, Placed, Holding, LockSteps, Locked, Move, At,
         Position, Idle, Workers, Positions
  <2>7. CASE WriteUncertain(w)
    BY <2>7 DEF WriteUncertain, TypeOK, Placed, Holding, LockSteps, Locked, Move, At,
         Position, Idle, Workers, Positions, Unlock, Unlocked, Returned, Raised, VerifyAsIs
  <2>8. CASE VerifyRefused(w)
    BY <2>8 DEF VerifyRefused, TypeOK, Placed, Holding, LockSteps, Locked, Move, At,
         Position, Idle, Workers, Positions, Unlock, Unlocked, Returned, Raised, VerifyAsIs
  <2>9. CASE VerifyBlocked(w)
    BY <2>9 DEF VerifyBlocked, TypeOK, Placed, Holding, LockSteps, Locked, Move, At,
         Position, Idle, Workers, Positions, Unlock, Unlocked, Returned, Raised, VerifyAsIs
  <2>10. CASE VerifyStarts(w)
    BY <2>10 DEF VerifyStarts, TypeOK, Placed, Holding, LockSteps, Locked, Move, At,
         Position, Idle, Workers, Positions
  <2>11. ASSUME NEW passed \in BOOLEAN, VerifyEnds(w, passed) PROVE LockSteps
    <3>1. Holding(w) /\ w \in DOMAIN worker
      BY <2>11 DEF VerifyEnds, Holding, Locked, TypeOK
    <3>2. CASE Unlock(w) /\ Move(w, Returned(w))
      BY <3>1, <3>2 DEF LockSteps, Move, Holding, Locked, Returned, Idle, At, Position
    <3>3. CASE Move(w, At("indexing", worker[w].inc, worker[w].act)) /\ UNCHANGED lock
      BY <3>1, <3>3 DEF LockSteps, Move, Holding, At, Position, TypeOK
    <3> QED BY <2>11, <3>2, <3>3 DEF VerifyEnds
  <2>12. CASE Indexed(w)
    BY <2>12 DEF Indexed, TypeOK, Placed, Holding, LockSteps, Locked, Move, At, Position,
         Idle, Workers, Positions, Unlock, Unlocked, Returned, Raised, VerifyAsIs
  <2> HIDE DEF LockSteps
  <2> QED BY <1>2, <2>1, <2>2, <2>3, <2>4, <2>5, <2>6, <2>7, <2>8, <2>9, <2>10, <2>11, <2>12
    DEF ServiceStep
<1>3. ASSUME NEW i \in Incidents, TaskStep(i) PROVE LockSteps
  <2>1. CASE TaskStarts(i)
    <3>1. Move(i, At("done", i, NoAction)) \/ Move(i, At("thinking", i, NoAction))
      BY <2>1 DEF TaskStarts
    <3>2. lock' = lock
      BY <2>1 DEF TaskStarts
    <3>3. ~ Holding(i)' /\ \A v \in Workers \ {i} : worker'[v] = worker[v]
      BY <3>1 DEF TypeOK, Workers, Move, Holding, Locked, At, Position
    <3> QED BY <3>2, <3>3 DEF LockSteps, Holding
  <2>2. ASSUME NEW rejected \in BOOLEAN, DiagnoseForApproval(i, rejected) PROVE LockSteps
    BY <2>2 DEF DiagnoseForApproval, TypeOK, Placed, Holding, LockSteps, Locked, Move, At,
         Position, Idle, Workers, Positions
  <2>3. ASSUME NEW remedy \in BOOLEAN, DiagnoseAutonomously(i, remedy) PROVE LockSteps
    BY <2>3 DEF DiagnoseAutonomously, TypeOK, Placed, Holding, LockSteps, Locked, Move, At,
         Position, Idle, Workers, Positions, VerifyAsIs
  <2>4. CASE Execute(i)
    BY <2>4 DEF Execute, TypeOK, Placed, Holding, LockSteps, Locked, Move, At, Position,
         Idle, Workers, Positions
  <2>5. ASSUME NEW call \in Calls, RequestFromAgent(i, call) PROVE LockSteps
    BY <2>5 DEF RequestFromAgent, TypeOK, Placed, Holding, LockSteps, Locked, Move, At,
         Position, Idle, Workers, Positions
  <2>6. ASSUME NEW s \in {"ESCALATED", "OPEN"}, Conclude(i, s) PROVE LockSteps
    BY <2>6 DEF Conclude, TypeOK, Placed, Holding, LockSteps, Locked, Move, At, Position,
         Idle, Workers, Positions
  <2>7. CASE TaskFails(i)
    BY <2>7 DEF TaskFails, TypeOK, Placed, Holding, LockSteps, Locked, Move, At, Position,
         Idle, Workers, Positions
  <2>8. ASSUME NEW t \in Targets, AuthorizeAndClaim(i, t) PROVE LockSteps
    BY <2>8 DEF AuthorizeAndClaim, TypeOK, Placed, Holding, LockSteps, Locked, Move, At,
         Position, Idle, Workers, Positions
  <2>9. ASSUME NEW schemaError \in BOOLEAN, AuthorizationRefused(i, schemaError) PROVE LockSteps
    <3>1. Holding(i) /\ i \in DOMAIN worker /\ i \in Workers /\ Unlock(i)
      BY <2>9 DEF AuthorizationRefused, Holding, Locked, TypeOK, Workers
    <3>2. CASE VerifyAsIs(i)
      BY <3>1, <3>2 DEF LockSteps, Move, Holding, Locked, VerifyAsIs, At, Position
    <3>3. CASE Move(i, At("thinking", i, NoAction))
      BY <3>1, <3>3 DEF LockSteps, Move, Holding, Locked, At, Position
    <3> QED BY <2>9, <3>2, <3>3 DEF AuthorizationRefused
  <2>10. CASE AutonomousWriteEnds(i)
    BY <2>10 DEF AutonomousWriteEnds, TypeOK, Placed, Holding, LockSteps, Locked, Move, At,
         Position, Idle, Workers, Positions
  <2>11. ASSUME NEW passed \in BOOLEAN, InspectionEnds(i, passed) PROVE LockSteps
    BY <2>11 DEF InspectionEnds, TypeOK, Placed, Holding, LockSteps, Locked, Move, At,
         Position, Idle, Workers, Positions, Unlock, Unlocked, Returned, Raised, VerifyAsIs
  <2>12. CASE RuntimeLimit(i)
    BY <2>12 DEF RuntimeLimit, TypeOK, Placed, Holding, LockSteps, Locked, Move, At,
         Position, Idle, Workers, Positions, Unlock, Unlocked, Returned, Raised, VerifyAsIs
  <2>13. CASE TaskPopped(i)
    BY <2>13 DEF TaskPopped, TypeOK, Placed, Holding, LockSteps, Locked, Move, At, Position,
         Idle, Workers, Positions
  <2> HIDE DEF LockSteps
  <2> QED BY <1>3, <2>1, <2>2, <2>3, <2>4, <2>5, <2>6, <2>7, <2>8, <2>9, <2>10, <2>11,
         <2>12, <2>13
    DEF TaskStep, Decide, AutonomousStep
<1>4. ASSUME NEW a \in ActionIds, Land(a) \/ Elapse(a) PROVE LockSteps
  BY <1>4 DEF Land, Elapse, TypeOK, Placed, Holding, LockSteps, Locked, Move, At, Position,
       Idle, Workers, Positions, VerifyAsIs
<1>5. CASE Restart
  BY <1>5 DEF LockSteps
<1>6. CASE UNCHANGED vars
  BY <1>6 DEF vars, LockSteps, Holding
<1> QED BY <1>1, <1>2, <1>3, <1>4, <1>5, <1>6 DEF Next


\* A step adds an investigation to the live ones only when there is room.
LiveSteps ==
  \/ Live' \subseteq Live
  \/ SlotFree /\ \E i \in Incidents : Live' \subseteq Live \cup {i}

\* Only an investigation started on a free slot makes another task live.
LEMMA LiveStep ==
  ASSUME TypeInv, [Next]_vars
  PROVE  LiveSteps
<1> USE WorkerAssumption DEF TypeInv
<1>1. CASE OperatorStep
  <2>1. ASSUME NEW i \in Incidents, Investigate(i) PROVE LiveSteps
    BY <2>1 DEF Investigate, LiveSteps, Live, TypeOK, Move, Workers
  <2>2. CASE \/ \E i \in Incidents : CreateIncident(i) \/ ProposeOperation(i)
             \/ \E a \in ActionIds : Reject(a)
             \/ \E w \in Requests, a \in ActionIds : RequestApproval(w, a)
             \/ \E w \in Requests, i \in Incidents : RequestVerify(w, i)
             \/ \E i \in Incidents, p \in {"sound", "misfit", "missing"} : EditTopology(i, p)
    BY <2>2 DEF CreateIncident, ProposeOperation, Reject, RequestApproval, RequestVerify,
         EditTopology, TypeOK, Placed, Live, LiveSteps, Move, At, Position, Idle, Workers,
         Positions, VerifyAsIs, Returned, Raised
  <2> HIDE DEF LiveSteps
  <2> QED BY <1>1, <2>1, <2>2
    DEF OperatorStep
<1>2. ASSUME NEW w \in Workers, Acquire(w) \/ ServiceStep(w) PROVE LiveSteps
  <2>1. CASE Acquire(w)
    <3>1. worker[w].pc # "done" /\ tasks' = tasks
      BY <2>1 DEF Acquire, Waiting
    <3>2. \A v \in Workers : v # w => worker'[v] = worker[v]
      BY <2>1 DEF Acquire, Move, TypeOK
    <3> QED BY <3>1, <3>2 DEF LiveSteps, Live, TypeOK, Workers
  <2>2. CASE ApproveExpires(w)
    BY <2>2 DEF ApproveExpires, TypeOK, Placed, Live, LiveSteps, Move, At, Position, Idle,
         Workers, Positions, VerifyAsIs, Returned, Raised
  <2>3. CASE ApproveRefused(w)
    BY <2>3 DEF ApproveRefused, TypeOK, Placed, Live, LiveSteps, Move, At, Position, Idle,
         Workers, Positions, VerifyAsIs, Returned, Raised
  <2>4. CASE ApproveClaims(w)
    BY <2>4 DEF ApproveClaims, TypeOK, Placed, Live, LiveSteps, Move, At, Position, Idle,
         Workers, Positions, VerifyAsIs, Returned, Raised
  <2>5. CASE Dispatch(w)
    BY <2>5 DEF Dispatch, TypeOK, Placed, Live, LiveSteps, Move, At, Position, Idle,
         Workers, Positions, VerifyAsIs, Returned, Raised
  <2>6. CASE WriteConfirmed(w)
    BY <2>6 DEF WriteConfirmed, TypeOK, Placed, Live, LiveSteps, Move, At, Position, Idle,
         Workers, Positions, VerifyAsIs, Returned, Raised
  <2>7. CASE WriteUncertain(w)
    BY <2>7 DEF WriteUncertain, TypeOK, Placed, Live, LiveSteps, Move, At, Position, Idle,
         Workers, Positions, VerifyAsIs, Returned, Raised
  <2>8. CASE VerifyRefused(w)
    BY <2>8 DEF VerifyRefused, TypeOK, Placed, Live, LiveSteps, Move, At, Position, Idle,
         Workers, Positions, VerifyAsIs, Returned, Raised
  <2>9. CASE VerifyBlocked(w)
    BY <2>9 DEF VerifyBlocked, TypeOK, Placed, Live, LiveSteps, Move, At, Position, Idle,
         Workers, Positions, VerifyAsIs, Returned, Raised
  <2>10. CASE VerifyStarts(w)
    BY <2>10 DEF VerifyStarts, TypeOK, Placed, Live, LiveSteps, Move, At, Position, Idle,
         Workers, Positions, VerifyAsIs, Returned, Raised
  <2>11. ASSUME NEW passed \in BOOLEAN, VerifyEnds(w, passed) PROVE LiveSteps
    BY <2>11 DEF VerifyEnds, TypeOK, Placed, Live, LiveSteps, Move, At, Position, Idle,
         Workers, Positions, VerifyAsIs, Returned, Raised
  <2>12. CASE Indexed(w)
    BY <2>12 DEF Indexed, TypeOK, Placed, Live, LiveSteps, Move, At, Position, Idle,
         Workers, Positions, VerifyAsIs, Returned, Raised
  <2> HIDE DEF LiveSteps
  <2> QED BY <1>2, <2>1, <2>2, <2>3, <2>4, <2>5, <2>6, <2>7, <2>8, <2>9, <2>10, <2>11, <2>12
    DEF ServiceStep
<1>3. ASSUME NEW i \in Incidents, TaskStep(i) PROVE LiveSteps
  <2>1. CASE TaskStarts(i)
    BY <2>1 DEF TaskStarts, TypeOK, Placed, Live, LiveSteps, Move, At, Position, Idle,
         Workers, Positions, VerifyAsIs, Returned, Raised
  <2>2. ASSUME NEW rejected \in BOOLEAN, DiagnoseForApproval(i, rejected) PROVE LiveSteps
    BY <2>2 DEF DiagnoseForApproval, TypeOK, Placed, Live, LiveSteps, Move, At, Position,
         Idle, Workers, Positions, VerifyAsIs, Returned, Raised
  <2>3. ASSUME NEW remedy \in BOOLEAN, DiagnoseAutonomously(i, remedy) PROVE LiveSteps
    BY <2>3 DEF DiagnoseAutonomously, TypeOK, Placed, Live, LiveSteps, Move, At, Position,
         Idle, Workers, Positions, VerifyAsIs, Returned, Raised
  <2>4. CASE Execute(i)
    BY <2>4 DEF Execute, TypeOK, Placed, Live, LiveSteps, Move, At, Position, Idle, Workers,
         Positions, VerifyAsIs, Returned, Raised
  <2>5. ASSUME NEW call \in Calls, RequestFromAgent(i, call) PROVE LiveSteps
    BY <2>5 DEF RequestFromAgent, TypeOK, Placed, Live, LiveSteps, Move, At, Position, Idle,
         Workers, Positions, VerifyAsIs, Returned, Raised
  <2>6. ASSUME NEW s \in {"ESCALATED", "OPEN"}, Conclude(i, s) PROVE LiveSteps
    BY <2>6 DEF Conclude, TypeOK, Placed, Live, LiveSteps, Move, At, Position, Idle,
         Workers, Positions, VerifyAsIs, Returned, Raised
  <2>7. CASE TaskFails(i)
    BY <2>7 DEF TaskFails, TypeOK, Placed, Live, LiveSteps, Move, At, Position, Idle,
         Workers, Positions, VerifyAsIs, Returned, Raised
  <2>8. ASSUME NEW t \in Targets, AuthorizeAndClaim(i, t) PROVE LiveSteps
    BY <2>8 DEF AuthorizeAndClaim, TypeOK, Placed, Live, LiveSteps, Move, At, Position,
         Idle, Workers, Positions, VerifyAsIs, Returned, Raised
  <2>9. ASSUME NEW schemaError \in BOOLEAN, AuthorizationRefused(i, schemaError) PROVE LiveSteps
    BY <2>9 DEF AuthorizationRefused, TypeOK, Placed, Live, LiveSteps, Move, At, Position,
         Idle, Workers, Positions, VerifyAsIs, Returned, Raised
  <2>10. CASE AutonomousWriteEnds(i)
    BY <2>10 DEF AutonomousWriteEnds, TypeOK, Placed, Live, LiveSteps, Move, At, Position,
         Idle, Workers, Positions, VerifyAsIs, Returned, Raised
  <2>11. ASSUME NEW passed \in BOOLEAN, InspectionEnds(i, passed) PROVE LiveSteps
    BY <2>11 DEF InspectionEnds, TypeOK, Placed, Live, LiveSteps, Move, At, Position, Idle,
         Workers, Positions, VerifyAsIs, Returned, Raised
  <2>12. CASE RuntimeLimit(i)
    BY <2>12 DEF RuntimeLimit, TypeOK, Placed, Live, LiveSteps, Move, At, Position, Idle,
         Workers, Positions, VerifyAsIs, Returned, Raised
  <2>13. CASE TaskPopped(i)
    BY <2>13 DEF TaskPopped, TypeOK, Placed, Live, LiveSteps, Move, At, Position, Idle,
         Workers, Positions, VerifyAsIs, Returned, Raised
  <2> HIDE DEF LiveSteps
  <2> QED BY <1>3, <2>1, <2>2, <2>3, <2>4, <2>5, <2>6, <2>7, <2>8, <2>9, <2>10, <2>11,
         <2>12, <2>13
    DEF TaskStep, Decide, AutonomousStep
<1>4. ASSUME NEW a \in ActionIds, Land(a) \/ Elapse(a) PROVE LiveSteps
  BY <1>4 DEF Land, Elapse, TypeOK, Placed, Live, LiveSteps, Move, At, Position, Idle,
       Workers, Positions, VerifyAsIs, Returned, Raised
<1>5. CASE Restart
  BY <1>5 DEF Restart, LiveSteps, Live
<1>6. CASE UNCHANGED vars
  BY <1>6 DEF vars, LiveSteps, Live
<1> QED BY <1>1, <1>2, <1>3, <1>4, <1>5, <1>6 DEF Next


\* What a step does to the statuses: only a verification that passed resolves an
\* incident, and an incident that gets a proposal waits for approval.
StatusSteps ==
  /\ \A i \in Incidents : status'[i] = "RESOLVED" /\ status[i] # "RESOLVED" =>
       \E w \in Workers : VerifyEnds(w, TRUE) /\ worker[w].inc = i
  /\ \A a \in ActionIds : approval'[a] = "PENDING" /\ approval[a] # "PENDING" =>
       status'[proposal'[a].inc] = "WAITING_FOR_APPROVAL"

\* A step that writes proposals of an incident makes it wait for approval.
LEMMA ProposingStatus ==
  ASSUME TypeOK, NEW i \in Incidents, NEW N \in SUBSET ActionIds, NEW call \in [N -> Calls],
         Propose(i, N, call), SetStatus(i, AfterProposing(N, "OPEN"))
  PROVE  StatusSteps
<1>1. \A a \in N : proposal'[a].inc = i
  BY DEF Propose, Exact
<1>2. \A a \in ActionIds : approval'[a] = "PENDING" /\ approval[a] # "PENDING" => a \in N
  BY DEF Propose
<1>3. N # {} => status'[i] = "WAITING_FOR_APPROVAL"
  BY DEF SetStatus, AfterProposing, TypeOK
<1>4. \A j \in Incidents : status'[j] = "RESOLVED" => status[j] = "RESOLVED"
  BY DEF SetStatus, AfterProposing, TypeOK
<1> QED BY <1>1, <1>2, <1>3, <1>4 DEF StatusSteps

\* An incident is resolved only together with the retirement of its pending
\* proposals, and a proposal only appears with its incident waiting for approval.
LEMMA StatusStep ==
  ASSUME TypeInv, [Next]_vars
  PROVE  StatusSteps
<1> USE DEF TypeInv
<1>1. CASE OperatorStep
  <2>1. ASSUME NEW i \in Incidents, ProposeOperation(i) PROVE StatusSteps
    BY <2>1, ProposingStatus DEF ProposeOperation, incidentVars
  <2>2. ASSUME NEW a \in ActionIds, Reject(a) PROVE StatusSteps
    BY <2>2 DEF Reject, TypeOK, StatusSteps, SetStatus, actionVars, incidentVars
  <2>3. CASE \/ \E i \in Incidents : CreateIncident(i) \/ Investigate(i)
             \/ \E w \in Requests, a \in ActionIds : RequestApproval(w, a)
             \/ \E w \in Requests, i \in Incidents : RequestVerify(w, i)
             \/ \E i \in Incidents, p \in {"sound", "misfit", "missing"} : EditTopology(i, p)
    BY <2>3 DEF CreateIncident, Investigate, RequestApproval, RequestVerify, EditTopology,
         TypeOK, StatusSteps, SetStatus, actionVars, incidentVars
  <2> HIDE DEF StatusSteps
  <2> QED BY <1>1, <2>1, <2>2, <2>3
    DEF OperatorStep
<1>2. ASSUME NEW w \in Workers, Acquire(w) \/ ServiceStep(w) PROVE StatusSteps
  <2>1. CASE ApproveExpires(w)
    BY <2>1 DEF ApproveExpires, TypeOK, StatusSteps, SetStatus, actionVars, incidentVars
  <2>2. CASE ApproveClaims(w)
    BY <2>2 DEF ApproveClaims, TypeOK, StatusSteps, SetStatus, actionVars, incidentVars
  <2>3. ASSUME NEW passed \in BOOLEAN, VerifyEnds(w, passed) PROVE StatusSteps
    BY <2>3 DEF VerifyEnds, TypeOK, StatusSteps, SetStatus, actionVars, incidentVars,
         Verdict, Retired
  <2>4. CASE \/ Acquire(w) \/ ApproveRefused(w) \/ Dispatch(w) \/ WriteConfirmed(w)
             \/ WriteUncertain(w) \/ VerifyRefused(w) \/ VerifyBlocked(w) \/ VerifyStarts(w)
             \/ Indexed(w)
    BY <2>4 DEF Acquire, ApproveRefused, Dispatch, WriteConfirmed, WriteUncertain,
         VerifyRefused, VerifyBlocked, VerifyStarts, Indexed, TypeOK, StatusSteps,
         SetStatus, actionVars, incidentVars
  <2> HIDE DEF StatusSteps
  <2> QED BY <1>2, <2>1, <2>2, <2>3, <2>4
    DEF ServiceStep
<1>3. ASSUME NEW i \in Incidents, TaskStep(i) PROVE StatusSteps
  <2>1. ASSUME NEW rejected \in BOOLEAN, DiagnoseForApproval(i, rejected) PROVE StatusSteps
    BY <2>1, ProposingStatus DEF DiagnoseForApproval, incidentVars
  <2>2. ASSUME NEW call \in Calls, RequestFromAgent(i, call) PROVE StatusSteps
    <3>1. CASE UNCHANGED <<status, actionVars>>
      BY <3>1 DEF StatusSteps, actionVars
    <3>2. ASSUME NEW a \in ActionIds, Propose(i, {a}, [b \in {a} |-> call]),
                 SetStatus(i, "WAITING_FOR_APPROVAL")
          PROVE  StatusSteps
      BY <3>2, ProposingStatus DEF AfterProposing
    <3> QED BY <2>2, <3>1, <3>2 DEF RequestFromAgent
  <2>3. ASSUME NEW t \in Targets, AuthorizeAndClaim(i, t) PROVE StatusSteps
    BY <2>3 DEF AuthorizeAndClaim, TypeOK, StatusSteps, SetStatus, actionVars, incidentVars
  <2>4. CASE \/ TaskStarts(i) \/ Execute(i) \/ TaskFails(i) \/ AutonomousWriteEnds(i)
             \/ RuntimeLimit(i) \/ TaskPopped(i)
             \/ \E remedy \in BOOLEAN : DiagnoseAutonomously(i, remedy)
             \/ \E s \in {"ESCALATED", "OPEN"} : Conclude(i, s)
             \/ \E schemaError \in BOOLEAN : AuthorizationRefused(i, schemaError)
             \/ \E passed \in BOOLEAN : InspectionEnds(i, passed)
    BY <2>4 DEF TaskStarts, DiagnoseAutonomously, Execute, Conclude, TaskFails,
         AuthorizationRefused, AutonomousWriteEnds, InspectionEnds, RuntimeLimit,
         TaskPopped, TypeOK, StatusSteps, SetStatus, actionVars, incidentVars
  <2> HIDE DEF StatusSteps
  <2> QED BY <1>3, <2>1, <2>2, <2>3, <2>4
    DEF TaskStep, Decide, AutonomousStep
<1>4. ASSUME NEW a \in ActionIds, Land(a) \/ Elapse(a) PROVE StatusSteps
  BY <1>4 DEF Land, Elapse, TypeOK, StatusSteps, SetStatus, actionVars, incidentVars
<1>5. CASE Restart
  BY <1>5 DEF Restart, Interrupted, StatusSteps, actionVars, TypeOK
<1>6. CASE UNCHANGED vars
  BY <1>6 DEF vars, StatusSteps, incidentVars, actionVars
<1> QED BY <1>1, <1>2, <1>3, <1>4, <1>5, <1>6 DEF Next

-----------------------------------------------------------------------------
\* The empty database satisfies the invariant.
LEMMA TypeInit == Init => TypeInv
<1> SUFFICES ASSUME Init PROVE TypeInv
  OBVIOUS
<1>1. Idle \in Positions
  BY DEF Idle, At, Position, Positions, Unlocked
<1>2. profile \in [Incidents -> {"sound", "misfit", "missing"}]
  BY SettingAssumption DEF Init
<1>3. TypeOK
  BY <1>1, <1>2 DEF Init, TypeOK, Statuses, Approvals, Verifications
<1>4. RowsComplete
  BY DEF Init, RowsComplete
<1>5. Placed
  BY DEF Init, Placed, Idle, At, Position
<1> QED BY <1>3, <1>4, <1>5 DEF TypeInv

\* The basis of every theorem below.
LEMMA TypeInvariance == Spec => []TypeInv
<1>1. Init => TypeInv
  BY TypeInit
<1>2. TypeInv /\ [Next]_vars => TypeInv'
  BY TypeStep
<1> QED BY <1>1, <1>2, PTL DEF Spec

\* The columns of the incidents and actions tables, the coroutines, the locks and
\* the task dictionary only ever hold values of their types.
THEOREM Typing == Spec => []TypeOK
<1>1. TypeInv => TypeOK
  BY DEF TypeInv
<1> QED BY <1>1, TypeInvariance, PTL

-----------------------------------------------------------------------------
\* SentOnceAfterClaim is not inductive: between the claim and the dispatch the
\* write must not have been sent, and no two coroutines may hold one claim.
ClaimsDistinct ==
  /\ \A w \in Workers : worker[w].pc = "claimed" =>
       Claimed(worker[w].act) /\ sent[worker[w].act] = 0
  /\ \A v, w \in Workers :
       v # w /\ worker[v].pc = "claimed" /\ worker[w].pc = "claimed" =>
         worker[v].act # worker[w].act

\* What has been sent, and who may still send.
SendInv == SentOnceAfterClaim /\ ClaimsDistinct

\* Every step keeps the send counters and the claims in agreement.
LEMMA SendStep ==
  ASSUME TypeInv, TypeInv', SendInv, [Next]_vars
  PROVE  SendInv'
<1> USE DEF TypeInv
<1>1. \A a \in ActionIds : Claimed(a) => Claimed(a)'
  BY RowStep DEF RowsKept, Claimed
<1>2. \A w \in Workers : worker[w].pc = "claimed" => worker[w].act \in ActionIds
  BY DEF Placed
<1>3. CASE /\ sent' = sent
           /\ \A w \in Workers : worker'[w].pc = "claimed" => worker'[w] = worker[w]
  BY <1>1, <1>2, <1>3 DEF SendInv, SentOnceAfterClaim, ClaimsDistinct
<1>4. ASSUME sent' = sent,
             NEW w \in Workers, NEW i \in Incidents, NEW a \in ActionIds,
             ~ Claimed(a), Claimed(a)', worker' = [worker EXCEPT ![w] = At("claimed", i, a)]
      PROVE  SendInv'
  <2>1. sent[a] = 0
    BY <1>4 DEF SendInv, SentOnceAfterClaim, TypeOK
  <2>2. worker'[w].act = a /\ \A v \in Workers : v # w => worker'[v] = worker[v]
    BY <1>4 DEF TypeOK, At, Position
  <2>3. \A v \in Workers : worker[v].pc = "claimed" => worker[v].act # a
    BY <1>4 DEF SendInv, ClaimsDistinct
  <2>4. SentOnceAfterClaim'
    BY <1>1, <1>4 DEF SendInv, SentOnceAfterClaim
  <2>5. ClaimsDistinct'
    BY <1>1, <1>2, <1>4, <2>1, <2>2, <2>3 DEF SendInv, ClaimsDistinct
  <2> QED BY <2>4, <2>5 DEF SendInv
<1>5. ASSUME NEW w \in Workers, Dispatch(w)
      PROVE  SendInv'
  <2>1. worker[w].pc = "claimed" /\ worker[w].act \in ActionIds /\ sent[worker[w].act] = 0
    BY <1>2, <1>5 DEF Dispatch, SendInv, ClaimsDistinct
  <2>2. sent'[worker[w].act] = 1 /\ \A a \in ActionIds : a # worker[w].act => sent'[a] = sent[a]
    BY <1>5, <2>1 DEF Dispatch, TypeOK
  <2>3. worker'[w].pc = "writing" /\ \A v \in Workers : v # w => worker'[v] = worker[v]
    BY <1>5 DEF Dispatch, Move, At, Position, TypeOK
  <2>4. SentOnceAfterClaim'
    BY <1>1, <2>1, <2>2 DEF SendInv, SentOnceAfterClaim, ClaimsDistinct
  <2>5. ClaimsDistinct'
    BY <1>1, <1>2, <2>1, <2>2, <2>3 DEF SendInv, ClaimsDistinct
  <2> QED BY <2>4, <2>5 DEF SendInv
<1> QED BY <1>3, <1>4, <1>5, ClaimingStep DEF Claiming

\* Whatever the operators, the model and the host do, for any number of
\* incidents, requests and actions: a signed write is sent at most once, and only
\* after its claim was committed.
THEOREM WritesSentOnce == Spec => []SentOnceAfterClaim
<1>1. Init => SendInv
  BY DEF Init, SendInv, SentOnceAfterClaim, ClaimsDistinct, Idle, At, Position
<1>2. TypeInv /\ TypeInv' /\ SendInv /\ [Next]_vars => SendInv'
  BY SendStep
<1>3. SendInv => SentOnceAfterClaim
  BY DEF SendInv
<1> QED BY <1>1, <1>2, <1>3, TypeInvariance, PTL DEF Spec

-----------------------------------------------------------------------------
\* The lock of an incident names the one coroutine in a critical section of it.
LockHeld == \A w \in Workers : Holding(w) => lock[worker[w].inc] = w

\* Every step keeps the lock with the coroutine in its critical section.
LEMMA LockHeldStep ==
  ASSUME TypeInv, TypeInv', LockHeld, [Next]_vars
  PROVE  LockHeld'
<1> USE DEF TypeInv
<1>1. \A w \in Workers : Holding(w) => worker[w].inc \in Incidents
  BY DEF Holding, Locked, Placed
<1>2. CASE /\ lock' = lock
           /\ \A w \in Workers : Holding(w)' => Holding(w) /\ worker'[w].inc = worker[w].inc
  BY <1>2 DEF LockHeld
<1>3. ASSUME NEW w \in Workers, Acquire(w)
      PROVE  LockHeld'
  <2>1. worker[w].inc \in Incidents /\ lock[worker[w].inc] = NoOne
    BY <1>3 DEF Acquire, Waiting, LockFree, Placed
  <2>2. lock' = [lock EXCEPT ![worker[w].inc] = w]
    BY <1>3 DEF Acquire
  <2>3. worker'[w].inc = worker[w].inc /\ \A v \in Workers : v # w => worker'[v] = worker[v]
    BY <1>3 DEF Acquire, Move, Position, TypeOK
  <2>4. \A v \in Workers : Holding(v) => worker[v].inc # worker[w].inc
    BY <2>1, WorkerAssumption DEF LockHeld
  <2> QED BY <1>1, <2>1, <2>2, <2>3, <2>4 DEF LockHeld, TypeOK, Holding
<1>4. ASSUME NEW w \in Workers, Holding(w), ~ Holding(w)', Unlock(w),
             \A v \in Workers \ {w} : worker'[v] = worker[v]
      PROVE  LockHeld'
  <2>1. \A v \in Workers \ {w} : Holding(v) => worker[v].inc # worker[w].inc
    BY <1>4 DEF LockHeld
  <2> QED BY <1>1, <1>4, <2>1 DEF LockHeld, Unlock, TypeOK, Holding
<1>5. CASE Restart
  BY <1>5 DEF Restart, LockHeld, Holding, Locked, Idle, At, Position
<1> QED BY <1>2, <1>3, <1>4, <1>5, LockStep DEF LockSteps

\* Holding the lock is invariant from the start.
LEMMA LockInvariance == Spec => []LockHeld
<1>1. Init => LockHeld
  BY DEF Init, LockHeld, Holding, Locked, Idle, At, Position
<1>2. TypeInv /\ TypeInv' /\ LockHeld /\ [Next]_vars => LockHeld'
  BY LockHeldStep
<1> QED BY <1>1, <1>2, TypeInvariance, PTL DEF Spec

\* Two coroutines are never in the critical section of one incident, also after
\* refusals, timeouts, cancellations and restarts.
THEOREM MutualExclusion == Spec => []OneServiceCallPerIncident
<1>1. LockHeld => OneServiceCallPerIncident
  BY DEF LockHeld, OneServiceCallPerIncident
<1> QED BY <1>1, LockInvariance, PTL

\* No incident is resolved while a write for it is between its claim and its
\* answer.
THEOREM ResolutionAfterWrites == Spec => ResolvedAfterWrites
<1> DEFINE Quiet ==
      \A i \in Incidents :
        status'[i] = "RESOLVED" /\ status[i] # "RESOLVED" =>
          \A w \in Workers : worker[w].pc \in {"claimed", "writing", "inspecting"} =>
            worker[w].inc # i
<1>1. ASSUME TypeInv, LockHeld, [Next]_vars PROVE Quiet
  <2> SUFFICES ASSUME NEW i \in Incidents, status'[i] = "RESOLVED", status[i] # "RESOLVED",
                      NEW w \in Workers, worker[w].pc \in {"claimed", "writing", "inspecting"}
               PROVE  worker[w].inc # i
    OBVIOUS
  <2>1. PICK v \in Workers : VerifyEnds(v, TRUE) /\ worker[v].inc = i
    BY <1>1, StatusStep DEF StatusSteps
  <2>2. worker[v].pc = "checking"
    BY <2>1 DEF VerifyEnds
  <2> QED BY <1>1, <2>1, <2>2 DEF LockHeld, Holding, Locked
<1>2. TypeInv /\ LockHeld /\ [Next]_vars => [Quiet]_vars
  BY <1>1
<1> QED BY <1>2, TypeInvariance, LockInvariance, PTL DEF Spec, ResolvedAfterWrites

-----------------------------------------------------------------------------
\* No step changes the status of a decided action.
THEOREM DecisionsStayFinal == Spec => DecisionsAreFinal
<1> DEFINE Final ==
      \A a \in ActionIds : approval[a] \notin {"ABSENT", "PENDING"} => approval'[a] = approval[a]
<1>1. TypeInv /\ [Next]_vars => [Final]_vars
  BY RowStep DEF RowsKept
<1> QED BY <1>1, TypeInvariance, PTL DEF Spec, DecisionsAreFinal

\* A resolved incident has no proposal left to approve.
THEOREM ResolutionRetiresProposals == Spec => []ResolvedRetiresProposals
<1>1. Init => ResolvedRetiresProposals
  BY DEF Init, ResolvedRetiresProposals
<1>2. ASSUME TypeInv, TypeInv', ResolvedRetiresProposals, [Next]_vars
      PROVE  ResolvedRetiresProposals'
  <2> SUFFICES ASSUME NEW i \in Incidents, status'[i] = "RESOLVED",
                      NEW a \in ActionIds, approval'[a] = "PENDING", proposal'[a].inc = i
               PROVE  FALSE
    BY DEF ResolvedRetiresProposals, PendingOf, ActionsOf
  <2>1. approval[a] = "PENDING" /\ proposal[a].inc = i
    BY <1>2, RowStep, StatusStep DEF RowsKept, StatusSteps
  <2>2. status[i] # "RESOLVED"
    BY <1>2, <2>1 DEF ResolvedRetiresProposals, PendingOf, ActionsOf
  <2>3. PICK w \in Workers : VerifyEnds(w, TRUE) /\ worker[w].inc = i
    BY <1>2, <2>2, StatusStep DEF StatusSteps
  <2>4. approval' = Retired(i, TRUE)
    BY <2>3 DEF VerifyEnds
  <2>5. a \in PendingOf(i)
    BY <2>1 DEF PendingOf, ActionsOf
  <2> QED BY <2>4, <2>5 DEF Retired
<1>3. TypeInv /\ TypeInv' /\ ResolvedRetiresProposals /\ [Next]_vars => ResolvedRetiresProposals'
  BY <1>2
<1> QED BY <1>1, <1>3, TypeInvariance, PTL DEF Spec

-----------------------------------------------------------------------------
\* There are never more live investigations than slots.
THEOREM LiveWithinLimit == Spec => []ParallelLimit
<1>1. Init => ParallelLimit
  <2>1. Init => Live = {}
    BY DEF Init, Live
  <2> QED BY <2>1, FS_EmptySet, BoundAssumption DEF ParallelLimit
<1>2. ASSUME TypeInv, ParallelLimit, [Next]_vars
      PROVE  ParallelLimit'
  <2>1. IsFiniteSet(Live) /\ Cardinality(Live) \in Nat
    BY <1>2, WorkerAssumption, FS_Subset, FS_CardinalityType DEF TypeInv, TypeOK, Live
  <2>2. CASE Live' \subseteq Live
    <3>1. Cardinality(Live') <= Cardinality(Live) /\ Cardinality(Live') \in Nat
      BY <2>1, <2>2, FS_Subset, FS_CardinalityType
    <3> QED BY <1>2, <2>1, <3>1, BoundAssumption DEF ParallelLimit
  <2>3. ASSUME SlotFree, NEW i \in Incidents, Live' \subseteq Live \cup {i}
        PROVE  ParallelLimit'
    <3>1. /\ IsFiniteSet(Live \cup {i})
          /\ Cardinality(Live \cup {i}) <= Cardinality(Live) + 1
          /\ Cardinality(Live \cup {i}) \in Nat
      BY <2>1, FS_AddElement, FS_CardinalityType
    <3>2. Cardinality(Live') <= Cardinality(Live \cup {i}) /\ Cardinality(Live') \in Nat
      BY <2>3, <3>1, FS_Subset, FS_CardinalityType
    <3> QED BY <2>1, <2>3, <3>1, <3>2, BoundAssumption DEF ParallelLimit, SlotFree
  <2> QED BY <1>2, <2>2, <2>3, LiveStep DEF LiveSteps
<1>3. TypeInv /\ ParallelLimit /\ [Next]_vars => ParallelLimit'
  BY <1>2
<1> QED BY <1>1, <1>3, TypeInvariance, PTL DEF Spec

-----------------------------------------------------------------------------
\* Without approval no target of an incident is written twice, and the writes
\* stay within the budget.
THEOREM NoAutonomousLoop == Spec => []NoRestartLoop
<1>1. Init => NoRestartLoop
  <2> SUFFICES ASSUME Init PROVE NoRestartLoop
    OBVIOUS
  <2>1. \A i \in Incidents : AutonomousOf(i) = {}
    BY DEF Init, AutonomousOf, ActionsOf
  <2> QED BY <2>1, FS_EmptySet, BoundAssumption DEF NoRestartLoop
<1>2. ASSUME TypeInv, NoRestartLoop, [Next]_vars
      PROVE  NoRestartLoop'
  <2>0. IsFiniteSet(ActionIds)
    BY FS_Interval, BoundAssumption DEF ActionIds
  <2>1. \A a \in ActionIds : approval[a] # "ABSENT" => proposal'[a] = proposal[a]
    BY <1>2, RowStep DEF RowsKept
  <2>2. CASE \A a \in ActionIds : approval'[a] = "AUTO_AUTHORIZED" => approval[a] = "AUTO_AUTHORIZED"
    <3> SUFFICES ASSUME NEW j \in Incidents
                 PROVE  /\ Cardinality(AutonomousOf(j)') <= MaxPerIncident
                        /\ \A a, b \in AutonomousOf(j)' :
                             a # b => proposal'[a].target # proposal'[b].target
      BY DEF NoRestartLoop
    <3>1. AutonomousOf(j)' \subseteq AutonomousOf(j)
      BY <2>1, <2>2 DEF AutonomousOf, ActionsOf
    <3>2. IsFiniteSet(AutonomousOf(j)) /\ AutonomousOf(j) \subseteq ActionIds
      BY <2>0, FS_Subset DEF AutonomousOf, ActionsOf
    <3>3. /\ Cardinality(AutonomousOf(j)') <= Cardinality(AutonomousOf(j))
          /\ Cardinality(AutonomousOf(j)) \in Nat /\ Cardinality(AutonomousOf(j)') \in Nat
      BY <3>1, <3>2, FS_Subset, FS_CardinalityType
    <3>4. Cardinality(AutonomousOf(j)) <= MaxPerIncident
      BY <1>2 DEF NoRestartLoop
    <3>5. \A a \in AutonomousOf(j) : proposal'[a] = proposal[a]
      BY <2>1 DEF AutonomousOf, ActionsOf
    <3>6. \A a, b \in AutonomousOf(j) : a # b => proposal[a].target # proposal[b].target
      BY <1>2 DEF NoRestartLoop
    <3>7. Cardinality(AutonomousOf(j)') <= MaxPerIncident
      BY <3>3, <3>4, BoundAssumption
    <3> QED BY <3>1, <3>5, <3>6, <3>7
  <2>3. ASSUME NEW i \in Incidents, NEW t \in Targets, AuthorizeAndClaim(i, t)
        PROVE  NoRestartLoop'
    <3>1. PICK a \in ActionIds :
            /\ NextRows({a})
            /\ proposal' = [proposal EXCEPT ![a] = [inc |-> i, tool |-> "recover", target |-> t]]
            /\ approval' = [approval EXCEPT ![a] = "AUTO_AUTHORIZED"]
      BY <2>3 DEF AuthorizeAndClaim
    <3>2. proposal'[a] = [inc |-> i, tool |-> "recover", target |-> t] /\ approval[a] = "ABSENT"
      BY <1>2, <3>1 DEF TypeInv, TypeOK, NextRows
    <3>3. \A b \in ActionIds : b # a => proposal'[b] = proposal[b] /\ approval'[b] = approval[b]
      BY <1>2, <3>1 DEF TypeInv, TypeOK
    <3> SUFFICES ASSUME NEW j \in Incidents
                 PROVE  /\ Cardinality(AutonomousOf(j)') <= MaxPerIncident
                        /\ \A b, c \in AutonomousOf(j)' :
                             b # c => proposal'[b].target # proposal'[c].target
      BY DEF NoRestartLoop
    <3>4. IsFiniteSet(ActionsOf(j)) /\ IsFiniteSet(AutonomousOf(j)) /\ AutonomousOf(j) \subseteq ActionsOf(j)
      BY <2>0, FS_Subset DEF AutonomousOf, ActionsOf
    <3>5. CASE j = i
      <4>1. AutonomousOf(j)' \subseteq AutonomousOf(j) \cup {a}
        BY <3>3 DEF AutonomousOf, ActionsOf
      <4>2. AutonomousOf(j)' \subseteq ActionsOf(j) \cup {a}
        BY <3>4, <4>1
      <4>3. /\ IsFiniteSet(ActionsOf(j) \cup {a})
            /\ Cardinality(ActionsOf(j) \cup {a}) <= Cardinality(ActionsOf(j)) + 1
            /\ Cardinality(ActionsOf(j)) \in Nat /\ Cardinality(ActionsOf(j) \cup {a}) \in Nat
        <5>1. Cardinality(ActionsOf(j)) \in Nat
          BY <3>4, FS_CardinalityType
        <5>2. /\ IsFiniteSet(ActionsOf(j) \cup {a})
              /\ Cardinality(ActionsOf(j) \cup {a}) =
                   IF a \in ActionsOf(j) THEN Cardinality(ActionsOf(j))
                   ELSE Cardinality(ActionsOf(j)) + 1
          BY <3>4, FS_AddElement, Zenon
        <5>3. Cardinality(ActionsOf(j) \cup {a}) \in Nat
          BY <5>2, FS_CardinalityType
        <5> QED BY <5>1, <5>2, <5>3
      <4>4. /\ Cardinality(AutonomousOf(j)') <= Cardinality(ActionsOf(j) \cup {a})
            /\ Cardinality(AutonomousOf(j)') \in Nat
        BY <4>2, <4>3, FS_Subset, FS_CardinalityType
      <4>5. Cardinality(ActionsOf(j)) < MaxPerIncident
        BY <2>3, <3>5 DEF AuthorizeAndClaim, WithinBudget
      <4>6. Cardinality(AutonomousOf(j)') <= MaxPerIncident
        BY <4>3, <4>4, <4>5, BoundAssumption
      <4>7. \A b \in AutonomousOf(j) : b \in ActionIds /\ b # a /\ proposal[b].target # t
        BY <2>3, <3>2, <3>5 DEF AuthorizeAndClaim, FirstAttempt, AutonomousOf, ActionsOf
      <4>8. \A b, c \in AutonomousOf(j) : b # c => proposal[b].target # proposal[c].target
        BY <1>2 DEF NoRestartLoop
      <4> QED BY <3>2, <3>3, <4>1, <4>6, <4>7, <4>8
    <3>6. CASE j # i
      <4>1. AutonomousOf(j)' = AutonomousOf(j)
        BY <3>2, <3>3, <3>6 DEF AutonomousOf, ActionsOf
      <4>2. \A b \in AutonomousOf(j) : proposal'[b] = proposal[b]
        BY <3>2, <3>3 DEF AutonomousOf, ActionsOf
      <4> QED BY <1>2, <4>1, <4>2 DEF NoRestartLoop
    <3> QED BY <3>5, <3>6
  <2> QED BY <1>2, <2>2, <2>3, RowStep DEF RowsKept
<1>3. TypeInv /\ NoRestartLoop /\ [Next]_vars => NoRestartLoop'
  BY <1>2
<1> QED BY <1>1, <1>3, TypeInvariance, PTL DEF Spec

-----------------------------------------------------------------------------
\* An approval works on a row of its own incident.
RowsOwn ==
  \A w \in Workers : worker[w].pc \in {"approveLock", "approving"} =>
    approval[worker[w].act] # "ABSENT" /\ proposal[worker[w].act].inc = worker[w].inc

\* What a step does to the approvals that wait or have the lock: one is asked
\* for, one gets the lock, or none begins.
ApprovingSteps ==
  \/ \A w \in Workers : worker'[w].pc \in {"approveLock", "approving"} => worker'[w] = worker[w]
  \/ \E w \in Requests, a \in ActionIds : RequestApproval(w, a)
  \/ \E w \in Workers : Acquire(w)

\* No step but a request and the lock brings a coroutine to an approval.
LEMMA ApprovingStep ==
  ASSUME TypeInv, [Next]_vars
  PROVE  ApprovingSteps
<1> USE DEF TypeInv
<1>1. CASE OperatorStep
  BY <1>1 DEF OperatorStep, CreateIncident, ProposeOperation, Investigate, Reject,
       RequestVerify, EditTopology, ApprovingSteps, TypeOK, Move, At, Position
<1>2. ASSUME NEW w \in Workers, Acquire(w) \/ ServiceStep(w) PROVE ApprovingSteps
  <2>1. CASE Acquire(w)
    BY <2>1 DEF ApprovingSteps
  <2>2. ASSUME NEW passed \in BOOLEAN, VerifyEnds(w, passed) PROVE ApprovingSteps
    BY <2>2 DEF VerifyEnds, ApprovingSteps, TypeOK, Move, At, Position, Returned, Idle
  <2>3. CASE \/ ApproveExpires(w) \/ ApproveRefused(w) \/ ApproveClaims(w) \/ Dispatch(w)
             \/ WriteConfirmed(w) \/ WriteUncertain(w) \/ VerifyRefused(w)
             \/ VerifyBlocked(w) \/ VerifyStarts(w) \/ Indexed(w)
    BY <2>3 DEF ApproveExpires, ApproveRefused, ApproveClaims, Dispatch, WriteConfirmed,
         WriteUncertain, VerifyRefused, VerifyBlocked, VerifyStarts, Indexed,
         ApprovingSteps, TypeOK, Move, At, Position, Idle, Raised, Returned
  <2> HIDE DEF ApprovingSteps
  <2> QED BY <1>2, <2>1, <2>2, <2>3 DEF ServiceStep
<1>3. ASSUME NEW i \in Incidents, TaskStep(i) PROVE ApprovingSteps
  <2>1. PICK position : position.pc \notin {"approveLock", "approving"} /\ Move(i, position)
    BY <1>3 DEF TaskStep, Decide, AutonomousStep, TaskStarts, DiagnoseForApproval,
         DiagnoseAutonomously, Execute, RequestFromAgent, Conclude, TaskFails,
         AuthorizeAndClaim, AuthorizationRefused, AutonomousWriteEnds, InspectionEnds,
         RuntimeLimit, TaskPopped, VerifyAsIs, At, Position, Idle
  <2> QED BY <2>1 DEF ApprovingSteps, TypeOK, Move
<1>4. ASSUME NEW a \in ActionIds, Land(a) \/ Elapse(a) PROVE ApprovingSteps
  BY <1>4 DEF Land, Elapse, ApprovingSteps
<1>5. CASE Restart
  BY <1>5 DEF Restart, ApprovingSteps, Idle, At, Position
<1>6. CASE UNCHANGED vars
  BY <1>6 DEF vars, ApprovingSteps
<1> QED BY <1>1, <1>2, <1>3, <1>4, <1>5, <1>6 DEF Next

\* An approval stays with a row of its incident.
LEMMA RowsOwnStep ==
  ASSUME TypeInv, RowsOwn, [Next]_vars
  PROVE  RowsOwn'
<1> USE DEF TypeInv
<1>1. \A a \in ActionIds : approval[a] # "ABSENT" =>
        approval'[a] # "ABSENT" /\ proposal'[a] = proposal[a]
  BY RowStep DEF RowsKept
<1>2. \A w \in Workers : worker[w].pc \in {"approveLock", "approving"} => worker[w].act \in ActionIds
  BY DEF Placed
<1>3. CASE \A w \in Workers : worker'[w].pc \in {"approveLock", "approving"} =>
             worker'[w] = worker[w]
  BY <1>1, <1>2, <1>3 DEF RowsOwn
<1>4. ASSUME NEW w \in Requests, NEW a \in ActionIds, RequestApproval(w, a) PROVE RowsOwn'
  BY <1>1, <1>2, <1>4 DEF RequestApproval, RowsOwn, TypeOK, Move, At, Position, Workers
<1>5. ASSUME NEW w \in Workers, Acquire(w) PROVE RowsOwn'
  <2>1. PICK a \in ActionIds \cup {NoAction} :
          /\ Chosen(w, a)
          /\ Move(w, Position(Granted(worker[w].pc), worker[w].inc, a, worker[w].diagnosed))
    BY <1>5 DEF Acquire
  <2>2. \A v \in Workers \ {w} : worker'[v] = worker[v]
    BY <2>1 DEF Move, TypeOK
  <2>3. worker'[w].pc = "approving" => worker[w].pc = "approveLock"
    BY <1>5, <2>1 DEF Acquire, Waiting, Granted, Move, Position, TypeOK
  <2>4. worker'[w].pc # "approveLock"
    BY <1>5, <2>1 DEF Acquire, Waiting, Granted, Move, Position, TypeOK
  <2>5. worker[w].pc = "approveLock" => worker'[w].act = worker[w].act
    BY <2>1 DEF Chosen, Move, Position, TypeOK
  <2>6. worker'[w].inc = worker[w].inc
    BY <2>1 DEF Move, Position, TypeOK
  <2> QED BY <1>1, <1>2, <2>2, <2>3, <2>4, <2>5, <2>6 DEF RowsOwn
<1> QED BY <1>3, <1>4, <1>5, ApprovingStep DEF ApprovingSteps

-----------------------------------------------------------------------------
\* VerifyingHasWorker is not inductive: the coroutine must have the lock, so that
\* no other verifies or claims; an approved write that ends returns to the
\* operator; and a verification that is prepared must not be refused, which would
\* leave the incident as it is.
Serving(i, w) ==
  /\ lock[i] = w /\ worker[w].inc = i
  /\ \/ worker[w].pc \in {"preparing", "checking"}
     \/ /\ worker[w].pc \in {"claimed", "writing"} /\ worker[w].act \in ActionIds
        /\ approval[worker[w].act] = "APPROVED"

Verifiable(i) == evidence[i] /\ profile[i] = "sound"

Attended ==
  \A i \in Incidents : status[i] = "VERIFYING" =>
    Verifiable(i) /\ \E w \in Workers : Serving(i, w)

\* The evidence of an incident stays, and its profile while nobody edits it.
LEMMA VerifiableStep ==
  ASSUME TypeInv, ~TopologyEdits, [Next]_vars, NEW i \in Incidents, Verifiable(i)
  PROVE  Verifiable(i)'
<1> USE DEF TypeInv, TypeOK
<1>1. CASE OperatorStep
  BY <1>1 DEF OperatorStep, CreateIncident, ProposeOperation, Investigate, Reject,
       RequestApproval, RequestVerify, EditTopology, Verifiable, incidentVars
<1>2. ASSUME NEW w \in Workers, Acquire(w) \/ ServiceStep(w) PROVE Verifiable(i)'
  BY <1>2 DEF ServiceStep, Acquire, ApproveExpires, ApproveRefused, ApproveClaims, Dispatch,
       WriteConfirmed, WriteUncertain, VerifyRefused, VerifyBlocked, VerifyStarts,
       VerifyEnds, Indexed, Verifiable, incidentVars
<1>3. ASSUME NEW j \in Incidents, TaskStep(j) PROVE Verifiable(i)'
  BY <1>3 DEF TaskStep, Decide, AutonomousStep, TaskStarts, DiagnoseForApproval,
       DiagnoseAutonomously, Execute, RequestFromAgent, Conclude, TaskFails,
       AuthorizeAndClaim, AuthorizationRefused, AutonomousWriteEnds, InspectionEnds,
       RuntimeLimit, TaskPopped, Verifiable, incidentVars
<1>4. ASSUME NEW a \in ActionIds, Land(a) \/ Elapse(a) PROVE Verifiable(i)'
  BY <1>4 DEF Land, Elapse, Verifiable, incidentVars
<1>5. CASE Restart
  BY <1>5 DEF Restart, Verifiable
<1>6. CASE UNCHANGED vars
  BY <1>6 DEF vars, Verifiable, incidentVars
<1> QED BY <1>1, <1>2, <1>3, <1>4, <1>5, <1>6 DEF Next

\* What a step does to the incidents that verify and to those who serve them: an
\* incident begins with the coroutine that claims or starts its checks, and one
\* that goes on keeps its coroutine where it serves.
BeginsVerifying(i) ==
  \E w \in Workers : (ApproveClaims(w) \/ VerifyStarts(w)) /\ worker[w].inc = i

\* Only a claim and the start of the checks have an incident verified.
LEMMA VerifyingBegins ==
  ASSUME TypeInv, [Next]_vars, NEW i \in Incidents, status'[i] = "VERIFYING",
         status[i] # "VERIFYING"
  PROVE  BeginsVerifying(i)
<1> USE DEF TypeInv, TypeOK
<1>1. CASE OperatorStep
  BY <1>1 DEF OperatorStep, CreateIncident, ProposeOperation, AfterProposing, Investigate,
       Reject, RequestApproval, RequestVerify, EditTopology, SetStatus, incidentVars
<1>2. ASSUME NEW w \in Workers, Acquire(w) \/ ServiceStep(w) PROVE BeginsVerifying(i)
  <2>1. CASE ApproveClaims(w) \/ VerifyStarts(w)
    BY <2>1 DEF ApproveClaims, VerifyStarts, SetStatus, BeginsVerifying
  <2>2. ASSUME NEW passed \in BOOLEAN, VerifyEnds(w, passed) PROVE FALSE
    <3>1. Verdict(worker[w].inc, worker[w].act, passed) # "VERIFYING"
      BY DEF Verdict
    <3> QED BY <2>2, <3>1 DEF VerifyEnds, SetStatus
  <2>3. CASE \/ Acquire(w) \/ ApproveExpires(w) \/ ApproveRefused(w) \/ Dispatch(w)
             \/ WriteConfirmed(w) \/ WriteUncertain(w) \/ VerifyRefused(w)
             \/ VerifyBlocked(w) \/ Indexed(w)
    BY <2>3 DEF Acquire, ApproveExpires, ApproveRefused, Dispatch, WriteConfirmed,
         WriteUncertain, VerifyRefused, VerifyBlocked, Indexed, SetStatus, incidentVars
  <2> QED BY <1>2, <2>1, <2>2, <2>3 DEF ServiceStep
<1>3. ASSUME NEW j \in Incidents, TaskStep(j) PROVE FALSE
  BY <1>3 DEF TaskStep, Decide, AutonomousStep, TaskStarts, DiagnoseForApproval,
       DiagnoseAutonomously, Execute, RequestFromAgent, Conclude, TaskFails,
       AuthorizeAndClaim, AuthorizationRefused, AutonomousWriteEnds, InspectionEnds,
       RuntimeLimit, TaskPopped, AfterProposing, SetStatus, incidentVars
<1>4. ASSUME NEW a \in ActionIds, Land(a) \/ Elapse(a) PROVE FALSE
  BY <1>4 DEF Land, Elapse, incidentVars
<1>5. CASE Restart
  BY <1>5 DEF Restart, Interrupted
<1>6. CASE UNCHANGED vars
  BY <1>6 DEF vars, incidentVars
<1> QED BY <1>1, <1>2, <1>3, <1>4, <1>5, <1>6 DEF Next

\* Whoever serves an incident that goes on verifying goes on serving it: no other
\* coroutine takes its lock or its row, and it has no way out but a new status.
LEMMA ServingStep ==
  ASSUME TypeInv, LockHeld, [Next]_vars, NEW i \in Incidents, NEW w \in Workers,
         status[i] = "VERIFYING", status'[i] = "VERIFYING", Verifiable(i), Serving(i, w)
  PROVE  Serving(i, w)'
<1> USE DEF TypeInv
<1>1. /\ lock[i] = w /\ worker[w].inc = i /\ Holding(w)
      /\ w \in Incidents => w = i
      /\ worker[w].pc \in {"preparing", "checking", "claimed", "writing"}
  BY DEF Serving, Holding, Locked, Placed
<1>2. \A a \in ActionIds : approval[a] = "APPROVED" => approval'[a] = "APPROVED"
  BY RowStep DEF RowsKept
<1>3. ASSUME lock'[i] = lock[i], worker'[w] = worker[w] PROVE Serving(i, w)'
  BY <1>2, <1>3 DEF Serving
<1>4. ASSUME NEW v \in Workers, v # w,
             \/ lock' = lock
             \/ Holding(v) /\ Unlock(v)
             \/ worker[v].inc \in Incidents /\ lock[worker[v].inc] = NoOne
                /\ lock' = [lock EXCEPT ![worker[v].inc] = v]
      PROVE  lock'[i] = lock[i]
  BY <1>1, <1>4, WorkerAssumption DEF LockHeld, Unlock, TypeOK
<1>5. CASE OperatorStep
  <2>1. ASSUME NEW j \in Incidents, Investigate(j) PROVE Serving(i, w)'
    <3>1. j # i /\ lock' = lock
      BY <2>1 DEF Investigate
    <3> QED BY <1>1, <1>3, <2>1, <3>1 DEF Investigate, Move, TypeOK
  <2>2. ASSUME NEW v \in Requests, worker[v].pc = "idle", UNCHANGED lock,
               NEW position, Move(v, position)
        PROVE  Serving(i, w)'
    BY <1>1, <1>3, <2>2 DEF Move, TypeOK
  <2>3. CASE \/ \E j \in Incidents : CreateIncident(j) \/ ProposeOperation(j)
             \/ \E a \in ActionIds : Reject(a)
             \/ \E j \in Incidents, p \in {"sound", "misfit", "missing"} : EditTopology(j, p)
    BY <1>3, <2>3 DEF CreateIncident, ProposeOperation, Reject, EditTopology
  <2> QED BY <1>5, <2>1, <2>2, <2>3 DEF OperatorStep, RequestApproval, RequestVerify
<1>6. ASSUME NEW v \in Workers, v # w, Acquire(v) \/ ServiceStep(v) PROVE Serving(i, w)'
  <2>1. worker'[w] = worker[w]
    BY <1>6 DEF ServiceStep, Acquire, ApproveExpires, ApproveRefused, ApproveClaims,
         Dispatch, WriteConfirmed, WriteUncertain, VerifyRefused, VerifyBlocked,
         VerifyStarts, VerifyEnds, Indexed, Move, TypeOK
  <2>2. CASE Acquire(v)
    <3>1. /\ worker[v].inc \in Incidents /\ lock[worker[v].inc] = NoOne
          /\ lock' = [lock EXCEPT ![worker[v].inc] = v]
      BY <2>2 DEF Acquire, Waiting, LockFree, Placed
    <3> QED BY <1>3, <1>4, <1>6, <2>1, <3>1
  <2>3. CASE ServiceStep(v)
    <3>1. lock' = lock \/ (Holding(v) /\ Unlock(v))
      BY <2>3 DEF ServiceStep, ApproveExpires, ApproveRefused, ApproveClaims, Dispatch,
           WriteConfirmed, WriteUncertain, VerifyRefused, VerifyBlocked, VerifyStarts,
           VerifyEnds, Indexed, Holding, Locked
    <3> QED BY <1>3, <1>4, <1>6, <2>1, <3>1
  <2> QED BY <1>6, <2>2, <2>3
<1>7. CASE Acquire(w) \/ ServiceStep(w)
  <2>1. CASE Dispatch(w)
    BY <1>1, <1>2, <2>1 DEF Dispatch, Serving, Move, At, Position, TypeOK
  <2>2. CASE WriteConfirmed(w)
    BY <1>1, <2>2 DEF WriteConfirmed, Serving, Move, At, Position, TypeOK
  <2>3. CASE VerifyStarts(w)
    BY <1>1, <2>3 DEF VerifyStarts, Serving, Move, At, Position, TypeOK
  <2>4. CASE WriteUncertain(w) \/ VerifyBlocked(w)
    BY <1>1, <2>4 DEF WriteUncertain, VerifyBlocked, SetStatus, TypeOK
  <2>5. ASSUME NEW passed \in BOOLEAN, VerifyEnds(w, passed) PROVE FALSE
    <3>1. Verdict(worker[w].inc, worker[w].act, passed) # "VERIFYING"
      BY DEF Verdict
    <3> QED BY <1>1, <2>5, <3>1 DEF VerifyEnds, SetStatus, TypeOK
  <2>6. ~VerifyRefused(w)
    BY <1>1 DEF VerifyRefused, UnderInvestigation, Verifiable
  <2>7. /\ ~Acquire(w) /\ ~ApproveExpires(w) /\ ~ApproveRefused(w) /\ ~ApproveClaims(w)
        /\ ~Indexed(w)
    BY <1>1 DEF Acquire, Waiting, ApproveExpires, ApproveRefused, ApproveClaims, Indexed
  <2> QED BY <1>7, <2>1, <2>2, <2>3, <2>4, <2>5, <2>6, <2>7 DEF ServiceStep
<1>8. ASSUME NEW j \in Incidents, TaskStep(j), j # w PROVE Serving(i, w)'
  <2>1. worker'[w] = worker[w]
    BY <1>8 DEF TaskStep, Decide, AutonomousStep, TaskStarts, DiagnoseForApproval,
         DiagnoseAutonomously, Execute, RequestFromAgent, Conclude, TaskFails,
         AuthorizeAndClaim, AuthorizationRefused, AutonomousWriteEnds, InspectionEnds,
         RuntimeLimit, TaskPopped, VerifyAsIs, Move, TypeOK
  <2>2. lock' = lock \/ (Holding(j) /\ Unlock(j))
    BY <1>8 DEF TaskStep, Decide, AutonomousStep, TaskStarts, DiagnoseForApproval,
         DiagnoseAutonomously, Execute, RequestFromAgent, Conclude, TaskFails,
         AuthorizeAndClaim, AuthorizationRefused, AutonomousWriteEnds, InspectionEnds,
         RuntimeLimit, TaskPopped, Holding, Locked
  <2> QED BY <1>3, <1>4, <1>8, <2>1, <2>2 DEF Workers
<1>9. ASSUME w \in Incidents, TaskStep(w) PROVE Serving(i, w)'
  <2>1. ~TaskStarts(w) /\ ~Decide(w) /\ ~TaskPopped(w)
    BY <1>1 DEF TaskStarts, Decide, DiagnoseForApproval, DiagnoseAutonomously, Execute,
         RequestFromAgent, Conclude, TaskFails, TaskPopped
  <2>2. ~RuntimeLimit(w)
    BY <1>1, <1>9 DEF RuntimeLimit, SetStatus, TypeOK
  <2>3. ~AutonomousStep(w)
    BY <1>1 DEF AutonomousStep, AuthorizeAndClaim, AuthorizationRefused,
         AutonomousWriteEnds, InspectionEnds, Serving
  <2> QED BY <1>9, <2>1, <2>2, <2>3 DEF TaskStep
<1>10. ASSUME NEW a \in ActionIds, Land(a) \/ Elapse(a) PROVE Serving(i, w)'
  BY <1>3, <1>10 DEF Land, Elapse
<1>11. ~Restart
  BY DEF Restart, Interrupted
<1>12. CASE UNCHANGED vars
  BY <1>3, <1>12 DEF vars
<1> QED BY <1>5, <1>6, <1>7, <1>8, <1>9, <1>10, <1>11, <1>12 DEF Next

\* Every step keeps an incident that verifies with the coroutine that serves it.
LEMMA AttendedStep ==
  ASSUME TypeInv, TypeInv', LockHeld, LockHeld', RowsOwn, ~TopologyEdits, Attended, [Next]_vars
  PROVE  Attended'
<1> SUFFICES ASSUME NEW i \in Incidents, status'[i] = "VERIFYING"
             PROVE  Verifiable(i)' /\ \E w \in Workers : Serving(i, w)'
  BY DEF Attended
<1>1. CASE status[i] = "VERIFYING"
  <2>1. PICK w \in Workers : Serving(i, w)
    BY <1>1 DEF Attended
  <2>2. Verifiable(i)
    BY <1>1 DEF Attended
  <2> QED BY <1>1, <2>1, <2>2, ServingStep, VerifiableStep
<1>2. CASE status[i] # "VERIFYING"
  <2>1. PICK w \in Workers : (ApproveClaims(w) \/ VerifyStarts(w)) /\ worker[w].inc = i
    BY <1>2, VerifyingBegins DEF BeginsVerifying
  <2>2. CASE ApproveClaims(w)
    <3>1. Verifiable(i)
      BY <2>1, <2>2 DEF ApproveClaims, Approvable, RowsOwn, Verifiable
    <3>2. Serving(i, w)'
      <4>1. worker'[w] = At("claimed", i, worker[w].act) /\ worker[w].act \in ActionIds
        BY <2>1, <2>2 DEF ApproveClaims, Move, TypeInv, TypeOK, Placed
      <4>2. approval'[worker[w].act] = "APPROVED"
        BY <2>2, <4>1 DEF ApproveClaims, TypeInv, TypeOK
      <4>3. lock'[i] = w
        BY <4>1 DEF LockHeld, Holding, Locked, At, Position
      <4> QED BY <4>1, <4>2, <4>3 DEF Serving, At, Position
    <3> QED BY <3>1, <3>2, VerifiableStep
  <2>3. CASE VerifyStarts(w)
    <3>1. Verifiable(i)
      BY <2>1, <2>3 DEF VerifyStarts, Verifiable
    <3>2. worker'[w] = At("checking", i, worker[w].act)
      BY <2>1, <2>3 DEF VerifyStarts, Move, TypeInv, TypeOK
    <3>3. lock'[i] = w
      BY <3>2 DEF LockHeld, Holding, Locked, At, Position
    <3>4. Serving(i, w)'
      BY <3>2, <3>3 DEF Serving, At, Position
    <3> QED BY <3>1, <3>4, VerifiableStep
  <2> QED BY <2>1, <2>2, <2>3
<1> QED BY <1>1, <1>2

\* An incident is only VERIFYING while a coroutine is there to finish it, for any
\* number of incidents, requests and actions: as long as the topology is not
\* edited, which may have the verification refused and the status left.
THEOREM VerifyingIsServed ==
  ASSUME ~TopologyEdits
  PROVE  Spec => []VerifyingHasWorker
<1>1. Init => RowsOwn /\ Attended
  BY DEF Init, RowsOwn, Attended, Idle, At, Position
<1>2. TypeInv /\ TypeInv' /\ LockHeld /\ LockHeld' /\ RowsOwn /\ Attended /\ [Next]_vars =>
        RowsOwn' /\ Attended'
  BY RowsOwnStep, AttendedStep
<1>3. Attended => VerifyingHasWorker
  BY DEF Attended, Serving, VerifyingHasWorker
<1> QED BY <1>1, <1>2, <1>3, TypeInvariance, LockInvariance, PTL DEF Spec

-----------------------------------------------------------------------------
\* That the backend implements ActionLife depends on what the coroutines hold in
\* their hands between two awaits: the action that one sends, inspects or verifies
\* was granted, and what is known of its outcome has not changed since it was read,
\* because only the holder of the incident's lock concludes anything.
\*
\* Where a coroutine that may conclude something about its action is.
Concluding == {"verifyLock", "claimed", "writing", "inspecting", "preparing", "checking"}

\* A coroutine's action was granted for its incident; what it is about to send
\* has no outcome yet, and an approved action that it verifies has not passed.
Answerable(w) ==
  LET a == worker[w].act
      pc == worker[w].pc
  IN
  /\ pc \in {"claimed", "writing", "inspecting"} => a \in ActionIds
  /\ pc \in Concluding /\ a \in ActionIds =>
       /\ Claimed(a) /\ proposal[a].inc = worker[w].inc
       /\ pc \in {"claimed", "writing"} => verification[a] = "NOT_RUN"
       /\ pc \in {"verifyLock", "inspecting"} => approval[a] = "AUTO_AUTHORIZED"
       /\ pc \in {"preparing", "checking"} /\ approval[a] = "APPROVED" =>
            verification[a] # "PASSED"

\* Nothing is concluded of an action that was not granted.
LifeInv ==
  /\ \A a \in ActionIds : ~ Claimed(a) => verification[a] = "NOT_RUN"
  /\ \A w \in Workers : Answerable(w)

\* What the coroutine that moves does to the outcomes: nothing, or it concludes
\* its action, whose lock it holds.
Concludes(w) ==
  \/ verification' = verification
  \/ /\ worker[w].act \in ActionIds
     /\ worker[w].pc \in Concluding \ {"verifyLock"}
     /\ \A a \in ActionIds \ {worker[w].act} : verification'[a] = verification[a]

\* The step of one coroutine leaves what is known of the others' actions.
LEMMA LifeMoves ==
  ASSUME TypeInv, LockHeld, LifeInv, [Next]_vars, NEW w \in Workers,
         \A v \in Workers \ {w} : worker'[v] = worker[v],
         Concludes(w), Answerable(w)'
  PROVE  LifeInv'
<1>1. \A a \in ActionIds : /\ Claimed(a) => Claimed(a)' /\ approval'[a] = approval[a]
                                            /\ proposal'[a] = proposal[a]
  BY RowStep DEF RowsKept, Claimed
<1>2. ASSUME NEW a \in ActionIds, ~ Claimed(a)'
      PROVE  verification'[a] = "NOT_RUN"
  <2>1. ~ Claimed(a)
    BY <1>1, <1>2
  <2>2. worker[w].act = a => worker[w].pc \notin Concluding
    BY <2>1 DEF LifeInv, Answerable
  <2>3. verification'[a] = verification[a]
    BY <2>2 DEF Concludes
  <2> QED
    BY <2>1, <2>3 DEF LifeInv
<1>3. ASSUME NEW v \in Workers \ {w}
      PROVE  Answerable(v)'
  <2> DEFINE a == worker[v].act
  <2>1. worker'[v] = worker[v] /\ Answerable(v)
    BY DEF LifeInv
  <2>2. CASE worker[v].pc \in Concluding /\ a \in ActionIds
    <3>1. Claimed(a) /\ proposal[a].inc = worker[v].inc
      BY <2>1, <2>2 DEF Answerable
    <3>2. worker[v].pc # "verifyLock" => verification'[a] = verification[a]
      <4>1. ASSUME worker[v].pc # "verifyLock", worker[w].act = a,
                   worker[w].pc \in Concluding \ {"verifyLock"}
            PROVE  FALSE
        <5>1. Holding(v) /\ Holding(w)
          BY <2>2, <4>1 DEF Concluding, Holding, Locked
        <5>2. proposal[a].inc = worker[w].inc
          BY <2>2, <4>1 DEF LifeInv, Answerable
        <5> QED
          BY <3>1, <5>1, <5>2 DEF LockHeld
      <4> QED
        BY <2>2, <4>1 DEF Concludes
    <3>3. Claimed(a)' /\ approval'[a] = approval[a] /\ proposal'[a] = proposal[a]
      BY <1>1, <2>2, <3>1
    <3> QED
      BY <2>1, <2>2, <3>1, <3>2, <3>3 DEF Answerable, Claimed
  <2>3. CASE ~ (worker[v].pc \in Concluding /\ a \in ActionIds)
    <3>1. worker[v].pc \notin Concluding \/ a \notin ActionIds
      BY <2>3
    <3> QED
      BY <2>1, <3>1 DEF Answerable, Concluding
  <2> QED
    BY <2>2, <2>3
<1> QED
  BY <1>2, <1>3 DEF LifeInv

\* Nothing is concluded, and who moves has no action to answer for.
Unanswerable ==
  /\ verification' = verification
  /\ \A w \in Workers :
       \/ worker'[w] = worker[w]
       \/ worker'[w].pc \notin Concluding
       \/ worker'[w].pc \in {"verifyLock", "preparing"} /\ worker'[w].act = NoAction

\* Every step keeps each coroutine's action granted, of its incident, and without
\* an outcome before it is sent.
LEMMA LifeInvStep ==
  ASSUME TypeInv, LockHeld, RowsOwn, LifeInv, [Next]_vars
  PROVE  LifeInv'
<1> USE DEF TypeInv
<1>0. NoAction \notin ActionIds
  BY DEF NoAction, ActionIds
<1>1. \A a \in ActionIds : /\ Claimed(a) => Claimed(a)' /\ approval'[a] = approval[a]
                                            /\ proposal'[a] = proposal[a]
  BY RowStep DEF RowsKept, Claimed
<1>2. ASSUME Unanswerable PROVE LifeInv'
  <2>1. \A a \in ActionIds : ~ Claimed(a)' => verification'[a] = "NOT_RUN"
    BY <1>1, <1>2 DEF Unanswerable, LifeInv
  <2>2. ASSUME NEW w \in Workers PROVE Answerable(w)'
    <3>1. Answerable(w)
      BY DEF LifeInv
    <3>2. CASE worker'[w] = worker[w]
      BY <1>1, <1>2, <3>1, <3>2 DEF Unanswerable, Answerable, Claimed
    <3>3. CASE worker'[w].pc \notin Concluding
      BY <3>3 DEF Answerable, Concluding
    <3>4. CASE worker'[w].pc \in {"verifyLock", "preparing"} /\ worker'[w].act = NoAction
      BY <1>0, <3>4 DEF Answerable, Concluding
    <3> QED
      BY <1>2, <3>2, <3>3, <3>4 DEF Unanswerable
  <2> QED
    BY <2>1, <2>2 DEF LifeInv
<1>3. CASE OperatorStep
  <2>1. Unanswerable
    BY <1>3 DEF OperatorStep, CreateIncident, ProposeOperation, Propose, Investigate, Reject,
         RequestApproval, RequestVerify, EditTopology, Unanswerable, Concluding, actionVars,
         TypeOK, Move, At, Position, Workers
  <2> QED
    BY <1>2, <2>1
<1>4. ASSUME NEW w \in Workers, NEW position, Move(w, position)
      PROVE  worker'[w] = position /\ \A v \in Workers \ {w} : worker'[v] = worker[v]
  BY <1>4 DEF Move, TypeOK
<1>5. ASSUME NEW w \in Workers, Acquire(w) PROVE LifeInv'
  <2>1. PICK a \in ActionIds \cup {NoAction} :
          /\ Chosen(w, a)
          /\ Move(w, Position(Granted(worker[w].pc), worker[w].inc, a, worker[w].diagnosed))
    BY <1>5 DEF Acquire
  <2>2. /\ worker'[w] = Position(Granted(worker[w].pc), worker[w].inc, a, worker[w].diagnosed)
        /\ \A v \in Workers \ {w} : worker'[v] = worker[v]
    BY <1>4, <2>1
  <2>3. verification' = verification
    BY <1>5 DEF Acquire, actionVars
  <2>4. CASE worker[w].pc # "verifyLock"
    <3>1. worker'[w].pc \in {"approving", "authorizing"}
      BY <1>5, <2>2, <2>4 DEF Acquire, Waiting, Granted, Position
    <3> QED
      BY <1>2, <2>2, <2>3, <3>1 DEF Unanswerable, Concluding
  <2>5. CASE worker[w].pc = "verifyLock" /\ a = NoAction
    <3>1. worker'[w].pc = "preparing" /\ worker'[w].act = NoAction
      BY <2>2, <2>5 DEF Granted, Position
    <3> QED
      BY <1>2, <2>2, <2>3, <3>1 DEF Unanswerable
  <2>6. CASE worker[w].pc = "verifyLock" /\ a \in ActionIds
    <3>1. /\ worker'[w].pc = "preparing" /\ worker'[w].act = a
          /\ worker'[w].inc = worker[w].inc
      BY <2>2, <2>6 DEF Granted, Position
    <3>2. /\ Claimed(a) /\ proposal[a].inc = worker[w].inc
          /\ approval[a] = "APPROVED" => verification[a] # "PASSED"
      <4>1. CASE worker[w].act = NoAction
        <5>1. a \in FailedOf(worker[w].inc)
          BY <1>0, <2>1, <2>6, <4>1 DEF Chosen, IsLatest
        <5> QED
          BY <5>1 DEF FailedOf, ActionsOf, Claimed
      <4>2. CASE worker[w].act # NoAction
        <5>1. worker[w].act = a
          BY <2>1, <4>2 DEF Chosen
        <5>2. Claimed(a) /\ proposal[a].inc = worker[w].inc /\ approval[a] = "AUTO_AUTHORIZED"
          BY <2>6, <5>1 DEF LifeInv, Answerable, Concluding
        <5> QED
          BY <5>2
      <4> QED
        BY <4>1, <4>2
    <3>3. Answerable(w)'
      BY <1>1, <2>3, <2>6, <3>1, <3>2 DEF Answerable, Claimed
    <3>4. Concludes(w)
      BY <2>3 DEF Concludes
    <3> QED
      BY <2>2, <3>3, <3>4, LifeMoves
  <2> QED
    BY <2>4, <2>5, <2>6
<1>6. ASSUME NEW w \in Workers, NEW a \in ActionIds, NEW pc \in {"claimed", "writing"},
             verification' = verification, Move(w, At(pc, worker[w].inc, a)),
             Claimed(a)', proposal'[a].inc = worker[w].inc, verification[a] = "NOT_RUN"
      PROVE  LifeInv'
  <2>1. worker'[w] = At(pc, worker[w].inc, a) /\ \A v \in Workers \ {w} : worker'[v] = worker[v]
    BY <1>4, <1>6
  <2>2. Answerable(w)'
    BY <1>6, <2>1 DEF Answerable, At, Position, Claimed
  <2>3. Concludes(w)
    BY <1>6 DEF Concludes
  <2> QED
    BY <2>1, <2>2, <2>3, LifeMoves
<1>7. ASSUME NEW w \in Workers, worker'[w].pc \notin Concluding, Concludes(w),
             \A v \in Workers \ {w} : worker'[v] = worker[v]
      PROVE  LifeInv'
  <2>1. Answerable(w)'
    BY <1>7 DEF Answerable, Concluding
  <2> QED
    BY <1>7, <2>1, LifeMoves
<1>8. ASSUME NEW w \in Workers, ServiceStep(w) PROVE LifeInv'
  <2>1. CASE ApproveExpires(w) \/ ApproveRefused(w) \/ VerifyRefused(w) \/ Indexed(w)
    <3>1. Unanswerable
      BY <2>1 DEF ApproveExpires, ApproveRefused, VerifyRefused, Indexed, Unanswerable,
           Concluding, actionVars, TypeOK, Move, At, Position, Idle, Raised, Returned
    <3> QED
      BY <1>2, <3>1
  <2>2. CASE ApproveClaims(w)
    <3>1. PICK a \in ActionIds : a = worker[w].act
      BY <2>2 DEF ApproveClaims, Placed
    <3>2. approval[a] = "PENDING" /\ proposal[a].inc = worker[w].inc
      BY <2>2, <3>1 DEF ApproveClaims, Approvable, RowsOwn
    <3>3. verification[a] = "NOT_RUN"
      BY <3>2 DEF LifeInv, Claimed
    <3>4. /\ approval' = [approval EXCEPT ![a] = "APPROVED"]
          /\ UNCHANGED <<proposal, verification>>
          /\ Move(w, At("claimed", worker[w].inc, a))
      BY <2>2, <3>1 DEF ApproveClaims
    <3>5. Claimed(a)' /\ proposal'[a].inc = worker[w].inc
      BY <3>2, <3>4 DEF Claimed, TypeOK
    <3> QED
      BY <1>6, <3>3, <3>4, <3>5
  <2>3. CASE Dispatch(w)
    <3> DEFINE a == worker[w].act
    <3>1. /\ a \in ActionIds /\ Claimed(a) /\ proposal[a].inc = worker[w].inc
          /\ verification[a] = "NOT_RUN"
      BY <2>3 DEF Dispatch, LifeInv, Answerable, Concluding
    <3>2. /\ verification' = verification
          /\ Move(w, At("writing", worker[w].inc, a))
      BY <2>3 DEF Dispatch, actionVars
    <3> QED
      BY <1>1, <1>6, <3>1, <3>2
  <2>4. CASE WriteConfirmed(w) \/ VerifyStarts(w)
    <3> DEFINE a == worker[w].act
    <3>1. /\ a \in ActionIds => /\ Claimed(a) /\ proposal[a].inc = worker[w].inc
                                /\ approval[a] = "APPROVED" => verification[a] # "PASSED"
          /\ worker[w].pc \in {"writing", "preparing"}
      BY <2>4 DEF WriteConfirmed, VerifyStarts, LifeInv, Answerable, Concluding
    <3>2. PICK pc \in {"preparing", "checking"} : Move(w, At(pc, worker[w].inc, a))
      BY <2>4 DEF WriteConfirmed, VerifyStarts
    <3>3. /\ worker'[w] = At(pc, worker[w].inc, a)
          /\ \A v \in Workers \ {w} : worker'[v] = worker[v]
      BY <1>4, <3>2
    <3>4. verification' = verification
      BY <2>4 DEF WriteConfirmed, VerifyStarts, actionVars
    <3>5. Answerable(w)'
      BY <1>1, <3>1, <3>3, <3>4 DEF Answerable, At, Position, Claimed
    <3>6. Concludes(w)
      BY <3>4 DEF Concludes
    <3> QED
      BY <3>3, <3>5, <3>6, LifeMoves
  <2>5. CASE WriteUncertain(w) \/ VerifyBlocked(w) \/ \E passed \in BOOLEAN : VerifyEnds(w, passed)
    <3>1. worker[w].pc \in {"claimed", "writing", "preparing", "checking"}
      BY <2>5 DEF WriteUncertain, VerifyBlocked, VerifyEnds
    <3>2. Concludes(w)
      <4>1. CASE verification' = verification
        BY <4>1 DEF Concludes
      <4>2. ASSUME NEW outcome, worker[w].act # NoAction \/ worker[w].pc \in {"claimed", "writing"},
                   verification' = [verification EXCEPT ![worker[w].act] = outcome]
            PROVE  Concludes(w)
        <5>1. worker[w].act \in ActionIds
          BY <4>2 DEF LifeInv, Answerable, TypeOK, Positions
        <5> QED
          BY <3>1, <4>2, <5>1 DEF Concludes, Concluding, TypeOK
      <4> QED
        BY <2>5, <4>1, <4>2 DEF WriteUncertain, VerifyBlocked, VerifyEnds
    <3>3. PICK position : Move(w, position) /\ position.pc \notin Concluding
      BY <2>5 DEF WriteUncertain, VerifyBlocked, VerifyEnds, Returned, Idle, At, Position, Concluding
    <3>4. worker'[w] = position /\ \A v \in Workers \ {w} : worker'[v] = worker[v]
      BY <1>4, <3>3
    <3> QED
      BY <1>7, <3>2, <3>3, <3>4
  <2> QED
    BY <1>8, <2>1, <2>2, <2>3, <2>4, <2>5 DEF ServiceStep
<1>9. ASSUME NEW i \in Incidents, TaskStep(i) PROVE LifeInv'
  <2> USE DEF Workers
  <2>1. CASE \/ TaskStarts(i) \/ Execute(i) \/ TaskFails(i) \/ RuntimeLimit(i) \/ TaskPopped(i)
             \/ \E rejected \in BOOLEAN : DiagnoseForApproval(i, rejected)
             \/ \E call \in Calls : RequestFromAgent(i, call)
             \/ \E s \in {"ESCALATED", "OPEN"} : Conclude(i, s)
    <3>1. PICK position : Move(i, position) /\ position.pc \notin Concluding
      BY <2>1 DEF TaskStarts, Execute, TaskFails, RuntimeLimit, TaskPopped, DiagnoseForApproval,
           RequestFromAgent, Conclude, At, Position, Idle, Concluding
    <3>2. verification' = verification
      BY <2>1 DEF TaskStarts, Execute, TaskFails, RuntimeLimit, TaskPopped, DiagnoseForApproval,
           RequestFromAgent, Conclude, Propose, actionVars
    <3> QED
      BY <1>2, <1>4, <3>1, <3>2 DEF Unanswerable
  <2>2. ASSUME verification' = verification, VerifyAsIs(i) PROVE LifeInv'
    <3>1. PICK a \in ActionIds \cup {NoAction} :
            IsLatest(a, AutonomousOf(i)) /\ Move(i, At("verifyLock", i, a))
      BY <2>2 DEF VerifyAsIs
    <3>2. worker'[i] = At("verifyLock", i, a) /\ \A v \in Workers \ {i} : worker'[v] = worker[v]
      BY <1>4, <3>1
    <3>3. a \in ActionIds => approval[a] = "AUTO_AUTHORIZED" /\ proposal[a].inc = i
      BY <1>0, <3>1 DEF IsLatest, AutonomousOf, ActionsOf
    <3>4. Answerable(i)'
      BY <1>0, <1>1, <2>2, <3>2, <3>3 DEF Answerable, At, Position, Claimed
    <3>5. Concludes(i)
      BY <2>2 DEF Concludes
    <3> QED
      BY <3>2, <3>4, <3>5, LifeMoves
  <2>3. CASE \/ \E remedy \in BOOLEAN : DiagnoseAutonomously(i, remedy)
             \/ \E schemaError \in BOOLEAN : AuthorizationRefused(i, schemaError)
    <3>1. verification' = verification
      BY <2>3 DEF DiagnoseAutonomously, AuthorizationRefused, actionVars
    <3>2. \/ VerifyAsIs(i)
          \/ \E position : Move(i, position) /\ position.pc \notin Concluding
      BY <2>3 DEF DiagnoseAutonomously, AuthorizationRefused, At, Position, Concluding
    <3>3. ASSUME NEW position, Move(i, position), position.pc \notin Concluding PROVE Unanswerable
      BY <1>4, <3>1, <3>3 DEF Unanswerable
    <3> QED
      BY <1>2, <2>2, <3>1, <3>2, <3>3
  <2>4. ASSUME NEW t \in Targets, AuthorizeAndClaim(i, t) PROVE LifeInv'
    <3>1. PICK a \in ActionIds :
            /\ NextRows({a})
            /\ proposal' = [proposal EXCEPT ![a] = [inc |-> i, tool |-> "recover", target |-> t]]
            /\ approval' = [approval EXCEPT ![a] = "AUTO_AUTHORIZED"]
            /\ Move(i, At("claimed", i, a))
      BY <2>4 DEF AuthorizeAndClaim
    <3>2. verification[a] = "NOT_RUN"
      BY <3>1 DEF NextRows, LifeInv, Claimed
    <3>3. Claimed(a)' /\ proposal'[a].inc = i
      BY <3>1 DEF Claimed, TypeOK
    <3>4. worker[i].inc = i /\ verification' = verification
      BY <2>4 DEF AuthorizeAndClaim, Placed
    <3> QED
      BY <1>6, <3>1, <3>2, <3>3, <3>4
  <2>5. CASE AutonomousWriteEnds(i)
    <3> DEFINE a == worker[i].act
    <3>1. a \in ActionIds /\ approval[a] = "AUTO_AUTHORIZED" /\ proposal[a].inc = i
      BY <2>5 DEF AutonomousWriteEnds, LifeInv, Answerable, Concluding, Placed
    <3>2. worker'[i] = At("inspecting", i, a) /\ \A v \in Workers \ {i} : worker'[v] = worker[v]
      BY <1>4, <2>5 DEF AutonomousWriteEnds
    <3>3. Answerable(i)'
      BY <1>1, <3>1, <3>2 DEF Answerable, At, Position, Claimed
    <3>4. Concludes(i)
      BY <2>5 DEF AutonomousWriteEnds, Concludes, actionVars
    <3> QED
      BY <3>2, <3>3, <3>4, LifeMoves
  <2>6. ASSUME NEW passed \in BOOLEAN, InspectionEnds(i, passed) PROVE LifeInv'
    <3>1. /\ worker'[i] = At("thinking", i, NoAction)
          /\ \A v \in Workers \ {i} : worker'[v] = worker[v]
      BY <1>4, <2>6 DEF InspectionEnds
    <3>2. worker[i].act \in ActionIds
      BY <2>6 DEF InspectionEnds, LifeInv, Answerable
    <3>3. Concludes(i)
      BY <2>6, <3>2 DEF InspectionEnds, Concludes, Concluding, TypeOK
    <3> QED
      BY <1>7, <3>1, <3>3 DEF At, Position, Concluding
  <2> QED
    BY <1>9, <2>1, <2>3, <2>4, <2>5, <2>6 DEF TaskStep, Decide, AutonomousStep
<1>10. CASE Restart \/ (\E a \in ActionIds : Land(a) \/ Elapse(a)) \/ UNCHANGED vars
  <2>1. Unanswerable
    BY <1>10 DEF Restart, Land, Elapse, vars, Unanswerable, Concluding, Idle, At, Position,
         actionVars
  <2> QED
    BY <1>2, <2>1
<1> QED
  BY <1>3, <1>5, <1>8, <1>9, <1>10 DEF Next

\* Every step is one of the abstract life of an action, or leaves it alone.
LEMMA LifeStep ==
  ASSUME TypeInv, SendInv, RowsOwn, LifeInv, [Next]_vars
  PROVE  Life!Next \/ UNCHANGED Life!lifeVars
<1> USE DEF TypeInv, Life!lifeVars
<1>1. ASSUME NEW i \in Incidents, NEW N \in SUBSET ActionIds, NEW call \in [N -> Calls],
             Propose(i, N, call), UNCHANGED hostVars
      PROVE  Life!Next
  <2> DEFINE what == [a \in N |-> Exact(i, call[a])]
  <2>1. what \in [N -> Proposals]
    BY DEF Exact, Calls, Proposals
  <2>2. /\ \A a \in N : approval[a] = "ABSENT"
        /\ proposal' = [a \in ActionIds |-> IF a \in N THEN what[a] ELSE proposal[a]]
        /\ approval' = [a \in ActionIds |-> IF a \in N THEN "PENDING" ELSE approval[a]]
        /\ UNCHANGED <<verification, sent, landed>>
    BY <1>1 DEF Propose, NextRows, hostVars
  <2> HIDE DEF what
  <2>3. Life!Record(N, "PENDING")
    BY <2>1, <2>2 DEF Life!Record
  <2> QED
    BY <2>3 DEF Life!Next
<1>2. ASSUME NEW a \in ActionIds, NEW what \in {"APPROVED", "REJECTED", "EXPIRED"},
             approval[a] = "PENDING", approval' = [approval EXCEPT ![a] = what],
             UNCHANGED <<proposal, verification, hostVars>>
      PROVE  Life!Next
  <2>1. Life!Decide(a, what)
    BY <1>2 DEF Life!Decide, hostVars
  <2> QED
    BY <2>1 DEF Life!Next
<1>3. ASSUME NEW a \in ActionIds, NEW found \in {"PASSED", "FAILED", "BLOCKED"},
             Claimed(a), approval[a] = "APPROVED" => verification[a] # "PASSED",
             verification' = [verification EXCEPT ![a] = found],
             UNCHANGED approval \/ (found = "PASSED" /\ Life!Retire(proposal[a].inc)),
             UNCHANGED <<proposal, hostVars>>
      PROVE  Life!Next
  <2>1. Life!Conclude(a, found)
    BY <1>3 DEF Life!Conclude, Life!Granted, Claimed, hostVars
  <2> QED
    BY <2>1 DEF Life!Next
<1>4. CASE OperatorStep
  <2>1. ASSUME NEW i \in Incidents, ProposeOperation(i) PROVE Life!Next
    BY <1>1, <2>1 DEF ProposeOperation
  <2>2. ASSUME NEW a \in ActionIds, Reject(a) PROVE Life!Next
    BY <1>2, <2>2 DEF Reject
  <2>3. CASE \/ \E i \in Incidents : CreateIncident(i) \/ Investigate(i)
             \/ \E w \in Requests, a \in ActionIds : RequestApproval(w, a)
             \/ \E w \in Requests, i \in Incidents : RequestVerify(w, i)
             \/ \E i \in Incidents, p \in {"sound", "misfit", "missing"} : EditTopology(i, p)
    BY <2>3 DEF CreateIncident, Investigate, RequestApproval, RequestVerify, EditTopology,
         actionVars, hostVars
  <2> QED
    BY <1>4, <2>1, <2>2, <2>3 DEF OperatorStep
<1>5. ASSUME NEW w \in Workers, Acquire(w) \/ ServiceStep(w)
      PROVE  Life!Next \/ UNCHANGED Life!lifeVars
  <2> DEFINE i == worker[w].inc
  <2>1. CASE \/ Acquire(w) \/ ApproveRefused(w) \/ WriteConfirmed(w) \/ VerifyRefused(w)
             \/ VerifyStarts(w) \/ Indexed(w)
    BY <2>1 DEF Acquire, ApproveRefused, WriteConfirmed, VerifyRefused, VerifyStarts, Indexed,
         actionVars, hostVars
  <2>2. CASE ApproveExpires(w)
    BY <1>2, <2>2 DEF ApproveExpires, Placed
  <2>3. CASE ApproveClaims(w)
    BY <1>2, <2>3 DEF ApproveClaims, Approvable, Placed
  <2>4. CASE Dispatch(w)
    <3>1. PICK a \in ActionIds : a = worker[w].act
      BY <2>4 DEF Dispatch, Placed
    <3>2. Claimed(a) /\ sent[a] = 0 /\ verification[a] = "NOT_RUN"
      BY <2>4, <3>1 DEF Dispatch, SendInv, ClaimsDistinct, LifeInv, Answerable, Concluding
    <3>3. sent' = [sent EXCEPT ![a] = 1]
      BY <2>4, <3>1, <3>2 DEF Dispatch
    <3>4. Life!Send(a)
      BY <2>4, <3>2, <3>3 DEF Dispatch, Claimed, Life!Send, Life!Granted, actionVars
    <3> QED
      BY <3>4 DEF Life!Next
  <2>5. CASE WriteUncertain(w)
    <3>1. PICK a \in ActionIds : a = worker[w].act
      BY <2>5 DEF WriteUncertain, LifeInv, Answerable
    <3>2. Claimed(a) /\ verification[a] = "NOT_RUN"
      BY <2>5, <3>1 DEF WriteUncertain, LifeInv, Answerable, Concluding
    <3> QED
      BY <1>3, <2>5, <3>1, <3>2 DEF WriteUncertain
  <2>6. CASE VerifyBlocked(w)
    <3>1. CASE worker[w].act = NoAction
      BY <2>6, <3>1 DEF VerifyBlocked, hostVars
    <3>2. CASE worker[w].act # NoAction
      <4>1. PICK a \in ActionIds : a = worker[w].act
        BY <3>2 DEF TypeOK, Positions
      <4>2. Claimed(a) /\ (approval[a] = "APPROVED" => verification[a] # "PASSED")
        BY <2>6, <4>1 DEF VerifyBlocked, LifeInv, Answerable, Concluding
      <4> QED
        BY <1>3, <2>6, <3>2, <4>1, <4>2 DEF VerifyBlocked
    <3> QED
      BY <3>1, <3>2
  <2>7. ASSUME NEW passed \in BOOLEAN, VerifyEnds(w, passed)
        PROVE  Life!Next \/ UNCHANGED Life!lifeVars
    <3>1. /\ approval' = [a \in ActionIds |-> IF passed /\ a \in PendingOf(i) THEN "EXPIRED"
                                              ELSE approval[a]]
          /\ worker[w].pc = "checking" /\ UNCHANGED <<proposal, hostVars>>
      BY <2>7 DEF VerifyEnds, Retired
    <3>2. ~ passed \/ PendingOf(i) = {} => approval' = approval
      BY <3>1 DEF TypeOK
    <3>3. passed => Life!Retire(i)
      BY <3>1 DEF Life!Retire, PendingOf, ActionsOf
    <3>4. CASE worker[w].act = NoAction
      <4>1. verification' = verification
        BY <2>7, <3>4 DEF VerifyEnds
      <4>2. ASSUME passed, NEW b \in PendingOf(i) PROVE Life!Next
        <5>1. b \in ActionIds /\ approval[b] = "PENDING" /\ proposal[b].inc = i
          BY DEF PendingOf, ActionsOf
        <5>2. Life!Recover(b)
          BY <3>1, <3>3, <4>1, <4>2, <5>1 DEF Life!Recover, hostVars
        <5> QED
          BY <5>1, <5>2 DEF Life!Next
      <4> QED
        BY <3>1, <3>2, <4>1, <4>2 DEF hostVars
    <3>5. CASE worker[w].act # NoAction
      <4>1. PICK a \in ActionIds : a = worker[w].act
        BY <3>5 DEF TypeOK, Positions
      <4>2. /\ Claimed(a) /\ proposal[a].inc = i
            /\ approval[a] = "APPROVED" => verification[a] # "PASSED"
        BY <3>1, <4>1 DEF LifeInv, Answerable, Concluding
      <4>3. verification' = [verification EXCEPT ![a] = IF passed THEN "PASSED" ELSE "FAILED"]
        BY <2>7, <3>5, <4>1 DEF VerifyEnds
      <4> QED
        BY <1>3, <3>1, <3>2, <3>3, <4>2, <4>3
    <3> QED
      BY <3>4, <3>5
  <2> QED
    BY <1>5, <2>1, <2>2, <2>3, <2>4, <2>5, <2>6, <2>7 DEF ServiceStep
<1>6. ASSUME NEW i \in Incidents, TaskStep(i) PROVE Life!Next \/ UNCHANGED Life!lifeVars
  <2>1. ASSUME NEW rejected \in BOOLEAN, DiagnoseForApproval(i, rejected) PROVE Life!Next
    BY <1>1, <2>1 DEF DiagnoseForApproval
  <2>2. ASSUME NEW call \in Calls, RequestFromAgent(i, call)
        PROVE  Life!Next \/ UNCHANGED Life!lifeVars
    <3>1. CASE UNCHANGED <<status, actionVars>>
      BY <2>2, <3>1 DEF RequestFromAgent, actionVars, hostVars
    <3>2. ASSUME NEW a \in ActionIds, Propose(i, {a}, [b \in {a} |-> call]) PROVE Life!Next
      <4>1. [b \in {a} |-> call] \in [{a} -> Calls]
        OBVIOUS
      <4> QED
        BY <1>1, <2>2, <3>2, <4>1 DEF RequestFromAgent
    <3> QED
      BY <2>2, <3>1, <3>2 DEF RequestFromAgent
  <2>3. ASSUME NEW t \in Targets, AuthorizeAndClaim(i, t) PROVE Life!Next
    <3>1. PICK a \in ActionIds :
            /\ NextRows({a})
            /\ proposal' = [proposal EXCEPT ![a] = [inc |-> i, tool |-> "recover", target |-> t]]
            /\ approval' = [approval EXCEPT ![a] = "AUTO_AUTHORIZED"]
      BY <2>3 DEF AuthorizeAndClaim
    <3> DEFINE what == [b \in {a} |-> [inc |-> i, tool |-> "recover", target |-> t]]
    <3>2. what \in [{a} -> Proposals] /\ what[a].tool = "recover"
      BY DEF Proposals, Tools
    <3>3. /\ approval[a] = "ABSENT"
          /\ proposal' = [b \in ActionIds |-> IF b \in {a} THEN what[b] ELSE proposal[b]]
          /\ approval' = [b \in ActionIds |-> IF b \in {a} THEN "AUTO_AUTHORIZED" ELSE approval[b]]
      BY <3>1 DEF NextRows, TypeOK
    <3>4. UNCHANGED <<verification, hostVars>>
      BY <2>3 DEF AuthorizeAndClaim
    <3> HIDE DEF what
    <3>5. Life!Record({a}, "AUTO_AUTHORIZED")
      BY <3>2, <3>3, <3>4 DEF Life!Record, hostVars
    <3> QED
      BY <3>5 DEF Life!Next
  <2>4. ASSUME NEW passed \in BOOLEAN, InspectionEnds(i, passed) PROVE Life!Next
    <3>1. PICK a \in ActionIds : a = worker[i].act
      BY <2>4 DEF InspectionEnds, LifeInv, Answerable, Workers
    <3>2. Claimed(a) /\ approval[a] = "AUTO_AUTHORIZED"
      BY <2>4, <3>1 DEF InspectionEnds, LifeInv, Answerable, Concluding, Workers
    <3> QED
      BY <1>3, <2>4, <3>1, <3>2 DEF InspectionEnds
  <2>5. CASE \/ TaskStarts(i) \/ Execute(i) \/ TaskFails(i) \/ AutonomousWriteEnds(i)
             \/ RuntimeLimit(i) \/ TaskPopped(i)
             \/ \E remedy \in BOOLEAN : DiagnoseAutonomously(i, remedy)
             \/ \E s \in {"ESCALATED", "OPEN"} : Conclude(i, s)
             \/ \E schemaError \in BOOLEAN : AuthorizationRefused(i, schemaError)
    BY <2>5 DEF TaskStarts, Execute, TaskFails, AutonomousWriteEnds, RuntimeLimit, TaskPopped,
         DiagnoseAutonomously, Conclude, AuthorizationRefused, actionVars, hostVars
  <2> QED
    BY <1>6, <2>1, <2>2, <2>3, <2>4, <2>5 DEF TaskStep, Decide, AutonomousStep
<1>7. ASSUME NEW a \in ActionIds, Land(a) PROVE Life!Next
  <2>1. sent[a] = 1 /\ a \notin landed
    BY <1>7 DEF Land, SendInv, SentOnceAfterClaim, TypeOK
  <2>2. Life!Land(a)
    BY <1>7, <2>1 DEF Land, Life!Land, actionVars
  <2> QED
    BY <2>2 DEF Life!Next
<1>8. CASE Restart \/ (\E a \in ActionIds : Elapse(a)) \/ UNCHANGED vars
  BY <1>8 DEF Restart, Elapse, vars, actionVars, hostVars
<1> QED
  BY <1>4, <1>5, <1>6, <1>7, <1>8 DEF Next

\* Operators, tasks, late answers, cancellations and restarts together implement
\* the abstract life of an action, for any number of incidents, requests and
\* actions: it is decided once and sent once, nothing is sent of which an outcome
\* was recorded, and an approved action that passed its verification stays so.
THEOREM LifeRefinement == Spec => KeepsLife
<1>1. Init => SendInv /\ RowsOwn /\ LifeInv
  BY DEF Init, SendInv, SentOnceAfterClaim, ClaimsDistinct, RowsOwn, LifeInv, Answerable,
       Concluding, Idle, At, Position
<1>2. TypeInv /\ TypeInv' /\ LockHeld /\ SendInv /\ RowsOwn /\ LifeInv /\ [Next]_vars =>
        SendInv' /\ RowsOwn' /\ LifeInv'
  BY SendStep, RowsOwnStep, LifeInvStep
<1>3. Init => Life!Init
  BY DEF Init, Life!Init
<1>4. TypeInv /\ SendInv /\ RowsOwn /\ LifeInv /\ [Next]_vars => [Life!Next]_(Life!lifeVars)
  BY LifeStep
<1> QED
  BY <1>1, <1>2, <1>3, <1>4, TypeInvariance, LockInvariance, PTL DEF Spec, KeepsLife, Life!Spec

-----------------------------------------------------------------------------
\* What lands was sent, what is sent was granted, and the policy only grants
\* recoveries.
Accounted ==
  /\ SentOnceAfterClaim
  /\ \A a \in landed : sent[a] = 1
  /\ \A a \in ActionIds : approval[a] = "AUTO_AUTHORIZED" => proposal[a].tool = "recover"

\* Every step of the abstract life of an action keeps its accounts.
LEMMA AccountedStep ==
  ASSUME TypeOK, Accounted, Life!Next
  PROVE  Accounted'
<1> USE DEF TypeOK, Accounted, SentOnceAfterClaim, Claimed
<1>1. ASSUME NEW N \in SUBSET ActionIds, NEW how \in {"PENDING", "AUTO_AUTHORIZED"},
             Life!Record(N, how)
      PROVE  Accounted'
  BY <1>1 DEF Life!Record
<1>2. ASSUME NEW a \in ActionIds, NEW what \in {"APPROVED", "REJECTED", "EXPIRED"},
             Life!Decide(a, what)
      PROVE  Accounted'
  BY <1>2 DEF Life!Decide
<1>3. ASSUME NEW a \in ActionIds, Life!Send(a) PROVE Accounted'
  BY <1>3 DEF Life!Send, Life!Granted
<1>4. ASSUME NEW a \in ActionIds, Life!Land(a) PROVE Accounted'
  BY <1>4 DEF Life!Land
<1>5. ASSUME NEW a \in ActionIds, Life!Recover(a) PROVE Accounted'
  BY <1>5 DEF Life!Recover, Life!Retire
<1>6. ASSUME NEW a \in ActionIds, NEW found \in {"PASSED", "FAILED", "BLOCKED"},
             Life!Conclude(a, found)
      PROVE  Accounted'
  BY <1>6 DEF Life!Conclude, Life!Retire
<1> QED
  BY <1>1, <1>2, <1>3, <1>4, <1>5, <1>6 DEF Life!Next

\* The abstract life suffices to tell: no container or service of the host is
\* stopped by an action that no operator approved.
THEOREM NothingStoppedUnapproved == Spec => []Life!StopsApproved
<1>1. Init => Accounted
  BY DEF Init, Accounted, SentOnceAfterClaim
<1>2. TypeOK /\ Accounted /\ [Life!Next]_(Life!lifeVars) => Accounted'
  <2>1. CASE UNCHANGED Life!lifeVars
    BY <2>1 DEF Life!lifeVars, Accounted, SentOnceAfterClaim, Claimed
  <2> QED
    BY <2>1, AccountedStep
<1>3. TypeOK /\ Accounted => Life!StopsApproved
  BY DEF TypeOK, Accounted, SentOnceAfterClaim, Claimed, Life!StopsApproved
<1> QED
  BY <1>1, <1>2, <1>3, Typing, LifeRefinement, PTL DEF Spec, KeepsLife, Life!Spec

=============================================================================

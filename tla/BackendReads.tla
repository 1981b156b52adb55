--------------------------- MODULE BackendReads ---------------------------
(***************************************************************************)
(* What the backend and the page do while an operator looks on: the cached  *)
(* overview, the health of an application, the decisions of the language    *)
(* model and the page that polls.  They share no state that this module's   *)
(* properties are about, so that a behaviour has one of them at work.       *)
(***************************************************************************)
EXTENDS OverviewCache, ApplicationHealth, ModelDecision, Dashboard

VARIABLE at_work

readsVars ==
  <<at_work, now, overviewVars, applicationVars, decisionVars, dashboardVars>>

Parts == {"overview", "application", "decisions", "page"}

\* Every value keeps its type: handlers, snapshot, checks, counters, page.
TypeOK ==
  /\ at_work \in Parts /\ now \in Instants
  /\ OverviewTypeOK /\ ApplicationTypeOK /\ DecisionTypeOK /\ DashboardTypeOK

\* The choices of what is not at work are made once.
Parked ==
  /\ at_work # "overview" => policy = CHOOSE tools \in Policies : TRUE
  /\ at_work # "application" => depends = [s \in Services |-> {}]
  /\ at_work # "decisions" => provider = "ollama"
  /\ at_work # "page" => \A i \in Incidents : server[i] = 0

ReadsInit ==
  /\ now = 0
  /\ at_work \in Parts
  /\ OverviewInit /\ ApplicationInit /\ DecisionInit /\ DashboardInit
  /\ Parked

OverviewOnly == UNCHANGED <<at_work, now, applicationVars, decisionVars, dashboardVars>>
ApplicationOnly == UNCHANGED <<at_work, now, overviewVars, decisionVars, dashboardVars>>
DecisionsOnly == UNCHANGED <<at_work, now, overviewVars, applicationVars, dashboardVars>>
PageOnly == UNCHANGED <<at_work, now, overviewVars, applicationVars, decisionVars>>

\* Time passes while all that is at work waits for something.
Tick ==
  /\ now < MaxNow
  /\ \/ at_work = "overview" /\ OverviewBlocks
     \/ at_work = "application" /\ ApplicationBlocks
     \/ at_work = "decisions" /\ DecisionBlocks
  /\ now' = now + 1
  /\ UNCHANGED <<at_work, overviewVars, applicationVars, decisionVars, dashboardVars>>

ReadsNext ==
  \/ Tick
  \/ at_work = "overview" /\ OverviewNext /\ OverviewOnly
  \/ at_work = "application" /\ ApplicationNext /\ ApplicationOnly
  \/ at_work = "decisions" /\ DecisionNext /\ DecisionsOnly
  \/ at_work = "page" /\ DashboardNext /\ PageOnly

\* The clock and the event loop are fair; the gateway and the models owe nothing.
ReadsFairness ==
  /\ WF_readsVars(Tick)
  /\ \A r \in Requests :
       WF_readsVars(at_work = "overview" /\ (OverviewStep(r) \/ OverviewTimeout(r)) /\ OverviewOnly)
  /\ WF_readsVars(at_work = "application" /\ (ApplicationStep \/ ApplicationTimeout) /\ ApplicationOnly)
  /\ WF_readsVars(at_work = "decisions" /\ DecisionTimeout /\ DecisionsOnly)
  /\ WF_readsVars(at_work = "page" /\ Render /\ PageOnly)
  /\ \A q \in Slots :
       /\ SF_readsVars(at_work = "page" /\ Poll(q) /\ PageOnly)
       /\ SF_readsVars(at_work = "page" /\ flight[q].kind = "poll" /\ Answers(q) /\ PageOnly)
       /\ WF_readsVars(at_work = "page" /\ Progresses(q) /\ PageOnly)

ReadsSpec == ReadsInit /\ [][ReadsNext]_readsVars /\ ReadsFairness

-----------------------------------------------------------------------------
\* Every read ends, although nothing that it asks need answer: an overview or a
\* failure, a verdict, a decision or its failure.  And once the operator stays
\* with an incident that has come to rest, the page shows it as the server has it.
ReadsEnd ==
  /\ \A r \in Requests :
       reading[r].pc \notin {"idle", "served", "failed"} ~> reading[r].pc \in {"served", "failed"}
  /\ asking # Unasked ~> verdict # "none"
  /\ \A c \in Callers : calls[c].pc = "streaming" ~> calls[c].pc \in Ends
  /\ BecomesCurrent
=============================================================================

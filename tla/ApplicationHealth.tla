------------------------- MODULE ApplicationHealth -------------------------
(***************************************************************************)
(* check_application_health: the configured checks of an application and of *)
(* all it depends on, run a few at a time, and the verdict over them.       *)
(* Nothing else runs while the dependencies are visited, so that their      *)
(* order, which is abstracted, is not seen.                                 *)
(***************************************************************************)
EXTENDS MonotonicClock, FiniteSets

CONSTANTS
  Services,      \* keys of the topology
  Application,
  Checked,       \* the services that have a health check
  Topologies,    \* the depends_on that a topology file may have
  MaxPlan,       \* most checks of one plan (24)
  MaxChecks,     \* asyncio.Semaphore(6)
  CheckTimeout   \* agent_tool_timeout_seconds

ASSUME ApplicationAssumption ==
  /\ IsFiniteSet(Services) /\ Application \in Checked /\ Checked \subseteq Services
  /\ Topologies \subseteq [Services -> SUBSET Services]
  /\ MaxPlan \in Nat /\ MaxChecks \in Nat \ {0} /\ CheckTimeout \in Nat \ {0}

VARIABLES
  depends,  \* the topology as read before the first await
  asking,   \* until when the registry of the gateway is waited for
  visited,  \* names
  pending,  \* the calls of visit still to be made
  checks,   \* the check of each service
  verdict   \* what the endpoint answers

applicationVars == <<depends, asking, visited, pending, checks, verdict>>

Results == {"HEALTHY", "UNHEALTHY", "UNKNOWN"}
Unasked == -1
NoCheck == [state |-> "none", until |-> 0]

ApplicationTypeOK ==
  /\ depends \in [Services -> SUBSET Services]
  /\ asking \in Nat \cup {Unasked}
  /\ visited \subseteq Services /\ pending \subseteq Services
  /\ checks \in [Services -> [state : {"none", "queued", "running"} \cup Results,
                              until : Nat]]
  /\ verdict \in {"none", "refused"} \cup Results

ApplicationInit ==
  /\ depends \in Topologies
  /\ asking = Unasked /\ visited = {} /\ pending = {}
  /\ checks = [s \in Services |-> NoCheck]
  /\ verdict = "none"

-----------------------------------------------------------------------------
CheckIn(state) == {s \in Services : checks[s].state = state}

CheckStart ==
  /\ asking = Unasked /\ visited \cup pending = {} /\ verdict = "none"
  /\ asking' = now + CheckTimeout
  /\ UNCHANGED <<depends, visited, pending, checks, verdict>>

\* gateway.registry, or the exception that is answered with 503.
RegistryKnown ==
  /\ asking # Unasked /\ now <= asking
  /\ asking' = Unasked /\ pending' = {Application}
  /\ UNCHANGED <<depends, visited, checks, verdict>>

RegistryUnknown ==
  /\ asking # Unasked
  /\ asking' = Unasked /\ verdict' = "refused"
  /\ UNCHANGED <<depends, visited, pending, checks>>

\* Mutant of Visit: the dependencies of the application only.
VisitDirect(name) ==
  /\ name \in pending
  /\ visited' = visited \cup {name}
  /\ pending' = (IF name = Application THEN pending \cup depends[name] ELSE pending)
                  \ (visited \cup {name})
  /\ UNCHANGED <<depends, asking, checks, verdict>>

Visit(name) ==
  /\ name \in pending
  /\ visited' = visited \cup {name}
  /\ pending' = (pending \cup depends[name]) \ (visited \cup {name})
  /\ UNCHANGED <<depends, asking, checks, verdict>>

Plan == visited \cap Checked

\* The whole plan is made before the first check runs.
PlanChecks ==
  /\ visited # {} /\ pending = {} /\ verdict = "none"
  /\ CheckIn("none") = Services
  /\ IF Cardinality(Plan) > MaxPlan
     THEN verdict' = "refused" /\ UNCHANGED checks
     ELSE /\ checks' = [s \in Services |->
                          IF s \in Plan THEN [NoCheck EXCEPT !.state = "queued"] ELSE NoCheck]
          /\ UNCHANGED verdict
  /\ UNCHANGED <<depends, asking, visited, pending>>

StartCheck(s) ==
  /\ s \in CheckIn("queued")
  /\ Cardinality(CheckIn("running")) < MaxChecks
  /\ checks' = [checks EXCEPT ![s] = [state |-> "running", until |-> now + CheckTimeout]]
  /\ UNCHANGED <<depends, asking, visited, pending, verdict>>

\* A call that fails, times out or is not granted says nothing of the target.
CheckAnswers(s, result) ==
  /\ s \in CheckIn("running")
  /\ result # "UNKNOWN" => now <= checks[s].until
  /\ checks' = [checks EXCEPT ![s] = [state |-> result, until |-> 0]]
  /\ UNCHANGED <<depends, asking, visited, pending, verdict>>

Aggregate ==
  /\ verdict = "none" /\ CheckIn("none") # Services
  /\ CheckIn("queued") \cup CheckIn("running") = {}
  /\ verdict' = IF CheckIn("UNHEALTHY") # {} THEN "UNHEALTHY"
                ELSE IF CheckIn("UNKNOWN") # {} THEN "UNKNOWN" ELSE "HEALTHY"
  /\ UNCHANGED <<depends, asking, visited, pending, checks>>

ApplicationStep ==
  \/ (\E s \in Services : Visit(s) \/ StartCheck(s)) \/ PlanChecks \/ Aggregate

ApplicationTimeout ==
  \/ now >= asking /\ RegistryUnknown
  \/ \E s \in Services : now >= checks[s].until /\ CheckAnswers(s, "UNKNOWN")

ApplicationNext ==
  \/ CheckStart \/ RegistryKnown \/ RegistryUnknown \/ ApplicationStep
  \/ \E s \in Services, result \in Results : CheckAnswers(s, result)

ApplicationBlocks ==
  \/ now < asking
  \/ /\ CheckIn("running") # {}
     /\ \A s \in CheckIn("running") : now < checks[s].until
     /\ CheckIn("queued") # {} => Cardinality(CheckIn("running")) = MaxChecks

-----------------------------------------------------------------------------
(* Properties. *)

Closed(S) == \A s \in S : depends[s] \subseteq S

\* The services that the application depends on, directly or not, by definition:
\* those in every closed set it belongs to.
Dependencies ==
  {s \in Services : \A S \in SUBSET Services : Application \in S /\ Closed(S) => s \in S}

\* An application is only called healthy when the check of everything it
\* depends on, through cycles and shared dependencies too, was answered and
\* passed; and nothing else was asked.
HealthyThroughout ==
  /\ verdict = "HEALTHY" => \A s \in Dependencies \cap Checked : checks[s].state = "HEALTHY"
  /\ \A s \in Services \ Dependencies : checks[s].state = "none"
=============================================================================

--------------------------- MODULE OverviewCache ---------------------------
(***************************************************************************)
(* GET /overview: a snapshot of the server, built by one request at a time  *)
(* from concurrent gateway calls and served to all for a while, and the     *)
(* gateway's tool registry, which the backend reads once and keeps.         *)
(***************************************************************************)
EXTENDS MonotonicClock, FiniteSets

CONSTANTS
  Requests,      \* concurrent GET /overview handlers
  Signals,       \* the calls of a snapshot, each named after its tool
  Optional,      \* those that are only planned when the registry lists them
  Policies,      \* what the gateway may be configured to grant
  NoRequest,
  MaxAge,        \* how long a snapshot is served (30 s)
  MaxParallel,   \* asyncio.Semaphore(3)
  ToolTimeout    \* agent_tool_timeout_seconds

ASSUME OverviewAssumption ==
  /\ IsFiniteSet(Signals) /\ Optional \subseteq Signals /\ Optional # Signals
  /\ NoRequest \notin Requests /\ Policies \subseteq SUBSET Signals
  /\ MaxAge \in Nat \ {0} /\ MaxParallel \in Nat \ {0} /\ ToolTimeout \in Nat \ {0}

VARIABLES
  policy,    \* the tools that the running gateway grants
  registry,  \* DiagnosticGateway._registry
  lock,      \* Overview._lock
  snapshot,  \* Overview._cached and _expires, with the time of its oldest signal
  reading    \* the handlers

overviewVars == <<policy, registry, lock, snapshot, reading>>

\* What classify finds of a signal: one that failed is unknown, which is a warning.
Outcomes == {"ok", "warning", "critical"}
Call(state, until) == [state |-> state, until |-> until]
NoCalls == [s \in Signals |-> Call("none", 0)]

NoSnapshot == [taken |-> FALSE, oldest |-> 0, expires |-> 0, health |-> "none"]
NotReading == [pc |-> "idle", until |-> 0, seen |-> {}, calls |-> NoCalls, oldest |-> 0,
               age |-> 0]

OverviewTypeOK ==
  /\ policy \in Policies
  /\ registry \in [known : BOOLEAN, tools : SUBSET Signals]
  /\ lock \in Requests \cup {NoRequest}
  /\ snapshot \in [taken : BOOLEAN, oldest : Nat, expires : Nat,
                   health : {"none", "healthy", "warning", "critical"}]
  /\ reading \in [Requests ->
       [pc : {"idle", "waiting", "asking", "listed", "collecting", "served", "failed"},
        until : Nat, seen : SUBSET Signals, oldest : Nat, age : Nat,
        calls : [Signals -> [state : {"none", "queued", "running"} \cup Outcomes,
                             until : Nat]]]]

OverviewInit ==
  /\ policy \in Policies
  /\ registry = [known |-> FALSE, tools |-> {}]
  /\ lock = NoRequest
  /\ snapshot = NoSnapshot
  /\ reading = [r \in Requests |-> NotReading]

-----------------------------------------------------------------------------
\* The gateway is restarted with another configuration.
Regrant ==
  /\ policy' \in Policies
  /\ UNCHANGED <<registry, lock, snapshot, reading>>

Rounds == (Cardinality(Signals) + MaxParallel - 1) \div MaxParallel

\* The model's bound on time leaves every handler the time it may need; an
\* operator who was answered asks again at a later instant.
Ask(r) ==
  /\ \/ reading[r].pc = "idle"
     \/ reading[r].pc \in {"served", "failed"} /\ now > reading[r].until
  /\ now + Cardinality(Requests) * (Rounds + 1) * ToolTimeout <= MaxNow
  /\ reading' = [reading EXCEPT ![r] = [NotReading EXCEPT !.pc = "waiting"]]
  /\ UNCHANGED <<policy, registry, lock, snapshot>>

\* Mutant of LockFree: the lock is only held while the cache is looked up.
LockFreeAlways == TRUE

LockFree == lock = NoRequest

Fresh == snapshot.taken /\ now < snapshot.expires

Served(age) == [NotReading EXCEPT !.pc = "served", !.until = now, !.age = age]

\* Mutant of Serve: a snapshot that is asked for lives on.
ServeAndRenew(r) ==
  /\ reading[r].pc = "waiting" /\ LockFree /\ Fresh
  /\ reading' = [reading EXCEPT ![r] = Served(now - snapshot.oldest)]
  /\ snapshot' = [snapshot EXCEPT !.expires = now + MaxAge]
  /\ UNCHANGED <<policy, registry, lock>>

Serve(r) ==
  /\ reading[r].pc = "waiting" /\ LockFree /\ Fresh
  /\ reading' = [reading EXCEPT ![r] = Served(now - snapshot.oldest)]
  /\ UNCHANGED <<policy, registry, lock, snapshot>>

\* What is asked of the gateway, given its registry.
Planned(tools) ==
  [s \in Signals |-> Call(IF s \in Optional /\ s \notin tools THEN "none" ELSE "queued", 0)]

Collecting(request, tools) ==
  [request EXCEPT !.pc = "collecting", !.seen = tools, !.calls = Planned(tools),
                  !.oldest = MaxNow]

Rebuild(r) ==
  /\ reading[r].pc = "waiting" /\ LockFree /\ ~Fresh
  /\ lock' = r
  /\ reading' = [reading EXCEPT ![r] =
       IF registry.known THEN Collecting(@, registry.tools)
       ELSE [@ EXCEPT !.pc = "asking", !.until = now + ToolTimeout]]
  /\ UNCHANGED <<policy, registry, snapshot>>

\* GET /tools is answered; the answer is used after another await.
ToolsListed(r) ==
  /\ reading[r].pc = "asking" /\ now <= reading[r].until
  /\ reading' = [reading EXCEPT ![r].pc = "listed", ![r].seen = policy]
  /\ UNCHANGED <<policy, registry, lock, snapshot>>

Remember(r) ==
  /\ reading[r].pc = "listed"
  /\ registry' = [known |-> TRUE, tools |-> reading[r].seen]
  /\ reading' = [reading EXCEPT ![r] = Collecting(@, @.seen)]
  /\ UNCHANGED <<policy, lock, snapshot>>

\* Mutant of ListingFails: the lock is released at the end of the snapshot.
ListingFailsLocked(r) ==
  /\ reading[r].pc = "asking"
  /\ reading' = [reading EXCEPT ![r].pc = "failed", ![r].until = now]
  /\ UNCHANGED <<policy, registry, lock, snapshot>>

\* An exception inside the async with gives the lock back.
ListingFails(r) ==
  /\ reading[r].pc = "asking"
  /\ reading' = [reading EXCEPT ![r].pc = "failed", ![r].until = now]
  /\ lock' = NoRequest
  /\ UNCHANGED <<policy, registry, snapshot>>

InState(r, state) == {s \in Signals : reading[r].calls[s].state = state}

\* collect, up to the await of the gateway: the call may not even be made.
StartCall(r, s) ==
  /\ s \in InState(r, "queued")
  /\ Cardinality(InState(r, "running")) < MaxParallel
  /\ reading' = [reading EXCEPT ![r].calls[s] =
       IF s \in reading[r].seen \cap registry.tools
       THEN Call("running", now + ToolTimeout) ELSE Call("warning", 0)]
  /\ UNCHANGED <<policy, registry, lock, snapshot>>

\* The gateway answers of what it grants now; any exception is a warning.
Answered(r, s, outcome) ==
  /\ s \in InState(r, "running")
  /\ outcome # "warning" => s \in policy /\ now <= reading[r].calls[s].until
  /\ reading' = [reading EXCEPT ![r].calls[s] = Call(outcome, 0),
                                ![r].oldest = Earlier(@, reading[r].calls[s].until - ToolTimeout)]
  /\ UNCHANGED <<policy, registry, lock, snapshot>>

\* classify
Health(r) ==
  IF InState(r, "critical") # {} THEN "critical"
  ELSE IF InState(r, "warning") # {} THEN "warning"
  ELSE "healthy"

Store(r) ==
  /\ reading[r].pc = "collecting"
  /\ InState(r, "queued") \cup InState(r, "running") = {}
  /\ LET oldest == Earlier(reading[r].oldest, now) IN
     /\ snapshot' = [taken |-> TRUE, oldest |-> oldest, expires |-> now + MaxAge,
                     health |-> Health(r)]
     /\ reading' = [reading EXCEPT ![r] = Served(now - oldest)]
  /\ lock' = NoRequest
  /\ UNCHANGED <<policy, registry>>

OverviewStep(r) ==
  \/ Serve(r) \/ Rebuild(r) \/ Remember(r) \/ Store(r)
  \/ \E s \in Signals : StartCall(r, s)

OverviewTimeout(r) ==
  \/ now >= reading[r].until /\ ListingFails(r)
  \/ \E s \in Signals : now >= reading[r].calls[s].until /\ Answered(r, s, "warning")

OverviewNext ==
  \/ Regrant
  \/ \E r \in Requests :
       \/ Ask(r) \/ OverviewStep(r) \/ ToolsListed(r) \/ ListingFails(r)
       \/ \E s \in Signals, outcome \in Outcomes : Answered(r, s, outcome)

\* A handler lets time pass only in an await, and a timeout ends each of them.
OverviewBlocks ==
  \A r \in Requests :
    /\ reading[r].pc = "waiting" => ~LockFree
    /\ reading[r].pc # "listed"
    /\ reading[r].pc = "asking" => now < reading[r].until
    /\ reading[r].pc = "collecting" =>
         /\ \A s \in InState(r, "running") : now < reading[r].calls[s].until
         /\ Cardinality(InState(r, "running")) =
              Earlier(MaxParallel,
                      Cardinality(InState(r, "running") \cup InState(r, "queued")))
         /\ InState(r, "running") # {}

-----------------------------------------------------------------------------
(* Properties. *)

\* No operator is shown a signal as old as the cache may get and the time that
\* the bounded rounds of one collection can take, whoever asked before him.
ServedFresh ==
  \A r \in Requests :
    reading[r].pc = "served" => reading[r].age < MaxAge + Rounds * ToolTimeout

\* However many operators ask at once, and whichever builds fail, the overview
\* has no more calls at the gateway than the semaphore of one build allows.
CallsBounded ==
  Cardinality({c \in Requests \X Signals : reading[c[1]].calls[c[2]].state = "running"})
    <= MaxParallel
=============================================================================

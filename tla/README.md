# A verification development of HomeAiAgent

TLA+ specifications of the incident agent in this repository, the TLC runs that
check them and the TLAPS proofs about them. The reference is the code under
`src/`; line numbers below are of that code.

## 1. The system

HomeAiAgent watches over a home server. Three processes matter:

- the **backend** (`backend/app`, FastAPI, one worker, one event loop, SQLite or
  PostgreSQL through synchronous sessions) keeps incidents, runs one asynchronous
  investigation per incident in which a language model chooses diagnostics and
  proposes remediations, and carries out the remediations an operator approved
  or a policy authorised;
- the **diagnostic gateway** (`diagnostic_gateway`, FastAPI, synchronous handlers
  in a thread pool) runs a fixed set of commands on the host. A write needs a
  signed, expiring, one-use approval, which a small SQLite ledger enforces;
- the **dashboard** (`frontend`, Next.js) polls the backend and sends the
  operator's decisions through a proxy.

```
 operator -> dashboard -> proxy -> backend API --- IncidentService --- gateway -> host
                                      |                 ^  (locks)        |
                                      +-- task: Agent --+               ledger
                                            |   ^
                                   language model, vector store
```

The backend's actors are coroutines of one event loop. Database sessions are
synchronous and closed before the next `await`, so the code between two awaits is
atomic, and everything can happen at an await. That is the grain of the models:
**one action is the code between two awaits** (for the gateway, whose handlers are
threads: the code between two commits, or between two calls that block).

### Inventory

| Component | State | Operations | What is hard | What makes it correct | Model |
|---|---|---|---|---|---|
| Incident service (`service.py`) | status, resolution time, actions; a lock per incident | `execute_autonomous`, `approve`, `reject`, `verify` | approvals racing each other, rejections, expiry and the task; cancellation inside a write; restarts; topology edits | a write is sent once and after its claim; one service call per incident; decisions are final; recovery retires proposals; verification ends | `IncidentLifecycle`, `ActionLife` |
| Approval ledger and signed writes (`diagnostic_gateway/safety.py` 395-434, `main.py` 58-100, backend `gateway.py` 49-68) | consumed IDs and results (durable), handler threads | sign, consume, run, complete, answer, stop, start | duplicate and late requests, crash between consume and complete, a command outliving its client, thread exhaustion | at most one effect; only on record; honest answers; threads return | `GatewayLedger`, `WriteOnce` |
| Investigation task (`agent.py`) | observations, calls of the run, budget, rejection count | routed diagnostic, read, diagnose, propose, execute, conclude | duplicate guard, offered schema and budget are kept apart; a diagnosis rejected half way; runtime limit at any await | no repetition without a write between; what a narrowed schema offers is accepted; budget; termination | `AgentLoop`, effects in `IncidentLifecycle` |
| HTTP API and lifespan (`main.py`) | task dictionary | create, investigate, verify, approve, reject, propose, restart | registering and popping tasks; recovery of interrupted incidents | parallel limit; no incident left VERIFYING | `IncidentLifecycle` |
| Autonomous policy (`autonomy.py`) | none | `authorize` | repeated restarts across runs and restarts | one attempt per target, within the budget | both |
| Topology (`topology.py`) | a file read at each use | `load_topology`, dependency walk | edits while in use; cycles and shared dependencies | checks cover target and service; the walk reaches all | its outcomes in `IncidentLifecycle`; the walk in `ApplicationHealth` |
| Model providers (`llm.py`, `schemas.py`) | counters shared by all incidents | offered schema, decision, repair, classification | malformed answers, stalled streams, concurrent callers | targets already observed are not offered where they are enumerated; counters agree with the calls; prompts fit | schema in `AgentLoop`; the calls in `ModelDecision` |
| Context compaction (`context.py`) | none | budget arithmetic | rounding, least shares, the second pass | fits the budget, keeps every observation | `ContextBudget` |
| Routing (`routing.py`) | none | first diagnostic | an empty target | only granted calls | container route in `AgentLoop` |
| Overview cache (`overview.py`, `gateway.py` 29-47) | snapshot and its expiry, a lock, the registry that is read once | get, build, classify | concurrent requests, a failure inside the lock, a regranted gateway | fresh within its age; one build at a time; ends | `OverviewCache` |
| Application health (`application_health.py`) | none | visit, plan, bounded checks, aggregate | cycles and diamonds, failed and bounded calls | healthy means all of it was asked and passed | `ApplicationHealth` |
| Dashboard (`frontend/app/page.tsx`) | shown incident, requests in flight | poll, open, operate, create, leave | answers out of order | shows what is selected, and comes to show its state | `Dashboard` |
| Bounded commands (`diagnostic_gateway/safety.py` 89-136) | process, two pipes, bytes read, deadline | read, end, kill, reap | output at the bound, heirs of pipes, processes that do not die | cut output is marked; it ends in time; the group goes with it | `HostCommand` |
| Atlas diagnostic (`tools.py` 236-340, `safety.py` 163-289) | shards, addresses, probes left, deadline | SRV, resolve, probe, verdict | mixed and cut DNS answers, exhaustion at the last address | what is kept of an answer is public; unreachable only when all that was kept was tried | `AtlasProbe` |
| HTTP, port, DNS and ping diagnostics (`tools.py`, `safety.py` 139-161, 291-394) | a socket with two owners, a deadline | resolve, connect, handshake, send, read, close | dripping peers, `Connection: close`, order of the closes | pinned and vetted; no use after close, no leak; ends in time | `HttpProbe` |
| Read-only tools (`tools.py`, `main.py` 22-31, 58-100) | none beyond the above | command(s), parsing of rows, `bounded_result` | rows cut in the middle, several bounds in a row | what is not marked is whole; nothing is missing that is there | `GatewayRequest` |
| Retrieval (`rag.py`) | external collection | ensure, index, search | - | - | not modelled |
| Redaction, confidence, settings, failures, migrations, login, evaluation, scripts, deployment | none or generated | - | - | - | not modelled |

`PROJECT.json` lists each with its sources, and under `hazards` what is hard to
test, at its line, with the properties that watch it.

## 2. The modules

| Module | What it is |
|---|---|
| `WriteOnce` | abstract promise of the gateway: claim, effect, verdict |
| `GatewayLedger` | the gateway's write path; implements `WriteOnce` |
| `GatewayLedgerProofs` | its invariants and the refinement, proved |
| `ActionLife` | abstract promise of the backend: an action is recorded, decided, sent, landed, concluded |
| `IncidentLifecycle` | coroutines of the backend over incidents, actions, locks and tasks; implements `ActionLife` |
| `IncidentLifecycleProofs` | its safety properties and the refinement, proved |
| `AgentLoop` | the decision loop of an investigation over observations and budgets |
| `AgentLoopProofs` | its safety properties, proved |
| `MonotonicClock` | `time.monotonic()`, and that a blocking call with a timeout returns by it |
| `HostCommand` | `run_command`: the selector loop, its bounds, its process group |
| `AtlasProbe` | `mongodb_atlas_connectivity` with its lookups and probes |
| `HttpProbe` | `resolve_addresses`, `http_probe` and its `DeadlineSocket`, `port_check` |
| `GatewayRequest` | one request of any tool: composes the three with the handlers of `tools.py` |
| `OverviewCache` | `GET /overview` and the gateway's registry |
| `ApplicationHealth` | `check_application_health` |
| `ContextBudget` | `compact_context` as a function of sizes |
| `ModelDecision` | the calls of both model providers and their counters; uses `ContextBudget` |
| `Dashboard` | the page and its requests |
| `BackendReads` | composes the last five, and states their common liveness |
| `HostCommandProofs`, `AtlasProbeProofs`, `HttpProbeProofs`, `GatewayRequestProofs`, `BackendReadsProofs` | their safety properties, proved |
| `MC*` | the constants TLC is given |

### GatewayLedger

`wire` is the set of signed requests ever sent; any of them may arrive, late and
again, which also stands for loss. `job` is one record per worker thread. A
handler checks scope and policy (`FailEarly`), lifetime, signature and the ledger
(`Deny`), consumes the ID in one commit (`Consume`), issues the host command
(`Run`), and returns when its client ends or is killed (`Return`). The command
itself belongs to the host's daemon (`daemon`) and may `Land` after its client was
killed, or be dropped. `Complete` writes the result and answers; `CompleteFails` is
the database failing there. `Stop` may come anywhere; `consumed` and `result` are
the only things that survive it. An `ok` is given only of a client that ended well,
hence of a command that landed (`Succeeded`).

The backend may sign the same ID again (`Sign` has no guard), which is what a
restored backend database amounts to: that the write happens once does not rest
on the backend.

### IncidentLifecycle

`worker` holds the coroutines: one per operator request slot and one per incident
for its investigation. `pc` is the await where it is suspended; `Locked` are the
points inside a critical section of `_locks[incident]`. `lock` names the holder; every
way out of a critical section (return, refusal, timeout, cancellation, restart)
gives it back in the action that models it, as the `async with` does. `approve`,
`verify` and `execute_autonomous` each have a point waiting for the lock, one for
the registry (or the permission), and one for each call of the gateway. `sent`
counts the signed requests of an action and `landed` holds the actions whose write
changed the host, which may happen after the backend stopped waiting for it.
`RuntimeLimit` cancels the task at whatever await it is in; `Restart` ends every
coroutine and applies the lifespan handler (main.py 55-57).

A decision of the model is one action per kind of effect (`DiagnoseForApproval`,
`DiagnoseAutonomously`, `Execute`, `RequestFromAgent`, `Conclude`, `TaskFails`), with
anything the decision type allows. A service profile is *sound*, *missing* (no check
covers the service or the target: verification is blocked) or a *misfit* (a check
the registry does not grant: the call is refused); it may be edited at any time
when `TopologyEdits` is set. A topology that cannot be parsed behaves as a misfit.

`ActionLife` is what all of this comes to for one action, without incidents' statuses,
coroutines, locks or restarts. The mapping (`Life`) renames three variables and
drops the rest. It promises that an action is decided once; that it is sent once, when
it was granted and before anything was concluded of it; that an approved action
which passed its verification is never concluded again (an autonomous one may be:
a diagnosis without a remediation takes the last one up whatever its outcome); and that only a
verification that passes makes the other proposals of its incident stale.

### AgentLoop

One incident and its investigations one after the other. `obs` is
`Incident.observations`; `calls` the signatures the run has used; `left` the
decisions it may still ask for; `invalid` the rejections. The model decides
whatever its decision type allows, offered or not, and tools answer whatever they
like. `Offered` is what `remaining_parameters` leaves of the diagnostics: a tool
whose required arguments are enumerated, by no more values than 256 (`Narrowed`,
`MaxChoices`), loses the targets observed since the last write; every other tool keeps
its whole schema, an executed call included, and the duplicate guard refuses the
repetition (llm.py 57; MODEL_EVALUATION.md 43 and 48 count such refusals). `find_process`, whose
name is free, stands for these (`inspect_process`, `port_check`); a tool without required
arguments is one with a single choice. `Proposable` is `validate_remediation_preconditions` and
`Authorized` is `authorize`. The age limit of evidence is exact without a clock:
an EXECUTE_ACTION weighs some suffix of the observations, a DIAGNOSIS any cited
subset. Observations show one of four results (failed, stopped, sick, fine), which
is all that `authorize` tells apart.

Targets are containers. The rules for systemd units, `stop_*` proposals and
incidents opened by `propose_operation` change the rows, not the loop, and are in
`IncidentLifecycle`; there, what the loop decides is arbitrary. What an approval
does under its lock is one step in `AgentLoop`. Retrieval and compaction change what
the model reads, never what it is offered, and are left out.

### GatewayRequest, HostCommand, AtlasProbe, HttpProbe

A request is one worker thread, and a step is what it does between two calls that
block. Time is `now`: `CommandBlocks`, `AtlasBlocks` and `HttpBlocks` say when a
blocked call lets the clock pass, which is never beyond its timeout. That the
timeouts add up, that each is computed from the right deadline and that nothing
renews one is then a property (`AnsweredInTime`) and no assumption.

Output is counted in units of half a row, so that a cut may fall inside a row, and
a listing is the set of containers it names. A command chooses its script before
it runs: what it writes, its exit status, whether a descendant inherits a pipe, whether
the kernel lets it die. `run_command` reads one unit more than it has room for,
which is how it tells a full buffer from a longer output (`Chunk`); `finally` kills
the group only if the leader still runs (`Finish`). The handlers differ in what
they do with cut output: documents are refused (`Refuses`), rows are taken as far
as they go and marked, two tools do not mark (`Unmarked`), three cut their lists
at a number of rows (`Listed`), and `bounded_result` has the last word (`Bounded`).

An address is a number, in the order in which the code sorts addresses; `LookupAnswers` and
`DnsAnswers` leave the whole answer, and `Resolved` and `Vetted` the addresses the code
keeps of it (the first 16, of a shard 4) before it checks them. A DNS answer
is any set, per family, and an empty answer stands for none or a timeout. SRV records are
hosts; one with another port or outside the suffix is one of `ForeignHosts`. The
socket of an HTTP request is held by the connection (`attached`) and by the file
object of the response (`refs`): `http.client` closes the connection as soon as it
reads `Connection: close`, before the body is read, and the socket must live on.

Signatures, scope and the ledger come before all this and are in `GatewayLedger`,
where a handler that runs is assumed to return: `AnsweredInTime` and `AlwaysAnswered`
are why it may be.

### BackendReads and its parts

The overview, the health check, the model's callers and the page share no state
that the properties are about, so a behaviour has one of them `at_work`, chosen at
the start; the clock is common.

- `OverviewCache`: a handler waits for the lock, is served a fresh snapshot or builds
  one: it asks for the registry if it is not known (`ToolsListed` and `Remember` are two
  steps, with an await between), starts its calls as the semaphore lets it, classifies
  and stores. `Regrant` is a restart of the gateway with another configuration. A
  snapshot carries the time of its oldest signal, a history variable.
- `ApplicationHealth`: the visit as a set of names still to be visited (nothing else
  runs meanwhile, so its order is not seen), the plan, the bounded checks, the verdict.
- `ModelDecision`: a caller has a prompt made by `CompactContext`, a schema and at most
  two attempts. A reply is a member of a few classes, and `Parsed` says what each of
  the parsers makes of it: `parse_ollama_action` raises TypeError for a number, a
  Boolean, null or an array of objects, and the handled ValueError for a string or an
  array of strings (`words`). The
  deadline is that of the agent, and cancellation skips the handlers of `Exception`.
- `ContextBudget`: a context is its sizes; the result of compaction is the set of
  sizes it may end with, and the last exception is one of its states.
- `Dashboard`: an incident is a version that every change raises. An effect is
  `mounted` after a render, which comes some time after `setSelected`; its cleanup ends
  what its polls may do (`live`). Slots bound the requests in flight.

## 3. The runs

Every run finishes in about two minutes or less on two cores.

| Run | Bounds | Shows |
|---|---|---|
| `GatewayLedger` | a granted and an ungranted ID, 2 threads, 2 secrets, clock 0..1, lifetime 1 of at most 2 | type; `AtMostOnce`; `CommandsOnRecord`; `HonestOk`; the refinement `KeepsPromise`; `ThreadsComeBack` |
| `LifecycleManual` | 1 incident, 2 operator requests, 2 actions, any profile, approval required | type; `SentOnceAfterClaim`; `ResolvedRetiresProposals`; `VerifyingHasWorker`; `DecisionsAreFinal` |
| `LifecycleContention` | 1 incident, 1 request, 2 actions, autonomous, topology edited at any time | `OneServiceCallPerIncident`; `ResolvedAfterWrites`; the refinement `KeepsLife` |
| `LifecycleAutonomous` | 2 incidents for one slot, 2 actions, no operator | `NoRestartLoop`; `ParallelLimit` |
| `LifecycleProgress` | 1 incident, 1 request, 1 action | `TasksEnd`; `VerifyingEnds` |
| `AgentLoop` | 1 container with state and logs, 1 process name, enumerations of 1, 3 steps, 4 model calls, 2 investigations, both modes | type; `NoRepeatBetweenWrites`; `OfferedIsAccepted`; `WithinBudget`; `RunsEnd` |
| `GatewayRequest` | one request of each tool; 2 containers, output up to 4 half rows and a unit of noise, bound 4, reads of 2; 2 shards, a foreign host, 3 addresses of which the last is private, 2 kept of an answer, 3 probes; clock 0..9 | type; `AnswerIsWhole`; `MissingIsAbsent`; `SurvivorsAreOrphans`; `DestinationsVetted`; `UnreachableIsEarned`; `SocketOutlivesResponse`; `AnsweredInTime`; `AlwaysAnswered` |
| `BackendReads` | 2 operators, 2 signals, 2 policies; 4 services in 4 topologies; 2 callers, 4 contexts, 2 schemas; 2 incidents, 2 requests, 2 versions; clock 0..10 | type; `ServedFresh`; `CallsBounded`; `HealthyThroughout`; `MetricsAgree`; `PromptWithinBudget`; `PollKeepsSelection`; `ReadsEnd` |
| `LifecycleUnverifiedWrite`, `LifecycleOrphan`, `LifecycleStaleDate`, `AgentLoopBlindRetry` | small | what a document or a test says and the code does not do (section 6) |

Why the bounds are enough to be interesting:

- One granted ID is enough for a duplicate, since the wire delivers it to both
  threads and across restarts; the second ID separates refusal by policy from
  refusal by the ledger; two secrets make a bad signature; a clock of one tick
  makes a request expire, and the maximal lifetime of two one that lives too long.
- Two request slots are the least for two operators on one proposal; two actions
  the least for "another proposal is pending" and for a failed write followed by
  another. `LifecycleContention` replaces the second operator by the task.
- Two incidents and one slot are the least for the parallel limit; the proofs lift
  all of these numbers.
- Three decisions are the least for three rejections, and a routed call then
  leaves two. Two investigations are the least for observations of an earlier
  run. One container is as many as a schema may enumerate, so its tools are narrowed, and the
  process name is beside it, so both kinds of tool are offered. `MaxRows` and `MaxObs`
  bound proposals and the length of the history.

- With noise on the second pipe the output may be one unit beyond the byte bound,
  exactly at it, or below; reads of two units cut at every place. Limits of one or
  two ticks and least waits of one make every timeout race an answer; two shards
  with up to two addresses each and three probes make the budget end before, at
  and after the last address of a shard, and a foreign host and a private address
  make mixed answers. The private address sorts last and two addresses are kept: of an answer
  of two it is kept, and the answer refused; of an answer of three it is cut, and the
  rest used. `MaxNow` is beyond the sum of the limits of every tool, so the clock
  never holds a request up before its bound.
- Two operators and a semaphore of one make a second build or a queue of calls; the clock lets
  a snapshot expire and be rebuilt. Four services are the least for a cycle that
  does not contain the database, a diamond, and a plan beyond `MaxPlan`. The sizes of prompts
  are those of the code's settings, the smallest window that may be configured among
  them; one context is chosen so that the least share of a short result overruns the
  weighted pass. Two requests and two incidents are the least for an answer out of order.

`CHECK_DEADLOCK FALSE` is given to `AgentLoop` and its violation run (after the last
investigation the bounds allow, an incident nobody acts on rests) and to
`GatewayRequest` and `BackendReads` (a request that was answered, and operators
whose reads have ended, rest). `LifecycleProgress` does not edit the
topology, because of the behaviour described at the end of section 6.

### Fairness

- Gateway: `run_command` kills its process at its deadline, so a handler that runs
  returns, a returned one completes, and a queued one is started by its pool. No
  fairness for the network, the host's daemon, or the process being started.
- Backend: `asyncio.Lock` serves its waiters in order, so a waiter that can acquire
  the lock again and again does (strong fairness of `Acquire`); every await of
  `service.py` is under `wait_for` or the client's timeout (weak fairness of
  `ServiceStep` and `AutonomousStep`); a created task is scheduled; the runtime limit
  is a timer of the loop (`RuntimeLimit`); done-callbacks run (`TaskPopped`). Nothing
  is assumed of an operator, the model or the gateway: `TasksEnd` rests on the
  runtime limit, never on a decision.
- AgentLoop: weak fairness of the run's own steps, each of which awaits something
  with a deadline. `RuntimeLimit` is deliberately not fair there, so that `RunsEnd`
  shows that the loop's own counters end it.

- GatewayRequest: weak fairness of the clock, of the handler's own steps (`Step`), and
  of what the thread does once a call has returned or its timeout has passed
  (`Proceeds`). Commands, DNS servers and peers owe nothing.
- BackendReads: weak fairness of the clock, of the steps of the handlers and of
  the timeouts that `wait_for` and the client set; nothing of the gateway or the model.
  For the page, rendering and the progress of a request (which may be failure), and
  strong fairness of the timer's polls and of their answers: the part of `ReadsEnd`
  about the page says that *if* polls are not lost for ever the page becomes current.

Each property of a passing run has a mutant in `PROJECT.json`: a plausible bug
(the operator named `as`, defined before the definition it replaces) under which
the same run finds the property violated.

## 4. The proofs

`GatewayLedgerProofs` (for every set of IDs, threads and secrets and all bounds):
`Typing`, `WritesAtMostOnce`, `EveryCommandOnRecord`, `AnswersAreHonest` and
`Refinement` (`Spec => WriteOnce!Spec`). `AtMostOnce` is not inductive: a second
handler of the same ID, or a command still with the daemon, could run again. The
invariant `OneHandlerPerId /\ Once /\ Honest` says that a busy handler belongs to a
consumed ID and to no other handler, that a queued handler or a flying command has
had no effect yet, and that what is not yet in the ledger is not claimed by it.

`IncidentLifecycleProofs` (for every set of incidents, requests and targets and all
bounds): `Typing`, `WritesSentOnce`, `MutualExclusion`, `ResolutionAfterWrites`,
`DecisionsStayFinal`, `ResolutionRetiresProposals`, `LiveWithinLimit`,
`NoAutonomousLoop`, `VerifyingIsServed`, `LifeRefinement`, `NothingStoppedUnapproved`. `TypeInv` strengthens the types by `Placed` (where a coroutine
works) and `RowsComplete`. The next-state relation has about thirty actions, so each
invariant is not taken through all of them: a lemma first says the only ways in
which any step changes the few variables the invariant reads (`RowStep`,
`ClaimingStep`, `LockStep`, `LiveStep`, `StatusStep`), and the theorem has one case
for each of these ways. `SentOnceAfterClaim` needs that a coroutine at *claimed* is
the only one for its action, and has not sent it (`SendStep`); mutual exclusion is
`LockHeld`, which the lemma `LockStep` makes inductive: a coroutine enters a locked
point only when no other one of its incident is there. `VerifyingIsServed` assumes
`~TopologyEdits`: an edit may have a verification refused, which leaves the status as
it was (section 6). Its invariant `Attended` says that a VERIFYING incident has
evidence and a sound profile, and that a coroutine which holds its lock is in its
verification or in an approved write of it; `RowsOwn`, that an approval works on a row
of its own incident, is what carries the evidence from the row to the incident when
the write is claimed. `ServingStep` then has one case for each way to leave
VERIFYING, and rules out those that would leave the status behind.

`LifeRefinement` (`Spec => ActionLife!Spec`) needs more than the types and `SendInv`: what a
coroutine knew of its action when it went into an await must still hold when it comes
back. `LifeInv` says that nothing is concluded of an action that was not granted, and
of each coroutine that it is `Answerable`: the action it holds was granted and is of its
incident; what it is about to send has no outcome yet; what it inspects is
autonomous; and an approved action that it verifies has not passed. The lemma
`LifeMoves` shows why the others stay answerable when one coroutine moves: it either
concludes nothing, or holds the lock of the incident, and so does every other coroutine
to which the outcome matters, which `LockHeld` excludes. `LifeInvStep` then has only the
moving coroutine to look at, and `LifeStep` maps each action: a diagnosis or a request to
`Record` (of any number of rows), a claim, a rejection or an expiry to `Decide`, the end of
a verification to `Conclude` or `Recover`, and the rest to a stutter.
`NothingStoppedUnapproved` is drawn from the abstract steps alone, through the
refinement: a stop that reached the host was approved by an operator (README.md 43).

`AgentLoopProofs` (for every finite set of targets, all budgets and any number of
runs): `Typing`, `NoDiagnosticRepeated`, `OffersAreAccepted`, `BudgetKept`. `WayStep`
says that any step leaves the run and its observations alone but for verifications,
ends or begins a run, thinks, asks, hears, sends, acts or forgets. Over these ways
the invariant is: observations are of past runs or this one (`Chronicle`); every
diagnostic observed in this run since its last write is among `calls`, and the one
awaited is not yet observed (`Remembers`, which `NoRepeatBetweenWrites` needs because a
repetition is only seen when the second answer arrives); conversely every call but
the awaited one was observed since the last write (`Noticed`, which
`OfferedIsAccepted` needs because the schema reads observations and the guard reads
calls). What the theorem says is no more than the code promises: a call that is offered
and would be refused belongs to a tool whose schema is not narrowed. Finally what is spent and left fits the budget (`Budgeted`).

`HostCommandProofs`, `AtlasProbeProofs` and `HttpProbeProofs` each have the invariant
of one module and a lemma that each of its steps, and the passing of time while it
blocks, keeps it. `GatewayRequestProofs` (for every set of containers, hosts and
addresses and all limits) composes them: `Typing`, `WholeAnswers`,
`NothingReportedMissing`, `VettedOnly`, `Earned`, `Orphans`, `SocketLives`,
`InTimeAlways`, and the promises of the parts (`CommandPromises`, `ProbePromises`).

- `CommandInv`: what was captured was written and fits the bound (`Captures`); a pipe
  that left the selector without truncation is at its end with nobody left to write
  (`Drained`); and a command that came to its end uncut exited by itself, with status 0
  only after all of its output (`Exits`). `CommandTiming` has the limit shrink stage by
  stage: reading, then the least wait, then the wait for a killed process.
- `AtlasInv`: a host is in one place only, to be done, being visited or reported
  (`Vetting`), which is why one answer of DNS serves the check and the probes;
  every candidate is to do, visited, settled or excused by exhaustion (`Progress`); a
  probe in progress is not yet counted (`Budget`).
- `HttpInv`: which of its two owners still holds the socket at each stage (`Lifetimes`).
  `SocketOutlivesResponse` alone is not inductive: that closing the connection leaves
  the socket open needs `refs = 1` from the head on.
- `VettedOnly` says what the code does with a long answer and no more: the addresses it
  keeps are all public, so an answer that is not cut is vetted whole (`FewAreKept`,
  `ResolvedRests`), and the rest of a longer one is not looked at (section 6).
- `RequestInv` is these, and which part a handler may be in (`Roles`), what its answer
  is made from (`Answers`), the pinned address (`Pinned`) and the sum of the limits
  used up so far (`Timed`).

`BackendReadsProofs` (for every set of operators, signals, services, callers, incidents
and requests): `ReadsTyping`, `OneBuild`, `ThoroughHealth`, `CountersAgree`,
`SelectionKept`, `FreshOverview`, `PromptsFit`. The first five follow from `ReadsInv`, one
invariant for each part, which the others leave alone. `Owned`: who builds holds the lock, and a handler that is not collecting has no
call; so all calls are the holder's. `Needed` and `Followed`: what was
visited lies in every closed set around the application, and what it depends on was visited or is
pending; when nothing is pending the visited set is closed itself, hence equal to
`Dependencies`. `Attempts`: a streaming call has made one request or two, without which
the counters do not add up. `Aimed`: a live poll is about the mounted incident.

`FreshOverview` (`ServedFresh`: what is shown is younger than the age limit and
`Rounds` timeouts) counts the rounds of the semaphore against the clock. `Paced` says of a
collection that it began at some instant b, and that while a call is still queued, each
timeout that has passed since b has settled `MaxParallel` calls, with a further
`MaxParallel` under way (`RoundsFull`). If a call were queued after the last round, more
calls would be settled than there are signals (`RoundLeft`); so every call starts early
enough to be over in time (`Within`), and the oldest signal is no older than b. `Young`
joins this with the snapshot and what was served from it. `SignalPaces`,
`CollectionBegins` and `TimePaces` show that an answer, a new collection and a
tick keep the pace; the tick is where the clock may not pass a timeout, which is what
`MonotonicClock` says of a blocking call.

`PromptsFit` (`PromptWithinBudget`) rests on what compaction computes, for any observations
(`ContextCompacted`). A sum of sizes is the number of characters, so that it is
counted and not folded: it lies in the product of the observations and of the largest
size (`TotalBound`). The weighted pass may overrun, because of the least shares, and
only what fits is kept of it; the equal shares of the second pass add up to no more than
what is available (`EqualParts`), and they are no shorter than the shortest result since
a context without room for the least shares was refused before. So the last exception of
`compact_context` is never reached, provided that the summary of last resort fits its
share: context.py 101 leaves 17 characters for what JSON escapes, and a summary of many
quotes or line breaks is beyond the model. The invariant is then inductive as it stands, with
the types: what ends keeps the attempts it made and no characters, what is repaired adds
`RepairChars` once.

The assumptions used are the named `ASSUME`s of the modules, all of which TLC
evaluates: sets of names are disjoint, some of them finite, limits are natural
numbers, settings are Booleans. `ContextAssumption` (ModelDecision) says what the sizes
of a context are: numbers, of finitely many results, in a frame that holds a `{}` for
each of them. But for `~TopologyEdits` in `VerifyingIsServed`,
nothing else is assumed.

Only model-checked: liveness (`ThreadsComeBack`, `TasksEnd`, `VerifyingEnds`,
`RunsEnd`, `AlwaysAnswered`, `ReadsEnd`), which is beyond the prover. Every invariant
and every action property that a passing run checks is the subject of a theorem.

## 5. What is not modelled

- Database failures in the backend (a commit that raises). The code has no
  handling that tells them apart. In the gateway, a failure of the ledger after the
  command ran (`main.py` 97-98) is not caught either and the backend gets a 500; that
  one is modelled (`CompleteFails`).
- The first fetch of the gateway's registry failing: it raises before anything
  is written, which is the refusal the models have.
- A running write of a cancelled task may still land at the gateway: modelled,
  and the reason why the observations of section 6 matter.
- The tools that read psutil, /proc or /sys within the process (memory, CPU, disks,
  temperatures, processes, ports): they wait for nothing and keep nothing.
- What parsers make of the text of a row; prompts, wording, redaction; what `sampled`
  and `clipped` choose to keep. Sizes and rows are modelled, contents are not.
- Retrieval (`rag.py`): its failure is caught where it is used and no decision
  rests on what it finds; the await of its indexing is in `IncidentLifecycle`.
- The history list and the overview page of the dashboard, which only display; the
  login throttle and the proxy, which have no state that the rest depends on.
- Migrations, the evaluation harness, scripts and deployment: they run before or
  beside the program.

## 6. Where code and documents disagree

1. `LifecycleUnverifiedWrite`: the runtime limit cancels `execute_autonomous` inside
   its write; only `Exception` is caught, and a restart only sets the incident to
   FAILED. The action keeps `verification_status` NOT_RUN, while README.md 3 promises
   that every write has deterministic verification.
2. `LifecycleOrphan`: REQUEST_APPROVAL of an already pending proposal ends the task
   and leaves the incident INVESTIGATING (agent.py 240, 443).
3. `LifecycleStaleDate`: a diagnosis of which one remediation fails its JSON schema is
   committed as OPEN while its task thinks on. An operator has the incident verified, it is
   RESOLVED and dated (service.py 295-296); then the task commits its next diagnosis,
   which opens the incident and leaves `resolved_at` (agent.py 258). The dashboard then
   shows a time of resolution, where `dashboard.ts` 57 says "Not resolved" of an incident
   without the date and `test_approval.py` 78-79 asserts that an unresolved one has none.
4. `AgentLoopBlindRetry`: an approved write is not recorded as an observation, so
   the model is not offered another inspection of the target it was told to
   inspect, and the duplicate guard rejects one (llm.py 62, agent.py 384).

Five more, which the models have and no run of their own shows:

- `run_command` is said to "kill the whole child group on expiry" (safety.py 90). When
  its leader has already exited and a descendant keeps a pipe open, the deadline
  passes, `process.poll()` is not None and nothing is killed. `SurvivorsAreOrphans` states what
  does hold: only such descendants survive.
- The comments at diagnostic_gateway/safety.py 231 and 373 say that the complete answer of
  DNS is rejected when it mixes public and private addresses. An answer is cut before it is
  checked, to 4 addresses of a shard (230) and 16 of another host (160), so a longer one
  whose private address sorts behind these is accepted. What is connected to is checked all
  the same, and `DestinationsVetted` claims only that.
- MODEL_EVALUATION.md 17: the controller "rejects an estimated prompt-plus-output
  request above the configured context window before calling Ollama". The repair request
  quotes the reply and is not estimated again. `PromptWithinBudget` allows for it.
- The comment at diagnostic_gateway/main.py 28, "Explicit truncation cannot accidentally look like a
  complete probe", is about `bounded_result`; `service_status` ignores `truncated`
  (tools.py 420), and `route_table`, `tailscale_status` and `recent_docker_events` cut
  their lists at 250, 50 and 100 rows without a mark (tools.py 453, 652, 687).
  `AnswerIsWhole` excepts the first (`Unmarked`) and counts the others up to `Listed`.
- A preview made by `bounded_result` is an ok answer; application_health.py 50-54
  matches it against the expectation and calls the component UNHEALTHY, not UNKNOWN.

Behaviour the models have, that no document forbids, and that a maintainer may
want to know:

- A diagnosis whose later remediation fails its JSON schema is already committed;
  the task goes on while operators see the incident as open or waiting
  (agent.py 265, `DiagnoseForApproval(W, TRUE)`).
- An incident can be RESOLVED by the verification of its last write although an
  earlier failed write was never verified (service.py 240).
- A topology edited between an approval and its verification so that it names a
  check the registry does not grant leaves the incident VERIFYING until the
  operator verifies again or the backend restarts (service.py 267). This is why
  `VerifyingHasWorker` and `VerifyingEnds` are checked without edits.
- A shard whose turn comes after the total time limit is reported unresolved, and Atlas
  as ATLAS_TLS_UNREACHABLE rather than not completely probed (tools.py 310-314, 339);
  `UnreachableIsEarned` speaks of the shards that were resolved.
- Approving an expired proposal sets the incident OPEN whatever its status
  (service.py 131).
- A reply of the local model that is a number, a Boolean, null or an array of objects
  raises TypeError in `parse_ollama_action` (llm.py 159), which neither the repair nor the counters see
  (`escapes`).
- The counters of a provider are shared, and each investigation saves them with its
  own incident: those of concurrent incidents are among them.
- Between `setSelected` after an await and the cleanup of the previous effect a poll of
  the previous incident may still be shown, once; `PollKeepsSelection` therefore speaks
  of rendered pages.

## 7. Plan

Done, in this order: the write path end to end (gateway ledger, incident lifecycle),
because everything irreversible goes through it; the agent loop; the diagnostics that
the gateway carries out, with the command reader that justifies the fairness of
`GatewayLedger`; the reads of the backend and the page; and a theorem for every safety
invariant and action property of the passing runs, with both refinements.

Left, in order of weight:

1. `ActionLife` and `WriteOnce` composed: one write from the proposal to the host's ledger.
2. `verification_checks` (service.py 193-230) and `profile_targets` (autonomy.py 9-26)
   as operators over topologies, where `IncidentLifecycle` has their outcomes.
3. `RagCollection` (rag.py 45-69), if a decision ever comes to rest on it.

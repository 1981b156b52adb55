--------------------------- MODULE GatewayLedger ---------------------------
(***************************************************************************)
(* The write path of the diagnostic gateway: the backend signs a request   *)
(* for an action ID, the gateway's POST /tools/{name} handler checks scope, *)
(* lifetime and signature, consumes the ID in the SQLite ledger, runs the  *)
(* host command in a worker thread, records the outcome and answers.       *)
(*                                                                         *)
(* Requests may be lost, delayed and delivered more than once; the gateway *)
(* may stop at any point; a host command whose client was killed may still *)
(* be carried out by the host's own daemon.                                *)
(***************************************************************************)
EXTENDS Integers, FiniteSets

CONSTANTS
  ActionIds,     \* primary keys of the backend's actions
  InScope,       \* the IDs whose tool and target the gateway policy grants
  Jobs,          \* worker threads a write handler can occupy
  Secrets,       \* signing secrets a backend may be configured with
  GatewaySecret, \* the secret of this gateway
  SignTtl,       \* lifetime the backend signs (120 s in the code)
  MaxLifetime,   \* longest lifetime the gateway accepts (600 s in the code)
  MaxClock,      \* bound of the model on time
  NoId

ASSUME ScopeAssumption == InScope \subseteq ActionIds /\ NoId \notin ActionIds
ASSUME SecretAssumption == GatewaySecret \in Secrets
ASSUME LifetimeAssumption ==
  /\ SignTtl \in Nat \ {0}
  /\ MaxLifetime \in Nat
  /\ SignTtl <= MaxLifetime
  /\ MaxClock \in Nat

VARIABLES
  clock,      \* time.time() of the host both processes run on
  wire,       \* signed requests sent so far; any of them may arrive, again
  up,         \* whether the gateway process runs
  job,        \* the write handlers in progress
  daemon,     \* IDs whose host command was issued and is still undecided
  effects,    \* how often the command of an ID changed the host
  consumed,   \* consumed_approvals.action_id (durable)
  result,     \* consumed_approvals.result (durable)
  answers     \* answers given to the backend

vars == <<clock, wire, up, job, daemon, effects, consumed, result, answers>>

Signed == [id : ActionIds, expires : Nat, secret : Secrets]
Handler(pc, id, verdict) == [pc |-> pc, id |-> id, verdict |-> verdict]
Idle == Handler("idle", NoId, "none")
Verdicts == {"none", "ok", "failed"}
Handlers ==
  {Idle} \cup [pc : {"queued", "running"}, id : ActionIds, verdict : {"none"}]
         \cup [pc : {"finished"}, id : ActionIds, verdict : {"ok", "failed"}]
Answers == [id : ActionIds, answer : {"ok", "failed", "denied", "error"}]

TypeOK ==
  /\ clock \in Nat
  /\ wire \subseteq Signed
  /\ up \in BOOLEAN
  /\ job \in [Jobs -> Handlers]
  /\ daemon \subseteq ActionIds
  /\ effects \in [ActionIds -> Nat]
  /\ consumed \subseteq ActionIds
  /\ result \in [ActionIds -> Verdicts]
  /\ answers \subseteq Answers

Init ==
  /\ clock = 0
  /\ wire = {}
  /\ up = TRUE
  /\ job = [j \in Jobs |-> Idle]
  /\ daemon = {}
  /\ effects = [id \in ActionIds |-> 0]
  /\ consumed = {}
  /\ result = [id \in ActionIds |-> "none"]
  /\ answers = {}

-----------------------------------------------------------------------------
(* The backend and the network. *)

Tick ==
  /\ clock < MaxClock
  /\ clock' = clock + 1
  /\ UNCHANGED <<wire, up, job, daemon, effects, consumed, result, answers>>

\* DiagnosticGateway.execute: nothing stops it from signing an ID again, which
\* is what a restored backend database amounts to.
Sign(id, secret) ==
  /\ wire' = wire \cup {[id |-> id, expires |-> clock + SignTtl, secret |-> secret]}
  /\ UNCHANGED <<clock, up, job, daemon, effects, consumed, result, answers>>

-----------------------------------------------------------------------------
(* The handler of POST /tools/{name} for a write tool. *)

WithinLifetime(r) == r.expires > clock /\ r.expires <= clock + MaxLifetime

SignatureMatches(r) == r.secret = GatewaySecret

\* PRIMARY KEY of consumed_approvals
Unconsumed(r) == r.id \notin consumed

Say(id, answer) == answers' = answers \cup {[id |-> id, answer |-> answer]}

\* Mutant of Consume: the ID is consumed in memory only.
ConsumeUncommitted(j, r) ==
  /\ up
  /\ job[j] = Idle
  /\ r.id \in InScope
  /\ WithinLifetime(r) /\ SignatureMatches(r) /\ Unconsumed(r)
  /\ job' = [job EXCEPT ![j] = Handler("queued", r.id, "none")]
  /\ UNCHANGED <<clock, wire, up, daemon, effects, consumed, result, answers>>

\* The ID is consumed, and committed, before the handler is handed to a thread.
Consume(j, r) ==
  /\ up
  /\ job[j] = Idle
  /\ r.id \in InScope
  /\ WithinLifetime(r)
  /\ SignatureMatches(r)
  /\ Unconsumed(r)
  /\ consumed' = consumed \cup {r.id}
  /\ job' = [job EXCEPT ![j] = Handler("queued", r.id, "none")]
  /\ UNCHANGED <<clock, wire, up, daemon, effects, result, answers>>

\* ApprovalError becomes 403; nothing is consumed and nothing runs.
Deny(r) ==
  /\ up
  /\ r.id \in InScope
  /\ ~ (WithinLifetime(r) /\ SignatureMatches(r) /\ Unconsumed(r))
  /\ Say(r.id, "denied")
  /\ UNCHANGED <<clock, wire, up, job, daemon, effects, consumed, result>>

\* A target outside the policy, or a ledger that cannot be written (locked,
\* disk full), ends in {"ok": false} before any ID is consumed.
FailEarly(r) ==
  /\ up
  /\ r.id \notin InScope \/ (WithinLifetime(r) /\ SignatureMatches(r))
  /\ Say(r.id, "failed")
  /\ UNCHANGED <<clock, wire, up, job, daemon, effects, consumed, result>>

\* run_in_threadpool: a thread picks the handler up and issues the command.
Run(j) ==
  /\ job[j].pc = "queued"
  /\ job' = [job EXCEPT ![j] = Handler("running", job[j].id, "none")]
  /\ daemon' = daemon \cup {job[j].id}
  /\ UNCHANGED <<clock, wire, up, effects, consumed, result, answers>>

\* The host carries the command out, even after its client was killed.
Land(id) ==
  /\ id \in daemon
  /\ daemon' = daemon \ {id}
  /\ effects' = [effects EXCEPT ![id] = @ + 1]
  /\ UNCHANGED <<clock, wire, up, job, consumed, result, answers>>

\* The host never carries the command out.
Drop(id) ==
  /\ id \in daemon
  /\ daemon' = daemon \ {id}
  /\ UNCHANGED <<clock, wire, up, job, effects, consumed, result, answers>>

\* Mutant of Succeeded: the exit status is not looked at.
SucceededAlways(id) == id \in consumed

\* Exit status 0 and a readable state afterwards.
Succeeded(id) == effects[id] > 0

\* Mutant of Return: run_command waits for the command without a timeout.
ReturnWithoutTimeout(j, verdict) ==
  /\ job[j].pc = "running"
  /\ Succeeded(job[j].id)
  /\ job' = [job EXCEPT ![j] = Handler("finished", job[j].id, verdict)]
  /\ UNCHANGED <<clock, wire, up, daemon, effects, consumed, result, answers>>

\* The handler returns, or raises: non-zero exit status, timeout of the
\* command, or a failing inspection of a command that did take effect.
Return(j, verdict) ==
  /\ job[j].pc = "running"
  /\ verdict = "ok" => Succeeded(job[j].id)
  /\ job' = [job EXCEPT ![j] = Handler("finished", job[j].id, verdict)]
  /\ UNCHANGED <<clock, wire, up, daemon, effects, consumed, result, answers>>

\* Mutant of Complete: the thread keeps what it worked on.
CompleteWithoutReset(j) ==
  /\ job[j].pc = "finished"
  /\ result' = [result EXCEPT ![job[j].id] = job[j].verdict]
  /\ Say(job[j].id, job[j].verdict)
  /\ job' = [job EXCEPT ![j] = Handler("idle", job[j].id, "none")]
  /\ UNCHANGED <<clock, wire, up, daemon, effects, consumed>>

\* ledger.complete and the answer.
Complete(j) ==
  /\ job[j].pc = "finished"
  /\ result' = [result EXCEPT ![job[j].id] = job[j].verdict]
  /\ Say(job[j].id, job[j].verdict)
  /\ job' = [job EXCEPT ![j] = Idle]
  /\ UNCHANGED <<clock, wire, up, daemon, effects, consumed>>

\* ledger.complete raises: the command ran, and the backend gets a 500.
CompleteFails(j) ==
  /\ job[j].pc = "finished"
  /\ Say(job[j].id, "error")
  /\ job' = [job EXCEPT ![j] = Idle]
  /\ UNCHANGED <<clock, wire, up, daemon, effects, consumed, result>>

\* Mutant of Stop: consume() did not commit its transaction.
StopRollsBack ==
  /\ up
  /\ up' = FALSE
  /\ job' = [j \in Jobs |-> Idle]
  /\ consumed' = {id \in consumed : result[id] # "none"}
  /\ UNCHANGED <<clock, wire, daemon, effects, result, answers>>

\* The process stops. Threads are gone; the host daemon and the committed rows
\* of the ledger are not.
Stop ==
  /\ up
  /\ up' = FALSE
  /\ job' = [j \in Jobs |-> Idle]
  /\ UNCHANGED <<clock, wire, daemon, effects, consumed, result, answers>>

\* Mutant of Start: the table is created anew.
StartWithEmptyLedger ==
  /\ ~ up
  /\ up' = TRUE
  /\ consumed' = {}
  /\ result' = [id \in ActionIds |-> "none"]
  /\ UNCHANGED <<clock, wire, job, daemon, effects, answers>>

\* ApprovalLedger.__init__ creates the table only when it does not exist.
Start ==
  /\ ~ up
  /\ up' = TRUE
  /\ UNCHANGED <<clock, wire, job, daemon, effects, consumed, result, answers>>

Next ==
  \/ Tick
  \/ \E id \in ActionIds, s \in Secrets : Sign(id, s)
  \/ \E r \in wire : Deny(r) \/ FailEarly(r)
  \/ \E j \in Jobs, r \in wire : Consume(j, r)
  \/ \E j \in Jobs : Run(j) \/ Complete(j) \/ CompleteFails(j)
  \/ \E j \in Jobs, v \in {"ok", "failed"} : Return(j, v)
  \/ \E id \in ActionIds : Land(id) \/ Drop(id)
  \/ Stop
  \/ Start

\* Threads finish (every command has a timeout) and the host decides every
\* command it was given. Nothing is assumed of the network or of restarts.
Fairness ==
  /\ \A j \in Jobs : WF_vars(Run(j)) /\ WF_vars(Return(j, "failed"))
  /\ \A j \in Jobs : WF_vars(Complete(j) \/ CompleteFails(j))
  /\ \A id \in ActionIds : WF_vars(Land(id) \/ Drop(id))

Spec == Init /\ [][Next]_vars

FairSpec == Spec /\ Fairness

-----------------------------------------------------------------------------
(* Properties. *)

\* safety.py consume(): however often a signed request arrives, from whichever
\* backend, before or after a restart of the gateway, the host command of an
\* action ID changes the host at most once.
AtMostOnce == \A id \in ActionIds : effects[id] <= 1

\* main.py execute(): a command is issued only for a consumed ID the policy
\* grants, so a command still in the host's hands is always on record.
CommandsOnRecord ==
  \A id \in ActionIds :
    id \in daemon \/ effects[id] > 0 => id \in consumed /\ id \in InScope

\* The backend is told "ok" only of a command that changed the host, and the
\* ledger says the same.
HonestOk ==
  \A id \in ActionIds :
    [id |-> id, answer |-> "ok"] \in answers => effects[id] = 1 /\ result[id] = "ok"

\* What the ledger and the handler implement, whatever the requests.
Promise == INSTANCE WriteOnce WITH claimed <- consumed, verdict <- result
KeepsPromise == Promise!Spec

\* main.py execute(): a thread that took a write is given back, so repeated
\* hanging commands cannot use the pool up.
ThreadsComeBack == \A j \in Jobs : job[j] # Idle ~> job[j] = Idle

=============================================================================

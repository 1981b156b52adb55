------------------------- MODULE GatewayLedgerProofs -------------------------
(***************************************************************************)
(* For every number of actions, threads, secrets and lifetimes: the gateway *)
(* carries a signed write out at most once, answers "ok" only of a write    *)
(* that happened, and implements WriteOnce.                                 *)
(*                                                                         *)
(* AtMostOnce is not inductive: a second handler of the same ID, or a       *)
(* command still with the host daemon, could run again. Once adds what      *)
(* rules both out: an ID is in one place only.                              *)
(***************************************************************************)
EXTENDS GatewayLedger, TLAPS

\* A busy handler works for a consumed, granted ID, and for one of its own.
OneHandlerPerId ==
  /\ \A j \in Jobs : job[j].pc # "idle" =>
       job[j].id \in consumed /\ job[j].id \in InScope
  /\ \A j, k \in Jobs :
       j # k /\ job[j].pc # "idle" /\ job[k].pc # "idle" => job[j].id # job[k].id

\* A queued handler has issued nothing yet; a command still with the host has
\* not changed it.
Once ==
  /\ \A j \in Jobs : job[j].pc = "queued" =>
       job[j].id \notin daemon /\ effects[job[j].id] = 0
  /\ \A id \in daemon : effects[id] = 0

\* The outcome of a handler in progress is not in the ledger yet, and "ok" in a
\* handler or in the ledger is of a command that took effect.
Honest ==
  /\ \A j \in Jobs : job[j].pc # "idle" => result[job[j].id] = "none"
  /\ \A j \in Jobs : job[j].pc = "finished" /\ job[j].verdict = "ok" =>
       effects[job[j].id] = 1
  /\ \A j \in Jobs : job[j].pc = "finished" => job[j].verdict # "none"
  /\ \A id \in ActionIds : result[id] # "none" => id \in consumed
  /\ \A id \in ActionIds : result[id] = "ok" => effects[id] = 1

-----------------------------------------------------------------------------
\* A busy handler has an ID and, once it returned, a verdict.
LEMMA BusyHandler ==
  ASSUME TypeOK, NEW j \in Jobs, job[j].pc # "idle"
  PROVE  /\ job[j].id \in ActionIds
         /\ job[j].pc = "finished" => job[j].verdict \in {"ok", "failed"}
  BY DEF TypeOK, Handlers, Idle, Handler

\* The state keeps its shape: every gateway action writes values of the types
\* declared for the clock, the wire, the handlers and the ledger.
THEOREM Typing == Spec => []TypeOK
<1>1. Init => TypeOK
  BY ScopeAssumption, LifetimeAssumption DEF Init, TypeOK, Handlers, Verdicts
<1>2. TypeOK /\ [Next]_vars => TypeOK'
  <2> SUFFICES ASSUME TypeOK, [Next]_vars PROVE TypeOK'
    OBVIOUS
  <2> USE ScopeAssumption, LifetimeAssumption
  <2>1. CASE Tick
    BY <2>1 DEF Tick, TypeOK
  <2>2. ASSUME NEW id \in ActionIds, NEW s \in Secrets, Sign(id, s) PROVE TypeOK'
    BY <2>2 DEF Sign, TypeOK, Signed
  <2>3. ASSUME NEW r \in wire, Deny(r) \/ FailEarly(r) PROVE TypeOK'
    BY <2>3 DEF Deny, FailEarly, Say, Answers, TypeOK, Signed
  <2>4. ASSUME NEW j \in Jobs, NEW r \in wire, Consume(j, r) PROVE TypeOK'
    BY <2>4 DEF Consume, TypeOK, Signed, Handlers, Handler
  <2>5. ASSUME NEW j \in Jobs, Run(j) PROVE TypeOK'
    <3>1. job[j].id \in ActionIds
      BY <2>5, BusyHandler DEF Run
    <3> QED
      BY <2>5, <3>1 DEF Run, TypeOK, Handlers, Handler
  <2>6. ASSUME NEW j \in Jobs, Complete(j) \/ CompleteFails(j) PROVE TypeOK'
    <3>1. job[j].id \in ActionIds /\ job[j].verdict \in {"ok", "failed"}
      BY <2>6, BusyHandler DEF Complete, CompleteFails
    <3>2. CASE Complete(j)
      BY <3>1, <3>2 DEF Complete, Say, Answers, TypeOK, Verdicts, Handlers
    <3>3. CASE CompleteFails(j)
      BY <3>1, <3>3 DEF CompleteFails, Say, Answers, TypeOK, Handlers
    <3> QED
      BY <2>6, <3>2, <3>3
  <2>7. ASSUME NEW j \in Jobs, NEW v \in {"ok", "failed"}, Return(j, v) PROVE TypeOK'
    <3>1. job[j].id \in ActionIds
      BY <2>7, BusyHandler DEF Return
    <3> QED
      BY <2>7, <3>1 DEF Return, TypeOK, Handlers, Handler
  <2>8. ASSUME NEW id \in ActionIds, Land(id) \/ Drop(id) PROVE TypeOK'
    BY <2>8 DEF Land, Drop, TypeOK
  <2>9. CASE Stop
    BY <2>9 DEF Stop, TypeOK, Handlers
  <2>10. CASE Start
    BY <2>10 DEF Start, TypeOK
  <2>11. CASE UNCHANGED vars
    BY <2>11 DEF vars, TypeOK
  <2> QED
    BY <2>1, <2>2, <2>3, <2>4, <2>5, <2>6, <2>7, <2>8, <2>9, <2>10, <2>11 DEF Next
<1> QED
  BY <1>1, <1>2, PTL DEF Spec

-----------------------------------------------------------------------------
\* The parts of the invariant that say where an action ID can be.
Place == OneHandlerPerId /\ Once /\ AtMostOnce /\ CommandsOnRecord

\* The parts that relate verdicts and answers to what happened.
Outcome == Honest /\ HonestOk

\* Every gateway step keeps the handlers, the ledger and the issued commands in
\* agreement.
LEMMA PlaceStep ==
  ASSUME TypeOK, Place, [Next]_vars
  PROVE  Place'
<1> USE DEF Place
<1>1. CASE Tick
  BY <1>1 DEF Tick, OneHandlerPerId, Once, AtMostOnce, CommandsOnRecord
<1>2. ASSUME NEW id \in ActionIds, NEW s \in Secrets, Sign(id, s) PROVE Place'
  BY <1>2 DEF Sign, OneHandlerPerId, Once, AtMostOnce, CommandsOnRecord
<1>3. ASSUME NEW r \in wire, Deny(r) \/ FailEarly(r) PROVE Place'
  BY <1>3 DEF Deny, FailEarly, OneHandlerPerId, Once, AtMostOnce, CommandsOnRecord
<1>4. ASSUME NEW j \in Jobs, NEW r \in wire, Consume(j, r) PROVE Place'
  <2>1. r.id \in ActionIds /\ r.id \notin consumed /\ r.id \in InScope
    BY <1>4 DEF Consume, Unconsumed, TypeOK, Signed
  <2>2. r.id \notin daemon /\ effects[r.id] = 0
    BY <2>1 DEF CommandsOnRecord, TypeOK
  <2>3. \A k \in Jobs : k # j => job'[k] = job[k]
    BY <1>4 DEF Consume, TypeOK
  <2>4. job'[j] = Handler("queued", r.id, "none")
    BY <1>4 DEF Consume, TypeOK
  <2>5. consumed' = consumed \cup {r.id} /\ UNCHANGED <<daemon, effects>>
    BY <1>4 DEF Consume
  <2>6. OneHandlerPerId'
    BY <2>1, <2>3, <2>4, <2>5 DEF OneHandlerPerId, Handler
  <2>7. Once'
    BY <2>2, <2>3, <2>4, <2>5 DEF Once, Handler
  <2> QED
    BY <2>5, <2>6, <2>7 DEF AtMostOnce, CommandsOnRecord
<1>5. ASSUME NEW j \in Jobs, Run(j) PROVE Place'
  <2>1. job[j].id \in ActionIds /\ job[j].id \in consumed /\ job[j].id \in InScope
    BY <1>5, BusyHandler DEF Run, OneHandlerPerId
  <2>2. effects[job[j].id] = 0
    BY <1>5 DEF Run, Once
  <2>3. \A k \in Jobs : k # j => job'[k] = job[k]
    BY <1>5 DEF Run, TypeOK
  <2>4. job'[j] = Handler("running", job[j].id, "none")
    BY <1>5 DEF Run, TypeOK
  <2>5. job[j].pc = "queued" /\ daemon' = daemon \cup {job[j].id} /\ UNCHANGED <<consumed, effects>>
    BY <1>5 DEF Run
  <2>6. OneHandlerPerId'
    BY <2>3, <2>4, <2>5 DEF OneHandlerPerId, Handler
  <2>7. Once'
    BY <2>2, <2>3, <2>4, <2>5 DEF Once, OneHandlerPerId, Handler
  <2> QED
    BY <2>1, <2>5, <2>6, <2>7 DEF AtMostOnce, CommandsOnRecord
<1>6. ASSUME NEW j \in Jobs, Complete(j) \/ CompleteFails(j) PROVE Place'
  <2>1. \A k \in Jobs : job'[k] = job[k] \/ job'[k].pc = "idle"
    BY <1>6 DEF Complete, CompleteFails, TypeOK, Idle, Handler
  <2>2. UNCHANGED <<daemon, effects, consumed>>
    BY <1>6 DEF Complete, CompleteFails
  <2> QED
    BY <2>1, <2>2 DEF OneHandlerPerId, Once, AtMostOnce, CommandsOnRecord
<1>7. ASSUME NEW j \in Jobs, NEW v \in {"ok", "failed"}, Return(j, v) PROVE Place'
  <2>1. \A k \in Jobs : k # j => job'[k] = job[k]
    BY <1>7 DEF Return, TypeOK
  <2>2. job'[j] = Handler("finished", job[j].id, v) /\ job[j].pc = "running"
    BY <1>7 DEF Return, TypeOK
  <2>3. UNCHANGED <<daemon, effects, consumed>>
    BY <1>7 DEF Return
  <2> QED
    BY <2>1, <2>2, <2>3 DEF OneHandlerPerId, Once, AtMostOnce, CommandsOnRecord, Handler
<1>8. ASSUME NEW id \in ActionIds, Land(id) \/ Drop(id) PROVE Place'
  <2>1. id \in daemon /\ effects[id] = 0 /\ daemon' = daemon \ {id} /\ UNCHANGED <<job, consumed>>
    BY <1>8 DEF Land, Drop, Once
  <2>2. \A b \in ActionIds : effects'[b] = effects[b] \/ (b = id /\ effects'[b] = 1)
    BY <1>8, <2>1 DEF Land, Drop, TypeOK
  <2>3. \A b \in ActionIds : b # id => effects'[b] = effects[b]
    BY <1>8 DEF Land, Drop, TypeOK
  <2>4. OneHandlerPerId' /\ AtMostOnce' /\ CommandsOnRecord'
    BY <2>1, <2>2 DEF OneHandlerPerId, AtMostOnce, CommandsOnRecord
  <2>5. Once'
    BY <2>1, <2>3, BusyHandler DEF Once, TypeOK
  <2> QED
    BY <2>4, <2>5
<1>9. CASE Stop
  BY <1>9 DEF Stop, Idle, Handler, OneHandlerPerId, Once, AtMostOnce, CommandsOnRecord
<1>10. CASE Start
  BY <1>10 DEF Start, OneHandlerPerId, Once, AtMostOnce, CommandsOnRecord
<1>11. CASE UNCHANGED vars
  BY <1>11 DEF vars, OneHandlerPerId, Once, AtMostOnce, CommandsOnRecord
<1> QED
  BY <1>1, <1>2, <1>3, <1>4, <1>5, <1>6, <1>7, <1>8, <1>9, <1>10, <1>11 DEF Next

\* Every gateway step keeps verdicts and answers in agreement with what happened.
LEMMA OutcomeStep ==
  ASSUME TypeOK, Place, Outcome, [Next]_vars
  PROVE  Outcome'
<1> USE DEF Outcome
<1>1. CASE Tick
  BY <1>1 DEF Tick, Honest, HonestOk
<1>2. ASSUME NEW id \in ActionIds, NEW s \in Secrets, Sign(id, s) PROVE Outcome'
  BY <1>2 DEF Sign, Honest, HonestOk
<1>3. ASSUME NEW r \in wire, Deny(r) \/ FailEarly(r) PROVE Outcome'
  BY <1>3 DEF Deny, FailEarly, Say, Honest, HonestOk
<1>4. ASSUME NEW j \in Jobs, NEW r \in wire, Consume(j, r) PROVE Outcome'
  <2>1. r.id \in ActionIds /\ r.id \notin consumed
    BY <1>4 DEF Consume, Unconsumed, TypeOK, Signed
  <2>2. \A k \in Jobs : k # j => job'[k] = job[k]
    BY <1>4 DEF Consume, TypeOK
  <2>3. job'[j] = Handler("queued", r.id, "none")
    BY <1>4 DEF Consume, TypeOK
  <2>4. consumed' = consumed \cup {r.id} /\ UNCHANGED <<effects, result, answers>>
    BY <1>4 DEF Consume
  <2> QED
    BY <2>1, <2>2, <2>3, <2>4 DEF Honest, HonestOk, Handler
<1>5. ASSUME NEW j \in Jobs, Run(j) PROVE Outcome'
  <2>1. \A k \in Jobs : k # j => job'[k] = job[k]
    BY <1>5 DEF Run, TypeOK
  <2>2. job'[j] = Handler("running", job[j].id, "none") /\ job[j].pc = "queued"
    BY <1>5 DEF Run, TypeOK
  <2>3. UNCHANGED <<consumed, effects, result, answers>>
    BY <1>5 DEF Run
  <2> QED
    BY <2>1, <2>2, <2>3 DEF Honest, HonestOk, Handler
<1>6. ASSUME NEW j \in Jobs, Complete(j) PROVE Outcome'
  <2> DEFINE id == job[j].id
             v  == job[j].verdict
  <2>1. id \in ActionIds /\ v \in {"ok", "failed"} /\ job[j].pc = "finished" /\ id \in consumed
    BY <1>6, BusyHandler DEF Complete, Place, OneHandlerPerId
  <2>2. v = "ok" => effects[id] = 1
    BY <2>1 DEF Honest
  <2>3. /\ \A k \in Jobs : k # j => job'[k] = job[k]
        /\ job'[j] = Idle
    BY <1>6 DEF Complete, TypeOK
  <2>4. /\ \A b \in ActionIds : b # id => result'[b] = result[b]
        /\ result'[id] = v
    BY <1>6, <2>1 DEF Complete, TypeOK
  <2>5. answers' = answers \cup {[id |-> id, answer |-> v]} /\ UNCHANGED <<consumed, effects>>
    BY <1>6 DEF Complete, Say
  <2>6. Honest'
    <3>1. \A k \in Jobs : k # j /\ job[k].pc # "idle" => job[k].id # id
      BY <2>1 DEF Place, OneHandlerPerId
    <3>2. \A k \in Jobs : job[k].pc # "idle" => job[k].id \in ActionIds
      BY BusyHandler
    <3> HIDE DEF id, v
    <3> QED
      BY <2>1, <2>2, <2>3, <2>4, <2>5, <3>1, <3>2 DEF Honest, Idle, Handler
  <2>7. HonestOk'
    <3>1. result[id] = "none"
      BY <2>1 DEF Honest
    <3> HIDE DEF id, v
    <3> QED
      BY <2>1, <2>2, <2>4, <2>5, <3>1 DEF HonestOk
  <2> QED
    BY <2>6, <2>7
<1>7. ASSUME NEW j \in Jobs, CompleteFails(j) PROVE Outcome'
  <2>1. \A k \in Jobs : job'[k] = job[k] \/ job'[k] = Idle
    BY <1>7 DEF CompleteFails, TypeOK
  <2> QED
    BY <1>7, <2>1 DEF CompleteFails, Say, Honest, HonestOk, Idle, Handler
<1>8. ASSUME NEW j \in Jobs, NEW v \in {"ok", "failed"}, Return(j, v) PROVE Outcome'
  <2>1. \A k \in Jobs : k # j => job'[k] = job[k]
    BY <1>8 DEF Return, TypeOK
  <2>2. job'[j] = Handler("finished", job[j].id, v) /\ job[j].pc = "running"
    BY <1>8 DEF Return, TypeOK
  <2>3. v = "ok" => effects[job[j].id] = 1
    <3>1. job[j].id \in ActionIds
      BY <2>2, BusyHandler
    <3> QED
      BY <1>8, <3>1 DEF Return, Succeeded, Place, AtMostOnce, TypeOK
  <2>4. UNCHANGED <<consumed, effects, result, answers>>
    BY <1>8 DEF Return
  <2> QED
    BY <2>1, <2>2, <2>3, <2>4 DEF Honest, HonestOk, Handler
<1>9. ASSUME NEW id \in ActionIds, Land(id) \/ Drop(id) PROVE Outcome'
  <2>1. effects[id] = 0 /\ UNCHANGED <<job, consumed, result, answers>>
    BY <1>9 DEF Land, Drop, Place, Once
  <2>2. \A b \in ActionIds : effects[b] = 1 => effects'[b] = 1
    BY <1>9, <2>1 DEF Land, Drop, TypeOK
  <2>3. \A j \in Jobs : job[j].pc # "idle" => job[j].id \in ActionIds
    BY BusyHandler
  <2> QED
    BY <2>1, <2>2, <2>3 DEF Honest, HonestOk
<1>10. CASE Stop
  BY <1>10 DEF Stop, Idle, Handler, Honest, HonestOk
<1>11. CASE Start
  BY <1>11 DEF Start, Honest, HonestOk
<1>12. CASE UNCHANGED vars
  BY <1>12 DEF vars, Honest, HonestOk
<1> QED
  BY <1>1, <1>2, <1>3, <1>4, <1>5, <1>6, <1>7, <1>8, <1>9, <1>10, <1>11, <1>12 DEF Next

\* The inductive invariant of the write path.
THEOREM Invariance == Spec => [](TypeOK /\ Place /\ Outcome)
<1>1. Init => Place /\ Outcome
  BY DEF Init, Place, Outcome, OneHandlerPerId, Once, AtMostOnce, CommandsOnRecord,
         Honest, HonestOk, Idle, Handler
<1>2. TypeOK /\ Place /\ Outcome /\ [Next]_vars => Place' /\ Outcome'
  BY PlaceStep, OutcomeStep
<1> QED
  BY <1>1, <1>2, Typing, PTL DEF Spec

\* safety.py consume(): however often and from wherever signed requests arrive,
\* and wherever the gateway stops, no write is carried out twice.
THEOREM WritesAtMostOnce == Spec => []AtMostOnce
<1>1. Place => AtMostOnce
  BY DEF Place
<1> QED
  BY <1>1, Invariance, PTL

\* main.py execute(): no host command is ever issued for an ID that is not in
\* the ledger or not granted by the policy.
THEOREM EveryCommandOnRecord == Spec => []CommandsOnRecord
<1>1. Place => CommandsOnRecord
  BY DEF Place
<1> QED
  BY <1>1, Invariance, PTL

\* main.py execute(): "ok" is only answered for a write that happened once and
\* that the ledger records as such.
THEOREM AnswersAreHonest == Spec => []HonestOk
<1>1. Outcome => HonestOk
  BY DEF Outcome
<1> QED
  BY <1>1, Invariance, PTL

\* The gateway implements WriteOnce: every one of its steps claims an ID, lets
\* a command take effect, concludes one, or changes nothing the promise names.
THEOREM Refinement == Spec => KeepsPromise
<1>1. Init => Promise!Init
  BY DEF Init, Promise!Init
<1>2. TypeOK /\ Place /\ Outcome /\ [Next]_vars => [Promise!Next]_(Promise!promiseVars)
  <2> SUFFICES ASSUME TypeOK, Place, Outcome, [Next]_vars
               PROVE  Promise!Next \/ UNCHANGED Promise!promiseVars
    OBVIOUS
  <2> USE DEF Promise!promiseVars
  <2>1. CASE Tick
    BY <2>1 DEF Tick
  <2>2. ASSUME NEW id \in ActionIds, NEW s \in Secrets, Sign(id, s)
        PROVE  UNCHANGED Promise!promiseVars
    BY <2>2 DEF Sign
  <2>3. ASSUME NEW r \in wire, Deny(r) \/ FailEarly(r)
        PROVE  UNCHANGED Promise!promiseVars
    BY <2>3 DEF Deny, FailEarly
  <2>4. ASSUME NEW j \in Jobs, NEW r \in wire, Consume(j, r) PROVE Promise!Next
    BY <2>4 DEF Consume, Unconsumed, TypeOK, Signed, Promise!Next, Promise!Claim
  <2>5. ASSUME NEW j \in Jobs, Run(j) \/ CompleteFails(j)
        PROVE  UNCHANGED Promise!promiseVars
    BY <2>5 DEF Run, CompleteFails
  <2>6. ASSUME NEW j \in Jobs, Complete(j) PROVE Promise!Next
    <3>1. /\ job[j].id \in ActionIds /\ job[j].verdict \in {"ok", "failed"}
          /\ job[j].pc = "finished"
      BY <2>6, BusyHandler DEF Complete
    <3>2. /\ job[j].id \in consumed /\ result[job[j].id] = "none"
          /\ job[j].verdict = "ok" => effects[job[j].id] = 1
      BY <3>1 DEF Place, OneHandlerPerId, Outcome, Honest
    <3>3. Promise!Conclude(job[j].id, job[j].verdict)
      BY <2>6, <3>1, <3>2 DEF Complete, Promise!Conclude
    <3> QED
      BY <3>1, <3>3 DEF Promise!Next
  <2>7. ASSUME NEW j \in Jobs, NEW v \in {"ok", "failed"}, Return(j, v)
        PROVE  UNCHANGED Promise!promiseVars
    BY <2>7 DEF Return
  <2>8. ASSUME NEW id \in ActionIds, Land(id) PROVE Promise!Next
    <3>1. id \in consumed /\ effects[id] = 0
      BY <2>8 DEF Land, Place, Once, CommandsOnRecord
    <3>2. Promise!TakeEffect(id)
      BY <2>8, <3>1 DEF Land, Promise!TakeEffect
    <3> QED
      BY <3>2 DEF Promise!Next
  <2>9. ASSUME NEW id \in ActionIds, Drop(id) PROVE UNCHANGED Promise!promiseVars
    BY <2>9 DEF Drop
  <2>10. CASE Stop
    BY <2>10 DEF Stop
  <2>11. CASE Start
    BY <2>11 DEF Start
  <2>12. CASE UNCHANGED vars
    BY <2>12 DEF vars
  <2> QED
    BY <2>1, <2>2, <2>3, <2>4, <2>5, <2>6, <2>7, <2>8, <2>9, <2>10, <2>11, <2>12 DEF Next
<1> QED
  BY <1>1, <1>2, Invariance, PTL DEF Spec, KeepsPromise, Promise!Spec

=============================================================================

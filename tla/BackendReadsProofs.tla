------------------------- MODULE BackendReadsProofs -------------------------
(***************************************************************************)
(* The reads of the backend and the page, for any number of operators,      *)
(* signals, services and calls of the model.                                *)
(*                                                                         *)
(* Each part has an invariant of its own, which the steps of the others     *)
(* leave alone.                                                             *)
(***************************************************************************)
EXTENDS BackendReads, FiniteSetTheorems, TLAPS

-----------------------------------------------------------------------------
(* The page. *)

PageType == [incident : Incidents \cup {Nothing}, version : Versions,
             mounted : Incidents \cup {Nothing}]

RequestType == [pc : {"free", "creating", "posting", "asked", "read"},
                kind : {"poll", "open", "operate", "create"},
                target : Incidents \cup {Nothing}, live : BOOLEAN, version : Versions]

\* A request is about an incident, and a poll that may still be shown is about
\* the one whose effect is mounted.
Aimed ==
  \A q \in Slots : /\ flight[q].pc # "free" => flight[q].target \in Incidents
                   /\ flight[q].live => flight[q].target = page.mounted

PageInv == DashboardTypeOK /\ Aimed

\* What the page promises of one step.
KeepsSelection ==
  \A q \in Slots :
    /\ flight[q].pc = "read" /\ flight[q].kind = "poll" /\ flight'[q].pc = "free"
    /\ page.mounted = page.incident
    => page'.incident = page.incident

\* The page starts with no incident and nothing in flight.
LEMMA PageStarts ==
  ASSUME DashboardInit
  PROVE  PageInv
<1>1. /\ page = [incident |-> Nothing, version |-> 0, mounted |-> Nothing]
      /\ flight = [q \in Slots |-> NoRequestYet] /\ server \in [Incidents -> {0, 1}]
  BY DEF DashboardInit
<1>2. DashboardTypeOK
  BY <1>1, DashboardAssumption DEF DashboardTypeOK, NoRequestYet, Versions
<1>3. Aimed
  BY <1>1 DEF Aimed, NoRequestYet
<1> QED
  BY <1>2, <1>3 DEF PageInv

\* One request moves on, and the page with it.
LEMMA RequestMoves ==
  ASSUME PageInv, NEW q \in Slots, NEW request \in RequestType,
         flight' = [flight EXCEPT ![q] = request],
         server' \in [Incidents -> Versions], page' \in PageType,
         page'.mounted = page.mounted,
         request.pc # "free" => request.target \in Incidents,
         request.live => request.target = page.mounted,
         /\ flight[q].pc = "read" /\ flight[q].kind = "poll" /\ request.pc = "free"
         /\ page.mounted = page.incident
         => page'.incident = page.incident
  PROVE  PageInv' /\ KeepsSelection
<1>1. flight \in [Slots -> RequestType]
  BY DEF PageInv, DashboardTypeOK, RequestType
<1>2. /\ flight' \in [Slots -> RequestType] /\ flight'[q] = request
      /\ \A p \in Slots \ {q} : flight'[p] = flight[p]
  BY <1>1
<1>3. DashboardTypeOK'
  BY <1>2 DEF DashboardTypeOK, PageType, RequestType, Versions
<1>4. Aimed'
  BY <1>2 DEF PageInv, Aimed
<1>5. KeepsSelection
  BY <1>2 DEF KeepsSelection
<1> QED
  BY <1>3, <1>4, <1>5 DEF PageInv

\* A request is sent.
LEMMA RequestSent ==
  ASSUME PageInv, NEW q \in Slots, NEW target \in Incidents,
         NEW pc \in {"creating", "posting", "asked"},
         NEW kind \in {"poll", "open", "operate", "create"},
         Request(q, pc, kind, target), UNCHANGED <<server, page>>,
         kind = "poll" => target = page.mounted
  PROVE  PageInv' /\ KeepsSelection
<1> DEFINE live == (kind = "poll")
           request == [NoRequestYet EXCEPT !.pc = pc, !.kind = kind, !.target = target,
                                           !.live = live]
<1>l. live \in BOOLEAN /\ (live => target = page.mounted)
  OBVIOUS
<1>1. flight' = [flight EXCEPT ![q] = request] /\ flight[q].pc = "free"
  BY DEF Request
<1> HIDE DEF live
<1>0. /\ request \in RequestType /\ request.pc = pc
      /\ request.target = target /\ request.live = live
  <2>1. PICK free : free = NoRequestYet
    OBVIOUS
  <2>2. free = [pc |-> "free", kind |-> "poll", target |-> Nothing, live |-> FALSE, version |-> 0]
    BY <2>1 DEF NoRequestYet
  <2>3. free \in RequestType
    BY <2>2, DashboardAssumption DEF RequestType, Versions
  <2>4. request = [free EXCEPT !.pc = pc, !.kind = kind, !.target = target, !.live = live]
    BY <2>1
  <2> HIDE DEF request
  <2> QED
    BY <1>l, <2>3, <2>4 DEF RequestType
<1> HIDE DEF request
<1>2. server' \in [Incidents -> Versions] /\ page' \in PageType /\ page'.mounted = page.mounted
  BY DEF PageInv, DashboardTypeOK, PageType
<1> QED
  BY <1>l, <1>0, <1>1, <1>2, RequestMoves

\* A request that is on its way moves on, is shown or fails.
LEMMA RequestProgresses ==
  ASSUME PageInv, NEW q \in Slots, Progresses(q)
  PROVE  PageInv' /\ KeepsSelection
<1>0. /\ flight[q] \in RequestType /\ page \in PageType /\ server \in [Incidents -> Versions]
      /\ 1 \in Versions /\ 0 \in Versions
      /\ flight[q].pc # "free" => flight[q].target \in Incidents
      /\ flight[q].live => flight[q].target = page.mounted
  BY DashboardAssumption
  DEF PageInv, DashboardTypeOK, Aimed, RequestType, PageType, Versions
<1> DEFINE free == NoRequestYet
<1>f. /\ free \in RequestType /\ free.pc = "free" /\ ~free.live
      /\ Free(q) = [flight EXCEPT ![q] = free]
  <2>1. free = [pc |-> "free", kind |-> "poll", target |-> Nothing, live |-> FALSE,
                version |-> 0]
    BY DEF NoRequestYet
  <2> QED
    BY <1>0, <2>1 DEF RequestType, Free
<1> HIDE DEF free
<1>1. CASE Created(q)
  <2> DEFINE request == [flight[q] EXCEPT !.pc = "posting"]
  <2>1. /\ flight' = [flight EXCEPT ![q] = request] /\ request \in RequestType
        /\ request.pc = "posting" /\ request.target = flight[q].target
        /\ request.live = flight[q].live
    BY <1>0, <1>1 DEF Created, RequestType
  <2> HIDE DEF request
  <2>2. /\ server' \in [Incidents -> Versions] /\ page' \in PageType
        /\ page'.mounted = page.mounted /\ flight[q].pc = "creating"
    BY <1>0, <1>1 DEF Created, Select, PageType, RequestType
  <2> QED
    BY <1>0, <2>1, <2>2, RequestMoves
<1>2. CASE Posted(q)
  <2> DEFINE request == [flight[q] EXCEPT !.pc = "asked"]
  <2>1. /\ flight' = [flight EXCEPT ![q] = request] /\ request \in RequestType
        /\ request.pc = "asked" /\ request.target = flight[q].target
        /\ request.live = flight[q].live
    BY <1>0, <1>2 DEF Posted, RequestType
  <2> HIDE DEF request
  <2>2. page' \in PageType /\ page'.mounted = page.mounted /\ flight[q].pc = "posting"
    BY <1>0, <1>2 DEF Posted
  <2>3. server' \in [Incidents -> Versions]
    BY <1>0, <1>2, DashboardAssumption DEF Posted, Versions
  <2> QED
    BY <1>0, <2>1, <2>2, <2>3, RequestMoves
<1>3. CASE Answers(q)
  <2> DEFINE request == [flight[q] EXCEPT !.pc = "read",
                                          !.version = server[flight[q].target]]
  <2>0. flight[q].target \in Incidents /\ server[flight[q].target] \in Versions
    BY <1>0, <1>3 DEF Answers
  <2>1. /\ request \in RequestType
        /\ request.pc = "read" /\ request.target = flight[q].target
        /\ request.live = flight[q].live
    BY <1>0, <2>0 DEF RequestType
  <2>3. flight' = [flight EXCEPT ![q] = request]
    BY <1>0, <1>3 DEF Answers, PageInv, DashboardTypeOK
  <2> HIDE DEF request
  <2>2. /\ server' \in [Incidents -> Versions] /\ page' \in PageType
        /\ page'.mounted = page.mounted /\ flight[q].pc = "asked"
    BY <1>0, <1>3 DEF Answers
  <2> QED
    BY <1>0, <2>1, <2>2, <2>3, RequestMoves
<1>4. CASE Shown(q)
  <2>1. /\ flight' = [flight EXCEPT ![q] = free] /\ server' = server
        /\ flight[q].pc = "read"
    BY <1>f, <1>4 DEF Shown
  <2>2. \/ page' = page
        \/ /\ Select(flight[q].target, flight[q].version)
           /\ flight[q].kind = "poll" => flight[q].live
    BY <1>4 DEF Shown, PollShown
  <2>3. /\ page' \in PageType /\ page'.mounted = page.mounted
        /\ flight[q].kind = "poll" /\ page.mounted = page.incident =>
             page'.incident = page.incident
    BY <1>0, <2>2 DEF Select, PageType, RequestType
  <2> QED
    BY <1>0, <1>f, <2>1, <2>3, RequestMoves
<1>5. CASE RequestFails(q)
  <2>1. /\ flight' = [flight EXCEPT ![q] = free] /\ page' = page
        /\ flight[q].pc # "read"
    BY <1>f, <1>5 DEF RequestFails
  <2>2. server' \in [Incidents -> Versions]
    BY <1>0, <1>5 DEF RequestFails
  <2> QED
    BY <1>0, <1>f, <2>1, <2>2, RequestMoves
<1> QED
  BY <1>1, <1>2, <1>3, <1>4, <1>5 DEF Progresses

\* Every step of the page and its server keeps the invariant and the selection.
LEMMA PageStep ==
  ASSUME PageInv, DashboardNext
  PROVE  PageInv' /\ KeepsSelection
<1>1. CASE Render \/ Navigate
  <2>1. flight' = Unmounted(flight) /\ server' = server
    BY <1>1 DEF Render, Navigate
  <2>2. \A q \in Slots : /\ flight'[q].pc = flight[q].pc /\ ~flight'[q].live
                         /\ flight'[q].target = flight[q].target
    BY <2>1 DEF Unmounted, PageInv, DashboardTypeOK
  <2>3. DashboardTypeOK'
    <3>1. flight' \in [Slots -> RequestType]
      <4>1. \A q \in Slots : flight[q] \in RequestType
        BY DEF PageInv, DashboardTypeOK, RequestType, Versions
      <4>2. \A q \in Slots : [flight[q] EXCEPT !.live = FALSE] \in RequestType
        BY <4>1 DEF RequestType
      <4> QED
        BY <2>1, <4>2 DEF Unmounted
    <3>0. page \in PageType /\ 0 \in Versions
      BY DashboardAssumption DEF PageInv, DashboardTypeOK, PageType, Versions
    <3>2. page' \in PageType
      <4>1. CASE page' = [page EXCEPT !.mounted = page.incident]
        BY <3>0, <4>1 DEF PageType
      <4>2. CASE page' = [page EXCEPT !.incident = Nothing, !.version = 0, !.mounted = Nothing]
        BY <3>0, <4>2 DEF PageType
      <4> QED
        BY <1>1, <4>1, <4>2 DEF Render, Navigate
    <3> QED
      BY <2>1, <3>1, <3>2 DEF PageInv, DashboardTypeOK, PageType, RequestType, Versions
  <2> QED
    BY <2>2, <2>3 DEF PageInv, Aimed, KeepsSelection
<1>2. ASSUME NEW i \in Incidents, ServerMoves(i)
      PROVE  PageInv' /\ KeepsSelection
  <2>1. server' \in [Incidents -> Versions] /\ page' = page /\ flight' = flight
    BY <1>2, DashboardAssumption DEF ServerMoves, PageInv, DashboardTypeOK, Versions
  <2> QED
    BY <2>1 DEF PageInv, DashboardTypeOK, Aimed, KeepsSelection, Versions
<1>3. ASSUME NEW q \in Slots, Poll(q) \/ Operate(q)
      PROVE  PageInv' /\ KeepsSelection
  <2>1. page.mounted \in Incidents
    BY <1>3 DEF Poll, Operate, PageInv, DashboardTypeOK
  <2> QED
    BY <1>3, <2>1, RequestSent DEF Poll, Operate
<1>4. ASSUME NEW q \in Slots, NEW i \in Incidents, Open(q, i) \/ Create(q, i)
      PROVE  PageInv' /\ KeepsSelection
  BY <1>4, RequestSent DEF Open, Create
<1>5. ASSUME NEW q \in Slots, Progresses(q)
      PROVE  PageInv' /\ KeepsSelection
  BY <1>5, RequestProgresses
<1> QED
  BY <1>1, <1>2, <1>3, <1>4, <1>5 DEF DashboardNext

\* A page that is left alone keeps them too.
LEMMA PageRests ==
  ASSUME PageInv, UNCHANGED dashboardVars
  PROVE  PageInv' /\ KeepsSelection
  BY DEF dashboardVars, PageInv, DashboardTypeOK, Aimed, KeepsSelection, Versions

-----------------------------------------------------------------------------
(* The health of an application. *)

\* What was visited, or is to be, belongs to every closed set of the application.
Needed ==
  \A S \in SUBSET Services : Application \in S /\ Closed(S) => visited \cup pending \subseteq S

\* What visited names depend on was visited, or is to be.
Followed == \A s \in visited : depends[s] \subseteq visited \cup pending

\* The visit comes after the registry, the checks after the visit.
Stages ==
  /\ asking # Unasked => /\ visited = {} /\ pending = {} /\ verdict = "none"
                         /\ CheckIn("none") = Services
  /\ visited \cup pending # {} => Application \in visited \cup pending
  /\ CheckIn("none") = Services
     \/ /\ pending = {} /\ visited # {}
        /\ \A s \in Services : checks[s].state = "none" <=> s \notin Plan
  /\ CheckIn("none") = Services => verdict \in {"none", "refused"}
  /\ pending # {} => CheckIn("none") = Services /\ verdict = "none"

\* The verdict is drawn from the answers of all checks.
Judged ==
  verdict = "HEALTHY" =>
    \A s \in Services : checks[s].state \in {"none", "HEALTHY"}

ApplicationInv ==
  ApplicationTypeOK /\ Needed /\ Followed /\ Stages /\ Judged

\* The services an application is said to be healthy by are its dependencies.
LEMMA HealthIsThorough ==
  ASSUME ApplicationInv
  PROVE  HealthyThroughout
<1>1. visited \subseteq Dependencies
  BY DEF ApplicationInv, ApplicationTypeOK, Needed, Dependencies
<1>2. ASSUME verdict = "HEALTHY", NEW s \in Dependencies \cap Checked
      PROVE  checks[s].state = "HEALTHY"
  <2>1. /\ pending = {} /\ visited # {} /\ visited \subseteq Services /\ s \in Services
        /\ \A t \in Services : checks[t].state = "none" <=> t \notin Plan
    BY <1>2 DEF ApplicationInv, ApplicationTypeOK, Stages, Dependencies
  <2>2. Application \in visited /\ Closed(visited)
    BY <2>1 DEF ApplicationInv, Stages, Followed, Closed
  <2>3. s \in visited
    BY <1>2, <2>1, <2>2 DEF Dependencies
  <2> QED
    BY <1>2, <2>1, <2>3 DEF ApplicationInv, Judged, Plan
<1>3. ASSUME NEW s \in Services \ Dependencies
      PROVE  checks[s].state = "none"
  BY <1>1 DEF ApplicationInv, Stages, CheckIn, Plan
<1> QED
  BY <1>2, <1>3 DEF HealthyThroughout

\* Nothing was asked, visited or checked before the handler starts.
LEMMA ApplicationStarts ==
  ASSUME ApplicationInit
  PROVE  ApplicationInv
<1>1. /\ depends \in [Services -> SUBSET Services] /\ asking = Unasked
      /\ visited = {} /\ pending = {} /\ verdict = "none"
      /\ checks = [s \in Services |-> NoCheck]
  BY ApplicationAssumption DEF ApplicationInit
<1>2. checks \in [Services -> [state : {"none", "queued", "running"} \cup Results, until : Nat]]
      /\ \A s \in Services : checks[s].state = "none"
  BY <1>1 DEF NoCheck
<1>3. CheckIn("none") = Services
  BY <1>2 DEF CheckIn
<1> QED
  BY <1>1, <1>2, <1>3
  DEF ApplicationInv, ApplicationTypeOK, Needed, Followed, Stages, Judged

\* The registry is asked for, and the visit begins or does not.
LEMMA RegistryStep ==
  ASSUME ApplicationInv, now \in Nat, CheckStart \/ RegistryKnown \/ RegistryUnknown
  PROVE  ApplicationInv'
<1>1. /\ UNCHANGED <<depends, visited, checks>> /\ visited = {}
      /\ CheckIn("none") = Services /\ verdict = "none" /\ pending = {}
  <2>1. CASE asking # Unasked
    BY <2>1
    DEF CheckStart, RegistryKnown, RegistryUnknown, ApplicationInv, Stages
  <2>2. CASE CheckStart
    BY <2>2 DEF CheckStart, ApplicationInv, Stages
  <2> QED
    BY <2>1, <2>2 DEF RegistryKnown, RegistryUnknown
<1>2. \/ pending' = {} /\ verdict' \in {"none", "refused"}
         /\ (asking' = Unasked \/ (asking' \in Nat /\ verdict' = "none"))
      \/ pending' = {Application} /\ verdict' = "none" /\ asking' = Unasked
  BY <1>1, ApplicationAssumption DEF CheckStart, RegistryKnown, RegistryUnknown
<1>3. CheckIn("none")' = Services /\ Application \in Services
  BY <1>1, ApplicationAssumption DEF CheckIn
<1>4. ApplicationTypeOK'
  BY <1>1, <1>2, <1>3 DEF ApplicationInv, ApplicationTypeOK
<1>5. Needed' /\ Followed' /\ Judged'
  BY <1>1, <1>2 DEF Needed, Followed, Judged, Closed
<1>6. Stages'
  BY <1>1, <1>2, <1>3 DEF Stages
<1> QED
  BY <1>4, <1>5, <1>6 DEF ApplicationInv

\* One more service is visited.
LEMMA VisitStep ==
  ASSUME ApplicationInv, NEW name \in Services, Visit(name)
  PROVE  ApplicationInv'
<1>1. /\ name \in pending /\ visited' = visited \cup {name}
      /\ pending' = (pending \cup depends[name]) \ (visited \cup {name})
      /\ UNCHANGED <<depends, asking, checks, verdict>>
  BY DEF Visit
<1>2. /\ CheckIn("none") = Services /\ verdict = "none" /\ asking = Unasked
      /\ depends[name] \subseteq Services
  BY <1>1 DEF ApplicationInv, ApplicationTypeOK, Stages
<1>3. ApplicationTypeOK'
  BY <1>1, <1>2 DEF ApplicationInv, ApplicationTypeOK
<1>4. visited' \cup pending' = visited \cup pending \cup depends[name]
  BY <1>1
<1>5. Needed'
  <2>1. ASSUME NEW S \in SUBSET Services, Application \in S, Closed(S)'
        PROVE  visited' \cup pending' \subseteq S
    BY <1>1, <1>4, <2>1 DEF ApplicationInv, Needed, Closed
  <2> QED
    BY <2>1 DEF Needed
<1>6. Followed'
  BY <1>1, <1>4 DEF ApplicationInv, Followed
<1>7. CheckIn("none")' = Services
  BY <1>1, <1>2 DEF CheckIn
<1>8. Stages'
  BY <1>1, <1>2, <1>4, <1>7 DEF ApplicationInv, Stages
<1>9. Judged'
  BY <1>1, <1>2 DEF Judged
<1> QED
  BY <1>3, <1>5, <1>6, <1>8, <1>9 DEF ApplicationInv

\* The checks of all that was visited are planned, or refused.
LEMMA PlanStep ==
  ASSUME ApplicationInv, PlanChecks
  PROVE  ApplicationInv'
<1>1. /\ visited # {} /\ pending = {} /\ verdict = "none" /\ CheckIn("none") = Services
      /\ UNCHANGED <<depends, asking, visited, pending>> /\ asking = Unasked
      /\ Application \in visited
  BY DEF PlanChecks, ApplicationInv, Stages
<1>2. Needed' /\ Followed' /\ Plan' = Plan
  BY <1>1 DEF ApplicationInv, Needed, Followed, Closed, Plan
<1>3. CASE verdict' = "refused" /\ UNCHANGED checks
  <2>1. CheckIn("none")' = Services
    BY <1>1, <1>3 DEF CheckIn
  <2>2. ApplicationTypeOK' /\ Judged' /\ Stages'
    BY <1>1, <1>3, <2>1 DEF ApplicationInv, ApplicationTypeOK, Judged, Stages
  <2> QED
    BY <1>2, <2>2 DEF ApplicationInv
<1>4. CASE /\ checks' = [s \in Services |->
                           IF s \in Plan THEN [NoCheck EXCEPT !.state = "queued"] ELSE NoCheck]
           /\ UNCHANGED verdict
  <2>1. /\ [NoCheck EXCEPT !.state = "queued"] = [state |-> "queued", until |-> 0]
        /\ NoCheck = [state |-> "none", until |-> 0]
    BY DEF NoCheck
  <2>2. \A s \in Services : checks'[s] = IF s \in Plan THEN [state |-> "queued", until |-> 0]
                                         ELSE [state |-> "none", until |-> 0]
    BY <1>4, <2>1
  <2>3. checks' \in [Services -> [state : {"none", "queued", "running"} \cup Results,
                                  until : Nat]]
    BY <1>4, <2>1
  <2>4. \A s \in Services : checks'[s].state = "none" <=> s \notin Plan
    BY <2>2
  <2>5. CheckIn("none")' # Services
    <3>1. Application \in Plan /\ Application \in Services
      BY <1>1, ApplicationAssumption DEF Plan
    <3>2. Application \notin CheckIn("none")'
      BY <2>4, <3>1 DEF CheckIn
    <3> QED
      BY <3>1, <3>2
  <2>6. ApplicationTypeOK' /\ Judged' /\ Stages'
    BY <1>1, <1>2, <1>4, <2>3, <2>4, <2>5
    DEF ApplicationInv, ApplicationTypeOK, Judged, Stages
  <2> QED
    BY <1>2, <2>6 DEF ApplicationInv
<1> QED
  BY <1>3, <1>4 DEF PlanChecks

\* A check that was planned starts, or has its result.
LEMMA CheckStep ==
  ASSUME ApplicationInv, now \in Nat, NEW s \in Services,
         StartCheck(s) \/ \E result \in Results : CheckAnswers(s, result)
  PROVE  ApplicationInv'
<1>1. PICK check \in [state : {"running"} \cup Results, until : Nat] :
        checks' = [checks EXCEPT ![s] = check]
  <2>1. CASE StartCheck(s)
    <3>1. [state |-> "running", until |-> now + CheckTimeout]
            \in [state : {"running"} \cup Results, until : Nat]
      BY ApplicationAssumption
    <3> QED
      BY <2>1, <3>1 DEF StartCheck
  <2>2. ASSUME NEW result \in Results, CheckAnswers(s, result)
        PROVE  \E check \in [state : {"running"} \cup Results, until : Nat] :
                 checks' = [checks EXCEPT ![s] = check]
    BY <2>2 DEF CheckAnswers
  <2> QED
    BY <2>1, <2>2
<1>2. /\ checks[s].state \in {"queued", "running"}
      /\ UNCHANGED <<depends, asking, visited, pending, verdict>>
  BY DEF StartCheck, CheckAnswers, CheckIn
<1>3. /\ \A t \in Services : checks'[t].state = "none" <=> checks[t].state = "none"
      /\ checks' \in [Services -> [state : {"none", "queued", "running"} \cup Results,
                                   until : Nat]]
  BY <1>1, <1>2 DEF ApplicationInv, ApplicationTypeOK, Results
<1>4. /\ CheckIn("none")' = CheckIn("none") /\ s \notin CheckIn("none")
      /\ CheckIn("none") # Services
  BY <1>2, <1>3 DEF CheckIn
<1>5. verdict # "HEALTHY"
  BY <1>2 DEF ApplicationInv, Judged
<1>6. ApplicationTypeOK' /\ Needed' /\ Followed' /\ Judged'
  BY <1>2, <1>3, <1>5 DEF ApplicationInv, ApplicationTypeOK, Needed, Followed, Judged, Closed
<1>7. Stages'
  BY <1>2, <1>3, <1>4 DEF ApplicationInv, Stages, Plan
<1> QED
  BY <1>6, <1>7 DEF ApplicationInv

\* All results are there.
LEMMA AggregateStep ==
  ASSUME ApplicationInv, Aggregate
  PROVE  ApplicationInv'
<1>1. /\ CheckIn("none") # Services /\ CheckIn("queued") = {} /\ CheckIn("running") = {}
      /\ UNCHANGED <<depends, asking, visited, pending, checks>>
      /\ verdict' \in Results /\ pending = {} /\ asking = Unasked
      /\ verdict' = "HEALTHY" => CheckIn("UNHEALTHY") = {} /\ CheckIn("UNKNOWN") = {}
  BY DEF Aggregate, ApplicationInv, Stages, Results
<1>2. \A s \in Services : checks[s].state \in {"none", "HEALTHY", "UNHEALTHY", "UNKNOWN"}
  BY <1>1 DEF ApplicationInv, ApplicationTypeOK, CheckIn, Results
<1>3. ApplicationTypeOK' /\ Needed' /\ Followed'
  BY <1>1 DEF ApplicationInv, ApplicationTypeOK, Needed, Followed, Closed
<1>4. Judged'
  BY <1>1, <1>2 DEF Judged, CheckIn
<1>5. CheckIn("none")' = CheckIn("none") /\ Plan' = Plan
  BY <1>1 DEF CheckIn, Plan
<1>6. Stages'
  BY <1>1, <1>5 DEF ApplicationInv, Stages
<1> QED
  BY <1>3, <1>4, <1>6 DEF ApplicationInv

\* Every step of the handler and of the gateway's answers keeps the invariant.
LEMMA ApplicationNextStep ==
  ASSUME ApplicationInv, now \in Nat, ApplicationNext
  PROVE  ApplicationInv'
<1>1. CASE CheckStart \/ RegistryKnown \/ RegistryUnknown
  BY <1>1, RegistryStep
<1>2. ASSUME NEW s \in Services, Visit(s)
      PROVE  ApplicationInv'
  BY <1>2, VisitStep
<1>3. ASSUME NEW s \in Services,
             StartCheck(s) \/ \E result \in Results : CheckAnswers(s, result)
      PROVE  ApplicationInv'
  BY <1>3, CheckStep
<1>4. CASE PlanChecks
  BY <1>4, PlanStep
<1>5. CASE Aggregate
  BY <1>5, AggregateStep
<1> QED
  BY <1>1, <1>2, <1>3, <1>4, <1>5 DEF ApplicationNext, ApplicationStep

\* A handler that is left alone keeps it too.
LEMMA ApplicationRests ==
  ASSUME ApplicationInv, UNCHANGED applicationVars
  PROVE  ApplicationInv'
<1>1. UNCHANGED <<depends, asking, visited, pending, checks, verdict>>
  BY DEF applicationVars
<1> QED
  BY <1>1 DEF ApplicationInv, ApplicationTypeOK, Needed, Followed, Stages, Judged, Closed,
              CheckIn, Plan

-----------------------------------------------------------------------------
(* The budget of a context. *)

PromptType == [state : {"whole", "compacted", "refused", "overrun"}, size : Nat]

\* Sizes have a sum, of no more than the largest for each.
LEMMA TotalBound ==
  ASSUME NEW D, IsFiniteSet(D), NEW sizes \in [D -> Nat]
  PROVE  /\ Total(sizes) \in Nat
         /\ \A k \in Nat : (\A o \in D : sizes[o] <= k) => Total(sizes) <= Cardinality(D) * k
         /\ (\E o \in D : 0 < sizes[o]) => 0 < Total(sizes)
<1> DEFINE part == [o \in D |-> {o} \X (1..sizes[o])]
           parts == {{o} \X (1..sizes[o]) : o \in D}
           all == UNION parts
<1>1. DOMAIN sizes = D /\ Total(sizes) = Cardinality(all)
  BY DEF Total
<1>2. IsFiniteSet(parts)
  <2>1. part \in Surjection(D, parts)
    BY DEF Surjection
  <2> QED
    BY <2>1, FS_Surjection
<1>3. \A T \in parts : IsFiniteSet(T)
  <2>1. ASSUME NEW o \in D
        PROVE  IsFiniteSet({o} \X (1..sizes[o]))
    <3>1. IsFiniteSet(1..sizes[o])
      <4>1. 1 \in Int /\ sizes[o] \in Int
        OBVIOUS
      <4> QED
        BY <4>1, FS_Interval
    <3>2. IsFiniteSet({o})
      BY FS_Singleton
    <3> QED
      BY <3>1, <3>2, FS_Product
  <2> QED
    BY <2>1
<1>4. IsFiniteSet(all)
  BY <1>2, <1>3, FS_UNION
<1>5. Total(sizes) \in Nat
  BY <1>1, <1>4, FS_CardinalityType
<1>6. ASSUME NEW k \in Nat, \A o \in D : sizes[o] <= k
      PROVE  Total(sizes) <= Cardinality(D) * k
  <2>1. IsFiniteSet(1..k) /\ Cardinality(1..k) = k
    BY FS_Interval
  <2>2. /\ IsFiniteSet(D \X (1..k))
        /\ Cardinality(D \X (1..k)) = Cardinality(D) * k
    BY <2>1, FS_Product
  <2>3. all \in SUBSET (D \X (1..k))
    <3>1. ASSUME NEW o \in D
          PROVE  {o} \X (1..sizes[o]) \subseteq D \X (1..k)
      <4>1. 1..sizes[o] \subseteq 1..k
        BY <1>6
      <4> QED
        BY <4>1
    <3> QED
      BY <3>1
  <2> HIDE DEF all
  <2> QED
    BY <1>1, <2>2, <2>3, FS_Subset
<1>7. ASSUME NEW o \in D, 0 < sizes[o]
      PROVE  0 < Total(sizes)
  <2>1. <<o, 1>> \in {o} \X (1..sizes[o])
    BY <1>7
  <2>2. all # {}
    BY <2>1
  <2> HIDE DEF all
  <2> QED
    BY <1>1, <1>4, <1>5, <2>2, FS_EmptySet
<1> QED
  BY <1>5, <1>6, <1>7

\* The sizes that a pass may leave are numbers, and as small as its shares.
LEMMA PassSizes ==
  ASSUME NEW D, IsFiniteSet(D), NEW results \in [D -> Nat], NEW shares \in [D -> Nat],
         NEW frame \in Nat, Hole * Cardinality(D) <= frame,
         NEW size \in Pass(frame, results, shares)
  PROVE  /\ size \in Nat
         /\ \A k \in Nat : Shortest <= k /\ (\A o \in D : shares[o] <= k) =>
              size <= frame + Cardinality(D) * k
<1>0. /\ DOMAIN results = D /\ Shortest \in Nat /\ Hole \in Nat /\ Cardinality(D) \in Nat
      /\ Hole * Cardinality(D) \in Nat
  <2>1. DOMAIN results = D /\ Shortest \in Nat /\ Hole \in Nat /\ Cardinality(D) \in Nat
    BY BudgetAssumption, FS_CardinalityType
  <2>2. \A m, n \in Nat : m * n \in Nat
    OBVIOUS
  <2> QED
    BY <2>1, <2>2
<1>1. PICK sizes : /\ sizes = [o \in D |-> sizes[o]]
                   /\ \A o \in D : sizes[o] \in CompactResult(results[o], shares[o])
                   /\ size = Filled(frame, sizes)
  BY <1>0 DEF Pass
<1>2. \A o \in D : /\ sizes[o] \in Nat
                   /\ sizes[o] <= shares[o] \/ sizes[o] = Shortest
  BY <1>0, <1>1 DEF CompactResult
<1>3. sizes \in [D -> Nat]
  BY <1>1, <1>2
<1>4. size = frame + Total(sizes) - Hole * Cardinality(D)
  BY <1>1, <1>3 DEF Filled
<1>5. Total(sizes) \in Nat
  BY <1>3, TotalBound
<1>6. size \in Nat
  BY <1>0, <1>4, <1>5
<1>7. ASSUME NEW k \in Nat, Shortest <= k, \A o \in D : shares[o] <= k
      PROVE  size <= frame + Cardinality(D) * k
  <2>1. \A o \in D : sizes[o] <= k
    BY <1>0, <1>2, <1>7
  <2>2. Total(sizes) <= Cardinality(D) * k
    BY <1>3, <2>1, TotalBound
  <2>3. Cardinality(D) * k \in Int
    BY <1>0
  <2> QED
    BY <1>0, <1>4, <1>5, <2>2, <2>3
<1> QED
  BY <1>6, <1>7

\* A share in proportion to the weight of a result is a number.
LEMMA WeightedNumbers ==
  ASSUME NEW D, IsFiniteSet(D), NEW results \in [D -> Nat], NEW available \in Nat
  PROVE  WeightedShares(results, available) \in [D -> Nat]
<1>0. DOMAIN results = D /\ MinShare \in Nat /\ MaxWeight \in Nat /\ 0 < MinShare
      /\ MinShare <= MaxWeight
  BY BudgetAssumption
<1> DEFINE weights == [o \in D |-> Weight(results[o])]
           total == Total(weights)
           share(o) == (available * weights[o]) \div total
<1>1. weights \in [D -> Nat] /\ \A o \in D : 0 < weights[o]
  BY <1>0 DEF Weight
<1>2. WeightedShares(results, available) =
        [o \in D |-> IF share(o) < MinShare THEN MinShare ELSE share(o)]
  BY <1>0 DEF WeightedShares
<1> HIDE DEF weights
<1>3. ASSUME NEW o \in D
      PROVE  share(o) \in Int
  <2>1. total \in Nat /\ 0 < total
    BY <1>1, TotalBound
  <2>2. \A w \in Nat : available * w \in Nat
    OBVIOUS
  <2>3. available * weights[o] \in Nat
    BY <1>1, <2>2
  <2> HIDE DEF total
  <2>4. \A a \in Nat, t \in Nat : 0 < t => a \div t \in Int
    OBVIOUS
  <2> QED
    BY <2>1, <2>3, <2>4
<1> HIDE DEF share
<1>4. ASSUME NEW o \in D
      PROVE  (IF share(o) < MinShare THEN MinShare ELSE share(o)) \in Nat
  BY <1>0, <1>3
<1> QED
  BY <1>2, <1>4

\* What is available, divided equally, is no less than the least share of each.
LEMMA EqualParts ==
  ASSUME NEW available \in Nat, NEW n \in Nat, NEW m \in Nat, 0 < n, m * n <= available
  PROVE  /\ available \div n \in Nat /\ m <= available \div n
         /\ n * (available \div n) <= available
<1> DEFINE each == available \div n
<1>1. /\ each \in Int /\ n * each <= available /\ available < n * (each + 1)
  OBVIOUS
<1> HIDE DEF each
<1>2. m <= each
  BY <1>1
<1> QED
  BY <1>1, <1>2 DEF each

\* Whatever the sizes, a context is answered whole, refused, or compacted under
\* its budget: the second pass, of equal shares, always ends below it.
LEMMA ContextCompacted ==
  ASSUME NEW context \in Contexts, NEW prompt \in CompactContext(context)
  PROVE  /\ prompt \in PromptType /\ prompt.state # "overrun"
         /\ prompt.size <= ContextChars
<1> DEFINE results == context.results
           D == DOMAIN results
           n == Cardinality(D)
           whole == Filled(context.frame + context.clipped + context.retrieved, results)
           frame == context.frame +
                      (IF context.frame + context.retrieved > ContextChars - Reserve * n
                       THEN 0 ELSE context.retrieved)
           available == ContextChars - frame - Slack
<1>1. /\ context.frame \in Nat /\ context.clipped \in Nat /\ context.retrieved \in Nat
      /\ results \in [D -> Nat] /\ IsFiniteSet(D) /\ Hole * n <= context.frame
  BY ContextAssumption
<1>2. /\ ContextChars \in Nat /\ Slack \in Nat /\ MinShare \in Nat /\ Hole \in Nat
      /\ Shortest \in Nat /\ Shortest <= MinShare
      /\ n \in Nat /\ Hole * n \in Nat /\ MinShare * n \in Nat
  <2>1. /\ ContextChars \in Nat /\ Slack \in Nat /\ MinShare \in Nat /\ Hole \in Nat
        /\ Shortest \in Nat /\ Shortest <= MinShare /\ n \in Nat
    BY <1>1, BudgetAssumption, FS_CardinalityType
  <2>2. \A k, m \in Nat : k * m \in Nat
    OBVIOUS
  <2> QED
    BY <2>1, <2>2
<1>3. whole \in Nat
  <2>1. Total(results) \in Nat
    BY <1>1, TotalBound
  <2>2. whole = context.frame + context.clipped + context.retrieved + Total(results) - Hole * n
    BY DEF Filled
  <2> HIDE DEF whole, n
  <2> QED
    BY <1>1, <1>2, <2>1, <2>2
<1>4. frame \in Nat /\ context.frame <= frame /\ available \in Int
  BY <1>1, <1>2
<1>5. \/ whole <= ContextChars /\ prompt = Prompt("whole", whole)
      \/ prompt = Prompt("refused", 0)
      \/ /\ ~(available < MinShare * n)
         /\ \E size \in Passes(frame, results, available) :
              prompt = Prompt(IF size <= ContextChars THEN "compacted" ELSE "overrun", size)
  <2>1. CASE whole <= ContextChars
    <3>1. ~(whole > ContextChars)
      BY <1>2, <1>3, <2>1
    <3>2. CompactContext(context) = {Prompt("whole", whole)}
      BY <2>1, <3>1 DEF CompactContext
    <3> QED
      BY <2>1, <3>2
  <2>2. CASE ~(whole <= ContextChars) /\ available < MinShare * n
    <3>1. whole > ContextChars
      BY <1>2, <1>3, <2>2
    <3>2. CompactContext(context) = {Prompt("refused", 0)}
      BY <2>2, <3>1 DEF CompactContext
    <3> QED
      BY <3>2
  <2>3. CASE ~(whole <= ContextChars) /\ ~(available < MinShare * n)
    <3>1. CompactContext(context) =
            {Prompt(IF size <= ContextChars THEN "compacted" ELSE "overrun", size) :
               size \in Passes(frame, results, available)}
      BY <2>3 DEF CompactContext
    <3> QED
      BY <2>3, <3>1
  <2> QED
    BY <2>1, <2>2, <2>3
<1> HIDE DEF whole, frame, available, results
<1>6. CASE whole <= ContextChars /\ prompt = Prompt("whole", whole)
  BY <1>3, <1>6 DEF Prompt, PromptType
<1>7. CASE prompt = Prompt("refused", 0)
  BY <1>2, <1>7 DEF Prompt, PromptType
<1>8. ASSUME ~(available < MinShare * n), NEW size \in Passes(frame, results, available),
             prompt = Prompt(IF size <= ContextChars THEN "compacted" ELSE "overrun", size)
      PROVE  /\ prompt \in PromptType /\ prompt.state # "overrun"
             /\ prompt.size <= ContextChars
  <2>1. available \in Nat /\ MinShare * n <= available /\ Hole * n <= frame
    BY <1>1, <1>2, <1>4, <1>8
  <2>2. size \in Nat /\ size <= ContextChars
    <3>1. CASE size \in Pass(frame, results, WeightedShares(results, available))
                 /\ size <= ContextChars
      <4>1. WeightedShares(results, available) \in [D -> Nat]
        BY <1>1, <2>1, WeightedNumbers
      <4>2. size \in Nat
        BY <1>1, <1>4, <2>1, <3>1, <4>1, PassSizes
      <4> QED
        BY <3>1, <4>2
    <3>2. CASE size \in Pass(frame, results, EqualShares(results, available)) /\ 0 < n
      <4> DEFINE each == available \div n
      <4>1. each \in Nat /\ MinShare <= each /\ n * each <= available
        BY <1>2, <2>1, <3>2, EqualParts
      <4>2. EqualShares(results, available) = [o \in D |-> each]
        BY DEF EqualShares
      <4> HIDE DEF each
      <4>3. EqualShares(results, available) \in [D -> Nat]
        BY <4>1, <4>2
      <4>4. size \in Nat /\ size <= frame + n * each
        <5>1. Shortest <= each /\ \A o \in D : EqualShares(results, available)[o] <= each
          BY <1>2, <4>1, <4>2
        <5> QED
          BY <1>1, <1>4, <2>1, <3>2, <4>1, <4>3, <5>1, PassSizes
      <4>5. n * each \in Int
        BY <1>2, <4>1
      <4> HIDE DEF n
      <4> QED
        BY <1>2, <1>4, <4>1, <4>4, <4>5 DEF available
    <3>3. CASE size \in Pass(frame, results, EqualShares(results, available)) /\ n = 0
      <4>1. D = {}
        BY <1>1, <3>3, FS_EmptySet
      <4>2. /\ EqualShares(results, available) \in [D -> Nat]
            /\ \A o \in D : EqualShares(results, available)[o] <= Shortest
        BY <4>1 DEF EqualShares
      <4>3. size \in Nat /\ size <= frame + n * Shortest
        BY <1>1, <1>2, <1>4, <2>1, <3>3, <4>2, PassSizes
      <4>4. n * Shortest = 0
        BY <1>2, <3>3
      <4> QED
        BY <1>2, <1>4, <2>1, <4>3, <4>4 DEF available
    <3> QED
      BY <1>2, <1>8, <3>1, <3>2, <3>3 DEF Passes
  <2> QED
    BY <1>8, <2>2 DEF Prompt, PromptType
<1> QED
  BY <1>5, <1>6, <1>7, <1>8

-----------------------------------------------------------------------------
(* The calls of the language model and their counters. *)

CallType == [pc : {"idle", "streaming"} \cup Ends, kind : Kinds, attempt : 0..2, until : Nat,
             prompt : PromptType, chars : Nat]

\* A call that is under way has made one request or two, and another none.
Attempts ==
  \A c \in Callers : /\ calls[c].pc \in {"idle", "refused"} => calls[c].attempt = 0
                     /\ calls[c].pc = "streaming" => calls[c].attempt \in {1, 2}

DecisionInv == DecisionTypeOK /\ Attempts /\ MetricsAgree

\* Two sets that differ in one element at most.
LEMMA OneApart ==
  ASSUME NEW S, NEW T, NEW c, IsFiniteSet(S), IsFiniteSet(T), S \ {c} = T \ {c}
  PROVE  /\ Cardinality(S) \in Nat /\ Cardinality(T) \in Nat
         /\ c \in S /\ c \notin T => Cardinality(T) = Cardinality(S) - 1
         /\ c \notin S /\ c \in T => Cardinality(T) = Cardinality(S) + 1
         /\ (c \in S <=> c \in T) => Cardinality(T) = Cardinality(S)
<1>1. Cardinality(S) \in Nat /\ Cardinality(T) \in Nat
  BY FS_CardinalityType
<1>2. ASSUME c \in S, c \notin T PROVE Cardinality(T) = Cardinality(S) - 1
  <2>1. T = S \ {c}
    BY <1>2
  <2> QED
    BY <1>2, <2>1, FS_RemoveElement
<1>3. ASSUME c \notin S, c \in T PROVE Cardinality(T) = Cardinality(S) + 1
  <2>1. T = S \cup {c}
    BY <1>3
  <2> QED
    BY <1>3, <2>1, FS_AddElement
<1>4. ASSUME c \in S <=> c \in T PROVE Cardinality(T) = Cardinality(S)
  <2>1. S = T
    BY <1>4
  <2> QED
    BY <2>1
<1> QED
  BY <1>1, <1>2, <1>3, <1>4

\* What one call adds to the calls in some state, and to those that were sent.
LEMMA CallsCount ==
  ASSUME DecisionTypeOK, NEW c \in Callers, NEW call \in CallType, NEW pcs,
         calls' = [calls EXCEPT ![c] = call]
  PROVE  /\ In(pcs) \in Nat /\ In(pcs)' \in Nat
         /\ calls[c].pc \in pcs /\ call.pc \notin pcs => In(pcs)' = In(pcs) - 1
         /\ calls[c].pc \notin pcs /\ call.pc \in pcs => In(pcs)' = In(pcs) + 1
         /\ (calls[c].pc \in pcs <=> call.pc \in pcs) => In(pcs)' = In(pcs)
         /\ Sent \in Nat /\ Sent' \in Nat
         /\ calls[c].attempt = 0 /\ call.attempt > 0 => Sent' = Sent + 1
         /\ (calls[c].attempt > 0 <=> call.attempt > 0) => Sent' = Sent
<1> DEFINE S == {d \in Callers : calls[d].pc \in pcs}
           T == {d \in Callers : calls'[d].pc \in pcs}
           U == {d \in Callers : calls[d].attempt > 0}
           V == {d \in Callers : calls'[d].attempt > 0}
<1>1. calls'[c] = call /\ \A d \in Callers \ {c} : calls'[d] = calls[d]
  BY DEF DecisionTypeOK
<1>2. IsFiniteSet(S) /\ IsFiniteSet(T) /\ IsFiniteSet(U) /\ IsFiniteSet(V)
  BY DecisionAssumption, FS_Subset
<1>3. /\ S \ {c} = T \ {c} /\ (c \in S <=> calls[c].pc \in pcs) /\ (c \in T <=> call.pc \in pcs)
  BY <1>1
<1>4. /\ U \ {c} = V \ {c} /\ (c \in U <=> calls[c].attempt > 0) /\ (c \in V <=> call.attempt > 0)
  BY <1>1
<1>5. In(pcs) = Cardinality(S) /\ In(pcs)' = Cardinality(T)
      /\ Sent = Cardinality(U) /\ Sent' = Cardinality(V)
  BY DEF In, Sent
<1> HIDE DEF S, T, U, V
<1>6. /\ In(pcs) \in Nat /\ In(pcs)' \in Nat
      /\ calls[c].pc \in pcs /\ call.pc \notin pcs => In(pcs)' = In(pcs) - 1
      /\ calls[c].pc \notin pcs /\ call.pc \in pcs => In(pcs)' = In(pcs) + 1
      /\ (calls[c].pc \in pcs <=> call.pc \in pcs) => In(pcs)' = In(pcs)
  BY <1>2, <1>3, <1>5, OneApart
<1>7. /\ Sent \in Nat /\ Sent' \in Nat
      /\ calls[c].attempt = 0 /\ call.attempt > 0 => Sent' = Sent + 1
      /\ (calls[c].attempt > 0 <=> call.attempt > 0) => Sent' = Sent
  <2>1. calls[c].attempt = 0 => ~(calls[c].attempt > 0)
    OBVIOUS
  <2> QED
    BY <1>2, <1>4, <1>5, <2>1, OneApart
<1> QED
  BY <1>6, <1>7

\* A call that moves on, and what it adds to the counters.
Moves(c, call, ms) ==
  \/ /\ calls[c].pc = "idle" /\ call.pc \in {"refused", "answered"} /\ call.attempt = 0
     /\ ms = {}
  \/ /\ calls[c].pc = "idle" /\ call.pc = "streaming" /\ call.attempt = 1
     /\ ms = {"requests"}
  \/ /\ calls[c].pc = "streaming" /\ calls[c].attempt = 1
     /\ call.pc = "streaming" /\ call.attempt = 2
     /\ ms = Timed \cup {"invalid_json", "retries", "requests"}
  \/ /\ calls[c].pc = "streaming" /\ call.attempt = calls[c].attempt
     /\ \/ call.pc \in {"answered", "escaped"} /\ ms = Timed
        \/ call.pc = "exhausted" /\ ms = Timed \cup {"invalid_json", "failed_decisions"}
        \/ call.pc = "failed" /\ ms = {"timings", "failed_decisions"}
        \/ call.pc = "timedout" /\ ms = {"timings"}

\* Whichever way it moves, the counters agree.
LEMMA CountersMove ==
  ASSUME DecisionInv, NEW c \in Callers, NEW call \in CallType, NEW ms,
         calls' = [calls EXCEPT ![c] = call], metrics' = Counted(ms), provider' = provider,
         Moves(c, call, ms)
  PROVE  DecisionInv'
<1>0. /\ DecisionTypeOK /\ MetricsAgree /\ calls[c] \in CallType
      /\ calls \in [Callers -> CallType] /\ metrics \in [Counters -> Nat]
      /\ calls[c].pc = "idle" => calls[c].attempt = 0
      /\ calls[c].pc = "streaming" => calls[c].attempt \in {1, 2}
  BY DEF DecisionInv, Attempts, DecisionTypeOK, CallType, PromptType
<1>1. metrics' \in [Counters -> Nat]
      /\ \A m \in Counters : metrics'[m] = IF m \in ms THEN metrics[m] + 1 ELSE metrics[m]
  BY <1>0 DEF Counted
<1>2. /\ \A m \in {"requests", "timings", "usages", "invalid_json", "retries",
                   "failed_decisions"} : metrics[m] \in Nat /\ m \in Counters
  BY <1>0 DEF Counters
<1>3. DecisionTypeOK' /\ Attempts'
  <2>1. calls'[c] = call /\ \A d \in Callers \ {c} : calls'[d] = calls[d]
    BY <1>0
  <2>2. Attempts'
    BY <1>0, <2>1 DEF DecisionInv, Attempts, Moves
  <2> QED
    BY <1>0, <1>1, <2>2 DEF DecisionTypeOK, CallType, PromptType
<1> DEFINE streaming == In({"streaming"})
           exhausted == In({"exhausted"})
           bad == In({"failed", "exhausted"})
           untold == In({"failed", "timedout"})
<1>4. /\ streaming \in Nat /\ exhausted \in Nat /\ bad \in Nat /\ untold \in Nat /\ Sent \in Nat
      /\ calls[c].pc = "streaming" /\ call.pc # "streaming" => streaming' = streaming - 1
      /\ calls[c].pc # "streaming" /\ call.pc = "streaming" => streaming' = streaming + 1
      /\ (calls[c].pc = "streaming" <=> call.pc = "streaming") => streaming' = streaming
      /\ calls[c].pc # "exhausted" /\ call.pc = "exhausted" => exhausted' = exhausted + 1
      /\ (calls[c].pc = "exhausted" <=> call.pc = "exhausted") => exhausted' = exhausted
  <2>1. /\ streaming \in Nat /\ exhausted \in Nat /\ bad \in Nat /\ untold \in Nat
        /\ Sent \in Nat
    BY <1>0, CallsCount
  <2>2. /\ calls[c].pc \in {"streaming"} /\ call.pc \notin {"streaming"} =>
             streaming' = streaming - 1
        /\ calls[c].pc \notin {"streaming"} /\ call.pc \in {"streaming"} =>
             streaming' = streaming + 1
        /\ (calls[c].pc \in {"streaming"} <=> call.pc \in {"streaming"}) =>
             streaming' = streaming
    BY <1>0, CallsCount
  <2>3. /\ calls[c].pc \notin {"exhausted"} /\ call.pc \in {"exhausted"} =>
             exhausted' = exhausted + 1
        /\ (calls[c].pc \in {"exhausted"} <=> call.pc \in {"exhausted"}) =>
             exhausted' = exhausted
    BY <1>0, CallsCount
  <2> QED
    BY <2>1, <2>2, <2>3
<1>5. /\ calls[c].pc \notin {"failed", "exhausted"} /\ call.pc \in {"failed", "exhausted"} =>
           bad' = bad + 1
      /\ (calls[c].pc \in {"failed", "exhausted"} <=> call.pc \in {"failed", "exhausted"}) =>
           bad' = bad
      /\ calls[c].pc \notin {"failed", "timedout"} /\ call.pc \in {"failed", "timedout"} =>
           untold' = untold + 1
      /\ (calls[c].pc \in {"failed", "timedout"} <=> call.pc \in {"failed", "timedout"}) =>
           untold' = untold
      /\ calls[c].attempt = 0 /\ call.attempt > 0 => Sent' = Sent + 1
      /\ (calls[c].attempt > 0 <=> call.attempt > 0) => Sent' = Sent
  <2>1. /\ calls[c].pc \notin {"failed", "exhausted"} /\ call.pc \in {"failed", "exhausted"} =>
             bad' = bad + 1
        /\ (calls[c].pc \in {"failed", "exhausted"} <=> call.pc \in {"failed", "exhausted"}) =>
             bad' = bad
    BY <1>0, CallsCount
  <2>2. /\ calls[c].pc \notin {"failed", "timedout"} /\ call.pc \in {"failed", "timedout"} =>
             untold' = untold + 1
        /\ (calls[c].pc \in {"failed", "timedout"} <=> call.pc \in {"failed", "timedout"}) =>
             untold' = untold
    BY <1>0, CallsCount
  <2>3. /\ calls[c].attempt = 0 /\ call.attempt > 0 => Sent' = Sent + 1
        /\ (calls[c].attempt > 0 <=> call.attempt > 0) => Sent' = Sent
    BY <1>0, CallsCount
  <2> QED
    BY <2>1, <2>2, <2>3
<1>6. /\ metrics["requests"] = metrics["timings"] + streaming
      /\ metrics["requests"] = Sent + metrics["retries"]
      /\ metrics["invalid_json"] = metrics["retries"] + exhausted
      /\ metrics["failed_decisions"] = bad
      /\ provider = "gemini" => metrics["usages"] = metrics["timings"] - untold
  BY <1>0 DEF MetricsAgree
<1> HIDE DEF streaming, exhausted, bad, untold
<1>7. /\ metrics'["requests"] = metrics'["timings"] + streaming'
      /\ metrics'["requests"] = Sent' + metrics'["retries"]
      /\ metrics'["invalid_json"] = metrics'["retries"] + exhausted'
      /\ metrics'["failed_decisions"] = bad'
      /\ provider = "gemini" => metrics'["usages"] = metrics'["timings"] - untold'
  <2>1. CASE calls[c].pc = "idle"
    BY <1>0, <1>1, <1>2, <1>4, <1>5, <1>6, <2>1 DEF Moves
  <2>2. CASE calls[c].pc = "streaming" /\ call.pc = "streaming"
    BY <1>0, <1>1, <1>2, <1>4, <1>5, <1>6, <2>2 DEF Moves, Timed
  <2>3. CASE call.pc \in {"answered", "escaped"} /\ calls[c].pc = "streaming"
    BY <1>0, <1>1, <1>2, <1>4, <1>5, <1>6, <2>3 DEF Moves, Timed
  <2>4. CASE call.pc = "exhausted" /\ calls[c].pc = "streaming"
    BY <1>0, <1>1, <1>2, <1>4, <1>5, <1>6, <2>4 DEF Moves, Timed
  <2>5. CASE call.pc \in {"failed", "timedout"} /\ calls[c].pc = "streaming"
    BY <1>0, <1>1, <1>2, <1>4, <1>5, <1>6, <2>5 DEF Moves
  <2> QED
    BY <2>1, <2>2, <2>3, <2>4, <2>5 DEF Moves
<1>8. MetricsAgree'
  BY <1>7 DEF MetricsAgree, streaming, exhausted, bad, untold
<1> QED
  BY <1>3, <1>8 DEF DecisionInv

\* Nothing was called before.
LEMMA DecisionStarts ==
  ASSUME DecisionInit
  PROVE  DecisionInv
<1>1. /\ provider \in {"ollama", "gemini"} /\ metrics = [m \in Counters |-> 0]
      /\ calls = [c \in Callers |-> NoCall]
  BY DEF DecisionInit
<1>2. NoCall \in CallType /\ NoCall.pc = "idle" /\ NoCall.attempt = 0
  BY DEF NoCall, CallType, PromptType, Kinds, Prompt
<1>3. DecisionTypeOK /\ Attempts
  BY <1>1, <1>2 DEF DecisionTypeOK, CallType, PromptType, Attempts
<1>4. /\ In({"streaming"}) = 0 /\ In({"exhausted"}) = 0 /\ In({"failed", "exhausted"}) = 0
      /\ In({"failed", "timedout"}) = 0 /\ Sent = 0
  <2>1. \A c \in Callers : calls[c].pc = "idle" /\ calls[c].attempt = 0
    BY <1>1, <1>2
  <2>2. /\ {c \in Callers : calls[c].pc \in {"streaming"}} = {}
        /\ {c \in Callers : calls[c].pc \in {"exhausted"}} = {}
        /\ {c \in Callers : calls[c].pc \in {"failed", "exhausted"}} = {}
        /\ {c \in Callers : calls[c].pc \in {"failed", "timedout"}} = {}
        /\ {c \in Callers : calls[c].attempt > 0} = {}
    BY <2>1
  <2> QED
    BY <2>2, FS_EmptySet DEF In, Sent
<1>5. \A m \in {"requests", "timings", "usages", "invalid_json", "retries",
                "failed_decisions"} : metrics[m] = 0
  BY <1>1 DEF Counters
<1> QED
  BY <1>3, <1>4, <1>5 DEF DecisionInv, MetricsAgree

\* A decision or a classification is asked for, or refused for its size.
LEMMA DecideStep ==
  ASSUME DecisionInv, now \in Nat, NEW c \in Callers, NEW kind \in Kinds,
         NEW prompt \in PromptType, NEW schema \in Nat, Decide(c, kind, prompt, schema)
  PROVE  DecisionInv'
<1> DEFINE call == [NoCall EXCEPT !.kind = kind, !.prompt = prompt]
           chars == SystemChars + prompt.size + schema
           until == now + ModelTimeout
           sent == [call EXCEPT !.pc = "streaming", !.attempt = 1, !.chars = chars,
                                !.until = until]
           refused == [call EXCEPT !.pc = "refused"]
<1>1. /\ calls[c].pc = "idle" /\ provider' = provider
      /\ \/ calls' = [calls EXCEPT ![c] = sent] /\ metrics' = Counted({"requests"})
         \/ calls' = [calls EXCEPT ![c] = refused] /\ metrics' = metrics
  BY DEF Decide
<1>2. call \in CallType /\ call.attempt = 0
  <2>1. PICK none : none = NoCall
    OBVIOUS
  <2>2. none \in CallType /\ none.attempt = 0
    BY <2>1 DEF NoCall, CallType, PromptType, Kinds, Prompt
  <2>3. call = [none EXCEPT !.kind = kind, !.prompt = prompt]
    BY <2>1
  <2> QED
    BY <2>2, <2>3 DEF CallType
<1>3. chars \in Nat /\ until \in Nat
  BY DecisionAssumption DEF PromptType
<1> HIDE DEF call, chars, until
<1>4. /\ sent \in CallType /\ sent.pc = "streaming" /\ sent.attempt = 1
      /\ refused \in CallType /\ refused.pc = "refused" /\ refused.attempt = 0
  <2>1. 1 \in 0..2 /\ "refused" \in Ends
    BY DEF Ends
  <2>2. sent \in CallType /\ sent.pc = "streaming" /\ sent.attempt = 1
    BY <1>2, <1>3, <2>1 DEF CallType
  <2>3. refused \in CallType /\ refused.pc = "refused" /\ refused.attempt = 0
    BY <1>2, <2>1 DEF CallType
  <2> QED
    BY <2>2, <2>3
<1> HIDE DEF sent, refused
<1>5. CASE calls' = [calls EXCEPT ![c] = sent] /\ metrics' = Counted({"requests"})
  <2>1. Moves(c, sent, {"requests"})
    BY <1>1, <1>4 DEF Moves
  <2> QED
    BY <1>1, <1>4, <1>5, <2>1, CountersMove
<1>6. CASE calls' = [calls EXCEPT ![c] = refused] /\ metrics' = metrics
  <2>1. Moves(c, refused, {}) /\ metrics' = Counted({})
    BY <1>1, <1>4, <1>6 DEF Moves, DecisionInv, DecisionTypeOK, Counted
  <2> QED
    BY <1>1, <1>4, <1>6, <2>1, CountersMove
<1> QED
  BY <1>1, <1>5, <1>6

\* A call is over, of which its end and its attempts are kept.
LEMMA EndedCall ==
  ASSUME DecisionInv, NEW c \in Callers, NEW end \in Ends
  PROVE  \E call \in CallType : /\ Ended(c, end) = [calls EXCEPT ![c] = call]
                                /\ call.pc = end /\ call.attempt = calls[c].attempt
<1>1. calls[c] \in CallType
  BY DEF DecisionInv, DecisionTypeOK, CallType, PromptType
<1>2. PICK none : none = NoCall
  OBVIOUS
<1>3. none \in CallType
  BY <1>2 DEF NoCall, CallType, PromptType, Kinds, Prompt
<1>4. Ended(c, end) = [calls EXCEPT ![c] =
                         [none EXCEPT !.pc = end, !.kind = calls[c].kind,
                                      !.attempt = calls[c].attempt]]
  BY <1>2 DEF Ended
<1>5. [none EXCEPT !.pc = end, !.kind = calls[c].kind, !.attempt = calls[c].attempt] \in CallType
  BY <1>1, <1>3 DEF CallType
<1> QED
  BY <1>1, <1>3, <1>4, <1>5 DEF CallType

\* The second request is the first with what quotes the reply.
LEMMA RepairedCall ==
  ASSUME DecisionInv, NEW c \in Callers, Repair(c)
  PROVE  calls' = [calls EXCEPT ![c] = [calls[c] EXCEPT
                     !.attempt = 2, !.chars = calls[c].chars + RepairChars]]
<1> DEFINE call == [calls[c] EXCEPT !.attempt = 2, !.chars = calls[c].chars + RepairChars]
<1>1. PICK again : /\ again = [calls EXCEPT ![c].attempt = 2]
                   /\ calls' = [again EXCEPT ![c].chars = again[c].chars + RepairChars]
  BY DEF Repair
<1>2. calls \in [Callers -> CallType]
  BY DEF DecisionInv, DecisionTypeOK, CallType, PromptType
<1>3. again = [calls EXCEPT ![c] = [calls[c] EXCEPT !.attempt = 2]]
  BY <1>1
<1>4. again[c] = [calls[c] EXCEPT !.attempt = 2] /\ again[c].chars = calls[c].chars
  BY <1>2, <1>3 DEF CallType
<1>5. PICK chars : chars = calls[c].chars + RepairChars
  OBVIOUS
<1>6. call = [again[c] EXCEPT !.chars = chars]
  BY <1>4, <1>5
<1> HIDE DEF call
<1>7. calls' = [again EXCEPT ![c] = call]
  BY <1>1, <1>4, <1>5, <1>6
<1> QED
  BY <1>2, <1>3, <1>7 DEF call

\* A reply, a failure or the deadline ends the call or has it repeated.
LEMMA CallEndsStep ==
  ASSUME DecisionInv, NEW c \in Callers,
         (\E reply \in Replies : ReplyEnds(c, reply)) \/ StreamFails(c) \/ Cancel(c)
  PROVE  DecisionInv'
<1>0. /\ calls[c].pc = "streaming" /\ provider' = provider /\ calls[c] \in CallType
      /\ RepairChars \in Nat
      /\ {"answered", "escaped", "exhausted", "failed", "timedout"} \subseteq Ends
  BY DecisionAssumption
  DEF ReplyEnds, StreamFails, Cancel, DecisionInv, DecisionTypeOK, CallType, PromptType, Ends
<1>1. ASSUME NEW end \in {"answered", "escaped"}, calls' = Ended(c, end), metrics' = Counted(Timed)
      PROVE  DecisionInv'
  <2>1. PICK call \in CallType : /\ calls' = [calls EXCEPT ![c] = call]
                                 /\ call.pc = end /\ call.attempt = calls[c].attempt
    BY <1>0, <1>1, EndedCall
  <2>2. Moves(c, call, Timed)
    BY <1>0, <2>1 DEF Moves
  <2> QED
    BY <1>0, <1>1, <2>1, <2>2, CountersMove
<1>2. CASE Exhaust(c)
  <2>1. PICK call \in CallType : /\ calls' = [calls EXCEPT ![c] = call]
                                 /\ call.pc = "exhausted" /\ call.attempt = calls[c].attempt
    BY <1>0, <1>2, EndedCall DEF Exhaust
  <2>2. Moves(c, call, Timed \cup {"invalid_json", "failed_decisions"})
    BY <1>0, <2>1 DEF Moves
  <2> QED
    BY <1>0, <1>2, <2>1, <2>2, CountersMove DEF Exhaust
<1>3. CASE Repair(c)
  <2> DEFINE call == [calls[c] EXCEPT !.attempt = 2, !.chars = calls[c].chars + RepairChars]
  <2>1. calls' = [calls EXCEPT ![c] = call]
    BY <1>0, <1>3, RepairedCall
  <2>2. call \in CallType /\ call.pc = "streaming" /\ call.attempt = 2
    <3>1. PICK chars \in Nat : chars = calls[c].chars + RepairChars
      BY <1>0 DEF CallType
    <3>2. 2 \in 0..2 /\ call = [calls[c] EXCEPT !.attempt = 2, !.chars = chars]
      BY <3>1
    <3> HIDE DEF call
    <3> QED
      BY <1>0, <3>2 DEF CallType
  <2> HIDE DEF call
  <2>3. Moves(c, call, Timed \cup {"invalid_json", "retries", "requests"})
    BY <1>0, <1>3, <2>2 DEF Moves, Repair
  <2> QED
    BY <1>0, <1>3, <2>1, <2>2, <2>3, CountersMove DEF Repair
<1>4. CASE StreamFails(c)
  <2>1. PICK call \in CallType : /\ calls' = [calls EXCEPT ![c] = call]
                                 /\ call.pc = "failed" /\ call.attempt = calls[c].attempt
    BY <1>0, <1>4, EndedCall DEF StreamFails
  <2>2. Moves(c, call, {"timings", "failed_decisions"})
    BY <1>0, <2>1 DEF Moves
  <2> QED
    BY <1>0, <1>4, <2>1, <2>2, CountersMove DEF StreamFails
<1>5. CASE Cancel(c)
  <2>1. PICK call \in CallType : /\ calls' = [calls EXCEPT ![c] = call]
                                 /\ call.pc = "timedout" /\ call.attempt = calls[c].attempt
    BY <1>0, <1>5, EndedCall DEF Cancel
  <2>2. Moves(c, call, {"timings"})
    BY <1>0, <2>1 DEF Moves
  <2> QED
    BY <1>0, <1>5, <2>1, <2>2, CountersMove DEF Cancel
<1> QED
  BY <1>1, <1>2, <1>3, <1>4, <1>5 DEF ReplyEnds

\* Every step of the callers and the model keeps the invariant.
LEMMA DecisionStep ==
  ASSUME DecisionInv, now \in Nat, DecisionNext
  PROVE  DecisionInv'
<1>1. ASSUME NEW c \in Callers, NEW prompt \in Prompts, NEW schema \in SchemaChars,
             Decide(c, "decide", prompt, schema)
      PROVE  DecisionInv'
  <2>1. prompt \in PromptType /\ schema \in Nat /\ "decide" \in Kinds
    BY ContextCompacted, DecisionAssumption DEF Prompts, Kinds
  <2> QED
    BY <1>1, <2>1, DecideStep
<1>2. ASSUME NEW c \in Callers, Decide(c, "classify", Prompt("whole", 0), 0)
      PROVE  DecisionInv'
  <2>1. PICK prompt \in PromptType : prompt = Prompt("whole", 0)
    BY DEF Prompt, PromptType
  <2>2. 0 \in Nat /\ "classify" \in Kinds
    BY DEF Kinds
  <2> QED
    BY <1>2, <2>1, <2>2, DecideStep
<1>3. ASSUME NEW c \in Callers, Unclassified(c)
      PROVE  DecisionInv'
  <2> DEFINE call == [NoCall EXCEPT !.kind = "classify", !.pc = "answered"]
  <2>1. call \in CallType /\ call.pc = "answered" /\ call.attempt = 0
    <3>1. PICK none : none = NoCall
      OBVIOUS
    <3>2. none \in CallType /\ none.attempt = 0
      BY <3>1 DEF NoCall, CallType, PromptType, Kinds, Prompt
    <3>3. call = [none EXCEPT !.kind = "classify", !.pc = "answered"]
      BY <3>1
    <3> QED
      BY <3>2, <3>3 DEF CallType, Kinds, Ends
  <2>2. /\ calls[c].pc = "idle" /\ calls' = [calls EXCEPT ![c] = call]
        /\ provider' = provider /\ metrics' = metrics
    BY <1>3 DEF Unclassified
  <2> HIDE DEF call
  <2>3. Moves(c, call, {}) /\ metrics' = Counted({})
    BY <2>1, <2>2 DEF Moves, DecisionInv, DecisionTypeOK, Counted
  <2> QED
    BY <2>1, <2>2, <2>3, CountersMove
<1>4. ASSUME NEW c \in Callers,
             (\E reply \in Replies : ReplyEnds(c, reply)) \/ StreamFails(c) \/ Cancel(c)
      PROVE  DecisionInv'
  BY <1>4, CallEndsStep
<1> QED
  BY <1>1, <1>2, <1>3, <1>4 DEF DecisionNext

\* Callers that are left alone keep it too.
LEMMA DecisionRests ==
  ASSUME DecisionInv, UNCHANGED decisionVars
  PROVE  DecisionInv'
<1>1. provider' = provider /\ metrics' = metrics /\ calls' = calls
  BY DEF decisionVars
<1> QED
  BY <1>1 DEF DecisionInv, DecisionTypeOK, Attempts, MetricsAgree, In, Sent

\* A prompt of its size, in a window of tokens.
Sized(call) ==
  /\ call.prompt.state # "overrun" /\ call.prompt.size <= ContextChars
  /\ provider = "ollama" /\ call.attempt > 0 =>
       4 * (ContextTokens - OutputTokens) + (IF call.attempt = 2 THEN RepairChars ELSE 0)
         >= call.chars

\* A call that was not made yet is a call, without a prompt.
LEMMA NoCallTyped ==
  /\ NoCall \in CallType /\ NoCall.attempt = 0 /\ NoCall.chars = 0
  /\ NoCall.prompt = Prompt("whole", 0)
  BY DEF NoCall, CallType, PromptType, Kinds, Prompt

\* A call that moves on leaves the prompts of the others.
LEMMA PromptMoves ==
  ASSUME DecisionInv, PromptWithinBudget, provider' = provider, NEW c \in Callers,
         NEW call \in CallType, calls' = [calls EXCEPT ![c] = call], Sized(call)
  PROVE  PromptWithinBudget'
<1>1. calls \in [Callers -> CallType]
  BY DEF DecisionInv, DecisionTypeOK, CallType, PromptType
<1>2. \A d \in Callers : calls'[d] = IF d = c THEN call ELSE calls[d]
  BY <1>1
<1>3. \A d \in Callers : Sized(calls'[d])
  BY <1>2 DEF PromptWithinBudget, Sized
<1> QED
  BY <1>3 DEF PromptWithinBudget, Sized

\* A call without a prompt is sized as soon as the window holds a reply.
LEMMA EmptySized ==
  ASSUME DecisionInv, NEW c \in Callers, Sized(calls[c]), NEW call,
         call.prompt = Prompt("whole", 0), call.chars = 0, call.attempt = calls[c].attempt
  PROVE  Sized(call)
<1>1. /\ calls[c].attempt \in 0..2 /\ calls[c].chars \in Nat
      /\ RepairChars \in Nat /\ ContextTokens \in Nat /\ OutputTokens \in Nat
      /\ 0 <= ContextChars
  BY DecisionAssumption, BudgetAssumption DEF DecisionInv, DecisionTypeOK
<1>2. call.prompt.state = "whole" /\ call.prompt.size = 0
  BY DEF Prompt
<1> QED
  BY <1>1, <1>2 DEF Sized

\* A first request is sent when it is within its budgets.
LEMMA DecideSized ==
  ASSUME DecisionInv, PromptWithinBudget, now \in Nat, NEW c \in Callers, NEW kind \in Kinds,
         NEW prompt \in PromptType, NEW schema \in Nat, Decide(c, kind, prompt, schema),
         prompt.state # "overrun", prompt.size <= ContextChars
  PROVE  PromptWithinBudget'
<1> DEFINE none == [NoCall EXCEPT !.kind = kind, !.prompt = prompt]
           chars == SystemChars + prompt.size + schema
           until == now + ModelTimeout
           sent == [none EXCEPT !.pc = "streaming", !.attempt = 1, !.chars = chars,
                                !.until = until]
           refused == [none EXCEPT !.pc = "refused"]
<1>1. /\ provider' = provider
      /\ \/ calls' = [calls EXCEPT ![c] = sent] /\ WithinWindow(chars)
         \/ calls' = [calls EXCEPT ![c] = refused]
  BY DEF Decide
<1>2. none \in CallType /\ none.attempt = 0 /\ none.prompt = prompt
  <2>1. PICK idle \in CallType : idle = NoCall /\ idle.attempt = 0
    BY NoCallTyped
  <2>2. none = [idle EXCEPT !.kind = kind, !.prompt = prompt]
    BY <2>1
  <2> HIDE DEF none
  <2> QED
    BY <2>1, <2>2 DEF CallType
<1>3. chars \in Nat /\ until \in Nat
  BY DecisionAssumption DEF PromptType
<1> HIDE DEF none, chars, until
<1>4. CASE calls' = [calls EXCEPT ![c] = sent] /\ WithinWindow(chars)
  <2>1. /\ sent \in CallType /\ sent.prompt = prompt /\ sent.attempt = 1
        /\ sent.chars = chars
    <3>1. 1 \in 0..2
      OBVIOUS
    <3> QED
      BY <1>2, <1>3, <3>1 DEF CallType
  <2> HIDE DEF sent
  <2>2. provider = "ollama" => 4 * (ContextTokens - OutputTokens) >= chars
    BY <1>3, <1>4, DecisionAssumption DEF WithinWindow, Tokens
  <2>3. ContextTokens - OutputTokens \in Int
    BY DecisionAssumption
  <2>4. Sized(sent)
    BY <2>1, <2>2, <2>3 DEF Sized
  <2> QED
    BY <1>1, <1>4, <2>1, <2>4, PromptMoves
<1>5. CASE calls' = [calls EXCEPT ![c] = refused]
  <2>1. refused \in CallType /\ refused.prompt = prompt /\ refused.attempt = 0
    BY <1>2 DEF CallType, Ends
  <2> HIDE DEF refused
  <2>2. Sized(refused)
    BY <2>1 DEF Sized
  <2> QED
    BY <1>1, <1>5, <2>1, <2>2, PromptMoves
<1> QED
  BY <1>1, <1>4, <1>5

\* A call that ends has no prompt any more; the second request adds what a
\* repair may.
LEMMA EndsSized ==
  ASSUME DecisionInv, PromptWithinBudget, NEW c \in Callers,
         (\E reply \in Replies : ReplyEnds(c, reply)) \/ StreamFails(c) \/ Cancel(c)
  PROVE  PromptWithinBudget'
<1>0. /\ provider' = provider /\ calls[c] \in CallType /\ Sized(calls[c])
      /\ \/ \E end \in Ends : calls' = Ended(c, end)
         \/ Repair(c)
  <2>1. provider' = provider
    BY DEF ReplyEnds, StreamFails, Cancel
  <2>2. calls[c] \in CallType
    BY DEF DecisionInv, DecisionTypeOK, CallType, PromptType
  <2>3. Sized(calls[c])
    BY DEF PromptWithinBudget, Sized
  <2>4. Repair(c) \/ \E end \in Ends : calls' = Ended(c, end)
    BY DEF ReplyEnds, StreamFails, Cancel, Exhaust, Ends
  <2> QED
    BY <2>1, <2>2, <2>3, <2>4
<1>1. ASSUME NEW end \in Ends, calls' = Ended(c, end)
      PROVE  PromptWithinBudget'
  <2> DEFINE call == [NoCall EXCEPT !.pc = end, !.kind = calls[c].kind,
                                    !.attempt = calls[c].attempt]
  <2>1. /\ call \in CallType /\ call.prompt = Prompt("whole", 0) /\ call.chars = 0
        /\ call.attempt = calls[c].attempt
    BY <1>0 DEF NoCall, CallType, PromptType, Prompt, Ends
  <2>2. calls' = [calls EXCEPT ![c] = call]
    BY <1>1 DEF Ended
  <2> HIDE DEF call
  <2>3. Sized(call)
    BY <1>0, <2>1, EmptySized
  <2> QED
    BY <1>0, <2>1, <2>2, <2>3, PromptMoves
<1>2. CASE Repair(c)
  <2> DEFINE call == [calls[c] EXCEPT !.attempt = 2, !.chars = calls[c].chars + RepairChars]
  <2>1. calls' = [calls EXCEPT ![c] = call]
    BY <1>0, <1>2, RepairedCall
  <2>2. /\ call \in CallType /\ call.attempt = 2 /\ call.chars = calls[c].chars + RepairChars
        /\ call.prompt = calls[c].prompt
    <3>1. PICK chars \in Nat : chars = calls[c].chars + RepairChars
      BY <1>0, DecisionAssumption DEF CallType
    <3>2. 2 \in 0..2 /\ call = [calls[c] EXCEPT !.attempt = 2, !.chars = chars]
      BY <3>1
    <3> HIDE DEF call
    <3> QED
      BY <1>0, <3>1, <3>2 DEF CallType
  <2>3. calls[c].attempt = 1
    BY <1>2 DEF Repair
  <2> HIDE DEF call
  <2>4. calls[c].chars \in Nat /\ RepairChars \in Nat /\ ContextTokens - OutputTokens \in Int
    BY <1>0, DecisionAssumption DEF CallType
  <2>5. Sized(call)
    BY <1>0, <2>2, <2>3, <2>4 DEF Sized
  <2> QED
    BY <1>0, <2>1, <2>2, <2>5, PromptMoves
<1> QED
  BY <1>0, <1>1, <1>2

\* No call has a prompt before it is made.
LEMMA PromptStarts ==
  ASSUME DecisionInit
  PROVE  PromptWithinBudget
<1>1. \A c \in Callers : calls[c] = NoCall
  BY DEF DecisionInit
<1> QED
  BY <1>1, NoCallTyped, BudgetAssumption DEF PromptWithinBudget, Prompt

\* Every step of the callers and the model keeps the prompts within their budgets.
LEMMA PromptStep ==
  ASSUME DecisionInv, PromptWithinBudget, now \in Nat, DecisionNext
  PROVE  PromptWithinBudget'
<1>1. ASSUME NEW c \in Callers, NEW prompt \in Prompts, NEW schema \in SchemaChars,
             Decide(c, "decide", prompt, schema)
      PROVE  PromptWithinBudget'
  <2>1. /\ prompt \in PromptType /\ prompt.state # "overrun" /\ prompt.size <= ContextChars
        /\ schema \in Nat /\ "decide" \in Kinds
    BY ContextCompacted, DecisionAssumption DEF Prompts, Kinds
  <2> QED
    BY <1>1, <2>1, DecideSized
<1>2. ASSUME NEW c \in Callers, Decide(c, "classify", Prompt("whole", 0), 0)
      PROVE  PromptWithinBudget'
  <2>1. PICK prompt \in PromptType : prompt = Prompt("whole", 0)
    BY DEF Prompt, PromptType
  <2>2. prompt.state # "overrun" /\ prompt.size <= ContextChars
    BY <2>1, BudgetAssumption DEF Prompt
  <2>3. 0 \in Nat /\ "classify" \in Kinds
    BY DEF Kinds
  <2> QED
    BY <1>2, <2>1, <2>2, <2>3, DecideSized
<1>3. ASSUME NEW c \in Callers, Unclassified(c)
      PROVE  PromptWithinBudget'
  <2> DEFINE call == [NoCall EXCEPT !.kind = "classify", !.pc = "answered"]
  <2>1. /\ call \in CallType /\ call.attempt = 0
        /\ call.prompt.state = "whole" /\ call.prompt.size = 0
    <3>1. PICK idle \in CallType :
             /\ idle = NoCall /\ idle.attempt = 0 /\ idle.prompt = Prompt("whole", 0)
      BY NoCallTyped
    <3>2. call = [idle EXCEPT !.kind = "classify", !.pc = "answered"]
      BY <3>1
    <3> HIDE DEF call
    <3>3. "classify" \in Kinds /\ "answered" \in Ends
      BY DEF Kinds, Ends
    <3>4. /\ call \in CallType /\ call.attempt = 0 /\ call.prompt = Prompt("whole", 0)
      BY <3>1, <3>2, <3>3 DEF CallType
    <3> QED
      BY <3>4 DEF Prompt
  <2>2. calls' = [calls EXCEPT ![c] = call] /\ provider' = provider
    BY <1>3 DEF Unclassified
  <2> HIDE DEF call
  <2>3. Sized(call)
    BY <2>1, BudgetAssumption DEF Sized
  <2> QED
    BY <2>1, <2>2, <2>3, PromptMoves
<1>4. ASSUME NEW c \in Callers,
             (\E reply \in Replies : ReplyEnds(c, reply)) \/ StreamFails(c) \/ Cancel(c)
      PROVE  PromptWithinBudget'
  BY <1>4, EndsSized
<1> QED
  BY <1>1, <1>2, <1>3, <1>4 DEF DecisionNext

-----------------------------------------------------------------------------
(* The overview. *)

SignalType == [state : {"none", "queued", "running"} \cup Outcomes, until : Nat]

ReadingType ==
  [pc : {"idle", "waiting", "asking", "listed", "collecting", "served", "failed"},
   until : Nat, seen : SUBSET Signals, oldest : Nat, age : Nat, calls : [Signals -> SignalType]]

SnapshotType == [taken : BOOLEAN, oldest : Nat, expires : Nat,
                 health : {"none", "healthy", "warning", "critical"}]

Building == {"asking", "listed", "collecting"}

RunningOf(request) == {s \in Signals : request.calls[s].state = "running"}

\* The calls that a handler may have: none unless it collects, and no more than
\* the semaphore allows.
Orderly(request) ==
  /\ request.pc # "collecting" => \A s \in Signals : request.calls[s].state = "none"
  /\ Cardinality(RunningOf(request)) <= MaxParallel
  /\ \A s \in RunningOf(request) : ToolTimeout <= request.calls[s].until

\* Who builds a snapshot holds the lock.
Owned ==
  \A r \in Requests :
    /\ reading[r].pc \in Building => lock = r
    /\ Orderly(reading[r])

OverviewInv == OverviewTypeOK /\ Owned /\ snapshot.oldest <= now

\* A handler without calls is orderly.
LEMMA NoneRunning ==
  ASSUME NEW request \in ReadingType,
         \A s \in Signals : request.calls[s].state # "running",
         request.pc # "collecting" => \A s \in Signals : request.calls[s].state = "none"
  PROVE  Orderly(request)
<1>1. RunningOf(request) = {}
  BY DEF RunningOf
<1> QED
  BY <1>1, FS_EmptySet, OverviewAssumption DEF Orderly

\* Whoever served or failed, or has just asked, has no call.
LEMMA QuietHandlers ==
  /\ NotReading \in ReadingType /\ NotReading.pc = "idle"
  /\ \A s \in Signals : NotReading.calls[s].state = "none"
<1>1. NoCalls \in [Signals -> SignalType] /\ \A s \in Signals : NoCalls[s].state = "none"
  BY DEF NoCalls, Call, SignalType
<1> QED
  BY <1>1 DEF NotReading, ReadingType

\* Nothing was asked or kept before.
LEMMA OverviewStarts ==
  ASSUME OverviewInit, now \in Nat
  PROVE  OverviewInv
<1>1. /\ policy \in Policies /\ registry = [known |-> FALSE, tools |-> {}]
      /\ lock = NoRequest /\ snapshot = NoSnapshot
      /\ reading = [r \in Requests |-> NotReading]
  BY DEF OverviewInit
<1>2. \A r \in Requests : reading[r] \in ReadingType /\ reading[r].pc = "idle"
                          /\ Orderly(reading[r])
  BY <1>1, QuietHandlers, NoneRunning
<1>3. reading \in [Requests -> ReadingType]
  BY <1>1, QuietHandlers
<1>4. OverviewTypeOK
  BY <1>1, <1>3 DEF OverviewTypeOK, NoSnapshot, ReadingType, SignalType
<1>5. Owned
  BY <1>2 DEF Owned, Building
<1> QED
  BY <1>1, <1>4, <1>5 DEF OverviewInv, NoSnapshot

\* One handler moves on.
LEMMA HandlerMoves ==
  ASSUME OverviewInv, now \in Nat, now' = now, NEW r \in Requests, NEW request \in ReadingType,
         reading' = [reading EXCEPT ![r] = request], policy' \in Policies,
         registry' \in [known : BOOLEAN, tools : SUBSET Signals],
         lock' \in {r, NoRequest, lock}, lock' = lock \/ lock \in {r, NoRequest},
         snapshot' \in SnapshotType, snapshot'.oldest <= now,
         Orderly(request), request.pc \in Building => lock' = r
  PROVE  OverviewInv'
<1>1. reading \in [Requests -> ReadingType] /\ lock \in Requests \cup {NoRequest}
  BY DEF OverviewInv, OverviewTypeOK, ReadingType, SignalType
<1>2. /\ reading' \in [Requests -> ReadingType] /\ reading'[r] = request
      /\ \A p \in Requests \ {r} : reading'[p] = reading[p]
  BY <1>1
<1>3. OverviewTypeOK'
  BY <1>1, <1>2 DEF OverviewTypeOK, ReadingType, SignalType, SnapshotType
<1>4. Owned'
  <2>1. ASSUME NEW p \in Requests
        PROVE  (reading'[p].pc \in Building => lock' = p) /\ Orderly(reading'[p])
    <3>1. CASE p = r
      BY <1>2, <3>1
    <3>2. CASE p # r
      <4>1. reading'[p] = reading[p] /\ Orderly(reading[p])
        BY <1>2, <3>2 DEF OverviewInv, Owned
      <4>2. ASSUME reading[p].pc \in Building PROVE lock' = p
        <5>1. lock = p /\ p # NoRequest
          BY <4>2, OverviewAssumption DEF OverviewInv, Owned
        <5> QED
          BY <3>2, <5>1
      <4> QED
        BY <4>1, <4>2
    <3> QED
      BY <3>1, <3>2
  <2>2. \A p \in Requests : Orderly(reading[p])' <=> Orderly(reading'[p])
    BY DEF Orderly, RunningOf
  <2> QED
    BY <2>1, <2>2 DEF Owned
<1> QED
  BY <1>3, <1>4 DEF OverviewInv

\* What a step of the overview finds.
LEMMA OverviewFinds ==
  ASSUME OverviewInv, NEW r \in Requests
  PROVE  /\ reading[r] \in ReadingType /\ reading \in [Requests -> ReadingType]
         /\ Orderly(reading[r]) /\ snapshot \in SnapshotType
         /\ policy \in Policies /\ policy \subseteq Signals
         /\ registry \in [known : BOOLEAN, tools : SUBSET Signals]
         /\ lock \in Requests \cup {NoRequest} /\ snapshot.oldest <= now
         /\ reading[r].pc \in Building => lock = r
         /\ ToolTimeout \in Nat /\ MaxAge \in Nat /\ MaxNow \in Nat /\ MaxParallel \in Nat
  BY OverviewAssumption, HorizonAssumption
  DEF OverviewInv, OverviewTypeOK, Owned, ReadingType, SignalType, SnapshotType

\* A handler that was answered.
LEMMA ServedHandler ==
  ASSUME now \in Nat, NEW age \in Nat
  PROVE  Served(age) \in ReadingType /\ Served(age).pc = "served" /\ Orderly(Served(age))
<1>1. PICK none : none = NotReading
  OBVIOUS
<1>2. /\ none \in ReadingType /\ \A s \in Signals : none.calls[s].state = "none"
  BY <1>1, QuietHandlers
<1> DEFINE served == [none EXCEPT !.pc = "served", !.until = now, !.age = age]
<1>3. Served(age) = served
  BY <1>1 DEF Served
<1>4. /\ served \in ReadingType /\ served.pc = "served"
      /\ \A s \in Signals : served.calls[s].state = "none"
  BY <1>2 DEF ReadingType
<1>5. Orderly(served)
  BY <1>4, NoneRunning
<1> QED
  BY <1>3, <1>4, <1>5

\* A handler that has planned its calls.
LEMMA CollectingHandler ==
  ASSUME NEW request \in ReadingType, NEW tools \in SUBSET Signals
  PROVE  /\ Collecting(request, tools) \in ReadingType
         /\ Collecting(request, tools).pc = "collecting"
         /\ Orderly(Collecting(request, tools))
<1>1. /\ Planned(tools) \in [Signals -> SignalType]
      /\ \A s \in Signals : Planned(tools)[s].state \in {"none", "queued"}
  BY DEF Planned, Call, SignalType
<1>2. PICK calls1 \in [Signals -> SignalType] :
        calls1 = Planned(tools) /\ \A s \in Signals : calls1[s].state \in {"none", "queued"}
  BY <1>1
<1> DEFINE collecting == [request EXCEPT !.pc = "collecting", !.seen = tools, !.calls = calls1,
                                         !.oldest = MaxNow]
<1>3. Collecting(request, tools) = collecting
  BY <1>2 DEF Collecting
<1>4. /\ collecting \in ReadingType /\ collecting.pc = "collecting" /\ collecting.calls = calls1
  BY HorizonAssumption DEF ReadingType
<1>5. Orderly(collecting)
  BY <1>2, <1>4, NoneRunning
<1> QED
  BY <1>3, <1>4, <1>5

\* The operator asks, is served what there is, or has a snapshot built.
LEMMA AskStep ==
  ASSUME OverviewInv, now \in Nat, now' = now, NEW r \in Requests,
         Ask(r) \/ Serve(r) \/ Rebuild(r)
  PROVE  OverviewInv'
<1>0. /\ reading[r] \in ReadingType /\ Orderly(reading[r]) /\ snapshot \in SnapshotType
      /\ policy \in Policies /\ registry \in [known : BOOLEAN, tools : SUBSET Signals]
      /\ snapshot.oldest <= now /\ lock \in Requests \cup {NoRequest}
      /\ ToolTimeout \in Nat /\ now \in Nat /\ now' = now
      /\ UNCHANGED <<policy, registry, snapshot>>
  BY OverviewFinds DEF Ask, Serve, Rebuild
<1>1. CASE Ask(r)
  <2>1. PICK none : none = NotReading
    OBVIOUS
  <2>2. none \in ReadingType /\ \A s \in Signals : none.calls[s].state = "none"
    BY <2>1, QuietHandlers
  <2> DEFINE request == [none EXCEPT !.pc = "waiting"]
  <2>3. /\ request \in ReadingType /\ request.pc = "waiting"
        /\ \A s \in Signals : request.calls[s].state = "none"
    BY <2>2 DEF ReadingType
  <2>4. reading' = [reading EXCEPT ![r] = request] /\ lock' = lock
    BY <1>1, <2>1 DEF Ask
  <2> HIDE DEF request
  <2>5. Orderly(request)
    BY <2>3, NoneRunning
  <2> QED
    BY <1>0, <2>3, <2>4, <2>5, HandlerMoves DEF Building
<1>2. CASE Serve(r)
  <2>1. PICK age \in Nat : age = now - snapshot.oldest
    BY <1>0 DEF SnapshotType
  <2>2. reading' = [reading EXCEPT ![r] = Served(age)] /\ lock' = lock
    BY <1>2, <2>1 DEF Serve
  <2>3. PICK request \in ReadingType :
          request = Served(age) /\ request.pc = "served" /\ Orderly(request)
    BY <1>0, ServedHandler
  <2> QED
    BY <1>0, <2>2, <2>3, HandlerMoves DEF Building
<1>3. CASE Rebuild(r)
  <2>1. lock = NoRequest /\ lock' = r /\ reading[r].pc = "waiting"
    BY <1>3 DEF Rebuild, LockFree
  <2>2. CASE registry.known
    <3>1. PICK request \in ReadingType :
            request = Collecting(reading[r], registry.tools) /\ Orderly(request)
      BY <1>0, CollectingHandler
    <3>2. reading' = [reading EXCEPT ![r] = request]
      BY <1>3, <2>2, <3>1 DEF Rebuild
    <3> QED
      BY <1>0, <2>1, <3>1, <3>2, HandlerMoves
  <2>3. CASE ~registry.known
    <3>1. PICK until \in Nat : until = now + ToolTimeout
      BY <1>0
    <3> DEFINE request == [reading[r] EXCEPT !.pc = "asking", !.until = until]
    <3>2. reading' = [reading EXCEPT ![r] = request]
      BY <1>3, <2>3, <3>1 DEF Rebuild
    <3>3. /\ request \in ReadingType /\ request.pc = "asking"
          /\ request.calls = reading[r].calls
      BY <1>0 DEF ReadingType
    <3> HIDE DEF request
    <3>4. Orderly(request)
      BY <1>0, <2>1, <3>3 DEF Orderly, RunningOf
    <3> QED
      BY <1>0, <2>1, <3>2, <3>3, <3>4, HandlerMoves
  <2> QED
    BY <2>2, <2>3
<1> QED
  BY <1>1, <1>2, <1>3

\* The registry is read, remembered or not had.
LEMMA ListingStep ==
  ASSUME OverviewInv, now \in Nat, now' = now, NEW r \in Requests,
         ToolsListed(r) \/ Remember(r) \/ ListingFails(r)
  PROVE  OverviewInv'
<1>0. /\ reading[r] \in ReadingType /\ reading \in [Requests -> ReadingType]
      /\ Orderly(reading[r]) /\ snapshot \in SnapshotType
      /\ policy \in Policies /\ policy \subseteq Signals
      /\ registry \in [known : BOOLEAN, tools : SUBSET Signals]
      /\ snapshot.oldest <= now /\ lock = r /\ now \in Nat /\ now' = now
      /\ UNCHANGED <<policy, snapshot>>
      /\ reading[r].pc \in {"asking", "listed"}
  BY OverviewFinds DEF ToolsListed, Remember, ListingFails, Building
<1>1. CASE ToolsListed(r)
  <2> DEFINE request == [reading[r] EXCEPT !.pc = "listed", !.seen = policy]
  <2>1. reading' = [reading EXCEPT ![r] = request] /\ lock' = lock /\ registry' = registry
    BY <1>0, <1>1 DEF ToolsListed
  <2>2. request \in ReadingType /\ request.pc = "listed" /\ request.calls = reading[r].calls
    BY <1>0 DEF ReadingType
  <2> HIDE DEF request
  <2>3. Orderly(request)
    BY <1>0, <2>2 DEF Orderly, RunningOf
  <2> QED
    BY <1>0, <2>1, <2>2, <2>3, HandlerMoves
<1>2. CASE Remember(r)
  <2>1. PICK request \in ReadingType :
          request = Collecting(reading[r], reading[r].seen) /\ Orderly(request)
    BY <1>0, CollectingHandler DEF ReadingType
  <2>2. /\ reading' = [reading EXCEPT ![r] = request] /\ lock' = lock
        /\ registry' \in [known : BOOLEAN, tools : SUBSET Signals]
    BY <1>0, <1>2, <2>1 DEF Remember, ReadingType
  <2> QED
    BY <1>0, <2>1, <2>2, HandlerMoves
<1>3. CASE ListingFails(r)
  <2> DEFINE request == [reading[r] EXCEPT !.pc = "failed", !.until = now]
  <2>1. reading' = [reading EXCEPT ![r] = request] /\ lock' = NoRequest /\ registry' = registry
    BY <1>0, <1>3 DEF ListingFails
  <2>2. request \in ReadingType /\ request.pc = "failed" /\ request.calls = reading[r].calls
    BY <1>0 DEF ReadingType
  <2> HIDE DEF request
  <2>3. Orderly(request)
    BY <1>0, <2>2 DEF Orderly, RunningOf
  <2> QED
    BY <1>0, <2>1, <2>2, <2>3, HandlerMoves DEF Building
<1> QED
  BY <1>1, <1>2, <1>3

\* One call of a collecting handler gets another state.
LEMMA SignalMoves ==
  ASSUME NEW request \in ReadingType, NEW s \in Signals, NEW signal \in SignalType,
         NEW oldest \in Nat, Orderly(request), request.pc = "collecting",
         signal.state = "running" =>
           /\ request.calls[s].state # "running" /\ ToolTimeout <= signal.until
           /\ Cardinality(RunningOf(request)) < MaxParallel
  PROVE  LET moved == [request EXCEPT !.calls = [request.calls EXCEPT ![s] = signal],
                                      !.oldest = oldest]
         IN  moved \in ReadingType /\ moved.pc = "collecting" /\ Orderly(moved)
<1> DEFINE calls1 == [request.calls EXCEPT ![s] = signal]
           moved == [request EXCEPT !.calls = calls1, !.oldest = oldest]
<1>1. /\ calls1 \in [Signals -> SignalType] /\ calls1[s] = signal
      /\ \A t \in Signals \ {s} : calls1[t] = request.calls[t]
  BY DEF ReadingType
<1> HIDE DEF calls1
<1>2. moved \in ReadingType /\ moved.pc = "collecting" /\ moved.calls = calls1
  BY <1>1 DEF ReadingType
<1> HIDE DEF moved
<1>3. /\ IsFiniteSet(RunningOf(request)) /\ IsFiniteSet(RunningOf(moved))
      /\ RunningOf(request) \ {s} = RunningOf(moved) \ {s}
      /\ s \in RunningOf(moved) <=> signal.state = "running"
      /\ s \in RunningOf(request) <=> request.calls[s].state = "running"
  BY <1>1, <1>2, OverviewAssumption, FS_Subset DEF RunningOf
<1>4. Cardinality(RunningOf(moved)) <= MaxParallel
  <2>1. Cardinality(RunningOf(request)) <= MaxParallel /\ MaxParallel \in Nat
    BY OverviewAssumption DEF Orderly
  <2> QED
    BY <1>3, <2>1, OneApart
<1>5. \A t \in RunningOf(moved) : ToolTimeout <= moved.calls[t].until
  BY <1>1, <1>2 DEF Orderly, RunningOf
<1>6. Orderly(moved)
  BY <1>2, <1>4, <1>5 DEF Orderly
<1> QED
  BY <1>2, <1>6 DEF moved, calls1

\* A call of a collecting handler starts or is not made, or it is over.
Changes(r, s, signal, oldest) ==
  /\ reading' = [reading EXCEPT ![r] =
       [reading[r] EXCEPT !.calls = [reading[r].calls EXCEPT ![s] = signal],
                          !.oldest = oldest]]
  /\ \/ /\ reading[r].calls[s].state = "queued" /\ oldest = reading[r].oldest
        /\ signal.state \in {"running", "warning"}
        /\ signal.state = "running" =>
             /\ signal.until = now + ToolTimeout
             /\ Cardinality(RunningOf(reading[r])) < MaxParallel
     \/ /\ reading[r].calls[s].state = "running" /\ signal.state \in Outcomes
        /\ oldest = Earlier(reading[r].oldest, reading[r].calls[s].until - ToolTimeout)

\* What a step of a call does to its handler.
LEMMA SignalChanges ==
  ASSUME OverviewInv, now \in Nat, NEW r \in Requests, NEW s \in Signals,
         StartCall(r, s) \/ \E outcome \in Outcomes : Answered(r, s, outcome)
  PROVE  \E signal \in SignalType, oldest \in Nat : Changes(r, s, signal, oldest)
<1>0. /\ reading[r] \in ReadingType /\ reading \in [Requests -> ReadingType]
      /\ Orderly(reading[r]) /\ now \in Nat /\ ToolTimeout \in Nat
  BY OverviewFinds
<1>1. CASE StartCall(r, s)
  <2>1. PICK signal \in SignalType :
          /\ signal = IF s \in reading[r].seen \cap registry.tools
                      THEN Call("running", now + ToolTimeout) ELSE Call("warning", 0)
          /\ signal.state \in {"running", "warning"}
          /\ signal.state = "running" => signal.until = now + ToolTimeout
    <3>1. /\ Call("running", now + ToolTimeout) \in SignalType
          /\ Call("running", now + ToolTimeout).until = now + ToolTimeout
          /\ Call("running", now + ToolTimeout).state = "running"
          /\ Call("warning", 0) \in SignalType /\ Call("warning", 0).state = "warning"
      BY <1>0 DEF Call, SignalType, Outcomes
    <3> QED
      BY <1>0, <3>1
  <2>2. reading' = [reading EXCEPT ![r].calls[s] = signal]
    BY <1>1, <2>1 DEF StartCall
  <2>3. reading' = [reading EXCEPT ![r] =
           [reading[r] EXCEPT !.calls = [reading[r].calls EXCEPT ![s] = signal],
                              !.oldest = reading[r].oldest]]
    <3>1. [reading[r] EXCEPT !.calls = [reading[r].calls EXCEPT ![s] = signal]] =
          [reading[r] EXCEPT !.calls = [reading[r].calls EXCEPT ![s] = signal],
                             !.oldest = reading[r].oldest]
      BY <1>0 DEF ReadingType
    <3> QED
      BY <2>2, <3>1
  <2>4. /\ reading[r].calls[s].state = "queued" /\ reading[r].oldest \in Nat
        /\ Cardinality(RunningOf(reading[r])) < MaxParallel
    BY <1>0, <1>1 DEF StartCall, InState, RunningOf, ReadingType
  <2> QED
    BY <2>1, <2>3, <2>4 DEF Changes
<1>2. ASSUME NEW outcome \in Outcomes, Answered(r, s, outcome)
      PROVE  \E signal \in SignalType, oldest \in Nat : Changes(r, s, signal, oldest)
  <2>0. /\ Call(outcome, 0) = [state |-> outcome, until |-> 0]
        /\ [state |-> outcome, until |-> 0] \in SignalType
    BY DEF Call, SignalType
  <2>1. PICK signal \in SignalType : signal = Call(outcome, 0) /\ signal.state = outcome
    BY <2>0
  <2>2. /\ reading[r].calls[s].until \in Nat /\ ToolTimeout <= reading[r].calls[s].until
        /\ reading[r].oldest \in Nat
    BY <1>0, <1>2 DEF ReadingType, SignalType, Answered, InState, Orderly, RunningOf
  <2>3. PICK oldest \in Nat :
          oldest = Earlier(reading[r].oldest, reading[r].calls[s].until - ToolTimeout)
    BY <1>0, <2>2 DEF Earlier
  <2>4. PICK next : /\ next = [reading EXCEPT ![r].calls[s] = signal]
                    /\ reading' = [next EXCEPT ![r].oldest =
                         Earlier(next[r].oldest, reading[r].calls[s].until - ToolTimeout)]
    <3>1. PICK next : /\ next = [reading EXCEPT ![r].calls[s] = Call(outcome, 0)]
                      /\ reading' = [next EXCEPT ![r].oldest =
                           Earlier(next[r].oldest, reading[r].calls[s].until - ToolTimeout)]
      <4>1. reading' = [reading EXCEPT ![r].calls[s] = Call(outcome, 0),
               ![r].oldest = Earlier(@, reading[r].calls[s].until - ToolTimeout)]
        BY <1>2 DEF Answered
      <4> QED
        BY <4>1, Zenon
    <3> QED
      BY <2>1, <3>1
  <2>5. /\ next[r] = [reading[r] EXCEPT !.calls = [reading[r].calls EXCEPT ![s] = signal]]
        /\ next = [reading EXCEPT ![r] =
             [reading[r] EXCEPT !.calls = [reading[r].calls EXCEPT ![s] = signal]]]
    BY <1>0, <2>4
  <2>6. next[r].oldest = reading[r].oldest
    BY <1>0, <2>5 DEF ReadingType
  <2>7. reading' = [next EXCEPT ![r] = [next[r] EXCEPT !.oldest = oldest]]
    BY <2>3, <2>4, <2>6
  <2>8. [next[r] EXCEPT !.oldest = oldest] =
          [reading[r] EXCEPT !.calls = [reading[r].calls EXCEPT ![s] = signal],
                             !.oldest = oldest]
    BY <2>5
  <2>9. reading' = [reading EXCEPT ![r] =
          [reading[r] EXCEPT !.calls = [reading[r].calls EXCEPT ![s] = signal],
                             !.oldest = oldest]]
    BY <1>0, <2>5, <2>7, <2>8
  <2>10. reading[r].calls[s].state = "running"
    BY <1>2 DEF Answered, InState
  <2> QED
    BY <2>1, <2>3, <2>9, <2>10 DEF Changes
<1> QED
  BY <1>1, <1>2

\* A call starts when the semaphore lets it, or is not made; or it is over.
LEMMA SignalStep ==
  ASSUME OverviewInv, now \in Nat, now' = now, NEW r \in Requests, NEW s \in Signals,
         StartCall(r, s) \/ \E outcome \in Outcomes : Answered(r, s, outcome)
  PROVE  OverviewInv'
<1>0. /\ reading[r] \in ReadingType /\ reading \in [Requests -> ReadingType]
      /\ Orderly(reading[r]) /\ snapshot \in SnapshotType /\ policy \in Policies
      /\ registry \in [known : BOOLEAN, tools : SUBSET Signals]
      /\ snapshot.oldest <= now /\ now \in Nat /\ now' = now
      /\ ToolTimeout \in Nat
      /\ UNCHANGED <<policy, registry, lock, snapshot>>
      /\ reading[r].calls[s].state \in {"queued", "running"}
  BY OverviewFinds DEF StartCall, Answered, InState
<1>1. reading[r].pc = "collecting" /\ lock = r
  BY <1>0, OverviewFinds DEF Orderly, Building
<1>2. PICK signal \in SignalType, oldest \in Nat : Changes(r, s, signal, oldest)
  BY SignalChanges
<1>3. /\ reading' = [reading EXCEPT ![r] =
           [reading[r] EXCEPT !.calls = [reading[r].calls EXCEPT ![s] = signal],
                              !.oldest = oldest]]
      /\ signal.state = "running" =>
           /\ reading[r].calls[s].state # "running" /\ ToolTimeout <= signal.until
           /\ Cardinality(RunningOf(reading[r])) < MaxParallel
  BY <1>0, <1>2 DEF Changes, Outcomes
<1>4. PICK request \in ReadingType :
        reading' = [reading EXCEPT ![r] = request] /\ Orderly(request)
  BY <1>0, <1>1, <1>3, SignalMoves
<1> QED
  BY <1>0, <1>1, <1>4, HandlerMoves

\* The snapshot is kept, and served to the one who built it.
LEMMA StoreStep ==
  ASSUME OverviewInv, now \in Nat, now' = now, NEW r \in Requests, Store(r)
  PROVE  OverviewInv'
<1>0. /\ reading[r] \in ReadingType /\ policy \in Policies
      /\ registry \in [known : BOOLEAN, tools : SUBSET Signals] /\ MaxAge \in Nat
      /\ lock = r /\ lock' = NoRequest /\ UNCHANGED <<policy, registry>>
      /\ now \in Nat /\ now' = now
  BY OverviewFinds DEF Store, Building
<1>1. PICK oldest \in Nat : oldest = Earlier(reading[r].oldest, now) /\ oldest <= now
  BY <1>0 DEF ReadingType, Earlier
<1>2. PICK age \in Nat : age = now - oldest
  BY <1>0, <1>1
<1>3. PICK expires \in Nat : expires = now + MaxAge
  BY <1>0
<1>4. Health(r) \in {"none", "healthy", "warning", "critical"}
  BY DEF Health
<1>5. /\ snapshot' = [taken |-> TRUE, oldest |-> oldest, expires |-> expires,
                      health |-> Health(r)]
      /\ reading' = [reading EXCEPT ![r] = Served(age)]
  BY <1>1, <1>2, <1>3 DEF Store
<1>6. snapshot' \in SnapshotType /\ snapshot'.oldest <= now
  BY <1>1, <1>4, <1>5 DEF SnapshotType
<1>7. PICK request \in ReadingType :
        request = Served(age) /\ request.pc = "served" /\ Orderly(request)
  BY <1>0, ServedHandler
<1> QED
  BY <1>0, <1>5, <1>6, <1>7, HandlerMoves DEF Building

\* Every step of the handlers and of the gateway keeps the invariant.
LEMMA OverviewNextStep ==
  ASSUME OverviewInv, now \in Nat, now' = now, OverviewNext
  PROVE  OverviewInv'
<1>1. CASE Regrant
  <2>1. /\ policy' \in Policies /\ UNCHANGED <<registry, lock, snapshot, reading>>
    BY <1>1 DEF Regrant
  <2> QED
    BY <2>1 DEF OverviewInv, OverviewTypeOK, Owned, Orderly, RunningOf
<1>2. ASSUME NEW r \in Requests,
             Ask(r) \/ Serve(r) \/ Rebuild(r) \/ ToolsListed(r) \/ Remember(r) \/ ListingFails(r)
             \/ Store(r)
      PROVE  OverviewInv'
  BY <1>2, AskStep, ListingStep, StoreStep
<1>3. ASSUME NEW r \in Requests, NEW s \in Signals,
             StartCall(r, s) \/ \E outcome \in Outcomes : Answered(r, s, outcome)
      PROVE  OverviewInv'
  BY <1>3, SignalStep
<1> QED
  BY <1>1, <1>2, <1>3 DEF OverviewNext, OverviewStep

\* Handlers that wait keep it too, while time passes or not.
LEMMA OverviewRests ==
  ASSUME OverviewInv, now \in Nat, now' \in Nat, now <= now', UNCHANGED overviewVars
  PROVE  OverviewInv'
<1>1. UNCHANGED <<policy, registry, lock, snapshot, reading>>
  BY DEF overviewVars
<1>2. OverviewTypeOK' /\ Owned'
  BY <1>1 DEF OverviewInv, OverviewTypeOK, Owned, Orderly, RunningOf
<1>3. snapshot.oldest \in Nat
  BY DEF OverviewInv, OverviewTypeOK
<1> QED
  BY <1>1, <1>2, <1>3 DEF OverviewInv

\* All the calls are those of the holder of the lock.
LEMMA OneBuilder ==
  ASSUME OverviewInv
  PROVE  CallsBounded
<1> DEFINE X == {c \in Requests \X Signals : reading[c[1]].calls[c[2]].state = "running"}
<1>1. CASE X = {}
  <2>1. Cardinality(X) = 0 /\ MaxParallel \in Nat
    BY <1>1, FS_EmptySet, OverviewAssumption
  <2> QED
    BY <2>1 DEF CallsBounded
<1>2. CASE X # {}
  <2>1. \A c \in X : /\ c[1] \in Requests /\ c[2] \in Signals /\ c = <<c[1], c[2]>>
                     /\ reading[c[1]].calls[c[2]].state = "running"
    OBVIOUS
  <2>2. \A c \in X : c[1] = lock
    BY <2>1 DEF OverviewInv, Owned, Orderly, Building
  <2>3. PICK r \in Requests : r = lock
    BY <1>2, <2>1, <2>2
  <2> DEFINE R == RunningOf(reading[r])
             f == [c \in X |-> c[2]]
  <2>4. f \in Injection(X, R)
    <3>1. f \in [X -> R]
      BY <2>1, <2>2, <2>3 DEF RunningOf
    <3>2. ASSUME NEW a \in X, NEW b \in X, f[a] = f[b]
          PROVE  a = b
      <4>1. f[a] = a[2] /\ f[b] = b[2] /\ a[1] = b[1]
        BY <2>2
      <4>2. a = <<a[1], a[2]>> /\ b = <<b[1], b[2]>>
        BY <2>1, Zenon
      <4> QED
        BY <3>2, <4>1, <4>2, Zenon
    <3>3. \A a, b \in X : f[a] = f[b] => a = b
      BY <3>2
    <3> HIDE DEF X, R, f
    <3> QED
      BY <3>1, <3>3 DEF Injection, IsInjective
  <2>5. IsFiniteSet(R) /\ Cardinality(R) <= MaxParallel
    BY OverviewAssumption, FS_Subset DEF RunningOf, OverviewInv, Owned, Orderly
  <2> HIDE DEF X, R, f
  <2>6. IsFiniteSet(X) /\ Cardinality(X) <= Cardinality(R)
    BY <2>4, <2>5, FS_Injection
  <2>7. Cardinality(X) \in Nat /\ Cardinality(R) \in Nat /\ MaxParallel \in Nat
    BY <2>5, <2>6, FS_CardinalityType, OverviewAssumption
  <2>8. Cardinality(X) <= MaxParallel
    BY <2>5, <2>6, <2>7
  <2> QED
    BY <2>8 DEF CallsBounded, X
<1> QED
  BY <1>1, <1>2

-----------------------------------------------------------------------------
(* The age of what is served. *)

\* A product of naturals grows with its factor, one addend at a time.
LEMMA Products ==
  ASSUME NEW k \in Nat
  PROVE  /\ \A m \in Nat : m * k \in Nat /\ (m + 1) * k = m * k + k
         /\ 0 * k = 0
         /\ \A m \in Nat \ {0} : m - 1 \in Nat /\ m * k = (m - 1) * k + k
<1>1. \A m \in Nat : m * k \in Nat /\ (m + 1) * k = m * k + k
  OBVIOUS
<1>2. 0 * k = 0
  OBVIOUS
<1>3. \A m \in Nat \ {0} : m - 1 \in Nat /\ m * k = (m - 1) * k + k
  OBVIOUS
<1> QED
  BY <1>1, <1>2, <1>3

\* So many rounds of the semaphore make all calls.
LEMMA RoundsSuffice ==
  /\ Rounds \in Nat \ {0} /\ Cardinality(Signals) \in Nat
  /\ Cardinality(Signals) <= Rounds * MaxParallel
  /\ Rounds * ToolTimeout \in Nat
<1>1. Cardinality(Signals) \in Nat /\ Cardinality(Signals) # 0
  BY OverviewAssumption, FS_CardinalityType, FS_EmptySet
<1>2. ASSUME NEW n \in Nat \ {0}, NEW k \in Nat \ {0}
      PROVE  /\ (n + k - 1) \div k \in Nat \ {0}
             /\ n <= ((n + k - 1) \div k) * k
  <2>1. PICK q \in Int : q = (n + k - 1) \div k
    OBVIOUS
  <2>2. q * k <= n + k - 1 /\ n + k - 1 < q * k + k
    BY <2>1
  <2>3. n <= q * k
    BY <2>2
  <2>4. q > 0
    <3>1. CASE q <= 0
      BY <2>3, <3>1
    <3> QED
      BY <3>1
  <2> QED
    BY <2>1, <2>3, <2>4
<1>3. Rounds \in Nat \ {0} /\ Cardinality(Signals) <= Rounds * MaxParallel
  BY <1>1, <1>2, OverviewAssumption DEF Rounds
<1>4. \A m, k \in Nat : m * k \in Nat
  OBVIOUS
<1> QED
  BY <1>1, <1>3, <1>4, OverviewAssumption

\* The calls that wait for the semaphore.
Queued(request) == {s \in Signals : request.calls[s].state = "queued"}

\* The calls that are over at the instant u, or that were never planned.
Settled(request, u) ==
  {s \in Signals : /\ request.calls[s].state # "queued"
                   /\ request.calls[s].state = "running" => request.calls[s].until <= u}

\* A collection that began at b is within its rounds at t, with all its calls.
Within(request, t, b) ==
  /\ b <= t /\ t <= b + Rounds * ToolTimeout /\ b <= request.oldest
  /\ \A s \in RunningOf(request) :
       /\ b + ToolTimeout <= request.calls[s].until
       /\ request.calls[s].until <= b + Rounds * ToolTimeout
       /\ request.calls[s].until <= t + ToolTimeout

\* While a call waits for the semaphore, each timeout that has passed since b
\* has settled as many calls as the semaphore holds, and one more round of them
\* is under way.
RoundsFull(request, t, b) ==
  \A m \in Nat :
    Queued(request) # {} /\ t > b + m * ToolTimeout
      => (m + 1) * MaxParallel <= Cardinality(Settled(request, b + (m + 1) * ToolTimeout))

Paced(request, t) ==
  request.pc = "collecting" =>
    \E b \in Nat : Within(request, t, b) /\ RoundsFull(request, t, b)

\* More calls settle in one set than in another that it contains.
LEMMA SettledCount ==
  ASSUME NEW request \in ReadingType, NEW u
  PROVE  /\ IsFiniteSet(Settled(request, u)) /\ Cardinality(Settled(request, u)) \in Nat
         /\ \A T : IsFiniteSet(T) /\ Settled(request, u) \subseteq T =>
              Cardinality(Settled(request, u)) <= Cardinality(T)
<1>1. IsFiniteSet(Settled(request, u))
  BY OverviewAssumption, FS_Subset DEF Settled
<1> QED
  BY <1>1, FS_CardinalityType, FS_Subset

\* A call that waits can still be made within the rounds.
LEMMA RoundLeft ==
  ASSUME NEW request \in ReadingType, NEW t \in Nat, NEW b \in Nat, NEW s \in Queued(request),
         RoundsFull(request, t, b)
  PROVE  t + ToolTimeout <= b + Rounds * ToolTimeout
<1> DEFINE m == Rounds - 1
<1>1. m \in Nat /\ m + 1 = Rounds
  BY RoundsSuffice
<1>2. m * ToolTimeout \in Nat /\ Rounds * ToolTimeout = m * ToolTimeout + ToolTimeout
  BY <1>1, Products, OverviewAssumption
<1>3. ASSUME t > b + m * ToolTimeout
      PROVE  FALSE
  <2> DEFINE S == Settled(request, b + (m + 1) * ToolTimeout)
  <2>1. (m + 1) * MaxParallel <= Cardinality(S)
    BY <1>1, <1>3 DEF RoundsFull
  <2>2. Cardinality(Signals) <= Cardinality(S)
    <3>1. (m + 1) * MaxParallel = Rounds * MaxParallel /\ Rounds * MaxParallel \in Nat
      BY <1>1, Products, OverviewAssumption, RoundsSuffice
    <3>2. Cardinality(S) \in Nat
      BY SettledCount
    <3> HIDE DEF S
    <3> QED
      BY <2>1, <3>1, <3>2, RoundsSuffice
  <2>3. S \subseteq Signals \ {s} /\ s \in Signals
    BY DEF Settled, Queued
  <2>4. /\ IsFiniteSet(Signals \ {s})
        /\ Cardinality(Signals \ {s}) = Cardinality(Signals) - 1
    BY <2>3, OverviewAssumption, FS_RemoveElement
  <2>5. Cardinality(S) <= Cardinality(Signals \ {s}) /\ Cardinality(S) \in Nat
    BY <2>3, <2>4, SettledCount
  <2> HIDE DEF S
  <2> QED
    BY <2>2, <2>4, <2>5, RoundsSuffice
<1> HIDE DEF m
<1> QED
  BY <1>2, <1>3, OverviewAssumption

\* A call that starts, is not made or is over leaves its handler in time.
LEMMA SignalPaces ==
  ASSUME OverviewInv, now \in Nat, NEW r \in Requests, NEW s \in Signals,
         NEW signal \in SignalType, NEW oldest \in Nat, Changes(r, s, signal, oldest),
         NEW b \in Nat, Within(reading[r], now, b), RoundsFull(reading[r], now, b)
  PROVE  Within(reading'[r], now, b) /\ RoundsFull(reading'[r], now, b)
<1> DEFINE old == reading[r]
           new == reading'[r]
<1>0. /\ old \in ReadingType /\ reading \in [Requests -> ReadingType] /\ Orderly(old)
      /\ ToolTimeout \in Nat \ {0} /\ old.calls[s].until \in Nat
  BY OverviewFinds, OverviewAssumption DEF ReadingType, SignalType
<1>1. /\ new.calls[s] = signal /\ new.oldest = oldest
      /\ \A t \in Signals \ {s} : new.calls[t] = old.calls[t]
      /\ new.calls \in [Signals -> SignalType]
  BY <1>0 DEF Changes, ReadingType
<1>2. \/ /\ old.calls[s].state = "queued" /\ oldest = old.oldest
         /\ signal.state \in {"running", "warning"}
         /\ signal.state = "running" => signal.until = now + ToolTimeout
      \/ /\ old.calls[s].state = "running" /\ signal.state \in {"ok", "warning", "critical"}
         /\ oldest = Earlier(old.oldest, old.calls[s].until - ToolTimeout)
  BY DEF Changes, Outcomes
<1>3. new \in ReadingType
  BY <1>0 DEF Changes, ReadingType
<1>4. /\ b <= now /\ now <= b + Rounds * ToolTimeout /\ b <= old.oldest
      /\ \A t \in RunningOf(old) :
           /\ b + ToolTimeout <= old.calls[t].until
           /\ old.calls[t].until <= b + Rounds * ToolTimeout
           /\ old.calls[t].until <= now + ToolTimeout
  BY DEF Within
<1>5. /\ Rounds * ToolTimeout \in Nat /\ old.oldest \in Nat
  BY <1>0, RoundsSuffice DEF ReadingType
<1>6. old.calls[s].state = "queued" => now + ToolTimeout <= b + Rounds * ToolTimeout
  <2>1. old.calls[s].state = "queued" => s \in Queued(old)
    BY DEF Queued
  <2> QED
    BY <1>0, <2>1, RoundLeft
<1> HIDE DEF old, new
<1>7. \A t \in RunningOf(new) : \/ t \in RunningOf(old) /\ new.calls[t] = old.calls[t]
                                \/ t = s /\ old.calls[s].state = "queued"
                                   /\ new.calls[t].until = now + ToolTimeout
  <2>1. ASSUME NEW t \in Signals, new.calls[t].state = "running", t # s
        PROVE  old.calls[t].state = "running" /\ new.calls[t] = old.calls[t]
    BY <1>1, <2>1
  <2>2. ASSUME new.calls[s].state = "running"
        PROVE  old.calls[s].state = "queued" /\ new.calls[s].until = now + ToolTimeout
    BY <1>1, <1>2, <2>2
  <2>3. ASSUME NEW t \in RunningOf(new)
        PROVE  \/ t \in RunningOf(old) /\ new.calls[t] = old.calls[t]
               \/ t = s /\ old.calls[s].state = "queued"
                  /\ new.calls[t].until = now + ToolTimeout
    <3>1. t \in Signals /\ new.calls[t].state = "running"
      BY DEF RunningOf
    <3>2. CASE t = s
      BY <2>2, <3>1, <3>2
    <3>3. CASE t # s
      <4>1. old.calls[t].state = "running" /\ new.calls[t] = old.calls[t]
        BY <2>1, <3>1, <3>3
      <4> QED
        BY <3>1, <4>1 DEF RunningOf
    <3> QED
      BY <3>2, <3>3
  <2> QED
    BY <2>3
<1>8. Within(new, now, b)
  <2>1. b <= new.oldest
    <3>1. CASE oldest = old.oldest
      BY <1>1, <1>4, <3>1
    <3>2. CASE old.calls[s].state = "running"
      <4>1. b + ToolTimeout <= old.calls[s].until
        BY <1>4, <3>2 DEF RunningOf
      <4> QED
        BY <1>0, <1>1, <1>2, <1>4, <1>5, <3>2, <4>1 DEF Earlier
    <3> QED
      BY <1>2, <3>1, <3>2
  <2>2. ASSUME NEW t \in RunningOf(new)
        PROVE  /\ b + ToolTimeout <= new.calls[t].until
               /\ new.calls[t].until <= b + Rounds * ToolTimeout
               /\ new.calls[t].until <= now + ToolTimeout
    <3>1. CASE t \in RunningOf(old) /\ new.calls[t] = old.calls[t]
      BY <1>4, <3>1
    <3>2. CASE new.calls[t].until = now + ToolTimeout /\ old.calls[s].state = "queued"
      BY <1>0, <1>4, <1>5, <1>6, <3>2
    <3> QED
      BY <1>7, <3>1, <3>2
  <2> QED
    BY <1>4, <2>1, <2>2 DEF Within
<1>9. ASSUME NEW m \in Nat, Queued(new) # {}, now > b + m * ToolTimeout
      PROVE  (m + 1) * MaxParallel <= Cardinality(Settled(new, b + (m + 1) * ToolTimeout))
  <2> DEFINE u == b + (m + 1) * ToolTimeout
  <2>1. u \in Nat /\ now + ToolTimeout \in Nat
    BY <1>0, Products
  <2>2. Queued(old) # {}
    BY <1>1, <1>2, <1>9 DEF Queued
  <2>3. (m + 1) * MaxParallel <= Cardinality(Settled(old, u))
    BY <1>9, <2>2 DEF RoundsFull, old
  <2> HIDE DEF u
  <2>4. Settled(old, u) \subseteq Settled(new, u)
    <3>1. ASSUME NEW t \in Signals, old.calls[t].state # "queued",
                 old.calls[t].state = "running" => old.calls[t].until <= u
          PROVE  /\ new.calls[t].state # "queued"
                 /\ new.calls[t].state = "running" => new.calls[t].until <= u
      <4>1. CASE t = s
        BY <1>1, <1>2, <3>1, <4>1
      <4>2. CASE t # s
        BY <1>1, <3>1, <4>2
      <4> QED
        BY <4>1, <4>2
    <3> QED
      BY <3>1 DEF Settled
  <2>5. /\ Cardinality(Settled(old, u)) <= Cardinality(Settled(new, u))
        /\ Cardinality(Settled(old, u)) \in Nat /\ Cardinality(Settled(new, u)) \in Nat
    <3>1. old \in ReadingType /\ new \in ReadingType
      BY <1>0, <1>3 DEF old, new
    <3> QED
      BY <2>4, <3>1, SettledCount
  <2>6. (m + 1) * MaxParallel \in Nat
    BY Products, OverviewAssumption
  <2> QED
    BY <2>3, <2>5, <2>6 DEF u
<1>10. RoundsFull(new, now, b)
  BY <1>9 DEF RoundsFull
<1> QED
  BY <1>8, <1>10 DEF new

\* A handler that has just planned its calls begins its collection.
LEMMA CollectionBegins ==
  ASSUME now \in Instants, NEW request \in ReadingType, NEW tools \in SUBSET Signals
  PROVE  Paced(Collecting(request, tools), now)
<1> DEFINE new == Collecting(request, tools)
<1>1. new.oldest = MaxNow /\ new.calls = Planned(tools)
  BY DEF Collecting, ReadingType
<1>2. \A s \in Signals : Planned(tools)[s].state # "running"
  BY DEF Planned, Call
<1> HIDE DEF new
<1>3. RunningOf(new) = {}
  BY <1>1, <1>2 DEF RunningOf
<1>4. /\ now \in Nat /\ now <= MaxNow /\ MaxNow \in Nat /\ ToolTimeout \in Nat
      /\ Rounds * ToolTimeout \in Nat
  BY HorizonAssumption, OverviewAssumption, RoundsSuffice DEF Instants
<1>5. Within(new, now, now)
  BY <1>1, <1>3, <1>4 DEF Within
<1>6. \A m \in Nat : m * ToolTimeout \in Nat
  BY <1>4, Products
<1>7. RoundsFull(new, now, now)
  BY <1>4, <1>6 DEF RoundsFull
<1> QED
  BY <1>4, <1>5, <1>7 DEF Paced, new

\* Time passes only while the calls that may be under way are, and up to the
\* first timeout of them.
LEMMA TimePaces ==
  ASSUME OverviewInv, now \in Nat, now' = now + 1, NEW r \in Requests,
         reading[r].pc = "collecting", OverviewBlocks,
         NEW b \in Nat, Within(reading[r], now, b), RoundsFull(reading[r], now, b)
  PROVE  Within(reading[r], now', b) /\ RoundsFull(reading[r], now', b)
<1> DEFINE old == reading[r]
           Running == RunningOf(old)
<1>0. /\ old \in ReadingType /\ ToolTimeout \in Nat \ {0} /\ MaxParallel \in Nat \ {0}
      /\ Rounds * ToolTimeout \in Nat /\ now' = now + 1
  BY OverviewFinds, OverviewAssumption, RoundsSuffice
<1>1. InState(r, "running") = Running /\ InState(r, "queued") = Queued(old)
  BY DEF InState, RunningOf, Queued
<1>2. /\ Running # {} /\ \A s \in Running : now < old.calls[s].until
      /\ Cardinality(Running) = Earlier(MaxParallel, Cardinality(Running \cup Queued(old)))
  BY <1>1 DEF OverviewBlocks
<1>3. /\ b <= now /\ now <= b + Rounds * ToolTimeout /\ b <= old.oldest
      /\ \A s \in Running :
           /\ b + ToolTimeout <= old.calls[s].until
           /\ old.calls[s].until <= b + Rounds * ToolTimeout
           /\ old.calls[s].until <= now + ToolTimeout
  BY DEF Within
<1>4. \A s \in Running : old.calls[s].until \in Nat /\ s \in Signals
                         /\ old.calls[s].state = "running"
  BY <1>0 DEF RunningOf, ReadingType, SignalType
<1> HIDE DEF old
<1>5. Within(old, now', b)
  <2>1. now' <= b + Rounds * ToolTimeout
    <3>1. PICK s \in Running : TRUE
      BY <1>2
    <3> QED
      BY <1>0, <1>2, <1>3, <1>4, <3>1
  <2>2. \A s \in Running : old.calls[s].until <= now' + ToolTimeout
    BY <1>0, <1>3, <1>4
  <2>3. b <= now'
    BY <1>0, <1>3
  <2> QED
    BY <1>3, <2>1, <2>2, <2>3 DEF Within
<1>6. ASSUME NEW m \in Nat, Queued(old) # {}, now' > b + m * ToolTimeout
      PROVE  (m + 1) * MaxParallel <= Cardinality(Settled(old, b + (m + 1) * ToolTimeout))
  <2>0. /\ m * ToolTimeout \in Nat /\ (m + 1) * ToolTimeout = m * ToolTimeout + ToolTimeout
        /\ m * MaxParallel \in Nat /\ (m + 1) * MaxParallel = m * MaxParallel + MaxParallel
    BY <1>0, Products
  <2>1. CASE now > b + m * ToolTimeout
    BY <1>6, <2>1 DEF RoundsFull, old
  <2>2. CASE now = b + m * ToolTimeout
    <3> DEFINE Done == Settled(old, now)
               All == Settled(old, b + (m + 1) * ToolTimeout)
    <3>1. /\ IsFiniteSet(Running) /\ IsFiniteSet(Queued(old)) /\ IsFiniteSet(Running \cup Queued(old))
          /\ Running \cap Queued(old) = {}
      BY OverviewAssumption, FS_Subset DEF RunningOf, Queued
    <3>2. Cardinality(Running) = MaxParallel
      <4>1. Cardinality(Running \cup Queued(old)) # Cardinality(Running)
        <5>1. PICK s \in Queued(old) : s \notin Running
          BY <1>6, <3>1
        <5>2. Running # Running \cup Queued(old)
          BY <5>1
        <5> QED
          BY <3>1, <5>2, FS_Subset
      <4>2. Cardinality(Running \cup Queued(old)) \in Nat
        BY <3>1, FS_CardinalityType
      <4> QED
        BY <1>0, <1>2, <4>1, <4>2 DEF Earlier
    <3>3. All = Done \cup Running /\ Done \cap Running = {}
      <4>1. b + (m + 1) * ToolTimeout = now + ToolTimeout
        BY <1>0, <2>0, <2>2
      <4>2. \A s \in Running : old.calls[s].until <= now + ToolTimeout
        BY <1>3
      <4>3. \A s \in Running : ~(old.calls[s].until <= now)
        BY <1>2, <1>4
      <4> QED
        BY <4>1, <4>2, <4>3 DEF Settled, RunningOf
    <3>4. m * MaxParallel <= Cardinality(Done)
      <4>1. Cardinality(Done) \in Nat
        BY <1>0, SettledCount DEF old
      <4>2. CASE m = 0
        BY <1>0, <4>1, <4>2, Products
      <4>3. CASE m # 0
        <5>1. m \in Nat \ {0}
          BY <4>3
        <5> DEFINE l == m - 1
        <5>2. l \in Nat /\ l + 1 = m /\ m * ToolTimeout = l * ToolTimeout + ToolTimeout
              /\ l * ToolTimeout \in Nat
          BY <1>0, <5>1, Products
        <5> HIDE DEF l
        <5>3. now > b + l * ToolTimeout
          BY <1>0, <2>2, <5>2
        <5>4. m * MaxParallel <= Cardinality(Settled(old, b + m * ToolTimeout))
          BY <1>6, <5>2, <5>3 DEF RoundsFull, old
        <5> QED
          BY <2>2, <5>4
      <4> QED
        BY <4>2, <4>3
    <3>5. IsFiniteSet(Done) /\ Cardinality(Done) \in Nat
      BY <1>0, SettledCount DEF old
    <3>6. Cardinality(Done \cup Running) = Cardinality(Done) + Cardinality(Running)
      <4>1. Cardinality(Done \cap Running) = 0
        BY <3>3, FS_EmptySet
      <4>2. Cardinality(Running) \in Nat
        BY <1>0, <3>2
      <4> HIDE DEF Done, Running
      <4>3. Cardinality(Done \cup Running) =
              Cardinality(Done) + Cardinality(Running) - Cardinality(Done \cap Running)
        BY <3>1, <3>5, FS_Union
      <4> QED
        BY <3>5, <4>1, <4>2, <4>3
    <3> HIDE DEF Done, Running, All
    <3>7. (m + 1) * MaxParallel <= Cardinality(All)
      BY <1>0, <2>0, <3>2, <3>3, <3>4, <3>5, <3>6
    <3> QED
      BY <3>7 DEF All
  <2> QED
    BY <1>0, <1>6, <2>0, <2>1, <2>2
<1>7. RoundsFull(old, now', b)
  BY <1>6 DEF RoundsFull
<1> QED
  BY <1>5, <1>7 DEF old

\* A handler is at work only with the overview, and within its rounds; what is
\* kept or was served is no older than they may make it.
Young ==
  /\ \A r \in Requests : /\ Paced(reading[r], now)
                         /\ at_work # "overview" => reading[r].pc = "idle"
  /\ snapshot.taken => snapshot.expires <= snapshot.oldest + Rounds * ToolTimeout + MaxAge
  /\ ServedFresh

\* One handler moves on.
LEMMA YoungMoves ==
  ASSUME Young, now' = now, at_work = "overview", at_work' = at_work, NEW r \in Requests,
         \A p \in Requests \ {r} : reading'[p] = reading[p],
         Paced(reading'[r], now),
         reading'[r].pc = "served" => reading'[r].age < MaxAge + Rounds * ToolTimeout,
         snapshot'.taken =>
           snapshot'.expires <= snapshot'.oldest + Rounds * ToolTimeout + MaxAge
  PROVE  Young'
<1>1. ASSUME NEW p \in Requests
      PROVE  /\ Paced(reading'[p], now)
             /\ reading'[p].pc = "served" => reading'[p].age < MaxAge + Rounds * ToolTimeout
  <2>1. CASE p = r
    BY <2>1
  <2>2. CASE p # r
    <3>1. reading'[p] = reading[p]
      BY <2>2
    <3> QED
      BY <3>1 DEF Young, ServedFresh
  <2> QED
    BY <2>1, <2>2
<1>2. \A p \in Requests : Paced(reading[p], now)' <=> Paced(reading'[p], now)
  BY DEF Paced, Within, RoundsFull, RunningOf, Queued, Settled
<1>3. Rounds' = Rounds
  BY DEF Rounds
<1> QED
  BY <1>1, <1>2, <1>3 DEF Young, ServedFresh

\* A handler that does not collect, and was not served, is as it should be.
LEMMA QuietYoung ==
  ASSUME OverviewInv, now \in Instants, Young, now' = now,
         at_work = "overview", at_work' = at_work, NEW r \in Requests,
         Ask(r) \/ ToolsListed(r) \/ ListingFails(r)
  PROVE  Young'
<1>0. reading \in [Requests -> ReadingType] /\ UNCHANGED snapshot
  BY OverviewFinds DEF Ask, ToolsListed, ListingFails
<1>1. \A p \in Requests \ {r} : reading'[p] = reading[p]
  BY <1>0 DEF Ask, ToolsListed, ListingFails
<1>2. reading'[r].pc \in {"waiting", "listed", "failed"}
  <2>1. CASE Ask(r)
    <3>1. reading'[r] = [NotReading EXCEPT !.pc = "waiting"]
      BY <1>0, <2>1 DEF Ask
    <3> QED
      BY <3>1 DEF NotReading
  <2>2. CASE ToolsListed(r)
    <3>1. reading' = [reading EXCEPT ![r] = [reading[r] EXCEPT !.pc = "listed", !.seen = policy]]
      BY <1>0, <2>2 DEF ToolsListed
    <3>2. reading'[r] = [reading[r] EXCEPT !.pc = "listed", !.seen = policy]
      BY <1>0, <3>1
    <3> QED
      BY <1>0, <3>2 DEF ReadingType
  <2>3. CASE ListingFails(r)
    <3>1. reading' = [reading EXCEPT ![r] = [reading[r] EXCEPT !.pc = "failed", !.until = now]]
      BY <1>0, <2>3 DEF ListingFails
    <3>2. reading'[r] = [reading[r] EXCEPT !.pc = "failed", !.until = now]
      BY <1>0, <3>1
    <3> QED
      BY <1>0, <3>2 DEF ReadingType
  <2> QED
    BY <2>1, <2>2, <2>3
<1>3. Paced(reading'[r], now) /\ reading'[r].pc # "served"
  BY <1>2 DEF Paced
<1> QED
  BY <1>0, <1>1, <1>3, YoungMoves DEF Young

\* A handler that starts a collection is within its rounds.
LEMMA BuildYoung ==
  ASSUME OverviewInv, now \in Instants, Young, now' = now,
         at_work = "overview", at_work' = at_work, NEW r \in Requests,
         Rebuild(r) \/ Remember(r)
  PROVE  Young'
<1>0. /\ reading \in [Requests -> ReadingType] /\ reading[r] \in ReadingType
      /\ registry \in [known : BOOLEAN, tools : SUBSET Signals]
      /\ UNCHANGED snapshot
  BY OverviewFinds DEF Rebuild, Remember
<1>1. \A p \in Requests \ {r} : reading'[p] = reading[p]
  BY <1>0 DEF Rebuild, Remember
<1>2. \/ \E tools \in SUBSET Signals : reading'[r] = Collecting(reading[r], tools)
      \/ reading'[r] = [reading[r] EXCEPT !.pc = "asking", !.until = now + ToolTimeout]
  <2>1. CASE Rebuild(r) /\ registry.known
    <3>1. reading'[r] = Collecting(reading[r], registry.tools)
      BY <1>0, <2>1 DEF Rebuild
    <3> QED
      BY <1>0, <3>1
  <2>2. CASE Rebuild(r) /\ ~registry.known
    <3>1. reading' = [reading EXCEPT ![r] =
                        [reading[r] EXCEPT !.pc = "asking", !.until = now + ToolTimeout]]
      BY <2>2 DEF Rebuild
    <3>2. reading'[r] = [reading[r] EXCEPT !.pc = "asking", !.until = now + ToolTimeout]
      BY <1>0, <3>1, Zenon
    <3> QED
      BY <3>2
  <2>3. CASE Remember(r)
    <3>1. reading'[r] = Collecting(reading[r], reading[r].seen)
      BY <1>0, <2>3 DEF Remember
    <3>2. reading[r].seen \in SUBSET Signals
      BY <1>0 DEF ReadingType
    <3> QED
      BY <3>1, <3>2
  <2> QED
    BY <2>1, <2>2, <2>3
<1>3. Paced(reading'[r], now) /\ reading'[r].pc # "served"
  <2>1. ASSUME NEW tools \in SUBSET Signals, reading'[r] = Collecting(reading[r], tools)
        PROVE  Paced(reading'[r], now) /\ reading'[r].pc # "served"
    <3>1. Paced(Collecting(reading[r], tools), now)
      BY <1>0, CollectionBegins
    <3>2. Collecting(reading[r], tools).pc = "collecting"
      BY <1>0, CollectingHandler
    <3> QED
      BY <2>1, <3>1, <3>2
  <2>2. CASE reading'[r] = [reading[r] EXCEPT !.pc = "asking", !.until = now + ToolTimeout]
    <3>1. reading'[r].pc = "asking"
      BY <1>0, <2>2 DEF ReadingType
    <3> QED
      BY <3>1 DEF Paced
  <2> QED
    BY <1>2, <2>1, <2>2
<1> QED
  BY <1>0, <1>1, <1>3, YoungMoves DEF Young

\* A call that starts or ends keeps its collection within its rounds.
LEMMA SignalYoung ==
  ASSUME OverviewInv, now \in Instants, Young, now' = now,
         at_work = "overview", at_work' = at_work, NEW r \in Requests, NEW s \in Signals,
         StartCall(r, s) \/ \E outcome \in Outcomes : Answered(r, s, outcome)
  PROVE  Young'
<1>0. /\ reading \in [Requests -> ReadingType] /\ reading[r] \in ReadingType /\ now \in Nat
      /\ UNCHANGED snapshot /\ Orderly(reading[r])
      /\ reading[r].calls[s].state \in {"queued", "running"}
  <2>1. now \in Nat
    BY DEF Instants
  <2>2. UNCHANGED snapshot /\ reading[r].calls[s].state \in {"queued", "running"}
    BY DEF StartCall, Answered, InState
  <2> QED
    BY <2>1, <2>2, OverviewFinds
<1>1. reading[r].pc = "collecting"
  BY <1>0 DEF Orderly
<1>2. PICK signal \in SignalType, oldest \in Nat : Changes(r, s, signal, oldest)
  BY <1>0, SignalChanges
<1>3. PICK b \in Nat : Within(reading[r], now, b) /\ RoundsFull(reading[r], now, b)
  BY <1>1 DEF Young, Paced
<1>4. Within(reading'[r], now, b) /\ RoundsFull(reading'[r], now, b)
  BY <1>0, <1>2, <1>3, SignalPaces
<1>5. /\ reading'[r] = [reading[r] EXCEPT !.calls = [reading[r].calls EXCEPT ![s] = signal],
                                           !.oldest = oldest]
      /\ \A p \in Requests \ {r} : reading'[p] = reading[p]
  BY <1>0, <1>2 DEF Changes
<1>6. reading'[r].pc = "collecting"
  BY <1>0, <1>1, <1>5 DEF ReadingType
<1>7. Paced(reading'[r], now) /\ reading'[r].pc # "served"
  BY <1>4, <1>6 DEF Paced
<1> QED
  BY <1>0, <1>5, <1>7, YoungMoves DEF Young

\* What is served is as young as its snapshot, or its collection, promises.
LEMMA ServeYoung ==
  ASSUME OverviewInv, now \in Instants, Young, now' = now,
         at_work = "overview", at_work' = at_work, NEW r \in Requests,
         Serve(r) \/ Store(r)
  PROVE  Young'
<1>0. /\ reading \in [Requests -> ReadingType] /\ reading[r] \in ReadingType /\ now \in Nat
      /\ snapshot \in SnapshotType /\ snapshot.oldest <= now
      /\ MaxAge \in Nat \ {0} /\ Rounds * ToolTimeout \in Nat
  BY OverviewFinds, OverviewAssumption, RoundsSuffice DEF Instants
<1>1. ASSUME NEW age \in Nat, age < MaxAge + Rounds * ToolTimeout,
             reading' = [reading EXCEPT ![r] = Served(age)],
             snapshot'.taken =>
               snapshot'.expires <= snapshot'.oldest + Rounds * ToolTimeout + MaxAge
      PROVE  Young'
  <2>1. reading'[r] = Served(age) /\ \A p \in Requests \ {r} : reading'[p] = reading[p]
    BY <1>0, <1>1
  <2>2. Served(age).pc = "served" /\ Served(age).age = age
    BY DEF Served, NotReading
  <2>3. Paced(reading'[r], now)
    BY <2>1, <2>2 DEF Paced
  <2> QED
    BY <1>1, <2>1, <2>2, <2>3, YoungMoves
<1>2. CASE Serve(r)
  <2>1. /\ snapshot.taken /\ now < snapshot.expires /\ UNCHANGED snapshot
        /\ reading' = [reading EXCEPT ![r] = Served(now - snapshot.oldest)]
    BY <1>2 DEF Serve, Fresh
  <2>2. snapshot.expires <= snapshot.oldest + Rounds * ToolTimeout + MaxAge
    BY <2>1 DEF Young
  <2>3. /\ now - snapshot.oldest \in Nat
        /\ now - snapshot.oldest < MaxAge + Rounds * ToolTimeout
    BY <1>0, <2>1, <2>2 DEF SnapshotType
  <2> QED
    BY <1>1, <2>1, <2>2, <2>3
<1>3. CASE Store(r)
  <2>1. PICK b \in Nat : Within(reading[r], now, b)
    BY <1>3 DEF Young, Paced, Store
  <2>2. PICK oldest \in Nat : /\ oldest = Earlier(reading[r].oldest, now)
                              /\ oldest <= now /\ now <= oldest + Rounds * ToolTimeout
    BY <1>0, <2>1 DEF Within, Earlier, ReadingType
  <2>3. /\ snapshot' = [taken |-> TRUE, oldest |-> oldest, expires |-> now + MaxAge,
                        health |-> Health(r)]
        /\ reading' = [reading EXCEPT ![r] = Served(now - oldest)]
    BY <1>3, <2>2 DEF Store
  <2>4. snapshot'.expires <= snapshot'.oldest + Rounds * ToolTimeout + MaxAge
    BY <1>0, <2>2, <2>3
  <2>5. now - oldest \in Nat /\ now - oldest < MaxAge + Rounds * ToolTimeout
    BY <1>0, <2>2
  <2> QED
    BY <1>1, <2>3, <2>4, <2>5
<1> QED
  BY <1>2, <1>3

\* Nothing is served before the first handler asks.
LEMMA YoungStarts ==
  ASSUME OverviewInit
  PROVE  Young
<1>1. \A r \in Requests : reading[r].pc = "idle"
  BY QuietHandlers DEF OverviewInit
<1>2. ~snapshot.taken
  BY DEF OverviewInit, NoSnapshot
<1> QED
  BY <1>1, <1>2 DEF Young, Paced, ServedFresh

\* Handlers that are left alone stay as they are.
LEMMA YoungRests ==
  ASSUME Young, UNCHANGED <<now, at_work, snapshot, reading>>
  PROVE  Young'
  BY DEF Young, Paced, Within, RoundsFull, RunningOf, Queued, Settled, ServedFresh, Rounds

-----------------------------------------------------------------------------
(* What holds of every behaviour. *)

ReadsInv ==
  now \in Instants /\ at_work \in Parts
  /\ OverviewInv /\ ApplicationInv /\ DecisionInv /\ PageInv

\* Every part starts with its invariant.
LEMMA ReadsStart ==
  ASSUME ReadsInit
  PROVE  ReadsInv
<1>1. /\ now = 0 /\ now \in Instants /\ now \in Nat /\ at_work \in Parts
      /\ OverviewInit /\ ApplicationInit /\ DecisionInit /\ DashboardInit
  BY HorizonAssumption DEF ReadsInit, Instants
<1> QED
  BY <1>1, OverviewStarts, ApplicationStarts, DecisionStarts, PageStarts DEF ReadsInv

\* Every step keeps the invariants and the operator's selection.
LEMMA ReadsStep ==
  ASSUME ReadsInv, [ReadsNext]_readsVars
  PROVE  ReadsInv' /\ KeepsSelection
<1>0. /\ now \in Nat /\ now \in Instants /\ at_work \in Parts /\ OverviewInv /\ ApplicationInv
      /\ DecisionInv /\ PageInv
  BY DEF ReadsInv, Instants
<1>1. CASE Tick \/ UNCHANGED readsVars
  <2>1. /\ UNCHANGED <<at_work, overviewVars, applicationVars, decisionVars, dashboardVars>>
        /\ now' \in Nat /\ now' \in Instants /\ now <= now'
    BY <1>0, <1>1, HorizonAssumption DEF Tick, readsVars, Instants
  <2> QED
    BY <1>0, <2>1, OverviewRests, ApplicationRests, DecisionRests, PageRests DEF ReadsInv
<1>2. CASE OverviewNext /\ OverviewOnly
  <2>1. UNCHANGED <<at_work, now, applicationVars, decisionVars, dashboardVars>> /\ OverviewNext
    BY <1>2 DEF OverviewOnly
  <2> QED
    BY <1>0, <2>1, OverviewNextStep, ApplicationRests, DecisionRests, PageRests DEF ReadsInv
<1>3. CASE ApplicationNext /\ ApplicationOnly
  <2>1. UNCHANGED <<at_work, now, overviewVars, decisionVars, dashboardVars>> /\ ApplicationNext
    BY <1>3 DEF ApplicationOnly
  <2> QED
    BY <1>0, <2>1, OverviewRests, ApplicationNextStep, DecisionRests, PageRests DEF ReadsInv
<1>4. CASE DecisionNext /\ DecisionsOnly
  <2>1. UNCHANGED <<at_work, now, overviewVars, applicationVars, dashboardVars>> /\ DecisionNext
    BY <1>4 DEF DecisionsOnly
  <2> QED
    BY <1>0, <2>1, OverviewRests, ApplicationRests, DecisionStep, PageRests DEF ReadsInv
<1>5. CASE DashboardNext /\ PageOnly
  <2>1. UNCHANGED <<at_work, now, overviewVars, applicationVars, decisionVars>> /\ DashboardNext
    BY <1>5 DEF PageOnly
  <2> QED
    BY <1>0, <2>1, OverviewRests, ApplicationRests, DecisionRests, PageStep DEF ReadsInv
<1> QED
  BY <1>1, <1>2, <1>3, <1>4, <1>5 DEF ReadsNext

\* Every step keeps them young.
LEMMA YoungStep ==
  ASSUME ReadsInv, Young, [ReadsNext]_readsVars
  PROVE  Young'
<1>0. now \in Instants /\ now \in Nat /\ OverviewInv
  BY DEF ReadsInv, Instants
<1>1. CASE UNCHANGED readsVars \/ ApplicationOnly \/ DecisionsOnly \/ PageOnly
  <2>1. UNCHANGED <<now, at_work, snapshot, reading>>
    BY <1>1 DEF readsVars, overviewVars, ApplicationOnly, DecisionsOnly, PageOnly
  <2> QED
    BY <2>1, YoungRests
<1>2. CASE Tick
  <2>1. /\ now' = now + 1 /\ UNCHANGED <<at_work, snapshot, reading>>
        /\ at_work = "overview" => OverviewBlocks
    BY <1>2 DEF Tick, overviewVars
  <2>2. ASSUME NEW r \in Requests
        PROVE  Paced(reading[r], now')
    <3>1. CASE reading[r].pc = "collecting"
      <4>1. OverviewBlocks
        BY <2>1, <3>1 DEF Young
      <4>2. PICK b \in Nat : Within(reading[r], now, b) /\ RoundsFull(reading[r], now, b)
        BY <3>1 DEF Young, Paced
      <4>3. Within(reading[r], now', b) /\ RoundsFull(reading[r], now', b)
        BY <1>0, <2>1, <3>1, <4>1, <4>2, TimePaces
      <4> QED
        BY <4>3 DEF Paced
    <3>2. CASE reading[r].pc # "collecting"
      BY <3>2 DEF Paced
    <3> QED
      BY <3>1, <3>2
  <2>3. \A r \in Requests : Paced(reading[r], now)' <=> Paced(reading[r], now')
    BY <2>1 DEF Paced, Within, RoundsFull, RunningOf, Queued, Settled
  <2>4. Rounds' = Rounds
    BY DEF Rounds
  <2> QED
    BY <2>1, <2>2, <2>3, <2>4 DEF Young, ServedFresh
<1>3. CASE at_work = "overview" /\ OverviewNext /\ OverviewOnly
  <2>1. now' = now /\ at_work' = at_work /\ at_work = "overview" /\ OverviewNext
    BY <1>3 DEF OverviewOnly
  <2>2. CASE Regrant
    BY <2>1, <2>2, YoungRests DEF Regrant
  <2>3. ASSUME NEW r \in Requests,
               Ask(r) \/ Serve(r) \/ Rebuild(r) \/ ToolsListed(r) \/ Remember(r)
               \/ ListingFails(r) \/ Store(r)
        PROVE  Young'
    BY <1>0, <2>1, <2>3, QuietYoung, BuildYoung, ServeYoung
  <2>4. ASSUME NEW r \in Requests, NEW s \in Signals,
               StartCall(r, s) \/ \E outcome \in Outcomes : Answered(r, s, outcome)
        PROVE  Young'
    BY <1>0, <2>1, <2>4, SignalYoung
  <2> QED
    BY <2>1, <2>2, <2>3, <2>4 DEF OverviewNext, OverviewStep
<1> QED
  BY <1>1, <1>2, <1>3 DEF ReadsNext

\* Every step keeps the prompts within their budgets.
LEMMA ReadsPrompts ==
  ASSUME ReadsInv, PromptWithinBudget, [ReadsNext]_readsVars
  PROVE  PromptWithinBudget'
<1>1. now \in Nat /\ DecisionInv
  BY DEF ReadsInv, Instants
<1>2. CASE UNCHANGED decisionVars
  BY <1>2 DEF decisionVars, PromptWithinBudget
<1>3. CASE DecisionNext
  BY <1>1, <1>3, PromptStep
<1>4. UNCHANGED decisionVars \/ DecisionNext
  BY DEF ReadsNext, readsVars, Tick, OverviewOnly, ApplicationOnly, PageOnly
<1> QED
  BY <1>2, <1>3, <1>4

\* The specification without its fairness, which no invariant rests on.
LEMMA ReadsSafety ==
  ReadsSpec => ReadsInit /\ [][ReadsNext]_readsVars
  BY DEF ReadsSpec

\* The invariant holds in every reachable state.
THEOREM ReadsInvariance == ReadsSpec => []ReadsInv
<1>1. ReadsInit => ReadsInv
  BY ReadsStart
<1>2. ReadsInv /\ [ReadsNext]_readsVars => ReadsInv'
  BY ReadsStep
<1> QED
  BY <1>1, <1>2, ReadsSafety, PTL

\* Every handler, snapshot, check, counter and request of the page keeps its
\* type, the sizes of prompts among them.
THEOREM ReadsTyping == ReadsSpec => []TypeOK
<1>1. ReadsInv => TypeOK
  BY DEF ReadsInv, TypeOK, OverviewInv, ApplicationInv, DecisionInv, PageInv
<1> QED
  BY <1>1, ReadsInvariance, PTL

\* One build of the overview at a time is at the gateway (overview.py).
THEOREM OneBuild == ReadsSpec => []CallsBounded
<1>1. ReadsInv => CallsBounded
  BY OneBuilder DEF ReadsInv
<1> QED
  BY <1>1, ReadsInvariance, PTL

\* No operator is shown a signal older than the cache and the rounds of one
\* collection allow, whoever asked before him (overview.py).
THEOREM FreshOverview == ReadsSpec => []ServedFresh
<1>1. ReadsInit => Young
  BY YoungStarts DEF ReadsInit
<1>2. ReadsInv /\ Young /\ [ReadsNext]_readsVars => Young'
  BY YoungStep
<1>3. Young => ServedFresh
  BY DEF Young
<1> QED
  BY <1>1, <1>2, <1>3, ReadsInvariance, ReadsSafety, PTL

\* A healthy application has healthy dependencies, whatever the shape of the
\* topology (application_health.py).
THEOREM ThoroughHealth == ReadsSpec => []HealthyThroughout
<1>1. ReadsInv => HealthyThroughout
  BY HealthIsThorough DEF ReadsInv
<1> QED
  BY <1>1, ReadsInvariance, PTL

\* The counters of the provider agree with its calls at every instant (llm.py).
THEOREM CountersAgree == ReadsSpec => []MetricsAgree
<1>1. ReadsInv => MetricsAgree
  BY DEF ReadsInv, DecisionInv
<1> QED
  BY <1>1, ReadsInvariance, PTL

\* No context is lost to the last exception of its compaction, and the local
\* model is sent no request beyond its window but for what a repair quotes, for
\* any observations (context.py, llm.py).
THEOREM PromptsFit == ReadsSpec => []PromptWithinBudget
<1>1. ReadsInit => PromptWithinBudget
  BY PromptStarts DEF ReadsInit
<1>2. ReadsInv /\ PromptWithinBudget /\ [ReadsNext]_readsVars => PromptWithinBudget'
  BY ReadsPrompts
<1> QED
  BY <1>1, <1>2, ReadsInvariance, ReadsSafety, PTL

\* The answer of a poll replaces no other incident (page.tsx).
THEOREM SelectionKept == ReadsSpec => PollKeepsSelection
<1>1. ReadsInv /\ [ReadsNext]_readsVars =>
        [\A q \in Slots :
           /\ flight[q].pc = "read" /\ flight[q].kind = "poll" /\ flight'[q].pc = "free"
           /\ page.mounted = page.incident
           => page'.incident = page.incident]_dashboardVars
  BY ReadsStep DEF KeepsSelection
<1> QED
  BY <1>1, ReadsInvariance, ReadsSafety, PTL DEF PollKeepsSelection
=============================================================================

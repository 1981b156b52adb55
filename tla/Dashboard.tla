----------------------------- MODULE Dashboard -----------------------------
(***************************************************************************)
(* The operator's page: the incident it shows, a copy of the server's that  *)
(* is polled for, fetched and posted by requests whose answers come in any  *)
(* order.  An incident is abstracted to a version, which every change of it *)
(* raises.                                                                  *)
(***************************************************************************)
EXTENDS Integers

CONSTANTS
  Incidents,
  Nothing,      \* no incident is shown
  Slots,        \* bound of the model on requests in flight
  MaxVersion    \* bound of the model on the changes of an incident

ASSUME DashboardAssumption ==
  Nothing \notin Incidents /\ MaxVersion \in Nat \ {0}

VARIABLES
  server,   \* the version of each incident, 0 before it is created
  page,     \* the state of the page, and the incident whose effect is mounted
  flight    \* its requests

dashboardVars == <<server, page, flight>>

Versions == 0..MaxVersion
NoRequestYet == [pc |-> "free", kind |-> "poll", target |-> Nothing, live |-> FALSE,
                 version |-> 0]

DashboardTypeOK ==
  /\ server \in [Incidents -> Versions]
  /\ page \in [incident : Incidents \cup {Nothing}, version : Versions,
               mounted : Incidents \cup {Nothing}]
  /\ flight \in [Slots -> [pc : {"free", "creating", "posting", "asked", "read"},
                           kind : {"poll", "open", "operate", "create"},
                           target : Incidents \cup {Nothing}, live : BOOLEAN,
                           version : Versions]]

DashboardInit ==
  /\ server \in [Incidents -> {0, 1}]
  /\ page = [incident |-> Nothing, version |-> 0, mounted |-> Nothing]
  /\ flight = [q \in Slots |-> NoRequestYet]

-----------------------------------------------------------------------------
\* api: fetch, up to its await.
Request(q, pc, kind, target) ==
  /\ flight[q].pc = "free"
  /\ flight' = [flight EXCEPT ![q] =
       [NoRequestYet EXCEPT !.pc = pc, !.kind = kind, !.target = target,
                            !.live = (kind = "poll")]]

Free(q) == [flight EXCEPT ![q] = NoRequestYet]

\* The investigation, or another operator.
ServerMoves(i) ==
  /\ server[i] \in 1..(MaxVersion - 1)
  /\ server' = [server EXCEPT ![i] = @ + 1]
  /\ UNCHANGED <<page, flight>>

\* setSelected.
Select(i, version) == page' = [page EXCEPT !.incident = i, !.version = version]

\* The page is rendered with another incident: the effect of the last one is
\* cleaned up, and with it what its polls may do.
Unmounted(requests) == [q \in Slots |-> [requests[q] EXCEPT !.live = FALSE]]

Render ==
  /\ page.mounted # page.incident
  /\ page' = [page EXCEPT !.mounted = page.incident]
  /\ flight' = Unmounted(flight)
  /\ UNCHANGED server

\* A click is rendered before anything else happens.
Navigate ==
  /\ page.incident # Nothing
  /\ page' = [page EXCEPT !.incident = Nothing, !.version = 0, !.mounted = Nothing]
  /\ flight' = Unmounted(flight)
  /\ UNCHANGED server

\* The timer, and a click on a row of the history, on an action, on Create.
Poll(q) ==
  /\ page.mounted # Nothing
  /\ Request(q, "asked", "poll", page.mounted)
  /\ UNCHANGED <<server, page>>

Open(q, i) ==
  /\ server[i] > 0
  /\ Request(q, "asked", "open", i) /\ UNCHANGED <<server, page>>

\* The incident that the handler closed over.
Operate(q) ==
  /\ page.mounted # Nothing /\ page.mounted = page.incident
  /\ Request(q, "posting", "operate", page.incident) /\ UNCHANGED <<server, page>>

Create(q, i) ==
  /\ server[i] = 0
  /\ Request(q, "creating", "create", i) /\ UNCHANGED <<server, page>>

\* POST /incidents is answered and shown, and its investigation asked for.
Created(q) ==
  /\ flight[q].pc = "creating" /\ server[flight[q].target] = 0
  /\ server' = [server EXCEPT ![flight[q].target] = 1]
  /\ Select(flight[q].target, 1)
  /\ flight' = [flight EXCEPT ![q].pc = "posting"]

\* The server acts on the POST, or changes nothing; then the incident is fetched.
Posted(q) ==
  /\ flight[q].pc = "posting"
  /\ \/ UNCHANGED server
     \/ server' = [server EXCEPT ![flight[q].target] = IF @ < MaxVersion THEN @ + 1 ELSE @]
  /\ flight' = [flight EXCEPT ![q].pc = "asked"]
  /\ UNCHANGED page

\* The server reads what it answers.
Answers(q) ==
  /\ flight[q].pc = "asked"
  /\ flight' = [flight EXCEPT ![q].pc = "read", ![q].version = server[flight[q].target]]
  /\ UNCHANGED <<server, page>>

\* Mutant of PollShown: the polls of the last incident are not told apart.
PollShownAlways(q) == Select(flight[q].target, flight[q].version)

PollShown(q) ==
  IF flight[q].live THEN Select(flight[q].target, flight[q].version) ELSE UNCHANGED page

\* The answer arrives.
Shown(q) ==
  /\ flight[q].pc = "read"
  /\ IF flight[q].kind = "poll" THEN PollShown(q)
     ELSE Select(flight[q].target, flight[q].version)
  /\ flight' = Free(q)
  /\ UNCHANGED server

\* An exception is shown and nothing else, whatever the server has done of it.
RequestFails(q) ==
  /\ flight[q].pc \in {"creating", "posting", "asked"}
  /\ flight' = Free(q)
  /\ \/ UNCHANGED server
     \/ /\ flight[q].pc = "creating" /\ server[flight[q].target] = 0
        /\ server' = [server EXCEPT ![flight[q].target] = 1]
  /\ UNCHANGED page

Progresses(q) == Created(q) \/ Posted(q) \/ Answers(q) \/ Shown(q) \/ RequestFails(q)

DashboardNext ==
  \/ Render \/ Navigate
  \/ \E i \in Incidents : ServerMoves(i)
  \/ \E q \in Slots :
       \/ Poll(q) \/ Operate(q) \/ Progresses(q)
       \/ \E i \in Incidents : Open(q, i) \/ Create(q, i)

\* The browser renders and its timer goes on; a request is answered or fails, and
\* the polls do not all fail.
DashboardFairness ==
  /\ WF_dashboardVars(Render)
  /\ \A q \in Slots :
       /\ SF_dashboardVars(Poll(q))
       /\ SF_dashboardVars(flight[q].kind = "poll" /\ Answers(q))
       /\ WF_dashboardVars(Progresses(q))

-----------------------------------------------------------------------------
(* Properties. *)

\* The answer of a poll, however late, replaces no other incident than the one
\* it was asked for: unless the browser has yet to render the newer one, the
\* operator is not taken back to what he left, nor off the page he is on.
PollKeepsSelection ==
  [][\A q \in Slots :
       /\ flight[q].pc = "read" /\ flight[q].kind = "poll" /\ flight'[q].pc = "free"
       /\ page.mounted = page.incident
       => page'.incident = page.incident]_dashboardVars

\* Either the incident goes on changing, or the operator on turning to another,
\* or the page comes to show what the server has, for good.
BecomesCurrent ==
  \/ <>[](page.incident # Nothing => page.version = server[page.incident])
  \/ []<><<server' # server \/ page'.incident # page.incident>>_dashboardVars
=============================================================================

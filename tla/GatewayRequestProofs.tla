------------------------ MODULE GatewayRequestProofs ------------------------
(***************************************************************************)
(* A request of the gateway for every host, network and set of limits: what *)
(* it answers is whole or marked, whom it talks to was vetted, and it is    *)
(* answered in time.                                                        *)
(*                                                                         *)
(* The invariant of the request composes those of run_command, of the Atlas *)
(* probe and of the HTTP probe.  Roles says which of the three a tool has   *)
(* at work: the others neither block the clock nor take steps.              *)
(***************************************************************************)
EXTENDS GatewayRequest, HostCommandProofs, AtlasProbeProofs, HttpProbeProofs

Lookups == {"ping_host", "http_check", "port_check", "dns_lookup"}

Roles ==
  /\ request.pc = "accepted" =>
       cmd.pc = "idle" /\ atlas.pc = "idle" /\ lookup.pc = "idle" /\ http.pc = "idle"
  /\ request.pc = "command" =>
       /\ request.tool \in CommandTools \cup {"container_http", "ping_host"}
       /\ cmd.pc # "idle" /\ atlas.pc = "idle" /\ http.pc = "idle"
       /\ lookup.pc = "returned" \/ (lookup.pc = "idle" /\ request.tool # "ping_host")
       /\ request.tool = "container_http" => lookup.pc = "idle"
  /\ request.pc = "network" =>
       \/ /\ request.tool = "mongodb_atlas_connectivity"
          /\ atlas.pc # "idle" /\ cmd.pc = "idle" /\ lookup.pc = "idle" /\ http.pc = "idle"
       \/ /\ request.tool \in Lookups
          /\ lookup.pc # "idle" /\ cmd.pc = "idle" /\ atlas.pc = "idle"
          /\ http.pc # "idle" => /\ lookup.pc = "returned"
                                 /\ request.tool \in {"http_check", "port_check"}
       \/ /\ request.tool = "container_http"
          /\ http.pc # "idle" /\ cmd.pc = "returned" /\ atlas.pc = "idle"
          /\ lookup.pc = "idle"
  /\ request.pc = "answered" =>
       /\ cmd.pc \in {"idle", "returned"} /\ atlas.pc \in {"idle", "returned"}
       /\ lookup.pc \in {"idle", "returned"} /\ http.pc \in {"idle", "returned"}

\* What the answer is made from: the command of the tool, and nothing before it.
Answers ==
  /\ request.pc = "command" =>
       cmd.checked = Checked(request.tool) \/ (cmd.pc = "returned" /\ cmd.error = "refused")
  /\ request.pc # "answered" => request.answer = NoAnswer
  /\ AnswerIsWhole
  /\ MissingIsAbsent

Pinned ==
  request.tool = "http_check" /\ http.pc # "idle" =>
    Resolved \subseteq SafeDestinations /\ http.address \subseteq Resolved

\* When the current command, or the current connection, is over.
CommandDue ==
  IF request.tool = "ping_host" THEN ResolveLimit + CommandBound(CommandLimit)
  ELSE IF request.step = 1 THEN CommandBound(Limit(request.tool, 1))
  ELSE CommandBound(Limit(request.tool, 1)) + CommandBound(Limit(request.tool, 2))

HttpDue ==
  (IF request.tool = "container_http" THEN CommandBound(CommandLimit) ELSE ResolveLimit)
  + (IF request.tool = "port_check" THEN ConnectLimit ELSE RequestLimit)

Timed ==
  /\ request.step <= Commands(request.tool)
  /\ request.pc = "accepted" => now = 0
  /\ request.pc = "command" => /\ now <= CommandDue
                               /\ cmd.pc # "returned" => cmd.limit <= CommandDue
  /\ lookup.pc = "asking" => lookup.until <= ResolveLimit
  /\ request.pc = "network" /\ request.tool \in Lookups /\ http.pc = "idle" =>
       now <= ResolveLimit
  /\ http.pc # "idle" => /\ http.deadline <= HttpDue
                         /\ request.tool = "port_check" => http.kind = "port"
  /\ atlas.pc # "idle" => atlas.deadline <= AtlasLimit
  /\ request.pc = "answered" => AnsweredInTime

Parts == now \in Instants /\ CommandInv /\ CommandTiming /\ AtlasInv /\ HttpInv

RequestInv == Parts /\ RequestTypeOK /\ Roles /\ Answers /\ Pinned /\ Timed

-----------------------------------------------------------------------------
(* Types and limits. *)

\* What was resolved changes only with the lookup.
LEMMA ResolvedRests == lookup' = lookup => Resolved' = Resolved
  BY DEF Resolved

\* Every limit, and every sum of limits, is a number.
LEMMA LimitTypes ==
  /\ MaxNow \in Nat /\ ResolveLimit \in Nat /\ RequestLimit \in Nat /\ ConnectLimit \in Nat
  /\ TlsFloor \in Nat /\ AtlasLimit \in Nat
  /\ CommandLimit \in Nat /\ RouteLimit \in Nat /\ WriteLimit \in Nat
  /\ CommandBound(CommandLimit) \in Nat /\ CommandBound(RouteLimit) \in Nat
  /\ CommandBound(WriteLimit) \in Nat
  BY HorizonAssumption, CommandAssumption, AtlasAssumption, HttpAssumption, RequestAssumption
  DEF CommandBound

\* The fields of the request, each with its type.
LEMMA RequestTypes ==
  ASSUME RequestTypeOK
  PROVE  /\ request.tool \in Tools /\ request.step \in {1, 2}
         /\ request.pc \in {"accepted", "command", "network", "answered"}
  BY DEF RequestTypeOK

\* The time limit of a command is a number, and its checked flag a boolean.
LEMMA CommandOptions ==
  ASSUME NEW tool \in Tools, NEW step \in 1..2
  PROVE  /\ Limit(tool, step) \in Nat /\ Checked(tool) \in BOOLEAN
         /\ CommandBound(Limit(tool, step)) \in Nat
         /\ CommandBound(Limit(tool, step)) = Limit(tool, step) + MinWait + KillWait
<1>1. Limit(tool, step) \in Nat
  BY LimitTypes DEF Limit
<1> QED
  BY <1>1, CommandAssumption DEF Checked, CommandBound

\* The sum of the limits, tool by tool.
LEMMA BoundOfCommands ==
  ASSUME RequestTypeOK, request.tool \in CommandTools, request.step <= Commands(request.tool),
         now \in Nat, now <= CommandDue
  PROVE  AnsweredInTime
<1>0. /\ CommandBound(CommandLimit) \in Nat /\ CommandBound(RouteLimit) \in Nat
      /\ CommandBound(WriteLimit) \in Nat /\ request.step \in {1, 2}
  BY LimitTypes, RequestTypes
<1>1. CASE request.tool = "route_table"
  BY <1>0, <1>1 DEF AnsweredInTime, RequestBound, CommandDue, Limit
<1>2. CASE request.tool \in Writes
  <2>1. /\ CommandDue = IF request.step = 1 THEN CommandBound(WriteLimit)
                        ELSE CommandBound(WriteLimit) + CommandBound(CommandLimit)
        /\ RequestBound(request.tool) = CommandBound(WriteLimit) + CommandBound(CommandLimit)
    BY <1>2 DEF RequestBound, CommandDue, Limit, Writes
  <2> QED
    BY <1>0, <2>1 DEF AnsweredInTime
<1>3. CASE request.tool \notin Writes /\ request.tool # "route_table"
  <2>1. request.step = 1
    BY <1>0, <1>3 DEF Commands
  <2>2. Limit(request.tool, 1) = CommandLimit
    BY <1>3 DEF Limit
  <2>3. /\ CommandDue = CommandBound(CommandLimit)
        /\ RequestBound(request.tool) = CommandBound(CommandLimit)
    BY <1>3, <2>1, <2>2 DEF RequestBound, CommandDue, CommandTools, Writes
  <2> QED
    BY <1>0, <2>3 DEF AnsweredInTime
<1> QED
  BY <1>1, <1>2, <1>3

\* As long as the invariant holds, no time limit of the request is over.
LEMMA InTime ==
  ASSUME RequestInv
  PROVE  AnsweredInTime
<1>0. /\ ResolveLimit \in Nat /\ RequestLimit \in Nat /\ ConnectLimit \in Nat
      /\ TlsFloor \in Nat /\ AtlasLimit \in Nat /\ CommandBound(CommandLimit) \in Nat
      /\ now \in Nat /\ RequestTypeOK /\ Roles /\ Timed /\ HttpTiming /\ Timing
      /\ http.deadline \in Nat /\ atlas.deadline \in Nat
  BY LimitTypes
  DEF RequestInv, Parts, Instants, HttpInv, AtlasInv, HttpTypeOK, HttpRecords, LookupRecords, AtlasTypeOK, AtlasRecords
<1>1. CASE request.pc = "answered"
  BY <1>0, <1>1 DEF Timed
<1>2. CASE request.pc = "accepted"
  <2>1. now = 0 /\ request.tool \in Tools
    BY <1>0, <1>2, RequestTypes DEF Timed
  <2>2. RequestBound(request.tool) \in Nat
    BY <1>0, <2>1, LimitTypes DEF RequestBound
  <2> QED
    BY <2>1, <2>2 DEF AnsweredInTime
<1>3. CASE request.pc = "command"
  <2>1. now <= CommandDue /\ request.step <= Commands(request.tool)
    BY <1>0, <1>3 DEF Timed
  <2>2. CASE request.tool \in CommandTools
    BY <1>0, <2>1, <2>2, BoundOfCommands
  <2>3. CASE request.tool = "ping_host"
    BY <1>0, <2>1, <2>3 DEF AnsweredInTime, RequestBound, CommandDue, Writes
  <2>4. CASE request.tool = "container_http"
    <3>1. request.step = 1
      BY <1>0, <2>1, <2>4, RequestTypes DEF Commands, Writes
    <3>2. CommandDue = CommandBound(CommandLimit)
      BY <2>4, <3>1 DEF CommandDue, Limit, Writes
    <3>3. RequestBound(request.tool) = CommandBound(CommandLimit) + RequestLimit + TlsFloor
      BY <2>4 DEF RequestBound, Writes
    <3> QED
      BY <1>0, <2>1, <3>2, <3>3 DEF AnsweredInTime
  <2> QED
    BY <1>0, <1>3, <2>2, <2>3, <2>4 DEF Roles
<1>4. CASE request.pc = "network"
  <2>1. CASE atlas.pc # "idle"
    <3>1. now <= AtlasLimit /\ request.tool = "mongodb_atlas_connectivity"
      BY <1>0, <1>4, <2>1 DEF Timed, Timing, AtlasInTime, Roles
    <3> QED
      BY <3>1 DEF AnsweredInTime, RequestBound, Writes
  <2>2. CASE http.pc # "idle"
    <3>1. /\ http.deadline <= HttpDue /\ now <= http.deadline + TlsFloor
          /\ request.tool = "port_check" => now <= http.deadline
          /\ request.tool \in {"http_check", "port_check", "container_http"}
      BY <1>0, <1>4, <2>2 DEF Timed, HttpTiming, Roles
    <3>2. CASE request.tool = "port_check"
      BY <1>0, <3>1, <3>2 DEF AnsweredInTime, RequestBound, HttpDue, Writes
    <3>3. CASE request.tool = "http_check"
      BY <1>0, <3>1, <3>3 DEF AnsweredInTime, RequestBound, HttpDue, Writes
    <3>4. CASE request.tool = "container_http"
      BY <1>0, <3>1, <3>4 DEF AnsweredInTime, RequestBound, HttpDue, Writes
    <3> QED
      BY <3>1, <3>2, <3>3, <3>4
  <2>3. CASE atlas.pc = "idle" /\ http.pc = "idle"
    <3>1. request.tool \in Lookups /\ now <= ResolveLimit
      BY <1>0, <1>4, <2>3 DEF Timed, Roles
    <3>2. /\ RequestBound("ping_host") = ResolveLimit + CommandBound(CommandLimit)
          /\ RequestBound("http_check") = ResolveLimit + RequestLimit + TlsFloor
          /\ RequestBound("port_check") = ResolveLimit + ConnectLimit
          /\ RequestBound("dns_lookup") = ResolveLimit
      BY DEF RequestBound, Writes
    <3> QED
      BY <1>0, <3>1, <3>2 DEF AnsweredInTime, Lookups
  <2> QED
    BY <2>1, <2>2, <2>3
<1> QED
  BY <1>0, <1>1, <1>2, <1>3, <1>4, RequestTypes

-----------------------------------------------------------------------------
(* The steps of the handler. *)

\* A request that was accepted, and nothing else.
LEMMA RequestStarts ==
  ASSUME RequestInit
  PROVE  RequestInv
<1>1. /\ now = 0 /\ CommandInit /\ AtlasInit /\ HttpInit
      /\ \E tool \in Tools : request = [tool |-> tool, pc |-> "accepted", step |-> 1,
                                       answer |-> NoAnswer]
  BY DEF RequestInit
<1>2. /\ CommandInv /\ AtlasInv /\ HttpInv
      /\ cmd.pc = "idle" /\ atlas.pc = "idle" /\ lookup.pc = "idle" /\ http.pc = "idle"
  BY <1>1, CommandInitially, AtlasInitially, HttpInitially DEF CommandInit, Idle
<1>3. Parts
  BY <1>1, <1>2, LimitTypes DEF Parts, Instants, CommandTiming
<1>4. NoAnswer \in [ok : BOOLEAN, truncated : BOOLEAN, rows : Nat, missing : SUBSET Containers]
      /\ NoAnswer.missing = {}
  BY DEF NoAnswer
<1>5. RequestTypeOK
  BY <1>1, <1>4 DEF RequestTypeOK
<1>6. /\ request.pc = "accepted" /\ request.answer = NoAnswer /\ request.step = 1
  BY <1>1
<1>7. Roles
  BY <1>2, <1>6 DEF Roles
<1>8. Answers
  BY <1>4, <1>6 DEF Answers, AnswerIsWhole, MissingIsAbsent
<1>9. Pinned /\ Timed
  BY <1>1, <1>2, <1>6 DEF Pinned, Timed, Commands
<1> QED
  BY <1>3, <1>5, <1>7, <1>8, <1>9 DEF RequestInv

\* What the three parts hold is not touched by the handler's own steps.
LEMMA PartsRest ==
  ASSUME Parts, UNCHANGED <<now, commandVars, atlasVars, httpVars>>
  PROVE  Parts' /\ cmd' = cmd /\ child' = child /\ atlas' = atlas
         /\ lookup' = lookup /\ http' = http
<1>1. /\ now' = now /\ cmd' = cmd /\ child' = child /\ atlas' = atlas
      /\ lookup' = lookup /\ http' = http
  BY DEF commandVars, atlasVars, httpVars
<1>2. CommandInv' /\ AtlasInv' /\ HttpInv'
  BY <1>1, CommandRests, AtlasRests, HttpRests DEF Parts
<1> QED
  BY <1>1, <1>2 DEF Parts, CommandTiming

\* The request is answered when all its calls have returned.
LEMMA AnswerStep ==
  ASSUME RequestInv, UNCHANGED <<now, commandVars, atlasVars, httpVars>>,
         request.pc # "answered", NEW answer, Answer(answer),
         answer \in [ok : BOOLEAN, truncated : BOOLEAN, rows : Nat, missing : SUBSET Containers],
         cmd.pc \in {"idle", "returned"}, atlas.pc \in {"idle", "returned"},
         lookup.pc \in {"idle", "returned"}, http.pc \in {"idle", "returned"},
         answer.missing \cap child.script.rows = {},
         /\ request.tool \in CommandTools \ Unmarked
         /\ answer.ok /\ ~answer.truncated /\ child.script.code = 0
         => answer.rows = Listed(request.tool, Cardinality(child.script.rows))
  PROVE  RequestInv'
<1>1. request' = [request EXCEPT !.pc = "answered", !.answer = answer]
  BY DEF Answer
<1>2. /\ now' = now /\ cmd' = cmd /\ child' = child /\ atlas' = atlas
      /\ lookup' = lookup /\ http' = http /\ Parts'
  BY PartsRest DEF RequestInv
<1>3. /\ request'.pc = "answered" /\ request'.answer = answer
      /\ request'.tool = request.tool /\ request'.step = request.step
  BY <1>1 DEF RequestInv, RequestTypeOK
<1>4. RequestTypeOK'
  BY <1>1 DEF RequestInv, RequestTypeOK
<1>5. Roles'
  BY <1>2, <1>3 DEF Roles
<1>6. Answers'
  BY <1>2, <1>3 DEF Answers, AnswerIsWhole, MissingIsAbsent
<1>7. Pinned'
  BY <1>2, <1>3, ResolvedRests DEF RequestInv, Pinned
<1>8. AnsweredInTime'
  BY <1>2, <1>3, InTime DEF AnsweredInTime
<1>9. HttpDue' = HttpDue
  BY <1>3 DEF HttpDue
<1>10. Timed'
  BY <1>2, <1>3, <1>8, <1>9 DEF RequestInv, Timed
<1> QED
  BY <1>2, <1>4, <1>5, <1>6, <1>7, <1>10 DEF RequestInv

\* The next command of the tool starts in time.
LEMMA RunStep ==
  ASSUME RequestInv, NEW step \in 1..2, RunCommand(step), UNCHANGED <<now, atlasVars, httpVars>>,
         request.pc # "answered", step <= Commands(request.tool),
         request.tool \in CommandTools \cup {"container_http", "ping_host"},
         atlas.pc = "idle", http.pc = "idle",
         lookup.pc = "returned" \/ (lookup.pc = "idle" /\ request.tool # "ping_host"),
         request.tool = "container_http" => lookup.pc = "idle",
         request.tool = "ping_host" => now <= ResolveLimit,
         request.tool # "ping_host" /\ step = 1 => now = 0,
         request.tool # "ping_host" /\ step = 2 => now <= CommandBound(Limit(request.tool, 1))
  PROVE  RequestInv'
<1>0. /\ request' = [request EXCEPT !.pc = "command", !.step = step]
      /\ now' = now /\ now \in Nat /\ atlas' = atlas /\ lookup' = lookup /\ http' = http
      /\ request.tool \in Tools
  BY RequestTypes
  DEF RunCommand, atlasVars, httpVars, RequestInv, Parts, Instants
<1>1. PICK timeout \in Nat, checked \in BOOLEAN :
        timeout = Limit(request.tool, step) /\ checked = Checked(request.tool)
  BY <1>0, CommandOptions
<1>2. CommandStart(timeout, checked)
  BY <1>1 DEF RunCommand
<1>3. Parts'
  <2>1. CommandInv' /\ CommandTiming'
    BY <1>0, <1>2, CommandStarts, CommandStartTimes
  <2>2. AtlasInv' /\ HttpInv'
    BY <1>0, AtlasRests, HttpRests DEF RequestInv, Parts
  <2> QED
    BY <1>0, <2>1, <2>2 DEF RequestInv, Parts
<1>4. \/ /\ cmd'.pc = "reading" /\ cmd'.checked = checked
         /\ cmd'.limit = now + timeout + MinWait + KillWait
      \/ cmd'.pc = "returned" /\ cmd'.error = "refused"
  BY <1>0, <1>2, CommandStartTimes
<1>5. /\ request'.pc = "command" /\ request'.step = step /\ request'.tool = request.tool
      /\ request'.answer = request.answer
  BY <1>0 DEF RequestInv, RequestTypeOK
<1>6. RequestTypeOK'
  BY <1>0 DEF RequestInv, RequestTypeOK
<1>7. Roles'
  BY <1>0, <1>4, <1>5 DEF Roles
<1>8. Answers'
  <2>1. request'.answer = NoAnswer /\ NoAnswer.missing = {}
    BY <1>5 DEF RequestInv, Answers, NoAnswer
  <2>2. cmd'.checked = Checked(request'.tool) \/ (cmd'.pc = "returned" /\ cmd'.error = "refused")
    BY <1>1, <1>4, <1>5
  <2> QED
    BY <1>5, <2>1, <2>2 DEF Answers, AnswerIsWhole, MissingIsAbsent
<1>9. Pinned'
  BY <1>0 DEF Pinned
<1>10. now + timeout + MinWait + KillWait <= CommandDue' /\ now <= CommandDue'
  <2>0. /\ CommandBound(Limit(request.tool, step)) = timeout + MinWait + KillWait
        /\ MinWait \in Nat /\ KillWait \in Nat /\ ResolveLimit \in Nat
        /\ CommandBound(Limit(request.tool, 1)) \in Nat
    BY <1>0, <1>1, CommandOptions, CommandAssumption, LimitTypes
  <2>1. CASE request.tool = "ping_host"
    <3>1. CommandBound(CommandLimit) = timeout + MinWait + KillWait
      BY <1>1, <2>0, <2>1 DEF Limit, Writes
    <3>2. CommandDue' = ResolveLimit + CommandBound(CommandLimit)
      BY <1>5, <2>1 DEF CommandDue
    <3> QED
      BY <1>0, <2>0, <2>1, <3>1, <3>2
  <2>2. CASE request.tool # "ping_host" /\ step = 1
    <3>1. CommandDue' = CommandBound(Limit(request.tool, 1))
      BY <1>5, <2>2 DEF CommandDue
    <3> QED
      BY <1>0, <2>0, <2>2, <3>1
  <2>3. CASE request.tool # "ping_host" /\ step = 2
    <3>1. CommandDue' = CommandBound(Limit(request.tool, 1)) + CommandBound(Limit(request.tool, 2))
      BY <1>5, <2>3 DEF CommandDue
    <3> QED
      BY <1>0, <2>0, <2>3, <3>1
  <2> QED
    BY <2>1, <2>2, <2>3
<1>11. Timed'
  BY <1>0, <1>4, <1>5, <1>10 DEF Timed
<1> QED
  BY <1>3, <1>6, <1>7, <1>8, <1>9, <1>11 DEF RequestInv

\* Every tool starts with a command, a lookup or the Atlas probe.
LEMMA AcceptStep ==
  ASSUME RequestInv, Accept
  PROVE  RequestInv'
<1>0. /\ request.pc = "accepted" /\ now' = now /\ now = 0 /\ now \in Nat
      /\ cmd.pc = "idle" /\ atlas.pc = "idle" /\ lookup.pc = "idle" /\ http.pc = "idle"
      /\ request.answer = NoAnswer /\ NoAnswer.missing = {}
      /\ request.step <= Commands(request.tool) /\ request.tool \in Tools
      /\ request.step \in {1, 2}
  BY RequestTypes DEF Accept, RequestInv, Roles, Timed, Answers, NoAnswer
<1>1. CASE /\ request.tool \in CommandTools \cup {"container_http"}
           /\ RunCommand(1) /\ UNCHANGED <<atlasVars, httpVars>>
  <2>1. 1 <= Commands(request.tool) /\ 1 \in 1..2 /\ request.tool # "ping_host"
    BY <1>1 DEF Commands, CommandTools, Writes
  <2> QED
    BY <1>0, <1>1, <2>1, RunStep
<1>2. CASE /\ request.tool = "mongodb_atlas_connectivity"
           /\ request' = [request EXCEPT !.pc = "network"]
           /\ AtlasStart /\ UNCHANGED <<commandVars, httpVars>>
  <2>1. /\ cmd' = cmd /\ child' = child /\ lookup' = lookup /\ http' = http
        /\ CommandInv' /\ HttpInv'
    BY <1>0, <1>2, CommandRests, HttpRests DEF commandVars, httpVars, RequestInv, Parts
  <2>2. AtlasInv' /\ atlas'.pc = "srv" /\ atlas'.deadline = now + AtlasLimit
    BY <1>0, <1>2, AtlasStarts DEF RequestInv, Parts
  <2>3. Parts'
    BY <1>0, <2>1, <2>2 DEF RequestInv, Parts, CommandTiming
  <2>4. /\ request'.pc = "network" /\ request'.tool = request.tool
        /\ request'.answer = request.answer /\ request'.step = request.step
    BY <1>2 DEF RequestInv, RequestTypeOK
  <2>5. RequestTypeOK'
    BY <1>2 DEF RequestInv, RequestTypeOK
  <2>6. Roles'
    BY <1>0, <1>2, <2>1, <2>2, <2>4 DEF Roles
  <2>7. Answers'
    BY <1>0, <2>4 DEF Answers, AnswerIsWhole, MissingIsAbsent
  <2>8. Pinned'
    BY <1>0, <2>1 DEF Pinned
  <2>9. Timed'
    BY <1>0, <1>2, <2>1, <2>2, <2>4, LimitTypes DEF Timed, Lookups
  <2> QED
    BY <2>3, <2>5, <2>6, <2>7, <2>8, <2>9 DEF RequestInv
<1>3. CASE /\ request.tool \in {"ping_host", "http_check", "port_check", "dns_lookup"}
           /\ request' = [request EXCEPT !.pc = "network"]
           /\ LookupStart /\ UNCHANGED <<commandVars, atlasVars, http>>
  <2>1. /\ cmd' = cmd /\ child' = child /\ atlas' = atlas /\ http' = http
        /\ CommandInv' /\ AtlasInv'
    BY <1>0, <1>3, CommandRests, AtlasRests DEF commandVars, atlasVars, RequestInv, Parts
  <2>2. HttpInv' /\ lookup'.pc = "asking" /\ lookup'.until = now + ResolveLimit
    BY <1>0, <1>3, <2>1, LookupStarts DEF RequestInv, Parts
  <2>3. Parts'
    BY <1>0, <2>1, <2>2 DEF RequestInv, Parts, CommandTiming
  <2>4. /\ request'.pc = "network" /\ request'.tool = request.tool
        /\ request'.answer = request.answer /\ request'.step = request.step
    BY <1>3 DEF RequestInv, RequestTypeOK
  <2>5. RequestTypeOK'
    BY <1>3 DEF RequestInv, RequestTypeOK
  <2>6. Roles'
    BY <1>0, <1>3, <2>1, <2>2, <2>4 DEF Roles, Lookups
  <2>7. Answers'
    BY <1>0, <2>4 DEF Answers, AnswerIsWhole, MissingIsAbsent
  <2>8. Pinned'
    BY <1>0, <2>1 DEF Pinned
  <2>9. Timed'
    BY <1>0, <1>3, <2>1, <2>2, <2>4, LimitTypes DEF Timed
  <2> QED
    BY <2>3, <2>5, <2>6, <2>7, <2>8, <2>9 DEF RequestInv
<1> QED
  BY <1>1, <1>2, <1>3 DEF Accept

\* A connection to a vetted address starts in time.
LEMMA ConnectionStep ==
  ASSUME RequestInv, UNCHANGED <<now, atlasVars, lookup>>, UNCHANGED commandVars,
         NEW kind \in {"http", "port"}, NEW secure \in BOOLEAN,
         NEW address \in SUBSET Destinations, HttpStart(kind, secure, address),
         request' = [request EXCEPT !.pc = "network"],
         request.pc \in {"command", "network"},
         request.tool = "port_check" <=> kind = "port",
         \/ /\ request.tool = "container_http" /\ lookup.pc = "idle"
            /\ cmd.pc = "returned" /\ atlas.pc = "idle"
            /\ now <= CommandBound(CommandLimit)
         \/ /\ request.tool \in {"http_check", "port_check"} /\ lookup.pc = "returned"
            /\ cmd.pc = "idle" /\ atlas.pc = "idle" /\ now <= ResolveLimit
            /\ request.tool = "http_check" =>
                 Resolved \subseteq SafeDestinations /\ address \subseteq Resolved
  PROVE  RequestInv'
<1>0. /\ cmd' = cmd /\ child' = child /\ atlas' = atlas /\ lookup' = lookup /\ now' = now
      /\ now \in Nat /\ CommandInv' /\ AtlasInv'
  BY CommandRests, AtlasRests DEF commandVars, atlasVars, RequestInv, Parts, Instants
<1>1. /\ HttpInv' /\ http'.pc = "connect" /\ http'.kind = kind /\ http'.address = address
      /\ http'.deadline = now + (IF kind = "http" THEN RequestLimit ELSE ConnectLimit)
  BY <1>0, HttpStarts DEF RequestInv, Parts
<1>2. Parts'
  BY <1>0, <1>1 DEF RequestInv, Parts, CommandTiming
<1>3. /\ request'.pc = "network" /\ request'.tool = request.tool
      /\ request'.answer = request.answer /\ request'.step = request.step
  BY DEF RequestInv, RequestTypeOK
<1>4. RequestTypeOK'
  BY DEF RequestInv, RequestTypeOK
<1>5. Roles'
  BY <1>0, <1>1, <1>3 DEF Roles, Lookups
<1>6. Answers'
  <2>1. request'.answer = NoAnswer /\ NoAnswer.missing = {}
    BY <1>3 DEF RequestInv, Answers, NoAnswer
  <2> QED
    BY <1>3, <2>1 DEF Answers, AnswerIsWhole, MissingIsAbsent
<1>7. Pinned'
  BY <1>0, <1>1, <1>3, ResolvedRests DEF Pinned
<1>8. http'.deadline <= HttpDue'
  <2>1. CASE kind = "port"
    <3>1. http'.deadline = now + ConnectLimit /\ HttpDue' = ResolveLimit + ConnectLimit
          /\ now <= ResolveLimit
      BY <1>1, <1>3, <2>1 DEF HttpDue
    <3> QED
      BY <1>0, <3>1, LimitTypes
  <2>2. CASE kind = "http" /\ request.tool = "container_http"
    <3>1. /\ http'.deadline = now + RequestLimit /\ now <= CommandBound(CommandLimit)
          /\ HttpDue' = CommandBound(CommandLimit) + RequestLimit
      BY <1>1, <1>3, <2>2 DEF HttpDue
    <3> QED
      BY <1>0, <3>1, LimitTypes
  <2>3. CASE kind = "http" /\ request.tool # "container_http"
    <3>1. http'.deadline = now + RequestLimit /\ HttpDue' = ResolveLimit + RequestLimit
          /\ now <= ResolveLimit
      BY <1>1, <1>3, <2>3 DEF HttpDue
    <3> QED
      BY <1>0, <3>1, LimitTypes
  <2> QED
    BY <2>1, <2>2, <2>3
<1>9. Timed'
  BY <1>0, <1>1, <1>3, <1>8 DEF RequestInv, Timed
<1> QED
  BY <1>2, <1>4, <1>5, <1>6, <1>7, <1>9 DEF RequestInv

-----------------------------------------------------------------------------
(* What is read from the output of a command. *)

\* Of a command that was not cut and succeeded, every row was read.
LEMMA EveryRow ==
  ASSUME CommandInv, cmd.pc = "returned", cmd.error = "none", ~cmd.truncated,
         child.script.code = 0
  PROVE  /\ IsFiniteSet(child.script.rows) /\ Cardinality(child.script.rows) \in Nat
         /\ Rows = Cardinality(child.script.rows)
<1>1. IsFiniteSet(child.script.rows) /\ child.script.rows \subseteq Containers
  BY FS_Subset, CommandAssumption DEF CommandInv, CommandTypeOK, CommandRecords, ChildRecords, Scripts
<1>2. Cardinality(child.script.rows) \in Nat
  BY <1>1, FS_CardinalityType
<1>3. Pending("stdout") = 0 /\ child.exited
  BY DEF CommandInv, Drained, UntruncatedIsWhole, Exits, Pipes
<1>4. child.wrote["stdout"] = 2 * Cardinality(child.script.rows)
  BY <1>3 DEF CommandInv, Exits, Volume, Pipes
<1>5. cmd.got["stdout"] \in Nat /\ child.wrote["stdout"] \in Nat
  BY DEF CommandInv, CommandTypeOK, CommandRecords, ChildRecords, Pipes
<1>6. cmd.got["stdout"] = 2 * Cardinality(child.script.rows)
  BY <1>3, <1>4, <1>5 DEF Pending
<1> QED
  BY <1>1, <1>2, <1>6 DEF Rows

\* What the handler holds when the command has returned, whatever comes next.
CommandOver ==
  /\ now' = now /\ now \in Nat /\ request.pc = "command"
  /\ request.tool \in CommandTools \cup {"container_http", "ping_host"}
  /\ cmd.pc = "returned" /\ atlas.pc = "idle" /\ http.pc = "idle"
  /\ lookup.pc \in {"idle", "returned"} /\ now <= CommandDue

\* While a command is open no answer of it is final; once over, its answer was closed in time.
LEMMA CommandIsOver ==
  ASSUME RequestInv, request.pc = "command", cmd.pc = "returned", now' = now
  PROVE  CommandOver
  BY DEF CommandOver, RequestInv, Parts, Instants, Roles, Timed

\* A command that failed, or a document that was cut, is no answer.
LEMMA CommandFailsStep ==
  ASSUME RequestInv, CommandFails
  PROVE  RequestInv'
<1>1. CommandOver /\ UNCHANGED <<now, commandVars, atlasVars, httpVars>>
  BY CommandIsOver DEF CommandFails
<1>2. PICK answer : answer = NoAnswer /\ Answer(answer)
  BY DEF CommandFails, Fail
<1>3. /\ answer \in [ok : BOOLEAN, truncated : BOOLEAN, rows : Nat, missing : SUBSET Containers]
      /\ ~answer.ok /\ answer.missing = {}
  BY <1>2 DEF NoAnswer
<1> QED
  BY <1>1, <1>2, <1>3, AnswerStep DEF CommandOver

\* The second family of routes, or the inspection after a write.
LEMMA NextCommandStep ==
  ASSUME RequestInv, NextCommand
  PROVE  RequestInv'
<1>1. /\ CommandOver /\ RunCommand(request.step + 1) /\ UNCHANGED <<now, atlasVars, httpVars>>
      /\ request.step < Commands(request.tool) /\ request.step \in {1, 2}
  BY CommandIsOver, RequestTypes DEF NextCommand, CommandSucceeded, RequestInv
<1>2. /\ request.tool \in Writes \cup {"route_table"} /\ request.step = 1
      /\ Commands(request.tool) = 2
  BY <1>1 DEF Commands
<1>3. /\ RunCommand(2) /\ 2 \in 1..2
      /\ request.tool \notin {"ping_host", "container_http"}
  BY <1>1, <1>2 DEF Writes
<1>4. now <= CommandBound(Limit(request.tool, 1))
  BY <1>1, <1>2, <1>3 DEF CommandOver, CommandDue
<1> QED
  BY <1>1, <1>2, <1>3, <1>4, RunStep DEF CommandOver

\* The address that was discovered for a container is connected to.
LEMMA ContainerStep ==
  ASSUME RequestInv, ProbeContainer
  PROVE  RequestInv'
<1>1. /\ CommandOver /\ request.tool = "container_http" /\ UNCHANGED <<now, commandVars, atlasVars>>
      /\ lookup' = lookup
  BY CommandIsOver DEF ProbeContainer, CommandSucceeded
<1>2. CASE Fail /\ UNCHANGED http
  <2>1. PICK answer : answer = NoAnswer /\ Answer(answer)
    BY <1>2 DEF Fail
  <2>2. /\ answer \in [ok : BOOLEAN, truncated : BOOLEAN, rows : Nat,
                       missing : SUBSET Containers]
        /\ ~answer.ok /\ answer.missing = {}
    BY <2>1 DEF NoAnswer
  <2>3. UNCHANGED <<now, commandVars, atlasVars, httpVars>>
    BY <1>1, <1>2 DEF httpVars
  <2> QED
    BY <1>1, <2>1, <2>2, <2>3, AnswerStep DEF CommandOver
<1>3. CASE /\ request' = [request EXCEPT !.pc = "network"]
           /\ \E address \in SafeDestinations : HttpStart("http", FALSE, {address})
  <2>1. PICK address \in SUBSET Destinations : HttpStart("http", FALSE, address)
    BY <1>3, HttpAssumption
  <2>2. lookup.pc = "idle" /\ request.step = 1
    BY <1>1, RequestTypes DEF CommandOver, RequestInv, Roles, Timed, Commands, CommandTools, Writes
  <2>3. now <= CommandBound(CommandLimit)
    BY <1>1, <2>2 DEF CommandOver, CommandDue, Limit, Writes
  <2>4. /\ UNCHANGED <<now, atlasVars, lookup>> /\ UNCHANGED commandVars
        /\ "http" \in {"http", "port"} /\ FALSE \in BOOLEAN
    BY <1>1
  <2> QED
    BY <1>1, <1>3, <2>1, <2>2, <2>3, <2>4, ConnectionStep DEF CommandOver
<1> QED
  BY <1>2, <1>3 DEF ProbeContainer

\* The rows of the output become the answer, bounded and marked.
LEMMA ReadOutputStep ==
  ASSUME RequestInv, ReadOutput
  PROVE  RequestInv'
<1>1. /\ CommandOver /\ UNCHANGED <<now, commandVars, atlasVars, httpVars>>
      /\ cmd.error = "none" /\ RequestTypeOK /\ CommandInv /\ Answers
  BY CommandIsOver DEF ReadOutput, CommandSucceeded, RequestInv, Parts
<1>2. PICK found, full, answer :
        /\ found \in Found
        /\ full = [ok |-> TRUE, truncated |-> cmd.truncated /\ request.tool \notin Unmarked,
                   rows |-> Listed(request.tool, Rows), missing |-> Missing(found)]
        /\ answer = Bounded(full) /\ Answer(answer)
  BY DEF ReadOutput
<1>3. /\ Rows \in Nat /\ ListedRows \in Nat /\ ResultRows \in Nat
      /\ cmd.truncated \in BOOLEAN
  BY <1>1, RequestAssumption DEF Rows, CommandInv, CommandTypeOK, CommandRecords, ChildRecords, Pipes
<1>4. /\ Listed(request.tool, Rows) \in Nat /\ Missing(found) \subseteq Containers
      /\ (cmd.truncated /\ request.tool \notin Unmarked) \in BOOLEAN
  BY <1>3 DEF Listed, Earlier, Missing
<1>5. /\ answer \in [ok : BOOLEAN, truncated : BOOLEAN, rows : Nat, missing : SUBSET Containers]
      /\ answer.missing \subseteq Missing(found)
      /\ ~answer.truncated => answer.rows = Listed(request.tool, Rows)
                             /\ (~cmd.truncated \/ request.tool \in Unmarked)
  <2>1. /\ full \in [ok : BOOLEAN, truncated : BOOLEAN, rows : Nat, missing : SUBSET Containers]
        /\ full.missing = Missing(found) /\ full.rows = Listed(request.tool, Rows)
        /\ full.truncated = (cmd.truncated /\ request.tool \notin Unmarked)
    BY <1>2, <1>4
  <2>2. CASE full.rows <= ResultRows
    BY <1>2, <2>1, <2>2 DEF Bounded
  <2>3. CASE ~(full.rows <= ResultRows)
    <3>1. answer = [full EXCEPT !.truncated = TRUE, !.missing = {}]
      BY <1>2, <2>3 DEF Bounded
    <3> QED
      BY <2>1, <3>1
  <2> QED
    BY <2>2, <2>3
<1>6. answer.missing \cap child.script.rows = {}
  <2>1. CASE request.tool = "docker_list" /\ ~cmd.truncated
    <3>1. cmd.checked
      BY <1>1, <2>1 DEF Answers, CommandOver, Checked
    <3>2. child.script.code = 0
      BY <1>1, <2>1, <3>1 DEF CommandInv, Exits, CommandOver
    <3>3. found \in SUBSET child.script.rows /\ Cardinality(found) = Rows
      BY <1>2 DEF Found
    <3>4. found = child.script.rows
      BY <1>1, <2>1, <3>2, <3>3, EveryRow, FS_Subset DEF CommandOver
    <3> QED
      BY <1>5, <3>4 DEF Missing
  <2>2. CASE ~(request.tool = "docker_list" /\ ~cmd.truncated)
    BY <1>5, <2>2 DEF Missing
  <2> QED
    BY <2>1, <2>2
<1>7. request.tool \in CommandTools \ Unmarked /\ ~answer.truncated /\ child.script.code = 0
        => answer.rows = Listed(request.tool, Cardinality(child.script.rows))
  BY <1>1, <1>5, EveryRow DEF CommandOver
<1> QED
  BY <1>1, <1>2, <1>5, <1>6, <1>7, AnswerStep DEF CommandOver

\* A lookup that is the answer, or leaves nothing to talk to.
LEMMA LookupEndsStep ==
  ASSUME RequestInv, LookupEnds
  PROVE  RequestInv'
<1>1. /\ request.pc = "network" /\ lookup.pc = "returned" /\ http.pc = "idle"
      /\ UNCHANGED <<now, commandVars, atlasVars, httpVars>>
  BY DEF LookupEnds, Looked
<1>2. cmd.pc = "idle" /\ atlas.pc = "idle" /\ request.tool \in Lookups
  BY <1>1 DEF RequestInv, Roles
<1>3. PICK answer : /\ answer = [NoAnswer EXCEPT !.ok = (request.tool = "dns_lookup")]
                    /\ Answer(answer)
  BY DEF LookupEnds
<1>4. /\ answer \in [ok : BOOLEAN, truncated : BOOLEAN, rows : Nat, missing : SUBSET Containers]
      /\ answer.missing = {}
  BY <1>3 DEF NoAnswer
<1>5. request.tool \notin CommandTools
  BY <1>2 DEF Lookups, CommandTools, Writes
<1> QED
  BY <1>1, <1>2, <1>3, <1>4, <1>5, AnswerStep

\* The address that was looked up is used, if it may be.
LEMMA LookupServesStep ==
  ASSUME RequestInv, LookupServes
  PROVE  RequestInv'
<1>1. /\ request.pc = "network" /\ lookup.pc = "returned" /\ http.pc = "idle"
      /\ now' = now /\ UNCHANGED atlasVars /\ lookup' = lookup /\ ~Unusable
  BY DEF LookupServes, Looked, atlasVars
<1>2. /\ cmd.pc = "idle" /\ atlas.pc = "idle" /\ request.tool \in Lookups
      /\ now <= ResolveLimit /\ request.step \in {1, 2}
  BY <1>1, RequestTypes DEF RequestInv, Roles, Timed
<1>3. CASE request.tool = "ping_host" /\ RunCommand(1) /\ UNCHANGED http
  <2>1. 1 <= Commands(request.tool) /\ 1 \in 1..2
    BY DEF Commands
  <2>2. UNCHANGED <<now, atlasVars, httpVars>>
    BY <1>1, <1>3 DEF httpVars
  <2> QED
    BY <1>1, <1>2, <1>3, <2>1, <2>2, RunStep
<1>4. CASE /\ request.tool \in {"http_check", "port_check"}
           /\ \E secure \in BOOLEAN :
                /\ secure => request.tool = "http_check"
                /\ HttpStart(IF request.tool = "http_check" THEN "http" ELSE "port", secure,
                             Foremost(Resolved))
           /\ UNCHANGED <<request, commandVars>>
  <2>1. PICK secure, kind, address :
          /\ secure \in BOOLEAN /\ kind \in {"http", "port"}
          /\ address = Foremost(Resolved)
          /\ kind = IF request.tool = "http_check" THEN "http" ELSE "port"
          /\ HttpStart(kind, secure, address)
    BY <1>4
  <2>2. address \subseteq Resolved /\ Resolved \subseteq Destinations
    BY <2>1
    DEF Foremost, Resolved, RequestInv, Parts, HttpInv, HttpTypeOK, HttpRecords, LookupRecords
  <2>3. request.tool = "http_check" => Resolved \subseteq SafeDestinations
    BY <1>1 DEF Unusable, UrlAllowed
  <2>4. /\ request.tool = "port_check" <=> kind = "port"
        /\ address \in SUBSET Destinations
    BY <1>4, <2>1, <2>2
  <2>5. request' = [request EXCEPT !.pc = "network"] /\ UNCHANGED commandVars
    BY <1>1, <1>4 DEF RequestInv, RequestTypeOK
  <2>6. UNCHANGED <<now, atlasVars, lookup>>
    BY <1>1
  <2> QED
    BY <1>1, <1>2, <1>4, <2>1, <2>2, <2>3, <2>4, <2>5, <2>6, ConnectionStep
<1> QED
  BY <1>3, <1>4 DEF LookupServes

\* The probe has returned.
LEMMA ProbeAnswersStep ==
  ASSUME RequestInv, ProbeAnswers
  PROVE  RequestInv'
<1>1. /\ request.pc = "network" /\ (http.pc = "returned" \/ atlas.pc = "returned")
      /\ UNCHANGED <<now, commandVars, atlasVars, httpVars>>
  BY DEF ProbeAnswers
<1>2. /\ cmd.pc \in {"idle", "returned"} /\ atlas.pc \in {"idle", "returned"}
      /\ lookup.pc \in {"idle", "returned"} /\ http.pc \in {"idle", "returned"}
      /\ request.tool \notin CommandTools
  BY <1>1 DEF RequestInv, Roles, Lookups, CommandTools, Writes
<1>3. PICK answer : answer = [NoAnswer EXCEPT !.ok = TRUE] /\ Answer(answer)
  BY DEF ProbeAnswers
<1>4. /\ answer \in [ok : BOOLEAN, truncated : BOOLEAN, rows : Nat, missing : SUBSET Containers]
      /\ answer.missing = {}
  BY <1>3 DEF NoAnswer
<1> QED
  BY <1>1, <1>2, <1>3, <1>4, AnswerStep

-----------------------------------------------------------------------------
(* The steps of the clock, of the command and of the probes. *)

\* Time passes for the one call that blocks, and for no longer than it may.
LEMMA TickStep ==
  ASSUME RequestInv, Tick
  PROVE  RequestInv'
<1>0. /\ now \in Nat /\ now' = now + 1 /\ now' \in Instants
      /\ CommandBlocks \/ AtlasBlocks \/ HttpBlocks
      /\ UNCHANGED <<request, commandVars, atlasVars, httpVars>>
      /\ CommandInv /\ CommandTiming /\ AtlasInv /\ HttpInv
  BY LimitTypes DEF Tick, RequestInv, Parts, Instants
<1>1. /\ request' = request /\ cmd' = cmd /\ child' = child /\ atlas' = atlas
      /\ lookup' = lookup /\ http' = http
  BY <1>0 DEF commandVars, atlasVars, httpVars
<1>2. \/ /\ request.pc = "command" /\ CommandBlocks /\ atlas.pc = "idle" /\ http.pc = "idle"
         /\ lookup.pc \in {"idle", "returned"}
      \/ /\ request.pc = "network" /\ AtlasBlocks /\ cmd.pc = "idle" /\ http.pc = "idle"
         /\ lookup.pc = "idle" /\ request.tool \notin Lookups
      \/ /\ request.pc = "network" /\ lookup.pc = "asking" /\ now < lookup.until
         /\ cmd.pc = "idle" /\ atlas.pc = "idle" /\ http.pc = "idle"
      \/ /\ request.pc = "network" /\ lookup.pc # "asking" /\ now < http.until
         /\ http.pc \in {"connect", "tls", "send", "head", "body"}
         /\ cmd.pc \in {"idle", "returned"} /\ atlas.pc = "idle"
  <2>1. Roles /\ request.pc \in {"accepted", "command", "network", "answered"}
    BY RequestTypes DEF RequestInv
  <2> QED
    BY <1>0, <2>1
    DEF Roles, Lookups, CommandBlocks, AtlasBlocks, HttpBlocks
<1>3. CommandInv' /\ CommandTiming'
  <2>1. UNCHANGED commandVars /\ CommandTypeOK
    BY <1>0 DEF CommandInv
  <2>2. CommandBlocks \/ cmd.pc \in {"idle", "returned"}
    BY <1>2
  <2> QED
    BY <1>0, <2>1, <2>2, CommandRests, CommandTick
<1>4. AtlasInv'
  <2>1. AtlasBlocks \/ atlas.pc = "idle"
    BY <1>2
  <2> QED
    BY <1>0, <2>1, AtlasTick
<1>5. HttpInv'
  BY <1>0, <1>2, HttpTick
<1>6. RequestTypeOK' /\ Roles' /\ Pinned' /\ Answers'
  BY <1>1, ResolvedRests
  DEF RequestInv, RequestTypeOK, Roles, Pinned, Answers, AnswerIsWhole, MissingIsAbsent
<1>7. CommandDue' = CommandDue /\ HttpDue' = HttpDue
  BY <1>1 DEF CommandDue, HttpDue
<1>8. request.pc = "command" => now' <= CommandDue
  <2>1. SUFFICES ASSUME request.pc = "command" PROVE now + 1 <= CommandDue
    BY <1>0
  <2>2. /\ cmd.pc \in {"reading", "waiting", "killing"} /\ now < cmd.until
        /\ cmd.until \in Nat /\ cmd.limit \in Nat /\ MinWait \in Nat /\ KillWait \in Nat
    BY <1>0, <1>2, <2>1, CommandAssumption DEF CommandBlocks, CommandInv, CommandTypeOK, CommandRecords, ChildRecords
  <2>3. cmd.until <= cmd.limit
    BY <1>0, <2>2 DEF CommandTiming
  <2>4. cmd.limit <= CommandDue /\ CommandDue \in Nat
    <3>1. CommandDue \in Nat
      BY RequestTypes, CommandOptions, LimitTypes DEF CommandDue, RequestInv
    <3> QED
      BY <2>1, <2>2, <3>1 DEF RequestInv, Timed
  <2> QED
    BY <1>0, <2>2, <2>3, <2>4
<1>9. request.pc = "network" /\ request.tool \in Lookups /\ http.pc = "idle" =>
        now' <= ResolveLimit
  BY <1>0, <1>2, LimitTypes DEF RequestInv, Timed, HttpInv, HttpTypeOK, HttpRecords, LookupRecords
<1>10. Timed'
  BY <1>0, <1>1, <1>2, <1>7, <1>8, <1>9 DEF RequestInv, Timed
<1> QED
  BY <1>0, <1>3, <1>4, <1>5, <1>6, <1>10 DEF RequestInv, Parts

\* The command and its process leave the request where it is.
LEMMA CommandNextStep ==
  ASSUME RequestInv, CommandNext, UNCHANGED <<now, request, atlasVars, httpVars>>
  PROVE  RequestInv'
<1>1. /\ now' = now /\ now \in Nat /\ request' = request
      /\ atlas' = atlas /\ lookup' = lookup /\ http' = http
  BY DEF RequestInv, Parts, Instants, atlasVars, httpVars
<1>2. CommandInv' /\ CommandTiming' /\ CommandKeeps
  BY <1>1, CommandStep, CommandTimes DEF RequestInv, Parts, CommandInv
<1>3. AtlasInv' /\ HttpInv'
  BY <1>1, AtlasRests, HttpRests DEF RequestInv, Parts
<1>4. RequestTypeOK' /\ Pinned'
  BY <1>1, ResolvedRests DEF RequestInv, RequestTypeOK, Pinned
<1>5. Roles'
  BY <1>1, <1>2 DEF RequestInv, Roles, CommandKeeps
<1>6. Answers'
  BY <1>1, <1>2 DEF RequestInv, Answers, AnswerIsWhole, MissingIsAbsent, CommandKeeps
<1>7. Timed'
  <2>1. CommandDue' = CommandDue /\ HttpDue' = HttpDue /\ (AnsweredInTime' <=> AnsweredInTime)
    BY <1>1 DEF CommandDue, HttpDue, AnsweredInTime
  <2> QED
    BY <1>1, <1>2, <2>1 DEF RequestInv, Timed, CommandKeeps
<1> QED
  BY <1>1, <1>2, <1>3, <1>4, <1>5, <1>6, <1>7 DEF RequestInv, Parts

\* So does the Atlas probe, which is alone at work.
LEMMA AtlasNextStep ==
  ASSUME RequestInv, AtlasNext, UNCHANGED <<now, request, commandVars, httpVars>>
  PROVE  RequestInv'
<1>1. /\ now' = now /\ now \in Nat /\ request' = request /\ cmd' = cmd /\ child' = child
      /\ lookup' = lookup /\ http' = http
  BY DEF RequestInv, Parts, Instants, commandVars, httpVars
<1>2. /\ AtlasInv' /\ atlas'.deadline = atlas.deadline
      /\ atlas.pc \notin {"idle", "returned"} /\ atlas'.pc # "idle"
  BY <1>1, AtlasStep, AtlasKeepsDeadline DEF RequestInv, Parts, AtlasInv
<1>3. CommandInv' /\ CommandTiming' /\ HttpInv'
  BY <1>1, CommandRests, HttpRests DEF RequestInv, Parts, CommandTiming
<1>4. RequestTypeOK' /\ Pinned'
  BY <1>1, ResolvedRests DEF RequestInv, RequestTypeOK, Pinned
<1>5. Roles'
  BY <1>1, <1>2 DEF RequestInv, Roles
<1>6. Answers'
  BY <1>1 DEF RequestInv, Answers, AnswerIsWhole, MissingIsAbsent
<1>7. Timed'
  <2>1. CommandDue' = CommandDue /\ HttpDue' = HttpDue /\ (AnsweredInTime' <=> AnsweredInTime)
    BY <1>1 DEF CommandDue, HttpDue, AnsweredInTime
  <2> QED
    BY <1>1, <1>2, <2>1 DEF RequestInv, Timed
<1> QED
  BY <1>1, <1>2, <1>3, <1>4, <1>5, <1>6, <1>7 DEF RequestInv, Parts

\* A lookup or a connection keeps its address and its deadline.
LEMMA HttpNextStep ==
  ASSUME RequestInv, HttpNext, UNCHANGED <<now, request, commandVars, atlasVars>>
  PROVE  RequestInv'
<1>1. /\ now' = now /\ now \in Nat /\ request' = request /\ cmd' = cmd /\ child' = child
      /\ atlas' = atlas
  BY DEF RequestInv, Parts, Instants, commandVars, atlasVars
<1>2. /\ HttpInv'
      /\ \/ HttpKeeps
         \/ /\ http' = http /\ lookup.pc = "asking"
            /\ lookup'.pc \in {"asking", "returned"} /\ lookup'.until = lookup.until
  BY <1>1, HttpStep DEF RequestInv, Parts
<1>3. CommandInv' /\ CommandTiming' /\ AtlasInv'
  BY <1>1, CommandRests, AtlasRests DEF RequestInv, Parts, CommandTiming
<1>4. RequestTypeOK' /\ Answers'
  BY <1>1 DEF RequestInv, RequestTypeOK, Answers, AnswerIsWhole, MissingIsAbsent
<1>5. CommandDue' = CommandDue /\ HttpDue' = HttpDue /\ (AnsweredInTime' <=> AnsweredInTime)
  BY <1>1 DEF CommandDue, HttpDue, AnsweredInTime
<1>6. request.pc \in {"accepted", "command", "network", "answered"}
  BY RequestTypes DEF RequestInv
<1>7. CASE HttpKeeps
  <2>1. Roles'
    BY <1>1, <1>6, <1>7 DEF RequestInv, Roles, HttpKeeps
  <2>2. Pinned'
    BY <1>1, <1>7, ResolvedRests DEF RequestInv, Pinned, HttpKeeps
  <2>3. Timed'
    BY <1>1, <1>5, <1>7 DEF RequestInv, Timed, HttpKeeps
  <2> QED
    BY <1>1, <1>2, <1>3, <1>4, <2>1, <2>2, <2>3 DEF RequestInv, Parts
<1>8. CASE /\ http' = http /\ lookup.pc = "asking"
           /\ lookup'.pc \in {"asking", "returned"} /\ lookup'.until = lookup.until
  <2>1. Roles' /\ http.pc = "idle"
    BY <1>1, <1>6, <1>8 DEF RequestInv, Roles
  <2>2. Pinned'
    BY <1>8, <2>1 DEF Pinned
  <2>3. Timed'
    BY <1>1, <1>5, <1>8 DEF RequestInv, Timed
  <2> QED
    BY <1>1, <1>2, <1>3, <1>4, <2>1, <2>2, <2>3 DEF RequestInv, Parts
<1> QED
  BY <1>2, <1>7, <1>8

\* Every step keeps the invariant.
LEMMA RequestStep ==
  ASSUME RequestInv, [RequestNext]_requestVars
  PROVE  RequestInv'
<1>1. CASE Step
  BY <1>1, AcceptStep, CommandFailsStep, NextCommandStep, ContainerStep, ReadOutputStep,
     LookupEndsStep, LookupServesStep, ProbeAnswersStep DEF Step
<1>2. CASE UNCHANGED requestVars
  <2>1. /\ UNCHANGED <<now, commandVars, atlasVars, httpVars>> /\ request' = request
        /\ Parts
    BY <1>2 DEF requestVars, commandVars, atlasVars, httpVars, RequestInv
  <2>2. /\ Parts' /\ cmd' = cmd /\ child' = child /\ atlas' = atlas
        /\ lookup' = lookup /\ http' = http /\ now' = now
    BY <2>1, PartsRest
  <2>3. RequestTypeOK' /\ Roles' /\ Pinned' /\ Answers'
    BY <2>1, <2>2, ResolvedRests
    DEF RequestInv, RequestTypeOK, Roles, Pinned, Answers, AnswerIsWhole, MissingIsAbsent
  <2>4. CommandDue' = CommandDue /\ HttpDue' = HttpDue /\ (AnsweredInTime' <=> AnsweredInTime)
    BY <2>1, <2>2 DEF CommandDue, HttpDue, AnsweredInTime
  <2>5. Timed'
    BY <2>1, <2>2, <2>4 DEF RequestInv, Timed
  <2> QED
    BY <2>2, <2>3, <2>5 DEF RequestInv
<1> QED
  BY <1>1, <1>2, TickStep, CommandNextStep, AtlasNextStep, HttpNextStep DEF RequestNext

-----------------------------------------------------------------------------
(* What holds of every request. *)

\* The invariant holds in every reachable state.
THEOREM Invariance == RequestSpec => []RequestInv
<1>1. RequestInit => RequestInv
  BY RequestStarts
<1>2. RequestInv /\ [RequestNext]_requestVars => RequestInv'
  BY RequestStep
<1> QED
  BY <1>1, <1>2, PTL DEF RequestSpec

\* The counters, buffers and sets of the command, the probes and the answer keep
\* their types: no remaining count or time is ever negative.
THEOREM Typing == RequestSpec => []TypeOK
<1>1. RequestInv => TypeOK
  BY DEF RequestInv, Parts, TypeOK, CommandInv, AtlasInv, HttpInv
<1> QED
  BY <1>1, Invariance, PTL

\* An answer that is not marked holds every row of the output (tools.py).
THEOREM WholeAnswers == RequestSpec => []AnswerIsWhole
<1>1. RequestInv => AnswerIsWhole
  BY DEF RequestInv, Answers
<1> QED
  BY <1>1, Invariance, PTL

\* No container that the host has is reported as missing (_docker_list).
THEOREM NothingReportedMissing == RequestSpec => []MissingIsAbsent
<1>1. RequestInv => MissingIsAbsent
  BY DEF RequestInv, Answers
<1> QED
  BY <1>1, Invariance, PTL

\* safety.py 160, 230 and 373: whatever DNS answers, what is connected to is one of
\* the first addresses of that answer, all of which are safe; an answer that is
\* not longer than 16 addresses, or 4 of a shard, is safe as a whole.
THEOREM VettedOnly == RequestSpec => []DestinationsVetted
<1>1. RequestInv => DestinationsVetted
  <2> SUFFICES ASSUME RequestInv PROVE DestinationsVetted
    OBVIOUS
  <2>1. ProbesAreVetted
    BY DEF RequestInv, Parts, AtlasInv, Vetting
  <2>2. /\ lookup.answers \subseteq Nat /\ IsFiniteSet(lookup.answers)
        /\ MaxResolved \in Nat
    BY HttpAssumption, FS_Subset
    DEF RequestInv, Parts, HttpInv, HttpTypeOK, LookupRecords
  <2>3. Cardinality(lookup.answers) <= MaxResolved => lookup.answers \subseteq Resolved
    BY <2>2, FewAreKept DEF Resolved, Smallest
  <2> QED
    BY <2>1, <2>3 DEF RequestInv, Pinned, DestinationsVetted
<1> QED
  BY <1>1, Invariance, PTL

\* The deployment is declared unreachable only when every host was tried
\* (connectivity.py).
THEOREM Earned == RequestSpec => []UnreachableIsEarned
<1>1. RequestInv => UnreachableIsEarned
  BY DEF RequestInv, Parts, AtlasInv, Progress
<1> QED
  BY <1>1, Invariance, PTL

\* What a command leaves running is out of reach of its process group
\* (run_command).
THEOREM Orphans == RequestSpec => []SurvivorsAreOrphans
<1>1. RequestInv => SurvivorsAreOrphans
  BY DEF RequestInv, Parts, CommandInv, Exits
<1> QED
  BY <1>1, Invariance, PTL

\* The socket is open while the response is read, and closed in the end
\* (safety.py, http_probe).
THEOREM SocketLives == RequestSpec => []SocketOutlivesResponse
<1>1. RequestInv => SocketOutlivesResponse
  BY DEF RequestInv, Parts, HttpInv, Lifetimes, SocketOutlivesResponse
<1> QED
  BY <1>1, Invariance, PTL

\* No peer, process or DNS server keeps the worker thread beyond the sum of the
\* limits of the tool.
THEOREM InTimeAlways == RequestSpec => []AnsweredInTime
<1>1. RequestInv => AnsweredInTime
  BY InTime
<1> QED
  BY <1>1, Invariance, PTL

\* run_command reads all of what it does not mark as truncated, keeps no more
\* than its bound and returns by its limit, in every call of every tool.
THEOREM CommandPromises ==
  RequestSpec => [](UntruncatedIsWhole /\ OutputBounded /\ CommandInTime)
<1>1. RequestInv => UntruncatedIsWhole /\ OutputBounded
  BY DEF RequestInv, Parts, CommandInv, Drained, Captures
<1>2. RequestInv => CommandInTime
  <2>1. SUFFICES ASSUME CommandTypeOK, CommandTiming, now \in Nat,
                        cmd.pc \notin {"idle", "returned"}
                 PROVE  now <= cmd.limit
    BY DEF RequestInv, Parts, Instants, CommandInv, CommandInTime
  <2>2. /\ cmd.until \in Nat /\ cmd.limit \in Nat /\ MinWait \in Nat /\ KillWait \in Nat
        /\ cmd.pc \in {"reading", "waiting", "killing"}
    BY <2>1, CommandAssumption DEF CommandTypeOK, CommandRecords, ChildRecords
  <2> QED
    BY <2>1, <2>2 DEF CommandTiming
<1> QED
  BY <1>1, <1>2, Invariance, PTL

\* The Atlas probe makes no more probes than it may and returns by its limit;
\* so does an HTTP request, however its answer drips in.
THEOREM ProbePromises == RequestSpec => [](ProbesBounded /\ AtlasInTime /\ HttpInTime)
<1>1. RequestInv => ProbesBounded /\ AtlasInTime /\ HttpInTime
  BY DEF RequestInv, Parts, AtlasInv, Budget, Timing, HttpInv, HttpTiming, HttpInTime
<1> QED
  BY <1>1, Invariance, PTL
=============================================================================

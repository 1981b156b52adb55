--------------------------- MODULE GatewayRequest ---------------------------
(***************************************************************************)
(* One read-only (or signed) request in a worker thread of the gateway: the *)
(* tool's handler in tools.py, its host commands, lookups and probes, the   *)
(* reading of their output, and the bounded answer of POST /tools/{name}.   *)
(* Signatures and the ledger are in GatewayLedger.                          *)
(***************************************************************************)
EXTENDS HostCommand, AtlasProbe, HttpProbe

CONSTANTS
  CommandLimit,     \* command_timeout_seconds
  RouteLimit,       \* timeout of one ip route command (3 s)
  WriteLimit,       \* timeout of a write command (15 or 20 s)
  ListedRows,       \* most rows a handler lists (250 routes, 50 peers, 100 events)
  ResultRows        \* rows of a normalized result within max_output_bytes

ASSUME RequestAssumption ==
  /\ CommandLimit \in Nat /\ RouteLimit \in Nat /\ WriteLimit \in Nat
  /\ ListedRows \in Nat /\ ResultRows \in Nat

VARIABLE request   \* the tool, how far its handler is, and the answer

requestVars == <<request, now, cmd, child, atlas, shards, probes, lookup, http>>

Writes == {"restart_container", "restart_service"}
CommandTools == Writes \cup
  {"docker_list", "docker_inspect", "docker_logs", "journal_logs", "docker_stats",
   "recent_docker_events", "service_status", "tailscale_status", "route_table"}
Tools == CommandTools \cup {"ping_host", "http_check", "container_http", "port_check",
                            "dns_lookup", "mongodb_atlas_connectivity"}

NoAnswer == [ok |-> FALSE, truncated |-> FALSE, rows |-> 0, missing |-> {}]

\* Commands that run one after another: both families of routes; a write and
\* the inspection of its target.
Commands(tool) == IF tool \in Writes \cup {"route_table"} THEN 2 ELSE 1

Limit(tool, step) ==
  IF tool = "route_table" THEN RouteLimit
  ELSE IF tool \in Writes /\ step = 1 THEN WriteLimit
  ELSE CommandLimit

Checked(tool) == tool \notin {"docker_logs", "docker_stats", "ping_host"}

\* A JSON document is refused when it was cut; rows are taken as far as they go.
Refuses(tool, step) ==
  \/ tool \in {"docker_inspect", "tailscale_status", "route_table", "container_http"}
  \/ tool = "restart_container" /\ step = 2

RequestTypeOK ==
  request \in [tool : Tools, pc : {"accepted", "command", "network", "answered"},
              step : 1..2, answer : [ok : BOOLEAN, truncated : BOOLEAN, rows : Nat,
                                     missing : SUBSET Containers]]

\* Every value keeps its type: what run_command, the probes and the handler hold.
TypeOK ==
  now \in Instants /\ CommandTypeOK /\ AtlasTypeOK /\ HttpTypeOK /\ RequestTypeOK

RequestInit ==
  /\ now = 0
  /\ \E tool \in Tools : request = [tool |-> tool, pc |-> "accepted", step |-> 1,
                                    answer |-> NoAnswer]
  /\ CommandInit /\ AtlasInit /\ HttpInit

-----------------------------------------------------------------------------
RunCommand(step) ==
  /\ request' = [request EXCEPT !.pc = "command", !.step = step]
  /\ CommandStart(Limit(request.tool, step), Checked(request.tool))

Accept ==
  /\ request.pc = "accepted"
  /\ \/ request.tool \in CommandTools \cup {"container_http"}
        /\ RunCommand(1) /\ UNCHANGED <<atlasVars, httpVars>>
     \/ request.tool = "mongodb_atlas_connectivity"
        /\ request' = [request EXCEPT !.pc = "network"]
        /\ AtlasStart /\ UNCHANGED <<commandVars, httpVars>>
     \/ request.tool \in {"ping_host", "http_check", "port_check", "dns_lookup"}
        /\ request' = [request EXCEPT !.pc = "network"]
        /\ LookupStart /\ UNCHANGED <<commandVars, atlasVars, http>>
  /\ UNCHANGED now

Answer(answer) ==
  request' = [request EXCEPT !.pc = "answered", !.answer = answer]

Fail == Answer(NoAnswer)

-----------------------------------------------------------------------------
(* What a handler makes of the output it was given. *)

\* Rows that are whole; the one the cut fell into does not parse.
Rows == cmd.got["stdout"] \div 2

\* The state of a service is read from the lines there are, and says no more.
Unmarked == {"service_status", "restart_service"}

\* The lists that are also cut at a number of rows, of which nothing is said.
Listed(tool, rows) ==
  IF tool \in {"route_table", "tailscale_status", "recent_docker_events"}
  THEN Earlier(rows, ListedRows) ELSE rows

\* The containers whose rows were read: the listing has some order.
Found == {S \in SUBSET child.script.rows : Cardinality(S) = Rows}

\* Mutant of Missing: what was not seen is taken to be missing.
MissingUnseen(found) == Containers \ found

Missing(found) ==
  IF request.tool = "docker_list" /\ ~cmd.truncated THEN Containers \ found ELSE {}

\* Mutant of Bounded: the result is cut, and not marked.
BoundedSilently(answer) ==
  IF answer.rows <= ResultRows THEN answer ELSE [answer EXCEPT !.rows = ResultRows]

\* bounded_result: a result over the limit is replaced by a marked preview.
Bounded(answer) ==
  IF answer.rows <= ResultRows THEN answer
  ELSE [answer EXCEPT !.truncated = TRUE, !.missing = {}]

CommandFails ==
  /\ request.pc = "command" /\ cmd.pc = "returned"
  /\ cmd.error # "none" \/ (Refuses(request.tool, request.step) /\ cmd.truncated)
     \/ (request.tool = "docker_logs" /\ ~cmd.truncated /\ child.script.code # 0)
  /\ Fail
  /\ UNCHANGED <<now, commandVars, atlasVars, httpVars>>

CommandSucceeded ==
  /\ request.pc = "command" /\ cmd.pc = "returned" /\ cmd.error = "none"
  /\ ~(Refuses(request.tool, request.step) /\ cmd.truncated)
  /\ ~(request.tool = "docker_logs" /\ ~cmd.truncated /\ child.script.code # 0)

NextCommand ==
  /\ CommandSucceeded
  /\ request.step < Commands(request.tool)
  /\ RunCommand(request.step + 1)
  /\ UNCHANGED <<now, atlasVars, httpVars>>

\* http_check of a container alias: its discovered address, which must be one
\* of a private network, goes to the probe as it is.
ProbeContainer ==
  /\ CommandSucceeded /\ request.tool = "container_http"
  /\ \/ Fail /\ UNCHANGED http
     \/ /\ request' = [request EXCEPT !.pc = "network"]
        /\ \E address \in SafeDestinations : HttpStart("http", FALSE, {address})
  /\ UNCHANGED <<now, commandVars, atlasVars, lookup>>

ReadOutput ==
  /\ CommandSucceeded /\ request.tool # "container_http"
  /\ request.step = Commands(request.tool)
  /\ \E found \in Found :
       Answer(Bounded([ok |-> TRUE, truncated |-> cmd.truncated /\ request.tool \notin Unmarked,
                       rows |-> Listed(request.tool, Rows), missing |-> Missing(found)]))
  /\ UNCHANGED <<now, commandVars, atlasVars, httpVars>>

-----------------------------------------------------------------------------
(* The tools that look an address up, and the answers of the probes. *)

Looked == request.pc = "network" /\ lookup.pc = "returned" /\ http.pc = "idle"

Unusable ==
  \/ lookup.answers = {}
  \/ request.tool = "http_check" /\ ~UrlAllowed
  \/ request.tool \in {"ping_host", "port_check"} /\ ~HostAllowed

LookupEnds ==
  /\ Looked
  /\ Unusable \/ request.tool = "dns_lookup"
  /\ Answer([NoAnswer EXCEPT !.ok = request.tool = "dns_lookup"])
  /\ UNCHANGED <<now, commandVars, atlasVars, httpVars>>

LookupServes ==
  /\ Looked /\ ~Unusable
  /\ \/ request.tool = "ping_host"
        /\ RunCommand(1) /\ UNCHANGED http
     \/ request.tool \in {"http_check", "port_check"}
        /\ \E secure \in BOOLEAN :
             /\ secure => request.tool = "http_check"
             /\ HttpStart(IF request.tool = "http_check" THEN "http" ELSE "port", secure,
                          Foremost(Resolved))
        /\ UNCHANGED <<request, commandVars>>
  /\ UNCHANGED <<now, atlasVars, lookup>>

ProbeAnswers ==
  /\ request.pc = "network"
  /\ http.pc = "returned" \/ atlas.pc = "returned"
  /\ Answer([NoAnswer EXCEPT !.ok = TRUE])
  /\ UNCHANGED <<now, commandVars, atlasVars, httpVars>>

\* Time passes while a call of the handler blocks.
Tick ==
  /\ now < MaxNow
  /\ CommandBlocks \/ AtlasBlocks \/ HttpBlocks
  /\ now' = now + 1
  /\ UNCHANGED <<request, commandVars, atlasVars, httpVars>>

\* The handler's own steps, that no peer or process has to take for it.
Step ==
  \/ Accept \/ CommandFails \/ NextCommand \/ ProbeContainer \/ ReadOutput
  \/ LookupEnds \/ LookupServes \/ ProbeAnswers

RequestNext ==
  \/ Step \/ Tick
  \/ CommandNext /\ UNCHANGED <<now, request, atlasVars, httpVars>>
  \/ AtlasNext /\ UNCHANGED <<now, request, commandVars, httpVars>>
  \/ HttpNext /\ UNCHANGED <<now, request, commandVars, atlasVars>>

\* What the thread does by itself once a call of its has returned or timed out.
Proceeds ==
  \/ /\ Expire \/ Reap \/ WaitExpires \/ KillReturns \/ KillExpires
     /\ UNCHANGED <<now, request, atlasVars, httpVars>>
  \/ /\ \/ \E host \in ShardHosts : NextShard(host)
        \/ NextAddress \/ LeaveShard \/ Verdict
        \/ now >= atlas.until /\ (SrvFails \/ DnsAnswers({}) \/ TcpFails \/ TlsFails)
     /\ UNCHANGED <<now, request, commandVars, httpVars>>
  \/ /\ \/ Closes
        \/ now >= lookup.until /\ LookupAnswers({})
        \/ now >= http.until /\ (ConnectFails \/ SendFails \/ HeadFails(FALSE) \/ BodyFails)
     /\ UNCHANGED <<now, request, commandVars, atlasVars>>

\* The clock and the thread are fair; commands, DNS and peers owe nothing.
RequestFairness ==
  WF_requestVars(Tick) /\ WF_requestVars(Step) /\ WF_requestVars(Proceeds)

RequestSpec == RequestInit /\ [][RequestNext]_requestVars /\ RequestFairness

-----------------------------------------------------------------------------
(* Properties. *)

\* An answer that is not marked as truncated holds every row the command wrote,
\* or as many as its handler lists: the byte bound of the pipes, a cut row and
\* bounded_result leave the mark in all tools but those that have none.
AnswerIsWhole ==
  /\ request.pc = "answered" /\ request.tool \in CommandTools \ Unmarked
  /\ request.answer.ok /\ ~request.answer.truncated
  /\ child.script.code = 0
  => request.answer.rows = Listed(request.tool, Cardinality(child.script.rows))

\* docker_list never names a container as missing that the host has, however
\* little of the listing was read.
MissingIsAbsent ==
  request.answer.missing \cap child.script.rows = {}

\* Every Atlas probe and HTTP request goes to an address of the one answer DNS
\* gave for its host (safety.py 160, 230 and 373), which was vetted together with
\* the others that are kept of it: the first 16, or 4. An answer that is not cut
\* is safe as a whole, and DNS is not asked again between vetting and connecting.
DestinationsVetted ==
  /\ ProbesAreVetted
  /\ request.tool = "http_check" /\ http.pc # "idle" =>
       /\ http.address \subseteq Resolved
       /\ Resolved \subseteq SafeDestinations
       /\ Cardinality(lookup.answers) <= MaxResolved => lookup.answers \subseteq SafeDestinations

CommandBound(limit) == limit + MinWait + KillWait

RequestBound(tool) ==
  IF tool = "route_table" THEN 2 * CommandBound(RouteLimit)
  ELSE IF tool \in Writes THEN CommandBound(WriteLimit) + CommandBound(CommandLimit)
  ELSE IF tool = "ping_host" THEN ResolveLimit + CommandBound(CommandLimit)
  ELSE IF tool = "container_http" THEN CommandBound(CommandLimit) + RequestLimit + TlsFloor
  ELSE IF tool = "http_check" THEN ResolveLimit + RequestLimit + TlsFloor
  ELSE IF tool = "port_check" THEN ResolveLimit + ConnectLimit
  ELSE IF tool = "dns_lookup" THEN ResolveLimit
  ELSE IF tool = "mongodb_atlas_connectivity" THEN AtlasLimit
  ELSE CommandBound(CommandLimit)

\* Commands that write slowly or never end, dripping peers and silent DNS
\* servers do not keep a worker thread beyond the sum of the declared limits.
AnsweredInTime == now <= RequestBound(request.tool)

\* Every request is answered, although nothing outside the gateway is fair.
AlwaysAnswered == <>(request.pc = "answered")
=============================================================================

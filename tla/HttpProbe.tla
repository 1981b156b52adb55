----------------------------- MODULE HttpProbe -----------------------------
(***************************************************************************)
(* The gateway's own network diagnostics: resolve_addresses, the pinned     *)
(* HTTP(S) request of http_probe and the plain connection of port_check.    *)
(*                                                                         *)
(* The socket of an HTTP request has two users that close it separately,    *)
(* the connection and the response's file object: DeadlineSocket counts     *)
(* them.  Addresses are numbers in the order in which the code sorts them.  *)
(***************************************************************************)
EXTENDS MonotonicClock, FiniteSets

CONSTANTS
  Destinations,      \* addresses that DNS may answer
  SafeDestinations,  \* what safe_address allows for the URL
  Unroutable,        \* link-local, multicast, unspecified or reserved
  MaxResolved,       \* addresses of an answer that resolve_addresses returns (16)
  ResolveLimit,      \* lifetime of resolve_addresses (3 s)
  RequestLimit,      \* timeout of http_probe (5 s)
  ConnectLimit,      \* timeout of port_check (3 s)
  TlsFloor           \* least time a TLS handshake is given (0.01 s)

ASSUME HttpAssumption ==
  /\ Destinations \subseteq Nat /\ IsFiniteSet(Destinations)
  /\ SafeDestinations \subseteq Destinations
  /\ Unroutable \subseteq Destinations /\ Unroutable \cap SafeDestinations = {}
  /\ MaxResolved \in Nat \ {0}
  /\ ResolveLimit \in Nat \ {0} /\ RequestLimit \in Nat \ {0}
  /\ ConnectLimit \in Nat \ {0} /\ TlsFloor \in Nat

VARIABLES
  lookup,  \* the locals of resolve_addresses
  http     \* the connection, its response and their socket

httpVars == <<lookup, http>>

LookupIdle == [pc |-> "idle", until |-> 0, family |-> "A", answers |-> {}]
HttpIdle == [pc |-> "idle", kind |-> "http", secure |-> FALSE, until |-> 0, deadline |-> 0,
             address |-> {}, socket |-> "none", refs |-> 0, closing |-> FALSE,
             response |-> FALSE, attached |-> FALSE, reachable |-> FALSE]

LookupRecords ==
  [pc : {"idle", "asking", "returned"}, until : Nat, family : {"A", "AAAA"},
   answers : SUBSET Destinations]
HttpRecords ==
  [pc : {"idle", "connect", "tls", "send", "head", "body", "closing", "returned"},
   kind : {"http", "port"}, secure : BOOLEAN, until : Nat, deadline : Nat,
   address : SUBSET Destinations, socket : {"none", "open", "closed"},
   refs : 0..1, closing : BOOLEAN, response : BOOLEAN, attached : BOOLEAN,
   reachable : BOOLEAN]

HttpTypeOK == lookup \in LookupRecords /\ http \in HttpRecords

HttpInit == lookup = LookupIdle /\ http = HttpIdle

-----------------------------------------------------------------------------
(* resolve_addresses *)

LookupStart ==
  lookup' = [LookupIdle EXCEPT !.pc = "asking", !.until = now + ResolveLimit]

\* The answer of one family; an empty one stands for none, and for a timeout.
LookupAnswers(S) ==
  /\ lookup.pc = "asking"
  /\ S # {} => now < lookup.until
  /\ lookup' = IF lookup.family = "A"
               THEN [lookup EXCEPT !.family = "AAAA", !.answers = S]
               ELSE [lookup EXCEPT !.pc = "returned", !.answers = @ \cup S]
  /\ UNCHANGED http

\* What is returned of both answers, and all that is ever looked at.
Resolved ==
  {a \in lookup.answers : Cardinality({b \in lookup.answers : b < a}) < MaxResolved}

\* The first address, as a set of one.
Foremost(S) == {a \in S : \A b \in S : a <= b}

\* Mutant of UrlAllowed: only the address to be used is looked at.
UrlAllowedFirst == Foremost(Resolved) \subseteq SafeDestinations

\* One unsafe address refuses all that was returned for a URL's host.
UrlAllowed == Resolved \subseteq SafeDestinations

\* A configured host and port, or a ping, looks at the address it uses.
HostAllowed == Foremost(Resolved) \cap Unroutable = {}

-----------------------------------------------------------------------------
(* DeadlineSocket: the file object of a response and the connection.        *)

\* _decref_socketios
Release(h) ==
  [h EXCEPT !.refs = 0, !.socket = IF h.closing THEN "closed" ELSE @]

\* Mutant of Detach: the socket is closed under the response.
DetachAtOnce(h) ==
  IF ~h.attached THEN h
  ELSE [h EXCEPT !.attached = FALSE, !.closing = TRUE, !.socket = "closed"]

\* close: of HTTPConnection, which drops its socket
Detach(h) ==
  IF ~h.attached THEN h
  ELSE [h EXCEPT !.attached = FALSE, !.closing = TRUE,
                 !.socket = IF h.refs = 0 THEN "closed" ELSE @]

-----------------------------------------------------------------------------
(* http_probe and port_check. *)

HttpStart(kind, secure, address) ==
  http' = [HttpIdle EXCEPT !.pc = "connect", !.kind = kind, !.secure = secure,
             !.address = address, !.socket = "open",
             !.deadline = now + (IF kind = "http" THEN RequestLimit ELSE ConnectLimit),
             !.until = now + (IF kind = "http" THEN RequestLimit ELSE ConnectLimit)]

\* connect, or the handshake, raised: the raw socket is closed on the spot.
ConnectFails ==
  /\ http.pc \in {"connect", "tls"}
  /\ http' = [http EXCEPT !.pc = "returned", !.socket = "closed"]
  /\ UNCHANGED lookup

PortOpens ==
  /\ http.pc = "connect" /\ http.kind = "port" /\ now <= http.until
  /\ http' = [http EXCEPT !.pc = "returned", !.socket = "closed", !.reachable = TRUE]
  /\ UNCHANGED lookup

Attached == [http EXCEPT !.pc = "send", !.attached = TRUE, !.until = http.deadline]

Connects ==
  /\ http.pc = "connect" /\ http.kind = "http" /\ now <= http.until
  /\ http' = IF http.secure
             THEN [http EXCEPT !.pc = "tls", !.until = Later(http.deadline, now + TlsFloor)]
             ELSE Attached
  /\ UNCHANGED lookup

Handshakes ==
  /\ http.pc = "tls" /\ now <= http.until
  /\ http' = Attached
  /\ UNCHANGED lookup

\* Mutant of TimeLeft: each send and receive has the whole timeout.
TimeLeftOfEach == RequestLimit

\* DeadlineSocket.remaining, before each send and receive.
TimeLeft == http.deadline - now

\* The request was sent and the response object made: it opens the file object.
Sends ==
  /\ http.pc = "send" /\ TimeLeft > 0
  /\ http' = [http EXCEPT !.pc = "head", !.refs = 1, !.until = now + TimeLeft]
  /\ UNCHANGED lookup

SendFails ==
  /\ http.pc = "send"
  /\ http' = [http EXCEPT !.pc = "closing"]
  /\ UNCHANGED lookup

\* A piece of the status line and headers, with more to come.
HeadDrips ==
  /\ http.pc = "head" /\ TimeLeft > 0
  /\ http' = [http EXCEPT !.until = now + TimeLeft]
  /\ UNCHANGED lookup

\* getresponse: a response that says "Connection: close" closes the connection
\* and lives on through its file object.
HeadCompletes(close) ==
  /\ http.pc = "head" /\ TimeLeft > 0
  /\ LET ready == [http EXCEPT !.pc = "body", !.response = TRUE, !.until = now + TimeLeft] IN
     http' = IF close THEN Detach(ready) ELSE ready
  /\ UNCHANGED lookup

\* Late, malformed or cut off: getresponse closes the response it was building,
\* and for a broken connection the connection before it.
HeadFails(broken) ==
  /\ http.pc = "head"
  /\ LET failed == [http EXCEPT !.pc = "closing"] IN
     http' = Release(IF broken THEN Detach(failed) ELSE failed)
  /\ UNCHANGED lookup

\* read1; at the end of the body the response closes its file object itself.
BodyReads(end) ==
  /\ http.pc = "body" /\ TimeLeft > 0
  /\ LET read == [http EXCEPT !.pc = "closing", !.reachable = TRUE] IN
     http' = IF end THEN Release(read) ELSE read
  /\ UNCHANGED lookup

BodyFails ==
  /\ http.pc = "body"
  /\ http' = [http EXCEPT !.pc = "closing"]
  /\ UNCHANGED lookup

\* finally: response.close(), if there is one, and connection.close().
Closes ==
  /\ http.pc = "closing"
  /\ LET closed == IF http.response /\ http.refs = 1 THEN Release(http) ELSE http IN
     http' = [Detach(closed) EXCEPT !.pc = "returned"]
  /\ UNCHANGED lookup

HttpNext ==
  \/ \E S \in SUBSET Destinations : LookupAnswers(S)
  \/ ConnectFails \/ PortOpens \/ Connects \/ Handshakes
  \/ Sends \/ SendFails \/ HeadDrips
  \/ \E b \in BOOLEAN : HeadCompletes(b) \/ HeadFails(b) \/ BodyReads(b)
  \/ BodyFails \/ Closes

HttpBlocks ==
  \/ lookup.pc = "asking" /\ now < lookup.until
  \/ http.pc \in {"connect", "tls", "send", "head", "body"} /\ now < http.until

-----------------------------------------------------------------------------
(* Properties. *)

\* The socket is open for as long as the response is being read, although the
\* connection may have been closed already, and closed when http_probe returns.
SocketOutlivesResponse ==
  /\ http.pc \in {"connect", "tls", "send", "head", "body"} => http.socket = "open"
  /\ http.pc = "returned" => http.socket # "open"

\* A request whose answer drips in ends by the deadline set before it connected,
\* plus the little that a late handshake is given.
HttpInTime == http.pc # "idle" => now <= http.deadline + TlsFloor
=============================================================================

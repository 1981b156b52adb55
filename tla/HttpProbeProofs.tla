--------------------------- MODULE HttpProbeProofs ---------------------------
(***************************************************************************)
(* The lookup and the pinned request for every limit and set of addresses:  *)
(* whose socket is open at each point of the request, and until when.       *)
(*                                                                         *)
(* The connection holds the socket while it is attached, the response while *)
(* it has its file object (refs = 1).  Lifetimes says which of the two does *)
(* at each point, so that the last one to let go closes it.                 *)
(***************************************************************************)
EXTENDS HttpProbe, TLAPS

Lifetimes ==
  /\ http.pc \in {"connect", "tls", "send", "head", "body"} => http.socket = "open"
  /\ http.pc \in {"connect", "tls", "send"} => http.refs = 0 /\ ~http.closing
  /\ http.pc \in {"connect", "tls", "send", "head"} => ~http.response
  /\ http.pc = "head" => http.attached /\ ~http.closing
  /\ http.pc \in {"head", "body"} => http.refs = 1
  /\ http.pc = "send" => http.attached
  /\ http.pc = "body" => http.response
  /\ http.pc \in {"body", "closing"} /\ http.socket = "open" => http.attached = ~http.closing
  /\ http.pc = "closing" => (http.refs = 1 => http.response)
                            /\ (http.socket = "open" /\ http.closing => http.refs = 1)
  /\ http.pc = "returned" => http.socket # "open"

HttpTiming ==
  /\ lookup.pc = "asking" => now <= lookup.until
  /\ http.pc # "idle" => now <= http.deadline + TlsFloor
  /\ http.pc = "connect" => http.until <= http.deadline
  /\ http.pc \in {"connect", "tls", "send", "head", "body"} =>
       http.until <= http.deadline + TlsFloor
  /\ http.kind = "port" => /\ http.pc \in {"idle", "connect", "returned"}
                           /\ http.pc # "idle" => now <= http.deadline

HttpInv == HttpTypeOK /\ Lifetimes /\ HttpTiming

-----------------------------------------------------------------------------
\* No socket and no lookup is there before the handler starts.
LEMMA HttpInitially ==
  ASSUME HttpInit
  PROVE  HttpInv /\ lookup.pc = "idle" /\ http.pc = "idle"
<1>1. /\ lookup = [pc |-> "idle", until |-> 0, family |-> "A", answers |-> {}]
      /\ http = [pc |-> "idle", kind |-> "http", secure |-> FALSE, until |-> 0,
                 deadline |-> 0, address |-> {}, socket |-> "none", refs |-> 0,
                 closing |-> FALSE, response |-> FALSE, attached |-> FALSE,
                 reachable |-> FALSE]
  BY DEF HttpInit, LookupIdle, HttpIdle
<1>2. HttpTypeOK
  BY <1>1 DEF HttpTypeOK, HttpRecords, LookupRecords
<1>3. Lifetimes
  BY <1>1 DEF Lifetimes
<1>4. HttpTiming
  BY <1>1 DEF HttpTiming
<1> QED
  BY <1>1, <1>2, <1>3, <1>4 DEF HttpInv

\* The lookup starts; so does a request, on the socket that it connects.
LEMMA LookupStarts ==
  ASSUME HttpInv, now \in Nat, now' = now, LookupStart, http' = http
  PROVE  HttpInv' /\ lookup'.pc = "asking" /\ lookup'.until = now + ResolveLimit
<1>1. PICK until \in Nat : until = now + ResolveLimit /\ now <= until
  BY HttpAssumption
<1>2. lookup' = [pc |-> "asking", until |-> until, family |-> "A", answers |-> {}]
  BY <1>1 DEF LookupStart, LookupIdle
<1>3. HttpTypeOK'
  BY <1>2 DEF HttpInv, HttpTypeOK, HttpRecords, LookupRecords
<1>4. Lifetimes' /\ HttpTiming'
  BY <1>1, <1>2 DEF HttpInv, Lifetimes, HttpTiming
<1> QED
  BY <1>1, <1>2, <1>3, <1>4 DEF HttpInv

\* A request starts with its whole time limit before it.
LEMMA HttpStarts ==
  ASSUME HttpInv, now \in Nat, now' = now, NEW kind \in {"http", "port"},
         NEW secure \in BOOLEAN, NEW address \in SUBSET Destinations,
         HttpStart(kind, secure, address), lookup' = lookup
  PROVE  /\ HttpInv'
         /\ http'.pc = "connect" /\ http'.kind = kind /\ http'.address = address
         /\ http'.deadline = now + (IF kind = "http" THEN RequestLimit ELSE ConnectLimit)
<1>1. PICK limit \in Nat :
        /\ limit = IF kind = "http" THEN RequestLimit ELSE ConnectLimit
        /\ http' = [pc |-> "connect", kind |-> kind, secure |-> secure, until |-> now + limit,
                    deadline |-> now + limit, address |-> address, socket |-> "open",
                    refs |-> 0, closing |-> FALSE, response |-> FALSE, attached |-> FALSE,
                    reachable |-> FALSE]
  BY HttpAssumption DEF HttpStart, HttpIdle
<1>2. TlsFloor \in Nat
  BY HttpAssumption
<1>3. HttpTypeOK'
  BY <1>1 DEF HttpInv, HttpTypeOK, HttpRecords, LookupRecords
<1>4. Lifetimes'
  BY <1>1 DEF Lifetimes
<1>5. HttpTiming'
  BY <1>1, <1>2 DEF HttpInv, HttpTypeOK, HttpRecords, LookupRecords, HttpTiming
<1> QED
  BY <1>1, <1>3, <1>4, <1>5 DEF HttpInv

\* What no step of the request or of its peer changes, and where it stays.
HttpKeeps ==
  /\ http'.kind = http.kind /\ http'.address = http.address
  /\ http'.deadline = http.deadline
  /\ http.pc \notin {"idle", "returned"} /\ http'.pc # "idle" /\ lookup' = lookup

\* One family's answer ends the lookup, or leaves the other family to be asked.
LEMMA LookupStep ==
  ASSUME HttpInv, now \in Nat, now' = now, NEW S \in SUBSET Destinations, LookupAnswers(S)
  PROVE  /\ HttpInv' /\ http' = http
         /\ lookup.pc = "asking" /\ lookup'.pc \in {"asking", "returned"}
         /\ lookup'.until = lookup.until
<1>1. /\ lookup.pc = "asking" /\ http' = http
      /\ \/ lookup' = [lookup EXCEPT !.family = "AAAA", !.answers = S]
         \/ lookup' = [lookup EXCEPT !.pc = "returned", !.answers = lookup.answers \cup S]
  BY DEF LookupAnswers
<1>2. HttpTypeOK'
  <2>1. lookup \in LookupRecords
    BY DEF HttpInv, HttpTypeOK
  <2>2. [lookup EXCEPT !.family = "AAAA", !.answers = S] \in LookupRecords
    BY <2>1 DEF LookupRecords
  <2>3. [lookup EXCEPT !.pc = "returned", !.answers = lookup.answers \cup S] \in LookupRecords
    BY <2>1 DEF LookupRecords
  <2> QED
    BY <1>1, <2>2, <2>3 DEF HttpInv, HttpTypeOK
<1>3. Lifetimes'
  BY <1>1 DEF HttpInv, Lifetimes
<1>4. HttpTiming'
  BY <1>1 DEF HttpInv, HttpTypeOK, HttpRecords, LookupRecords, HttpTiming
<1> QED
  BY <1>1, <1>2, <1>3, <1>4 DEF HttpInv, HttpTypeOK, HttpRecords, LookupRecords

\* Connecting: the socket is attached, or closed on the spot.
LEMMA HttpConnects ==
  ASSUME HttpInv, now \in Nat, now' = now,
         ConnectFails \/ PortOpens \/ Connects \/ Handshakes
  PROVE  HttpInv' /\ HttpKeeps
<1>0. /\ http.pc \in {"connect", "tls"} /\ lookup' = lookup /\ TlsFloor \in Nat
      /\ HttpTypeOK
  BY HttpAssumption DEF HttpInv, ConnectFails, PortOpens, Connects, Handshakes
<1>1. CASE ConnectFails \/ PortOpens
  <2>1. PICK reachable \in BOOLEAN :
          http' = [http EXCEPT !.pc = "returned", !.socket = "closed", !.reachable = reachable]
    <3>1. CASE ConnectFails
      <4>1. http' = [http EXCEPT !.pc = "returned", !.socket = "closed",
                                 !.reachable = http.reachable]
        BY <3>1, <1>0 DEF ConnectFails, HttpTypeOK, HttpRecords, LookupRecords
      <4> QED
        BY <4>1, <1>0 DEF HttpTypeOK, HttpRecords, LookupRecords
    <3>2. CASE PortOpens
      BY <3>2 DEF PortOpens
    <3> QED
      BY <1>1, <3>1, <3>2
  <2>2. HttpTypeOK' /\ HttpKeeps
    BY <1>0, <2>1 DEF HttpTypeOK, HttpRecords, LookupRecords, HttpKeeps
  <2>3. Lifetimes'
    BY <1>0, <2>1 DEF HttpInv, HttpTypeOK, HttpRecords, LookupRecords, Lifetimes
  <2>4. HttpTiming'
    BY <1>0, <2>1 DEF HttpInv, HttpTypeOK, HttpRecords, LookupRecords, HttpTiming
  <2> QED
    BY <2>2, <2>3, <2>4 DEF HttpInv
<1>2. CASE http' = Attached /\ http.kind = "http"
  <2>1. http' = [http EXCEPT !.pc = "send", !.attached = TRUE, !.until = http.deadline]
    BY <1>2 DEF Attached
  <2>2. HttpTypeOK' /\ HttpKeeps
    BY <1>0, <2>1 DEF HttpTypeOK, HttpRecords, LookupRecords, HttpKeeps
  <2>3. Lifetimes'
    BY <1>0, <2>1 DEF HttpInv, HttpTypeOK, HttpRecords, LookupRecords, Lifetimes
  <2>4. HttpTiming'
    BY <1>0, <1>2, <2>1 DEF HttpInv, HttpTypeOK, HttpRecords, LookupRecords, HttpTiming
  <2> QED
    BY <2>2, <2>3, <2>4 DEF HttpInv
<1>3. CASE Connects /\ http.secure
  <2>1. PICK until \in Nat :
          /\ http' = [http EXCEPT !.pc = "tls", !.until = until]
          /\ until <= http.deadline + TlsFloor
    <3>1. now <= http.deadline
      BY <1>3 DEF Connects, HttpInv, HttpTypeOK, HttpRecords, LookupRecords, HttpTiming
    <3>2. /\ Later(http.deadline, now + TlsFloor) \in Nat
          /\ Later(http.deadline, now + TlsFloor) <= http.deadline + TlsFloor
      BY <1>0, <3>1 DEF Later, HttpTypeOK, HttpRecords, LookupRecords
    <3> QED
      BY <1>3, <3>2 DEF Connects
  <2>2. HttpTypeOK' /\ HttpKeeps
    BY <1>0, <2>1 DEF HttpTypeOK, HttpRecords, LookupRecords, HttpKeeps
  <2>3. Lifetimes'
    BY <1>0, <2>1 DEF HttpInv, HttpTypeOK, HttpRecords, LookupRecords, Lifetimes
  <2>4. HttpTiming'
    BY <1>0, <1>3, <2>1 DEF HttpInv, HttpTypeOK, HttpRecords, LookupRecords, HttpTiming, Connects
  <2> QED
    BY <2>2, <2>3, <2>4 DEF HttpInv
<1> QED
  BY <1>0, <1>1, <1>2, <1>3 DEF Connects, Handshakes, HttpInv, HttpTypeOK, HttpRecords, LookupRecords, HttpTiming

\* Sending, and reading the head of the answer piece by piece.
LEMMA HttpExchanges ==
  ASSUME HttpInv, now \in Nat, now' = now,
         Sends \/ SendFails \/ HeadDrips \/ BodyFails
  PROVE  HttpInv' /\ HttpKeeps
<1>0. http.pc \in {"send", "head", "body"} /\ lookup' = lookup /\ HttpTypeOK
  BY DEF HttpInv, Sends, SendFails, HeadDrips, BodyFails
<1>1. CASE Sends \/ HeadDrips
  <2>1. now + TimeLeft = http.deadline
    BY <1>0 DEF TimeLeft, HttpTypeOK, HttpRecords, LookupRecords
  <2>2. http' = [http EXCEPT !.pc = "head", !.refs = 1, !.until = http.deadline]
    <3>1. CASE Sends
      BY <2>1, <3>1 DEF Sends
    <3>2. CASE HeadDrips
      <4>1. http' = [http EXCEPT !.until = http.deadline] /\ http.pc = "head" /\ http.refs = 1
        BY <2>1, <3>2 DEF HeadDrips, HttpInv, Lifetimes
      <4> QED
        BY <1>0, <4>1 DEF HttpTypeOK, HttpRecords, LookupRecords
    <3> QED
      BY <1>1, <3>1, <3>2
  <2>3. HttpTypeOK' /\ HttpKeeps
    <3>1. http.deadline \in Nat /\ 1 \in 0..1
      BY <1>0 DEF HttpTypeOK, HttpRecords, LookupRecords
    <3>2. HttpTypeOK'
      BY <1>0, <2>2, <3>1 DEF HttpTypeOK, HttpRecords, LookupRecords
    <3> QED
      BY <1>0, <2>2, <3>2 DEF HttpTypeOK, HttpRecords, LookupRecords, HttpKeeps
  <2>4. http.pc \in {"send", "head"}
    BY <1>1 DEF Sends, HeadDrips
  <2>5. Lifetimes'
    BY <1>0, <2>2, <2>4 DEF HttpInv, HttpTypeOK, HttpRecords, LookupRecords, Lifetimes
  <2>6. HttpTiming'
    BY <1>0, <2>2, HttpAssumption DEF HttpInv, HttpTypeOK, HttpRecords, LookupRecords, HttpTiming
  <2> QED
    BY <2>3, <2>5, <2>6 DEF HttpInv
<1>2. CASE SendFails \/ BodyFails
  <2>1. http' = [http EXCEPT !.pc = "closing"] /\ http.pc \in {"send", "body"}
    BY <1>2 DEF SendFails, BodyFails
  <2>2. HttpTypeOK' /\ HttpKeeps
    BY <1>0, <2>1 DEF HttpTypeOK, HttpRecords, LookupRecords, HttpKeeps
  <2>3. Lifetimes'
    BY <1>0, <2>1 DEF HttpInv, HttpTypeOK, HttpRecords, LookupRecords, Lifetimes
  <2>4. HttpTiming'
    BY <1>0, <2>1 DEF HttpInv, HttpTypeOK, HttpRecords, LookupRecords, HttpTiming
  <2> QED
    BY <2>2, <2>3, <2>4 DEF HttpInv
<1> QED
  BY <1>1, <1>2

\* What a connection leaves and changes that lets go of its socket.
LEMMA Detached ==
  ASSUME NEW h \in HttpRecords
  PROVE  /\ Detach(h) \in HttpRecords
         /\ Detach(h).pc = h.pc /\ Detach(h).kind = h.kind /\ Detach(h).address = h.address
         /\ Detach(h).deadline = h.deadline /\ Detach(h).until = h.until
         /\ Detach(h).refs = h.refs /\ (Detach(h).response <=> h.response)
         /\ ~Detach(h).attached
         /\ h.attached => Detach(h).closing
         /\ ~h.attached => Detach(h) = h
         /\ h.attached /\ h.refs = 0 => Detach(h).socket = "closed"
         /\ h.attached /\ h.refs = 1 => Detach(h).socket = h.socket
<1>1. CASE ~h.attached
  BY <1>1 DEF Detach
<1>2. CASE h.attached
  <2> DEFINE socket == IF h.refs = 0 THEN "closed" ELSE h.socket
  <2>1. socket \in {"none", "open", "closed"}
    BY DEF HttpRecords
  <2>2. Detach(h) = [h EXCEPT !.attached = FALSE, !.closing = TRUE, !.socket = socket]
    BY <1>2 DEF Detach
  <2>3. (h.refs = 0 => socket = "closed") /\ (h.refs = 1 => socket = h.socket)
    OBVIOUS
  <2> HIDE DEF socket
  <2>4. Detach(h) \in HttpRecords
    BY <2>1, <2>2 DEF HttpRecords
  <2>5. /\ Detach(h).pc = h.pc /\ Detach(h).kind = h.kind /\ Detach(h).address = h.address
        /\ Detach(h).deadline = h.deadline /\ Detach(h).until = h.until
        /\ Detach(h).refs = h.refs /\ Detach(h).response = h.response
        /\ Detach(h).socket = socket
    BY <2>2 DEF HttpRecords
  <2>6. ~Detach(h).attached /\ Detach(h).closing
    BY <2>2 DEF HttpRecords
  <2> QED
    BY <1>2, <2>3, <2>4, <2>5, <2>6
<1> QED
  BY <1>1, <1>2

\* What a response leaves and changes that lets go of it.
LEMMA Released ==
  ASSUME NEW h \in HttpRecords
  PROVE  /\ Release(h) \in HttpRecords
         /\ Release(h).pc = h.pc /\ Release(h).kind = h.kind
         /\ Release(h).address = h.address /\ Release(h).deadline = h.deadline
         /\ Release(h).refs = 0
         /\ (Release(h).response <=> h.response) /\ (Release(h).attached <=> h.attached)
         /\ (Release(h).closing <=> h.closing)
         /\ h.closing => Release(h).socket = "closed"
         /\ ~h.closing => Release(h).socket = h.socket
<1> DEFINE socket == IF h.closing THEN "closed" ELSE h.socket
<1>1. socket \in {"none", "open", "closed"} /\ 0 \in 0..1
  BY DEF HttpRecords
<1>2. Release(h) = [h EXCEPT !.refs = 0, !.socket = socket]
  BY DEF Release
<1>3. (h.closing => socket = "closed") /\ (~h.closing => socket = h.socket)
  OBVIOUS
<1> HIDE DEF socket
<1>4. Release(h) \in HttpRecords
  BY <1>1, <1>2 DEF HttpRecords
<1>5. /\ Release(h).pc = h.pc /\ Release(h).kind = h.kind /\ Release(h).address = h.address
      /\ Release(h).deadline = h.deadline /\ Release(h).refs = 0
      /\ Release(h).socket = socket
  BY <1>2 DEF HttpRecords
<1>6. /\ Release(h).response = h.response /\ Release(h).attached = h.attached
      /\ Release(h).closing = h.closing
  BY <1>2 DEF HttpRecords
<1> QED
  BY <1>3, <1>4, <1>5, <1>6

\* A complete head: the response may now be the only user of the socket.
LEMMA HeadStep ==
  ASSUME HttpInv, now \in Nat, now' = now, NEW close \in BOOLEAN, HeadCompletes(close)
  PROVE  HttpInv' /\ HttpKeeps
<1> DEFINE ready == [http EXCEPT !.pc = "body", !.response = TRUE, !.until = http.deadline]
<1>1. /\ now + TimeLeft = http.deadline /\ http.pc = "head" /\ http.socket = "open"
      /\ http.attached /\ ~http.closing /\ http.refs = 1 /\ lookup' = lookup
      /\ http \in HttpRecords /\ http.deadline \in Nat /\ http.kind # "port"
  BY DEF TimeLeft, HttpInv, HttpTypeOK, HttpRecords, HeadCompletes, Lifetimes, HttpTiming
<1>2. http' = IF close THEN Detach(ready) ELSE ready
  BY <1>1 DEF HeadCompletes
<1>3. ready \in HttpRecords
  BY <1>1 DEF HttpRecords
<1>4. /\ ready.pc = "body" /\ ready.kind = http.kind /\ ready.address = http.address
      /\ ready.deadline = http.deadline /\ ready.until = http.deadline /\ ready.refs = 1
      /\ ready.socket = "open"
  BY <1>1 DEF HttpRecords
<1>5. ready.response /\ ready.attached /\ ~ready.closing
  BY <1>1 DEF HttpRecords
<1> HIDE DEF ready
<1>6. /\ http' \in HttpRecords
      /\ http'.pc = "body" /\ http'.kind = http.kind /\ http'.address = http.address
      /\ http'.deadline = http.deadline /\ http'.until = http.deadline /\ http'.refs = 1
      /\ http'.socket = "open" /\ http'.response /\ (http'.attached <=> ~http'.closing)
  BY <1>2, <1>3, <1>4, <1>5, Detached
<1>7. HttpTypeOK'
  BY <1>1, <1>6 DEF HttpInv, HttpTypeOK
<1>8. Lifetimes'
  <2>1. http'.attached \in BOOLEAN /\ http'.closing \in BOOLEAN
    BY <1>6 DEF HttpRecords
  <2> QED
    BY <1>6, <2>1 DEF Lifetimes
<1>9. HttpTiming' /\ HttpKeeps
  BY <1>1, <1>6, HttpAssumption DEF HttpInv, HttpTiming, HttpKeeps
<1> QED
  BY <1>7, <1>8, <1>9 DEF HttpInv

\* However the exchange ended, whoever still holds the socket is known to
\* close it.
LEMMA ClosingStep ==
  ASSUME HttpInv, now \in Nat, now' = now, lookup' = lookup, http.pc \in {"head", "body"},
         http' \in HttpRecords, http'.pc = "closing",
         http'.kind = http.kind, http'.address = http.address, http'.deadline = http.deadline,
         http'.socket = "open" => (http'.attached <=> ~http'.closing),
         http'.refs = 1 => http'.response,
         http'.socket = "open" /\ http'.closing => http'.refs = 1
  PROVE  HttpInv' /\ HttpKeeps
<1>1. HttpKeeps
  BY DEF HttpKeeps
<1>2. Lifetimes'
  <2>1. http'.attached \in BOOLEAN /\ http'.closing \in BOOLEAN
    BY DEF HttpRecords
  <2> QED
    BY <2>1 DEF Lifetimes
<1>3. HttpTiming'
  BY DEF HttpInv, HttpTiming
<1> QED
  BY <1>1, <1>2, <1>3 DEF HttpInv, HttpTypeOK

\* A head that is late, malformed or cut off.
LEMMA HeadFailsStep ==
  ASSUME HttpInv, now \in Nat, now' = now, NEW broken \in BOOLEAN, HeadFails(broken)
  PROVE  HttpInv' /\ HttpKeeps
<1> DEFINE failed == [http EXCEPT !.pc = "closing"]
           dropped == Detach(failed)
<1>1. /\ http.pc = "head" /\ lookup' = lookup /\ http \in HttpRecords /\ http.attached
      /\ ~http.closing /\ http.refs = 1
  BY DEF HeadFails, HttpInv, HttpTypeOK, Lifetimes
<1>2. http' = Release(dropped) \/ http' = Release(failed)
  BY DEF HeadFails
<1>3. failed \in HttpRecords
  BY <1>1 DEF HttpRecords
<1>4. /\ failed.pc = "closing" /\ failed.kind = http.kind /\ failed.address = http.address
      /\ failed.deadline = http.deadline /\ failed.refs = 1
  BY <1>1 DEF HttpRecords
<1>5. failed.attached /\ ~failed.closing
  BY <1>1 DEF HttpRecords
<1> HIDE DEF failed
<1>6. /\ dropped \in HttpRecords /\ dropped.pc = "closing" /\ dropped.kind = http.kind
      /\ dropped.address = http.address /\ dropped.deadline = http.deadline
      /\ ~dropped.attached /\ dropped.closing
  BY <1>3, <1>4, <1>5, Detached
<1> HIDE DEF dropped
<1>7. CASE http' = Release(dropped)
  BY <1>1, <1>6, <1>7, Released, ClosingStep
<1>8. CASE http' = Release(failed)
  BY <1>1, <1>3, <1>4, <1>5, <1>8, Released, ClosingStep
<1> QED
  BY <1>2, <1>7, <1>8

\* A piece of the body was read, or its end.
LEMMA BodyStep ==
  ASSUME HttpInv, now \in Nat, now' = now, NEW end \in BOOLEAN, BodyReads(end)
  PROVE  HttpInv' /\ HttpKeeps
<1> DEFINE read == [http EXCEPT !.pc = "closing", !.reachable = TRUE]
<1>1. /\ http.pc = "body" /\ lookup' = lookup /\ http \in HttpRecords
      /\ (http.attached <=> ~http.closing) /\ http.refs = 1 /\ http.response
  <2>1. http.attached \in BOOLEAN /\ http.closing \in BOOLEAN
    BY DEF HttpInv, HttpTypeOK, HttpRecords
  <2> QED
    BY <2>1 DEF BodyReads, HttpInv, HttpTypeOK, Lifetimes
<1>2. http' = Release(read) \/ http' = read
  BY DEF BodyReads
<1>3. read \in HttpRecords
  BY <1>1 DEF HttpRecords
<1>4. /\ read.pc = "closing" /\ read.kind = http.kind /\ read.address = http.address
      /\ read.deadline = http.deadline /\ read.refs = 1
  BY <1>1 DEF HttpRecords
<1>5. read.response /\ (read.attached <=> ~read.closing)
  <2>1. /\ read.response = http.response /\ read.attached = http.attached
        /\ read.closing = http.closing
    BY <1>1 DEF HttpRecords
  <2> QED
    BY <1>1, <2>1
<1> HIDE DEF read
<1>6. CASE http' = Release(read)
  BY <1>1, <1>3, <1>4, <1>5, <1>6, Released, ClosingStep
<1>7. CASE http' = read
  BY <1>1, <1>3, <1>4, <1>5, <1>7, ClosingStep
<1> QED
  BY <1>2, <1>6, <1>7

\* finally: the response, if there is one, and then the connection let go.
LEMMA ClosesStep ==
  ASSUME HttpInv, now \in Nat, now' = now, Closes
  PROVE  HttpInv' /\ HttpKeeps
<1>1. /\ http.pc = "closing" /\ lookup' = lookup /\ http \in HttpRecords
      /\ http.socket = "open" => (http.attached <=> ~http.closing)
      /\ http.refs = 1 => http.response
      /\ http.socket = "open" /\ http.closing => http.refs = 1
      /\ http.refs \in {0, 1}
  <2>1. http.refs \in {0, 1} /\ http.attached \in BOOLEAN /\ http.closing \in BOOLEAN
    BY DEF HttpInv, HttpTypeOK, HttpRecords
  <2> QED
    BY <2>1 DEF Closes, HttpInv, HttpTypeOK, Lifetimes
<1>2. PICK closed :
        /\ http' = [Detach(closed) EXCEPT !.pc = "returned"]
        /\ http.refs = 1 /\ http.response => closed = Release(http)
        /\ ~(http.refs = 1 /\ http.response) => closed = http
  BY DEF Closes
<1>3. /\ closed \in HttpRecords /\ closed.kind = http.kind /\ closed.address = http.address
      /\ closed.deadline = http.deadline /\ closed.refs = 0
      /\ closed.socket = "open" => closed.attached
  BY <1>1, <1>2, Released
<1> DEFINE detached == Detach(closed)
<1>4. /\ detached \in HttpRecords /\ detached.kind = http.kind
      /\ detached.address = http.address /\ detached.deadline = http.deadline
      /\ detached.socket # "open"
  BY <1>3, Detached
<1> HIDE DEF detached
<1>5. http' = [detached EXCEPT !.pc = "returned"]
  BY <1>2 DEF detached
<1>6. http' \in HttpRecords
  BY <1>4, <1>5 DEF HttpRecords
<1>7. /\ http'.pc = "returned" /\ http'.socket # "open"
      /\ http'.kind = http.kind /\ http'.address = http.address
      /\ http'.deadline = http.deadline
  BY <1>4, <1>5 DEF HttpRecords
<1>8. Lifetimes'
  BY <1>7 DEF Lifetimes
<1>9. HttpTiming' /\ HttpKeeps
  BY <1>1, <1>7 DEF HttpInv, HttpTiming, HttpKeeps
<1> QED
  BY <1>1, <1>6, <1>8, <1>9 DEF HttpInv, HttpTypeOK

\* Every step of the request and of its peer keeps the invariant.
LEMMA HttpStep ==
  ASSUME HttpInv, now \in Nat, now' = now, HttpNext
  PROVE  /\ HttpInv'
         /\ \/ HttpKeeps
            \/ /\ http' = http /\ lookup.pc = "asking"
               /\ lookup'.pc \in {"asking", "returned"} /\ lookup'.until = lookup.until
<1>1. CASE \E S \in SUBSET Destinations : LookupAnswers(S)
  BY <1>1, LookupStep
<1>2. CASE ConnectFails \/ PortOpens \/ Connects \/ Handshakes
  BY <1>2, HttpConnects
<1>3. CASE Sends \/ SendFails \/ HeadDrips \/ BodyFails
  BY <1>3, HttpExchanges
<1>4. CASE \E b \in BOOLEAN : HeadCompletes(b) \/ HeadFails(b) \/ BodyReads(b)
  BY <1>4, HeadStep, HeadFailsStep, BodyStep
<1>5. CASE Closes
  BY <1>5, ClosesStep
<1> QED
  BY <1>1, <1>2, <1>3, <1>4, <1>5 DEF HttpNext

\* So does a unit of time that passes while one of its calls blocks.
LEMMA HttpTick ==
  ASSUME HttpInv, now \in Nat, now' = now + 1, UNCHANGED httpVars,
         lookup.pc = "asking" => now < lookup.until,
         http.pc # "idle" => /\ http.pc \in {"connect", "tls", "send", "head", "body"}
                             /\ now < http.until
  PROVE  HttpInv'
<1>1. lookup' = lookup /\ http' = http
  BY DEF httpVars
<1>2. HttpTypeOK' /\ Lifetimes'
  BY <1>1 DEF HttpInv, HttpTypeOK, HttpRecords, LookupRecords, Lifetimes
<1>3. HttpTiming'
  BY <1>1, HttpAssumption DEF HttpInv, HttpTypeOK, HttpRecords, LookupRecords, HttpTiming
<1> QED
  BY <1>2, <1>3 DEF HttpInv

\* The invariant is about the lookup, the request and the clock alone.
LEMMA HttpRests ==
  ASSUME HttpInv, now' = now, UNCHANGED httpVars
  PROVE  HttpInv'
<1>1. lookup' = lookup /\ http' = http
  BY DEF httpVars
<1> QED
  BY <1>1 DEF HttpInv, HttpTypeOK, HttpRecords, LookupRecords, Lifetimes, HttpTiming
=============================================================================

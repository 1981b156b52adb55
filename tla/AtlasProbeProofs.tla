-------------------------- MODULE AtlasProbeProofs --------------------------
(***************************************************************************)
(* mongodb_atlas_connectivity for any number of shards, addresses, records  *)
(* and probes: who is probed, what "unreachable" means, and by when.        *)
(*                                                                         *)
(* Each candidate is still to be visited, is being visited, was reported,   *)
(* or was given up with all the others when the budget ran out.  Vetting    *)
(* says that the probes of a host belong to the one answer it is reported   *)
(* with, Progress that nothing was left out on the way to a verdict.        *)
(***************************************************************************)
EXTENDS AtlasProbe, FiniteSetTheorems, NaturalsInduction, TLAPS

Visiting == atlas.pc \in {"dns", "probe", "tcp", "tls"}
Probing == atlas.pc \in {"probe", "tcp", "tls"}

Kept == Smallest(MaxKept, atlas.answers)

Vetting ==
  /\ Visiting => atlas.host \in ShardHosts \ atlas.todo
  /\ \A s \in shards : s.host \notin atlas.todo /\ (Visiting => s.host # atlas.host)
  /\ \A p \in probes : p.host \notin atlas.todo /\ (atlas.pc = "dns" => p.host # atlas.host)
  /\ Probing => /\ Kept \subseteq PublicAddresses
                /\ atlas.addresses \subseteq Kept
                /\ \A p \in probes : p.host = atlas.host => p.address \in Kept
  /\ atlas.pc \in {"tcp", "tls"} => atlas.addresses # {}
  /\ ProbesAreVetted

Tried(host, address) == \E p \in probes : p.host = host /\ p.address = address

Settled(host) ==
  \E s \in shards :
    /\ s.host = host
    /\ s.resolved => \A a \in Smallest(MaxAddresses, Smallest(MaxKept, s.answer)) :
                       Tried(host, a)

Progress ==
  /\ \A host \in atlas.candidates :
       \/ host \in atlas.todo \/ (Visiting /\ host = atlas.host)
       \/ atlas.exhausted \/ Settled(host)
  /\ Probing => \A a \in Smallest(MaxAddresses, Kept) :
                  a \in atlas.addresses \/ Tried(atlas.host, a)
  /\ atlas.exhausted => atlas.todo = {} /\ ~Visiting
  /\ atlas.pc \in {"idle", "srv"} =>
       shards = {} /\ probes = {} /\ atlas.candidates = {} /\ ~atlas.exhausted
  /\ UnreachableIsEarned

\* The deadlines of the calls that block are within that of the handler.
Timing ==
  /\ AtlasInTime
  /\ atlas.pc \in {"srv", "dns", "tcp", "tls"} => atlas.until <= atlas.deadline

Budget ==
  /\ IsFiniteSet(probes) /\ ProbesBounded
  /\ atlas.pc \in {"tcp", "tls"} => Cardinality(probes) < MaxProbes

AtlasInv == AtlasTypeOK /\ Vetting /\ Progress /\ Timing /\ Budget

-----------------------------------------------------------------------------
\* The smallest addresses of a set are members of it.
LEMMA SmallestWithin ==
  \A k, S : Smallest(k, S) \subseteq S
  BY DEF Smallest

\* A set that is not larger than k is not cut.
LEMMA FewAreKept ==
  ASSUME NEW k \in Nat, NEW S, S \subseteq Nat, IsFiniteSet(S), Cardinality(S) <= k
  PROVE  S \subseteq Smallest(k, S)
<1> SUFFICES ASSUME NEW a \in S PROVE Cardinality({b \in S : b < a}) < k
  BY DEF Smallest
<1> DEFINE before == {b \in S : b < a}
<1>1. /\ IsFiniteSet(S \ {a}) /\ Cardinality(S \ {a}) = Cardinality(S) - 1
      /\ Cardinality(S) \in Nat
  BY FS_RemoveElement, FS_CardinalityType
<1>2. before \subseteq S \ {a}
  OBVIOUS
<1> HIDE DEF before
<1>3. Cardinality(before) \in Nat /\ Cardinality(before) <= Cardinality(S \ {a})
  BY <1>1, <1>2, FS_Subset, FS_CardinalityType
<1>4. Cardinality(before) < k
  BY <1>1, <1>3
<1> QED
  BY <1>4 DEF before

\* The address to be probed is one of those that are left.
LEMMA AddressChosen ==
  ASSUME AtlasTypeOK, atlas.addresses # {}
  PROVE  Address \in atlas.addresses
<1> DEFINE Less == {ss \in Nat \X Nat : ss[1] < ss[2]}
<1>1. atlas.addresses \subseteq Nat
  BY AtlasAssumption DEF AtlasTypeOK, AtlasRecords
<1>2. IsWellFoundedOn(Less, Nat)
  BY NatLessThanWellFounded, Zenon DEF OpToRel
<1>3. \A m, n \in Nat : m < n => <<m, n>> \in Less
  OBVIOUS
<1> HIDE DEF Less
<1>4. PICK a \in atlas.addresses : \A b \in atlas.addresses : <<b, a>> \notin Less
  BY <1>1, <1>2, WFMin
<1>5. ASSUME NEW b \in atlas.addresses PROVE a <= b
  <2>1. a \in Nat /\ b \in Nat
    BY <1>1
  <2>2. ~(b < a)
    BY <1>3, <1>4, <2>1
  <2> QED
    BY <2>1, <2>2
<1> QED
  BY <1>5 DEF Address

\* Nothing was looked up or probed before the handler starts.
LEMMA AtlasInitially ==
  ASSUME AtlasInit
  PROVE  AtlasInv /\ atlas.pc = "idle"
<1>1. atlas = [pc |-> "idle", deadline |-> 0, until |-> 0, candidates |-> {}, todo |-> {},
               host |-> NoHost, family |-> "A", answers |-> {}, addresses |-> {},
               exhausted |-> FALSE, reachable |-> FALSE, error |-> "none"]
      /\ shards = {} /\ probes = {}
  BY DEF AtlasInit, AtlasIdle
<1>2. AtlasTypeOK
  BY <1>1 DEF AtlasTypeOK, AtlasRecords, AtlasErrors
<1>3. Vetting
  BY <1>1 DEF Vetting, Visiting, Probing, ProbesAreVetted
<1>4. Progress
  BY <1>1 DEF Progress, Visiting, Probing, UnreachableIsEarned
<1>5. Timing
  BY <1>1 DEF Timing, AtlasInTime
<1>6. Budget
  BY <1>1, FS_EmptySet, AtlasAssumption DEF Budget, ProbesBounded
<1> QED
  BY <1>1, <1>2, <1>3, <1>4, <1>5, <1>6 DEF AtlasInv

\* The SRV lookup starts, with the whole time limit before it.
LEMMA AtlasStarts ==
  ASSUME AtlasInv, atlas.pc = "idle", now \in Nat, now' = now, AtlasStart
  PROVE  AtlasInv' /\ atlas'.pc = "srv" /\ atlas'.deadline = now + AtlasLimit
<1>0. shards = {} /\ probes = {} /\ shards' = {} /\ probes' = {}
  BY DEF AtlasInv, Progress, AtlasStart
<1>1. PICK deadline \in Nat, until \in Nat :
        /\ now <= deadline /\ until <= deadline /\ deadline = now + AtlasLimit
        /\ atlas' = [pc |-> "srv", deadline |-> deadline, until |-> until, candidates |-> {},
                     todo |-> {}, host |-> NoHost, family |-> "A", answers |-> {},
                     addresses |-> {}, exhausted |-> FALSE, reachable |-> FALSE,
                     error |-> "none"]
  <2>1. /\ now + AtlasLimit \in Nat /\ now + Earlier(AtlasLimit, DnsLimit) \in Nat
        /\ now <= now + AtlasLimit /\ now + Earlier(AtlasLimit, DnsLimit) <= now + AtlasLimit
    BY AtlasAssumption DEF Earlier
  <2> QED
    BY <2>1 DEF AtlasStart, AtlasIdle
<1>2. AtlasTypeOK'
  BY <1>0, <1>1 DEF AtlasTypeOK, AtlasRecords, AtlasErrors
<1>3. Vetting'
  BY <1>0, <1>1 DEF Vetting, Visiting, Probing, ProbesAreVetted
<1>4. Progress'
  BY <1>0, <1>1 DEF Progress, Visiting, Probing, UnreachableIsEarned
<1>5. Timing'
  BY <1>1 DEF Timing, AtlasInTime
<1>6. Budget'
  BY <1>0, <1>1, FS_EmptySet, AtlasAssumption DEF Budget, ProbesBounded
<1> QED
  BY <1>1, <1>2, <1>3, <1>4, <1>5, <1>6 DEF AtlasInv

\* The SRV lookup fails, names nobody, or names the candidates.
LEMMA SrvStep ==
  ASSUME AtlasInv, now \in Nat, now' = now,
         SrvFails \/ \E hosts \in SUBSET (ShardHosts \cup ForeignHosts) \ {{}} : SrvAnswers(hosts)
  PROVE  AtlasInv'
<1>0. atlas.pc = "srv" /\ shards = {} /\ probes = {} /\ shards' = {} /\ probes' = {}
  BY DEF AtlasInv, Progress, SrvFails, SrvAnswers
<1>1. PICK error \in {"srv_failed", "no_targets"}, kept \in SUBSET ShardHosts :
        \/ atlas' = [atlas EXCEPT !.pc = "returned", !.error = error]
        \/ atlas' = [atlas EXCEPT !.pc = "next", !.candidates = kept, !.todo = kept]
  BY DEF SrvFails, SrvAnswers, Permitted, AtlasReturned
<1>2. AtlasTypeOK'
  <2>1. error \in AtlasErrors
    BY DEF AtlasErrors
  <2>2. atlas \in AtlasRecords
    BY DEF AtlasInv, AtlasTypeOK
  <2>3. [atlas EXCEPT !.pc = "returned", !.error = error] \in AtlasRecords
    BY <2>1, <2>2 DEF AtlasRecords
  <2>4. [atlas EXCEPT !.pc = "next", !.candidates = kept, !.todo = kept] \in AtlasRecords
    BY <2>2 DEF AtlasRecords
  <2> QED
    BY <1>0, <1>1, <2>3, <2>4 DEF AtlasTypeOK
<1>3. Vetting'
  BY <1>0, <1>1 DEF AtlasInv, AtlasTypeOK, AtlasRecords, Vetting, Visiting, Probing, ProbesAreVetted
<1>4. Progress'
  <2>1. atlas.candidates = {} /\ ~atlas.exhausted
    BY <1>0 DEF AtlasInv, Progress
  <2>2. /\ ~atlas'.exhausted /\ atlas'.pc \in {"next", "returned"}
        /\ atlas'.candidates \subseteq atlas'.todo
        /\ atlas'.pc = "returned" => atlas'.error # "tls_unreachable"
    <3>1. CASE atlas' = [atlas EXCEPT !.pc = "returned", !.error = error]
      BY <2>1, <3>1 DEF AtlasInv, AtlasTypeOK, AtlasRecords
    <3>2. CASE atlas' = [atlas EXCEPT !.pc = "next", !.candidates = kept, !.todo = kept]
      BY <2>1, <3>2 DEF AtlasInv, AtlasTypeOK, AtlasRecords
    <3> QED
      BY <1>1, <3>1, <3>2
  <2> QED
    BY <2>2 DEF Progress, Visiting, Probing, UnreachableIsEarned
<1>5. Timing'
  BY <1>0, <1>1 DEF AtlasInv, AtlasTypeOK, AtlasRecords, Timing, AtlasInTime
<1>6. Budget'
  BY <1>0, <1>1, FS_EmptySet, AtlasAssumption DEF AtlasInv, AtlasTypeOK, AtlasRecords, Budget, ProbesBounded
<1> QED
  BY <1>2, <1>3, <1>4, <1>5, <1>6 DEF AtlasInv

\* A shard is reported with its answer, and the next one is looked for.
LEMMA ReportStep ==
  ASSUME AtlasInv, now' = now, NEW host \in ShardHosts, NEW resolved \in BOOLEAN,
         NEW answer \in SUBSET Addresses,
         Report(host, resolved, answer), probes' = probes,
         atlas'.pc = "next", AtlasTypeOK', atlas'.deadline = atlas.deadline,
         atlas'.candidates = atlas.candidates,
         atlas.pc # "idle",
         atlas'.todo \subseteq atlas.todo \ {host},
         \A h \in atlas.candidates :
           h \in atlas'.todo \/ h = host \/ atlas'.exhausted \/ Settled(h),
         atlas'.exhausted => atlas'.todo = {},
         \A p \in probes : p.host = host =>
           resolved /\ p.address \in Smallest(MaxKept, answer),
         resolved => Smallest(MaxKept, answer) \subseteq PublicAddresses,
         \A s \in shards : s.host # host,
         resolved /\ ~atlas'.exhausted =>
           \A a \in Smallest(MaxAddresses, Smallest(MaxKept, answer)) : Tried(host, a)
  PROVE  AtlasInv'
<1> DEFINE new == [host |-> host, resolved |-> resolved, answer |-> answer]
<1>0. shards' = shards \cup {new} /\ new.host = host /\ new.resolved = resolved
      /\ new.answer = answer
  BY DEF Report
<1> HIDE DEF new
<1>1. ~Visiting' /\ ~Probing'
  BY DEF Visiting, Probing
<1>2. Vetting'
  <2>1. \A s \in shards' : s.host \notin atlas'.todo
    BY <1>0 DEF AtlasInv, Vetting
  <2>2. \A p \in probes' : p.host \notin atlas'.todo
    BY DEF AtlasInv, Vetting
  <2>3. resolved /\ Cardinality(answer) <= MaxKept => answer \subseteq PublicAddresses
    <3>1. answer \subseteq Nat /\ IsFiniteSet(answer) /\ MaxKept \in Nat
      BY AtlasAssumption, FS_Subset
    <3> QED
      BY <3>1, FewAreKept
  <2>4. ProbesAreVetted'
    BY <1>0, <2>3 DEF AtlasInv, Vetting, ProbesAreVetted
  <2> QED
    BY <1>1, <2>1, <2>2, <2>4 DEF Vetting
<1>3. Progress'
  <2>1. \A h : Settled(h) => Settled(h)'
    BY <1>0 DEF Settled, Tried
  <2>2. ~atlas'.exhausted => Settled(host)'
    BY <1>0 DEF Settled, Tried
  <2>3. \A h \in atlas'.candidates : h \in atlas'.todo \/ atlas'.exhausted \/ Settled(h)'
    BY <2>1, <2>2
  <2> QED
    BY <1>1, <2>3 DEF Progress, UnreachableIsEarned
<1>4. Timing'
  BY DEF AtlasInv, Timing, AtlasInTime
<1>5. Budget'
  BY DEF AtlasInv, Budget, ProbesBounded
<1> QED
  BY <1>2, <1>3, <1>4, <1>5 DEF AtlasInv

\* The address lookup of the next shard, unless there is no time for it.
LEMMA ShardStep ==
  ASSUME AtlasInv, now \in Nat, now' = now, NEW host \in ShardHosts, NextShard(host)
  PROVE  AtlasInv'
<1>0. atlas.pc = "next" /\ host \in atlas.todo /\ probes' = probes
      /\ atlas.todo \subseteq ShardHosts /\ ~atlas.exhausted
  BY DEF AtlasInv, AtlasTypeOK, AtlasRecords, Progress, NextShard
<1>1. CASE now >= atlas.deadline
  <2>1. atlas' = [atlas EXCEPT !.todo = atlas.todo \ {host}] /\ Report(host, FALSE, {})
    BY <1>1 DEF NextShard
  <2>2. AtlasTypeOK'
    <3>1. [host |-> host, resolved |-> FALSE, answer |-> {}]
            \in [host : ShardHosts, resolved : BOOLEAN, answer : SUBSET Addresses]
      OBVIOUS
    <3> QED
      BY <1>0, <2>1, <3>1 DEF AtlasInv, AtlasTypeOK, AtlasRecords, Report
  <2>3. /\ atlas'.pc = "next" /\ atlas'.deadline = atlas.deadline /\ ~atlas'.exhausted
        /\ atlas'.candidates = atlas.candidates /\ atlas'.todo = atlas.todo \ {host}
    BY <1>0, <2>1 DEF AtlasInv, AtlasTypeOK, AtlasRecords
  <2>4. /\ \A p \in probes : p.host # host
        /\ \A s \in shards : s.host # host
        /\ \A h \in atlas.candidates : h \in atlas.todo \/ Settled(h)
    BY <1>0 DEF AtlasInv, Vetting, Progress, Visiting
  <2> QED
    BY <1>0, <2>1, <2>2, <2>3, <2>4, ReportStep
<1>2. CASE ~(now >= atlas.deadline)
  <2>1. PICK until \in Nat :
          /\ until <= atlas.deadline
          /\ atlas' = [atlas EXCEPT !.pc = "dns", !.todo = atlas.todo \ {host}, !.host = host,
                         !.family = "A", !.answers = {}, !.until = until]
    <3>1. Earlier(atlas.deadline, now + DnsLimit) \in Nat
          /\ Earlier(atlas.deadline, now + DnsLimit) <= atlas.deadline
      BY AtlasAssumption DEF Earlier, AtlasInv, AtlasTypeOK, AtlasRecords
    <3> QED
      BY <1>2, <3>1 DEF NextShard
  <2>2. shards' = shards
    BY <1>2 DEF NextShard
  <2>3. AtlasTypeOK'
    BY <1>0, <2>1, <2>2 DEF AtlasInv, AtlasTypeOK, AtlasRecords
  <2>4. /\ atlas'.pc = "dns" /\ atlas'.deadline = atlas.deadline /\ ~atlas'.exhausted
        /\ atlas'.candidates = atlas.candidates /\ atlas'.todo = atlas.todo \ {host}
        /\ atlas'.host = host /\ atlas'.until <= atlas'.deadline
    BY <1>0, <2>1 DEF AtlasInv, AtlasTypeOK, AtlasRecords
  <2>5. Vetting'
    BY <1>0, <2>2, <2>4 DEF AtlasInv, Vetting, Visiting, Probing, ProbesAreVetted
  <2>6. Progress'
    <3>1. \A h : Settled(h) => Settled(h)'
      BY <1>0, <2>2 DEF Settled, Tried
    <3> QED
      BY <1>0, <2>4, <3>1 DEF AtlasInv, Progress, Visiting, Probing, UnreachableIsEarned
  <2>7. Timing'
    BY <1>0, <1>2, <2>4 DEF AtlasInv, Timing, AtlasInTime
  <2>8. Budget'
    BY <1>0, <2>4 DEF AtlasInv, Budget, ProbesBounded
  <2> QED
    BY <2>3, <2>5, <2>6, <2>7, <2>8 DEF AtlasInv
<1> QED
  BY <1>1, <1>2

\* A shard whose answer is missing, or has an address that is not public, is
\* reported without one.
LEMMA UnresolvedStep ==
  ASSUME AtlasInv, now' = now, atlas.pc = "dns", Unresolved, probes' = probes
  PROVE  AtlasInv'
<1>1. /\ atlas' = [atlas EXCEPT !.pc = "next", !.answers = {}]
      /\ Report(atlas.host, FALSE, {}) /\ atlas.host \in ShardHosts \ atlas.todo
      /\ Visiting /\ ~atlas.exhausted
  BY DEF Unresolved, AtlasInv, Vetting, Progress, Visiting
<1>2. AtlasTypeOK'
  <2>1. [host |-> atlas.host, resolved |-> FALSE, answer |-> {}]
          \in [host : ShardHosts, resolved : BOOLEAN, answer : SUBSET Addresses]
    BY <1>1
  <2> QED
    BY <1>1, <2>1 DEF AtlasInv, AtlasTypeOK, AtlasRecords, Report
<1>3. /\ atlas'.pc = "next" /\ atlas'.deadline = atlas.deadline /\ ~atlas'.exhausted
      /\ atlas'.candidates = atlas.candidates /\ atlas'.todo = atlas.todo
  BY <1>1 DEF AtlasInv, AtlasTypeOK, AtlasRecords
<1>4. /\ \A p \in probes : p.host # atlas.host
      /\ \A s \in shards : s.host # atlas.host
      /\ \A h \in atlas.candidates : h \in atlas.todo \/ h = atlas.host \/ Settled(h)
  BY <1>1 DEF AtlasInv, Vetting, Progress
<1>5. PICK host \in ShardHosts : host = atlas.host
  BY <1>1
<1>6. atlas'.todo \subseteq atlas.todo \ {host} /\ Report(host, FALSE, {})
  BY <1>1, <1>3, <1>5
<1> QED
  BY <1>2, <1>3, <1>4, <1>5, <1>6, ReportStep

\* An answer of either family; with the second one the shard is vetted.
LEMMA DnsStep ==
  ASSUME AtlasInv, now \in Nat, now' = now,
         (\E S \in SUBSET Addresses : DnsAnswers(S)) \/ DnsBreaks
  PROVE  AtlasInv'
<1>1. CASE DnsBreaks
  BY <1>1, UnresolvedStep DEF DnsBreaks
<1>2. ASSUME NEW S \in SUBSET Addresses, DnsAnswers(S) PROVE AtlasInv'
  <2> DEFINE answers == atlas.answers \cup S
  <2>0. /\ atlas.pc = "dns" /\ probes' = probes /\ Visiting
        /\ answers \in SUBSET Addresses
    BY <1>2 DEF DnsAnswers, Visiting, AtlasInv, AtlasTypeOK, AtlasRecords
  <2> HIDE DEF answers
  <2>1. CASE atlas.family # "A" /\ Vetted(answers) = {}
    BY <1>2, <2>0, <2>1, UnresolvedStep DEF DnsAnswers, answers
  <2>2. CASE atlas.family = "A"
    <3>1. atlas' = [atlas EXCEPT !.family = "AAAA", !.answers = S] /\ shards' = shards
      BY <1>2, <2>2 DEF DnsAnswers
    <3>2. AtlasTypeOK'
      BY <2>0, <3>1 DEF AtlasInv, AtlasTypeOK, AtlasRecords
    <3>3. /\ atlas'.pc = "dns" /\ atlas'.deadline = atlas.deadline /\ atlas'.until = atlas.until
          /\ atlas'.candidates = atlas.candidates /\ atlas'.todo = atlas.todo
          /\ atlas'.host = atlas.host /\ atlas'.exhausted = atlas.exhausted
      BY <2>0, <3>1 DEF AtlasInv, AtlasTypeOK, AtlasRecords
    <3>4. Vetting'
      BY <2>0, <3>1, <3>3 DEF AtlasInv, Vetting, Visiting, Probing, ProbesAreVetted
    <3>5. Progress'
      <4>1. \A h : Settled(h) => Settled(h)'
        BY <2>0, <3>1 DEF Settled, Tried
      <4> QED
        BY <2>0, <3>3, <4>1 DEF AtlasInv, Progress, Visiting, Probing, UnreachableIsEarned
    <3>6. Timing'
      BY <2>0, <3>3 DEF AtlasInv, Timing, AtlasInTime
    <3>7. Budget'
      BY <2>0, <3>3 DEF AtlasInv, Budget, ProbesBounded
    <3> QED
      BY <3>2, <3>4, <3>5, <3>6, <3>7 DEF AtlasInv
  <2>3. CASE atlas.family # "A" /\ Vetted(answers) # {}
    <3> DEFINE kept == Smallest(MaxKept, answers)
    <3>0. /\ Vetted(answers) = kept /\ kept \subseteq PublicAddresses
          /\ kept \subseteq Addresses /\ Smallest(MaxAddresses, kept) \subseteq kept
      BY <2>0, <2>3, SmallestWithin DEF Vetted
    <3>1. /\ atlas' = [atlas EXCEPT !.pc = "probe", !.answers = answers,
                                    !.addresses = Smallest(MaxAddresses, kept)]
          /\ shards' = shards
      BY <1>2, <2>3, <3>0 DEF DnsAnswers, answers
    <3>2. AtlasTypeOK'
      BY <2>0, <3>0, <3>1 DEF AtlasInv, AtlasTypeOK, AtlasRecords
    <3>3. /\ atlas'.pc = "probe" /\ atlas'.deadline = atlas.deadline
          /\ atlas'.candidates = atlas.candidates /\ atlas'.todo = atlas.todo
          /\ atlas'.host = atlas.host /\ atlas'.exhausted = atlas.exhausted
          /\ atlas'.answers = answers /\ atlas'.addresses = Smallest(MaxAddresses, kept)
      BY <2>0, <3>1 DEF AtlasInv, AtlasTypeOK, AtlasRecords
    <3>4. Kept' = kept
      BY <3>3 DEF Kept
    <3> HIDE DEF kept
    <3>5. Vetting'
      BY <2>0, <3>0, <3>1, <3>3, <3>4 DEF AtlasInv, Vetting, Visiting, Probing, ProbesAreVetted
    <3>6. Progress'
      <4>1. \A h : Settled(h) => Settled(h)'
        BY <2>0, <3>1 DEF Settled, Tried
      <4> QED
        BY <2>0, <3>3, <3>4, <4>1 DEF AtlasInv, Progress, Visiting, Probing, UnreachableIsEarned
    <3>7. Timing'
      BY <2>0, <3>3 DEF AtlasInv, Timing, AtlasInTime
    <3>8. Budget'
      BY <2>0, <3>3 DEF AtlasInv, Budget, ProbesBounded
    <3> QED
      BY <3>2, <3>5, <3>6, <3>7, <3>8 DEF AtlasInv
  <2> QED
    BY <2>1, <2>2, <2>3
<1> QED
  BY <1>1, <1>2

\* A probe starts, or its TCP connection is there: the deadlines are kept.
LEMMA ConnectStep ==
  ASSUME AtlasInv, now \in Nat, now' = now, NextAddress \/ TcpConnects
  PROVE  AtlasInv'
<1>1. /\ atlas.pc \in {"probe", "tcp"} /\ atlas.addresses # {}
      /\ shards' = shards /\ probes' = probes
  BY DEF NextAddress, TcpConnects, AtlasInv, Vetting
<1>2. PICK pc \in {"tcp", "tls"}, until \in Nat :
        /\ atlas' = [atlas EXCEPT !.pc = pc, !.until = until]
        /\ until <= atlas.deadline
        /\ Cardinality(probes) < MaxProbes
  <2>1. CASE TcpConnects
    <3>1. atlas' = [atlas EXCEPT !.pc = "tls", !.until = atlas.until]
      BY <2>1 DEF TcpConnects, AtlasInv, AtlasTypeOK, AtlasRecords
    <3> QED
      BY <2>1, <3>1 DEF TcpConnects, AtlasInv, AtlasTypeOK, AtlasRecords, Timing, Budget
  <2>2. CASE NextAddress
    <3>1. Earlier(atlas.deadline, now + EndpointLimit) \in Nat
          /\ Earlier(atlas.deadline, now + EndpointLimit) <= atlas.deadline
      BY AtlasAssumption DEF Earlier, AtlasInv, AtlasTypeOK, AtlasRecords
    <3>2. Cardinality(probes) < MaxProbes
      BY <2>2, FS_CardinalityType, AtlasAssumption
      DEF NextAddress, OutOfBudget, AtlasInv, Budget
    <3> QED
      BY <2>2, <3>1, <3>2 DEF NextAddress
  <2> QED
    BY <2>1, <2>2
<1>3. AtlasTypeOK'
  BY <1>1, <1>2 DEF AtlasInv, AtlasTypeOK, AtlasRecords
<1>4. /\ atlas'.pc \in {"tcp", "tls"} /\ atlas'.deadline = atlas.deadline
      /\ atlas'.until <= atlas'.deadline
      /\ atlas'.candidates = atlas.candidates /\ atlas'.todo = atlas.todo
      /\ atlas'.host = atlas.host /\ atlas'.exhausted = atlas.exhausted
      /\ atlas'.answers = atlas.answers /\ atlas'.addresses = atlas.addresses
  BY <1>2 DEF AtlasInv, AtlasTypeOK, AtlasRecords
<1>5. Kept' = Kept
  BY <1>4 DEF Kept
<1>6. Vetting'
  BY <1>1, <1>4, <1>5 DEF AtlasInv, Vetting, Visiting, Probing, ProbesAreVetted
<1>7. Progress'
  <2>1. \A h : Settled(h) => Settled(h)'
    BY <1>1 DEF Settled, Tried
  <2>2. \A h, a : Tried(h, a) => Tried(h, a)'
    BY <1>1 DEF Tried
  <2> QED
    BY <1>1, <1>4, <1>5, <2>1, <2>2
    DEF AtlasInv, Progress, Visiting, Probing, UnreachableIsEarned
<1>8. Timing'
  BY <1>1, <1>4 DEF AtlasInv, Timing, AtlasInTime
<1>9. Budget'
  BY <1>1, <1>2 DEF AtlasInv, Budget, ProbesBounded
<1> QED
  BY <1>3, <1>6, <1>7, <1>8, <1>9 DEF AtlasInv

\* A shard is left when all its addresses were tried, or the budget is used up.
LEMMA LeaveStep ==
  ASSUME AtlasInv, now' = now, LeaveShard
  PROVE  AtlasInv'
<1> DEFINE out == atlas.addresses # {}
<1>0. atlas.pc = "probe" /\ Visiting /\ Probing /\ probes' = probes
  BY DEF LeaveShard, Visiting, Probing
<1>1. /\ atlas' = [atlas EXCEPT !.pc = "next", !.exhausted = out,
                                !.todo = IF out THEN {} ELSE atlas.todo]
      /\ Report(atlas.host, TRUE, atlas.answers) /\ atlas.host \in ShardHosts \ atlas.todo
  BY <1>0 DEF LeaveShard, AtlasInv, Vetting
<1>2. atlas.answers \subseteq Addresses /\ Kept = Smallest(MaxKept, atlas.answers)
  BY DEF Kept, AtlasInv, AtlasTypeOK, AtlasRecords
<1>3. AtlasTypeOK'
  <2>1. [host |-> atlas.host, resolved |-> TRUE, answer |-> atlas.answers]
          \in [host : ShardHosts, resolved : BOOLEAN, answer : SUBSET Addresses]
    BY <1>1, <1>2
  <2> QED
    BY <1>0, <1>1, <2>1 DEF AtlasInv, AtlasTypeOK, AtlasRecords, Report
<1>4. /\ atlas'.pc = "next" /\ atlas'.deadline = atlas.deadline /\ atlas'.exhausted = out
      /\ atlas'.candidates = atlas.candidates
      /\ atlas'.todo = IF out THEN {} ELSE atlas.todo
  BY <1>1 DEF AtlasInv, AtlasTypeOK, AtlasRecords
<1> HIDE DEF out
<1>5. /\ \A p \in probes : p.host = atlas.host => p.address \in Kept
      /\ Kept \subseteq PublicAddresses
      /\ \A s \in shards : s.host # atlas.host
      /\ \A h \in atlas.candidates :
           h \in atlas.todo \/ h = atlas.host \/ atlas.exhausted \/ Settled(h)
      /\ ~atlas.exhausted
  BY <1>0 DEF AtlasInv, Vetting, Progress
<1>6. ~out => \A a \in Smallest(MaxAddresses, Kept) : Tried(atlas.host, a)
  BY <1>0 DEF AtlasInv, Progress, out
<1>7. /\ atlas'.todo \subseteq atlas.todo \ {atlas.host}
      /\ atlas'.exhausted => atlas'.todo = {}
      /\ \A h \in atlas.candidates :
           h \in atlas'.todo \/ h = atlas.host \/ atlas'.exhausted \/ Settled(h)
  BY <1>1, <1>4, <1>5
<1>8. PICK host \in ShardHosts, answer \in SUBSET Addresses :
        host = atlas.host /\ answer = atlas.answers /\ Kept = Smallest(MaxKept, answer)
  BY <1>1, <1>2
<1>9. Report(host, TRUE, answer)
  BY <1>1, <1>8
<1> QED
  BY <1>0, <1>3, <1>4, <1>5, <1>6, <1>7, <1>8, <1>9, ReportStep

\* The probe of one address ends, with a verified handshake or without.
LEMMA ProbeStep ==
  ASSUME AtlasInv, now' = now, NEW tls \in BOOLEAN, atlas.pc \in {"tcp", "tls"}, Probed(tls)
  PROVE  AtlasInv'
<1> DEFINE new == [host |-> atlas.host, address |-> Address, tls |-> tls]
<1>0. /\ Visiting /\ Probing /\ atlas.host \in ShardHosts \ atlas.todo
      /\ shards' = shards /\ Address \in atlas.addresses
      /\ Kept \subseteq PublicAddresses /\ atlas.addresses \subseteq Kept
      /\ ~atlas.exhausted
  BY AddressChosen DEF Probed, AtlasInv, Vetting, Progress, Visiting, Probing
<1>1. /\ probes' = probes \cup {new}
      /\ atlas' = [atlas EXCEPT !.pc = "probe", !.addresses = atlas.addresses \ {Address}]
  BY DEF Probed
<1>2. new.host = atlas.host /\ new.address = Address
  OBVIOUS
<1>3. AtlasTypeOK'
  <2>1. new \in [host : ShardHosts, address : Addresses, tls : BOOLEAN]
    BY <1>0 DEF AtlasInv, AtlasTypeOK, AtlasRecords
  <2> HIDE DEF new
  <2> QED
    BY <1>0, <1>1, <2>1 DEF AtlasInv, AtlasTypeOK, AtlasRecords
<1> HIDE DEF new
<1>4. /\ atlas'.pc = "probe" /\ atlas'.deadline = atlas.deadline
      /\ atlas'.candidates = atlas.candidates /\ atlas'.todo = atlas.todo
      /\ atlas'.host = atlas.host /\ atlas'.exhausted = atlas.exhausted
      /\ atlas'.answers = atlas.answers /\ atlas'.addresses = atlas.addresses \ {Address}
  BY <1>1 DEF AtlasInv, AtlasTypeOK, AtlasRecords
<1>5. Kept' = Kept
  BY <1>4 DEF Kept
<1>6. Vetting'
  <2>1. \A s \in shards : s.host # atlas.host
    BY <1>0 DEF AtlasInv, Vetting
  <2>2. ProbesAreVetted'
    BY <1>0, <1>1, <1>2, <2>1 DEF AtlasInv, Vetting, ProbesAreVetted
  <2> QED
    BY <1>0, <1>1, <1>2, <1>4, <1>5, <2>2 DEF AtlasInv, Vetting, Visiting, Probing
<1>7. Progress'
  <2>1. \A h, a : Tried(h, a) => Tried(h, a)'
    BY <1>1 DEF Tried
  <2>2. \A a : a = Address => Tried(atlas.host, a)'
    BY <1>1, <1>2, <1>4 DEF Tried
  <2>3. \A h : Settled(h) => Settled(h)'
    BY <1>0, <2>1 DEF Settled
  <2>4. \A a \in Smallest(MaxAddresses, Kept) :
          a \in atlas'.addresses \/ Tried(atlas.host, a)'
    <3>1. \A a \in Smallest(MaxAddresses, Kept) :
            a \in atlas.addresses \/ Tried(atlas.host, a)
      BY <1>0 DEF AtlasInv, Progress
    <3>2. \A a : Tried(atlas.host, a) => Tried(atlas.host, a)'
      BY <1>1, <1>4 DEF Tried
    <3> QED
      BY <1>4, <2>2, <3>1, <3>2
  <2> QED
    BY <1>0, <1>4, <1>5, <2>3, <2>4
    DEF AtlasInv, Progress, Visiting, Probing, UnreachableIsEarned
<1>8. Timing'
  BY <1>0, <1>4 DEF AtlasInv, Timing, AtlasInTime
<1>9. Budget'
  <2>1. IsFiniteSet(probes) /\ Cardinality(probes) < MaxProbes
    BY DEF AtlasInv, Budget
  <2>2. IsFiniteSet(probes') /\ Cardinality(probes') <= MaxProbes
    <3>1. /\ IsFiniteSet(probes \cup {new})
          /\ Cardinality(probes \cup {new}) =
               IF new \in probes THEN Cardinality(probes) ELSE Cardinality(probes) + 1
      BY <2>1, FS_AddElement
    <3>2. Cardinality(probes) \in Nat
      BY <2>1, FS_CardinalityType
    <3>3. CASE new \in probes
      BY <1>1, <2>1, <3>1, <3>2, <3>3, AtlasAssumption
    <3>4. CASE new \notin probes
      BY <1>1, <2>1, <3>1, <3>2, <3>4, AtlasAssumption
    <3> QED
      BY <3>3, <3>4
  <2> QED
    BY <1>4, <2>2 DEF Budget, ProbesBounded
<1> QED
  BY <1>3, <1>6, <1>7, <1>8, <1>9 DEF AtlasInv

\* The verdict is given when no shard is left.
LEMMA VerdictStep ==
  ASSUME AtlasInv, now' = now, Verdict
  PROVE  AtlasInv'
<1>0. /\ atlas.pc = "next" /\ atlas.todo = {} /\ shards' = shards /\ probes' = probes
      /\ ~Visiting /\ \A h \in atlas.candidates : atlas.exhausted \/ Settled(h)
  <2>1. atlas.pc = "next" /\ atlas.todo = {} /\ shards' = shards /\ probes' = probes
    BY DEF Verdict
  <2>2. ~Visiting
    BY <2>1 DEF Visiting
  <2>3. \A h \in atlas.candidates :
          h \in atlas.todo \/ (Visiting /\ h = atlas.host) \/ atlas.exhausted \/ Settled(h)
    BY DEF AtlasInv, Progress
  <2> QED
    BY <2>1, <2>2, <2>3
<1> DEFINE reached == \E p \in probes : p.tls
<1>1. PICK reachable \in BOOLEAN, error \in AtlasErrors :
        /\ atlas' = [atlas EXCEPT !.pc = "returned", !.reachable = reachable, !.error = error]
        /\ error = "tls_unreachable" => ~atlas.exhausted /\ \A p \in probes : ~p.tls
  <2> DEFINE verdict == IF reached THEN "none"
                        ELSE IF atlas.exhausted THEN "probe_timeout" ELSE "tls_unreachable"
  <2>1. atlas' = [atlas EXCEPT !.pc = "returned", !.reachable = reached, !.error = verdict]
    BY DEF Verdict
  <2>2. verdict = "tls_unreachable" => ~atlas.exhausted /\ ~reached
    OBVIOUS
  <2>3. verdict \in AtlasErrors /\ reached \in BOOLEAN
    BY DEF AtlasErrors
  <2>4. ~reached => \A p \in probes : ~p.tls
    OBVIOUS
  <2> HIDE DEF reached, verdict
  <2> QED
    BY <2>1, <2>2, <2>3, <2>4
<1>2. AtlasTypeOK'
  <2>1. [atlas EXCEPT !.pc = "returned", !.reachable = reachable, !.error = error]
          \in AtlasRecords
    BY DEF AtlasInv, AtlasTypeOK, AtlasRecords
  <2> QED
    BY <1>0, <1>1, <2>1 DEF AtlasInv, AtlasTypeOK
<1>3. /\ atlas'.pc = "returned" /\ atlas'.deadline = atlas.deadline
      /\ atlas'.candidates = atlas.candidates /\ atlas'.todo = {} /\ atlas'.error = error
      /\ atlas'.exhausted = atlas.exhausted
  BY <1>0, <1>1 DEF AtlasInv, AtlasTypeOK, AtlasRecords
<1>4. Vetting'
  BY <1>0, <1>3 DEF AtlasInv, Vetting, Visiting, Probing, ProbesAreVetted
<1>5. Progress'
  <2>1. \A h : Settled(h) => Settled(h)'
    BY <1>0 DEF Settled, Tried
  <2>2. UnreachableIsEarned'
    <3>1. SUFFICES ASSUME error = "tls_unreachable", NEW h \in atlas.candidates
                   PROVE  \E s \in shards :
                            /\ s.host = h
                            /\ s.resolved =>
                                 \A a \in Smallest(MaxAddresses, Smallest(MaxKept, s.answer)) :
                                   [host |-> h, address |-> a, tls |-> FALSE] \in probes
      BY <1>0, <1>3 DEF UnreachableIsEarned
    <3>2. PICK s \in shards :
            /\ s.host = h
            /\ s.resolved => \A a \in Smallest(MaxAddresses, Smallest(MaxKept, s.answer)) :
                               Tried(h, a)
      BY <1>0, <1>1, <3>1 DEF Settled
    <3>3. ASSUME NEW a, Tried(h, a)
          PROVE  [host |-> h, address |-> a, tls |-> FALSE] \in probes
      <4>1. PICK p \in probes : p.host = h /\ p.address = a
        BY <3>3 DEF Tried
      <4>2. p \in [host : ShardHosts, address : Addresses, tls : BOOLEAN] /\ p.tls = FALSE
        BY <1>1, <3>1 DEF AtlasInv, AtlasTypeOK, AtlasRecords
      <4>3. p = [host |-> p.host, address |-> p.address, tls |-> p.tls]
        BY <4>2
      <4> QED
        BY <4>1, <4>2, <4>3
    <3> QED
      BY <3>2, <3>3
  <2> QED
    BY <1>0, <1>3, <2>1, <2>2 DEF Progress, Visiting, Probing
<1>6. Timing'
  BY <1>0, <1>3 DEF AtlasInv, Timing, AtlasInTime
<1>7. Budget'
  BY <1>0, <1>3 DEF AtlasInv, Budget, ProbesBounded
<1> QED
  BY <1>2, <1>4, <1>5, <1>6, <1>7 DEF AtlasInv

\* Every step of the handler, of DNS and of the shards keeps the invariant.
LEMMA AtlasStep ==
  ASSUME AtlasInv, now \in Nat, now' = now, AtlasNext
  PROVE  AtlasInv'
<1>1. CASE SrvFails \/ \E hosts \in SUBSET (ShardHosts \cup ForeignHosts) \ {{}} :
             SrvAnswers(hosts)
  BY <1>1, SrvStep
<1>2. CASE \E host \in ShardHosts : NextShard(host)
  BY <1>2, ShardStep
<1>3. CASE (\E S \in SUBSET Addresses : DnsAnswers(S)) \/ DnsBreaks
  BY <1>3, DnsStep
<1>4. CASE NextAddress \/ TcpConnects
  BY <1>4, ConnectStep
<1>5. CASE LeaveShard
  BY <1>5, LeaveStep
<1>6. CASE TcpFails \/ TlsVerifies \/ TlsFails
  BY <1>6, ProbeStep DEF TcpFails, TlsVerifies, TlsFails
<1>7. CASE Verdict
  BY <1>7, VerdictStep
<1> QED
  BY <1>1, <1>2, <1>3, <1>4, <1>5, <1>6, <1>7 DEF AtlasNext

\* So does a unit of time that passes while one of its calls blocks.
LEMMA AtlasTick ==
  ASSUME AtlasInv, now \in Nat, now' = now + 1, AtlasBlocks \/ atlas.pc = "idle",
         UNCHANGED atlasVars
  PROVE  AtlasInv'
<1>1. AtlasTypeOK' /\ Budget'
  BY DEF AtlasInv, AtlasTypeOK, AtlasRecords, Budget, ProbesBounded, atlasVars
<1>2. Vetting'
  BY DEF AtlasInv, Vetting, ProbesAreVetted, Visiting, Probing, Kept, atlasVars
<1>3. Progress'
  BY DEF AtlasInv, Progress, UnreachableIsEarned, Settled, Tried, Visiting, Probing, Kept,
         atlasVars
<1>4. Timing'
  BY DEF AtlasInv, AtlasTypeOK, AtlasRecords, Timing, AtlasInTime, AtlasBlocks, atlasVars
<1> QED
  BY <1>1, <1>2, <1>3, <1>4 DEF AtlasInv

\* The deadline is set once, and only a handler that was started takes steps.
LEMMA AtlasKeepsDeadline ==
  ASSUME AtlasTypeOK, AtlasNext
  PROVE  /\ atlas'.deadline = atlas.deadline
         /\ atlas.pc \notin {"idle", "returned"} /\ atlas'.pc # "idle"
<1>1. CASE SrvFails \/ \E hosts \in SUBSET (ShardHosts \cup ForeignHosts) \ {{}} :
             SrvAnswers(hosts)
  BY <1>1 DEF SrvFails, SrvAnswers, AtlasReturned, AtlasTypeOK, AtlasRecords
<1>2. ASSUME NEW host \in ShardHosts, NextShard(host)
      PROVE  /\ atlas'.deadline = atlas.deadline
             /\ atlas.pc \notin {"idle", "returned"} /\ atlas'.pc # "idle"
  BY <1>2 DEF NextShard, AtlasTypeOK, AtlasRecords
<1>3. ASSUME NEW S \in SUBSET Addresses, DnsAnswers(S)
      PROVE  /\ atlas'.deadline = atlas.deadline
             /\ atlas.pc \notin {"idle", "returned"} /\ atlas'.pc # "idle"
  BY <1>3 DEF DnsAnswers, Unresolved, AtlasTypeOK, AtlasRecords
<1>4. CASE DnsBreaks \/ NextAddress \/ TcpConnects \/ Verdict
  BY <1>4 DEF DnsBreaks, Unresolved, NextAddress, TcpConnects, Verdict, AtlasTypeOK, AtlasRecords
<1>5. CASE LeaveShard
  BY <1>5 DEF LeaveShard, AtlasTypeOK, AtlasRecords
<1>6. CASE TcpFails \/ TlsVerifies \/ TlsFails
  BY <1>6 DEF TcpFails, TlsVerifies, TlsFails, Probed, AtlasTypeOK, AtlasRecords
<1> QED
  BY <1>1, <1>2, <1>3, <1>4, <1>5, <1>6 DEF AtlasNext

\* The invariant is about the handler and the clock alone.
LEMMA AtlasRests ==
  ASSUME AtlasInv, now' = now, UNCHANGED atlasVars
  PROVE  AtlasInv'
<1>1. atlas' = atlas /\ shards' = shards /\ probes' = probes
  BY DEF atlasVars
<1>2. AtlasTypeOK' /\ Budget' /\ Timing'
  BY <1>1 DEF AtlasInv, AtlasTypeOK, AtlasRecords, Budget, ProbesBounded, Timing, AtlasInTime
<1>3. Vetting' /\ Progress'
  BY <1>1 DEF AtlasInv, Vetting, ProbesAreVetted, Progress, UnreachableIsEarned, Settled, Tried,
              Visiting, Probing, Kept
<1> QED
  BY <1>2, <1>3 DEF AtlasInv
=============================================================================

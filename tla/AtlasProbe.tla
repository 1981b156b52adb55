----------------------------- MODULE AtlasProbe -----------------------------
(***************************************************************************)
(* mongodb_atlas_connectivity: one SRV lookup, then for each permitted      *)
(* shard an address lookup and verified TLS handshakes with its first       *)
(* addresses, all within one time limit and one number of probes.           *)
(*                                                                         *)
(* An SRV record is a hostname: a record with another port or outside the   *)
(* configured suffix is one of ForeignHosts.  Addresses are numbers in the  *)
(* order in which the code sorts them.  DNS and the shards are the          *)
(* environment.                                                             *)
(***************************************************************************)
EXTENDS MonotonicClock, FiniteSets

CONSTANTS
  ShardHosts,     \* hosts below the configured suffix with the right port
  ForeignHosts,   \* what else an SRV answer may name
  NoHost,
  Addresses,
  PublicAddresses,
  MaxRecords,     \* max_atlas_srv_records
  MaxAddresses,   \* max_atlas_addresses_per_shard
  MaxKept,        \* addresses of an answer that are looked at (4)
  MaxProbes,      \* max_atlas_endpoint_probes
  AtlasLimit,     \* min(command_timeout_seconds, max_atlas_total_seconds)
  EndpointLimit,  \* max_atlas_endpoint_seconds
  DnsLimit        \* longest lifetime of one DNS lookup (5 s)

ASSUME AtlasAssumption ==
  /\ IsFiniteSet(ShardHosts \cup ForeignHosts)
  /\ ShardHosts \cap ForeignHosts = {} /\ NoHost \notin ShardHosts
  /\ Addresses \subseteq Nat /\ IsFiniteSet(Addresses)
  /\ PublicAddresses \subseteq Addresses
  /\ MaxRecords \in Nat /\ MaxAddresses \in Nat /\ MaxKept \in Nat /\ MaxProbes \in Nat
  /\ AtlasLimit \in Nat \ {0} /\ EndpointLimit \in Nat \ {0} /\ DnsLimit \in Nat \ {0}

VARIABLES
  atlas,   \* the locals of the handler
  shards,  \* the shards reported so far, with what DNS answered for each
  probes   \* the probes made so far

atlasVars == <<atlas, shards, probes>>

AtlasErrors == {"none", "srv_failed", "no_targets", "probe_timeout", "tls_unreachable"}

AtlasIdle == [pc |-> "idle", deadline |-> 0, until |-> 0, candidates |-> {}, todo |-> {},
              host |-> NoHost, family |-> "A", answers |-> {}, addresses |-> {},
              exhausted |-> FALSE, reachable |-> FALSE, error |-> "none"]

AtlasRecords ==
  [pc : {"idle", "srv", "next", "dns", "probe", "tcp", "tls", "returned"},
   deadline : Nat, until : Nat, candidates : SUBSET ShardHosts,
   todo : SUBSET ShardHosts, host : ShardHosts \cup {NoHost},
   family : {"A", "AAAA"}, answers : SUBSET Addresses,
   addresses : SUBSET Addresses, exhausted : BOOLEAN, reachable : BOOLEAN,
   error : AtlasErrors]

AtlasTypeOK ==
  /\ atlas \in AtlasRecords
  /\ shards \subseteq [host : ShardHosts, resolved : BOOLEAN, answer : SUBSET Addresses]
  /\ probes \subseteq [host : ShardHosts, address : Addresses, tls : BOOLEAN]

AtlasInit == atlas = AtlasIdle /\ shards = {} /\ probes = {}

-----------------------------------------------------------------------------
Smallest(k, S) == {a \in S : Cardinality({b \in S : b < a}) < k}

AtlasReturned(error) == [atlas EXCEPT !.pc = "returned", !.error = error]

AtlasStart ==
  /\ atlas' = [AtlasIdle EXCEPT !.pc = "srv", !.deadline = now + AtlasLimit,
                                !.until = now + Earlier(AtlasLimit, DnsLimit)]
  /\ UNCHANGED <<shards, probes>>

SrvFails ==
  /\ atlas.pc = "srv"
  /\ atlas' = AtlasReturned("srv_failed")
  /\ UNCHANGED <<shards, probes>>

\* Mutant of Permitted: no suffix or port is asked for.
PermittedAnything(hosts) == hosts

Permitted(hosts) == hosts \cap ShardHosts

\* The records come in the order of their priorities: any MaxRecords of them
\* may be the first.
SrvAnswers(hosts) ==
  /\ atlas.pc = "srv"
  /\ \E kept \in SUBSET Permitted(hosts) :
       /\ Cardinality(kept) = Earlier(Cardinality(Permitted(hosts)), MaxRecords)
       /\ atlas' = IF kept = {} THEN AtlasReturned("no_targets")
                   ELSE [atlas EXCEPT !.pc = "next", !.candidates = kept, !.todo = kept]
  /\ UNCHANGED <<shards, probes>>

Report(host, resolved, answer) ==
  shards' = shards \cup {[host |-> host, resolved |-> resolved, answer |-> answer]}

\* resolve_atlas_shard_addresses, unless no time is left.
NextShard(host) ==
  /\ atlas.pc = "next" /\ host \in atlas.todo
  /\ IF now >= atlas.deadline
     THEN /\ atlas' = [atlas EXCEPT !.todo = @ \ {host}]
          /\ Report(host, FALSE, {})
     ELSE /\ atlas' = [atlas EXCEPT !.pc = "dns", !.todo = @ \ {host}, !.host = host,
                         !.family = "A", !.answers = {},
                         !.until = Earlier(atlas.deadline, now + DnsLimit)]
          /\ UNCHANGED shards
  /\ UNCHANGED probes

Unresolved ==
  /\ atlas' = [atlas EXCEPT !.pc = "next", !.answers = {}]
  /\ Report(atlas.host, FALSE, {})

\* Mutant of Vetted: one public address in the answer is enough.
VettedByOne(answer) ==
  IF Smallest(MaxKept, answer) \cap PublicAddresses = {} THEN {}
  ELSE Smallest(MaxKept, answer)

\* Of the addresses that are kept, one unsafe address refuses all.
Vetted(answer) ==
  IF Smallest(MaxKept, answer) \subseteq PublicAddresses THEN Smallest(MaxKept, answer) ELSE {}

\* The answer of one family; an empty one stands for none, and for a timeout.
DnsAnswers(S) ==
  /\ atlas.pc = "dns"
  /\ S # {} => now < atlas.until
  /\ IF atlas.family = "A"
     THEN /\ atlas' = [atlas EXCEPT !.family = "AAAA", !.answers = S]
          /\ UNCHANGED shards
     ELSE IF Vetted(atlas.answers \cup S) = {}
          THEN Unresolved
          ELSE /\ atlas' = [atlas EXCEPT !.pc = "probe", !.answers = @ \cup S,
                              !.addresses =
                                Smallest(MaxAddresses, Vetted(atlas.answers \cup S))]
               /\ UNCHANGED shards
  /\ UNCHANGED probes

DnsBreaks ==
  /\ atlas.pc = "dns"
  /\ Unresolved
  /\ UNCHANGED probes

OutOfBudget == Cardinality(probes) >= MaxProbes

NextAddress ==
  /\ atlas.pc = "probe" /\ atlas.addresses # {}
  /\ ~OutOfBudget /\ now < atlas.deadline
  /\ atlas' = [atlas EXCEPT !.pc = "tcp",
                            !.until = Earlier(atlas.deadline, now + EndpointLimit)]
  /\ UNCHANGED <<shards, probes>>

\* Mutant of LeaveShard: running out is not told from having probed it all.
LeaveShardSilently ==
  /\ atlas.pc = "probe"
  /\ atlas.addresses = {} \/ OutOfBudget \/ now >= atlas.deadline
  /\ atlas' = [atlas EXCEPT !.pc = "next"]
  /\ Report(atlas.host, TRUE, atlas.answers)
  /\ UNCHANGED probes

LeaveShard ==
  /\ atlas.pc = "probe"
  /\ atlas.addresses = {} \/ OutOfBudget \/ now >= atlas.deadline
  /\ atlas' = [atlas EXCEPT !.pc = "next", !.exhausted = atlas.addresses # {},
                            !.todo = IF atlas.addresses # {} THEN {} ELSE @]
  /\ Report(atlas.host, TRUE, atlas.answers)
  /\ UNCHANGED probes

-----------------------------------------------------------------------------
(* atlas_tls_probe: the TCP connection and the handshake share a deadline. *)

Address == CHOOSE a \in atlas.addresses : \A b \in atlas.addresses : a <= b

Probed(tls) ==
  /\ probes' = probes \cup {[host |-> atlas.host, address |-> Address, tls |-> tls]}
  /\ atlas' = [atlas EXCEPT !.pc = "probe", !.addresses = @ \ {Address}]
  /\ UNCHANGED shards

TcpConnects ==
  /\ atlas.pc = "tcp" /\ now < atlas.until
  /\ atlas' = [atlas EXCEPT !.pc = "tls"]
  /\ UNCHANGED <<shards, probes>>

TcpFails == atlas.pc = "tcp" /\ Probed(FALSE)

TlsVerifies == atlas.pc = "tls" /\ now <= atlas.until /\ Probed(TRUE)

TlsFails == atlas.pc = "tls" /\ Probed(FALSE)

Verdict ==
  /\ atlas.pc = "next" /\ atlas.todo = {}
  /\ LET reachable == \E p \in probes : p.tls IN
     atlas' = [atlas EXCEPT !.pc = "returned", !.reachable = reachable,
                 !.error = IF reachable THEN "none"
                           ELSE IF atlas.exhausted THEN "probe_timeout"
                           ELSE "tls_unreachable"]
  /\ UNCHANGED <<shards, probes>>

AtlasNext ==
  \/ SrvFails
  \/ \E hosts \in SUBSET (ShardHosts \cup ForeignHosts) \ {{}} : SrvAnswers(hosts)
  \/ \E host \in ShardHosts : NextShard(host)
  \/ \E S \in SUBSET Addresses : DnsAnswers(S)
  \/ DnsBreaks \/ NextAddress \/ LeaveShard
  \/ TcpConnects \/ TcpFails \/ TlsVerifies \/ TlsFails
  \/ Verdict

AtlasBlocks == atlas.pc \in {"srv", "dns", "tcp", "tls"} /\ now < atlas.until

-----------------------------------------------------------------------------
(* Properties. *)

\* safety.py 230-234: what is probed of a shard is one of the first MaxKept
\* addresses DNS answered for it, all of which are public. An answer that is not
\* longer is therefore refused for one address outside the public scope; of a
\* longer one the rest is not looked at.
ProbesAreVetted ==
  \A s \in shards : \A p \in probes :
    p.host = s.host =>
      /\ s.resolved
      /\ p.address \in Smallest(MaxKept, s.answer)
      /\ Smallest(MaxKept, s.answer) \subseteq PublicAddresses
      /\ Cardinality(s.answer) <= MaxKept => s.answer \subseteq PublicAddresses

\* The probes of all shards together keep to max_atlas_endpoint_probes.
ProbesBounded == Cardinality(probes) <= MaxProbes

\* The lookups and probes, however slow each is, end within the total limit.
AtlasInTime == atlas.pc # "idle" => now <= atlas.deadline

\* Atlas is only reported unreachable, rather than not fully probed, when every
\* candidate was reported and every address taken from a resolved shard failed
\* a handshake of its own.
UnreachableIsEarned ==
  atlas.pc = "returned" /\ atlas.error = "tls_unreachable" =>
    \A host \in atlas.candidates : \E s \in shards :
      /\ s.host = host
      /\ s.resolved => \A a \in Smallest(MaxAddresses, Smallest(MaxKept, s.answer)) :
                         [host |-> host, address |-> a, tls |-> FALSE] \in probes
=============================================================================

------------------------------ MODULE DnsCache -------------------------------
(***************************************************************************)
(* The cache of resolved names (mcr-net/src/dns_cache.rs).  A query is a   *)
(* name, already lower case, and a record type.  Addresses carry the       *)
(* resolver configuration they were resolved under, so that a stale answer *)
(* can be told from a fresh one.                                           *)
(*                                                                         *)
(* Who resolves is not in the repository: docs/architecture/networking.md  *)
(* speaks of a resolver helper or a DNS proxy.  A resolution is modelled   *)
(* from what insert_addresses takes, a query and its addresses: it begins  *)
(* under the configuration of that moment and ends with the insertion, and *)
(* the configuration may change in between.                                *)
(***************************************************************************)
EXTENDS Naturals

CONSTANTS Queries, Configs, MaxTtl, MaxTime

VARIABLES
  resolverConfig,
  resolutions,     \* under way: set of [query, from, overtaken]
  entries,         \* query -> [from, overtaken, under, expiresAt]
  now,
  answered         \* the last lookup: set of at most one [entry, at]

\* History: `from`, the configuration the addresses were resolved under; `overtaken`,
\* the configuration changed while they were being resolved; `under`, the configuration
\* at the insertion.
dnsVars == <<resolverConfig, resolutions, entries, now, answered>>

Without(q) == [p \in DOMAIN entries \ {q} |-> entries[p]]

IsExpired(entry, time) == time >= entry.expiresAt

DnsInit ==
  /\ resolverConfig \in Configs /\ resolutions = {}
  /\ entries = << >> /\ now = 0 /\ answered = {}

\* External: the helper asks for the addresses of q, one resolution per query at a time.
Resolve(q) ==
  /\ \A r \in resolutions : r.query # q
  /\ resolutions' = resolutions \cup {[query |-> q, from |-> resolverConfig, overtaken |-> FALSE]}
  /\ answered' = {}
  /\ UNCHANGED <<resolverConfig, entries, now>>

Overtaken == {[query |-> r.query, from |-> r.from, overtaken |-> TRUE] : r \in resolutions}

\* Mutant: entries survive a change of the configuration.
UpdateKeepsEntries(config) ==
  /\ resolverConfig' = config
  /\ resolutions' = Overtaken
  /\ answered' = {}
  /\ UNCHANGED <<entries, now>>

UpdateResolverConfig(config) ==
  /\ resolverConfig' = config
  /\ IF config = resolverConfig
     THEN UNCHANGED <<entries, resolutions>>
     ELSE entries' = << >> /\ resolutions' = Overtaken
  /\ answered' = {}
  /\ UNCHANGED now

\* The addresses of resolution r are inserted, whatever the configuration is by now.  A
\* lifetime of zero, or an answer without addresses, removes the entry.
InsertAddresses(r, ttl, empty) ==
  /\ resolutions' = resolutions \ {r}
  /\ entries' = IF ttl = 0 \/ empty THEN Without(r.query)
                ELSE [p \in DOMAIN entries \cup {r.query} |->
                        IF p = r.query
                        THEN [from |-> r.from, overtaken |-> r.overtaken, under |-> resolverConfig,
                              expiresAt |-> now + ttl]
                        ELSE entries[p]]
  /\ answered' = {}
  /\ UNCHANGED <<resolverConfig, now>>

LookupAddresses(q) ==
  /\ q \in DOMAIN entries
  /\ IF IsExpired(entries[q], now)
     THEN entries' = Without(q) /\ answered' = {}
     ELSE answered' = {[entry |-> entries[q], at |-> now]} /\ UNCHANGED entries
  /\ UNCHANGED <<resolverConfig, resolutions, now>>

PurgeExpired ==
  /\ entries' = [q \in {p \in DOMAIN entries : ~IsExpired(entries[p], now)} |-> entries[q]]
  /\ answered' = {}
  /\ UNCHANGED <<resolverConfig, resolutions, now>>

Clear ==
  /\ entries' = << >> /\ answered' = {}
  /\ UNCHANGED <<resolverConfig, resolutions, now>>

Tick ==
  /\ now < MaxTime /\ now' = now + 1 /\ answered' = {}
  /\ UNCHANGED <<resolverConfig, resolutions, entries>>

DnsNext ==
  \/ \E config \in Configs : UpdateResolverConfig(config)
  \/ \E q \in Queries : Resolve(q)
  \/ \E r \in resolutions, ttl \in 0 .. MaxTtl, empty \in BOOLEAN : InsertAddresses(r, ttl, empty)
  \/ \E q \in Queries : LookupAddresses(q)
  \/ PurgeExpired \/ Clear \/ Tick

DnsSpec == DnsInit /\ [][DnsNext]_dnsVars

----------------------------------------------------------------------------

\* lookup_addresses never gives an answer whose lifetime is over, nor one that was
\* inserted before the last change of the resolver configuration; and the addresses it
\* gives were resolved under the current configuration, unless the configuration changed
\* while they were being resolved: insert_addresses takes late addresses unseen.
AnswersAreFresh ==
  \A a \in answered :
    /\ a.at < a.entry.expiresAt
    /\ a.entry.under = resolverConfig
    /\ a.entry.from = resolverConfig \/ a.entry.overtaken

=============================================================================

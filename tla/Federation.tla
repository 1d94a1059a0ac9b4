---------------------------- MODULE Federation ----------------------------
(***************************************************************************)
(* The federation read model (fleet/federation_read_model.go) behind       *)
(* GET /api/v1/federation/inventory and /summary: an inventory assembled   *)
(* from several sources, each read without a lock, each backed by a cache  *)
(* of its last good answer per (source, tag, status).  The tenant          *)
(* dimension stands for the three (tenant, org, scope), which the code     *)
(* treats alike.  Text is compared through Lower: trimmed, lower case.     *)
(***************************************************************************)
EXTENDS Integers, FiniteSetsExt

CONSTANTS Descriptors,  \* raw descriptors [id, name, cluster, tenant]
          Rank(_),      \* the place of a source ID in the sort order
          Lower(_),     \* strings.ToLower(strings.TrimSpace(_))
          Matches(_, _),\* strings.Contains(Lower(field), needle)
          Worlds,       \* what a source can hold: sets of [id, status, tag]
          Queries,      \* [source, cluster, tenant, status, tag, search]
          Grants,       \* the tenants a caller is granted, {} for all
          Readers, StaleAfter, MaxTime

VARIABLES clock, adapters, snapshots, world, reader

federationVars == <<clock, adapters, snapshots, world, reader>>

NormalizeFederationSourceDescriptor(d) ==
  LET id == IF Lower(d.id) # "" THEN Lower(d.id)
            ELSE IF Lower(d.name) # "" THEN Lower(d.name) ELSE "source"
  IN [id      |-> id,
      name    |-> IF Lower(d.name) = "" THEN id ELSE d.name,
      cluster |-> IF Lower(d.cluster) = "" THEN "unknown" ELSE d.cluster,
      tenant  |-> IF Lower(d.tenant) = "" THEN "default" ELSE Lower(d.tenant)]

Sources == {NormalizeFederationSourceDescriptor(d) : d \in Descriptors}
Ids == {s.id : s \in Sources}

Wanted(needle, field) == Lower(needle) # "" => Lower(needle) = Lower(field)

MatchesFederationAllowedDimension(value, allowed) ==
  allowed = {} \/ Lower(value) \in {Lower(a) : a \in allowed}

MatchesFederationSourceFilter(s, q, allowed) ==
  /\ Lower(q.source) # "" => Lower(q.source) \in {Lower(s.id), Lower(s.name)}
  /\ Wanted(q.cluster, s.cluster)
  /\ Wanted(q.tenant, s.tenant)
  /\ MatchesFederationAllowedDimension(s.tenant, allowed)

MatchesFederationSearchInSource(s, needle) ==
  \E f \in {s.id, s.name, s.cluster, s.tenant} : Matches(Lower(f), needle)

MatchesFederationSearchInProbe(p, needle) ==
  \E f \in {p.id, p.status, p.tag} : Matches(Lower(f), needle)

SourceMatchesSearch(s, q) ==
  Lower(q.search) = "" \/ MatchesFederationSearchInSource(s, Lower(q.search))

(* Manager.Inventory and, again over the answer, the read model's own      *)
(* filter: status and tag.                                                 *)
ManagerInventory(probes, q) ==
  {p \in probes : Wanted(q.status, p.status) /\ Wanted(q.tag, p.tag)}

MatchesFederatedProbeFilter(p, s, q) ==
  /\ Wanted(q.status, p.status)
  /\ Wanted(q.tag, p.tag)
  /\ \/ SourceMatchesSearch(s, q)
     \/ MatchesFederationSearchInProbe(p, Lower(q.search))

FilterFederatedProbes(probes, s, q) ==
  {p \in probes : MatchesFederatedProbeFilter(p, s, q)}

AggregateProbeSummaries(probes) ==
  [total  |-> Cardinality(probes),
   online |-> Cardinality({p \in probes : Lower(p.status) = "online"})]

FederationSnapshotCacheKey(s, q) == <<Lower(s.id), Lower(q.tag), Lower(q.status)>>

Keys == {FederationSnapshotCacheKey(s, q) : s \in Sources, q \in Queries}

NoSnapshot == [kind |-> "none", probes |-> {}, partial |-> FALSE, warned |-> FALSE, at |-> 0]

Answer(probes, partial, warned) ==
  [kind |-> "answer", probes |-> probes, partial |-> partial, warned |-> warned, at |-> clock]
-----------------------------------------------------------------------------
(* Classification of one source's answer and of the whole response.        *)

Freshness(res, observed) ==
  IF observed - res.at > StaleAfter THEN "stale" ELSE "fresh"

\* Mutant: an answer served from the cache still counts as complete.
CompletenessOfCached(res, observed, failover) ==
  IF res.partial \/ Freshness(res, observed) = "stale"
  THEN "partial" ELSE "complete"

Completeness(res, observed, failover) ==
  IF res.partial \/ failover \/ Freshness(res, observed) = "stale"
  THEN "partial" ELSE "complete"

ClassifyFederationSourceConsistency(res, observed, failover) ==
  LET stale == Freshness(res, observed) = "stale"
  IN [freshness    |-> Freshness(res, observed),
      completeness |-> Completeness(res, observed, failover),
      degraded     |-> res.partial \/ res.warned \/ failover \/ stale,
      failover     |-> IF failover THEN "cached_snapshot" ELSE "none"]

UnavailableConsistency ==
  [freshness |-> "unknown", completeness |-> "unavailable",
   degraded |-> TRUE, failover |-> "unavailable"]

Status(c) ==
  CASE c.completeness = "unavailable" -> "unavailable"
    [] c.degraded -> "degraded"
    [] OTHER -> "healthy"

CountBy(sums, P(_)) == Cardinality({m \in sums : P(m.consistency)})

ComputeOverallFederationHealth(sums) ==
  LET unavailable == CountBy(sums, LAMBDA c : Status(c) = "unavailable")
      degraded == CountBy(sums, LAMBDA c : Status(c) = "degraded")
  IN CASE sums = {} -> "unknown"
       [] unavailable = Cardinality(sums) -> "unavailable"
       [] unavailable > 0 \/ degraded > 0 -> "degraded"
       [] OTHER -> "healthy"

ComputeFederationConsistency(sums) ==
  LET Some(P(_)) == CountBy(sums, P) > 0
      fresh == Some(LAMBDA c : c.freshness = "fresh")
      stale == Some(LAMBDA c : c.freshness = "stale")
      all(v) == CountBy(sums, LAMBDA c : c.completeness = v) = Cardinality(sums)
  IN [freshness    |-> CASE stale /\ fresh -> "mixed"
                         [] stale -> "stale" [] fresh -> "fresh" [] OTHER -> "unknown",
      completeness |-> CASE sums = {} -> "unknown"
                         [] all("complete") -> "complete"
                         [] all("unavailable") -> "unavailable"
                         [] OTHER -> "partial",
      partial      |-> Some(LAMBDA c : \/ c.freshness = "stale"
                                       \/ c.completeness \in {"partial", "unavailable"}
                                       \/ c.failover = "cached_snapshot"),
      failover     |-> Some(LAMBDA c : c.failover = "cached_snapshot"),
      degraded     |-> \/ Some(LAMBDA c : c.degraded)
                       \/ ComputeOverallFederationHealth(sums) \in {"degraded", "unavailable"}]
-----------------------------------------------------------------------------
NoQuery == CHOOSE q \in Queries : TRUE

NoReader == [pc |-> "idle", query |-> NoQuery, allowed |-> {}, observed |-> 0, todo |-> {},
             got |-> NoSnapshot, sums |-> {}, due |-> {}, steady |-> [i \in Ids |-> {}]]

Init ==
  /\ clock = 0
  /\ adapters = {}
  /\ snapshots = [k \in Keys |-> NoSnapshot]
  /\ world \in [Ids -> {w \in Worlds : w = {}}]
  /\ reader = [r \in Readers |-> NoReader]

(* RegisterSource adds an adapter or replaces the one with the same ID;    *)
(* the snapshots of the replaced one stay.                                 *)
RegisterSource(d) ==
  LET s == NormalizeFederationSourceDescriptor(d)
  IN /\ adapters' = {a \in adapters : a.id # s.id} \cup {s}
     /\ UNCHANGED <<clock, snapshots, world, reader>>

(* The fleet behind a source changes.  steady, kept for the property only, *)
(* is what the source held all through the read.                           *)
WorldChanges(i, w) ==
  /\ w # world[i]
  /\ world' = [world EXCEPT ![i] = w]
  /\ reader' = [r \in Readers |-> [reader[r] EXCEPT !.steady[i] = @ \cap w]]
  /\ UNCHANGED <<clock, adapters, snapshots>>

Tick ==
  /\ clock < MaxTime
  /\ clock' = clock + 1
  /\ UNCHANGED <<adapters, snapshots, world, reader>>

(* handleFederationInventory: applyFederationAccessFilter refuses a tenant *)
(* outside the grants, then Inventory copies the adapters and starts.      *)
ApplyFederationAccessFilter(q, allowed) ==
  Lower(q.tenant) = "" \/ allowed = {} \/ Lower(q.tenant) \in {Lower(a) : a \in allowed}

HandleFederationInventory(r, q, allowed) ==
  /\ reader[r].pc \in {"idle", "done"}
  /\ ApplyFederationAccessFilter(q, allowed)
  /\ LET due == {s \in adapters : MatchesFederationSourceFilter(s, q, allowed)}
     IN reader' = [reader EXCEPT ![r] =
                    [pc |-> "fetch", query |-> q, allowed |-> allowed, observed |-> clock,
                     todo |-> due, got |-> NoSnapshot, sums |-> {}, due |-> due, steady |-> world]]
  /\ UNCHANGED <<clock, adapters, snapshots, world>>

NextSource(todo) == CHOOSE s \in todo : \A t \in todo : Rank(s.id) <= Rank(t.id)

(* adapter.Inventory answers, perhaps partially or with warnings, or fails *)
FetchSource(r) ==
  /\ reader[r].pc = "fetch"
  /\ reader[r].todo # {}
  /\ LET s == NextSource(reader[r].todo)
         probes == ManagerInventory(world[s.id], reader[r].query)
     IN \E got \in {NoSnapshot, Answer(probes, FALSE, FALSE), Answer(probes, FALSE, TRUE)}
                    \cup {Answer(some, TRUE, FALSE) : some \in SUBSET probes} :
          reader' = [reader EXCEPT ![r].pc = "apply", ![r].got = got]
  /\ UNCHANGED <<clock, adapters, snapshots, world>>

(* What a source contributes: nothing when a search finds nothing in it.   *)
Summary(s, q, res, observed, failover) ==
  LET probes == FilterFederatedProbes(res.probes, s, q)
      unread == res.kind = "none"
  IN IF ~SourceMatchesSearch(s, q) /\ (unread \/ probes = {}) THEN {}
     ELSE {[source |-> s, probes |-> probes, counts |-> AggregateProbeSummaries(probes),
            consistency |-> IF unread THEN UnavailableConsistency
                            ELSE ClassifyFederationSourceConsistency(res, observed, failover)]}

ApplySource(r) ==
  /\ reader[r].pc = "apply"
  /\ LET me == reader[r]
         s == NextSource(me.todo)
         key == FederationSnapshotCacheKey(s, me.query)
         failed == me.got.kind = "none"
         res == IF failed THEN snapshots[key] ELSE me.got
     IN /\ snapshots' = IF failed THEN snapshots ELSE [snapshots EXCEPT ![key] = me.got]
        /\ reader' = [reader EXCEPT ![r].pc = "fetch", ![r].todo = @ \ {s}, ![r].got = NoSnapshot,
                                    ![r].sums = @ \cup Summary(s, me.query, res, me.observed, failed)]
  /\ UNCHANGED <<clock, adapters, world>>

Respond(r) ==
  /\ reader[r].pc = "fetch"
  /\ reader[r].todo = {}
  /\ reader' = [reader EXCEPT ![r].pc = "done"]
  /\ UNCHANGED <<clock, adapters, snapshots, world>>

Next ==
  \/ \E d \in Descriptors : RegisterSource(d)
  \/ \E i \in Ids, w \in Worlds : WorldChanges(i, w)
  \/ Tick
  \/ \E r \in Readers, q \in Queries, g \in Grants : HandleFederationInventory(r, q, g)
  \/ \E r \in Readers : FetchSource(r) \/ ApplySource(r) \/ Respond(r)
-----------------------------------------------------------------------------
(* A response whose rollup says "complete" lists every probe that its      *)
(* sources held, matching the query, all through the read: outages, cached *)
(* answers, another reader's older answer in the cache and a replaced      *)
(* adapter never pass for a complete view.  A free-text search is left     *)
(* out: Inventory drops an unread source that the search does not name.    *)
CompleteAnswersMissNothing ==
  \A r \in Readers :
    LET me == reader[r]
    IN me.pc = "done" /\ Lower(me.query.search) = ""
         /\ ComputeFederationConsistency(me.sums).completeness = "complete"
       => \A s \in me.due :
            \E m \in me.sums :
              /\ m.source = s
              /\ FilterFederatedProbes(me.steady[s.id], s, me.query) \subseteq m.probes
              /\ m.counts.total = Cardinality(m.probes)
=============================================================================

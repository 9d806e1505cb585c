------------------------- MODULE StructuredMemory -------------------------
(***************************************************************************)
(* The structured memory database (server/structured_memory.rs): facts and *)
(* their full-text index, reviewed proposals, and the episodes proposals   *)
(* cite.  Every operation is one Immediate transaction under the           *)
(* connection mutex, so it is one action; a statement that fails rolls the *)
(* whole operation back.                                                   *)
(*                                                                         *)
(* A fact's text is named by the revision that wrote it, so the content    *)
(* digest a proposal is bound to is determined by the revision.  The clock *)
(* appears only as the moment an episode expires.  The consolidation runs  *)
(* of the same database are in MemoryRuns.                                 *)
(***************************************************************************)
EXTENDS Naturals, FiniteSets, Sequences

CONSTANTS
  Owners,        \* account identities
  FactIds, ProposalIds, EpisodeIds,   \* row ids
  FactOwner, ProposalOwner, EpisodeOwner,
  MaxFacts,      \* limits.max_facts_per_owner
  MaxProposals,  \* limits.max_proposals_per_owner
  MaxEpisodes,   \* limits.max_episodes_per_owner
  MaxBytes,      \* limits.max_episode_bytes_per_owner
  MaxRevision    \* bound: revisions of one fact

ASSUME MemoryOwnerAssumption ==
  /\ FactOwner \in [FactIds -> Owners]
  /\ ProposalOwner \in [ProposalIds -> Owners]
  /\ EpisodeOwner \in [EpisodeIds -> Owners]
ASSUME MemoryLimitAssumption ==
  /\ MaxFacts \in Nat \ {0} /\ MaxProposals \in Nat \ {0}
  /\ MaxEpisodes \in Nat \ {0} /\ MaxBytes \in Nat \ {0} /\ MaxRevision \in Nat \ {0}

VARIABLES
  facts,       \* table facts
  ftsEntries,  \* what facts_fts finds: pairs of a fact and the text indexed
  ftsRows,     \* the row count FTS5 keeps for facts_fts
  proposals,   \* table proposals with proposal_episode_refs
  episodes,    \* ids of table episodes in the order of created_ts
  summarized,  \* episodes with a semantic summary
  expired      \* episodes past expires_ts

memoryVars == <<facts, ftsEntries, ftsRows, proposals, episodes, summarized, expired>>

-----------------------------------------------------------------------------
Fact == [status : {"absent", "active", "inactive"}, revision : 0..MaxRevision, text : 0..MaxRevision]
NoFact == [status |-> "absent", revision |-> 0, text |-> 0]
NewFact == [status |-> "active", revision |-> 1, text |-> 1]

Actions == {"add", "update", "deactivate"}
NoTarget == "none"
Proposal == [status : {"absent", "pending", "applied", "rejected"},
             action : Actions, target : FactIds \cup {NoTarget},
             expected : 0..MaxRevision, sources : SUBSET EpisodeIds]
NoProposal == [status |-> "absent", action |-> "add", target |-> NoTarget,
               expected |-> 0, sources |-> {}]

Rows(s) == {s[i] : i \in DOMAIN s}
FactsOf(o) == {f \in FactIds : FactOwner[f] = o /\ facts[f].status # "absent"}
ActiveOf(o) == {f \in FactsOf(o) : facts[f].status = "active"}
PendingOf(o) == {p \in ProposalIds : ProposalOwner[p] = o /\ proposals[p].status = "pending"}
IsOf(o, e) == EpisodeOwner[e] = o
OwnersRows(o, eps) == {e \in EpisodeIds : e \in Rows(eps) /\ IsOf(o, e)}

(* The episodes a pending proposal cites: these are never pruned or deleted. *)
ReferencedPending(o) == UNION {proposals[p].sources : p \in PendingOf(o)}

-----------------------------------------------------------------------------
(* FTS5 refuses a delete that would take its row count below zero.          *)
FtsCanDelete(n) == ftsRows >= n

FtsInsert(f, text) == /\ ftsEntries' = ftsEntries \cup {<<f, text>>}
                      /\ ftsRows' = ftsRows + 1

FtsDelete(f) == /\ FtsCanDelete(1)
                /\ ftsEntries' = ftsEntries \ {<<f, facts[f].text>>}
                /\ ftsRows' = ftsRows - 1

(* Mutant of FtsReplace. *)
MutReplaceKeepsOld(f, text) ==
  /\ FtsCanDelete(1)
  /\ ftsEntries' = ftsEntries \cup {<<f, text>>}
  /\ ftsRows' = ftsRows

FtsReplace(f, text) ==
  /\ FtsCanDelete(1)
  /\ ftsEntries' = (ftsEntries \ {<<f, facts[f].text>>}) \cup {<<f, text>>}
  /\ UNCHANGED ftsRows

(* Drop the table and fill it again from the active facts.                  *)
RebuildFts ==
  /\ LET active == {f \in FactIds : facts[f].status = "active"}
     IN /\ ftsEntries' = {<<f, facts[f].text>> : f \in active}
        /\ ftsRows' = Cardinality(active)
  /\ UNCHANGED <<facts, proposals, episodes, summarized, expired>>

-----------------------------------------------------------------------------
HasRoom(o) == Cardinality(ActiveOf(o)) < MaxFacts

(* A row id not in use; the ids are random.                                 *)
Insert(o, f) ==
  /\ FactOwner[f] = o /\ facts[f].status = "absent"
  /\ HasRoom(o)
  /\ facts' = [facts EXCEPT ![f] = NewFact]
  /\ FtsInsert(f, 1)

AddFact(o) ==
  /\ \E f \in FactIds : Insert(o, f)
  /\ UNCHANGED <<proposals, episodes, summarized, expired>>

Deactivated(f) == [facts[f] EXCEPT !.status = "inactive", !.revision = @ + 1]
Updated(f) == [status |-> "active", revision |-> facts[f].revision + 1, text |-> facts[f].revision + 1]

DeactivateFact(f, expected) ==
  /\ facts[f].status = "active"
  /\ facts[f].revision = expected
  /\ expected < MaxRevision
  /\ FtsDelete(f)
  /\ facts' = [facts EXCEPT ![f] = Deactivated(f)]
  /\ UNCHANGED <<proposals, episodes, summarized, expired>>

-----------------------------------------------------------------------------
(* A draft names a fact that exists and any revision of it, and episodes    *)
(* that exist; the fact may change before the draft is decided.             *)
Drafts(o) ==
  {[status |-> "pending", action |-> "add", target |-> NoTarget, expected |-> 0, sources |-> s] :
     s \in SUBSET OwnersRows(o, episodes)}
  \cup
  {[status |-> "pending", action |-> a, target |-> f, expected |-> r, sources |-> s] :
     a \in {"update", "deactivate"}, f \in FactsOf(o), r \in 1..MaxRevision,
     s \in SUBSET OwnersRows(o, episodes)}

CreateProposal(o) ==
  /\ Cardinality(PendingOf(o)) < MaxProposals
  /\ \E p \in ProposalIds, d \in Drafts(o) :
       /\ ProposalOwner[p] = o /\ proposals[p].status = "absent"
       /\ proposals' = [proposals EXCEPT ![p] = d]
  /\ UNCHANGED <<facts, ftsEntries, ftsRows, episodes, summarized, expired>>

(* The consolidator's model names candidates: an action, the fact it is     *)
(* about, the active fact whose text it repeats, how sensitive it is, and   *)
(* the episodes it rests on.                                                *)
Candidates(o) ==
  [action : Actions, target : FactsOf(o) \cup {NoTarget}, repeats : FactsOf(o) \cup {NoTarget},
   sensitivity : {"normal", "reject"}, sources : SUBSET OwnersRows(o, episodes)]

(* bind_one: what it refuses.                                               *)
Bindable(c) ==
  /\ c.sensitivity # "reject" /\ c.sources # {}
  /\ IF c.action = "add" THEN c.repeats # NoTarget \/ c.target = NoTarget ELSE c.target # NoTarget

(* bind_one: an addition that repeats a fact becomes an update of it, and   *)
(* the draft is bound to the revision that was seen.                        *)
BindOne(c, seen) ==
  LET again == c.action = "add" /\ c.repeats # NoTarget
      target == IF again THEN c.repeats ELSE c.target
  IN [status |-> "pending", action |-> IF again THEN "update" ELSE c.action, target |-> target,
      expected |-> IF target = NoTarget THEN 0 ELSE seen, sources |-> c.sources]

(* The facts were listed before the run is finished, so what was seen may   *)
(* be any earlier revision.  The drafts of one reply are inserted together; *)
(* one stands for them.                                                     *)
FinishConsolidation(o) ==
  /\ Cardinality(PendingOf(o)) < MaxProposals
  /\ \E c \in Candidates(o) :
       /\ Bindable(c)
       /\ \E seen \in 1..MaxRevision, p \in ProposalIds :
            LET d == BindOne(c, seen) IN
            /\ d.target # NoTarget => seen <= facts[d.target].revision
            /\ ProposalOwner[p] = o /\ proposals[p].status = "absent"
            /\ proposals' = [proposals EXCEPT ![p] = d]
  /\ UNCHANGED <<facts, ftsEntries, ftsRows, episodes, summarized, expired>>

(* Mutant of BindTarget. *)
MutBindActiveOnly(p) == facts[proposals[p].target].status = "active"

(* The fact is still the one that was reviewed.                             *)
BindTarget(p) ==
  LET d == proposals[p] IN
  /\ facts[d.target].status = "active"
  /\ facts[d.target].revision = d.expected

ApplyPending(p) ==
  LET d == proposals[p] IN
  \/ /\ d.action = "add"
     /\ \E f \in FactIds : Insert(ProposalOwner[p], f)
  \/ /\ d.action = "update" /\ BindTarget(p) /\ facts[d.target].revision < MaxRevision
     /\ FtsReplace(d.target, facts[d.target].revision + 1)
     /\ facts' = [facts EXCEPT ![d.target] = Updated(d.target)]
  \/ /\ d.action = "deactivate" /\ BindTarget(p) /\ facts[d.target].revision < MaxRevision
     /\ FtsDelete(d.target)
     /\ facts' = [facts EXCEPT ![d.target] = Deactivated(d.target)]

DecideProposal(p, apply) ==
  /\ proposals[p].status = "pending"
  /\ IF apply THEN ApplyPending(p) ELSE UNCHANGED <<facts, ftsEntries, ftsRows>>
  /\ proposals' = [proposals EXCEPT ![p].status = IF apply THEN "applied" ELSE "rejected"]
  /\ UNCHANGED <<episodes, summarized, expired>>

-----------------------------------------------------------------------------
Bytes(es, sums) == Cardinality(es) + Cardinality(es \cap sums)
Over(es, sums) == Cardinality(es) > MaxEpisodes \/ Bytes(es, sums) > MaxBytes

(* What prune_owner_episodes may delete, and the k oldest of such rows.     *)
Prunable(o, eps) == OwnersRows(o, eps) \ ReferencedPending(o)
IsOlder(eps, d, e) == \E i, j \in DOMAIN eps : i < j /\ eps[i] = d /\ eps[j] = e
Oldest(rows, eps, k) == {e \in rows : Cardinality({d \in rows : IsOlder(eps, d, e)}) < k}

(* How many of them must go before the owner is within the limits.          *)
Enough(o, eps, sums) ==
  {k \in 0..Cardinality(Prunable(o, eps)) :
     ~Over(OwnersRows(o, eps) \ Oldest(Prunable(o, eps), eps, k), sums)}
Fewest(ks) == CHOOSE k \in ks : \A j \in ks : k <= j

(* The rows pruning deletes: first the oldest while over, then the expired. *)
Victims(o, eps, sums) ==
  Oldest(Prunable(o, eps), eps, Fewest(Enough(o, eps, sums))) \cup (Prunable(o, eps) \cap expired)

Forget(eps, gone, sums) ==
  /\ episodes' = SelectSeq(eps, LAMBDA e : e \notin gone)
  /\ summarized' = sums \ gone
  /\ expired' = expired \ gone
  /\ proposals' = [p \in ProposalIds |-> [proposals[p] EXCEPT !.sources = @ \ gone]]
  /\ UNCHANGED <<facts, ftsEntries, ftsRows>>

(* The new row itself must survive the pruning, or the insert rolls back.   *)
StageEpisode(e) ==
  LET o == EpisodeOwner[e]
      eps == Append(episodes, e)
  IN /\ e \notin Rows(episodes)
     /\ Enough(o, eps, summarized) # {}
     /\ e \notin Victims(o, eps, summarized)
     /\ Forget(eps, Victims(o, eps, summarized), summarized)

SetEpisodeSummary(e) ==
  LET o == EpisodeOwner[e]
      sums == summarized \cup {e}
  IN /\ e \in Rows(episodes)
     /\ Enough(o, episodes, sums) # {}
     /\ e \notin Victims(o, episodes, sums)
     /\ Forget(episodes, Victims(o, episodes, sums), sums)

DeleteEpisode(e) ==
  /\ e \in Rows(episodes)
  /\ e \notin ReferencedPending(EpisodeOwner[e])
  /\ Forget(episodes, {e}, summarized)

PurgeExpired(o) ==
  LET gone == Prunable(o, episodes) \cap expired
  IN gone # {} /\ Forget(episodes, gone, summarized)

DeleteUnreferenced(o) ==
  LET gone == Prunable(o, episodes)
  IN gone # {} /\ Forget(episodes, gone, summarized)

(* Every fact of the owner is deleted from the index, the inactive ones too, *)
(* whose entries went when they were deactivated; a refused delete rolls    *)
(* the purge back.                                                          *)
PurgeOwner(o) ==
  LET rows == FactsOf(o)
      gone == OwnersRows(o, episodes)
  IN /\ FtsCanDelete(Cardinality(rows))
     /\ facts' = [f \in FactIds |-> IF f \in rows THEN NoFact ELSE facts[f]]
     /\ ftsEntries' = ftsEntries \ {<<f, facts[f].text>> : f \in rows}
     /\ ftsRows' = ftsRows - Cardinality(rows)
     /\ proposals' = [p \in ProposalIds |-> IF ProposalOwner[p] = o THEN NoProposal ELSE proposals[p]]
     /\ episodes' = SelectSeq(episodes, LAMBDA e : e \notin gone)
     /\ summarized' = summarized \ gone
     /\ expired' = expired \ gone

Expire(e) ==
  /\ e \in Rows(episodes) \ expired
  /\ expired' = expired \cup {e}
  /\ UNCHANGED <<facts, ftsEntries, ftsRows, proposals, episodes, summarized>>

-----------------------------------------------------------------------------
(* The guarded routes, each for the signed-in owner's own rows.             *)
FactRoutes == \/ \E o \in Owners : AddFact(o)
              \/ \E f \in FactIds, r \in 1..MaxRevision : DeactivateFact(f, r)
ProposalRoutes == \/ \E o \in Owners : CreateProposal(o) \/ FinishConsolidation(o)
                  \/ \E p \in ProposalIds, apply \in BOOLEAN : DecideProposal(p, apply)
EpisodeRoutes == \/ \E e \in EpisodeIds : SetEpisodeSummary(e) \/ DeleteEpisode(e)
                 \/ \E o \in Owners : PurgeExpired(o) \/ DeleteUnreferenced(o) \/ PurgeOwner(o)

MemoryInit ==
  /\ facts = [f \in FactIds |-> NoFact]
  /\ ftsEntries = {} /\ ftsRows = 0
  /\ proposals = [p \in ProposalIds |-> NoProposal]
  /\ episodes = <<>> /\ summarized = {} /\ expired = {}

MemoryNext ==
  \/ FactRoutes
  \/ ProposalRoutes
  \/ EpisodeRoutes
  \/ RebuildFts
  \/ \E e \in EpisodeIds : StageEpisode(e) \/ Expire(e)

MemorySpec == MemoryInit /\ [][MemoryNext]_memoryVars

-----------------------------------------------------------------------------
MemoryTypeOK ==
  /\ facts \in [FactIds -> Fact]
  /\ ftsEntries \subseteq FactIds \X (1..MaxRevision)
  /\ ftsRows \in Nat
  /\ proposals \in [ProposalIds -> Proposal]
  /\ Rows(episodes) \subseteq EpisodeIds /\ Len(episodes) = Cardinality(Rows(episodes))
  /\ summarized \subseteq Rows(episodes) /\ expired \subseteq Rows(episodes)

(* The evidence a pending proposal cites stays in the database until the    *)
(* proposal is decided, whatever is staged, summarized, expired or deleted  *)
(* meanwhile: no pruning or deletion takes a reference from it.             *)
PendingEvidenceKept ==
  [][\A p \in ProposalIds :
       (proposals[p].status = "pending" /\ proposals'[p].status = "pending")
         => proposals'[p].sources = proposals[p].sources]_memoryVars

(* Search finds exactly the present text of the active facts, after any     *)
(* sequence of adds, updates, deactivations, purges and rebuilds.           *)
IndexMatches ==
  ftsEntries = {<<f, facts[f].text>> : f \in {g \in FactIds : facts[g].status = "active"}}

(* A fact's text changes only by the decision of a proposal that was made   *)
(* for the very revision it replaces: nothing reviewed against an older     *)
(* text is applied to a newer one.                                          *)
DecidedAsReviewed ==
  [][\A f \in FactIds :
       (facts[f].status # "absent" /\ facts'[f].status # "absent" /\ facts'[f].text # facts[f].text)
         => \E p \in ProposalIds :
              /\ proposals[p].status = "pending" /\ proposals'[p].status = "applied"
              /\ proposals[p].action = "update" /\ proposals[p].target = f
              /\ proposals[p].expected = facts[f].revision]_memoryVars

(* An owner can always purge what the store holds for it: the index accepts *)
(* the deletes of purge_owner.                                              *)
Purgeable == \A o \in Owners : FtsCanDelete(Cardinality(FactsOf(o)))
=============================================================================

----------------------- MODULE PublicationReconciliation -----------------------
(***************************************************************************)
(* Publications over time: source records written and deleted by the       *)
(* normalization, the reconciliation of those that are marked with their   *)
(* direct neighbourhood (transformation/publications/reconciliation.py),   *)
(* the recomputation and deletion of publications (lifecycle.py, store.py, *)
(* consolidation.py), manual merges from the admin, and the alignment of   *)
(* authors that follows each change of membership.                         *)
(*                                                                         *)
(* Each action is one transaction.  What several transactions may do to    *)
(* the queues themselves is in RecomputeQueue.  Of a publication, only its *)
(* records, its DOI and its redirections are kept; a type of document that *)
(* is out of scope is not modelled.                                        *)
(***************************************************************************)
EXTENDS ReconciliationPlan

CONSTANTS
    Records,        \* identifiers of source records, 1..n
    Contents,       \* what a source record may say (see Member)
    Written,        \* bound: what the source records written meanwhile may say
    Rank,           \* Rank[r]: priority of the source of r
    Pubs,           \* identifiers of publications, 1..n
    BatchSize,      \* publications recomputed at once
    MaxWrites       \* bound on the writes of source records, manual merges and purges that detach records

ASSUME RecordsAssumption ==
    IsFiniteSet(Records) /\ Records = 1..Cardinality(Records) /\ None \notin Records
ASSUME ContentsAssumption ==
    /\ None \notin Contents /\ Written \subseteq Contents
    /\ \A c \in Contents :
          /\ {"id", "pub", "pubDoi", "strong", "weak", "keys", "work", "primary", "derived",
              "type", "year", "founds", "matchable"} \subseteq DOMAIN c
          /\ c.strong \subseteq Dois /\ c.weak \subseteq Dois
ASSUME BoundsAssumption == BatchSize \in Nat \ {0} /\ MaxWrites \in Nat
ASSUME PubsAssumption ==
    IsFiniteSet(Pubs) /\ Pubs = 1..Cardinality(Pubs) /\ None \notin Pubs

VARIABLES
    content,        \* source record of each identifier, None without one
    issued,         \* number of identifiers of source records issued
    removed,        \* its DOIs removed as those of another publication
    pub,            \* source_records.publication_id
    pubs,           \* publications: rows [id, doi]
    created,        \* number of publications created
    redirect,       \* where the identifier of a dissolved publication leads
    merges,         \* manual merges: sets of records
    queue,          \* source_record_keys_queue
    grouping,       \* publication_contributions_queue
    aligned,        \* records of each publication when its authors were last aligned
    purged,         \* auxiliary: records whose publication the purge deleted, and that no pass has decided since
    fresh,          \* auxiliary: nothing was written since the last reconciliation of the whole stock
    broken,         \* an error aborted a reconciliation: "none", "doi" (unique constraint), "dissolve"
    writes          \* writes so far

vars == <<content, issued, removed, pub, pubs, created, redirect, merges, queue, grouping,
          aligned, purged, fresh, broken, writes>>

(* Types of the tables; marks are ids of records and of publications.      *)
TypeOK ==
    /\ content \in [Records -> Contents \cup {None}]
    /\ issued \in 0..Cardinality(Records)
    /\ removed \in [Records -> SUBSET Dois]
    /\ pub \in [Records -> Pubs \cup {None}]
    /\ pubs \subseteq [id : Pubs, doi : Dois \cup {None}]
    /\ created \in 0..Cardinality(Pubs)
    /\ redirect \in [Pubs -> Pubs \cup {None}]
    /\ merges \in SUBSET SUBSET Records
    /\ queue \in SUBSET Records
    /\ grouping \in SUBSET Pubs
    /\ aligned \in [Pubs -> SUBSET Records]
    /\ purged \in SUBSET Records
    /\ fresh \in BOOLEAN
    /\ broken \in {"none", "doi", "dissolve"}
    /\ writes \in 0..MaxWrites

Init ==
    /\ content = [r \in Records |-> None]
    /\ issued = 0
    /\ removed = [r \in Records |-> {}]
    /\ pub = [r \in Records |-> None]
    /\ pubs = {}
    /\ created = 0
    /\ redirect = [p \in Pubs |-> None]
    /\ merges = {}
    /\ queue = {}
    /\ grouping = {}
    /\ aligned = [p \in Pubs |-> {}]
    /\ purged = {}
    /\ fresh = FALSE
    /\ broken = "none"
    /\ writes = 0

Existing == {r \in Records : content[r] # None}
RecordsOf(attached, p) == {r \in Records : attached[r] = p}

------------------------------------------------------------------------------
(* The neighbourhood                                                       *)

(* The DOI of the publication of a record.                                 *)
DoiOfPub(p) == Only({row.doi : row \in {x \in pubs : x.id = p}})

(* Mutant: the DOIs removed by the reconciliation no longer count.         *)
MemberOfActive(r, verdicts) ==
    [content[r] EXCEPT !.id = r, !.pub = pub[r], !.pubDoi = DoiOfPub(pub[r]),
                       !.strong = @ \ removed[r], !.weak = @ \ removed[r],
                       !.keys = @ \cup {v \in verdicts : r \in v}]

(* _member: the DOIs removed by the reconciliation itself count again; a   *)
(* manual merge is a key of its records.                                   *)
Member(r, verdicts) ==
    [content[r] EXCEPT !.id = r, !.pub = pub[r], !.pubDoi = DoiOfPub(pub[r]),
                       !.keys = @ \cup {v \in verdicts : r \in v}]

(* The records of the publications of S (mark_publication_siblings).       *)
WithSiblings(S) == S \cup {r \in Existing : pub[r] # None /\ \E q \in S : pub[q] = pub[r]}

(* fetch_reconciliation_universe: the marked records, and those that share *)
(* a key with one of them.                                                 *)
Universe(dirty, verdicts) ==
    LET members == {Member(r, verdicts) : r \in Existing}
        marked == {m \in members : m.id \in dirty}
    IN  {m \in members : m.id \in dirty \/ \E d \in marked : Linked(m, d)}

------------------------------------------------------------------------------
(* Recomputation of publications                                           *)

(* A record with its active DOIs, those of out being removed.              *)
ActiveRecord(r, out) ==
    [id |-> r, strong |-> content[r].strong \ out[r], weak |-> content[r].weak \ out[r]]

(* _publication_doi: the anchor of its records, else one of their deposits;*)
(* among several, that of the first source to join one.                    *)
PublicationDoi(records, out) ==
    LET S == {ActiveRecord(r, out) : r \in records}
        candidates == IF DoiAnchors(S) # {} THEN DoiAnchors(S) ELSE DepositAnchors(S)
        joining == {m \in S : AnchorOf(m, candidates) # None}
        first == CHOOSE m \in joining : \A n \in joining : Rank[m.id] <= Rank[n.id]
    IN  IF Cardinality(candidates) = 1 THEN Only(candidates)
        ELSE IF joining = {} THEN None ELSE AnchorOf(first, candidates)

(* lifecycle.refresh of the publications of B, in one batch: those without *)
(* a record are deleted, the others recomputed.                            *)
Refreshed(rows, B, attached, out) ==
    {row \in rows : row.id \notin B}
    \cup {[row EXCEPT !.doi = PublicationDoi(RecordsOf(attached, row.id), out)] :
              row \in {x \in rows : x.id \in B /\ RecordsOf(attached, x.id) # {}}}

Deleted(rows, B) == {row \in rows : row.id \notin B}

(* The unique constraint on publications.doi.                              *)
UniqueDois(rows) ==
    \A x, y \in rows : x # y /\ x.doi # None => x.doi # y.doi

(* lifecycle.refresh of B by batches in the order of identifiers: the      *)
(* unique constraint holds after each of them.                             *)
RefreshSucceeds(rows, B, attached, out) ==
    \A n \in 0..Cardinality(B) :
        LET done == {p \in B : Cardinality({q \in B : q < p}) < n * BatchSize}
        IN  UniqueDois(Refreshed(rows, done, attached, out))

------------------------------------------------------------------------------
(* Reconciliation                                                          *)

(* Mutant: only the publications that gain records are marked.             *)
GainersOnly(attached) == {attached[r] : r \in {s \in Records : attached[s] # pub[s]}} \ {None}

(* Mutant: a record without publication marks one all the same.            *)
MembershipWithNone(attached) ==
    UNION {{pub[r], attached[r]} : r \in {s \in Records : attached[s] # pub[s]}}

(* Publications that gain or lose a record.                                *)
MembershipChanged(attached) ==
    (UNION {{pub[r], attached[r]} : r \in {s \in Records : attached[s] # pub[s]}}) \ {None}

(* _publications_to_refresh: those of the marked records, before as after, *)
(* and the targets of the groups.                                          *)
Recomputed(dirty, attached, survivors) ==
    ((UNION {{pub[r], attached[r]} : r \in dirty}) \ {None}) \cup survivors

(* Mutant: the identifiers that led to a dissolved publication still do.   *)
RedirectedOnce(dissolved) ==
    [p \in Pubs |-> IF p \in {e[1] : e \in dissolved}
                    THEN Only({e[2] : e \in {x \in dissolved : x[1] = p}})
                    ELSE redirect[p]]

(* record_redirect: what led to a dissolved publication leads to its       *)
(* successor.                                                              *)
Redirected(dissolved) ==
    LET heir(p) == Only({e[2] : e \in {x \in dissolved : x[1] = p}})
    IN  [p \in Pubs |-> IF heir(p) # None THEN heir(p)
                        ELSE IF heir(redirect[p]) # None THEN heir(redirect[p])
                        ELSE redirect[p]]

(* The rows of publications once those of left, then, after the deletion of *)
(* the dissolved ones, those of again are recomputed; the error, if any.    *)
Rewritten(inserted, left, gone, again, attached, out) ==
    LET dissolved == Deleted(Refreshed(inserted, left, attached, out), gone)
    IN  [failure |-> IF ~ RefreshSucceeds(inserted, left, attached, out) THEN "doi"
                     ELSE IF \E p \in gone : RecordsOf(attached, p) # {} THEN "dissolve"
                     ELSE IF ~ RefreshSucceeds(dissolved, again, attached, out) THEN "doi"
                     ELSE "none",
         rows |-> Refreshed(dissolved, again, attached, out)]

(* Where a plan attaches each record, new groups being numbered in the     *)
(* order of their smallest records.                                        *)
NewGroups(plan) == {g \in plan.groups : g.target = None}

Target(plan, g) ==
    IF g.target # None THEN g.target
    ELSE created + Cardinality({h \in NewGroups(plan) : Min(h.members) <= Min(g.members)})

Attached(plan) ==
    LET joined(r) == {Target(plan, g) : g \in {h \in plan.groups : r \in h.members}}
    IN  [r \in Records |-> IF r \in plan.detached THEN None
                           ELSE IF joined(r) = {} THEN pub[r] ELSE Only(joined(r))]

(* The DOIs removed: those of the neighbourhood are decided anew.          *)
RemovedBy(plan, ids) ==
    [r \in Records |-> IF r \in ids THEN {d \in Dois : <<r, d>> \in plan.removals}
                       ELSE removed[r]]

(* _apply: groups created and joined, records detached, publications left  *)
(* recomputed, dissolved ones deleted, then the recomputation of the       *)
(* publications of the marked records; an error undoes all of it.          *)
ApplyPlan(plan, attached, out, dirty) ==
    LET survivors == {Target(plan, g) : g \in plan.groups}
        gone == {e[1] : e \in plan.dissolved}
        left == ({pub[r] : r \in plan.detached} \ {None}) \ (survivors \cup gone)
        founded == {[id |-> Target(plan, g), doi |-> g.doi] : g \in NewGroups(plan)}
        last == created + Cardinality(NewGroups(plan))
    IN  /\ last <= Cardinality(Pubs)
        /\ \E end \in {Rewritten(pubs \cup founded, left, gone,
                                  Recomputed(dirty, attached, survivors) \ gone, attached, out)} :
              /\ broken' = end.failure
              /\ IF end.failure # "none"
                 THEN UNCHANGED <<removed, pub, pubs, created, redirect, grouping>>
                 ELSE /\ pub' = attached
                      /\ removed' = out
                      /\ pubs' = end.rows
                      /\ created' = last
                      /\ redirect' = Redirected(plan.dissolved)
                      /\ grouping' = grouping \cup (MembershipChanged(attached) \ gone)

(* _plan then _apply, for the marked records and the manual merges.        *)
Apply(dirty, verdicts) ==
    \E U \in {Universe(dirty, verdicts)} :
    \E plan \in {Plan(U, [d \in Dois |-> Only({x.id : x \in {y \in pubs : y.doi = d}})],
                      [p \in Pubs |-> Cardinality(RecordsOf(pub, p))])} :
    \E attached \in {Attached(plan)}, out \in {RemovedBy(plan, Ids(U))} :
        /\ ApplyPlan(plan, attached, out, dirty)
        /\ purged' = IF broken' = "none" THEN purged \ Ids(U) ELSE purged

(* reconcile: the marked records with their siblings; the marks leave with *)
(* the transaction, or stay with its failure.                              *)
Reconcile ==
    /\ queue # {} /\ broken = "none"
    /\ Apply(WithSiblings(queue \cap Existing), merges)
    /\ queue' = IF broken' = "none" THEN {} ELSE queue
    /\ UNCHANGED <<content, issued, merges, aligned, writes, fresh>>

(* reconcile with rebuild: the whole stock is marked first.                *)
Rebuild ==
    /\ Existing # {} /\ broken = "none"
    /\ Apply(Existing, merges)
    /\ queue' = IF broken' = "none" THEN {} ELSE queue
    /\ fresh' = (broken' = "none")
    /\ UNCHANGED <<content, issued, merges, aligned, writes>>

------------------------------------------------------------------------------
(* Writes of source records, and what else acts on publications            *)

(* upsert_source_record: the identifiers are written anew, all active.     *)
Normalize(r, c) ==
    /\ writes < MaxWrites
    /\ content[r] # c
    /\ content[r] # None \/ r = issued + 1
    /\ issued' = Max({issued, r})
    /\ content' = [content EXCEPT ![r] = c]
    /\ removed' = [removed EXCEPT ![r] = {}]
    /\ queue' = queue \cup {r}
    /\ writes' = writes + 1
    /\ fresh' = FALSE
    /\ UNCHANGED <<pub, pubs, created, redirect, merges, grouping, aligned, purged, broken>>

(* _delete_source_records: the other records of the publication, and the   *)
(* publication, are marked first.                                          *)
DeleteRecord(r) ==
    /\ writes < MaxWrites
    /\ content[r] # None
    /\ content' = [content EXCEPT ![r] = None]
    /\ removed' = [removed EXCEPT ![r] = {}]
    /\ pub' = [pub EXCEPT ![r] = None]
    /\ queue' = queue \cup {s \in Existing \ {r} : pub[r] # None /\ pub[s] = pub[r]}
    /\ grouping' = grouping \cup ({pub[r]} \ {None})
    /\ writes' = writes + 1
    /\ fresh' = FALSE
    /\ UNCHANGED <<issued, pubs, created, redirect, merges, aligned, purged, broken>>

(* PublicationMergeService.merge: the verdict is recorded and applied at   *)
(* once; refused for two DOIs, or if it does not give one publication.     *)
ManualMerge(p, q) ==
    LET S == RecordsOf(pub, p) \cup RecordsOf(pub, q)
        dois == {DoiOfPub(p), DoiOfPub(q)} \ ({None} \cup Deposits)
    IN  /\ writes < MaxWrites
        /\ p # q /\ {p, q} \subseteq Ids(pubs)
        /\ Cardinality(dois) <= 1
        /\ S \notin merges
        /\ merges' = merges \cup {S}
        /\ broken = "none" /\ Apply(S, merges') /\ broken' = "none"
        /\ LET merged == {pub'[r] : r \in S} \ {None}
           IN  /\ Cardinality(merged) = 1
               /\ aligned' = [m \in Pubs |-> IF m \in merged THEN RecordsOf(pub', m)
                                            ELSE aligned[m]]
        /\ writes' = writes + 1
        /\ fresh' = FALSE
        /\ UNCHANGED <<content, issued, queue>>

(* finalize.purge_publications: the publications without record, and those *)
(* without a contribution attached to a person nor an evidence linked to   *)
(* the document, any of them here, since persons are in PersonResolution.  *)
(* The foreign key detaches their records, which nothing marks.            *)
Purge ==
    \E unattributed \in SUBSET Ids(pubs) :
        LET gone == unattributed \cup {p \in Ids(pubs) : RecordsOf(pub, p) = {}}
            detached == {r \in Records : pub[r] \in gone}
        IN  /\ gone # {}
            /\ pubs' = Deleted(pubs, gone)
            /\ pub' = [r \in Records |-> IF r \in detached THEN None ELSE pub[r]]
            /\ purged' = purged \cup detached
            /\ writes' = IF detached = {} THEN writes ELSE writes + 1
            /\ writes' <= MaxWrites
            /\ UNCHANGED <<content, issued, removed, created, redirect, merges, queue, grouping,
                           aligned, fresh, broken>>

(* The alignment of the authors of the marked publications.                *)
Align ==
    /\ grouping # {}
    /\ aligned' = [p \in Pubs |-> IF p \in grouping THEN RecordsOf(pub, p) ELSE aligned[p]]
    /\ grouping' = {}
    /\ UNCHANGED <<content, issued, removed, pub, pubs, created, redirect, merges, queue,
                   purged, fresh, broken, writes>>

Next ==
    \/ \E r \in Records : DeleteRecord(r) \/ \E c \in Written : Normalize(r, c)
    \/ Reconcile
    \/ Rebuild
    \/ \E p, q \in Pubs : ManualMerge(p, q)
    \/ Purge
    \/ Align

Spec == Init /\ [][Next]_vars

------------------------------------------------------------------------------
(* Properties                                                              *)

(* A reconciliation never fails: neither on the unique constraint of the   *)
(* DOIs, whatever publication releases the DOI another one takes in the    *)
(* same pass or keeps it without a record, nor on a dissolved publication  *)
(* that still has records.                                                 *)
NeverBroken == broken = "none"

(* The authors of a publication were aligned on the records it has, unless *)
(* the alignment is due: every change of membership is marked.             *)
MembershipIsAligned ==
    \A p \in Ids(pubs) \ grouping : aligned[p] = RecordsOf(pub, p)

(* The identifier of a dissolved publication leads in one step to one that *)
(* was not dissolved itself.                                               *)
RedirectsAreDirect ==
    \A p \in Pubs : redirect[p] # None => redirect[p] \in Pubs /\ redirect[redirect[p]] = None

(* After a pass, a record that may found a publication has one, but those  *)
(* whose publication was purged since a pass last decided them: nothing    *)
(* marks them, and they wait for a mark of their own or for a rebuild.     *)
FoundersArePublished ==
    queue = {} => \A r \in Existing \ purged :
        content[r].matchable /\ content[r].year /\ content[r].founds => pub[r] # None

ActiveDois(r) == DoisOf(ActiveRecord(r, removed))

(* A DOI belongs to the records of one publication.                        *)
OneDoiOnePublication ==
    \A r, s \in Existing :
        content[r].matchable /\ content[s].matchable /\ ActiveDois(r) \cap ActiveDois(s) # {}
        => pub[r] = pub[s]

(* Two records with a DOI of their own, not a deposit, or that are works,  *)
(* are in one publication only if it is the same DOI or work.  A record    *)
(* derived from another one follows it.                                    *)
AnchorsApart ==
    LET Own(r) == IF content[r].work THEN r ELSE Only(content[r].strong \ (Deposits \cup removed[r]))
    IN  \A r, s \in {t \in Existing : content[t].derived = None /\ pub[t] # None} :
            pub[r] = pub[s] /\ Own(r) # None /\ Own(s) # None => Own(r) = Own(s)

(* The DOI of a publication is the one its records designate.              *)
DoiIsThatOfItsRecords ==
    \A row \in pubs : LET S == RecordsOf(pub, row.id)
                     IN  S # {} => row.doi = PublicationDoi(S, removed)

(* A DOI that a record has in a strong role is kept by one of them.        *)
StrongDoisAreKept ==
    \A r \in Existing : content[r].matchable =>
        \A d \in content[r].strong : \E s \in Existing : d \in content[s].strong \ removed[s]

(* After a reconciliation of the whole stock.                              *)
RebuildSettles ==
    fresh => OneDoiOnePublication /\ AnchorsApart /\ DoiIsThatOfItsRecords /\ StrongDoisAreKept

(* Reconciling the whole stock again changes nothing, if no record is both *)
(* a parent and derived (README, section 3), nor lost its publication in a *)
(* purge, after which a rebuild gives it one again.                        *)
RebuildIsIdempotent ==
    [][Rebuild /\ fresh /\ purged = {} => UNCHANGED <<pub, pubs, removed, broken>>]_vars

(* The direct neighbourhood is enough: once the marked records are         *)
(* reconciled, reconciling the whole stock moves no record, but those a    *)
(* purge detached.                                                         *)
NeighbourhoodIsEnough ==
    [][Rebuild /\ queue = {} /\ purged = {} => UNCHANGED <<pub, pubs>>]_vars
==============================================================================

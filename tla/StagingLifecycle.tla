-------------------------- MODULE StagingLifecycle ---------------------------
(***************************************************************************)
(* The life of a harvested document between its source and its source      *)
(* record: the staging table and its normalization queue                   *)
(* (pipeline/ingestion/common/staging.py), the re-reading of stale and of  *)
(* truncated documents (stale_refetch.py, openalex/fetch_truncated.py), an *)
(* import from the command line running beside the pipeline, the           *)
(* normalizer (normalizer.py) and the removal of the records of documents  *)
(* that disappeared (source_records.py).                                   *)
(*                                                                         *)
(* The pipeline lock makes its phases exclusive, in an order the options   *)
(* (--from, --only) and interruptions make arbitrary; the import is        *)
(* concurrent with all of them.                                            *)
(***************************************************************************)
EXTENDS Naturals, FiniteSets

CONSTANTS
    Docs,           \* documents of one source, by native identifier
    Contents,       \* contents a document may have at its source
    Refused,        \* contents the normalizer refuses (no title, no year, ...)
    Long,           \* contents with more authors than a list response gives
    AtCap,          \* contents with exactly the number of authors a list response is capped to
    Window,         \* contents of each document of a year of the default window, without a year, or of an ongoing thesis
    Absent,         \* the source answers 404
    None,           \* no value in a column, no row
    MaxChanges,     \* bound on the changes at the source and on the imports
    MaxErrors       \* bound on errors, unanswered requests and interruptions

ASSUME ContentsAssumption ==
    /\ Refused \subseteq Contents /\ Long \subseteq Contents /\ AtCap \subseteq Contents
    /\ Window \subseteq Docs \X Contents
    /\ Long \cap AtCap = {}
    /\ Absent \notin Contents \cup Docs
    /\ Contents \cap Docs = {}

ASSUME BoundsAssumption == MaxChanges \in Nat /\ MaxErrors \in Nat

VARIABLES
    src,            \* what the source has for each identifier: a content, Absent, or the document it was merged into
    raw,            \* staging.raw_data, Emptied when '{}'; None when there is no row
    hash,           \* staging.raw_hash; the fingerprint is injective, so it is the payload it was computed from
    truncated,      \* staging.authors_truncated
    disappeared,    \* staging.disappeared_at IS NOT NULL
    old,            \* rows whose last_seen_at is older than fetch_stale_after_days
    queued,         \* staging_normalization_queue
    phase,          \* phase holding the pipeline lock: "idle", "stale", "truncated", "normalize"
    selection,      \* rows selected by the phase and not processed yet
    copied,         \* marks of the snapshot still unchanged in the queue: delete_processed would delete them
    rows,           \* row read by the normalizer (raw and hash), None otherwise
    done,           \* done_ids: rows treated since the last commit of the normalizer
    pending,        \* its uncommitted effects on each row
    record,         \* source_records: payload from which the record was written, None without record
    last,           \* auxiliary: content of the last payload written in raw_data, None without row
    pruned,         \* auxiliary: rows whose record was removed because the document had disappeared
    changes,        \* changes at the source and imports so far
    errors          \* errors, unanswered requests and interruptions so far

stagingVars == <<raw, hash, last, truncated, disappeared, old, queued, copied>>
normalizerVars == <<rows, done, pending>>
vars == <<src, stagingVars, phase, selection, normalizerVars, record, pruned, changes, errors>>

(* A payload: a content, with the whole list of its authors or not.        *)
Payloads == [content : Contents, full : BOOLEAN]
Emptied == [content |-> None, full |-> FALSE]

(* The mark of a missing value is none of the values.                      *)
ASSUME NoneAssumption ==
    /\ None \notin Contents
    /\ None \notin Payloads \cup {Emptied}
    /\ None \notin [raw : Payloads \cup {Emptied}, hash : Payloads]

(* What the source answers in a list of documents, and by identifier.      *)
Listed(c) == [content |-> c, full |-> c \notin Long]
Whole(c) == [content |-> c, full |-> TRUE]

(* authors_may_be_truncated: the list response is at the cap.              *)
MayBeTruncated(c) == c \in Long \cup AtCap

(* An uncommitted effect of the normalizer: the record written (None for a *)
(* deletion), the payload emptied or not.                                  *)
NoEffect == [written |-> FALSE, record |-> None, cleared |-> FALSE]
Effects == [written : BOOLEAN, record : Payloads \cup {None}, cleared : BOOLEAN]

Staged(d) == hash[d] # None

(* Types of the columns of staging and of the state of each phase; what is *)
(* copied is in the queue, and only existing rows are marked.              *)
TypeOK ==
    /\ src \in [Docs -> Contents \cup Docs \cup {Absent}]
    /\ raw \in [Docs -> Payloads \cup {Emptied, None}]
    /\ hash \in [Docs -> Payloads \cup {None}]
    /\ last \in [Docs -> Contents \cup {None}]
    /\ {truncated, disappeared, old, queued, copied, selection, done, pruned} \subseteq SUBSET Docs
    /\ phase \in {"idle", "stale", "truncated", "normalize"}
    /\ rows \in [Docs -> [raw : Payloads \cup {Emptied}, hash : Payloads] \cup {None}]
    /\ pending \in [Docs -> Effects]
    /\ record \in [Docs -> Payloads \cup {None}]
    /\ changes \in 0..MaxChanges /\ errors \in 0..MaxErrors
    /\ copied \subseteq queued
    /\ \A d \in truncated \cup disappeared \cup old \cup queued : Staged(d)

Init ==
    /\ src \in [Docs -> Contents]
    /\ raw = [d \in Docs |-> None]
    /\ hash = [d \in Docs |-> None]
    /\ last = [d \in Docs |-> None]
    /\ truncated = {} /\ disappeared = {} /\ old = {} /\ queued = {}
    /\ phase = "idle"
    /\ selection = {} /\ copied = {} /\ done = {}
    /\ rows = [d \in Docs |-> None]
    /\ pending = [d \in Docs |-> NoEffect]
    /\ record = [d \in Docs |-> None]
    /\ pruned = {}
    /\ changes = 0 /\ errors = 0

------------------------------------------------------------------------------
(* The source and time                                                     *)

(* A document is revised, withdrawn, comes back, or is merged into another *)
(* one the source has.                                                     *)
SourceChanges(d, v) ==
    /\ changes < MaxChanges
    /\ v # src[d]
    /\ v \in Docs => v # d /\ src[v] \in Contents
    /\ \A e \in Docs : src[e] # d
    /\ src' = [src EXCEPT ![d] = v]
    /\ changes' = changes + 1
    /\ UNCHANGED <<stagingVars, phase, selection, normalizerVars, record, pruned, errors>>

Ages(d) ==
    /\ Staged(d) /\ d \notin old
    /\ old' = old \cup {d}
    /\ UNCHANGED <<src, raw, hash, last, truncated, disappeared, queued, copied, phase, selection,
                   normalizerVars, record, pruned, changes, errors>>

------------------------------------------------------------------------------
(* Writes of staging                                                       *)

(* A row the normalizer has emptied is locked until its commit.            *)
Locked(d) == pending[d].cleared

(* Rows to queue after an upsert: document inserted or changed, unless     *)
(* truncated.                                                              *)
ToQueue(d, changed, trunc) == IF changed /\ ~ trunc THEN {d} ELSE {}

(* enqueue: the id enters the queue with a new seq, so the couple a        *)
(* snapshot may hold no longer matches.                                    *)
Enqueue(S) ==
    /\ queued' = queued \cup S
    /\ copied' = copied \ S

(* mark_disappeared, which touches existing rows only.                     *)
MarkedDisappeared(S) == {d \in S : Staged(d)}

(* Mutant: a changed payload is rewritten, its normalization not asked     *)
(* again.                                                                  *)
UpsertUnqueued(d, p, capped, absent) ==
    LET changed == hash[d] # p
        trunc == IF changed THEN capped ELSE d \in truncated
    IN  /\ ~ Locked(d)
        /\ raw' = IF changed THEN [raw EXCEPT ![d] = p] ELSE raw
        /\ hash' = [hash EXCEPT ![d] = p]
        /\ last' = IF changed THEN [last EXCEPT ![d] = p.content] ELSE last
        /\ truncated' = IF trunc THEN truncated \cup {d} ELSE truncated \ {d}
        /\ disappeared' = (disappeared \ {d}) \cup MarkedDisappeared(absent)
        /\ old' = old \ {d}
        /\ Enqueue(IF hash[d] = None THEN ToQueue(d, changed, trunc) ELSE {})

(* StagingStore.upsert: the payload is rewritten, and its normalization    *)
(* asked for, only if its fingerprint changed; the identifiers of absent   *)
(* are marked disappeared in the same transaction.                         *)
Upsert(d, p, capped, absent) ==
    LET changed == hash[d] # p
        trunc == IF changed THEN capped ELSE d \in truncated
    IN  /\ ~ Locked(d)
        /\ raw' = IF changed THEN [raw EXCEPT ![d] = p] ELSE raw
        /\ hash' = [hash EXCEPT ![d] = p]
        /\ last' = IF changed THEN [last EXCEPT ![d] = p.content] ELSE last
        /\ truncated' = IF trunc THEN truncated \cup {d} ELSE truncated \ {d}
        /\ disappeared' = (disappeared \ {d}) \cup MarkedDisappeared(absent)
        /\ old' = old \ {d}
        /\ Enqueue(ToQueue(d, changed, trunc))

(* complete_authors: the whole document under the fingerprint of the       *)
(* truncated one.  An identifier without a row is not written.             *)
CompleteAuthors(d, p) ==
    /\ raw' = IF Staged(d) THEN [raw EXCEPT ![d] = p] ELSE raw
    /\ last' = IF Staged(d) THEN [last EXCEPT ![d] = p.content] ELSE last
    /\ truncated' = truncated \ {d}
    /\ old' = old \ {d}
    /\ Enqueue({e \in {d} : Staged(e)})
    /\ UNCHANGED hash

(* Mutant: the identifier is queued without looking for its row.           *)
ClearTruncatedAnyway(d) ==
    /\ truncated' = truncated \ {d}
    /\ Enqueue({d})
    /\ UNCHANGED <<raw, hash, last, old>>

(* clear_truncated.                                                        *)
ClearTruncated(d) ==
    /\ truncated' = truncated \ {d}
    /\ Enqueue({d} \cap truncated)
    /\ UNCHANGED <<raw, hash, last, old>>

(* Harvest by affiliation or by person: a list response.                   *)
Harvest(d) ==
    /\ phase = "idle"
    /\ src[d] \in Contents
    /\ Upsert(d, Listed(src[d]), MayBeTruncated(src[d]), {})
    /\ UNCHANGED <<src, phase, selection, normalizerVars, record, pruned, changes, errors>>

(* Import of an export file, of any date, beside the pipeline.  The source *)
(* that has one (Web of Science) gives whole lists of authors.             *)
Import(d, c) ==
    /\ changes < MaxChanges
    /\ Long \cup AtCap = {}
    /\ Upsert(d, Whole(c), FALSE, {})
    /\ changes' = changes + 1
    /\ UNCHANGED <<src, phase, selection, normalizerVars, record, pruned, errors>>

------------------------------------------------------------------------------
(* Re-reading by native identifier                                         *)

(* by_native_id: the document the source returns for the identifier, and   *)
(* the identifiers to take as absent: the one asked for if the source      *)
(* answers 404 or returns another document.                                *)
Returned(d) == IF src[d] \in Docs THEN {src[d]} ELSE IF src[d] = Absent THEN {} ELSE {d}
AbsentAfter(d) == {d} \ Returned(d)

(* The selection of fetch_stale: an old row whose record, if it has one,   *)
(* has a content of the given years (or an ongoing thesis, or no year).    *)
Stale(d, years) ==
    /\ Staged(d) /\ d \notin disappeared /\ d \in old
    /\ record[d] # None => <<d, record[d].content>> \in years

ToComplete(d) == Staged(d) /\ d \in truncated /\ d \notin disappeared

Select(p, S) ==
    /\ phase = "idle"
    /\ S # {}
    /\ phase' = p
    /\ selection' = S
    /\ UNCHANGED <<src, raw, hash, last, truncated, disappeared, old, queued, normalizerVars,
                   record, pruned, changes, errors>>

(* The years are those of --years, or those of the default window.         *)
SelectStale(years) == Select("stale", {d \in Docs : Stale(d, years)}) /\ UNCHANGED copied
SelectTruncated == Select("truncated", {d \in Docs : ToComplete(d)}) /\ UNCHANGED copied

(* Mutant: a document the source no longer has is only left out.           *)
NotFoundIgnored(d) ==
    /\ Returned(d) = {}
    /\ UNCHANGED stagingVars

(* The source answers 404.                                                 *)
NotFound(d) ==
    /\ Returned(d) = {}
    /\ disappeared' = disappeared \cup MarkedDisappeared({d})
    /\ UNCHANGED <<raw, hash, last, truncated, old, queued, copied>>

(* The end of one request of fetch_stale or of fetch_truncated.            *)
Answered(p, d) ==
    /\ phase = p /\ d \in selection
    /\ selection' = selection \ {d}
    /\ phase' = IF selection = {d} THEN "idle" ELSE p
    /\ UNCHANGED <<src, normalizerVars, record, pruned, changes, errors>>

(* fetch_stale, one document.                                              *)
Reread(d) ==
    /\ Answered("stale", d)
    /\ \/ NotFound(d)
       \/ \E e \in Returned(d) : Upsert(e, Whole(src[e]), FALSE, AbsentAfter(d))

(* Mutant: the marker is kept when the completed document is written.      *)
CompleteMarkerKept(d) ==
    /\ Answered("truncated", d)
    /\ \/ NotFound(d)
       \/ \E e \in Returned(d) :
             /\ disappeared' = disappeared \cup MarkedDisappeared(AbsentAfter(d))
             /\ raw' = [raw EXCEPT ![d] = Whole(src[e])]
             /\ last' = [last EXCEPT ![d] = src[e]]
             /\ Enqueue({d})
             /\ UNCHANGED <<hash, truncated, old>>

(* fetch_truncated, one document: completed above the cap; at the cap or   *)
(* below, its marker is only removed.                                      *)
Complete(d) ==
    /\ Answered("truncated", d)
    /\ \/ NotFound(d)
       \/ \E e \in Returned(d) :
             /\ disappeared' = disappeared \cup MarkedDisappeared(AbsentAfter(d))
             /\ IF src[e] \in Long THEN CompleteAuthors(e, Whole(src[e])) ELSE ClearTruncated(e)

(* A source that cannot answer leaves the document for the next run.       *)
Unanswered(d) ==
    /\ phase \in {"stale", "truncated"} /\ d \in selection
    /\ errors < MaxErrors
    /\ errors' = errors + 1
    /\ selection' = selection \ {d}
    /\ phase' = IF selection = {d} THEN "idle" ELSE phase
    /\ UNCHANGED <<src, stagingVars, normalizerVars, record, pruned, changes>>

------------------------------------------------------------------------------
(* Normalization                                                           *)

(* snapshot_pending.                                                       *)
Snapshot ==
    /\ Select("normalize", queued)
    /\ copied' = queued

(* fetch_staging_by_ids: a row is read before it is processed, in a batch  *)
(* of rows.                                                                *)
Read(d) ==
    /\ phase = "normalize" /\ d \in selection /\ rows[d] = None
    /\ rows' = [rows EXCEPT ![d] = [raw |-> raw[d], hash |-> hash[d]]]
    /\ UNCHANGED <<src, stagingVars, phase, selection, done, pending, record, pruned,
                   changes, errors>>

(* Mutant: the payload is emptied whatever was written since it was read.  *)
ClearsAlways(d) == TRUE

(* clear_payload leaves a row rewritten since it was read.                 *)
Clears(d) == hash[d] = rows[d].hash

(* process_work: an emptied row is skipped, a refused document loses its   *)
(* record, another has it written; the payload is then emptied.            *)
Process(d) ==
    /\ rows[d] # None
    /\ d \in selection
    /\ selection' = selection \ {d}
    /\ done' = done \cup {d}
    /\ rows' = [rows EXCEPT ![d] = None]
    /\ pending' =
          LET p == rows[d].raw
          IN  IF p = Emptied THEN pending
              ELSE [pending EXCEPT ![d] =
                       [written |-> TRUE,
                        record |-> IF p.content \in Refused THEN None ELSE p,
                        cleared |-> Clears(d)]]
    /\ UNCHANGED <<src, stagingVars, phase, record, pruned, changes, errors>>

(* A row in error is undone by its savepoint, and stays in the queue.      *)
RowError(d) ==
    /\ rows[d] # None
    /\ d \in selection
    /\ errors < MaxErrors
    /\ errors' = errors + 1
    /\ selection' = selection \ {d}
    /\ rows' = [rows EXCEPT ![d] = None]
    /\ UNCHANGED <<src, stagingVars, phase, done, pending, record, pruned, changes>>

(* Mutant: only the documents normalized leave the queue, not the refused. *)
ForgottenIfNormalized == {d \in done \cap copied : pending[d].record # None}

(* forget_normalized: the couples treated that are still as copied.        *)
Forgotten == done \cap copied

(* The commit of a batch.                                                  *)
Commit ==
    /\ done # {}
    /\ queued' = queued \ Forgotten
    /\ copied' = copied \ Forgotten
    /\ done' = {}
    /\ raw' = [d \in Docs |-> IF pending[d].cleared THEN Emptied ELSE raw[d]]
    /\ record' = [d \in Docs |-> IF pending[d].written THEN pending[d].record ELSE record[d]]
    /\ pruned' = {d \in pruned : ~ pending[d].written}
    /\ pending' = [d \in Docs |-> NoEffect]
    /\ UNCHANGED <<src, hash, last, truncated, disappeared, old, phase, selection, rows, changes, errors>>

(* The end of the normalization of the source.                             *)
Finish ==
    /\ phase = "normalize" /\ selection = {} /\ done = {}
    /\ phase' = "idle"
    /\ copied' = {}
    /\ UNCHANGED <<src, raw, hash, last, truncated, disappeared, old, queued, selection,
                   normalizerVars, record, pruned, changes, errors>>

(* delete_disappeared_source_records.                                      *)
Prune ==
    /\ phase = "idle"
    /\ \E d \in disappeared : record[d] # None
    /\ record' = [d \in Docs |-> IF d \in disappeared THEN None ELSE record[d]]
    /\ pruned' = pruned \cup {d \in disappeared : record[d] # None}
    /\ UNCHANGED <<src, stagingVars, phase, selection, normalizerVars, changes, errors>>

(* An interruption rolls back what is not committed.                       *)
Interrupt ==
    /\ phase # "idle"
    /\ errors < MaxErrors
    /\ errors' = errors + 1
    /\ phase' = "idle"
    /\ selection' = {} /\ copied' = {} /\ done' = {}
    /\ rows' = [d \in Docs |-> None]
    /\ pending' = [d \in Docs |-> NoEffect]
    /\ UNCHANGED <<src, raw, hash, last, truncated, disappeared, old, queued, record, pruned, changes>>

------------------------------------------------------------------------------
Source == \E d \in Docs : Ages(d) \/ \E v \in Contents \cup Docs \cup {Absent} : SourceChanges(d, v)

Lookups ==
    \/ \E years \in SUBSET (Docs \X Contents) : SelectStale(years)
    \/ SelectTruncated
    \/ \E d \in Docs : Reread(d) \/ Complete(d) \/ Unanswered(d)

Normalization ==
    \/ Snapshot
    \/ \E d \in Docs : Read(d) \/ Process(d) \/ RowError(d)
    \/ Commit
    \/ Finish
    \/ Prune

Next ==
    \/ Source
    \/ \E d \in Docs : Harvest(d) \/ \E c \in Contents : Import(d, c)
    \/ Lookups
    \/ Normalization
    \/ Interrupt

Spec == Init /\ [][Next]_vars

(* The phase that holds the lock goes on: it has a finite selection, and   *)
(* each of its steps but the readings and the commits takes from it.       *)
PhaseGoesOn ==
    \/ \E d \in Docs : Reread(d) \/ Complete(d) \/ Read(d) \/ Process(d)
    \/ Commit
    \/ Finish

(* Time passes, a phase that has started ends, and each phase with         *)
(* something to do runs again and again, whatever the others did (strong   *)
(* fairness: the other phases hold the lock in between): the re-reading    *)
(* over the default window, in the runs in full mode, the only ones that   *)
(* have it.  The source need not change, nor anything be harvested or      *)
(* imported, nor a run be given other years.                               *)
Fairness ==
    /\ \A d \in Docs : WF_vars(Ages(d))
    /\ WF_vars(PhaseGoesOn)
    /\ SF_vars(SelectStale(Window)) /\ SF_vars(Snapshot) /\ SF_vars(Prune)

FairSpec == Spec /\ Fairness

(* What the completion of the truncated documents rests on alone: the      *)
(* re-reading of stale documents, which also completes them, is left aside *)
(* but for the end of the phases that hold the lock.                       *)
CompletionFairness ==
    /\ WF_vars(PhaseGoesOn)
    /\ SF_vars(SelectTruncated)

CompletionSpec == Spec /\ CompletionFairness

------------------------------------------------------------------------------
(* Properties                                                              *)

(* The last payload written for d, as the normalizer leaves it.            *)
Normalized(d) ==
    IF last[d] \in Refused THEN record[d] = None
    ELSE record[d] # None /\ record[d].content = last[d]

(* No payload is emptied before its content is in the record: emptying is  *)
(* final in the database, and the document would not be normalized again   *)
(* until it changes at its source.                                         *)
NoPayloadLost == \A d \in Docs : raw[d] = Emptied => Normalized(d) \/ d \in pruned

(* A row that nothing waits for (neither the queue nor the completion of   *)
(* its authors) has its last content in its record, unless the record was  *)
(* removed while the document was absent from its source.                  *)
ContentReachesRecord ==
    \A d \in Docs \ (queued \cup truncated \cup pruned) : Staged(d) => Normalized(d)

(* A row in the queue leaves it.                                           *)
QueuedAreNormalized == \A d \in Docs : d \in queued ~> d \notin queued

(* A truncated list of authors does not wait for ever: the document is     *)
(* completed, or found to be absent from its source.                       *)
TruncatedAreCompleted == \A d \in Docs : d \in truncated ~> d \notin truncated \/ d \in disappeared

(* The years of the record of d are in the default window.                 *)
InWindow(d) == record[d] # None /\ <<d, record[d].content>> \in Window

(* The record of a document withdrawn from its source, or merged into      *)
(* another, is removed, if the document does not come back, and as long as *)
(* the record is in the default window: a record of an older year is not   *)
(* read again by any run that is not given that year.                      *)
WithdrawnRecordsLeave ==
    \A d \in Docs :
        (src[d] \notin Contents /\ InWindow(d)) ~> (src[d] \in Contents \/ ~ InWindow(d))

(* What the code says of itself, and does not hold                         *)

(* A document back in its source is present again (last_seen_at pushed,    *)
(* disappearance cleared): its content is in its record, as that of a      *)
(* document that never left.                                               *)
ReturnedAreInTheirRecord ==
    \A d \in Docs \ (queued \cup truncated \cup disappeared) : Staged(d) => Normalized(d)
==============================================================================

# bibliometrie-uca in TLA+

The program harvests the publications of a university from eight bibliographic
sources into PostgreSQL, merges what the sources say of one document into one
publication, finds its authors among the persons of the institution, and offers
the result to a public site and an administration interface. A nightly pipeline
(`pipeline/`) does the work, phase by phase; the admin API (`interfaces/api`,
`application/services`) changes the same tables while it runs. Paths below are
relative to the root of the repository (`src/` in `PROJECT.json`).

The models are about what the pipeline rests on and what no unit test shows:
that nothing is forgotten between a change and its recomputation, and that the
decisions on identity (which records are one publication, which contributions
are of one person) stay coherent over any sequence of writes and passes, and
under what the administration decides meanwhile.

## 1. The system

### Components

| Component | State | Operations | What makes it correct |
|---|---|---|---|
| Recomputation queues (`infrastructure/db/queues.py`) | eight tables `(id, seq)`; a temporary table per task | `enqueue`, `snapshot`, `delete_processed` | a row whose input changed stays marked until a result computed from this input is committed |
| Staging (`pipeline/ingestion/common/staging.py`) | `raw_data`, `raw_hash`, `authors_truncated`, `disappeared_at`, `last_seen_at`, normalization queue | `stage`, `complete_authors`, `clear_truncated`, `mark_disappeared`, `clear_payload`, `snapshot_pending`, `forget_normalized` | no payload is emptied before it is in a record; a document no one waits for is in its record |
| Re-reading (`stale_refetch.py`, `openalex/fetch_truncated.py`, `lookup.py`) | selection of the run | one request per document, writes by the effect of the answer | truncated lists end completed; withdrawn documents of the window end removed |
| Normalizer (`normalizer.py`, `source_records.py`) | batch of uncommitted effects | `run`, `process_work`, `_reject`, deletion of disappeared records | a failed row keeps its mark; an interruption loses nothing |
| Reconciliation decision (`domain/publications/reconciliation.py`, `domain/source_records/keys.py`, `domain/entity_resolution.py`) | none: a function | `plan_reconciliation` | one publication for each DOI, distinct anchors apart, stable under repetition |
| Publications phase (`transformation/publications/reconciliation.py`, `lifecycle.py`, `store.py`, `consolidation.py`) | `source_records.publication_id`, `publications`, removed identifiers, redirections, two queues | `reconcile` (incremental and rebuild), `reconcile_source_records`, `refresh`, `dissolve`, `purge_publications` | never aborts on its own constraint; marks each change of membership; redirections lead to a publication |
| Manual merge (`application/services/publication_merge.py`) | verdicts | `merge` | applied at once or refused, kept by later passes |
| Metadata correction (`transformation/publications/correction`, `domain/source_records`) | columns of records and what they were before correction, `removed_by` of identifiers, `doi_targets` | five sub-steps, requalification of a serial | the source's values are never lost; marks what it changes; settles; tells works of one DOI apart |
| Grouping of authors (`author_grouping`) | `contributions` | `build_contributions`, `realign` | each publication aligned on its present records; identifiers of contributions reused |
| Resolution of persons (`transformation/persons`, `domain/persons`) | person and mode of each contribution, persons, name forms and identifiers with a verdict, a queue | completion of first names, pins, decision by identifier and by name, creations, name forms, purge and redecisions | one contribution of a person in a publication; pins and rejections prevail; what attaches a contribution still supports it; the runs reach a fixed point |
| Administration of persons (`application/services/persons.py`, `contributions.py`) | pins, rejected pairs, verdicts | assignment, rejection of a pair, of a form, of an identifier, merge | what it decides outlives the runs, also those it interleaves with |
| Structures, addresses, perimeter | recognised structures, perimeter | affiliations phase, admin services | |
| Publishing | serials, publishers, monographs | attach, merge, delete empty ones | |
| Enrichments | relations, subjects, countries, open access | one phase each | those with a queue: as the queues |
| HTTP (`pipeline/http`) | circuit breaker, pace, pool of workers on one connection | requests with retries, `run_fetch_pool` | one thread at a time on the connection; an unavailability is no absence; a failing source is cut, its items are left to the next run |
| Run of the pipeline (`run.py`, `task_runner.py`, `graph.py`, `runtime/lock.py`, `phase_executions.py`) | advisory lock, record of phases, bound of the daily harvest | phases in order, `--from`, `--only`, `--no-extras`, parallel tasks, interruption | one run at a time; nothing is undone before the phase named to resume, but what options left aside; the bound passes no change that staging has not |
| Read models, frontend, command line, raw store, migrations | | | not modelled: queries, presentation, scripts |

### Interactions

- Phases communicate through tables and queues only: harvest and re-reading
  write `staging` and mark it; normalization reads it and marks source records;
  the publications phase reads those marks and marks publications for the
  grouping of authors, which marks contributions for the resolution of persons.
- A transaction of the admin API, or an import from the command line, may
  commit at any point of a phase. Isolation is PostgreSQL's READ COMMITTED.
- The advisory lock excludes a second run of the pipeline. Phases of different
  runs come in any order, since `--from` and `--only` choose them and a failure
  stops the sequence.

### What is hard

Interleavings of marks with the task that consumes them; rows in error and
interruptions between two commits; a temporary table that outlives a rollback;
payloads emptied to save space while they may be rewritten; capped lists of
authors completed by another phase under an unchanged fingerprint; documents
withdrawn, merged and back; the decision on a partial neighbourhood, whose
result feeds the next decision; a unique constraint tested in the middle of a
pass that exchanges DOIs; persons decided from readings taken before the requests of the
administration that contradict them, and moved from one contribution of a
publication to another under a unique constraint; coroutines that share a
connection, a lock and a breaker, cancelled while their threads go on; runs stopped anywhere and
resumed by an operator, whose harvest starts where the last recorded one did. `PROJECT.json` lists each hazard at its line, with the
property that covers it or why none does yet.

## 2. Modules

| Module | Models | Lines it stands for |
|---|---|---|
| `Recalculation` | abstract specification: a request disappears only when the result is that of the current input, or the row is gone | the promise made by the docstring of `queues.py` |
| `RecomputeQueue` | one queue, concurrent transactions that mark, the task that consumes it | `queues.py`, `transaction.py`, `deps.py` (a transaction per request), `author_grouping.build_contributions` |
| `RecomputeQueueProofs` | theorems on `RecomputeQueue` | |
| `StagingLifecycle` | a document from its source to its record | `staging.py`, `stale_refetch.py`, `fetch_stale.py`, `lookup.py`, `fetch_truncated.py`, `normalizer.py`, `source_records.py`, `import_wos_export.py` |
| `StagingLifecycleProofs` | theorems on `StagingLifecycle` | |
| `ReconciliationPlan` | the decision, as operators on a set of members | `domain/publications/reconciliation.py`, `keys.py`, `entity_resolution.py` |
| `PublicationReconciliation` | publications over time; extends `ReconciliationPlan` | `transformation/publications/reconciliation.py`, `lifecycle.py`, `store.py`, `consolidation.py`, `publication_merge.py`, `merge_steps.py` |
| `PublicationReconciliationProofs` | theorems on `ReconciliationPlan` and `PublicationReconciliation` | |
| `CorrectionRules` | the decisions of the phase metadata_correction, as operators: types, serials by DOI, groups of one DOI, targets, matchability | `domain/source_records/metadata_correction/*`, `corrections.py`, `identifiers.py`, `scope.py` |
| `MetadataCorrection` | the phase, run after run, the requests that requalify a serial, the other phases' writes; extends `CorrectionRules` | `transformation/publications/correction/*`, `attach_serials.py`, `requalify_serial.py`, `serials.py` |
| `MetadataCorrectionProofs` | theorems on `MetadataCorrection` | |
| `PersonResolution` | the persons phase, run after run, the requests of the administration and the recompositions of contributions | `contribution_resolution.py`, `first_names.py`, `store.py`, `person_writes.py`, `populate_person_name_forms.py`, `purge.py`, `domain/persons/*`, `application/services/persons.py` and `contributions.py`, `contribution_repository.py`, `person_repository/*`, `domain/contributions/author_grouping.py` |
| `PersonResolutionProofs` | theorems on `PersonResolution` | |
| `PersonConstraintProofs` | theorems on `PersonResolution`: the unique constraint, the pins, the supports of attachments | |
| `FetchPool` | lookups by a pool of workers, run after run | `fetch_pool.py`, `circuit_breaker.py`, `http_retry.py`, `lookup.look_up`, `resolve_publishers.py`, `access_source.py`, `transaction.py` |
| `FetchPoolProofs` | theorems on `FetchPool` | |
| `PipelineRun` | the runs of the pipeline: lock, phases, blocks of parallel tasks, errors, interruptions, kills, resumption, bound of the daily harvest | `run.py`, `task_runner.py`, `graph.py`, `lock.py`, `parallel.py`, `access_source.py`, `modes.py`, `phase_executions.py`, `harvest.py`, `harvester.py`, `phases.py` |
| `PipelineRunProofs` | theorems on `PipelineRun` | |
| `MC...` | instances for TLC | |

**RecomputeQueue.** `queue[i]` is the `seq` of the committed mark of row `i`,
`marks[w]` what the open transaction of `w` has marked (locked rows),
`temp` the copied couples in the session of the task, `tempKept` what a rollback
leaves of it. The input of a row is the number of its committed writes
(`version`), its result the version it was computed from (`derived`). The task
computes from committed inputs, deletes the couples of the batch
(`DeleteProcessed`), and commits results and deletions together (`TaskCommit`).
A row in error keeps its mark (`RowError`), an exception or an interruption
rolls back the batch (`Abort`). The model is that of every consumer: those that
process the whole copy in one batch (`build_contributions`) and those that
commit by batches and restrict the deletion to ids (the normalizer).

**StagingLifecycle.** Payloads are contents with a flag that says whether the
list of authors is whole; the fingerprint `raw_hash` is injective, so `hash[d]`
is the payload it was computed from. `Upsert` is the `INSERT ... ON CONFLICT` of
`staging.py` with its queueing and its clearing of the disappearance;
`CompleteAuthors` and `ClearTruncated` are the two effects of
`fetch_truncated`. The normalizer reads rows by sub-batches (`Read`), processes
each under a savepoint (`Process`, `RowError`), and commits by batches at any
point (`Commit`): the size of a batch is abstracted to "any". `Import` is the
Web of Science import, which nothing excludes from running beside the pipeline;
that source has no capped lists, so imports happen only in instances without
them. The re-reading of stale documents selects those of given years only, by the year
of their record (`Stale`; a row without a record, a record without a year or an ongoing
thesis always passes): `years` is any set of contents of documents, for runs with
`--years`, and `Window` the one of the default years. Each answer of a lookup is one transaction: the code commits every fifty,
and what a crash loses before this commit is what `Unanswered` leaves undone.

**ReconciliationPlan.** A neighbourhood is a set of members. Keys other than
DOIs are elements of a set, since only their equality matters. `Components`,
`Partitions`, `SharedRemovals`, `FinalRemovals`, `Claim`, `Awarded` and
`Dissolutions` are the functions of the same names in the code. `Components` does
not follow the union-find of the code: it is the set of the smallest non-empty
groups that share no key with the rest (`Closed`), which is what it computes; the loop of
`_unique_doi_partitions` is a recursive function on sets of removals.

**PublicationReconciliation.** Each action is one transaction: a write or a
deletion of a record (`Normalize`, `DeleteRecord`), an incremental pass
(`Reconcile`), a pass on the whole stock (`Rebuild`), a manual merge, the purge
(`Purge`), the alignment of authors. The purge deletes the publications without
records, and those with records but without a contribution attached to a person nor
an evidence linked to the document: these are any of them, since persons are in
another module. The foreign key then sets the publication of their records to null
and nothing marks these records; `purged` remembers them until a pass decides them. `Apply` is the whole
of a pass: universe, plan, creations, moves, recomputation of the publications
left, dissolutions, recomputation of the others by batches with the unique
constraint on `publications.doi` tested after each (`RefreshSucceeds`). A
failure sets `broken` and changes nothing else, as the rollback does. The
module leaves to `Contents` what the stock may hold at first and to `Written`
what a later write may say: stocks of many kinds of records and long sequences
of writes are too many together, and `MixedSpec` takes stocks of every
kind without later writes, and stocks of few kinds with them.

**CorrectionRules, MetadataCorrection.** `facts[r]` is what the normalizer wrote of
a record, `row[r]` its columns with `raw`, the values before correction kept in
`corrections` (`Unset` without an entry), `status[r]` the `removed_by` of its
identifiers. A sub-step that writes by batches starts by reading everything and
computing its updates (`Start`, `Computed`), then commits them in any order
(`WriteSerial`, `WriteUnary`, `WriteRemovals`, `WriteMatchable`); a batch is one
record, so that whatever else happens, happens between any two. `DoiTargets` is
one transaction. `Interrupt` keeps what is committed. A request reads, corrects
and commits in one transaction, split where others may commit
(`AskRequalification`, `CommitRequalification`); it sees the type it gives. As in
the code an update holds `corrections` as a whole, and the unary rules see for
serial the one before correction, but its type from the column. Titles are
values with two relations, of one work (`Alike`) and distant (`Distant`); a DOI
has a kind, that of its text. `Following` is the order of `TASKS`.

**PersonResolution.** A contribution is a group of source contributions of one
publication (`aligned`); the source contributions, their names and identifiers
are constants, the rest is state. `resolve_contributions` is one READ COMMITTED
transaction, cut where a request may be committed in between: `Start` (marks of
`--rebuild-persons`, pins, completion of first names), `Prepare` (candidates,
index of the persons, rejections, each read once), `LoadBatch` (pins and taken
persons of one publication), `WriteBatch` (decisions, settlement, releases,
writes, attributions), `CreateNext` (the creations that wait for the end of the
batches, each decided again), `Commit`. What it has written and not committed is
`written`, `named`, `given`; `View`, `NameView` and the like are the tables under
these rows, which is what its own queries return, while a request sees the
tables. What it has loaded (`index`, `rejectedRead`, `pinsRead`, `taken`) stays
as it was read. A created or renamed person has the forms of its name in the
same transaction (`FormView`; `PgPersonRepository.create` and `rename` write them),
the forms its contributions give come with `Populate`. `Populate` and `Purge` are
the two transactions after it, and `Abort` the rollback of any of them: on the unique constraint (`conflict`), or
by an interruption. A request (`Assign`, `RejectPair`, `RejectForm`,
`RejectIdentifier`, `MergePersons`) is one transaction and one action; it cannot
take place while it must write a row the phase has written (`Unlocked`,
`FormsUnlocked`), as the row lock makes it wait. A merge deletes the absorbed
person, hence waits for any reference the phase has written to it; a reference to
the kept one does not hold it, unless a row comes to this person in a publication
where the phase has given it another (the unique constraint). `Regroup` is the realignment of
one publication for any new grouping of its source contributions, with the
reuse of identifiers by `plan_contribution_ids` and the marks of what it
recomposes.

**FetchPool.** A coroutine gives way only at an `await`: each action is what one
coroutine does between two of them (`pc[w]`), and a call to `asyncio.to_thread`
is a thread (`thread[w]`) whose end is an action of its own, since it goes on
when its coroutine is cancelled. `committed` and `open` are what the database
and the open transaction say of each item (nothing, found, absent), `reply` the
outcome of its last fetch, `failures` and `tripped` the breaker. `Start` selects
the items the database does not settle, and sets a fresh breaker; `Take`,
`Prepare`, the attempts of the request (`Answer`, `Retry`, `GiveUp`, `Refuse`),
`WriteEnds` and `CommitEnds` are the turn of a worker; `FetchRaises` and
`CallRaises` end it with an exception, after which the others go on until
`Cancel`; `Rollback` is the exit of `managed_transaction`, which waits for the
threads as `asyncio.run` does; `Crash` loses the open transaction, a COMMIT on its
way excepted. `prepares` chooses between the channels that read the database
before a fetch and those that do not. A fetch is one request; a batch of
identifiers is one item; the delay between two attempts, the pace of the source
and redirections are left out. Pace and delays come after the test of the
breaker: a request that has begun is sent whatever the breaker becomes.

**PipelineRun.** A launch is a process of `run_pipeline` (`pc[p]`), which takes the
lock (`Launch`), runs the orchestrator's own task (phase 0) and the selected phases,
block after block (`StartBlock`, `BlockEnds`): a block is one task, or the
consecutive ones of a parallel group, each in a thread (`live[p]`). A task that
raises (`TaskFails`), or an interruption of the main thread (`Interrupt`), makes the
pool wait for the other threads, then names the phase to resume and releases the
lock (`StopOnFailure`); a second interruption during this wait releases it with the
threads still running (`InterruptAgain`, `Leave`), so that the next one counts on none
of them. `Kill` closes the sessions, and
the lock with them. A cut source ends its task with a signal (`Unavailable`), the
harvest goes on after an error on a year without one (`SkipYear`), and a record of
the phase may fail (`traced`): the three say what `last_daily_extract_date`
(`bound`) rests on. What tasks do is reduced to what they read and write: `owed`
holds the couples of `dependencies` (a writer placed before its reader, out of its
parallel group) such that the reader has not run since the writer wrote. A run leaves
tasks aside by its options (`Asks`): phases not selected, the mode, and `--sources`,
which each task with a source tests (`SourceOf`). `named` is the phase that the log names
when a run stops: always the one it was in (`Named`), whatever the run had not been asked
to do; before its first phase the log names none, after the last one there is none to
resume. The command it gives recalls neither the mode nor the other options. `aside`
holds, of `owed`, what the options of a run passed over since it was written: no code
computes it, it is there for the property to say what is excepted.
`changed[d]` is the day of a change of the document `d` that staging has not yet.

## 3. Runs

`PersonResolution`, `RejectionLost` and `PipelineRun` check deadlock: a next run of
the phase, or a change at the source, is always possible. The other runs have `CHECK_DEADLOCK FALSE`: once the bounded
writes are spent and every queue is empty the system rests, as the real one
between two nights.

| Run | Instance | Shows |
|---|---|---|
| `RecomputeQueue` | 2 rows, 2 writers, 4 marks, 2 failures | `NoLostMark`, refinement of `Recalculation` (`KeepsPromise`), `EveryChangeIsRecomputed` |
| `StagingCapped` | 2 documents, contents below, at and above the cap, 1 change, 1 error | `TypeOK`, `ContentReachesRecord`, `TruncatedAreCompleted` |
| `StagingImported` | 2 documents, one in the default window and one of an older year, a content and a refused one, 2 changes or imports, 1 error | `NoPayloadLost`, `QueuedAreNormalized`, `WithdrawnRecordsLeave` |
| `MetadataCorrection` | 3 records in eight stocks (a book, its chapter, a copy; a thesis, its copy, the article that took its DOI; a dataset and a piece; an issue and its contents), 2 DOIs, 2 deposits, 1 serial, 3 changes of the world, requests or interruptions, runs without bound (1,826,539 states) | `TypeOK`, `RawIsKept`, `Settles`, `WorksApart`, `KeyChangesAreMarked` |
| `Publications` | every stock of 2 or 3 records of the 17 kinds (works, derived records, deposits, several DOIs, without a year, out of perimeter, excluded), without later writes; and stocks of 3 records with one of two DOIs, one of two keys, or nothing, 5 publications, 2 writes, merges or purges that detach records | `TypeOK`, `NeverBroken`, `MembershipIsAligned`, `RedirectsAreDirect`, `RebuildSettles`, `FoundersArePublished`, `RebuildIsIdempotent` |
| `PersonResolution` | 3 source contributions of 2 publications, under an initial and two first names it abbreviates, one identifier value, 4 persons, 5 identifiers of contributions; 2 requests, 1 regrouping, 1 failure (109,088 states) | `TypeOK`, `ConflictNeedsRequest`, `RejectedStayOut`, `PinsPrevail`, `AttachmentsAreSupported`, `RejectedFormsStayOut`, `Converges`, `MarksAreConsumed` |
| `FetchPool` | 3 items, 2 workers, a commit every 2 items, a breaker at 2 failures, 2 attempts, 4 attempts without answer and 1 exception, interruption or crash over the runs | `TypeOK`, `OneThreadOnConnection`, `RecordedIsAnswered`, `ReturnedIsComplete`, `LossIsBounded`, `NoRequestOnceTripped`, `EveryItemIsSettled` |
| `PipelineRun` | 2 launches; the phase of the orchestrator, two harvests in parallel (one of them left aside by the daily mode), two lookups in parallel, an extra phase whose result the lookups read of the previous run; a daily run, a full one without extras whose `--sources` leave a lookup aside, one resumed at the extras, one of the harvest without the incremental source; 1 document, 2 days, a default window of no day, 3 errors, cuts, interruptions or kills (1,908,777 states up to symmetry) | `TypeOK`, `OneRunAtATime`, `EarlierPhasesAreDone`, `ChangesAreAhead` |

`NeverBroken` holds there because in the sequences of writes every DOI is an
anchor, and in the stocks of other kinds no record is deleted before the passes.
It fails where a deposit loses its record (`OrphanPublication` below). Three records also bound
`RebuildIsIdempotent`: every stock of four records of the 17 kinds was explored too and
keeps it, but a record that is both a parent and derived (none of the kinds is) breaks it
with four records, as told below.

### Why these bounds

- Queue: two rows are what a batch needs to leave one aside, two writers what a
  lock conflict needs; four marks allow a row to be marked, copied, marked during
  the task and marked again after a rollback. The theorems remove these bounds.
- Staging: the rows interact only through a merge at the source (an answer that
  is another document), so two documents are the smallest complete case; two
  changes reach a withdrawal and a return of one document, or a rewriting while the
  normalizer runs. With capped lists
  one change is what separates the list that was harvested from the one that is
  completed.
- Publications: three records are the smallest stock in which one belongs to the
  publication of a second and shares a key with a third, hence two keys; five identifiers leave
  room for the publications created by the passes (a pass that would need a sixth
  is cut). `BatchSize = 1` tests the unique constraint after each publication,
  the harshest case: a larger batch only tests it less often.
- Corrections: three records are a container, its content and a copy that belongs to
  one of them, or an origin, its derived record and a record that has taken its DOI;
  three changes are what a namespace, an unknown DOI and a rewritten record need, or
  a request that reads, a rewriting and a commit. Three undisturbed runs are what
  the longest chain found takes (below); with `SettlingRuns` at 2 TLC finds a state
  that the third run still writes.
- Persons: two source contributions of one publication compete for a person, the
  third attests another first name for the same initial in another publication;
  the initial comes first, so that the person it founds is completed, and
  conflicting first names can meet in one person. Four persons leave one identifier
  free after each source contribution has founded one; two requests are what a
  rejection and its contradiction, or a merge and a rejection, need, and the
  phase runs again without bound.
- Fetch pool: three items are one more than the workers and one more than a batch
  of the commits, so that a commit, an open write and an item not yet asked for
  coexist; four attempts without answer are two failures, which trip the breaker,
  or one and two retries that succeed. The items come in their order, which is
  that of a query.
- Pipeline: two launches are what the lock separates; two days are a change before and
  after the start of a harvest, and a harvest that spans the change of day; three
  mishaps are an interruption, the second one and a failure of the run that
  resumes; the phases are one before, one after, and one that may be omitted, and the
  two in the middle have parallel tasks, one of which may end while the other fails.
  `Fallback`, 30 days in the code, is 0: the first daily harvest of the second day
  leaves a change of the first, as the code leaves one of more than 30 days. The proofs hold for any.
- `Rank` opposes the priority of sources to the order of identifiers, so that the
  two orders are never confused.

`PipelineRun` alone uses symmetry, on its two launches: no action tells them apart, and
its properties are of safety.

### Fairness

- Queue: each step of a started task is weakly fair, and the task is started again
  as long as marks remain (the nightly run); an open transaction ends. Nothing says
  that writers mark nor that rows fail.
- Staging: a phase that has started ends. Each phase with something to do runs
  again and again; between two of its runs others hold the lock, so its start is
  strongly fair. For the re-reading of stale documents these are the runs in full mode
  (the daily ones skip it, `modes.py:36`) and over the default window: no run has to be
  given the years of an older document, and `WithdrawnRecordsLeave` promises nothing of a
  record out of the window, which stays after its document is withdrawn unless a run is
  given its year. `StagingCapped` assumes less: only the completion of
  truncated lists is started again, because the re-reading of stale documents
  would also complete them and would hide a fault of the completion.
- Pipeline: none, the properties are of safety.
- Corrections: none. The properties are of safety; that the phase settles is said of
  the states after `SettlingRuns` undisturbed runs.
- Persons: the phase takes its steps and is started again (the nightly run). No
  request, no regrouping and no failure has to happen; a run that meets the
  constraint is rolled back, which is a step of the phase.
- Fetch pool: the event loop gives each coroutine its turn, a request is answered
  or times out, a loop that ends waits for its threads; the pipeline runs again as
  long as items are not settled.
- Failures are bounded (`MaxErrors`, `MaxFailures`, `MaxStops`): nothing is promised of a
  source that never answers.

### Disagreements between the code and what it says of itself

| Run | Property | What happens |
|---|---|---|
| `ReturnedDocument` | `ReturnedAreInTheirRecord` | a document withdrawn, whose record was pruned and whose payload was emptied, comes back with the same fingerprint: it is present again, and has no record until it changes |
| `OrphanPublication` | `NeverBroken` | the only record of a deposit is deleted, its publication keeps the DOI until the purge of the phase `finalize`, and another record of the same deposit takes this DOI in the next pass: the unique constraint fails the phase `publications`, at each run, since `finalize` comes after it |
| `Neighbourhood` | `NeighbourhoodIsEnough` | after incremental passes, a rebuild still moves records: a record that joins the publication of a marked one leaves behind records it is linked to (for the same reason two records with distinct anchors may stay in one publication), and a publication that loses an unmarked neighbour is not recomputed: it keeps the DOI this neighbour gave it, or stays without records until the purge, although `reconciliation.py:7` says each publication touched is recomputed and deleted when it is left empty |
| `RejectionLost` | `RejectedAreDetached` | a rejection committed while the phase decides is not in the rejections it read: the phase attaches the person again and commits, and no later run looks at a contribution that is attached and unmarked |

Others were read in the code and are not runs: a document revised to fewer
authors between its harvest and its completion loses the marker of its truncated
list and keeps the capped list of the earlier version (`fetch_truncated.py:48`);
a row already queued
when a list becomes truncated is normalized without waiting for its completion
(`staging.py:257` says it waits); removing the marker of a document at the cap
queues it (`fetch_truncated.py:49` says it does not); a completion answered with
a document staging does not have writes nothing (`lookup.py:80` says it is
written); a 404 neither counts as a failure nor resets the count of the breaker,
so that failures separated by absences are added (`circuit_breaker.py:54` says
they are consecutive). Of publications: a derived record follows the
anchor its parent has of its own, not the one the parent follows (`_derived_anchors`,
`domain/publications/reconciliation.py:118`). Take a record N with the DOI d1, derived
from Q, which cites d2, a record X with d2, and C with d1, derived from N, all but X
under one key: N goes with Q and X under d2 and keeps d1, C stays alone under the anchor d1
which it loses. Each pass over the whole stock gives C the publication that has d1 and
founds another one for N, whose recomputation takes d1, and so on, or fails on the unique
constraint when both are in different batches, although `publications.py:1` says the
phase is idempotent. Of the corrections: a record of type `other` that has, as
secondary, the DOI of a chapter, shared with a book of another title, is a chapter
and loses the DOI at one run, is `other` and gets it back at the next, for ever,
although `remove_identifiers.py:7` says each pass starts again from all the
identifiers, and the integration tests `test_idempotent_*` that a second pass changes
nothing (`Swinging`, left out of `Settles`); a change takes up to three runs to
settle, because the types are corrected before the identifiers they depend on are
removed (the DOI of a book that became `media` goes back to the chapter, which then
changes its type); a request that corrects the type of a record between the reading
of `serial_by_doi` and its batch loses the type the source gave, since the batch
writes `corrections` as it read it, although `corrections.py:3` says the values
before correction are kept there (`collided`, left out of `RawIsKept`). Of persons: a merge does not mark the contributions
attached by a name whose form is, or becomes, rejected for the kept person, which
is why `late` counts this person in, as it does when the merge brings it the
rejection of a publication where the phase has just written it; the completion of a reduced first name does
not look at the verdicts, so that a rejected form becomes the name of the person
after the very contributions the rejection marked (the exception in
`RejectedFormsStayOut`), although `application/services/persons.py` says of a
rejected form that it leaves the attachment by name for good; a pinned
contribution does not take its person from another manual contribution of the
publication that no pin holds, nor from one that the same run moves to another person
(the second disjunct of `PinsPrevail`: contributions whose pins exchange their persons
take one run each); the batches attribute values without telling the index
(`contribution_resolution.py:553`), so that a person created later in the run enters it as
the holder of a value that is another person's, and a third contribution with this value is
attached by an identifier that is not its own (the exception in `AttachmentsAreSupported`),
although `contribution_matching.py:130` says that the index has the person each value is
attributed to, and line 141 that a created one brings the values still free. Of the runs: a
`--mode daily` run that `--sources` takes the incremental source from, or that `--years`
restricts, is recorded as `harvest`, `daily`, `ok`, and moves the bound past documents it
has not asked for, which no daily harvest receives until a full run or another change
(`behind`, left out of `ChangesAreAhead`), although `phase_executions.py:77` says that a
harvest by years leaves the bound in place and that `ok` means the source was harvested.

## 4. Proofs

`RecomputeQueueProofs` proves, for all sets of rows and of writers and all bounds:

| Theorem | Statement |
|---|---|
| `TypeCorrect` | `Spec => []TypeOK` |
| `IInvIsInvariant` | `Spec => []IInv` |
| `NoMarkIsLost` | `Spec => []NoLostMark` |
| `UnchangedSeqIsCurrent` | `Spec => []UnchangedSeqMeansCurrentResult` |
| `QueueKeepsPromise` | `Spec => KeepsPromise` (the queue implements `Recalculation`) |

The assumptions are those on the bounds (naturals). `NoLostMark` alone is not
inductive: from a state where a copied couple is still in the queue while its
row was forgotten by the task, deleting the couple would break it. The
strengthening `IInv` says, in named parts,

- `SeqsAreFresh`: a mark of an open transaction holds a value of the sequence
  that is in no committed couple and no copy, so that committing it makes every
  copied couple of this row stale;
- `TaskHolds`: what the task holds at each stage, in particular that the rows it
  deletes are locked against marks;
- `VersionsAreOrdered`: stored result <= result of the batch <= input;
- `CopiedCouplesAreAccountedFor`: a couple unchanged since its copy is still to
  be processed, failed, in the batch, gone, or its stored result is current.

One lemma per action shows that it preserves each part; `NextPreservesIInv`
assembles them, and each theorem is the invariant with one temporal step. For
the refinement, the writer's commit maps to `Change`, the deletion of a row to
`Drop`, the commit of the task to `Recompute`, every other step to a stutter.

`FetchPoolProofs` proves, for all sets of items and of workers, all intervals of
commits, thresholds, numbers of attempts and bounds:

| Theorem | Statement |
|---|---|
| `TypeCorrect` | `Spec => []TypeOK` |
| `IInvIsInvariant` | `Spec => []IInv` |
| `ConnectionHasOneThread` | `Spec => []OneThreadOnConnection` |
| `OnlyAnswersAreRecorded` | `Spec => []RecordedIsAnswered` |
| `ReturnsAreComplete` | `Spec => []ReturnedIsComplete` |
| `LossStaysBounded` | `Spec => []LossIsBounded` |
| `TrippedMeansNoRequest` | `Spec => NoRequestOnceTripped` |

from `PoolConstants`: there are items, in the order of the integers, and workers;
the interval, the threshold and the number of attempts are not zero. The
properties are not inductive: two threads could meet if a worker could hold the
lock without its thread being known, or if a thread of a cancelled worker were
still there when a run starts; an answer could be overwritten by a second worker
holding the same item. `IInv` adds

- `LockIsExclusive`: one worker at most is inside the lock, one thread at most
  runs, under the lock of its worker or after the cancellation of all of them;
- `ItemsAreApart`: an item is still in the iterator, held by one worker, or done;
- `WritesAreAnswers`: what is open or committed is the last answer; no
  transaction is open between two runs.

`NoneForgotten` adds, for `ReturnedIsComplete`, that while nothing has raised
every item is settled, written, to be given, held by a worker, unavailable, or
dropped by a worker that found the breaker tripped, and that a worker ends early
only then. `OpenIsCounted` adds, for `LossIsBounded`, that with no commit under way
the items written since the last commit are at most the remainder of `done` by
`CommitEvery`: a write that does not reach a multiple adds one to both
(`NextRemainder`), one that reaches it starts a commit, which empties the first, and
no second write can come between since the lock has one holder.

`MetadataCorrectionProofs` proves, for all records, identifiers, serials, titles and
their relations, stocks and bounds:

| Theorem | Statement |
|---|---|
| `TypeCorrect` | `Spec => []TypeOK` |
| `RawKept` | `Spec => []RawIsKept` |
| `KeysAreMarked` | `Spec => KeyChangesAreMarked` |
| `WorksStayApart` | `Spec => []WorksApart` |

from `CorrectionConstants`: stocks are of facts, the mark of a missing value before
correction is no value, no DOI is a deposit, bounds are naturals and `SettlingRuns` is
not zero; and from `NoneIsNoValue`, that `None` is no case of removal and no update. The types
rest on one lemma for each kind of update (`SerialUpdateType`, `UnaryUpdateType`,
`ClusterStatusType`, `DeclaredTargetType`), whatever the rules decide. `RawIsKept` is
not inductive: a batch or a request could be about to write values that are not the
source's. `IInv` adds that the updates computed and not yet written keep the values
of the source (`Keeps`), unless the record was overwritten or rewritten since it was
read, and that none waits between two runs; `UnaryUpdateKeeps` is the heart of it:
what a correction stashes, or leaves in the column, is the value before correction.
`KeysAreMarked` needs the types alone: each action that writes a column, a status or
a target marks the record, or is the reconciliation.

`WorksApart` speaks of the end of undisturbed runs. `WInv` follows what makes it true
from the moment where `remove_identifiers` reads: what it will have written (`Final`) takes
a DOI that a book has from its `Losers`, and leaves it to its `Owners` (`Judged`), neither
depending on how much is written already, because a decision reads the statuses only
as far as another sub-step set them, which a removal does not change (`SameBase`,
`ClusterKeepsCases`). The end (`JudgedApart`) is that a chapter that is no loser has the
title of an owner, and that an owner keeps the DOI: the property would fail of rules that
took the title of the book from a record that may lose it, which `References` excludes.

`PersonResolutionProofs` proves, for all publications, source contributions with any
names and values, persons, HR records and bounds:

| Theorem | Statement |
|---|---|
| `TypeCorrect` | `Spec => []TypeOK` |
| `IInvIsInvariant` | `Spec => []IInv` |
| `RejectionsPrevail` | `Spec => []RejectedStayOut` |

from the assumptions of the module: ids are numbers, source contributions are numbered
from 1 and there are ids enough for their first alignment (`NumbersAssumption`), no name
or value is the mark of their absence, the couples of `Extends` are names of which the
second extends none (`full_first_name_extends` asks for a full first name,
`name_matching.py:120`), profiles and HR names are of their types (HR names are full),
bounds are naturals. `RejectedStayOut`
is not inductive: the phase could hold, uncommitted, an attachment to a rejected person,
or be about to write one from pins or rejections read too early; a person deleted and
given again could inherit a rejection; a merge could bring one. `IInv` adds

- `Coherent`, `Vacant`, `Referenced`: contributions are of one publication, an id that
  is no contribution has no person, the persons of contributions, pins and rejections
  exist, so that a person that appears has no rejection behind it;
- `PinsAllowed`: no pin names a rejected person;
- `WritesAreAllowed`, `PinnedAreLocked`: what the phase has written respects the
  rejections but the late ones, and the rows a pin takes its person from are locked
  with it until the rejections are read;
- `ReadingsAreCurrent`: pins and rejections read are the committed ones, but for the
  persons of `late`;
- `CreationsAreOwn`: what waits for a creation is designated only by persons created in
  the same transaction, which no rejection names; `NamesAreCompleted` and `Quiet`: what
  the phase holds, and that it holds nothing outside its transaction.

The decision is characterised first (`DecisionMeans`: the person of a match is pinned or
not barred), then settlement, writes and the plan of a recomposition (`PlanIsFunctional`,
`FreshIdsMean`). One lemma per action of the phase shows that it keeps each part; a
request keeps what the phase has read because it is `Respectful` of the rows the phase
has locked (`RequestKeepsPhase`).

`PersonConstraintProofs` goes on, under the same assumptions:

| Theorem | Statement |
|---|---|
| `PersonsStayApart` | `Spec => []PersonsAreApart` |
| `ConflictsNeedRequests` | `Spec => []ConflictNeedsRequest` |
| `PinsAreHonoured` | `Spec => PinsPrevail` |
| `AttachmentsKeepSupport` | `Spec => []AttachmentsAreSupported` |
| `RejectedFormsAreKept` | `Spec => RejectedFormsStayOut` |

`PersonsAreApart` is the unique constraint on (publication, person), in the tables and
in what the transaction of the phase reads. The model tests it where a batch is written
(`Refused`) and nowhere else; the theorem says that the other writes cannot break it:
the pins, the persons created or joined at the end of the batches, the requests that
assign and merge while rows are locked, the recompositions. `ConflictNeedsRequest` says
that without a request no batch is refused, which is to say that pins, settlement,
releases and `taken` suffice. Neither is inductive, for nothing would relate what was
read to what is there. `CInv` adds

- `SupportsExist`: forms, attributions and those still uncommitted are of persons that
  exist, so that the index designates none that a write would find absent, and a created
  person has no rejected form;
- `CreationsComeLast`: persons are created once the batches are decided, and are taken in
  the publications of the contributions that have them, so that a contribution that joins
  one is the only one of its publication;
- `ReadingsAreWhole`: without a request, the index is of the persons the phase reads, the
  pins read are those there are, and the persons of the contributions that are not
  candidates are taken while their batch is loaded;
- `BatchesAreApart` and `PinsHold`: without a request, what a batch or a creation still
  has to write has no person from the administration, so that what the pins have given
  stays; `NothingLoaded`.

The heart is `NoBatchRefused`. A decided person that another contribution of the
publication still has is excluded because that one is of the batch, hence decided for
somebody else (`DecidedAreApart`) and released, or is no candidate, hence taken; that the
person exists comes from the pins (`Referenced`) or from the index (`DesignatedExist`).
`PinsGive` says what the pins do, and to whom.

`AttachmentsKeepSupport` follows what attached a contribution, a value or a name, through
everything that may take it away while the phase reads and writes: the completion of
first names, rejections of forms and of values, merges, recompositions. Its invariant
`SInv` says that the contributions without support are marked in the tables
(`LinksAreSupported`), and that in what the transaction reads they are marked since it
copied the marks, or copied and still to decide (`ViewIsSupported`, with `MarksAreCopied`,
`PinsFirst` and `Ordered`: the pins are written before the batches, one batch is loaded and
decides its publication for good). A decision rests on the index of the phase and not on
the tables, so that `IndexAgrees` relates the two: names, forms and values are those the
phase reads, but for the late persons and those a merge absorbed. It is exact on what
makes the exception: a value that the index still holds free was attributed to a
contribution that is decided (`FreeAgrees`), and one that it gives to another person than
the tables is carried by two contributions decided before (`HolderAgrees`), so that the one
it would attach wrongly is the third (`ThreeAreContested`). A completed first name keeps the
names that abbreviate it because the name it replaces was reduced: this is where the
assumption on `Extends` is needed.

The attempt corrected two properties. `PinsPrevail` spoke of the committed state alone,
which is false of five source contributions of one publication: where pins exchange
persons, the one a run moves still has its person when the pins are written. It is now a
property of the run. `AttachmentsAreSupported` is false of a value that three source
contributions carry, since the index does not follow the attributions of the batches.

`StagingLifecycleProofs` proves, for all documents, contents (long, capped, refused)
and bounds:

| Theorem | Statement |
|---|---|
| `TypeCorrect` | `Spec => []TypeOK` |
| `NoPayloadIsLost` | `Spec => []NoPayloadLost` |
| `ContentIsReached` | `Spec => []ContentReachesRecord` |

from the assumptions of the module: bounds are naturals, and the marks of what is
missing are no contents. Neither property is inductive: the normalizer could hold a
record computed from a payload that the row no longer has, and then empty it, or
forget its mark. `IInv` adds

- `RowsAreWhole`, `MergesAreDirect`, `ImportedAreWhole`: a payload that is there holds
  the last content written, a document is merged into one the source has, and where an
  import is possible a payload is the one its fingerprint was computed from;
- `NormalizerHolds`: what the normalizer has selected or treated is still in the queue,
  and it holds nothing outside its run;
- `ReadingsHold`: a row read is the row that is there unless it was marked again, and
  the same fingerprint means the last content;
- `EffectsHold`: a payload is about to be emptied, or a mark to leave, only with the last
  content on its way to the record, or in it.

One lemma per action shows that it preserves each part.

`PublicationReconciliationProofs` proves, for all records, contents, DOIs, identifiers
of publications and bounds:

| Theorem | Statement |
|---|---|
| `ComponentsPartition` | the components of a finite set cover it and are disjoint |
| `PartitionsSplit` | so do the parts into which anchors divide them |
| `TypeCorrect` | `Spec => []TypeOK` |
| `AuthorsAreAligned` | `Spec => []MembershipIsAligned` |
| `RedirectionsAreDirect` | `Spec => []RedirectsAreDirect` |
| `NoRecordIsStranded` | `Spec => []PublicationsExist` |
| `FoundersHavePublications` | `Spec => []FoundersArePublished` |
| `RebuildsSettle` | `Spec => []RebuildSettles` |
| `DissolutionsSucceed` | `Spec => []NoRecordIsDissolved`, that no dissolution fails |

from the assumptions of the two modules: records, DOIs and identifiers of publications
are finite sets, those identifiers are numbered from 1, contents have the fields of a
member and links among the DOIs, and absence is none of them.
`IInv` joins `TypeOK`, `MembershipIsAligned` and `RedirectsAreDirect` to two parts they
need: `PublicationsExist`, without which a record could name a publication that a later
creation would take over, and `Numbered`, a publication not created yet was not
dissolved and has no authors, so that a creation neither undoes a redirection nor finds
an alignment that is not its own. These first theorems suppose of the plan only what its
shape gives: its groups are of members of the neighbourhood, and an identifier is awarded
or new. Their proofs go through the steps of a pass in the order of `Apply`: creations
and moves, publications left, dissolutions, recomputed publications.

The last three depend on what the plan decides. Their invariant `SInv` adds to `IInv`
that only records have publications, that a record that may found a publication and has
none is marked or was detached by a purge (`FoundersAwait`, where the property speaks
only of an empty queue), and
that nothing is marked since a rebuild (`Settlement`), so that the next pass, which is
incremental, has nothing to change. The argument:

- the parts share the records (`PartitionsSplit`), each part is placed in one of three
  ways (`PartIsPlaced`), a publication is awarded to one part (`AwardedOnce`) and no two
  groups have the same target (`TargetsDiffer`), so that after a pass publications are
  parts (`PublicationsFollowParts`);
- a dissolved publication had no more records than the neighbourhood shows of it; all of
  them go elsewhere, since none is awarded to it (`DissolvedAreEmptied`);
- in a part, two records with anchors of their own have the same (`SeparatorsAgree`);
- the removals end in a set that one more round would not change (`RemovalsSettle`).
  `FinalRemovals` is a recursive function, and induction is out of the provers' reach;
  but each round adds couples (`MoreIsNew`) of a finite set: of the sets of couples on
  which the rounds would never settle one would be the largest (`LargestSubset`), and the
  round after it would add to it. That gives a function with the equation of the
  definition, hence the chosen one has it, and settles. Then no two parts share a DOI (`NothingShared`), and each round
  leaves a DOI to one of its strong records (`StrongKept`).

Only the unique constraint on DOIs is left out of `RebuildsSettle`: it says what a pass
that succeeds leaves, and a pass that meets the constraint changes nothing.

`PipelineRunProofs` proves, for all launches, tasks and blocks, options, documents and
bounds:

| Theorem | Statement |
|---|---|
| `TypeCorrect` | `Spec => []TypeOK` |
| `RunsExclude` | `Spec => []OneRunAtATime` |
| `ResumptionIsSafe` | `Spec => []EarlierPhasesAreDone` |
| `BoundIsSafe` | `Spec => []ChangesAreAhead` |

from the assumptions of the module: blocks are numbered in the order of their phases and
each task is in one, the tasks of the harvest are one block,
options are well formed, the daily mode keeps the incremental source. `OneRunAtATime` is not inductive: a process with
live threads could have lost the lock. `IInv` adds `RunsHaveOptions` (a process that runs
has options, one that is off has no thread) and `LockIsHeld` (a process that runs and is
not leaving holds the lock). For `ChangesAreAhead`, `HarvestIsComplete` says of each
daily run in the phase of the harvest, without a signal, that the changes it has asked
for are still to be received, not older than its phase, or behind already. There are two
ways to be behind: a daily run that `--sources` or `--years` restricts moves the bound past
what it has not asked for, and one without a harvest on record goes back `Fallback`
days and no further (`TooOld`).

`EarlierPhasesAreDone` speaks of the time when no run holds the lock. Its invariant says
of the time when one does what it is about to make true: `BehindIsDone`, a reader that
has not read what was written since it ran, and that no options left aside, is still
ahead of the run (`Ahead`): in a block it has not reached, or in the one it is in
and not ended. `RunsInOrder` adds that a run is in a block it selected and that its live
threads are tasks of that block, so that a task that ends is owed only by later blocks
(`WrittenIsAhead`). The heart is the passage from a block to the next one
(`BlockEndsKeepsBehind`): it passes no task the options ask for (`AfterIsBlock`), and
what they do not ask for goes aside; at the end of the run nothing else is left.
The phase of the orchestrator is a case of its own, since a run that stops in it leaves
the phase named before: `Ahead` keeps, for that block, what was true without a run.

A consequence is that a run launched as the log says, in full mode with every source,
leaves nothing aside before the phase it starts at but what was aside already or was
written by a thread nothing waited for: what else it passes over there is owed by nobody. The exceptions are reached by the run: with
`aside` or `stray` taken out of the property TLC finds it violated.

The invariant was first false: a thread that outlives a second interruption was marked as
not having run only when it was killed, which came too late, a later run having
run the same task meanwhile. Since the run that resumes can count on none of these
threads, `InterruptAgain` says so when it releases the lock.

Model-checked only: all liveness (out of the reach of the prover); of staging
`TruncatedAreCompleted`, `QueuedAreNormalized` and `WithdrawnRecordsLeave`; of
publications `NeverBroken`, since the constraint on DOIs is met in sequences that the run
excludes (`DissolutionsSucceed` is its other half), `RebuildIsIdempotent`, which holds of the
records checked and not of all (a parent that is itself derived, section 3), and
`NeighbourhoodIsEnough`, which a run refutes; of the corrections `Settles`, whose
number of runs depends on the records.

## 5. What is left out

- Of a publication only its records, DOI and redirections; of a record only what
  links it, its type, the presence of a year, whether it may found a publication.
  The deletion of publications whose type leaves the scope, parents that share a
  primary identifier, deposits that depend on the type of document, and secondary
  forms of DOIs (replaced before) are not modelled.
- Which publications have a person or an evidence of their document: the purge takes
  any. What it detaches comes back with a mark of the record or a rebuild, which founds
  its publication again; `FoundersArePublished` and `RebuildIsIdempotent` leave these
  records aside until a pass decides them.
- Whether a document has a title, the conversions of each source, and the choice
  of what to search for.
- Of the corrections: rules on titles other than proceedings and errata (media,
  monographs, presentations, supplementary contents, editorials, letters, reviews,
  volumes and their number of authors, abstracts of a serial), self-declared
  preprints; targets by version suffix, additional files of figshare, the rule of
  a target (a change of rule alone also marks); locations of missing deposits;
  merges of serials. The readings of a sub-step are one moment. An unknown type of
  serial counts as a journal.
- The order in which blocked transactions are served; deadlocks end as a rollback
  of one writer.
- Of persons: source contributions out of the perimeter or under a role that
  founds no person; more than one type of identifier, untrusted or neutralized
  values and the arbitration of conflicts between them; names of different last
  names; confirmed forms and identifiers, exclusions, distinct persons, renamings;
  the propagation of HAL accounts. A batch is one publication; `Populate` and
  `Purge` are atomic; `Regroup` happens between two runs of the phase, not beside
  one. An identifier of person that was freed may be given again, unless the index
  of the run still holds it, since the state would otherwise grow without bound.
- Of the runs: the loss of the session that holds the lock, which no code answers; the
  preconditions of phases, which an interruption before their tasks stands for; a failed
  reading of the bound, which is the default window; maintenance of tables; the harvests
  of the other sources, which have no window. `--include-wos`, which the queries of
  WoS ask for besides `--sources`, is a matter of the values of `SourceOf`.
- Components marked `not_modelled` in `PROJECT.json`.

## 6. Plan

1. `RecomputeQueue` with its abstract specification and proofs: done.
2. `StagingLifecycle`: done.
3. `ReconciliationPlan`, `PublicationReconciliation`: done.
4. `PersonResolution`: done, with its proofs (two modules). Left: the arbitration of identifiers between persons.
5. `MetadataCorrection` and its proofs: done. Left: the rules on titles, the targets by
   version suffix.
6. `FetchPool`, `PipelineRun` and their proofs: done. Left: the loss of the session of
   the lock.
7. `AuthorGrouping`: alignment of contributions, reuse of identifiers, manual
   realignment concurrent with the phase.
8. `FailedLookups`: what a vain search excludes, for how long, and what ends it.
9. Composition of the queues along the pipeline: a change at the source reaches
   the publication and its authors.
10. Proofs of `StagingLifecycle` and of `PublicationReconciliation`: done, with the
   parts and removals of `ReconciliationPlan`. Left: that two plans in a row agree when no record is
   both a parent and derived (`RebuildIsIdempotent`).

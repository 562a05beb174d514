------------------------------ MODULE FetchPool -------------------------------
(* Lookups of a source by a pool of workers, run after run: coroutines that  *)
(* share an iterator of items, an HTTP client, the circuit breaker of the    *)
(* source, and one database connection used from threads under a lock.       *)
(* pipeline/http/fetch_pool.py (run_fetch_pool), circuit_breaker.py,         *)
(* http_retry.py (_request_with_retry_async), ingestion/common/lookup.py     *)
(* (look_up), runtime/access_source.py, infrastructure/db/transaction.py.    *)
(*                                                                           *)
(* A coroutine gives way only at an await, so what lies between two awaits   *)
(* is one action. A call to asyncio.to_thread ends in an action of its own:  *)
(* the thread goes on when its coroutine is cancelled.                       *)
EXTENDS Integers, FiniteSets

CONSTANTS
    Items,          \* identifiers (or batches) to ask for, in the order of their selection
    Workers,        \* coroutines of the pool (max_concurrent)
    CommitEvery,    \* commit_every
    Threshold,      \* failures that trip the breaker
    MaxRetries,     \* attempts of one request
    MaxErrors,      \* bound: attempts without an answer, over all runs
    MaxStops        \* bound: exceptions, interruptions and crashes, over all runs

ASSUME PoolConstants ==
    /\ Items # {} /\ Items \subseteq Int /\ Workers # {}
    /\ CommitEvery \in Nat \ {0} /\ Threshold \in Nat \ {0} /\ MaxRetries \in Nat \ {0}
    /\ MaxErrors \in Nat /\ MaxStops \in Nat

VARIABLES
    committed,      \* [Items -> Outcomes]: what the database says of an item
    open,           \* [Items -> Outcomes]: writes of the open transaction
    aborted,        \* the transaction is refused by the database since an error
    phase,          \* state of run_fetch_pool and of the loop that runs it
    prepares,       \* the channel of this run reads the database before a fetch
    todo,           \* items the shared iterator has not given yet
    done,           \* items written since the start of the run
    reply,          \* [Items -> Replies]: outcome of the last fetch
    pc, item, attempt,  \* [Workers -> ...]: the coroutines
    thread,         \* [Workers -> Threads]: call running on the connection
    failures, tripped,  \* the breaker of the run
    errors, stops

source == <<failures, tripped, errors>>
worker == <<pc, item, attempt, thread>>
base == <<committed, open, aborted>>
vars == <<base, phase, prepares, todo, done, reply, worker, source, stops>>

None == "none"
Found == "found"
NotFound == "not_found"
Unavailable == "unavailable"
Outcomes == {None, Found, NotFound}
Replies == Outcomes \cup {Unavailable}
Threads == {None, "prepare", "write", "commit"}
Locking == {"preparing", "writing"}
PCs == {"next", "prepare_lock", "fetching", "write_lock", "ended"} \cup Locking
Phases == {"off", "running", "raised", "cancelled", "finishing", "returned"}

TypeOK ==
    /\ committed \in [Items -> Outcomes] /\ open \in [Items -> Outcomes]
    /\ aborted \in BOOLEAN /\ phase \in Phases /\ prepares \in BOOLEAN
    /\ todo \subseteq Items /\ done \in Nat /\ reply \in [Items -> Replies]
    /\ pc \in [Workers -> PCs] /\ item \in [Workers -> Items]
    /\ attempt \in [Workers -> 1 .. MaxRetries] /\ thread \in [Workers -> Threads]
    /\ failures \in Nat /\ tripped \in BOOLEAN
    /\ errors \in 0 .. MaxErrors /\ stops \in 0 .. MaxStops

Pending == {i \in Items : committed[i] = None}
Nothing == [i \in Items |-> None]
Idle == [w \in Workers |-> None]
NoItems == [w \in Workers |-> CHOOSE i \in Items : TRUE]
Ended == [w \in Workers |-> "ended"]

Init ==
    /\ committed = Nothing /\ open = Nothing /\ aborted = FALSE
    /\ phase = "off" /\ prepares = FALSE /\ todo = {} /\ done = 0 /\ reply = Nothing
    /\ pc = Ended /\ item = NoItems
    /\ attempt = [w \in Workers |-> 1] /\ thread = Idle
    /\ failures = 0 /\ tripped = FALSE /\ errors = 0 /\ stops = 0

------------------------------------------------------------------------------
(* A run                                                                     *)

(* The breaker is that of the process, kept from one run to the next.        *)
FreshBreakerKept == UNCHANGED <<failures, tripped>>

FreshBreaker == failures' = 0 /\ tripped' = FALSE

(* The items the database does not settle are selected, a breaker is set for *)
(* the task, the workers start on one iterator.                              *)
Start ==
    /\ phase \in {"off", "returned"} /\ Pending # {}
    /\ phase' = "running" /\ prepares' \in BOOLEAN
    /\ todo' = Pending /\ done' = 0
    /\ reply' = [i \in Items |-> IF i \in Pending THEN None ELSE reply[i]]
    /\ pc' = [w \in Workers |-> "next"] /\ item' = NoItems /\ attempt' = [w \in Workers |-> 1]
    /\ FreshBreaker
    /\ UNCHANGED <<base, thread, errors, stops>>

------------------------------------------------------------------------------
(* The loop of a worker                                                      *)

Running == phase \in {"running", "raised"}

LockFree == \A w \in Workers : pc[w] \notin Locking

(* The request of the item begins: a tripped breaker refuses it.             *)
BeginFetchUnchecked(w) ==
    /\ pc' = [pc EXCEPT ![w] = "fetching"] /\ attempt' = [attempt EXCEPT ![w] = 1]
    /\ UNCHANGED reply

BeginFetch(w) ==
    IF tripped
    THEN /\ pc' = [pc EXCEPT ![w] = "write_lock"]
         /\ reply' = [reply EXCEPT ![item[w]] = Unavailable]
         /\ UNCHANGED attempt
    ELSE /\ pc' = [pc EXCEPT ![w] = "fetching"]
         /\ attempt' = [attempt EXCEPT ![w] = 1]
         /\ UNCHANGED reply

(* The next item of the iterator is taken; with a tripped breaker the worker *)
(* ends and leaves it to the next run.                                       *)
Take(w) ==
    /\ Running /\ pc[w] = "next"
    /\ \E i \in todo :
        /\ \A j \in todo : i <= j
        /\ todo' = todo \ {i}
        /\ IF tripped
           THEN pc' = [pc EXCEPT ![w] = "ended"] /\ UNCHANGED <<item, attempt>>
           ELSE /\ item' = [item EXCEPT ![w] = i]
                /\ pc' = [pc EXCEPT ![w] = IF prepares THEN "prepare_lock" ELSE "fetching"]
                /\ attempt' = [attempt EXCEPT ![w] = 1]
    /\ UNCHANGED <<base, phase, prepares, done, reply, thread, source, stops>>

NoneLeft(w) ==
    /\ Running /\ pc[w] = "next" /\ todo = {}
    /\ pc' = [pc EXCEPT ![w] = "ended"]
    /\ UNCHANGED <<base, phase, prepares, todo, done, reply, item, attempt, thread, source,
                   stops>>

(* The item is read in the database without the lock of the writes.          *)
LockForPrepareIgnored(w) ==
    /\ Running /\ pc[w] = "prepare_lock"
    /\ pc' = [pc EXCEPT ![w] = "preparing"] /\ thread' = [thread EXCEPT ![w] = "prepare"]

LockForPrepare(w) ==
    /\ Running /\ pc[w] = "prepare_lock" /\ LockFree
    /\ pc' = [pc EXCEPT ![w] = "preparing"] /\ thread' = [thread EXCEPT ![w] = "prepare"]

Prepare(w) ==
    /\ LockForPrepare(w)
    /\ UNCHANGED <<base, phase, prepares, todo, done, reply, item, attempt, source, stops>>

Prepared(w) ==
    /\ thread[w] = "prepare" /\ pc[w] = "preparing" /\ ~aborted
    /\ thread' = [thread EXCEPT ![w] = None] /\ BeginFetch(w)
    /\ UNCHANGED <<base, phase, prepares, todo, done, item, source, stops>>

------------------------------------------------------------------------------
(* The request                                                               *)

Unanswered(w) ==
    /\ pc' = [pc EXCEPT ![w] = "write_lock"]
    /\ reply' = [reply EXCEPT ![item[w]] = Unavailable]

(* A document, which resets the count of failures; an absence, read in an    *)
(* answer without result, which resets it too, or in a 404, which does not.  *)
Answer(w) ==
    /\ Running /\ pc[w] = "fetching"
    /\ pc' = [pc EXCEPT ![w] = "write_lock"]
    /\ \E outcome \in {Found, NotFound} :
        /\ reply' = [reply EXCEPT ![item[w]] = outcome]
        /\ failures' = 0 \/ (outcome = NotFound /\ failures' = failures)
    /\ UNCHANGED <<base, phase, prepares, todo, done, item, attempt, thread, tripped, errors,
                   stops>>

(* The count of attempts goes one too far.                                   *)
RetryOnceMore(w) ==
    /\ Running /\ pc[w] = "fetching" /\ errors < MaxErrors
    /\ attempt' = [attempt EXCEPT ![w] = @ + 1] /\ errors' = errors + 1
    /\ UNCHANGED <<base, phase, prepares, todo, done, reply, pc, item, thread, failures, tripped,
                   stops>>

(* 429, 5xx, network, unreadable body, with attempts left: the next attempt  *)
(* does not look at the breaker.                                             *)
Retry(w) ==
    /\ Running /\ pc[w] = "fetching" /\ attempt[w] < MaxRetries /\ errors < MaxErrors
    /\ attempt' = [attempt EXCEPT ![w] = @ + 1] /\ errors' = errors + 1
    /\ UNCHANGED <<base, phase, prepares, todo, done, reply, pc, item, thread, failures, tripped,
                   stops>>

RecordFailure ==
    /\ failures' = failures + 1
    /\ tripped' = (tripped \/ failures' >= Threshold)

(* The last attempt fails: one failure for the breaker.                      *)
GiveUp(w) ==
    /\ Running /\ pc[w] = "fetching" /\ attempt[w] = MaxRetries /\ errors < MaxErrors
    /\ Unanswered(w) /\ RecordFailure
    /\ errors' = errors + 1
    /\ UNCHANGED <<base, phase, prepares, todo, done, item, attempt, thread, stops>>

(* Another 4xx, or a client that is closed because the pool has raised.      *)
Refuse(w) ==
    /\ Running /\ pc[w] = "fetching"
    /\ \/ errors < MaxErrors /\ errors' = errors + 1
       \/ phase = "raised" /\ UNCHANGED errors
    /\ Unanswered(w)
    /\ UNCHANGED <<base, phase, prepares, todo, done, item, attempt, thread, failures, tripped,
                   stops>>

------------------------------------------------------------------------------
(* The write                                                                 *)

LockForWrite(w) ==
    /\ Running /\ pc[w] = "write_lock" /\ LockFree
    /\ pc' = [pc EXCEPT ![w] = "writing"] /\ thread' = [thread EXCEPT ![w] = "write"]
    /\ UNCHANGED <<base, phase, prepares, todo, done, reply, item, attempt, source, stops>>

(* What is not a document is an absence.                                     *)
EffectAbsentByDefault(r) == IF r = Found THEN Found ELSE NotFound

(* A found document is staged, an absence recorded, an unavailability is     *)
(* only counted.                                                             *)
Effect(r) == IF r = Unavailable THEN None ELSE r

Writes(w) == Effect(reply[item[w]]) # None

Written(w) ==
    open' = IF Writes(w) THEN [open EXCEPT ![item[w]] = Effect(reply[item[w]])] ELSE open

(* The turn of an item without answer ends before the test of the commit.    *)
CommitDueIfWritten(w) == Writes(w) /\ (done + 1) % CommitEvery = 0

CommitDue(w) == (done + 1) % CommitEvery = 0

(* The write ends: its worker, under the same lock, counts it and commits    *)
(* when the count is due.                                                    *)
WriteEnds(w) ==
    /\ thread[w] = "write" /\ pc[w] = "writing" /\ (aborted => ~Writes(w))
    /\ Written(w)
    /\ done' = done + 1
    /\ IF CommitDue(w)
       THEN thread' = [thread EXCEPT ![w] = "commit"] /\ UNCHANGED pc
       ELSE thread' = [thread EXCEPT ![w] = None] /\ pc' = [pc EXCEPT ![w] = "next"]
    /\ UNCHANGED <<committed, aborted, phase, prepares, todo, reply, item, attempt, source, stops>>

Merged == [i \in Items |-> IF open[i] # None THEN open[i] ELSE committed[i]]

(* COMMIT, which the database turns into a rollback after an error.          *)
Committing ==
    /\ committed' = IF aborted THEN committed ELSE Merged
    /\ open' = Nothing /\ aborted' = FALSE

CommitEnds(w) ==
    /\ thread[w] = "commit" /\ pc[w] = "writing"
    /\ Committing
    /\ thread' = [thread EXCEPT ![w] = None] /\ pc' = [pc EXCEPT ![w] = "next"]
    /\ UNCHANGED <<phase, prepares, todo, done, reply, item, attempt, source, stops>>

------------------------------------------------------------------------------
(* Exceptions                                                                *)

(* A worker that raises ends, and releases the lock. The gather raises at    *)
(* the first one; the other workers go on until the loop cancels them.       *)
WorkerEnds(w) ==
    /\ pc' = [pc EXCEPT ![w] = "ended"] /\ thread' = [thread EXCEPT ![w] = None]
    /\ phase' = "raised"

FetchRaises(w) ==
    /\ Running /\ pc[w] = "fetching" /\ stops < MaxStops
    /\ WorkerEnds(w) /\ stops' = stops + 1
    /\ UNCHANGED <<base, prepares, todo, done, reply, item, attempt, source>>

(* A read or a write raises: the database refuses it and all that follows in *)
(* the transaction, or has already; or the program raises on its own, after  *)
(* the effects of the item or before.                                        *)
UsesBase(w) ==
    \/ thread[w] = "prepare" /\ pc[w] = "preparing"
    \/ thread[w] = "write" /\ pc[w] = "writing" /\ Writes(w)

CallRaises(w) ==
    /\ UsesBase(w)
    /\ \/ /\ aborted /\ UNCHANGED <<open, aborted, stops>>
       \/ /\ stops < MaxStops /\ stops' = stops + 1
          /\ \/ aborted' = TRUE /\ UNCHANGED open
             \/ UNCHANGED <<open, aborted>>
             \/ thread[w] = "write" /\ ~aborted /\ Written(w) /\ UNCHANGED aborted
    /\ WorkerEnds(w)
    /\ UNCHANGED <<committed, prepares, todo, done, reply, item, attempt, source>>

(* asyncio.run cancels every coroutine at once, after an exception or an     *)
(* interruption from the keyboard. The threads go on.                        *)
Cancel ==
    /\ \/ phase = "raised" /\ UNCHANGED stops
       \/ phase = "running" /\ stops < MaxStops /\ stops' = stops + 1
    /\ pc' = Ended /\ phase' = "cancelled"
    /\ UNCHANGED <<base, prepares, todo, done, reply, item, attempt, thread, source>>

(* The thread of a cancelled worker ends, with its effect.                   *)
ThreadEnds(w) ==
    /\ phase = "cancelled" /\ thread[w] # None
    /\ \/ thread[w] = "prepare" /\ UNCHANGED base
       \/ /\ thread[w] = "write" /\ UNCHANGED <<committed, aborted>>
          /\ IF aborted THEN UNCHANGED open ELSE Written(w)
       \/ thread[w] = "commit" /\ Committing
    /\ thread' = [thread EXCEPT ![w] = None]
    /\ UNCHANGED <<phase, prepares, todo, done, reply, pc, item, attempt, source, stops>>

(* The loop waits for its threads, and the transaction is rolled back.       *)
Rollback ==
    /\ phase = "cancelled" /\ thread = Idle
    /\ open' = Nothing /\ aborted' = FALSE /\ phase' = "off" /\ todo' = {}
    /\ UNCHANGED <<committed, prepares, done, reply, worker, source, stops>>

------------------------------------------------------------------------------
(* The end of a run                                                          *)

AllEnded ==
    /\ phase = "running" /\ pc = Ended
    /\ phase' = "finishing"
    /\ UNCHANGED <<base, prepares, todo, done, reply, worker, source, stops>>

(* The pool ends without a commit of its own.                                *)
FinalCommitForgotten ==
    /\ committed' = committed /\ open' = Nothing /\ aborted' = FALSE

FinalCommit == Committing

Return ==
    /\ phase = "finishing" /\ phase' = "returned"
    /\ FinalCommit
    /\ UNCHANGED <<prepares, todo, done, reply, worker, source, stops>>

(* The process dies: the open transaction is lost, a COMMIT already sent may *)
(* have been received.                                                       *)
Crash ==
    /\ phase \notin {"off", "returned"} /\ stops < MaxStops
    /\ stops' = stops + 1
    /\ \/ UNCHANGED committed
       \/ /\ phase = "finishing" \/ \E w \in Workers : thread[w] = "commit"
          /\ ~aborted /\ committed' = Merged
    /\ open' = Nothing /\ aborted' = FALSE
    /\ pc' = Ended /\ thread' = Idle /\ phase' = "off" /\ todo' = {}
    /\ UNCHANGED <<prepares, done, reply, item, attempt, source>>

------------------------------------------------------------------------------
Step(w) ==
    \/ Take(w) \/ NoneLeft(w) \/ Prepare(w) \/ Prepared(w)
    \/ Answer(w) \/ Retry(w) \/ GiveUp(w) \/ Refuse(w)
    \/ LockForWrite(w) \/ WriteEnds(w) \/ CommitEnds(w)
    \/ FetchRaises(w) \/ CallRaises(w) \/ ThreadEnds(w)

Next ==
    \/ Start \/ Cancel \/ Rollback \/ AllEnded \/ Return \/ Crash
    \/ \E w \in Workers : Step(w)

Spec == Init /\ [][Next]_vars

(* A run that has started goes on: the event loop gives every coroutine its  *)
(* turn, every request is answered or times out. The pipeline runs again.    *)
Fairness ==
    /\ WF_vars(\E w \in Workers : Step(w))
    /\ WF_vars(phase = "raised" /\ Cancel) /\ WF_vars(Rollback)
    /\ WF_vars(AllEnded) /\ WF_vars(Return) /\ WF_vars(Start)

FairSpec == Spec /\ Fairness

------------------------------------------------------------------------------
(* Properties                                                                *)

(* The connection is used by one thread at a time, also between the          *)
(* cancellation of the workers and the end of their threads: a connection    *)
(* of SQLAlchemy is not safe for threads.                                    *)
OneThreadOnConnection ==
    /\ \A v, w \in Workers : thread[v] # None /\ thread[w] # None => v = w
    /\ phase \in {"finishing", "returned", "off"} => thread = Idle

(* What the database says of an item is what the source answered: an item    *)
(* without answer is never recorded as absent, whatever failed around it.    *)
RecordedIsAnswered ==
    \A i \in Items : committed[i] # None => committed[i] = reply[i]

(* A pool that returns has committed all that the source answered, and has   *)
(* passed over an item only because the breaker tripped.                     *)
ReturnedIsComplete ==
    phase = "returned" =>
        \A i \in Items : committed[i] # None \/ reply[i] = Unavailable
                                             \/ (reply[i] = None /\ tripped)

(* A crash loses less than commit_every items.                               *)
LossIsBounded ==
    phase = "running" /\ LockFree =>
        Cardinality({i \in Items : open[i] # None}) < CommitEvery

(* Once the breaker has tripped no request begins, even for the items that   *)
(* were taken before.                                                        *)
NoRequestOnceTripped ==
    [][\A w \in Workers : tripped /\ tripped' /\ pc'[w] = "fetching" => pc[w] = "fetching"]_vars

(* Over the runs every item is settled, if the source fails only so often.   *)
EveryItemIsSettled == \A i \in Items : <>(committed[i] # None)
==============================================================================

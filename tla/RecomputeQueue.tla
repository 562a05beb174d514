--------------------------- MODULE RecomputeQueue ----------------------------
(***************************************************************************)
(* One recomputation queue (infrastructure/db/queues.py), the transactions *)
(* that mark rows in it, and the pipeline task that consumes it.           *)
(*                                                                         *)
(* A mark is a row (id, seq) of the queue table; marking again an id that  *)
(* is already there gives it a new seq.  A task copies the couples into a  *)
(* temporary table, recomputes the rows, and deletes exactly the couples   *)
(* it copied.  Writers (the admin API, other pipeline phases) and the task *)
(* are PostgreSQL READ COMMITTED transactions: each statement reads what   *)
(* is committed, a written row stays locked until the end of the           *)
(* transaction, and a statement that waited for a lock tests its condition *)
(* again on the committed row.                                             *)
(*                                                                         *)
(* The input of a row is abstracted to the number of committed writes of   *)
(* it, its stored result to the version it was computed from.              *)
(***************************************************************************)
EXTENDS Naturals

CONSTANTS
    Ids,            \* identifiers of the rows of the table the queue is about
    Writers,        \* concurrent transactions that write rows and mark them
    MaxSeq,         \* bound on the marks made (values drawn from the sequence)
    MaxFailures     \* bound on the failures of the task: rows in error, interruptions

ASSUME MaxSeqAssumption == MaxSeq \in Nat
ASSUME MaxFailuresAssumption == MaxFailures \in Nat

VARIABLES
    version,        \* committed version of the input of each row, 0 before its creation
    gone,           \* rows deleted
    derived,        \* version from which the committed result of each row was computed
    queue,          \* committed queue table: seq of each id, NoMark when absent
    lastSeq,        \* last value drawn from the sequence of the queue (never rolled back)
    marks,          \* marks[w]: marks of the open transaction of w, not committed
    temp,           \* temporary table of the copied couples, in the session of the task
    tempKept,       \* what a rollback of the task leaves of the temporary table
    stage,          \* where the task is: "idle", "working", "deleted" (marks of the batch deleted)
    todo,           \* rows of the copy the task has still to process
    result,         \* results of the batch not committed yet, NoResult otherwise
    deleted,        \* marks deleted by the transaction of the task, not committed
    failed,         \* rows of this execution left in error
    failures        \* failures so far

writerVars == <<version, gone, marks, lastSeq>>
taskVars == <<temp, tempKept, stage, todo, result, deleted, failed, failures>>
vars == <<version, gone, derived, queue, lastSeq, marks, taskVars>>

NoMark == 0
NoResult == 0
NoMarks == [i \in Ids |-> NoMark]
NoResults == [i \in Ids |-> NoResult]

(* Types of the tables, of the open transactions and of the task.          *)
TypeOK ==
    /\ version \in [Ids -> Nat]
    /\ gone \in SUBSET Ids
    /\ derived \in [Ids -> Nat]
    /\ queue \in [Ids -> Nat]
    /\ lastSeq \in Nat
    /\ marks \in [Writers -> [Ids -> Nat]]
    /\ temp \in [Ids -> Nat]
    /\ tempKept \in [Ids -> Nat]
    /\ stage \in {"idle", "working", "deleted"}
    /\ todo \in SUBSET Ids
    /\ result \in [Ids -> Nat]
    /\ deleted \in SUBSET Ids
    /\ failed \in SUBSET Ids
    /\ failures \in Nat

Exists(i) == version[i] # 0 /\ i \notin gone

Init ==
    /\ version = [i \in Ids |-> 0]
    /\ gone = {}
    /\ derived = [i \in Ids |-> 0]
    /\ queue = NoMarks
    /\ lastSeq = 0
    /\ marks = [w \in Writers |-> NoMarks]
    /\ temp = NoMarks
    /\ tempKept = NoMarks
    /\ stage = "idle"
    /\ todo = {}
    /\ result = NoResults
    /\ deleted = {}
    /\ failed = {}
    /\ failures = 0

------------------------------------------------------------------------------
(* Transactions that mark                                                  *)

(* The queue row of i is locked by another transaction than w: a mark of it *)
(* or its deletion by the task is not committed.                            *)
LockedFor(w, i) ==
    \/ \E u \in Writers \ {w} : marks[u][i] # NoMark
    \/ i \in deleted

(* The seq a mark leaves in the queue: ON CONFLICT DO UPDATE SET seq =     *)
(* DEFAULT draws a new value whether or not the id is already there.       *)
MarkedSeq(i) == lastSeq + 1

(* enqueue: the transaction of w writes the input of i (creating the row   *)
(* the first time) and marks it.                                           *)
Mark(w, i) ==
    /\ lastSeq < MaxSeq
    /\ i \notin gone
    /\ ~ LockedFor(w, i)
    /\ lastSeq' = lastSeq + 1
    /\ marks' = [marks EXCEPT ![w][i] = MarkedSeq(i)]
    /\ UNCHANGED <<version, gone, derived, queue, taskVars>>

Marked(w) == {i \in Ids : marks[w][i] # NoMark}

(* The inputs and their marks become visible together.                     *)
WriterCommit(w) ==
    /\ Marked(w) # {}
    /\ version' = [i \in Ids |-> IF i \in Marked(w) THEN version[i] + 1 ELSE version[i]]
    /\ queue' = [i \in Ids |-> IF i \in Marked(w) THEN marks[w][i] ELSE queue[i]]
    /\ marks' = [marks EXCEPT ![w] = NoMarks]
    /\ UNCHANGED <<gone, derived, lastSeq, taskVars>>

(* An error, or the end of a session, undoes the inputs and the marks; the *)
(* values drawn from the sequence are lost.                                *)
WriterRollback(w) ==
    /\ Marked(w) # {}
    /\ marks' = [marks EXCEPT ![w] = NoMarks]
    /\ UNCHANGED <<version, gone, derived, queue, lastSeq, taskVars>>

(* A row is deleted; the queue has no foreign key and keeps its id.        *)
DeleteRow(i) ==
    /\ Exists(i)
    /\ \A w \in Writers : marks[w][i] = NoMark
    /\ gone' = gone \cup {i}
    /\ UNCHANGED <<version, derived, queue, lastSeq, marks, taskVars>>

------------------------------------------------------------------------------
(* The task                                                                *)

(* Mutant: CREATE TEMP TABLE IF NOT EXISTS keeps an earlier copy.          *)
CopiedOnce == IF temp # NoMarks THEN temp ELSE queue

(* snapshot: the couples of the queue replace those of an earlier copy.    *)
Copied == queue

(* The task then reads the rows to process by joining the table, so the    *)
(* ids of deleted rows are left out.                                       *)
Snapshot ==
    /\ stage = "idle"
    /\ \E i \in Ids : queue[i] # NoMark
    /\ temp' = Copied
    /\ todo' = {i \in Ids : Copied[i] # NoMark /\ Exists(i)}
    /\ stage' = "working"
    /\ failed' = {}
    /\ UNCHANGED <<version, gone, derived, queue, lastSeq, marks,
                   tempKept, result, deleted, failures>>

(* The input read by the computation of i: the last committed one.         *)
Compute(i) ==
    /\ stage = "working"
    /\ i \in todo
    /\ todo' = todo \ {i}
    /\ result' = [result EXCEPT ![i] = version[i]]
    /\ UNCHANGED <<version, gone, derived, queue, lastSeq, marks,
                   temp, tempKept, stage, deleted, failed, failures>>

(* A row in error is undone by its savepoint and keeps its mark: it is not *)
(* among the ids the batch deletes.                                        *)
RowError(i) ==
    /\ stage = "working"
    /\ i \in todo
    /\ failures < MaxFailures
    /\ failures' = failures + 1
    /\ todo' = todo \ {i}
    /\ failed' = failed \cup {i}
    /\ UNCHANGED <<version, gone, derived, queue, lastSeq, marks,
                   temp, tempKept, stage, result, deleted>>

(* Mutant: the deletion joins on the id only.                              *)
ProcessedById(ids) == {i \in ids : temp[i] # NoMark /\ queue[i] # NoMark}

(* The marks one execution of delete_processed removes among ids: the      *)
(* couples still in the queue with the seq that was copied.                *)
Processed(ids) == {i \in ids : temp[i] # NoMark /\ queue[i] = temp[i]}

Batch == {i \in Ids : result[i] # NoResult}

(* Mutant: a batch deletes the whole copy, the restriction to ids is lost. *)
DeleteProcessedUnrestricted ==
    /\ stage = "working"
    /\ Batch # {} \/ (todo = {} /\ failed = {} /\ Processed(Ids) # {})
    /\ deleted' = Processed(Ids)
    /\ \A i \in deleted', w \in Writers : marks[w][i] = NoMark
    /\ stage' = "deleted"
    /\ UNCHANGED <<version, gone, derived, queue, lastSeq, marks,
                   temp, tempKept, todo, result, failed, failures>>

(* delete_processed on the ids of the batch, or on the whole copy once     *)
(* every row of it is processed (a task whose rows may fail one by one     *)
(* keeps to the ids); a deletion of nothing is left out.  It waits for the *)
(* transactions that hold a queue row it would delete.                     *)
DeleteProcessed ==
    /\ stage = "working"
    /\ \/ Batch # {} /\ deleted' = Processed(Batch)
       \/ todo = {} /\ failed = {} /\ Processed(Ids) # {} /\ deleted' = Processed(Ids)
    /\ \A i \in deleted', w \in Writers : marks[w][i] = NoMark
    /\ stage' = "deleted"
    /\ UNCHANGED <<version, gone, derived, queue, lastSeq, marks,
                   temp, tempKept, todo, result, failed, failures>>

(* Commit of a batch: results and deletions become visible together, the   *)
(* temporary table survives a later rollback.                              *)
TaskCommit ==
    /\ stage = "deleted"
    /\ derived' = [i \in Ids |-> IF i \in Batch THEN result[i] ELSE derived[i]]
    /\ queue' = [i \in Ids |-> IF i \in deleted THEN NoMark ELSE queue[i]]
    /\ result' = NoResults
    /\ deleted' = {}
    /\ tempKept' = temp
    /\ stage' = "working"
    /\ UNCHANGED <<version, gone, lastSeq, marks, temp, todo, failed, failures>>

(* The end of an execution.  The copy stays in the session until the next  *)
(* one replaces it.                                                        *)
Finish ==
    /\ stage = "working"
    /\ todo = {}
    /\ Batch = {}
    /\ failed = {} => Processed(Ids) = {}
    /\ stage' = "idle"
    /\ UNCHANGED <<version, gone, derived, queue, lastSeq, marks,
                   temp, tempKept, todo, result, deleted, failed, failures>>

(* An exception or an interruption rolls the transaction back; what was    *)
(* committed stays, the temporary table too when its creation was.         *)
Abort ==
    /\ stage # "idle"
    /\ failures < MaxFailures
    /\ failures' = failures + 1
    /\ temp' = tempKept
    /\ stage' = "idle"
    /\ todo' = {}
    /\ result' = NoResults
    /\ deleted' = {}
    /\ failed' = {}
    /\ UNCHANGED <<version, gone, derived, queue, lastSeq, marks, tempKept>>

------------------------------------------------------------------------------
Writer(w) ==
    \/ \E i \in Ids : Mark(w, i)
    \/ WriterCommit(w)
    \/ WriterRollback(w)

Task ==
    \/ Snapshot
    \/ \E i \in Ids : Compute(i) \/ RowError(i)
    \/ DeleteProcessed
    \/ TaskCommit
    \/ Finish
    \/ Abort

Next ==
    \/ \E w \in Writers : Writer(w)
    \/ \E i \in Ids : DeleteRow(i)
    \/ Task

Spec == Init /\ [][Next]_vars

(* The nightly pipeline starts the task again as long as marks remain, and *)
(* each step of it ends; an open transaction ends, with its session if     *)
(* need be.  Writers need not mark, nor rows fail.                         *)
Fairness ==
    /\ WF_vars(Snapshot)
    /\ WF_vars(\E i \in Ids : Compute(i))
    /\ WF_vars(DeleteProcessed)
    /\ WF_vars(TaskCommit)
    /\ WF_vars(Finish)
    /\ \A w \in Writers : WF_vars(WriterCommit(w) \/ WriterRollback(w))

FairSpec == Spec /\ Fairness

------------------------------------------------------------------------------
(* Properties                                                              *)

(* No lost mark: a row whose stored result is older than its input is in   *)
(* the queue, whatever commits, rollbacks and batches happened while the   *)
(* task ran.  This is what incremental processing rests on: an unmarked    *)
(* row is never looked at again.                                           *)
NoLostMark == \A i \in Ids : Exists(i) /\ derived[i] # version[i] => queue[i] # NoMark

(* A task that holds a copied couple unchanged in the queue has computed   *)
(* from the current input: deleting the couple then forgets nothing.       *)
UnchangedSeqMeansCurrentResult ==
    \A i \in Batch : queue[i] = temp[i] => result[i] = version[i]

(* The inductive invariant behind NoLostMark, checked on the instances and *)
(* proved in RecomputeQueueProofs for all of them.                         *)

(* Values of the sequence are unique: the mark of an open transaction is   *)
(* neither in the queue nor in a copy, and only one transaction holds it.  *)
SeqsAreFresh ==
    /\ \A i \in Ids : queue[i] <= lastSeq /\ temp[i] <= lastSeq /\ tempKept[i] <= lastSeq
    /\ \A w \in Writers, i \in Ids : marks[w][i] # NoMark =>
          /\ marks[w][i] <= lastSeq
          /\ marks[w][i] \notin {queue[i], temp[i], tempKept[i]}
          /\ i \notin gone \cup deleted
          /\ \A u \in Writers : marks[u][i] # NoMark => u = w

(* What the task holds at each stage.                                      *)
TaskHolds ==
    /\ stage = "idle" => todo = {} /\ Batch = {}
    /\ stage # "deleted" => deleted = {}
    /\ todo \cap Batch = {}
    /\ todo \cap deleted = {}
    /\ \A i \in todo \cup Batch : temp[i] # NoMark /\ queue[i] # NoMark
    /\ \A i \in deleted : temp[i] # NoMark /\ queue[i] = temp[i]

VersionsAreOrdered ==
    \A i \in Ids :
        /\ derived[i] <= version[i]
        /\ i \in Batch => derived[i] <= result[i] /\ result[i] <= version[i]
        /\ queue[i] # NoMark => version[i] # 0

(* A couple still in the queue as it was copied is either not dealt with   *)
(* yet, or the result of its row is current, in the batch or committed.    *)
CopiedCouplesAreAccountedFor ==
    /\ stage # "idle" =>
          \A i \in Ids : temp[i] # NoMark /\ queue[i] = temp[i] =>
             i \in todo \cup failed \cup Batch \cup gone \/ derived[i] = version[i]
    /\ \A i \in deleted : i \in Batch \cup gone \/ derived[i] = version[i]

IInv ==
    /\ TypeOK
    /\ SeqsAreFresh
    /\ TaskHolds
    /\ VersionsAreOrdered
    /\ CopiedCouplesAreAccountedFor
    /\ UnchangedSeqMeansCurrentResult
    /\ NoLostMark

(* Every change of a row reaches its stored result, unless the row is      *)
(* deleted first; its mark has then to leave the queue although no row is  *)
(* processed for it.                                                       *)
EveryChangeIsRecomputed ==
    \A i \in Ids :
        (Exists(i) /\ derived[i] # version[i])
            ~> (derived[i] = version[i] \/ (i \in gone /\ queue[i] = NoMark))

(* The queue and its task keep the promise of Recalculation: the requests  *)
(* are the committed marks.                                                *)
Promise == INSTANCE Recalculation WITH pending <- {i \in Ids : queue[i] # NoMark}
KeepsPromise == Promise!Spec
==============================================================================

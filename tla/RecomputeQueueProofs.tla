------------------------ MODULE RecomputeQueueProofs -------------------------
(***************************************************************************)
(* Proofs about RecomputeQueue, for every set of rows and of writers and   *)
(* every bound: IInv is inductive (one lemma per action, one step per      *)
(* conjunct), so no mark is lost; and every step of the queue, its writers *)
(* and its task is a step of Recalculation or a stutter.                   *)
(***************************************************************************)
EXTENDS RecomputeQueue, TLAPS

(* The empty queue, with no transaction open, satisfies IInv.              *)
LEMMA InitEstablishesIInv == Init => IInv
BY DEF Init, IInv, TypeOK, SeqsAreFresh, TaskHolds, VersionsAreOrdered,
       CopiedCouplesAreAccountedFor, UnchangedSeqMeansCurrentResult, NoLostMark,
       NoMarks, NoMark, NoResults, NoResult, Batch, Exists

(* A mark draws a value that no one holds. *)
LEMMA MarkPreservesIInv ==
    ASSUME NEW w \in Writers, NEW i \in Ids, IInv, Mark(w, i)
    PROVE  IInv'
<1>1. TypeOK'
  BY DEF MarkedSeq, taskVars, Mark, TypeOK, IInv
<1>2. SeqsAreFresh'
  BY DEF LockedFor, MarkedSeq, taskVars, Mark, TypeOK, SeqsAreFresh, IInv
<1>3. TaskHolds'
  BY DEF Batch, taskVars, Mark, TaskHolds, IInv
<1>4. VersionsAreOrdered'
  BY DEF Batch, taskVars, Mark, VersionsAreOrdered, IInv
<1>5. CopiedCouplesAreAccountedFor'
  BY DEF Batch, taskVars, Mark, CopiedCouplesAreAccountedFor, IInv
<1>6. UnchangedSeqMeansCurrentResult'
  BY DEF Batch, taskVars, Mark, UnchangedSeqMeansCurrentResult, IInv
<1>7. NoLostMark'
  BY DEF Exists, Mark, NoLostMark, IInv
<1> QED
  BY <1>1, <1>2, <1>3, <1>4, <1>5, <1>6, <1>7 DEF IInv

(* The mark that replaces a copied couple has another seq, so the couple no longer counts as processed. *)
LEMMA WriterCommitPreservesIInv ==
    ASSUME NEW w \in Writers, IInv, WriterCommit(w)
    PROVE  IInv'
<1>1. TypeOK'
  BY DEF NoMarks, NoMark, taskVars, WriterCommit, TypeOK, IInv
<1>2. SeqsAreFresh'
  BY DEF NoMarks, Marked, taskVars, WriterCommit, TypeOK, SeqsAreFresh, IInv
<1>3. TaskHolds'
  BY DEF SeqsAreFresh, Batch, Marked, taskVars, WriterCommit, TypeOK, TaskHolds, IInv
<1>4. VersionsAreOrdered'
  BY DEF Batch, taskVars, WriterCommit, TypeOK, VersionsAreOrdered, IInv
<1>5. CopiedCouplesAreAccountedFor'
  BY DEF SeqsAreFresh, Batch, Marked, taskVars, WriterCommit, TypeOK,
         CopiedCouplesAreAccountedFor, IInv
<1>6. UnchangedSeqMeansCurrentResult'
  BY DEF SeqsAreFresh, Batch, Marked, taskVars, WriterCommit, UnchangedSeqMeansCurrentResult, IInv
<1>7. NoLostMark'
  BY DEF Exists, Marked, WriterCommit, NoLostMark, IInv
<1> QED
  BY <1>1, <1>2, <1>3, <1>4, <1>5, <1>6, <1>7 DEF IInv

(* Nothing committed changes. *)
LEMMA WriterRollbackPreservesIInv ==
    ASSUME NEW w \in Writers, IInv, WriterRollback(w)
    PROVE  IInv'
<1>1. TypeOK'
  BY DEF NoMarks, NoMark, taskVars, WriterRollback, TypeOK, IInv
<1>2. SeqsAreFresh'
  BY DEF NoMarks, taskVars, WriterRollback, SeqsAreFresh, IInv
<1>3. TaskHolds'
  BY DEF Batch, taskVars, WriterRollback, TaskHolds, IInv
<1>4. VersionsAreOrdered'
  BY DEF Batch, taskVars, WriterRollback, VersionsAreOrdered, IInv
<1>5. CopiedCouplesAreAccountedFor'
  BY DEF Batch, taskVars, WriterRollback, CopiedCouplesAreAccountedFor, IInv
<1>6. UnchangedSeqMeansCurrentResult'
  BY DEF Batch, taskVars, WriterRollback, UnchangedSeqMeansCurrentResult, IInv
<1>7. NoLostMark'
  BY DEF Exists, WriterRollback, NoLostMark, IInv
<1> QED
  BY <1>1, <1>2, <1>3, <1>4, <1>5, <1>6, <1>7 DEF IInv

(* A deleted row asks for nothing more. *)
LEMMA DeleteRowPreservesIInv ==
    ASSUME NEW i \in Ids, IInv, DeleteRow(i)
    PROVE  IInv'
<1>1. TypeOK'
  BY DEF taskVars, DeleteRow, TypeOK, IInv
<1>2. SeqsAreFresh'
  BY DEF taskVars, DeleteRow, SeqsAreFresh, IInv
<1>3. TaskHolds'
  BY DEF Batch, taskVars, DeleteRow, TaskHolds, IInv
<1>4. VersionsAreOrdered'
  BY DEF Batch, taskVars, DeleteRow, VersionsAreOrdered, IInv
<1>5. CopiedCouplesAreAccountedFor'
  BY DEF Batch, taskVars, DeleteRow, CopiedCouplesAreAccountedFor, IInv
<1>6. UnchangedSeqMeansCurrentResult'
  BY DEF Batch, taskVars, DeleteRow, UnchangedSeqMeansCurrentResult, IInv
<1>7. NoLostMark'
  BY DEF Exists, DeleteRow, NoLostMark, IInv
<1> QED
  BY <1>1, <1>2, <1>3, <1>4, <1>5, <1>6, <1>7 DEF IInv

(* The copied couples are those of the queue, and their rows are to process. *)
LEMMA SnapshotPreservesIInv ==
    ASSUME IInv, Snapshot
    PROVE  IInv'
<1>1. TypeOK'
  BY DEF Copied, Snapshot, TypeOK, IInv
<1>2. SeqsAreFresh'
  BY DEF Copied, Snapshot, SeqsAreFresh, IInv
<1>3. TaskHolds'
  BY DEF Batch, Copied, Snapshot, TaskHolds, IInv
<1>4. VersionsAreOrdered'
  BY DEF Batch, Snapshot, VersionsAreOrdered, IInv
<1>5. CopiedCouplesAreAccountedFor'
  BY DEF VersionsAreOrdered, Exists, Batch, Snapshot, CopiedCouplesAreAccountedFor, IInv
<1>6. UnchangedSeqMeansCurrentResult'
  BY DEF TaskHolds, Batch, Snapshot, UnchangedSeqMeansCurrentResult, IInv
<1>7. NoLostMark'
  BY DEF Exists, Snapshot, NoLostMark, IInv
<1> QED
  BY <1>1, <1>2, <1>3, <1>4, <1>5, <1>6, <1>7 DEF IInv

(* The result is that of the committed input. *)
LEMMA ComputePreservesIInv ==
    ASSUME NEW i \in Ids, IInv, Compute(i)
    PROVE  IInv'
<1>1. TypeOK'
  BY DEF Compute, TypeOK, IInv
<1>2. SeqsAreFresh'
  BY DEF Compute, SeqsAreFresh, IInv
<1>3. TaskHolds'
  BY DEF Batch, Compute, TaskHolds, IInv
<1>4. VersionsAreOrdered'
  BY DEF Batch, Compute, TypeOK, VersionsAreOrdered, IInv
<1>5. CopiedCouplesAreAccountedFor'
  BY DEF VersionsAreOrdered, Batch, NoResult, Compute, TypeOK, CopiedCouplesAreAccountedFor, IInv
<1>6. UnchangedSeqMeansCurrentResult'
  BY DEF Batch, Compute, UnchangedSeqMeansCurrentResult, IInv
<1>7. NoLostMark'
  BY DEF Exists, Compute, NoLostMark, IInv
<1> QED
  BY <1>1, <1>2, <1>3, <1>4, <1>5, <1>6, <1>7 DEF IInv

(* The row in error keeps its mark. *)
LEMMA RowErrorPreservesIInv ==
    ASSUME NEW i \in Ids, IInv, RowError(i)
    PROVE  IInv'
<1>1. TypeOK'
  BY DEF RowError, TypeOK, IInv
<1>2. SeqsAreFresh'
  BY DEF RowError, SeqsAreFresh, IInv
<1>3. TaskHolds'
  BY DEF Batch, RowError, TaskHolds, IInv
<1>4. VersionsAreOrdered'
  BY DEF Batch, RowError, VersionsAreOrdered, IInv
<1>5. CopiedCouplesAreAccountedFor'
  BY DEF Batch, RowError, CopiedCouplesAreAccountedFor, IInv
<1>6. UnchangedSeqMeansCurrentResult'
  BY DEF Batch, RowError, UnchangedSeqMeansCurrentResult, IInv
<1>7. NoLostMark'
  BY DEF Exists, RowError, NoLostMark, IInv
<1> QED
  BY <1>1, <1>2, <1>3, <1>4, <1>5, <1>6, <1>7 DEF IInv

(* Only couples whose result is in the batch, committed, or without a row, are deleted. *)
LEMMA DeleteProcessedPreservesIInv ==
    ASSUME IInv, DeleteProcessed
    PROVE  IInv'
<1>1. TypeOK'
  BY DEF Batch, Processed, DeleteProcessed, TypeOK, IInv
<1>2. SeqsAreFresh'
  BY DEF DeleteProcessed, SeqsAreFresh, IInv
<1>3. TaskHolds'
  BY DEF Batch, Processed, DeleteProcessed, TaskHolds, IInv
<1>4. VersionsAreOrdered'
  BY DEF Batch, DeleteProcessed, VersionsAreOrdered, IInv
<1>5. CopiedCouplesAreAccountedFor'
  BY DEF Batch, Processed, DeleteProcessed, CopiedCouplesAreAccountedFor, IInv
<1>6. UnchangedSeqMeansCurrentResult'
  BY DEF Batch, DeleteProcessed, UnchangedSeqMeansCurrentResult, IInv
<1>7. NoLostMark'
  BY DEF Exists, DeleteProcessed, NoLostMark, IInv
<1> QED
  BY <1>1, <1>2, <1>3, <1>4, <1>5, <1>6, <1>7 DEF IInv

(* Results and deletions are committed together. *)
LEMMA TaskCommitPreservesIInv ==
    ASSUME IInv, TaskCommit
    PROVE  IInv'
<1>1. TypeOK'
  BY DEF NoMark, NoResults, NoResult, TaskCommit, TypeOK, IInv
<1>2. SeqsAreFresh'
  BY DEF NoMark, TaskCommit, TypeOK, SeqsAreFresh, IInv
<1>3. TaskHolds'
  BY DEF Batch, NoResults, TaskCommit, TypeOK, TaskHolds, IInv
<1>4. VersionsAreOrdered'
  BY DEF Batch, NoResults, TaskCommit, VersionsAreOrdered, IInv
<1>5. CopiedCouplesAreAccountedFor'
  BY DEF UnchangedSeqMeansCurrentResult, TaskCommit, CopiedCouplesAreAccountedFor, IInv
<1>6. UnchangedSeqMeansCurrentResult'
  BY DEF Batch, NoResults, TaskCommit, UnchangedSeqMeansCurrentResult
<1>7. NoLostMark'
  BY DEF UnchangedSeqMeansCurrentResult, CopiedCouplesAreAccountedFor, TaskHolds, Exists,
         TaskCommit, NoLostMark, IInv
<1> QED
  BY <1>1, <1>2, <1>3, <1>4, <1>5, <1>6, <1>7 DEF IInv

(* The task only leaves its session. *)
LEMMA FinishPreservesIInv ==
    ASSUME IInv, Finish
    PROVE  IInv'
<1>1. TypeOK'
  BY DEF Finish, TypeOK, IInv
<1>2. SeqsAreFresh'
  BY DEF Finish, SeqsAreFresh, IInv
<1>3. TaskHolds'
  BY DEF Batch, Finish, TaskHolds, IInv
<1>4. VersionsAreOrdered'
  BY DEF Batch, Finish, VersionsAreOrdered, IInv
<1>5. CopiedCouplesAreAccountedFor'
  BY DEF Finish, CopiedCouplesAreAccountedFor, IInv
<1>6. UnchangedSeqMeansCurrentResult'
  BY DEF Batch, Finish, UnchangedSeqMeansCurrentResult
<1>7. NoLostMark'
  BY DEF Exists, Finish, NoLostMark, IInv
<1> QED
  BY <1>1, <1>2, <1>3, <1>4, <1>5, <1>6, <1>7 DEF IInv

(* The transaction of the task is undone as a whole. *)
LEMMA AbortPreservesIInv ==
    ASSUME IInv, Abort
    PROVE  IInv'
<1>1. TypeOK'
  BY DEF NoResults, NoResult, Abort, TypeOK, IInv
<1>2. SeqsAreFresh'
  BY DEF Abort, SeqsAreFresh, IInv
<1>3. TaskHolds'
  BY DEF Batch, NoResults, Abort, TaskHolds
<1>4. VersionsAreOrdered'
  BY DEF Batch, NoResults, Abort, VersionsAreOrdered, IInv
<1>5. CopiedCouplesAreAccountedFor'
  BY DEF Abort, CopiedCouplesAreAccountedFor
<1>6. UnchangedSeqMeansCurrentResult'
  BY DEF Batch, NoResults, Abort, UnchangedSeqMeansCurrentResult
<1>7. NoLostMark'
  BY DEF Exists, Abort, NoLostMark, IInv
<1> QED
  BY <1>1, <1>2, <1>3, <1>4, <1>5, <1>6, <1>7 DEF IInv

------------------------------------------------------------------------------
(* Every step of the writers and of the task preserves IInv.               *)
LEMMA NextPreservesIInv == IInv /\ [Next]_vars => IInv'
<1> SUFFICES ASSUME IInv, [Next]_vars
             PROVE  IInv'
  OBVIOUS
<1>1. ASSUME NEW w \in Writers, Writer(w)
      PROVE  IInv'
  BY <1>1, MarkPreservesIInv, WriterCommitPreservesIInv, WriterRollbackPreservesIInv DEF Writer
<1>2. ASSUME NEW i \in Ids, DeleteRow(i)
      PROVE  IInv'
  BY <1>2, DeleteRowPreservesIInv
<1>3. CASE Task
  BY <1>3, SnapshotPreservesIInv, ComputePreservesIInv, RowErrorPreservesIInv,
     DeleteProcessedPreservesIInv, TaskCommitPreservesIInv, FinishPreservesIInv,
     AbortPreservesIInv
     DEF Task
<1>4. CASE UNCHANGED vars
  BY <1>4 DEF vars, taskVars, IInv, TypeOK, SeqsAreFresh, TaskHolds, VersionsAreOrdered,
     CopiedCouplesAreAccountedFor, UnchangedSeqMeansCurrentResult, NoLostMark, Batch, Exists
<1> QED
  BY <1>1, <1>2, <1>3, <1>4 DEF Next

(* The queue, its writers and its task always satisfy IInv.                *)
THEOREM IInvIsInvariant == Spec => []IInv
BY InitEstablishesIInv, NextPreservesIInv, PTL DEF Spec

(* The variables keep their types, whatever the rows, the writers and the  *)
(* bounds.                                                                 *)
THEOREM TypeCorrect == Spec => []TypeOK
<1>1. IInv => TypeOK
  BY DEF IInv
<1> QED
  BY <1>1, IInvIsInvariant, PTL

(* No mark is lost: a row whose stored result is older than its input is   *)
(* in the queue, so the next execution of the task recomputes it           *)
(* (infrastructure/db/queues.py).                                          *)
THEOREM NoMarkIsLost == Spec => []NoLostMark
<1>1. IInv => NoLostMark
  BY DEF IInv
<1> QED
  BY <1>1, IInvIsInvariant, PTL

(* Deleting a couple that is in the queue as it was copied forgets no      *)
(* change: the result of its row is that of the current input.             *)
THEOREM UnchangedSeqIsCurrent == Spec => []UnchangedSeqMeansCurrentResult
<1>1. IInv => UnchangedSeqMeansCurrentResult
  BY DEF IInv
<1> QED
  BY <1>1, IInvIsInvariant, PTL

------------------------------------------------------------------------------
(* The initial queue is the one Recalculation starts from.                 *)
LEMMA InitIsPromised == Init => Promise!Init
BY DEF Init, Promise!Init, NoMarks

(* The commit of a writer changes its rows and requests them together.     *)
LEMMA WriterCommitIsChange ==
    ASSUME NEW w \in Writers, IInv, WriterCommit(w)
    PROVE  Promise!Change(Marked(w))
<1>1. Marked(w) # {} /\ Marked(w) \cap gone = {}
  BY DEF WriterCommit, IInv, SeqsAreFresh, Marked
<1>2. {i \in Ids : queue'[i] # NoMark} = {i \in Ids : queue[i] # NoMark} \cup Marked(w)
  BY DEF WriterCommit, IInv, TypeOK, Marked
<1> QED
  BY <1>1, <1>2 DEF Promise!Change, WriterCommit, NoMark

(* The commit of a batch withdraws the requests of rows it brought up to   *)
(* date, or whose row is gone.                                             *)
LEMMA TaskCommitIsRecompute ==
    ASSUME IInv, TaskCommit
    PROVE  Promise!Recompute
<1> DEFINE requests == {i \in Ids : queue[i] # NoMark}
<1>1. derived' \in [Ids -> Nat]
  BY DEF TaskCommit, IInv, TypeOK
<1>2. ASSUME NEW i \in Ids
      PROVE  /\ derived[i] <= derived'[i]
             /\ derived'[i] # derived[i] => i \in requests
  BY DEF TaskCommit, IInv, TypeOK, VersionsAreOrdered, TaskHolds
<1>3. requests' \subseteq requests
  BY DEF TaskCommit, IInv, TypeOK
<1>4. ASSUME NEW i \in requests \ requests'
      PROVE  i \in gone \/ derived'[i] = version[i]
  <2>1. i \in deleted
    BY <1>4 DEF TaskCommit, IInv, TypeOK
  <2>2. CASE i \in Batch
    BY <2>1, <2>2 DEF TaskCommit, IInv, TypeOK, TaskHolds, UnchangedSeqMeansCurrentResult
  <2>3. CASE i \notin Batch
    BY <2>1, <2>3 DEF TaskCommit, IInv, TypeOK, CopiedCouplesAreAccountedFor
  <2> QED
    BY <2>2, <2>3
<1> QED
  BY <1>1, <1>2, <1>3, <1>4 DEF Promise!Recompute, TaskCommit, NoMark

(* Every step of the queue is a step of Recalculation or a stutter.        *)
LEMMA StepIsPromised == IInv /\ [Next]_vars => [Promise!Next]_(Promise!vars)
<1> SUFFICES ASSUME IInv, [Next]_vars
             PROVE  [Promise!Next]_(Promise!vars)
  OBVIOUS
<1>1. ASSUME NEW w \in Writers, WriterCommit(w)
      PROVE  Promise!Next
  <2>1. Marked(w) \in SUBSET Ids
    BY DEF Marked
  <2>2. Promise!Change(Marked(w))
    BY <1>1, WriterCommitIsChange
  <2> QED
    BY <2>1, <2>2 DEF Promise!Next, Promise!Change
<1>2. ASSUME NEW i \in Ids, DeleteRow(i)
      PROVE  Promise!Next
  <2>1. Promise!Drop(i)
    BY <1>2 DEF DeleteRow, Exists, Promise!Drop
  <2> QED
    BY <2>1 DEF Promise!Next
<1>3. CASE TaskCommit
  BY <1>3, TaskCommitIsRecompute DEF Promise!Next
<1>4. CASE \E w \in Writers : (\E i \in Ids : Mark(w, i)) \/ WriterRollback(w)
  BY <1>4 DEF Mark, WriterRollback, Promise!vars
<1>5. CASE \/ Snapshot
           \/ \E i \in Ids : Compute(i) \/ RowError(i)
           \/ DeleteProcessed
           \/ Finish
           \/ Abort
  BY <1>5 DEF Snapshot, Compute, RowError, DeleteProcessed, Finish, Abort, Promise!vars
<1>6. CASE UNCHANGED vars
  BY <1>6 DEF vars, Promise!vars
<1> QED
  BY <1>1, <1>2, <1>3, <1>4, <1>5, <1>6 DEF Next, Writer, Task

(* The queue and its task implement Recalculation: a request leaves only   *)
(* when the stored result is that of the current input, or the row gone.   *)
THEOREM QueueKeepsPromise == Spec => KeepsPromise
<1>1. Init => Promise!Init
  BY InitIsPromised
<1>2. IInv /\ [Next]_vars => [Promise!Next]_(Promise!vars)
  BY StepIsPromised
<1> QED
  BY <1>1, <1>2, IInvIsInvariant, PTL DEF Spec, KeepsPromise, Promise!Spec
==============================================================================

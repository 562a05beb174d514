--------------------------- MODULE FetchPoolProofs ----------------------------
(* Theorems on FetchPool, for all sets of items and of workers, all sizes of *)
(* commits, thresholds and numbers of attempts.                              *)
EXTENDS FetchPool, FiniteSetTheorems, TLAPS

------------------------------------------------------------------------------
(* The inductive invariant                                                   *)

(* The worker, or its thread, has taken an item that it has not written.     *)
Unwritten(w) ==
    \/ pc[w] \in {"prepare_lock", "preparing", "fetching", "write_lock"}
    \/ thread[w] \in {"prepare", "write"}

(* The lock is held by one worker, and a thread runs under the lock or has   *)
(* outlived the cancellation of its worker.                                  *)
LockIsExclusive ==
    /\ \A v, w \in Workers : pc[v] \in Locking /\ pc[w] \in Locking => v = w
    /\ \A v, w \in Workers : thread[v] # None /\ thread[w] # None => v = w
    /\ \A w \in Workers : thread[w] # None =>
          \/ (Running /\ pc[w] \in Locking)
          \/ phase = "cancelled"
    /\ ~Running => pc = Ended

(* An item is in one place: not given yet, held by one worker, or done.      *)
ItemsAreApart ==
    /\ \A i \in todo : committed[i] = None /\ open[i] = None /\ reply[i] = None
    /\ \A w \in Workers : Unwritten(w) =>
          committed[item[w]] = None /\ open[item[w]] = None /\ item[w] \notin todo
    /\ \A v, w \in Workers : Unwritten(v) /\ Unwritten(w) /\ item[v] = item[w] => v = w

(* What is written, committed or not, is what the source answered.           *)
WritesAreAnswers ==
    /\ \A i \in Items : open[i] # None => open[i] = reply[i]
    /\ \A i \in Items : committed[i] # None => committed[i] = reply[i]
    /\ phase \in {"off", "returned"} => open = Nothing

IInv == TypeOK /\ LockIsExclusive /\ ItemsAreApart /\ WritesAreAnswers

(* Without an exception, no item is lost between the iterator and the base.  *)
NoneForgotten ==
    /\ aborted => phase \in {"raised", "cancelled"}
    /\ \A w \in Workers :
          pc[w] = "write_lock" \/ thread[w] = "write" => reply[item[w]] # None
    /\ phase \in {"running", "finishing"} =>
         /\ \A i \in Items :
              \/ committed[i] # None \/ open[i] # None \/ i \in todo
              \/ reply[i] = Unavailable
              \/ (reply[i] = None /\ tripped)
              \/ \E w \in Workers : Unwritten(w) /\ item[w] = i
         /\ (\E w \in Workers : pc[w] = "ended") /\ todo # {} => tripped

(* The writes since the last commit are counted by done, of which a commit   *)
(* is due at each multiple.                                                  *)
Open == {i \in Items : open[i] # None}
OpenIsCounted ==
    phase = "running" /\ (\A w \in Workers : thread[w] # "commit") =>
        IsFiniteSet(Open) /\ Cardinality(Open) <= done % CommitEvery

USE DEF base, source, worker, None, Found, NotFound, Unavailable, Outcomes, Replies,
        Threads, Locking, PCs, Phases

------------------------------------------------------------------------------
(* One lemma for each action, one step for each part of the invariant        *)

(* Before the first run nothing is held, written or committed.               *)
LEMMA InitEstablishesIInv == Init => IInv
<1> SUFFICES ASSUME Init PROVE IInv
  OBVIOUS
<1>1. TypeOK
  <2>1. item \in [Workers -> Items]
    BY PoolConstants DEF Init, NoItems
  <2>2. attempt \in [Workers -> 1 .. MaxRetries] /\ errors \in 0 .. MaxErrors /\ stops \in 0 .. MaxStops
    BY PoolConstants DEF Init
  <2> QED
    BY <2>1, <2>2 DEF Init, TypeOK, Nothing, Idle, Ended
<1>2. LockIsExclusive
  BY DEF Init, LockIsExclusive, Idle, Ended
<1>3. ItemsAreApart /\ WritesAreAnswers
  BY DEF Init, ItemsAreApart, WritesAreAnswers, Unwritten, Idle, Ended
<1> QED
  BY <1>1, <1>2, <1>3 DEF IInv

(* A run starts without a transaction, and asks for what the base does not settle.*)
LEMMA StartKeepsIInv ==
    ASSUME IInv, Start
    PROVE  IInv'
<1>1. TypeOK'
  <2>1. todo' \subseteq Items /\ reply' \in [Items -> Replies]
    BY DEF Start, Pending, TypeOK, IInv
  <2>2. item' \in [Workers -> Items]
    BY PoolConstants DEF Start, NoItems
  <2>3. attempt' \in [Workers -> 1 .. MaxRetries]
    BY PoolConstants DEF Start
  <2>4. pc' \in [Workers -> PCs] /\ phase' \in Phases /\ prepares' \in BOOLEAN /\ done' \in Nat
    BY DEF Start
  <2>5. failures' \in Nat /\ tripped' \in BOOLEAN
    BY DEF Start, FreshBreaker
  <2> QED
    BY <2>1, <2>2, <2>3, <2>4, <2>5 DEF Start, TypeOK, IInv
<1>2. LockIsExclusive'
  BY DEF Start, Pending, NoItems, FreshBreaker, LockIsExclusive, Running, TypeOK, IInv
<1>3. ItemsAreApart'
  BY DEF Start, Pending, Nothing, NoItems, FreshBreaker, LockIsExclusive, ItemsAreApart,
     WritesAreAnswers, Unwritten, Running, TypeOK, IInv
<1>4. WritesAreAnswers'
  BY DEF Start, Pending, Nothing, NoItems, FreshBreaker, WritesAreAnswers, TypeOK, IInv
<1> QED
  BY <1>1, <1>2, <1>3, <1>4 DEF IInv

(* The item given leaves the iterator; no other worker holds it.             *)
LEMMA TakeKeepsIInv ==
    ASSUME NEW w \in Workers, IInv, Take(w)
    PROVE  IInv'
<1>1. TypeOK'
  BY PoolConstants DEF Take, TypeOK, IInv
<1>2. LockIsExclusive'
  BY DEF Take, LockIsExclusive, Running, TypeOK, IInv
<1>3. ItemsAreApart'
  BY DEF Take, ItemsAreApart, Unwritten, TypeOK, IInv
<1>4. WritesAreAnswers'
  BY DEF Take, WritesAreAnswers, TypeOK, IInv
<1> QED
  BY <1>1, <1>2, <1>3, <1>4 DEF IInv

(* The worker held nothing.                                                  *)
LEMMA NoneLeftKeepsIInv ==
    ASSUME NEW w \in Workers, IInv, NoneLeft(w)
    PROVE  IInv'
<1>1. TypeOK'
  BY DEF NoneLeft, TypeOK, IInv
<1>2. LockIsExclusive'
  BY DEF NoneLeft, LockIsExclusive, Running, TypeOK, IInv
<1>3. ItemsAreApart'
  BY DEF NoneLeft, ItemsAreApart, Unwritten, TypeOK, IInv
<1>4. WritesAreAnswers'
  BY DEF NoneLeft, WritesAreAnswers, TypeOK, IInv
<1> QED
  BY <1>1, <1>2, <1>3, <1>4 DEF IInv

(* The lock is free, hence no thread runs.                                   *)
LEMMA PrepareKeepsIInv ==
    ASSUME NEW w \in Workers, IInv, Prepare(w)
    PROVE  IInv'
<1>1. TypeOK'
  BY DEF Prepare, LockForPrepare, TypeOK, IInv
<1>2. LockIsExclusive'
  BY DEF Prepare, LockForPrepare, LockFree, LockIsExclusive, Running, TypeOK, IInv
<1>3. ItemsAreApart'
  BY DEF Prepare, LockForPrepare, ItemsAreApart, Unwritten, TypeOK, IInv
<1>4. WritesAreAnswers'
  BY DEF Prepare, LockForPrepare, WritesAreAnswers, TypeOK, IInv
<1> QED
  BY <1>1, <1>2, <1>3, <1>4 DEF IInv

(* The outcome of an item changes while its worker holds it unwritten.       *)
LEMMA PreparedKeepsIInv ==
    ASSUME NEW w \in Workers, IInv, Prepared(w)
    PROVE  IInv'
<1>1. TypeOK'
  BY PoolConstants DEF Prepared, BeginFetch, TypeOK, IInv
<1>2. LockIsExclusive'
  BY DEF Prepared, BeginFetch, LockIsExclusive, Running, TypeOK, IInv, Ended
<1>3. ItemsAreApart'
  BY DEF Prepared, BeginFetch, ItemsAreApart, Unwritten, TypeOK, IInv
<1>4. WritesAreAnswers'
  BY DEF Prepared, BeginFetch, ItemsAreApart, WritesAreAnswers, Unwritten, TypeOK, IInv
<1> QED
  BY <1>1, <1>2, <1>3, <1>4 DEF IInv

(* The outcome of an item changes while its worker holds it unwritten.       *)
LEMMA AnswerKeepsIInv ==
    ASSUME NEW w \in Workers, IInv, Answer(w)
    PROVE  IInv'
<1>1. TypeOK'
  BY DEF Answer, TypeOK, IInv
<1>2. LockIsExclusive'
  BY DEF Answer, LockIsExclusive, Running, TypeOK, IInv
<1>3. ItemsAreApart'
  BY DEF Answer, ItemsAreApart, Unwritten, TypeOK, IInv
<1>4. WritesAreAnswers'
  BY DEF Answer, ItemsAreApart, WritesAreAnswers, Unwritten, TypeOK, IInv
<1> QED
  BY <1>1, <1>2, <1>3, <1>4 DEF IInv

(* Only a counter changes.                                                   *)
LEMMA RetryKeepsIInv ==
    ASSUME NEW w \in Workers, IInv, Retry(w)
    PROVE  IInv'
<1>1. TypeOK'
  BY PoolConstants DEF Retry, TypeOK, IInv
<1>2. LockIsExclusive'
  BY DEF Retry, LockIsExclusive, Running, TypeOK, IInv
<1>3. ItemsAreApart'
  BY DEF Retry, ItemsAreApart, Unwritten, TypeOK, IInv
<1>4. WritesAreAnswers'
  BY DEF Retry, WritesAreAnswers, TypeOK, IInv
<1> QED
  BY <1>1, <1>2, <1>3, <1>4 DEF IInv

(* The outcome of an item changes while its worker holds it unwritten.       *)
LEMMA GiveUpKeepsIInv ==
    ASSUME NEW w \in Workers, IInv, GiveUp(w)
    PROVE  IInv'
<1>1. TypeOK'
  BY PoolConstants DEF GiveUp, Unanswered, RecordFailure, TypeOK, IInv
<1>2. LockIsExclusive'
  BY DEF GiveUp, Unanswered, RecordFailure, LockIsExclusive, Running, TypeOK, IInv
<1>3. ItemsAreApart'
  BY DEF GiveUp, Unanswered, RecordFailure, ItemsAreApart, Unwritten, TypeOK, IInv
<1>4. WritesAreAnswers'
  BY DEF GiveUp, Unanswered, RecordFailure, ItemsAreApart, WritesAreAnswers, Unwritten, TypeOK,
     IInv
<1> QED
  BY <1>1, <1>2, <1>3, <1>4 DEF IInv

(* The outcome of an item changes while its worker holds it unwritten.       *)
LEMMA RefuseKeepsIInv ==
    ASSUME NEW w \in Workers, IInv, Refuse(w)
    PROVE  IInv'
<1>1. TypeOK'
  BY PoolConstants DEF Refuse, Unanswered, TypeOK, IInv
<1>2. LockIsExclusive'
  BY DEF Refuse, Unanswered, LockIsExclusive, Running, TypeOK, IInv
<1>3. ItemsAreApart'
  BY DEF Refuse, Unanswered, ItemsAreApart, Unwritten, TypeOK, IInv
<1>4. WritesAreAnswers'
  BY DEF Refuse, Unanswered, ItemsAreApart, WritesAreAnswers, Unwritten, TypeOK, IInv
<1> QED
  BY <1>1, <1>2, <1>3, <1>4 DEF IInv

(* The lock is free, hence no thread runs.                                   *)
LEMMA LockForWriteKeepsIInv ==
    ASSUME NEW w \in Workers, IInv, LockForWrite(w)
    PROVE  IInv'
<1>1. TypeOK'
  BY DEF LockForWrite, TypeOK, IInv
<1>2. LockIsExclusive'
  BY DEF LockForWrite, LockFree, LockIsExclusive, Running, TypeOK, IInv
<1>3. ItemsAreApart'
  BY DEF LockForWrite, ItemsAreApart, Unwritten, TypeOK, IInv
<1>4. WritesAreAnswers'
  BY DEF LockForWrite, WritesAreAnswers, TypeOK, IInv
<1> QED
  BY <1>1, <1>2, <1>3, <1>4 DEF IInv

(* The outcome of the item is written under the lock, which a commit keeps.  *)
LEMMA WriteEndsKeepsIInv ==
    ASSUME NEW w \in Workers, IInv, WriteEnds(w)
    PROVE  IInv'
<1>1. TypeOK'
  <2>1. open' \in [Items -> Outcomes]
    BY DEF WriteEnds, Written, Writes, Effect, TypeOK, IInv
  <2>2. done' \in Nat
    BY DEF WriteEnds, TypeOK, IInv
  <2>3. pc' \in [Workers -> PCs] /\ thread' \in [Workers -> Threads]
    BY DEF WriteEnds, TypeOK, IInv
  <2> QED
    BY <2>1, <2>2, <2>3 DEF WriteEnds, TypeOK, IInv
<1>2. LockIsExclusive'
  BY DEF WriteEnds, Written, Writes, Effect, LockIsExclusive, Running, TypeOK, IInv, Ended
<1>3. ItemsAreApart'
  BY DEF WriteEnds, Written, Writes, Effect, ItemsAreApart, Unwritten, TypeOK, IInv
<1>4. WritesAreAnswers'
  BY DEF WriteEnds, Written, Writes, Effect, LockIsExclusive, ItemsAreApart, WritesAreAnswers,
     Unwritten, Running, TypeOK, IInv
<1> QED
  BY <1>1, <1>2, <1>3, <1>4 DEF IInv

(* What was written becomes what the base says.                              *)
LEMMA CommitEndsKeepsIInv ==
    ASSUME NEW w \in Workers, IInv, CommitEnds(w)
    PROVE  IInv'
<1>1. TypeOK'
  BY DEF CommitEnds, Committing, Merged, Nothing, TypeOK, IInv
<1>2. LockIsExclusive'
  BY DEF CommitEnds, Committing, Merged, LockIsExclusive, Running, TypeOK, IInv, Ended
<1>3. ItemsAreApart'
  BY DEF CommitEnds, Committing, Merged, Nothing, ItemsAreApart, Unwritten, TypeOK, IInv
<1>4. WritesAreAnswers'
  BY DEF CommitEnds, Committing, Merged, Nothing, WritesAreAnswers, TypeOK, IInv
<1> QED
  BY <1>1, <1>2, <1>3, <1>4 DEF IInv

(* The worker drops its item.                                                *)
LEMMA FetchRaisesKeepsIInv ==
    ASSUME NEW w \in Workers, IInv, FetchRaises(w)
    PROVE  IInv'
<1>1. TypeOK'
  BY PoolConstants DEF FetchRaises, WorkerEnds, TypeOK, IInv
<1>2. LockIsExclusive'
  BY DEF FetchRaises, WorkerEnds, LockIsExclusive, Running, TypeOK, IInv
<1>3. ItemsAreApart'
  BY DEF FetchRaises, WorkerEnds, ItemsAreApart, Unwritten, TypeOK, IInv
<1>4. WritesAreAnswers'
  BY DEF FetchRaises, WorkerEnds, WritesAreAnswers, TypeOK, IInv
<1> QED
  BY <1>1, <1>2, <1>3, <1>4 DEF IInv

(* The worker drops its item, written or not, and the lock.                  *)
LEMMA CallRaisesKeepsIInv ==
    ASSUME NEW w \in Workers, IInv, CallRaises(w)
    PROVE  IInv'
<1>1. TypeOK'
  <2>1. open' \in [Items -> Outcomes]
    BY DEF CallRaises, Written, Writes, Effect, TypeOK, IInv
  <2>2. stops' \in 0 .. MaxStops
    BY PoolConstants DEF CallRaises, TypeOK, IInv
  <2>3. aborted' \in BOOLEAN
    BY DEF CallRaises, TypeOK, IInv
  <2>4. pc' \in [Workers -> PCs] /\ thread' \in [Workers -> Threads] /\ phase' \in Phases
    BY DEF CallRaises, WorkerEnds, TypeOK, IInv
  <2> QED
    BY <2>1, <2>2, <2>3, <2>4 DEF CallRaises, TypeOK, IInv
<1>2. LockIsExclusive'
  BY DEF CallRaises, WorkerEnds, UsesBase, Written, Writes, Effect, LockIsExclusive, Running,
     TypeOK, IInv
<1>3. ItemsAreApart'
  BY DEF CallRaises, WorkerEnds, UsesBase, Written, Writes, Effect, ItemsAreApart, Unwritten,
     TypeOK, IInv
<1>4. WritesAreAnswers'
  BY DEF CallRaises, WorkerEnds, UsesBase, Written, Writes, Effect, WritesAreAnswers, TypeOK,
     IInv
<1> QED
  BY <1>1, <1>2, <1>3, <1>4 DEF IInv

(* The thread of a cancelled worker is the only one that uses the connection.*)
LEMMA ThreadEndsKeepsIInv ==
    ASSUME NEW w \in Workers, IInv, ThreadEnds(w)
    PROVE  IInv'
<1>1. TypeOK'
  <2>1. open' \in [Items -> Outcomes]
    BY DEF ThreadEnds, Written, Writes, Effect, Committing, Nothing, TypeOK, IInv
  <2>2. committed' \in [Items -> Outcomes]
    BY DEF ThreadEnds, Committing, Merged, TypeOK, IInv
  <2>3. aborted' \in BOOLEAN
    BY DEF ThreadEnds, Committing, TypeOK, IInv
  <2>4. thread' \in [Workers -> Threads]
    BY DEF ThreadEnds, TypeOK, IInv
  <2> QED
    BY <2>1, <2>2, <2>3, <2>4 DEF ThreadEnds, TypeOK, IInv
<1>2. LockIsExclusive'
  BY DEF ThreadEnds, Written, Writes, Effect, Committing, Merged, LockIsExclusive, Running,
     TypeOK, IInv
<1>3. ItemsAreApart'
  BY DEF ThreadEnds, Written, Writes, Effect, Committing, Merged, Nothing, LockIsExclusive,
     ItemsAreApart, Unwritten, Running, TypeOK, IInv, Ended
<1>4. WritesAreAnswers'
  BY DEF ThreadEnds, Written, Writes, Effect, Committing, Merged, Nothing, WritesAreAnswers,
     TypeOK, IInv
<1> QED
  BY <1>1, <1>2, <1>3, <1>4 DEF IInv

(* The thread that ran still runs, its item is not given to another worker.  *)
LEMMA CancelKeepsIInv ==
    ASSUME IInv, Cancel
    PROVE  IInv'
<1>1. TypeOK'
  BY PoolConstants DEF Cancel, Ended, TypeOK, IInv
<1>2. LockIsExclusive'
  BY DEF Cancel, Ended, LockIsExclusive, TypeOK, IInv
<1>3. ItemsAreApart'
  BY DEF Cancel, Ended, ItemsAreApart, Unwritten, TypeOK, IInv
<1>4. WritesAreAnswers'
  BY DEF Cancel, WritesAreAnswers, TypeOK, IInv
<1> QED
  BY <1>1, <1>2, <1>3, <1>4 DEF IInv

(* No thread is left.                                                        *)
LEMMA RollbackKeepsIInv ==
    ASSUME IInv, Rollback
    PROVE  IInv'
<1>1. TypeOK'
  BY DEF Rollback, Nothing, Idle, TypeOK, IInv
<1>2. LockIsExclusive'
  BY DEF Rollback, Idle, LockIsExclusive, Running, TypeOK, IInv
<1>3. ItemsAreApart'
  BY DEF Rollback, Idle, Ended, LockIsExclusive, ItemsAreApart, Unwritten, Running, TypeOK, IInv
<1>4. WritesAreAnswers'
  BY DEF Rollback, Nothing, Idle, WritesAreAnswers, TypeOK, IInv
<1> QED
  BY <1>1, <1>2, <1>3, <1>4 DEF IInv

(* Every worker has released the lock, so no thread runs.                    *)
LEMMA AllEndedKeepsIInv ==
    ASSUME IInv, AllEnded
    PROVE  IInv'
<1>1. TypeOK'
  BY DEF AllEnded, TypeOK, IInv
<1>2. LockIsExclusive'
  BY DEF AllEnded, Ended, LockIsExclusive, TypeOK, IInv
<1>3. ItemsAreApart'
  BY DEF AllEnded, ItemsAreApart, Unwritten, TypeOK, IInv
<1>4. WritesAreAnswers'
  BY DEF AllEnded, WritesAreAnswers, TypeOK, IInv
<1> QED
  BY <1>1, <1>2, <1>3, <1>4 DEF IInv

(* What was written becomes what the base says.                              *)
LEMMA ReturnKeepsIInv ==
    ASSUME IInv, Return
    PROVE  IInv'
<1>1. TypeOK'
  BY DEF Return, FinalCommit, Committing, Merged, Nothing, TypeOK, IInv
<1>2. LockIsExclusive'
  BY DEF Return, FinalCommit, Committing, Merged, LockIsExclusive, Running, TypeOK, IInv
<1>3. ItemsAreApart'
  BY DEF Return, FinalCommit, Committing, Merged, Nothing, ItemsAreApart, Unwritten, TypeOK,
     IInv
<1>4. WritesAreAnswers'
  BY DEF Return, FinalCommit, Committing, Merged, Nothing, WritesAreAnswers, TypeOK, IInv
<1> QED
  BY <1>1, <1>2, <1>3, <1>4 DEF IInv

(* Coroutines, threads and the open transaction are gone.                    *)
LEMMA CrashKeepsIInv ==
    ASSUME IInv, Crash
    PROVE  IInv'
<1>1. TypeOK'
  <2>1. committed' \in [Items -> Outcomes]
    BY DEF Crash, Merged, TypeOK, IInv
  <2>2. open' \in [Items -> Outcomes] /\ pc' \in [Workers -> PCs] /\ thread' \in [Workers -> Threads]
    BY DEF Crash, Nothing, Ended, Idle, TypeOK, IInv
  <2>3. stops' \in 0 .. MaxStops
    BY PoolConstants DEF Crash, TypeOK, IInv
  <2> QED
    BY <2>1, <2>2, <2>3 DEF Crash, TypeOK, IInv
<1>2. LockIsExclusive'
  BY DEF Crash, Merged, Ended, Idle, LockIsExclusive, TypeOK, IInv
<1>3. ItemsAreApart'
  BY DEF Crash, Merged, Ended, Idle, ItemsAreApart, Unwritten, TypeOK, IInv
<1>4. WritesAreAnswers'
  BY DEF Crash, Merged, Nothing, Idle, WritesAreAnswers, TypeOK, IInv
<1> QED
  BY <1>1, <1>2, <1>3, <1>4 DEF IInv

(* One step for each action; the steps of a worker by the lemmas above.      *)
LEMMA NextPreservesIInv ==
    ASSUME IInv, [Next]_vars
    PROVE  IInv'
<1>1. CASE Start
  BY <1>1, StartKeepsIInv
<1>2. CASE Cancel
  BY <1>2, CancelKeepsIInv
<1>3. CASE Rollback
  BY <1>3, RollbackKeepsIInv
<1>4. CASE AllEnded
  BY <1>4, AllEndedKeepsIInv
<1>5. CASE Return
  BY <1>5, ReturnKeepsIInv
<1>6. CASE Crash
  BY <1>6, CrashKeepsIInv
<1>7. ASSUME NEW w \in Workers, Step(w)
      PROVE  IInv'
  BY <1>7, TakeKeepsIInv, NoneLeftKeepsIInv, PrepareKeepsIInv, PreparedKeepsIInv,
     AnswerKeepsIInv, RetryKeepsIInv, GiveUpKeepsIInv, RefuseKeepsIInv, LockForWriteKeepsIInv,
     WriteEndsKeepsIInv, CommitEndsKeepsIInv, FetchRaisesKeepsIInv, CallRaisesKeepsIInv,
     ThreadEndsKeepsIInv DEF Step
<1>8. CASE UNCHANGED vars
  BY <1>8 DEF vars, IInv, TypeOK, LockIsExclusive, ItemsAreApart, WritesAreAnswers, Unwritten,
     Running
<1> QED
  BY <1>1, <1>2, <1>3, <1>4, <1>5, <1>6, <1>7, <1>8 DEF Next

------------------------------------------------------------------------------
(* Every reachable state satisfies the invariant.                            *)
THEOREM IInvIsInvariant == Spec => []IInv
BY InitEstablishesIInv, NextPreservesIInv, PTL DEF Spec

(* The state of the pool has its type.                                       *)
THEOREM TypeCorrect == Spec => []TypeOK
<1>1. IInv => TypeOK
  BY DEF IInv
<1> QED
  BY IInvIsInvariant, <1>1, PTL

(* The connection is never used by two threads, also while cancelled workers *)
(* leave threads behind them.                                                *)
THEOREM ConnectionHasOneThread == Spec => []OneThreadOnConnection
<1>1. IInv => OneThreadOnConnection
  BY DEF IInv, TypeOK, LockIsExclusive, OneThreadOnConnection, Running, Idle
<1> QED
  BY IInvIsInvariant, <1>1, PTL

(* The database says of an item what the source answered, or nothing.        *)
THEOREM OnlyAnswersAreRecorded == Spec => []RecordedIsAnswered
<1>1. IInv => RecordedIsAnswered
  BY DEF IInv, WritesAreAnswers, RecordedIsAnswered
<1> QED
  BY IInvIsInvariant, <1>1, PTL

(* A tripped breaker lets no request begin.                                  *)
THEOREM TrippedMeansNoRequest == Spec => NoRequestOnceTripped
<1>1. ASSUME IInv, [Next]_vars, NEW w \in Workers, tripped, tripped', pc'[w] = "fetching"
      PROVE  pc[w] = "fetching"
  <2>1. CASE Start \/ Cancel \/ Rollback \/ AllEnded \/ Return \/ Crash
    BY <1>1, <2>1 DEF Start, FreshBreaker, Cancel, Rollback, AllEnded, Return, Crash, Ended
  <2>2. ASSUME NEW v \in Workers, Step(v)
        PROVE  pc[w] = "fetching"
    BY <1>1, <2>2 DEF Step, Take, NoneLeft, Prepare, LockForPrepare, Prepared, BeginFetch,
       Answer, Retry, GiveUp, RecordFailure, Refuse, Unanswered, LockForWrite, WriteEnds,
       CommitEnds, FetchRaises, CallRaises, WorkerEnds, ThreadEnds, IInv, TypeOK
  <2>3. CASE UNCHANGED vars
    BY <1>1, <2>3 DEF vars
  <2> QED
    BY <1>1, <2>1, <2>2, <2>3 DEF Next
<1>2. IInv /\ [Next]_vars
      => [\A w \in Workers : tripped /\ tripped' /\ pc'[w] = "fetching" => pc[w] = "fetching"]_vars
  BY <1>1
<1> QED
  BY IInvIsInvariant, <1>2, PTL DEF Spec, NoRequestOnceTripped

------------------------------------------------------------------------------
(* Nothing is forgotten by a pool that returns                               *)

(* Before the first run nothing was asked.                                   *)
LEMMA InitForgetsNone == Init => NoneForgotten /\ ReturnedIsComplete
BY DEF Init, NoneForgotten, ReturnedIsComplete, Idle, Ended

(* A step of a run without exception moves an item from one place to the     *)
(* next; a run with one is not bound to anything.                            *)
LEMMA NextForgetsNone ==
    ASSUME IInv, NoneForgotten, ReturnedIsComplete, [Next]_vars
    PROVE  NoneForgotten'
<1>1. CASE Start
  BY <1>1 DEF Start, Pending, NoItems, FreshBreaker, NoneForgotten, LockIsExclusive, Running,
     TypeOK, IInv
<1>2. ASSUME NEW w \in Workers, Take(w)
      PROVE  NoneForgotten'
  BY <1>2 DEF Take, NoneForgotten, ItemsAreApart, LockIsExclusive, Unwritten, Running, TypeOK,
     IInv
<1>3. ASSUME NEW w \in Workers, NoneLeft(w)
      PROVE  NoneForgotten'
  BY <1>3 DEF NoneLeft, NoneForgotten, Unwritten, TypeOK, IInv
<1>4. ASSUME NEW w \in Workers, Prepare(w)
      PROVE  NoneForgotten'
  BY <1>4 DEF Prepare, LockForPrepare, NoneForgotten, Unwritten, TypeOK, IInv
<1>5. ASSUME NEW w \in Workers, Prepared(w)
      PROVE  NoneForgotten'
  BY <1>5 DEF Prepared, BeginFetch, NoneForgotten, Unwritten, TypeOK, IInv
<1>6. ASSUME NEW w \in Workers, Answer(w)
      PROVE  NoneForgotten'
  BY <1>6 DEF Answer, NoneForgotten, Unwritten, TypeOK, IInv
<1>7. ASSUME NEW w \in Workers, Retry(w)
      PROVE  NoneForgotten'
  BY <1>7 DEF Retry, NoneForgotten, Unwritten, TypeOK, IInv
<1>8. ASSUME NEW w \in Workers, GiveUp(w)
      PROVE  NoneForgotten'
  BY <1>8 DEF GiveUp, Unanswered, RecordFailure, NoneForgotten, Unwritten, TypeOK, IInv
<1>9. ASSUME NEW w \in Workers, Refuse(w)
      PROVE  NoneForgotten'
  BY <1>9 DEF Refuse, Unanswered, NoneForgotten, Unwritten, TypeOK, IInv
<1>10. ASSUME NEW w \in Workers, LockForWrite(w)
      PROVE  NoneForgotten'
  BY <1>10 DEF LockForWrite, NoneForgotten, Unwritten, TypeOK, IInv
<1>11. ASSUME NEW w \in Workers, WriteEnds(w)
      PROVE  NoneForgotten'
  BY <1>11 DEF WriteEnds, Written, Writes, Effect, NoneForgotten, Unwritten, TypeOK, IInv
<1>12. ASSUME NEW w \in Workers, CommitEnds(w)
      PROVE  NoneForgotten'
  BY <1>12 DEF CommitEnds, Committing, Merged, NoneForgotten, Unwritten, TypeOK, IInv
<1>13. ASSUME NEW w \in Workers, FetchRaises(w)
      PROVE  NoneForgotten'
  BY <1>13 DEF FetchRaises, WorkerEnds, NoneForgotten, TypeOK, IInv
<1>14. ASSUME NEW w \in Workers, CallRaises(w)
      PROVE  NoneForgotten'
  BY <1>14 DEF CallRaises, WorkerEnds, UsesBase, Written, Writes, Effect, NoneForgotten, TypeOK,
     IInv
<1>15. ASSUME NEW w \in Workers, ThreadEnds(w)
      PROVE  NoneForgotten'
  BY <1>15 DEF ThreadEnds, Written, Writes, Effect, Committing, Merged, NoneForgotten, TypeOK,
     IInv
<1>16. CASE Cancel
  BY <1>16 DEF Cancel, Ended, NoneForgotten, TypeOK, IInv
<1>17. CASE Rollback
  BY <1>17 DEF Rollback, Idle, NoneForgotten, TypeOK, IInv
<1>18. CASE AllEnded
  BY <1>18 DEF AllEnded, NoneForgotten, Unwritten, TypeOK, IInv
<1>19. CASE Return
  BY <1>19 DEF Return, FinalCommit, Committing, Merged, NoneForgotten, TypeOK, IInv
<1>20. CASE Crash
  BY <1>20 DEF Crash, Merged, Ended, Idle, NoneForgotten, TypeOK, IInv
<1>21. CASE UNCHANGED vars
  BY <1>21 DEF vars, NoneForgotten, Unwritten
<1> QED
  BY <1>1, <1>2, <1>3, <1>4, <1>5, <1>6, <1>7, <1>8, <1>9, <1>10, <1>11, <1>12, <1>13, <1>14,
     <1>15, <1>16, <1>17, <1>18, <1>19, <1>20, <1>21 DEF Next, Step

(* A pool returns from a state where no worker holds anything.               *)
LEMMA NextReturnsComplete ==
    ASSUME IInv, NoneForgotten, ReturnedIsComplete, [Next]_vars
    PROVE  ReturnedIsComplete'
<1>1. CASE Return
  <2>1. \A w \in Workers : pc[w] = "ended" /\ ~Unwritten(w)
    BY <1>1 DEF Return, Unwritten, LockIsExclusive, Running, Ended, TypeOK, IInv
  <2>2. todo # {} => tripped
    BY <1>1, <2>1, PoolConstants DEF Return, NoneForgotten
  <2>3. ASSUME NEW i \in Items
        PROVE  \/ committed[i] # None \/ open[i] # None \/ reply[i] = Unavailable
               \/ (reply[i] = None /\ tripped)
    BY <1>1, <2>1, <2>2 DEF Return, NoneForgotten, ItemsAreApart, IInv
  <2>4. committed' = Merged /\ UNCHANGED <<reply, tripped>>
    BY <1>1 DEF Return, FinalCommit, Committing, NoneForgotten
  <2> QED
    BY <2>3, <2>4 DEF ReturnedIsComplete, Merged
<1>2. CASE phase' # "returned"
  BY <1>2 DEF ReturnedIsComplete
<1>3. CASE phase' = "returned" /\ ~Return
  <2>1. UNCHANGED <<committed, reply, tripped, phase>>
    BY <1>3 DEF Next, Start, Cancel, Rollback, AllEnded, Crash, Step, Take, NoneLeft, Prepare,
       LockForPrepare, Prepared, BeginFetch, Answer, Retry, GiveUp, RecordFailure, Refuse,
       Unanswered, LockForWrite, WriteEnds, CommitEnds, FetchRaises, CallRaises, WorkerEnds,
       ThreadEnds, LockIsExclusive, Running, IInv, TypeOK, vars
  <2> QED
    BY <1>3, <2>1 DEF ReturnedIsComplete
<1> QED
  BY <1>1, <1>2, <1>3

(* A pool that returns has committed every answer it had.                    *)
THEOREM ReturnsAreComplete == Spec => []ReturnedIsComplete
<1>1. Init => NoneForgotten /\ ReturnedIsComplete
  BY InitForgetsNone
<1>2. IInv /\ NoneForgotten /\ ReturnedIsComplete /\ [Next]_vars
      => NoneForgotten' /\ ReturnedIsComplete'
  BY NextForgetsNone, NextReturnsComplete
<1> QED
  BY IInvIsInvariant, <1>1, <1>2, PTL DEF Spec

------------------------------------------------------------------------------
(* What a crash loses                                                        *)

(* A multiple of b between -b and b, excluded, is zero.                      *)
LEMMA SmallMultipleIsZero ==
    ASSUME NEW b \in Nat \ {0}, NEW k \in Int, b * k < b, -b < b * k
    PROVE  k = 0
<1>1. CASE k >= 1
  <2>1. b * k >= b
    BY <1>1
  <2> QED
    BY <2>1
<1>2. CASE k <= -1
  <2>1. b * k <= -b
    BY <1>2
  <2> QED
    BY <2>1
<1> QED
  BY <1>1, <1>2

LEMMA RemainderIsBounded ==
    ASSUME NEW a \in Nat, NEW b \in Nat \ {0}
    PROVE  a % b \in 0 .. b - 1
OBVIOUS

(* The remainder of the next number is the next remainder, or zero.          *)
LEMMA NextRemainder ==
    ASSUME NEW a \in Nat, NEW b \in Nat \ {0}, (a + 1) % b # 0
    PROVE  (a + 1) % b = (a % b) + 1
<1> DEFINE q == a \div b
           r == a % b
           nextQ == (a + 1) \div b
           nextR == (a + 1) % b
<1>1. a = b * q + r /\ q \in Nat /\ r \in 0 .. b - 1
  OBVIOUS
<1>2. a + 1 = b * nextQ + nextR /\ nextQ \in Nat /\ nextR \in 1 .. b - 1
  OBVIOUS
<1> HIDE DEF q, r, nextQ, nextR
<1>3. b * (nextQ - q) = b * nextQ - b * q /\ b * nextQ \in Int /\ b * q \in Int
  BY <1>1, <1>2
<1>4. b * nextQ - b * q < b /\ -b < b * nextQ - b * q
  BY <1>1, <1>2, <1>3
<1>5. nextQ - q = 0
  <2> DEFINE k == nextQ - q
  <2>1. k \in Int /\ b * k < b /\ -b < b * k
    BY <1>1, <1>2, <1>3, <1>4
  <2> HIDE DEF k
  <2>2. k = 0
    BY <2>1, SmallMultipleIsZero
  <2> QED
    BY <2>2 DEF k
<1>6. nextR = r + 1
  BY <1>1, <1>2, <1>3, <1>5
<1> QED
  BY <1>6 DEF r, nextR

LEMMA OneMoreElement ==
    ASSUME NEW S, IsFiniteSet(S), NEW x, NEW T, T \subseteq S \cup {x}
    PROVE  IsFiniteSet(T) /\ Cardinality(T) <= Cardinality(S) + 1
<1>1. IsFiniteSet(S \cup {x}) /\ Cardinality(S) \in Nat
  BY FS_AddElement, FS_CardinalityType
<1>2. Cardinality(S \cup {x}) = IF x \in S THEN Cardinality(S) ELSE Cardinality(S) + 1
  BY FS_AddElement
<1>3. IsFiniteSet(T) /\ Cardinality(T) <= Cardinality(S \cup {x})
  BY <1>1, FS_Subset
<1> QED
  BY <1>1, <1>2, <1>3, FS_CardinalityType

(* A write adds one item at most, and the count moves by one.                *)
LEMMA WriteEndsKeepsCount ==
    ASSUME NEW w \in Workers, IInv, OpenIsCounted, WriteEnds(w)
    PROVE  OpenIsCounted'
<1> USE DEF IInv, TypeOK
<1> SUFFICES ASSUME phase' = "running", \A v \in Workers : thread'[v] # "commit"
             PROVE  IsFiniteSet(Open') /\ Cardinality(Open') <= done' % CommitEvery
  BY DEF OpenIsCounted
<1>1. \A v \in Workers : thread[v] # "commit"
  BY DEF WriteEnds, LockIsExclusive
<1>2. IsFiniteSet(Open) /\ Cardinality(Open) <= done % CommitEvery
  BY <1>1 DEF OpenIsCounted, WriteEnds
<1>3. Open' \subseteq Open \cup {item[w]}
  BY DEF Open, WriteEnds, Written
<1>4. IsFiniteSet(Open') /\ Cardinality(Open') <= Cardinality(Open) + 1
  BY <1>2, <1>3, OneMoreElement
<1>5. Cardinality(Open) \in Nat /\ Cardinality(Open') \in Nat
  BY <1>2, <1>4, FS_CardinalityType
<1>6. done' % CommitEvery = (done % CommitEvery) + 1
  <2>1. (done + 1) % CommitEvery # 0 /\ done' = done + 1
    BY DEF WriteEnds, CommitDue
  <2> QED
    BY <2>1, NextRemainder, PoolConstants
<1>7. done % CommitEvery \in Nat
  BY RemainderIsBounded, PoolConstants
<1> QED
  BY <1>2, <1>4, <1>5, <1>6, <1>7

(* A run starts with an empty transaction, a commit empties it, nothing else *)
(* writes in a run that has not raised.                                      *)
LEMMA NextKeepsCount ==
    ASSUME IInv, OpenIsCounted, [Next]_vars
    PROVE  OpenIsCounted'
<1> USE DEF IInv, TypeOK
<1>0. ASSUME Open' = {}, done' \in Nat PROVE OpenIsCounted'
  <2>1. IsFiniteSet(Open') /\ Cardinality(Open') = 0
    BY <1>0, FS_EmptySet
  <2>2. done' % CommitEvery \in 0 .. CommitEvery - 1
    BY <1>0, RemainderIsBounded, PoolConstants
  <2> QED
    BY <2>1, <2>2, PoolConstants DEF OpenIsCounted
<1>1. CASE Start
  <2>1. Open' = {} /\ done' \in Nat
    BY <1>1 DEF Start, Open, WritesAreAnswers, Nothing
  <2> QED
    BY <1>0, <2>1
<1>2. ASSUME NEW w \in Workers, WriteEnds(w) PROVE OpenIsCounted'
  BY <1>2, WriteEndsKeepsCount
<1>3. ASSUME NEW w \in Workers, CommitEnds(w) PROVE OpenIsCounted'
  <2>1. Open' = {} /\ done' \in Nat
    BY <1>3 DEF CommitEnds, Committing, Open, Nothing
  <2> QED
    BY <1>0, <2>1
<1>4. ASSUME UNCHANGED <<open, done>>, phase' = "running" => phase = "running",
             \A w \in Workers : thread[w] = "commit" => thread'[w] = "commit"
      PROVE  OpenIsCounted'
  <2>1. Open' = Open
    BY <1>4 DEF Open
  <2> QED
    BY <1>4, <2>1 DEF OpenIsCounted
<1>5. ASSUME NEW w \in Workers,
             \/ Take(w) \/ NoneLeft(w) \/ Prepare(w) \/ Prepared(w)
             \/ Answer(w) \/ Retry(w) \/ GiveUp(w) \/ Refuse(w) \/ LockForWrite(w)
      PROVE  OpenIsCounted'
  <2>1. UNCHANGED <<open, done, phase>>
    BY <1>5 DEF Take, NoneLeft, Prepare, Prepared, Answer, Retry, GiveUp, Refuse, LockForWrite
  <2>2. \A v \in Workers : thread[v] = "commit" => thread'[v] = "commit"
    <3>1. CASE Prepare(w) \/ LockForWrite(w)
      <4>1. thread[w] # "commit"
        BY <3>1 DEF Prepare, LockForPrepare, LockForWrite, LockFree, LockIsExclusive, Running
      <4> QED
        BY <3>1, <4>1 DEF Prepare, LockForPrepare, LockForWrite
    <3>2. CASE Prepared(w)
      BY <3>2 DEF Prepared
    <3>3. CASE \/ Take(w) \/ NoneLeft(w) \/ Answer(w) \/ Retry(w) \/ GiveUp(w) \/ Refuse(w)
      BY <3>3 DEF Take, NoneLeft, Answer, Retry, GiveUp, Refuse
    <3> QED
      BY <1>5, <3>1, <3>2, <3>3
  <2> QED
    BY <1>4, <2>1, <2>2
<1>6. ASSUME phase' # "running" PROVE OpenIsCounted'
  BY <1>6 DEF OpenIsCounted
<1>7. ASSUME NEW w \in Workers, FetchRaises(w) \/ CallRaises(w) \/ ThreadEnds(w)
      PROVE  OpenIsCounted'
  <2>1. phase' # "running"
    BY <1>7 DEF FetchRaises, CallRaises, ThreadEnds, WorkerEnds
  <2> QED
    BY <1>6, <2>1
<1>8. CASE Cancel \/ Rollback \/ AllEnded \/ Return \/ Crash
  <2>1. phase' # "running"
    BY <1>8 DEF Cancel, Rollback, AllEnded, Return, Crash
  <2> QED
    BY <1>6, <2>1
<1>9. CASE UNCHANGED vars
  BY <1>4, <1>9 DEF vars
<1> QED
  BY <1>1, <1>2, <1>3, <1>5, <1>7, <1>8, <1>9 DEF Next, Step

(* When no worker is inside the lock no commit is under way, and fewer items *)
(* than the interval between two commits are written and not committed.      *)
THEOREM LossStaysBounded == Spec => []LossIsBounded
<1>1. Init => OpenIsCounted
  BY DEF Init, OpenIsCounted
<1>2. IInv /\ OpenIsCounted /\ [Next]_vars => OpenIsCounted'
  BY NextKeepsCount
<1>3. IInv /\ OpenIsCounted => LossIsBounded
  <2> SUFFICES ASSUME IInv, OpenIsCounted, phase = "running", LockFree
               PROVE  Cardinality(Open) < CommitEvery
    BY DEF LossIsBounded, Open
  <2>1. \A w \in Workers : thread[w] # "commit"
    BY DEF IInv, LockIsExclusive, LockFree
  <2>2. IsFiniteSet(Open) /\ Cardinality(Open) <= done % CommitEvery
    BY <2>1 DEF OpenIsCounted
  <2>3. Cardinality(Open) \in Nat /\ done % CommitEvery \in 0 .. CommitEvery - 1
    BY <2>2, FS_CardinalityType, RemainderIsBounded, PoolConstants DEF IInv, TypeOK
  <2> QED
    BY <2>2, <2>3, PoolConstants
<1> QED
  BY IInvIsInvariant, <1>1, <1>2, <1>3, PTL DEF Spec
==============================================================================

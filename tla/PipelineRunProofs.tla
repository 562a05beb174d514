-------------------------- MODULE PipelineRunProofs ---------------------------
(***************************************************************************)
(* Theorems on PipelineRun, for all phases, tasks and options.             *)
(***************************************************************************)
EXTENDS PipelineRun, FiniteSetTheorems, WellFoundedInduction, TLAPS

Holding == {"ready", "waiting", "failing"}

(* A process that runs has options, and threads only once a block started. *)
RunsHaveOptions ==
    \A p \in Launches :
        /\ pc[p] # "off" => options[p] \in Options
        /\ live[p] # {} => pc[p] \in {"waiting", "failing", "leaving"}

(* The lock is held for as long as main has not left its block.            *)
LockIsHeld == \A p \in Launches : lock = p <=> pc[p] \in Holding

IInv == TypeOK /\ RunsHaveOptions /\ LockIsHeld

(* A daily harvest without a signal has received, or has still to receive, *)
(* the changes made before its phase started, but those already behind.    *)
HarvestIsComplete ==
    \A p \in Launches :
        /\ pc[p] = "waiting" /\ Blocks[at[p]].phase = PhaseOf(Hal)
        /\ options[p].daily /\ ~ signalled[p]
        => \A d \in Asked(options[p]) \ behind :
              changed[d] # None =>
                  \/ Hal \in live[p] /\ d \in fetching[p]
                  \/ changed[d] >= started[p]

------------------------------------------------------------------------------
(* Phases                                                                  *)

(* A non-empty set of naturals has a smallest member: of the intervals     *)
(* 0..x, x in the set, one includes no other one strictly.                 *)
LEMMA SmallestExists ==
  ASSUME NEW S, S \subseteq Nat, S # {}
  PROVE  \E x \in S : \A y \in S : x <= y
<1> DEFINE Below == {0..x : x \in S}
<1>1. Below \subseteq FiniteSubsetsOf(Nat)
  <2>1. ASSUME NEW x \in S PROVE IsFiniteSet(0..x) /\ 0..x \subseteq Nat
    BY <2>1, FS_Interval
  <2> QED
    BY <2>1 DEF FiniteSubsetsOf
<1>2. \E T \in Below : \A U \in Below : ~ <<U, T>> \in StrictSubsetOrdering(Nat)
  <2>1. Below # {}
    OBVIOUS
  <2>2. IsWellFoundedOn(StrictSubsetOrdering(Nat), FiniteSubsetsOf(Nat))
    BY FS_StrictSubsetOrderingWellFounded
  <2> HIDE DEF Below
  <2> QED
    BY <1>1, <2>1, <2>2, WFMin
<1>3. PICK x \in S : \A y \in S : ~ <<0..y, 0..x>> \in StrictSubsetOrdering(Nat)
  BY <1>2
<1>4. ASSUME NEW y \in S PROVE x <= y
  <2> SUFFICES ASSUME y < x PROVE FALSE
    OBVIOUS
  <2>1. 0..y \subseteq 0..x /\ x \in 0..x /\ x \notin 0..y
    OBVIOUS
  <2>2. <<0..y, 0..x>> \in StrictSubsetOrdering(Nat)
    BY <2>1 DEF StrictSubsetOrdering
  <2> QED
    BY <1>3, <2>2
<1> QED
  BY <1>4

(* The blocks are numbered from 1; the last one is of the last phase.      *)
LEMMA BlocksAreNumbered ==
  /\ Numbers \subseteq Nat /\ 1 \in Numbers
  /\ \A i \in Numbers : Blocks[i].phase \in 0..LastPhase
<1>1. Cardinality(Numbers) \in Nat
  BY BlocksAssumption, FS_CardinalityType
<1>2. PICK i \in Numbers : Hal \in Blocks[i].tasks
  BY BlocksAssumption, BoundsAssumption
<1>3. 1 \in Numbers /\ Cardinality(Numbers) \in Numbers /\ Numbers \subseteq Nat
  BY <1>1, <1>2, BlocksAssumption
<1>4. \A j \in Numbers : j <= Cardinality(Numbers)
  BY <1>1, BlocksAssumption
<1>5. \A j \in Numbers : Blocks[j].phase \in Nat /\ Blocks[j].phase <= LastPhase
  BY <1>3, <1>4, BlocksAssumption DEF LastPhase
<1> QED
  BY <1>3, <1>5, BoundsAssumption

(* The block that follows another one is the first of those after it that  *)
(* are selected.                                                           *)
LEMMA AfterIsBlock ==
  ASSUME NEW o \in Options, NEW i \in Numbers
  PROVE  /\ After(o, i) # None =>
               /\ After(o, i) \in Numbers /\ i < After(o, i)
               /\ Blocks[After(o, i)].phase \in Selected(o)
         /\ \A j \in Numbers : j > i /\ Blocks[j].phase \in Selected(o)
               => After(o, i) # None /\ After(o, i) <= j
<1> DEFINE later == {j \in Numbers : j > i /\ Blocks[j].phase \in Selected(o)}
<1>1. None \notin Numbers
  <2>1. Numbers \subseteq Int
    BY BlocksAreNumbered
  <2>2. None \notin Int
    BY BoundsAssumption
  <2> QED
    BY <2>1, <2>2, Zenon
<1>2. CASE later = {}
  BY <1>2 DEF After
<1>3. CASE later # {}
  <2>1. \E j \in later : \A k \in later : j <= k
    BY <1>3, BlocksAreNumbered, SmallestExists
  <2>2. After(o, i) = CHOOSE j \in later : \A k \in later : j <= k
    BY <1>3, Zenon DEF After
  <2>3. After(o, i) \in later /\ \A k \in later : After(o, i) <= k
    <3> HIDE DEF later
    <3> QED
      BY <2>1, <2>2, Zenon
  <2> QED
    BY <1>1, <2>3
<1> QED
  BY <1>2, <1>3

(* The log names a phase, or nothing.                                      *)
LEMMA NamedIsPhase ==
  ASSUME NEW i \in Numbers, named \in 1..LastPhase + 1
  PROVE  Named(Blocks[i].phase) \in 1..LastPhase + 1
<1>1. LastPhase \in Nat \ {0} /\ Blocks[i].phase \in 0..LastPhase
  BY BlocksAreNumbered, BoundsAssumption
<1> QED
  BY <1>1 DEF Named

------------------------------------------------------------------------------
(* The inductive invariant: one step for each action                       *)

USE DEF process, tables, harvested, vars

LEMMA InitEstablishesIInv == Init => IInv
<1> SUFFICES ASSUME Init PROVE IInv
  OBVIOUS
<1>1. TypeOK
  BY BlocksAreNumbered, BoundsAssumption DEF Init, TypeOK
<1> QED
  BY <1>1, BoundsAssumption DEF Init, IInv, RunsHaveOptions, LockIsHeld, Holding

(* What is owed are dependencies; what nobody waited for, tasks.           *)
LEMMA OwedAreDependencies ==
  /\ \A t : Written(t) \subseteq Dependencies /\ Undone(t) \subseteq Dependencies
  /\ \A pairs, W : W \subseteq Tasks => Unread(pairs, W) \subseteq Tasks
  BY DEF Written, Undone, Unread

LEMMA OweKeepsTypes ==
  ASSUME TypeOK, NEW pairs \in SUBSET Dependencies, Owe(pairs)
  PROVE  owed' \subseteq Dependencies /\ aside' \subseteq owed'
  BY DEF TypeOK, Owe

LEMMA EndsKeepsTypes ==
  ASSUME TypeOK, NEW p \in Launches, NEW t \in live[p], NEW failed \in BOOLEAN, Ends(p, t, failed)
  PROVE  /\ live' \in [Launches -> SUBSET Tasks] /\ fetching' \in [Launches -> SUBSET Docs]
         /\ owed' \subseteq Dependencies /\ aside' \subseteq owed' /\ stray' \subseteq Tasks
         /\ \A q \in Launches : live[q]' \subseteq live[q]
<1>1. t \in Tasks
  BY DEF TypeOK
<1>2. owed' \subseteq Dependencies /\ aside' \subseteq owed'
  <2> DEFINE pairs == Written(t) \cup IF failed THEN Undone(t) ELSE {}
  <2>1. pairs \in SUBSET Dependencies /\ Owe(pairs)
    BY OwedAreDependencies DEF Ends
  <2> HIDE DEF pairs
  <2> QED
    BY <2>1, OweKeepsTypes
<1>3. stray' \subseteq Tasks
  BY <1>1, OwedAreDependencies DEF TypeOK, Ends
<1> QED
  BY <1>2, <1>3 DEF TypeOK, Ends

LEMMA ReleaseKeepsTypes ==
  ASSUME IInv, NEW p \in Launches, Release(p)
  PROVE  lock' \in Launches \cup {None} /\ named' \in 1..LastPhase + 1
<1>1. at[p] \in Numbers /\ named \in 1..LastPhase + 1
  BY DEF IInv, TypeOK
<1>2. Named(Blocks[at[p]].phase) \in 1..LastPhase + 1
  BY <1>1, NamedIsPhase
<1> QED
  BY <1>1, <1>2 DEF IInv, TypeOK, Release

LEMMA OffKeepsTypes ==
  ASSUME TypeOK, NEW p \in Launches, Off(p)
  PROVE  /\ pc' \in [Launches -> {"off", "ready", "waiting", "failing", "leaving"}]
         /\ options' \in [Launches -> Options \cup {None}] /\ at' \in [Launches -> Numbers]
         /\ started' \in [Launches -> 0..day] /\ signalled' \in [Launches -> BOOLEAN]
  BY BlocksAreNumbered DEF TypeOK, Off

(* An action of a run, of the source or of the calendar keeps it.          *)
LEMMA LaunchKeepsIInv ==
  ASSUME IInv, NEW p \in Launches, NEW o \in Options, Launch(p, o) PROVE IInv'
<1>1. TypeOK'
  BY BlocksAreNumbered DEF IInv, TypeOK, Launch
<1>2. RunsHaveOptions'
  BY DEF IInv, TypeOK, RunsHaveOptions, Launch
<1>3. LockIsHeld'
  BY BoundsAssumption DEF IInv, TypeOK, LockIsHeld, Holding, Launch
<1> QED
  BY <1>1, <1>2, <1>3 DEF IInv

LEMMA StartBlockKeepsIInv ==
  ASSUME IInv, NEW p \in Launches, StartBlock(p) PROVE IInv'
<1>1. options[p] \in Options /\ at[p] \in Numbers
  BY DEF IInv, TypeOK, RunsHaveOptions, StartBlock
<1>2. TasksOf(options[p], at[p]) \subseteq Tasks
  BY <1>1, BlocksAssumption DEF TasksOf
<1>3. Window(options[p]) \subseteq Docs
  BY <1>1, OptionsAssumption DEF Window, Asked
<1>4. owed' \subseteq Dependencies /\ aside' \subseteq owed' /\ behind' \subseteq Docs
  <2>1. TooOld(options[p]) \subseteq Docs
    BY <1>1, OptionsAssumption DEF TooOld, Asked
  <2> QED
    BY <2>1 DEF IInv, TypeOK, StartBlock
<1>5. stray' \subseteq Tasks
  BY OwedAreDependencies DEF IInv, TypeOK, StartBlock
<1>6. TypeOK'
  BY <1>2, <1>3, <1>4, <1>5 DEF IInv, TypeOK, StartBlock
<1>7. RunsHaveOptions'
  BY DEF IInv, TypeOK, RunsHaveOptions, StartBlock
<1>8. LockIsHeld'
  BY DEF IInv, TypeOK, LockIsHeld, Holding, StartBlock
<1> QED
  BY <1>6, <1>7, <1>8 DEF IInv

LEMMA FetchKeepsIInv ==
  ASSUME IInv, NEW p \in Launches, NEW d \in Docs, Fetch(p, d) \/ SkipYear(p, d) PROVE IInv'
<1>1. TypeOK'
  BY BoundsAssumption DEF IInv, TypeOK, Fetch, SkipYear
<1> QED
  BY <1>1 DEF IInv, TypeOK, RunsHaveOptions, LockIsHeld, Fetch, SkipYear

LEMMA TaskKeepsIInv ==
  ASSUME IInv, NEW p \in Launches, NEW t \in Tasks,
         TaskEnds(p, t) \/ TaskFails(p, t) \/ Unavailable(p)
  PROVE  IInv'
<1>1. PICK u \in live[p], failed \in BOOLEAN : Ends(p, u, failed)
  BY DEF TaskEnds, TaskFails, Unavailable
<1>2. TypeOK'
  <2>1. /\ live' \in [Launches -> SUBSET Tasks] /\ fetching' \in [Launches -> SUBSET Docs]
        /\ owed' \subseteq Dependencies /\ aside' \subseteq owed' /\ stray' \subseteq Tasks
    BY <1>1, EndsKeepsTypes DEF IInv
  <2>2. stops' \in 0..MaxStops
    <3>1. stops' = stops \/ (stops < MaxStops /\ stops' = stops + 1)
      BY DEF TaskEnds, TaskFails, Unavailable
    <3> QED
      BY <3>1, BoundsAssumption DEF IInv, TypeOK
  <2>3. /\ pc' \in [Launches -> {"off", "ready", "waiting", "failing", "leaving"}]
        /\ signalled' \in [Launches -> BOOLEAN]
    BY DEF IInv, TypeOK, TaskEnds, TaskFails, Unavailable
  <2>4. UNCHANGED <<lock, options, at, started, named, day, harvested>>
    BY DEF TaskEnds, TaskFails, Unavailable
  <2> QED
    BY <2>1, <2>2, <2>3, <2>4 DEF IInv, TypeOK
<1>3. RunsHaveOptions'
  BY <1>1, EndsKeepsTypes DEF IInv, TypeOK, RunsHaveOptions, TaskEnds, TaskFails, Unavailable
<1>4. LockIsHeld'
  BY DEF IInv, TypeOK, LockIsHeld, Holding, TaskEnds, TaskFails, Unavailable
<1> QED
  BY <1>2, <1>3, <1>4 DEF IInv

LEMMA BlockEndsKeepsIInv ==
  ASSUME IInv, NEW p \in Launches, NEW traced \in BOOLEAN, BlockEnds(p, traced) PROVE IInv'
<1> DEFINE next == After(options[p], at[p])
<1>1. options[p] \in Options /\ at[p] \in Numbers
  BY DEF IInv, TypeOK, RunsHaveOptions, BlockEnds
<1>2. next = None \/ next \in Numbers
  BY <1>1, AfterIsBlock
<1>3. /\ bound' \in (0..day) \cup {None} /\ behind' \subseteq Docs
      /\ owed' = owed /\ aside' \subseteq owed
  <2>1. LeftAside(options[p], next) \subseteq owed
    BY DEF LeftAside
  <2> QED
    BY <2>1 DEF IInv, TypeOK, BlockEnds, Recorded
<1>4. CASE next = None
  <2>1. LastPhase + 1 \in 1..LastPhase + 1
    BY BoundsAssumption
  <2>2. Off(p) /\ lock' = None /\ named' = LastPhase + 1
    BY <1>4 DEF BlockEnds
  <2>3. TypeOK'
    BY <1>3, <2>1, <2>2, OffKeepsTypes DEF IInv, TypeOK, BlockEnds
  <2>4. RunsHaveOptions'
    BY <2>2 DEF IInv, TypeOK, RunsHaveOptions, BlockEnds, Off
  <2>5. LockIsHeld'
    BY <2>2, BoundsAssumption DEF IInv, TypeOK, LockIsHeld, Holding, BlockEnds, Off
  <2> QED
    BY <2>3, <2>4, <2>5 DEF IInv
<1>5. CASE next # None
  <2>1. /\ pc' = [pc EXCEPT ![p] = "ready"] /\ at' = [at EXCEPT ![p] = next]
        /\ UNCHANGED <<options, lock, named, live, fetching, owed, stray, day, changed, stops>>
        /\ pc[p] = "waiting" /\ live[p] = {}
        /\ started' \in {started, [started EXCEPT ![p] = day]}
        /\ signalled' \in {signalled, [signalled EXCEPT ![p] = FALSE]}
    BY <1>5 DEF BlockEnds
  <2>2. TypeOK'
    <3>1. day \in 0..day
      BY BoundsAssumption DEF IInv, TypeOK
    <3>2. started' \in [Launches -> 0..day] /\ signalled' \in [Launches -> BOOLEAN]
      BY <2>1, <3>1 DEF IInv, TypeOK
    <3> HIDE DEF next
    <3> QED
      BY <1>2, <1>3, <1>5, <2>1, <3>2 DEF IInv, TypeOK
  <2>3. RunsHaveOptions'
    BY <2>1 DEF IInv, TypeOK, RunsHaveOptions
  <2>4. LockIsHeld'
    BY <2>1 DEF IInv, TypeOK, LockIsHeld, Holding
  <2> QED
    BY <2>2, <2>3, <2>4 DEF IInv
<1> QED
  BY <1>4, <1>5

LEMMA StopKeepsIInv ==
  ASSUME IInv, NEW p \in Launches, StopOnFailure(p) \/ Leave(p) PROVE IInv'
<1>1. lock' \in Launches \cup {None} /\ named' \in 1..LastPhase + 1
  <2>1. CASE StopOnFailure(p)
    BY <2>1, ReleaseKeepsTypes DEF StopOnFailure
  <2>2. CASE Leave(p)
    BY <2>2 DEF IInv, TypeOK, Leave
  <2> QED
    BY <2>1, <2>2
<1>2. TypeOK'
  BY <1>1, OffKeepsTypes DEF IInv, TypeOK, StopOnFailure, Leave
<1>3. RunsHaveOptions'
  BY DEF IInv, TypeOK, RunsHaveOptions, StopOnFailure, Leave, Off
<1>4. LockIsHeld'
  BY BoundsAssumption DEF IInv, TypeOK, LockIsHeld, Holding, StopOnFailure, Leave, Off, Release
<1> QED
  BY <1>2, <1>3, <1>4 DEF IInv

LEMMA InterruptKeepsIInv ==
  ASSUME IInv, NEW p \in Launches, Interrupt(p) PROVE IInv'
<1>1. /\ live' \in [Launches -> SUBSET Tasks] /\ fetching' \in [Launches -> SUBSET Docs]
      /\ owed' \subseteq Dependencies /\ aside' \subseteq owed' /\ stray' \subseteq Tasks
      /\ \A q \in Launches : live[q]' \subseteq live[q]
  <2>1. CASE UNCHANGED <<live, owed, aside, stray, fetching>>
    BY <2>1 DEF IInv, TypeOK
  <2>2. CASE \E t \in live[p] : Ends(p, t, TRUE)
    BY <2>2, EndsKeepsTypes DEF IInv
  <2> QED
    BY <2>1, <2>2 DEF Interrupt
<1>2. TypeOK'
  <2>1. stops' \in 0..MaxStops
    BY BoundsAssumption DEF IInv, TypeOK, Interrupt
  <2>2. /\ pc' = [pc EXCEPT ![p] = "failing"]
        /\ UNCHANGED <<lock, options, at, started, signalled, named, day, harvested>>
    BY DEF Interrupt
  <2> QED
    BY <1>1, <2>1, <2>2 DEF IInv, TypeOK
<1>3. RunsHaveOptions'
  BY <1>1 DEF IInv, TypeOK, RunsHaveOptions, Interrupt
<1>4. LockIsHeld'
  BY DEF IInv, TypeOK, LockIsHeld, Holding, Interrupt
<1> QED
  BY <1>2, <1>3, <1>4 DEF IInv

LEMMA InterruptAgainKeepsIInv ==
  ASSUME IInv, NEW p \in Launches, InterruptAgain(p) PROVE IInv'
<1>1. lock' \in Launches \cup {None} /\ named' \in 1..LastPhase + 1
  BY ReleaseKeepsTypes DEF InterruptAgain
<1>2. owed' \subseteq Dependencies /\ aside' \subseteq owed'
  <2> DEFINE pairs == UNION {Undone(t) : t \in live[p]}
  <2>1. pairs \in SUBSET Dependencies /\ Owe(pairs)
    BY OwedAreDependencies DEF InterruptAgain
  <2> HIDE DEF pairs
  <2> QED
    BY <2>1, OweKeepsTypes DEF IInv
<1>5. TypeOK'
  BY <1>1, <1>2, BoundsAssumption DEF IInv, TypeOK, InterruptAgain
<1>3. RunsHaveOptions'
  BY DEF IInv, TypeOK, RunsHaveOptions, InterruptAgain
<1>4. LockIsHeld'
  BY BoundsAssumption DEF IInv, TypeOK, LockIsHeld, Holding, InterruptAgain, Release
<1> QED
  BY <1>3, <1>4, <1>5 DEF IInv

LEMMA KillKeepsIInv ==
  ASSUME IInv, NEW p \in Launches, Kill(p) PROVE IInv'
<1>1. lock' \in Launches \cup {None} /\ named' \in 1..LastPhase + 1
  BY ReleaseKeepsTypes DEF Kill
<1>2. live[p] \subseteq Tasks
  BY DEF IInv, TypeOK
<1>3. owed' \subseteq Dependencies /\ aside' \subseteq owed'
  <2> DEFINE pairs == UNION {Written(t) \cup IF pc[p] = "leaving" THEN {} ELSE Undone(t) : t \in live[p]}
  <2>1. pairs \in SUBSET Dependencies /\ Owe(pairs)
    BY OwedAreDependencies DEF Kill
  <2> HIDE DEF pairs
  <2> QED
    BY <2>1, OweKeepsTypes DEF IInv
<1>4. stray' \subseteq Tasks
  BY <1>2, OwedAreDependencies DEF IInv, TypeOK, Kill
<1>5. TypeOK'
  <2>1. stops' \in 0..MaxStops
    BY BoundsAssumption DEF IInv, TypeOK, Kill
  <2>2. /\ pc' \in [Launches -> {"off", "ready", "waiting", "failing", "leaving"}]
        /\ options' \in [Launches -> Options \cup {None}] /\ at' \in [Launches -> Numbers]
        /\ started' \in [Launches -> 0..day] /\ signalled' \in [Launches -> BOOLEAN]
    BY OffKeepsTypes DEF IInv, Kill
  <2>3. live' \in [Launches -> SUBSET Tasks] /\ fetching' \in [Launches -> SUBSET Docs]
    BY DEF IInv, TypeOK, Kill
  <2>4. UNCHANGED <<day, harvested>>
    BY DEF Kill
  <2> QED
    BY <1>1, <1>3, <1>4, <2>1, <2>2, <2>3, <2>4 DEF IInv, TypeOK
<1>6. RunsHaveOptions'
  BY DEF IInv, TypeOK, RunsHaveOptions, Kill, Off
<1>7. LockIsHeld'
  BY BoundsAssumption DEF IInv, TypeOK, LockIsHeld, Holding, Kill, Off, Release
<1> QED
  BY <1>5, <1>6, <1>7 DEF IInv

LEMMA WorldKeepsIInv ==
  ASSUME IInv, (\E d \in Docs : Modify(d)) \/ Tick \/ UNCHANGED vars PROVE IInv'
<1>1. TypeOK'
  BY BoundsAssumption DEF IInv, TypeOK, Modify, Tick
<1> QED
  BY <1>1 DEF IInv, RunsHaveOptions, LockIsHeld, Modify, Tick

LEMMA NextKeepsIInv == IInv /\ [Next]_vars => IInv'
<1> SUFFICES ASSUME IInv, [Next]_vars PROVE IInv'
  OBVIOUS
<1>1. ASSUME NEW p \in Launches, Steps(p) PROVE IInv'
  BY <1>1, StartBlockKeepsIInv, StopKeepsIInv, BlockEndsKeepsIInv, FetchKeepsIInv, TaskKeepsIInv
     DEF Steps
<1>2. ASSUME NEW p \in Launches, Mishaps(p) PROVE IInv'
  BY <1>2, BoundsAssumption, TaskKeepsIInv, InterruptKeepsIInv, InterruptAgainKeepsIInv,
     KillKeepsIInv, FetchKeepsIInv DEF Mishaps
<1>3. ASSUME NEW p \in Launches, NEW o \in Options, Launch(p, o) PROVE IInv'
  BY <1>3, LaunchKeepsIInv
<1>4. CASE (\E d \in Docs : Modify(d)) \/ Tick \/ UNCHANGED vars
  BY <1>4, WorldKeepsIInv
<1> QED
  BY <1>1, <1>2, <1>3, <1>4 DEF Next

LEMMA IInvHolds == Spec => []IInv
  BY InitEstablishesIInv, NextKeepsIInv, PTL DEF Spec

(* The variables keep their types.                                         *)
THEOREM TypeCorrect == Spec => []TypeOK
<1>1. IInv => TypeOK
  BY DEF IInv
<1> QED
  BY <1>1, IInvHolds, PTL

(* pipeline_lock: two runs have tasks at the same time only if one was     *)
(* interrupted again while it waited for its threads.                      *)
THEOREM RunsExclude == Spec => []OneRunAtATime
<1>1. IInv => OneRunAtATime
  BY DEF IInv, RunsHaveOptions, LockIsHeld, Holding, OneRunAtATime
<1> QED
  BY <1>1, IInvHolds, PTL

------------------------------------------------------------------------------
(* The bound of the incremental harvest                                    *)

DailyInv == HarvestIsComplete /\ ChangesAreAhead

(* A block that starts has all that its harvest has to receive: what is    *)
(* older than the bound is behind already, and what is older than the days *)
(* that a harvest without a bound goes back comes there.                   *)
LEMMA StartKeepsDailyInv ==
  ASSUME IInv, DailyInv, NEW p \in Launches, StartBlock(p)
  PROVE  DailyInv'
<1> USE DEF IInv, TypeOK
<1>1. ChangesAreAhead'
  BY DEF DailyInv, ChangesAreAhead, StartBlock
<1>2. ASSUME NEW q \in Launches, pc[q]' = "waiting", Blocks[at[q]'].phase = PhaseOf(Hal),
             options'[q].daily, ~ signalled[q]', NEW d \in Asked(options'[q]) \ behind',
             changed[d]' # None
      PROVE  (Hal \in live[q]' /\ d \in fetching[q]') \/ changed[d]' >= started[q]'
  <2>0. UNCHANGED <<at, options, signalled, started, changed, bound>> /\ behind \subseteq behind'
    BY DEF StartBlock
  <2>1. CASE q # p
    <3>1. pc[q] = "waiting" /\ live[q]' = live[q] /\ fetching[q]' = fetching[q]
      BY <1>2, <2>1 DEF StartBlock
    <3> QED
      BY <1>2, <2>0, <3>1 DEF DailyInv, HarvestIsComplete
  <2>2. CASE q = p
    <3> DEFINE o == options[p]
    <3>1. o \in Options /\ o.daily /\ d \in Asked(o) /\ d \notin behind' /\ d \in Docs /\ changed[d] # None
      BY <1>2, <2>0, <2>2, OptionsAssumption DEF RunsHaveOptions, StartBlock, Asked
    <3>2. SourceOf[Hal] \in o.sources
      BY <3>1 DEF Asked
    <3>3. at[p] = BlockOf(Hal) /\ Hal \in Blocks[at[p]].tasks
      <4>1. Hal \in Blocks[BlockOf(Hal)].tasks
        BY BlocksAssumption, BoundsAssumption DEF BlockOf
      <4> QED
        BY <1>2, <2>0, <2>2, <4>1, HarvestAssumption
    <3>4. CASE Hal \in TasksOf(o, at[p])
      <4>1. Hal \in live[p]' /\ fetching[p]' = Window(o)
        BY <3>4 DEF StartBlock
      <4>2. bound # None => changed[d] >= bound
        BY <2>0, <3>1 DEF DailyInv, ChangesAreAhead
      <4>3. bound = None => d \notin TooOld(o)
        BY <3>1, <3>4 DEF StartBlock
      <4>4. d \in Window(o)
        <5>1. CASE bound = None
          BY <3>1, <4>3, <5>1 DEF TooOld
        <5>2. CASE bound # None
          BY <3>1, <4>2, <5>2 DEF Window
        <5> QED
          BY <5>1, <5>2
      <4> QED
        BY <2>2, <4>1, <4>4
    <3>5. CASE Hal \notin TasksOf(o, at[p])
      <4>1. Hal \in FullOnly
        BY <3>2, <3>3, <3>5 DEF TasksOf, Runs
      <4> QED
        BY <4>1, BoundsAssumption
    <3> QED
      BY <3>4, <3>5
  <2> QED
    BY <2>1, <2>2
<1> QED
  BY <1>1, <1>2 DEF DailyInv, HarvestIsComplete

(* A task that ends has received all, or its phase has a signal.           *)
LEMMA TaskKeepsDailyInv ==
  ASSUME IInv, DailyInv, NEW p \in Launches, NEW t \in Tasks,
         TaskEnds(p, t) \/ TaskFails(p, t) \/ Unavailable(p)
  PROVE  DailyInv'
<1> USE DEF IInv, TypeOK
<1>1. ChangesAreAhead'
  BY DEF DailyInv, ChangesAreAhead, TaskEnds, TaskFails, Unavailable
<1>2. CASE TaskEnds(p, t)
  BY <1>1, <1>2 DEF DailyInv, HarvestIsComplete, TaskEnds, Ends
<1>3. CASE TaskFails(p, t)
  BY <1>1, <1>3 DEF DailyInv, HarvestIsComplete, TaskFails, Ends
<1>4. CASE Unavailable(p)
  BY <1>1, <1>4 DEF DailyInv, HarvestIsComplete, Unavailable, Ends
<1> QED
  BY <1>2, <1>3, <1>4

(* A page that is written has no change left to receive; only a full run   *)
(* skips a year.                                                           *)
LEMMA FetchKeepsDailyInv ==
  ASSUME IInv, DailyInv, NEW p \in Launches, NEW d \in Docs, Fetch(p, d) \/ SkipYear(p, d)
  PROVE  DailyInv'
<1> USE DEF IInv, TypeOK
<1>1. CASE Fetch(p, d)
  <2>1. ChangesAreAhead'
    BY <1>1 DEF DailyInv, ChangesAreAhead, Fetch
  <2>2. HarvestIsComplete'
    BY <1>1 DEF DailyInv, HarvestIsComplete, Fetch
  <2> QED
    BY <2>1, <2>2 DEF DailyInv
<1>2. CASE SkipYear(p, d)
  <2>1. ChangesAreAhead'
    BY <1>2 DEF DailyInv, ChangesAreAhead, SkipYear
  <2>2. HarvestIsComplete'
    BY <1>2 DEF DailyInv, HarvestIsComplete, SkipYear
  <2> QED
    BY <2>1, <2>2 DEF DailyInv
<1> QED
  BY <1>1, <1>2

(* The bound moves to the day a harvest started that received what it had  *)
(* asked for.                                                              *)
LEMMA BlockEndsKeepsDailyInv ==
  ASSUME IInv, DailyInv, NEW p \in Launches, NEW traced \in BOOLEAN, BlockEnds(p, traced)
  PROVE  DailyInv'
<1> USE DEF IInv, TypeOK
<1>1. pc[p] = "waiting" /\ live[p] = {} /\ pc[p]' # "waiting"
  BY DEF BlockEnds, Off
<1>2. /\ UNCHANGED <<live, fetching, changed>> /\ behind \subseteq behind'
      /\ \A q \in Launches \ {p} :
            /\ pc[q]' = pc[q] /\ options[q]' = options[q] /\ at[q]' = at[q]
            /\ started[q]' = started[q] /\ signalled[q]' = signalled[q]
  BY DEF BlockEnds, Off
<1>3. HarvestIsComplete'
  BY <1>1, <1>2 DEF DailyInv, HarvestIsComplete
<1>4. ChangesAreAhead'
  <2>1. CASE bound' = bound
    BY <1>2, <2>1 DEF DailyInv, ChangesAreAhead
  <2>2. CASE bound' # bound
    <3>1. /\ bound' = started[p] /\ options[p].daily /\ ~ signalled[p]
          /\ Blocks[at[p]].phase = PhaseOf(Hal)
          /\ behind' = behind \cup {d \in Docs \ Asked(options[p]) : changed[d] # None}
      BY <2>2 DEF BlockEnds, Recorded
    <3>2. ASSUME NEW d \in Docs \ behind', changed[d] # None PROVE changed[d] >= started[p]
      BY <1>1, <3>1, <3>2 DEF DailyInv, HarvestIsComplete
    <3> QED
      BY <1>2, <3>1, <3>2 DEF ChangesAreAhead
  <2> QED
    BY <2>1, <2>2
<1> QED
  BY <1>3, <1>4 DEF DailyInv

(* A run that is launched or stops waits for no block.                     *)
LEMMA StopKeepsDailyInv ==
  ASSUME IInv, DailyInv, NEW p \in Launches,
         \/ \E o \in Options : Launch(p, o)
         \/ StopOnFailure(p) \/ Leave(p) \/ Interrupt(p) \/ InterruptAgain(p) \/ Kill(p)
  PROVE  DailyInv'
<1> USE DEF IInv, TypeOK
<1>1. pc[p]' # "waiting" /\ UNCHANGED harvested
  BY DEF Launch, StopOnFailure, Leave, Interrupt, InterruptAgain, Kill, Off
<1>2. \A q \in Launches \ {p} :
        /\ pc[q]' = pc[q] /\ options[q]' = options[q] /\ at[q]' = at[q] /\ live[q]' = live[q]
        /\ fetching[q]' = fetching[q] /\ started[q]' = started[q] /\ signalled[q]' = signalled[q]
  <2>1. CASE Interrupt(p)
    BY <2>1 DEF Interrupt, Ends
  <2>2. CASE ~ Interrupt(p)
    BY <2>2 DEF Launch, StopOnFailure, Leave, InterruptAgain, Kill, Off
  <2> QED
    BY <2>1, <2>2
<1>3. HarvestIsComplete'
  BY <1>1, <1>2 DEF DailyInv, HarvestIsComplete
<1>4. ChangesAreAhead'
  BY <1>1 DEF DailyInv, ChangesAreAhead
<1> QED
  BY <1>3, <1>4 DEF DailyInv

(* A change of today is after every bound and every start.                 *)
LEMMA WorldKeepsDailyInv ==
  ASSUME IInv, DailyInv, (\E d \in Docs : Modify(d)) \/ Tick \/ UNCHANGED vars
  PROVE  DailyInv'
<1> USE DEF IInv, TypeOK
<1>1. CASE \E d \in Docs : Modify(d)
  <2>1. PICK m \in Docs : Modify(m)
    BY <1>1
  <2>2. /\ changed' = [changed EXCEPT ![m] = day] /\ behind' = behind \ {m}
        /\ UNCHANGED <<pc, options, at, live, started, signalled, fetching, bound, day>>
    BY <2>1 DEF Modify
  <2>3. ChangesAreAhead'
    BY <2>2, BoundsAssumption DEF DailyInv, ChangesAreAhead
  <2>4. HarvestIsComplete'
    BY <2>2, BoundsAssumption DEF DailyInv, HarvestIsComplete
  <2> QED
    BY <2>3, <2>4 DEF DailyInv
<1>2. CASE Tick \/ UNCHANGED vars
  BY <1>2 DEF DailyInv, ChangesAreAhead, HarvestIsComplete, Tick
<1> QED
  BY <1>1, <1>2

(* last_daily_extract_date: for any number of days, no change is before    *)
(* the bound and not in staging, but those that a restricted daily run did *)
(* not ask for and those made before the days that the first one goes      *)
(* back.                                                                   *)
THEOREM BoundIsSafe == Spec => []ChangesAreAhead
<1>1. Init => DailyInv
  BY DEF Init, DailyInv, HarvestIsComplete, ChangesAreAhead
<1>2. IInv /\ DailyInv /\ [Next]_vars => DailyInv'
  <2> SUFFICES ASSUME IInv, DailyInv, [Next]_vars PROVE DailyInv'
    OBVIOUS
  <2>1. ASSUME NEW p \in Launches, Steps(p) PROVE DailyInv'
    BY <2>1, StartKeepsDailyInv, StopKeepsDailyInv, BlockEndsKeepsDailyInv, FetchKeepsDailyInv,
       TaskKeepsDailyInv DEF Steps
  <2>2. ASSUME NEW p \in Launches, Mishaps(p) PROVE DailyInv'
    BY <2>2, BoundsAssumption, StopKeepsDailyInv, FetchKeepsDailyInv, TaskKeepsDailyInv DEF Mishaps
  <2>3. ASSUME NEW p \in Launches, NEW o \in Options, Launch(p, o) PROVE DailyInv'
    BY <2>3, StopKeepsDailyInv
  <2>4. CASE (\E d \in Docs : Modify(d)) \/ Tick \/ UNCHANGED vars
    BY <2>4, WorldKeepsDailyInv
  <2> QED
    BY <2>1, <2>2, <2>3, <2>4 DEF Next
<1>3. DailyInv => ChangesAreAhead
  BY DEF DailyInv
<1> QED
  BY <1>1, <1>2, <1>3, IInvHolds, PTL DEF Spec

------------------------------------------------------------------------------
(* Where to resume                                                         *)

(* What u has still to read of w, though no options left it aside and the  *)
(* process of w waited for it.                                             *)
Owes(u, w) == <<u, w>> \in owed \ aside /\ w \notin stray

(* The run of p has u ahead of it, or leaves it aside.                     *)
Ahead(p, u) ==
    /\ at[p] <= BlockOf(u)
    /\ pc[p] = "waiting" /\ Asks(options[p], u) => at[p] < BlockOf(u)
    /\ Blocks[at[p]].phase = 0 => named <= PhaseOf(u)

(* The holder of the lock is in a block it selected, with tasks of it.     *)
RunsInOrder ==
    \A p \in Launches : pc[p] \in Holding =>
        Blocks[at[p]].phase \in Selected(options[p]) /\ live[p] \subseteq Blocks[at[p]].tasks

(* Nothing is left to read in the phases before the one that the log       *)
(* named, nor, while a run holds the lock, in the blocks it has passed.    *)
BehindIsDone ==
    \A u, w \in Tasks : Owes(u, w) =>
        /\ lock = None => named <= PhaseOf(u)
        /\ \A p \in Launches : lock = p => Ahead(p, u)

ResumeInv == RunsInOrder /\ BehindIsDone

LEMMA TaskHasBlock ==
  ASSUME NEW t \in Tasks
  PROVE  /\ BlockOf(t) \in Numbers /\ t \in Blocks[BlockOf(t)].tasks
         /\ BlockOf(t) \in Nat /\ PhaseOf(t) \in 0..LastPhase
         /\ \A i \in Numbers : t \in Blocks[i].tasks => i = BlockOf(t)
<1>1. BlockOf(t) \in Numbers /\ t \in Blocks[BlockOf(t)].tasks
  BY BlocksAssumption DEF BlockOf
<1>2. \A i \in Numbers : t \in Blocks[i].tasks => i = BlockOf(t)
  BY <1>1, BlocksAssumption
<1> QED
  BY <1>1, <1>2, BlocksAreNumbered DEF PhaseOf

(* A dependency is on an earlier block: the reader is not the task of the  *)
(* orchestrator.                                                           *)
LEMMA ReadersAreLater ==
  ASSUME NEW u, NEW w, <<u, w>> \in Dependencies
  PROVE  u \in Tasks /\ w \in Tasks /\ BlockOf(w) < BlockOf(u) /\ 0 < PhaseOf(u)
<1>1. u \in Tasks /\ w \in Tasks /\ BlockOf(w) < BlockOf(u)
  BY DEF Dependencies
<1>2. BlockOf(u) \in Nat /\ BlockOf(w) \in Nat /\ BlockOf(u) \in Numbers /\ BlockOf(w) \in Numbers
  BY <1>1, TaskHasBlock
<1>3. 1 <= BlockOf(w)
  <2>1. Cardinality(Numbers) \in Nat
    BY BlocksAssumption, FS_CardinalityType
  <2> QED
    BY <1>2, <2>1, BlocksAssumption
<1>4. PhaseOf(u) # 0
  BY <1>1, <1>2, <1>3, BlocksAssumption DEF PhaseOf
<1> QED
  BY <1>1, <1>4, TaskHasBlock

(* The phases are those of the blocks, in order.                           *)
LEMMA PhasesAreOrdered ==
  ASSUME NEW i \in Numbers, NEW t \in Tasks
  PROVE  /\ i <= BlockOf(t) => Blocks[i].phase <= PhaseOf(t)
         /\ Blocks[i].phase < PhaseOf(t) => i < BlockOf(t)
<1>1. /\ i \in Nat /\ BlockOf(t) \in Nat /\ BlockOf(t) \in Numbers
      /\ Blocks[i].phase \in Nat /\ PhaseOf(t) \in Nat
  BY BlocksAreNumbered, TaskHasBlock, BlocksAssumption DEF PhaseOf
<1> QED
  BY <1>1, BlocksAssumption DEF PhaseOf

(* A task writes for tasks of the next blocks; one that does not end has   *)
(* to read again what earlier blocks wrote. Neither is of the phase 0.     *)
LEMMA WrittenIsAhead ==
  ASSUME NEW i \in Numbers, NEW t \in Blocks[i].tasks, NEW u, NEW w
  PROVE  /\ <<u, w>> \in Written(t) => i < BlockOf(u) /\ Blocks[i].phase # 0
         /\ <<u, w>> \in Undone(t) => i = BlockOf(u) /\ Blocks[i].phase # 0
<1>1. t \in Tasks /\ BlockOf(t) = i /\ PhaseOf(t) = Blocks[i].phase
  BY BlocksAssumption, TaskHasBlock DEF PhaseOf
<1>2. ASSUME <<u, w>> \in Written(t) PROVE i < BlockOf(u) /\ Blocks[i].phase # 0
  <2>1. <<u, w>> \in Dependencies /\ w = t /\ PhaseOf(t) > 0
    BY <1>2 DEF Written
  <2> QED
    BY <1>1, <2>1, ReadersAreLater
<1>3. ASSUME <<u, w>> \in Undone(t) PROVE i = BlockOf(u) /\ Blocks[i].phase # 0
  <2>1. <<u, w>> \in Dependencies /\ u = t
    BY <1>3 DEF Undone
  <2>2. 0 < PhaseOf(u)
    BY <2>1, ReadersAreLater
  <2> QED
    BY <1>1, <2>1, <2>2
<1> QED
  BY <1>2, <1>3

(* What nobody waited for stays so for as long as it is owed.              *)
LEMMA StrayStays ==
  ASSUME TypeOK, NEW W, stray \subseteq W, stray' = Unread(owed', W), NEW u \in Tasks, NEW w, Owes(u, w)'
  PROVE  w \notin W /\ w \notin stray
<1>1. <<u, w>> \in owed' /\ w \notin stray'
  BY DEF Owes
<1> QED
  BY <1>1 DEF Unread

(* Order: a run takes the blocks it selected, one after the other.         *)
LEMMA NextKeepsOrder == IInv /\ IInv' /\ RunsInOrder /\ [Next]_vars => RunsInOrder'
<1> SUFFICES ASSUME IInv, IInv', RunsInOrder, [Next]_vars,
                    NEW q \in Launches, pc[q]' \in Holding
             PROVE  Blocks[at[q]'].phase \in Selected(options[q]') /\ live[q]' \subseteq Blocks[at[q]'].tasks
  BY DEF RunsInOrder
<1>0. pc \in [Launches -> {"off", "ready", "waiting", "failing", "leaving"}] /\ at \in [Launches -> Numbers]
      /\ options \in [Launches -> Options \cup {None}] /\ live \in [Launches -> SUBSET Tasks]
  BY DEF IInv, TypeOK
<1>1. CASE \E p \in Launches, o \in Options : Launch(p, o)
  <2>1. PICK p \in Launches, o \in Options : Launch(p, o)
    BY <1>1
  <2>2. CASE q = p
    <3>1. live[q]' = {} /\ at[q]' = 1 /\ options[q]' = o
      BY <1>0, <2>1, <2>2 DEF Launch, IInv, RunsHaveOptions
    <3>2. Blocks[1].phase = 0
      BY BlocksAreNumbered, BlocksAssumption
    <3> QED
      BY <3>1, <3>2 DEF Selected
  <2>3. CASE q # p
    BY <1>0, <2>1, <2>3 DEF Launch, RunsInOrder
  <2> QED
    BY <2>2, <2>3
<1>2. CASE \E p \in Launches : StartBlock(p)
  BY <1>0, <1>2 DEF StartBlock, TasksOf, RunsInOrder, Holding
<1>3. CASE \E p \in Launches, traced \in BOOLEAN : BlockEnds(p, traced)
  <2>1. PICK p \in Launches, traced \in BOOLEAN : BlockEnds(p, traced)
    BY <1>3
  <2>2. CASE q = p
    <3> DEFINE next == After(options[p], at[p])
    <3>1. /\ next # None /\ at[q]' = next /\ options[q]' = options[q] /\ live[q]' = {}
          /\ options[p] \in Options /\ at[p] \in Numbers
      BY <1>0, <2>1, <2>2 DEF BlockEnds, Off, Holding, IInv, RunsHaveOptions
    <3>2. Blocks[next].phase \in Selected(options[p])
      BY <3>1, AfterIsBlock
    <3> QED
      BY <2>2, <3>1, <3>2
  <2>3. CASE q # p
    BY <1>0, <2>1, <2>3 DEF BlockEnds, Off, RunsInOrder
  <2> QED
    BY <2>2, <2>3
<1>4. CASE \E p \in Launches : \/ \E d \in Docs : Fetch(p, d) \/ SkipYear(p, d)
                               \/ \E t \in Tasks : TaskEnds(p, t) \/ TaskFails(p, t)
                               \/ Unavailable(p) \/ Interrupt(p)
  <2>1. PICK p \in Launches : \/ \E d \in Docs : Fetch(p, d) \/ SkipYear(p, d)
                              \/ \E t \in Tasks : TaskEnds(p, t) \/ TaskFails(p, t)
                              \/ Unavailable(p) \/ Interrupt(p)
    BY <1>4
  <2>2. at' = at /\ options' = options /\ live[q]' \subseteq live[q]
    <3>1. at' = at /\ options' = options
      BY <2>1 DEF Fetch, SkipYear, TaskEnds, TaskFails, Unavailable, Interrupt
    <3>2. live' = live \/ \E t \in live[p], failed \in BOOLEAN : Ends(p, t, failed)
      BY <2>1 DEF Fetch, SkipYear, TaskEnds, TaskFails, Unavailable, Interrupt
    <3> QED
      BY <3>1, <3>2, EndsKeepsTypes DEF IInv
  <2>3. pc[q] \in Holding
    BY <1>0, <2>1 DEF Fetch, SkipYear, TaskEnds, TaskFails, Unavailable, Interrupt, Holding
  <2> QED
    BY <2>2, <2>3 DEF RunsInOrder
<1>5. CASE \E p \in Launches : StopOnFailure(p) \/ Leave(p) \/ InterruptAgain(p) \/ Kill(p)
  <2>1. PICK p \in Launches : StopOnFailure(p) \/ Leave(p) \/ InterruptAgain(p) \/ Kill(p)
    BY <1>5
  <2>2. q # p
    BY <1>0, <2>1 DEF StopOnFailure, Leave, InterruptAgain, Kill, Off, Holding
  <2>3. pc[q]' = pc[q] /\ at[q]' = at[q] /\ options[q]' = options[q] /\ live[q]' = live[q]
    BY <1>0, <2>1, <2>2 DEF StopOnFailure, Leave, InterruptAgain, Kill, Off
  <2> QED
    BY <2>3 DEF RunsInOrder
<1>6. CASE (\E d \in Docs : Modify(d)) \/ Tick \/ UNCHANGED vars
  BY <1>6 DEF Modify, Tick, RunsInOrder
<1>7. CASE \E p \in Launches : Steps(p)
  BY <1>2, <1>3, <1>4, <1>5, <1>7 DEF Steps
<1>8. CASE \E p \in Launches : Mishaps(p)
  BY <1>4, <1>5, <1>8 DEF Mishaps
<1> QED
  BY <1>1, <1>6, <1>7, <1>8 DEF Next

(* A step that leaves what is owed, the lock and the block of its holder.  *)
LEMMA SameKeepsBehind ==
  ASSUME IInv, BehindIsDone,
         \/ \E p \in Launches, d \in Docs : Fetch(p, d) \/ SkipYear(p, d)
         \/ \E p \in Launches : Leave(p)
         \/ (\E d \in Docs : Modify(d)) \/ Tick \/ UNCHANGED vars
  PROVE  BehindIsDone'
<1>1. UNCHANGED <<lock, owed, aside, stray, named>>
  BY DEF Fetch, SkipYear, Leave, Modify, Tick
<1>2. ASSUME NEW q \in Launches, lock = q PROVE UNCHANGED <<pc[q], options[q], at[q]>>
  <2>1. pc[q] # "leaving"
    BY <1>2 DEF IInv, LockIsHeld, Holding
  <2> QED
    BY <2>1 DEF IInv, TypeOK, Fetch, SkipYear, Leave, Off, Modify, Tick
<1> QED
  BY <1>1, <1>2 DEF BehindIsDone, Owes, Ahead

LEMMA LaunchKeepsBehind ==
  ASSUME IInv, BehindIsDone, NEW p \in Launches, NEW o \in Options, Launch(p, o)
  PROVE  BehindIsDone'
<1> SUFFICES ASSUME NEW u \in Tasks, NEW w \in Tasks, Owes(u, w)'
             PROVE  (lock' = None => named' <= PhaseOf(u)) /\ \A q \in Launches : lock' = q => Ahead(q, u)'
  BY DEF BehindIsDone
<1>1. Owes(u, w) /\ lock = None /\ lock' = p /\ p # None
  BY BoundsAssumption DEF Launch, Owes
<1>2. named <= PhaseOf(u) /\ named' = named
  BY <1>1 DEF BehindIsDone, Launch
<1>3. at[p]' = 1 /\ pc[p]' = "ready"
  BY DEF IInv, TypeOK, Launch
<1>4. 1 <= BlockOf(u)
  BY TaskHasBlock, BlocksAssumption, FS_CardinalityType
<1> QED
  BY <1>1, <1>2, <1>3, <1>4 DEF Ahead

(* The tasks of a block that starts read what they are owed.               *)
LEMMA StartBlockKeepsBehind ==
  ASSUME IInv, BehindIsDone, NEW p \in Launches, StartBlock(p)
  PROVE  BehindIsDone'
<1> SUFFICES ASSUME NEW u \in Tasks, NEW w \in Tasks, Owes(u, w)'
             PROVE  (lock' = None => named' <= PhaseOf(u)) /\ \A q \in Launches : lock' = q => Ahead(q, u)'
  BY DEF BehindIsDone
<1>1. lock = p /\ lock' = p /\ p # None /\ at[p] \in Numbers
  BY BoundsAssumption DEF IInv, TypeOK, LockIsHeld, Holding, StartBlock
<1>2. stray' = Unread(owed', stray)
  BY DEF StartBlock
<1>3. w \notin stray
  BY <1>2, StrayStays DEF IInv
<1>4. <<u, w>> \in owed \ aside /\ u \notin TasksOf(options[p], at[p])
  BY DEF StartBlock, Owes
<1>5. Ahead(p, u)
  BY <1>1, <1>3, <1>4 DEF BehindIsDone, Owes
<1>6. Asks(options[p], u) => BlockOf(u) # at[p]
  BY <1>4, TaskHasBlock DEF TasksOf, Asks
<1>7. BlockOf(u) \in Nat /\ at[p] \in Nat
  BY <1>1, TaskHasBlock, BlocksAreNumbered
<1>8. UNCHANGED <<named, options, at>>
  BY DEF StartBlock
<1>9. Ahead(p, u)'
  BY <1>5, <1>6, <1>7, <1>8 DEF Ahead
<1> QED
  BY <1>1, <1>9

(* What a task that ends adds to what is owed is ahead of its run, or      *)
(* nothing waited for it.                                                  *)
LEMMA EndsOwesAhead ==
  ASSUME IInv, RunsInOrder, NEW p \in Launches, NEW t \in live[p], NEW failed \in BOOLEAN,
         Ends(p, t, failed), failed => pc[p] \in Holding,
         NEW u \in Tasks, NEW w \in Tasks, Owes(u, w)'
  PROVE  \/ Owes(u, w)
         \/ /\ pc[p] \in Holding /\ Blocks[at[p]].phase # 0
            /\ at[p] <= BlockOf(u) /\ (failed \/ at[p] < BlockOf(u))
<1>1. at[p] \in Numbers /\ at[p] \in Nat /\ BlockOf(u) \in Nat
  BY BlocksAreNumbered, TaskHasBlock DEF IInv, TypeOK
<1>2. w \notin stray /\ (pc[p] = "leaving" => w # t)
  <2> DEFINE W == IF pc[p] = "leaving" THEN stray \cup {t} ELSE stray
  <2>1. stray' = Unread(owed', W) /\ stray \subseteq W
    BY DEF Ends
  <2>2. w \notin W
    BY <2>1, StrayStays DEF IInv
  <2> QED
    BY <2>2
<1>3. \/ <<u, w>> \in owed \ aside
      \/ <<u, w>> \in Written(t) \/ (failed /\ <<u, w>> \in Undone(t))
  BY DEF Ends, Owe, Owes
<1>4. CASE <<u, w>> \in owed \ aside
  BY <1>2, <1>4 DEF Owes
<1>5. pc[p] \in Holding => t \in Blocks[at[p]].tasks
  BY DEF RunsInOrder
<1>6. CASE <<u, w>> \in Written(t)
  <2>1. w = t
    BY <1>6 DEF Written
  <2>2. pc[p] \in Holding
    BY <1>2, <2>1 DEF IInv, RunsHaveOptions, Holding
  <2> QED
    BY <1>1, <1>5, <1>6, <2>2, WrittenIsAhead
<1>7. CASE failed /\ <<u, w>> \in Undone(t)
  BY <1>1, <1>5, <1>7, WrittenIsAhead
<1> QED
  BY <1>3, <1>4, <1>6, <1>7

LEMMA EndsKeepsBehind ==
  ASSUME IInv, ResumeInv, NEW p \in Launches,
         \/ \E t \in Tasks : TaskEnds(p, t) \/ TaskFails(p, t)
         \/ Unavailable(p) \/ Interrupt(p)
  PROVE  BehindIsDone'
<1> SUFFICES ASSUME NEW u \in Tasks, NEW w \in Tasks, Owes(u, w)'
             PROVE  (lock' = None => named' <= PhaseOf(u)) /\ \A q \in Launches : lock' = q => Ahead(q, u)'
  BY DEF BehindIsDone
<1>1. UNCHANGED <<lock, options, at, named>> /\ \A q \in Launches : pc[q]' = "waiting" => pc[q] = "waiting"
  BY DEF IInv, TypeOK, TaskEnds, TaskFails, Unavailable, Interrupt
<1>2. \/ UNCHANGED <<owed, aside, stray>>
      \/ \E t \in live[p], failed \in BOOLEAN :
            /\ Ends(p, t, failed)
            /\ failed => pc[p] \in Holding /\ pc[p]' # "waiting"
  <2>1. ASSUME NEW t \in Tasks, TaskFails(p, t)
        PROVE  /\ t \in live[p] /\ Ends(p, t, pc[p] # "leaving")
               /\ pc[p] # "leaving" => pc[p] \in Holding /\ pc[p]' # "waiting"
    BY <2>1 DEF TaskFails, IInv, TypeOK, RunsHaveOptions, Holding
  <2>2. CASE Interrupt(p)
    BY <2>2 DEF Interrupt, IInv, TypeOK, Holding
  <2> QED
    BY <2>1, <2>2 DEF TaskEnds, Unavailable
<1>3. ASSUME Owes(u, w) PROVE (lock' = None => named' <= PhaseOf(u)) /\ \A q \in Launches : lock' = q => Ahead(q, u)'
  BY <1>1, <1>3 DEF ResumeInv, BehindIsDone, Ahead
<1>4. CASE UNCHANGED <<owed, aside, stray>>
  BY <1>3, <1>4 DEF Owes
<1>5. CASE \E t \in live[p], failed \in BOOLEAN :
              /\ Ends(p, t, failed)
              /\ failed => pc[p] \in Holding /\ pc[p]' # "waiting"
  <2>1. PICK t \in live[p], failed \in BOOLEAN :
              /\ Ends(p, t, failed)
              /\ failed => pc[p] \in Holding /\ pc[p]' # "waiting"
    BY <1>5
  <2>2. CASE ~ Owes(u, w)
    <3>1. /\ pc[p] \in Holding /\ Blocks[at[p]].phase # 0
          /\ at[p] <= BlockOf(u) /\ (failed \/ at[p] < BlockOf(u))
      BY <2>1, <2>2, EndsOwesAhead DEF ResumeInv
    <3>2. lock' = p /\ p # None
      BY <1>1, <3>1, BoundsAssumption DEF IInv, LockIsHeld
    <3>3. Ahead(p, u)'
      BY <1>1, <2>1, <3>1 DEF Ahead
    <3> QED
      BY <3>2, <3>3
  <2> QED
    BY <1>3, <2>2
<1> QED
  BY <1>2, <1>4, <1>5

(* The next block passes nothing that is owed and not left aside; a run    *)
(* that ends leaves nothing.                                               *)
LEMMA BlockEndsKeepsBehind ==
  ASSUME IInv, BehindIsDone, NEW p \in Launches, NEW traced \in BOOLEAN, BlockEnds(p, traced)
  PROVE  BehindIsDone'
<1> SUFFICES ASSUME NEW u \in Tasks, NEW w \in Tasks, Owes(u, w)'
             PROVE  (lock' = None => named' <= PhaseOf(u)) /\ \A q \in Launches : lock' = q => Ahead(q, u)'
  BY DEF BehindIsDone
<1> DEFINE o == options[p]
           next == After(o, at[p])
<1>1. lock = p /\ p # None /\ at[p] \in Numbers /\ o \in Options /\ pc[p] = "waiting"
  BY BoundsAssumption DEF IInv, TypeOK, LockIsHeld, RunsHaveOptions, Holding, BlockEnds
<1>2. Owes(u, w) /\ <<u, w>> \notin LeftAside(o, next)
  BY DEF BlockEnds, Owes
<1>3. Asks(o, u) \/ (next # None /\ ~ BlockOf(u) < next)
  BY <1>2 DEF LeftAside, Owes
<1>4. Asks(o, u) => at[p] < BlockOf(u)
  BY <1>1, <1>2 DEF BehindIsDone, Ahead
<1>5. Asks(o, u) => next # None /\ next <= BlockOf(u)
  <2>1. BlockOf(u) \in Numbers /\ Asks(o, u) => Blocks[BlockOf(u)].phase \in Selected(o)
    BY TaskHasBlock DEF Asks, PhaseOf
  <2> QED
    BY <1>1, <1>4, <2>1, TaskHasBlock, AfterIsBlock
<1>6. next # None
  BY <1>3, <1>5
<1>7. next \in Numbers /\ at[p] < next /\ at[p] \in Nat /\ next \in Nat /\ BlockOf(u) \in Nat
  BY <1>1, <1>6, AfterIsBlock, BlocksAreNumbered, TaskHasBlock
<1>8. next <= BlockOf(u)
  BY <1>3, <1>5, <1>7
<1>9. Blocks[next].phase # 0
  <2>1. 1 <= at[p]
    BY <1>1, BlocksAssumption, FS_CardinalityType
  <2> QED
    BY <1>7, <2>1, BlocksAssumption
<1>10. lock' = lock /\ at[p]' = next /\ pc[p]' = "ready"
  BY <1>6 DEF BlockEnds, IInv, TypeOK
<1>11. Ahead(p, u)'
  BY <1>8, <1>9, <1>10 DEF Ahead
<1> QED
  BY <1>1, <1>10, <1>11

(* A run that stops names the phase it was in, with what its threads had   *)
(* not done; what other threads write, nothing waited for.                 *)
LEMMA StopKeepsBehind ==
  ASSUME IInv, ResumeInv, NEW p \in Launches, StopOnFailure(p) \/ InterruptAgain(p) \/ Kill(p)
  PROVE  BehindIsDone'
<1> SUFFICES ASSUME NEW u \in Tasks, NEW w \in Tasks, Owes(u, w)'
             PROVE  (lock' = None => named' <= PhaseOf(u)) /\ \A q \in Launches : lock' = q => Ahead(q, u)'
  BY DEF BehindIsDone
<1>0. Release(p) /\ pc[p] # "off" /\ at[p] \in Numbers /\ p # None
  BY BoundsAssumption DEF IInv, TypeOK, StopOnFailure, InterruptAgain, Kill
<1>1. CASE pc[p] \in Holding
  <2>1. lock = p /\ lock' = None /\ named' = Named(Blocks[at[p]].phase)
    BY <1>0, <1>1 DEF IInv, LockIsHeld, Release, Holding
  <2>2. /\ <<u, w>> \in (owed \ aside) \cup UNION {Written(t) \cup Undone(t) : t \in live[p]}
        /\ w \notin stray
    <3>1. CASE StopOnFailure(p)
      BY <3>1 DEF StopOnFailure, Owes
    <3>2. CASE InterruptAgain(p)
      BY <3>2 DEF InterruptAgain, Owe, Owes
    <3>3. CASE Kill(p)
      <4>1. stray' = Unread(owed', stray)
        BY <1>1, <3>3 DEF Kill, Holding
      <4>2. w \notin stray
        BY <4>1, StrayStays DEF IInv
      <4>3. Owe(UNION {Written(t) \cup Undone(t) : t \in live[p]})
        BY <1>1, <3>3 DEF Kill, Holding
      <4> QED
        BY <4>2, <4>3 DEF Owe, Owes
    <3> QED
      BY <3>1, <3>2, <3>3
  <2>3. at[p] <= BlockOf(u) /\ (Blocks[at[p]].phase = 0 => named <= PhaseOf(u))
    <3>1. CASE <<u, w>> \in owed \ aside
      BY <2>1, <2>2, <3>1 DEF ResumeInv, BehindIsDone, Owes, Ahead
    <3>2. CASE \E t \in live[p] : <<u, w>> \in Written(t) \cup Undone(t)
      <4>1. PICK t \in live[p] : <<u, w>> \in Written(t) \cup Undone(t)
        BY <3>2
      <4>2. t \in Blocks[at[p]].tasks
        BY <1>1 DEF ResumeInv, RunsInOrder
      <4>3. at[p] \in Nat /\ BlockOf(u) \in Nat
        BY <1>0, TaskHasBlock, BlocksAreNumbered
      <4> QED
        BY <1>0, <4>1, <4>2, <4>3, WrittenIsAhead
    <3> QED
      BY <2>2, <3>1, <3>2
  <2>4. named' <= PhaseOf(u)
    BY <1>0, <2>1, <2>3, PhasesAreOrdered DEF Named
  <2> QED
    BY <2>1, <2>4, BoundsAssumption
<1>2. CASE pc[p] = "leaving"
  <2>1. Kill(p) /\ lock # p
    BY <1>2 DEF IInv, LockIsHeld, Holding, StopOnFailure, InterruptAgain
  <2>2. lock' = lock /\ named' = named
    BY <1>0, <1>2, <2>1 DEF Release
  <2>3. Owes(u, w)
    <3>1. stray' = Unread(owed', stray \cup live[p])
      BY <1>2, <2>1 DEF Kill
    <3>2. w \notin stray \cup live[p]
      BY <3>1, StrayStays DEF IInv
    <3>3. <<u, w>> \notin UNION {Written(t) : t \in live[p]}
      BY <3>2 DEF Written
    <3>4. Owe(UNION {Written(t) : t \in live[p]})
      BY <1>2, <2>1 DEF Kill
    <3> QED
      BY <3>2, <3>3, <3>4 DEF Owe, Owes
  <2>4. \A q \in Launches \ {p} : pc[q]' = pc[q] /\ options[q]' = options[q] /\ at[q]' = at[q]
    BY <2>1 DEF Kill, Off, IInv, TypeOK
  <2> QED
    BY <1>0, <2>1, <2>2, <2>3, <2>4 DEF ResumeInv, BehindIsDone, Ahead
<1> QED
  BY <1>0, <1>1, <1>2 DEF IInv, TypeOK, Holding

LEMMA NextKeepsResumeInv == IInv /\ IInv' /\ ResumeInv /\ [Next]_vars => ResumeInv'
<1> SUFFICES ASSUME IInv, IInv', ResumeInv, [Next]_vars PROVE ResumeInv'
  OBVIOUS
<1>1. RunsInOrder'
  BY NextKeepsOrder DEF ResumeInv
<1>2. BehindIsDone'
  <2> USE DEF ResumeInv
  <2>1. ASSUME NEW p \in Launches, Steps(p) PROVE BehindIsDone'
    BY <2>1, SameKeepsBehind, StartBlockKeepsBehind, EndsKeepsBehind, BlockEndsKeepsBehind,
       StopKeepsBehind DEF Steps
  <2>2. ASSUME NEW p \in Launches, Mishaps(p) PROVE BehindIsDone'
    BY <2>2, SameKeepsBehind, EndsKeepsBehind, StopKeepsBehind DEF Mishaps
  <2>3. ASSUME NEW p \in Launches, NEW o \in Options, Launch(p, o) PROVE BehindIsDone'
    BY <2>3, LaunchKeepsBehind
  <2>4. CASE (\E d \in Docs : Modify(d)) \/ Tick \/ UNCHANGED vars
    BY <2>4, SameKeepsBehind
  <2> QED
    BY <2>1, <2>2, <2>3, <2>4 DEF Next
<1> QED
  BY <1>1, <1>2 DEF ResumeInv

(* _stop_on_failure: for any phases and tasks, and whatever failed, was    *)
(* interrupted or killed, the tasks of the phases before the one the log   *)
(* names have read all that runs wrote for them, but what the options of a *)
(* run left aside since and what threads wrote that nothing waited for.    *)
THEOREM ResumptionIsSafe == Spec => []EarlierPhasesAreDone
<1>1. Init => ResumeInv
  <2> SUFFICES ASSUME Init PROVE ResumeInv
    OBVIOUS
  <2> QED
    BY DEF Init, ResumeInv, RunsInOrder, BehindIsDone, Owes, Holding
<1>2. IInv /\ ResumeInv => EarlierPhasesAreDone
  <2> SUFFICES ASSUME IInv, ResumeInv, lock = None, NEW c \in owed \ aside,
                      PhaseOf(c[1]) < named, c[2] \notin stray
               PROVE  FALSE
    BY DEF EarlierPhasesAreDone
  <2>1. PICK u \in Tasks, w \in Tasks : c = <<u, w>>
    BY DEF IInv, TypeOK, Dependencies
  <2>2. named \in Nat /\ PhaseOf(u) \in Nat
    BY TaskHasBlock, BoundsAssumption DEF IInv, TypeOK
  <2> QED
    BY <2>1, <2>2 DEF ResumeInv, BehindIsDone, Owes
<1> QED
  BY <1>1, <1>2, IInvHolds, NextKeepsResumeInv, PTL DEF Spec

==============================================================================

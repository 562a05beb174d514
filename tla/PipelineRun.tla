----------------------------- MODULE PipelineRun -----------------------------
(***************************************************************************)
(* The runs of the pipeline on one database: the lock that excludes a      *)
(* second one, the phases and their blocks of parallel tasks, what ends a  *)
(* run before its end and the phase it names to resume, and the date the   *)
(* incremental harvest starts from (src/pipeline/run.py, task_runner.py,   *)
(* graph.py, runtime/lock.py, runtime/parallel.py).                        *)
(***************************************************************************)
EXTENDS Integers, FiniteSets

CONSTANTS
    Launches,       \* processes of run_pipeline; one that has ended may be launched again
    Tasks,          \* tasks of the pipeline
    Blocks,         \* blocks in order: [phase, tasks]; the orchestrator's task is that of phase 0
    Extra,          \* phases that --no-extras omits
    Reads,          \* Reads[t]: data the task t reads
    Writes,         \* Writes[t]: data it writes
    SourceOf,       \* SourceOf[t]: the source that --sources must name for it, None without one
    Hal,            \* the harvest of the incremental source
    FullOnly,       \* tasks that the daily mode leaves aside
    Docs,           \* documents of the incremental source
    Options,        \* options of the command line
    Fallback,       \* days an incremental harvest goes back without a harvest on record
    None,
    MaxDay,         \* bound: last day
    MaxStops        \* bound: failures, interruptions and kills

Numbers == DOMAIN Blocks
BlockOf(t) == CHOOSE i \in Numbers : t \in Blocks[i].tasks
PhaseOf(t) == Blocks[BlockOf(t)].phase
LastPhase == Blocks[Cardinality(Numbers)].phase

ASSUME BlocksAssumption ==
    /\ Numbers = 1..Cardinality(Numbers) /\ IsFiniteSet(Numbers)
    /\ \A i \in Numbers : Blocks[i].phase = 0 <=> i = 1
    /\ \A i \in Numbers : Blocks[i].phase \in Nat /\ Blocks[i].tasks \subseteq Tasks
    /\ \A i, j \in Numbers : i <= j => Blocks[i].phase <= Blocks[j].phase
    /\ \A t \in Tasks : \E i \in Numbers : t \in Blocks[i].tasks
    /\ \A i, j \in Numbers : Blocks[i].tasks \cap Blocks[j].tasks # {} => i = j

(* dependencies: <<u, w>>, w placed before u, out of its parallel group,   *)
(* writes what u reads. What u reads of a later task, or of one that runs  *)
(* beside it, it declares as read of the previous run.                     *)
Dependencies ==
    {c \in Tasks \X Tasks : BlockOf(c[2]) < BlockOf(c[1]) /\ Reads[c[1]] \cap Writes[c[2]] # {}}

(* The tasks of the harvest are one parallel group.                        *)
ASSUME HarvestAssumption == \A i \in Numbers : Blocks[i].phase = PhaseOf(Hal) => i = BlockOf(Hal)

(* --only names a phase; --from names the first one.                       *)
ASSUME OptionsAssumption ==
    \A o \in Options :
        /\ DOMAIN o = {"from", "only", "extras", "daily", "sources", "years"}
        /\ o.from \in 1..LastPhase /\ o.only \in (1..LastPhase) \cup {None}
        /\ {o.extras, o.daily} \subseteq BOOLEAN /\ o.years \subseteq Docs
ASSUME BoundsAssumption ==
    /\ MaxDay \in Nat /\ MaxStops \in Nat /\ Fallback \in Nat
    /\ LastPhase \in Nat \ {0} /\ Hal \in Tasks \ FullOnly /\ FullOnly \subseteq Tasks
    /\ None \notin Launches /\ None \notin Int /\ None \notin Options

VARIABLES
    lock,           \* holder of pg_advisory_lock
    pc,             \* off, ready, waiting for the block, failing, leaving
    options,        \* options of each launch, None when it is off
    at,             \* its block
    live,           \* tasks its threads run
    started,        \* day its phase started
    signalled,      \* its phase has signals
    fetching,       \* documents its harvest has still to receive
    owed,           \* <<u, w>>: w wrote what u reads since u last ran
    aside,          \* those that the options of a run have left aside since
    stray,          \* tasks ended by threads their process had not waited for
    named,          \* phase that the log names to resume, the one after the last when the run ended
    day,
    changed,        \* day of the last change of each document that staging has not, None without one
    bound,          \* last_daily_extract_date
    behind,         \* documents that the daily harvests that moved it had left aside
    stops

process == <<pc, options, at, live, started, signalled, fetching>>
harvested == <<changed, bound, behind>>
tables == <<owed, aside, stray, harvested>>
vars == <<lock, process, tables, named, day, stops>>

------------------------------------------------------------------------------
(* Selection of phases and tasks                                           *)

(* _select_phases_to_run; the orchestrator's own task always runs.         *)
Selected(o) ==
    {0} \cup IF o.only # None THEN {o.only}
             ELSE {f \in o.from..LastPhase : o.extras \/ f \notin Extra}

(* The block that follows the block i in a run with the options o.         *)
After(o, i) ==
    LET later == {j \in Numbers : j > i /\ Blocks[j].phase \in Selected(o)}
    IN  IF later = {} THEN None ELSE CHOOSE j \in later : \A k \in later : j <= k

(* Task.when and Phase.when: the mode and --sources.                       *)
Runs(o, t) ==
    /\ o.daily => t \notin FullOnly
    /\ SourceOf[t] \in o.sources \cup {None}

TasksOf(o, i) == {t \in Blocks[i].tasks : Runs(o, t)}
Asks(o, t) == PhaseOf(t) \in Selected(o) /\ Runs(o, t)

(* Mutant: the phase that follows the one that stopped.                    *)
NextNamed(f) == IF f = 0 THEN named ELSE f + 1

(* Pour reprendre, or without it the last title: the phase f in which the  *)
(* run stopped. Before its first one the log names none.                   *)
Named(f) == IF f = 0 THEN named ELSE f

------------------------------------------------------------------------------
Init ==
    /\ lock = None
    /\ pc = [p \in Launches |-> "off"]
    /\ options = [p \in Launches |-> None]
    /\ at = [p \in Launches |-> 1]
    /\ live = [p \in Launches |-> {}]
    /\ started = [p \in Launches |-> 0]
    /\ signalled = [p \in Launches |-> FALSE]
    /\ fetching = [p \in Launches |-> {}]
    /\ owed = {} /\ aside = {} /\ stray = {} /\ named = LastPhase + 1
    /\ day = 0 /\ changed = [d \in Docs |-> None] /\ bound = None /\ behind = {}
    /\ stops = 0

(* Mutant: the lock is taken as acquired.                                  *)
LaunchAnyway(p, o) ==
    /\ pc[p] = "off"
    /\ lock' = p
    /\ pc' = [pc EXCEPT ![p] = "ready"]
    /\ options' = [options EXCEPT ![p] = o]
    /\ at' = [at EXCEPT ![p] = 1]
    /\ started' = [started EXCEPT ![p] = day]
    /\ signalled' = [signalled EXCEPT ![p] = FALSE]
    /\ UNCHANGED <<live, fetching, tables, named, day, stops>>

(* main, under pipeline_lock: a launch that does not get the lock ends.    *)
Launch(p, o) ==
    /\ pc[p] = "off" /\ lock = None
    /\ lock' = p
    /\ pc' = [pc EXCEPT ![p] = "ready"]
    /\ options' = [options EXCEPT ![p] = o]
    /\ at' = [at EXCEPT ![p] = 1]
    /\ started' = [started EXCEPT ![p] = day]
    /\ signalled' = [signalled EXCEPT ![p] = FALSE]
    /\ UNCHANGED <<live, fetching, tables, named, day, stops>>

(* --sources and --years.                                                  *)
Asked(o) == IF SourceOf[Hal] \in o.sources THEN o.years ELSE {}

(* _since_last_daily and HalHarvester.run: the documents a harvest that    *)
(* starts now will receive.                                                *)
Window(o) ==
    LET since == IF bound = None THEN day - Fallback ELSE bound
    IN  {d \in Asked(o) : changed[d] # None /\ (o.daily => changed[d] >= since)}

(* What changed before the days that a harvest goes back when it has no    *)
(* other on record.                                                        *)
TooOld(o) == IF bound = None THEN {d \in Asked(o) : changed[d] # None} \ Window(o) ELSE {}

(* Of the tasks W, those with a reader that has not run since.             *)
Unread(pairs, W) == {w \in W : \E u \in Tasks : <<u, w>> \in pairs}

(* execute_tasks: the tasks of the block start, each in a thread.          *)
StartBlock(p) ==
    LET started_now == TasksOf(options[p], at[p])
    IN  /\ pc[p] = "ready"
        /\ pc' = [pc EXCEPT ![p] = "waiting"]
        /\ live' = [live EXCEPT ![p] = started_now]
        /\ owed' = {c \in owed : c[1] \notin started_now}
        /\ aside' = aside \cap owed'
        /\ stray' = Unread(owed', stray)
        /\ fetching' = [fetching EXCEPT ![p] =
                            IF Hal \in started_now THEN Window(options[p]) ELSE {}]
        /\ behind' = IF Hal \in started_now THEN behind \cup TooOld(options[p]) ELSE behind
        /\ UNCHANGED <<lock, options, at, started, signalled, named, day, changed, bound, stops>>

------------------------------------------------------------------------------
(* Tasks                                                                   *)

(* What every reader of w has to read again, and what t has not done. What *)
(* the orchestrator's task writes only changes with the administration.    *)
Written(w) == {c \in Dependencies : c[2] = w /\ PhaseOf(w) > 0}
Undone(t) == {c \in Dependencies : c[1] = t}

Owe(pairs) ==
    /\ owed' = owed \cup pairs
    /\ aside' = aside \ pairs

(* A task of p ends, having written.                                       *)
Ends(p, t, failed) ==
    /\ live' = [live EXCEPT ![p] = @ \ {t}]
    /\ Owe(Written(t) \cup IF failed THEN Undone(t) ELSE {})
    /\ stray' = Unread(owed', IF pc[p] = "leaving" THEN stray \cup {t} ELSE stray)
    /\ fetching' = IF t = Hal THEN [fetching EXCEPT ![p] = {}] ELSE fetching

(* stage_pages: a page of the harvest is written and committed.            *)
Fetch(p, d) ==
    /\ Hal \in live[p] /\ d \in fetching[p]
    /\ changed' = [changed EXCEPT ![d] = None]
    /\ behind' = behind \ {d}
    /\ fetching' = [fetching EXCEPT ![p] = @ \ {d}]
    /\ UNCHANGED <<lock, pc, options, at, live, started, signalled, owed, aside, stray, named, day, bound, stops>>

(* _harvest_by_year: an error on a year is logged, without a signal.       *)
SkipYear(p, d) ==
    /\ Hal \in live[p] /\ ~ options[p].daily /\ d \in fetching[p] /\ stops < MaxStops
    /\ fetching' = [fetching EXCEPT ![p] = @ \ {d}]
    /\ stops' = stops + 1
    /\ UNCHANGED <<lock, pc, options, at, live, started, signalled, tables, named, day>>

TaskEnds(p, t) ==
    /\ t \in live[p] /\ (t = Hal => fetching[p] = {})
    /\ Ends(p, t, FALSE)
    /\ UNCHANGED <<lock, pc, options, at, started, signalled, named, day, harvested, stops>>

(* access_source: a source that is cut ends its task with a signal.        *)
Unavailable(p) ==
    /\ Hal \in live[p] /\ stops < MaxStops
    /\ Ends(p, Hal, FALSE)
    /\ signalled' = [signalled EXCEPT ![p] = TRUE]
    /\ stops' = stops + 1
    /\ UNCHANGED <<lock, pc, options, at, started, named, day, harvested>>

(* run_parallel: an exception reaches the main thread, which waits for the *)
(* other threads before it goes on.                                        *)
TaskFails(p, t) ==
    /\ t \in live[p] /\ stops < MaxStops
    /\ Ends(p, t, pc[p] # "leaving")
    /\ pc' = [pc EXCEPT ![p] = IF @ = "waiting" THEN "failing" ELSE @]
    /\ stops' = stops + 1
    /\ UNCHANGED <<lock, options, at, started, signalled, named, day, harvested>>

------------------------------------------------------------------------------
(* Phases                                                                  *)

(* Mutant: the day the phase ends.                                         *)
RecordedAtEnd(p, traced) ==
    IF /\ traced /\ options[p].daily /\ Blocks[at[p]].phase = PhaseOf(Hal) /\ ~ signalled[p]
    THEN day ELSE bound

(* Mutant: the day after the one the phase started.                        *)
RecordedNextDay(p, traced) ==
    IF /\ traced /\ options[p].daily /\ Blocks[at[p]].phase = PhaseOf(Hal) /\ ~ signalled[p]
    THEN started[p] + 1 ELSE bound

(* PhaseExecutionRecorder.record and last_daily_extract_date: the harvest  *)
(* of a daily run that ended without a signal.                             *)
Recorded(p, traced) ==
    IF /\ traced /\ options[p].daily /\ Blocks[at[p]].phase = PhaseOf(Hal)
       /\ ~ signalled[p] /\ (bound = None \/ bound <= started[p])
    THEN started[p] ELSE bound

(* The process ends.                                                       *)
Off(p) ==
    /\ pc' = [pc EXCEPT ![p] = "off"]
    /\ options' = [options EXCEPT ![p] = None]
    /\ at' = [at EXCEPT ![p] = 1]
    /\ started' = [started EXCEPT ![p] = 0]
    /\ signalled' = [signalled EXCEPT ![p] = FALSE]

(* What the options o left aside when the run passes to the block next, or *)
(* when it ends.                                                           *)
LeftAside(o, next) ==
    {c \in owed : ~ Asks(o, c[1]) /\ (next # None => BlockOf(c[1]) < next)}

(* The block is over: the next one, the next phase, or the end of the run. *)
BlockEnds(p, traced) ==
    LET next == After(options[p], at[p])
        over == next = None \/ Blocks[next].phase # Blocks[at[p]].phase
    IN  /\ pc[p] = "waiting" /\ live[p] = {}
        /\ aside' = aside \cup LeftAside(options[p], next)
        /\ bound' = IF over THEN Recorded(p, traced) ELSE bound
        /\ behind' = IF bound' = bound THEN behind
                     ELSE behind \cup {d \in Docs \ Asked(options[p]) : changed[d] # None}
        /\ IF next = None
           THEN /\ Off(p)
                /\ lock' = None
                /\ named' = LastPhase + 1
           ELSE /\ pc' = [pc EXCEPT ![p] = "ready"]
                /\ at' = [at EXCEPT ![p] = next]
                /\ started' = IF over THEN [started EXCEPT ![p] = day] ELSE started
                /\ signalled' = IF over THEN [signalled EXCEPT ![p] = FALSE] ELSE signalled
                /\ UNCHANGED <<options, lock, named>>
        /\ UNCHANGED <<live, fetching, owed, stray, day, changed, stops>>

(* The block of the lock is left: the run is over.                         *)
Release(p) ==
    /\ lock' = IF lock = p THEN None ELSE lock
    /\ named' = IF pc[p] = "leaving" THEN named ELSE Named(Blocks[at[p]].phase)

(* _stop_on_failure: the phase is recorded as failed, and sys.exit.        *)
StopOnFailure(p) ==
    /\ pc[p] = "failing" /\ live[p] = {}
    /\ Release(p) /\ Off(p)
    /\ UNCHANGED <<live, fetching, tables, day, stops>>

(* KeyboardInterrupt or SIGTERM in the main thread: the task of a block of *)
(* one runs there; the threads of a larger one go on.                      *)
Interrupt(p) ==
    /\ pc[p] \in {"ready", "waiting"} /\ stops < MaxStops
    /\ pc' = [pc EXCEPT ![p] = "failing"]
    /\ stops' = stops + 1
    /\ IF Cardinality(TasksOf(options[p], at[p])) = 1 /\ live[p] # {}
       THEN \E t \in live[p] : Ends(p, t, TRUE)
       ELSE UNCHANGED <<live, owed, aside, stray, fetching>>
    /\ UNCHANGED <<lock, options, at, started, signalled, named, day, harvested>>

(* A second one while the pool waits for its threads: the lock is released *)
(* and they go on until the process has ended; the next run counts on none *)
(* of them.                                                                *)
InterruptAgain(p) ==
    /\ pc[p] = "failing" /\ live[p] # {} /\ stops < MaxStops
    /\ Release(p)
    /\ pc' = [pc EXCEPT ![p] = "leaving"]
    /\ stops' = stops + 1
    /\ Owe(UNION {Undone(t) : t \in live[p]})
    /\ UNCHANGED <<options, at, live, started, signalled, fetching, stray, harvested, day>>

Leave(p) ==
    /\ pc[p] = "leaving" /\ live[p] = {}
    /\ Off(p)
    /\ UNCHANGED <<lock, live, fetching, tables, named, day, stops>>

(* The process is killed: its sessions close, its lock is released.        *)
Kill(p) ==
    /\ pc[p] # "off" /\ stops < MaxStops
    /\ Release(p) /\ Off(p)
    /\ stops' = stops + 1
    /\ live' = [live EXCEPT ![p] = {}]
    /\ fetching' = [fetching EXCEPT ![p] = {}]
    /\ Owe(UNION {Written(t) \cup IF pc[p] = "leaving" THEN {} ELSE Undone(t) : t \in live[p]})
    /\ stray' = Unread(owed', IF pc[p] = "leaving" THEN stray \cup live[p] ELSE stray)
    /\ UNCHANGED <<day, harvested>>

------------------------------------------------------------------------------
(* The source and the days                                                 *)

Modify(d) ==
    /\ changed' = [changed EXCEPT ![d] = day]
    /\ behind' = behind \ {d}
    /\ UNCHANGED <<lock, process, owed, aside, stray, named, day, bound, stops>>

Tick ==
    /\ day < MaxDay
    /\ day' = day + 1
    /\ UNCHANGED <<lock, process, tables, named, stops>>

Steps(p) ==
    \/ StartBlock(p) \/ StopOnFailure(p) \/ Leave(p)
    \/ \E traced \in BOOLEAN : BlockEnds(p, traced)
    \/ \E d \in Docs : Fetch(p, d)
    \/ \E t \in Tasks : TaskEnds(p, t)

Mishaps(p) ==
    \/ Unavailable(p) \/ Interrupt(p) \/ InterruptAgain(p) \/ Kill(p)
    \/ \E d \in Docs : SkipYear(p, d)
    \/ \E t \in Tasks : TaskFails(p, t)

Next ==
    \/ \E p \in Launches : Steps(p) \/ Mishaps(p) \/ \E o \in Options : Launch(p, o)
    \/ \E d \in Docs : Modify(d)
    \/ Tick

Spec == Init /\ [][Next]_vars

------------------------------------------------------------------------------
(* Properties                                                              *)

(* Each variable keeps its type; the holder of the lock is a process that  *)
(* runs or waits for its threads.                                          *)
TypeOK ==
    /\ lock \in Launches \cup {None}
    /\ pc \in [Launches -> {"off", "ready", "waiting", "failing", "leaving"}]
    /\ options \in [Launches -> Options \cup {None}]
    /\ at \in [Launches -> Numbers]
    /\ live \in [Launches -> SUBSET Tasks]
    /\ started \in [Launches -> 0..day]
    /\ signalled \in [Launches -> BOOLEAN]
    /\ fetching \in [Launches -> SUBSET Docs]
    /\ owed \subseteq Dependencies /\ aside \subseteq owed /\ stray \subseteq Tasks
    /\ named \in 1..LastPhase + 1
    /\ day \in 0..MaxDay
    /\ changed \in [Docs -> (0..day) \cup {None}]
    /\ bound \in (0..day) \cup {None} /\ behind \subseteq Docs
    /\ stops \in 0..MaxStops

(* pipeline_lock, around threads that run_parallel waits for: two runs     *)
(* have tasks at the same time only if one was interrupted again while it  *)
(* waited for its threads.                                                 *)
OneRunAtATime ==
    \A p, q \in Launches :
        live[p] # {} /\ live[q] # {} /\ p # q => "leaving" \in {pc[p], pc[q]}

(* The phase that _stop_on_failure names is where to resume: whatever      *)
(* failed, was interrupted or killed, and wherever former runs had stopped *)
(* or resumed, when no run holds the lock the tasks of the phases before   *)
(* the one named have read what earlier ones wrote, and those of all       *)
(* phases after a run that ended; but what the options of a run (--from,   *)
(* --only, --no-extras, --sources, the mode) left aside since it was       *)
(* written, which no log recalls, and what threads wrote that nothing      *)
(* waited for.                                                             *)
EarlierPhasesAreDone ==
    lock = None => \A c \in owed \ aside : PhaseOf(c[1]) < named => c[2] \in stray

(* last_daily_extract_date never passes a change that staging has not, so  *)
(* that the next incremental harvest receives it; but a daily run that     *)
(* --sources or --years restricts is recorded as any other, and leaves the *)
(* changes it has not asked for behind the bound, and the first one leaves *)
(* there those made before the days it goes back.                          *)
ChangesAreAhead ==
    bound # None =>
        \A d \in Docs \ behind : changed[d] # None => changed[d] >= bound
===============================================================================

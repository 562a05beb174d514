----------------------- MODULE MetadataCorrectionProofs -----------------------
(***************************************************************************)
(* Proofs about MetadataCorrection, for any records, identifiers, stocks   *)
(* and bounds: its types, that the values of the source are never lost     *)
(* except by an update of values read too early, that no step changes what *)
(* the reconciliation reads of a record without marking it, and that an    *)
(* undisturbed run tells a chapter from the books it is no part of.        *)
(***************************************************************************)
EXTENDS MetadataCorrection, FiniteSetTheorems, TLAPS

------------------------------------------------------------------------------
(* Types of the updates                                                    *)

(* A record's values before correction have the types of its columns.      *)
LEMMA RawTypes ==
    ASSUME NEW x \in Rows
    PROVE  /\ Raw(x, "type") \in Types \cup {None}
           /\ Raw(x, "urls") \in SUBSET (Archives \cup Deposits)
           /\ Raw(x, "serial") \in Serials \cup {None}
<1>1. x.raw \in RawValues
  BY DEF Rows
<1>2. Raw(x, "type") \in Types \cup {None}
  <2>1. x.type \in Types \cup {None} /\ x.raw.type \in Types \cup {None, Unset}
    BY <1>1 DEF Rows, RawValues
  <2> QED BY <2>1 DEF Raw
<1>3. Raw(x, "urls") \in SUBSET (Archives \cup Deposits)
  <2>1. x.urls \in SUBSET (Archives \cup Deposits) /\ x.raw.urls \in (SUBSET (Archives \cup Deposits)) \cup {Unset}
    BY <1>1 DEF Rows, RawValues
  <2> QED BY <2>1 DEF Raw
<1>4. Raw(x, "serial") \in Serials \cup {None}
  <2>1. x.serial \in Serials \cup {None} /\ x.raw.serial \in Serials \cup {None, Unset}
    BY <1>1 DEF Rows, RawValues
  <2> QED BY <2>1 DEF Raw
<1> QED BY <1>2, <1>3, <1>4

(* The rules give types of documents.                                      *)
LEMMA TypeAfterType ==
    ASSUME NEW x \in Rows, NEW rule
    PROVE  TypeAfter(rule, x) \in Types \cup {None}
<1>1. CASE rule \in DOMAIN TypeByRule
  <2>1. rule \in 1..11
    BY <1>1 DEF TypeByRule
  <2>2. TypeByRule[rule] \in Types
    BY <2>1, SMT DEF TypeByRule, Types
  <2> QED BY <1>1, <2>2 DEF TypeAfter
<1>2. CASE rule \notin DOMAIN TypeByRule
  BY <1>2, RawTypes DEF TypeAfter
<1> QED BY <1>1, <1>2

(* with_removals keeps a status for each identifier.                       *)
LEMMA WithRemovalsType ==
    ASSUME NEW s \in Statuses, NEW owned, NEW removals,
           \A i \in Ids : removals[i] \in Cases \cup {None}
    PROVE  WithRemovals(s, owned, removals) \in Statuses
BY DEF WithRemovals, Statuses

(* The update of the unary correction has the types of the columns.        *)
LEMMA UnaryUpdateType ==
    ASSUME TypeOK, NEW r \in Records, NEW types
    PROVE  UnaryUpdate(r, types) \in UnaryUpdates
<1> DEFINE x == row[r]
           rule == RuleOfRecord(r, types)
           origin == OriginType(r, types)
           ruled == TypeAfter(rule, x)
           type == IF origin = None THEN ruled ELSE origin
           missing == Held(facts[r]) \cap world.missing
           urls == IF missing = {} THEN Raw(x, "urls") ELSE Raw(x, "urls") \ world.missing
           removals == [i \in Ids |-> IF rule = ThesisToArticle /\ i \in Held(facts[r]) \cap Dissertations
                                        THEN "thesis to article"
                                      ELSE IF i \in missing THEN "deposit missing" ELSE None]
<1>1. x \in Rows /\ status[r] \in Statuses /\ facts[r] \in Facts
  BY DEF TypeOK
<1>2. ruled \in Types \cup {None}
  BY <1>1, TypeAfterType
<1>3. origin \in Types \cup {None}
  <2>1. CASE facts[r].source # "scanr" \/ facts[r].origin = None
    BY <2>1 DEF OriginType
  <2>2. CASE ~ (facts[r].source # "scanr" \/ facts[r].origin = None)
    <3>1. facts[r].origin \in Records
      BY <1>1, <2>2 DEF Facts
    <3>2. row[facts[r].origin] \in Rows
      BY <3>1 DEF TypeOK
    <3>3. TypeAfter(RuleOfRecord(facts[r].origin, types), row[facts[r].origin]) \in Types \cup {None}
      BY <3>2, TypeAfterType
    <3> QED BY <2>2, <3>3 DEF OriginType
  <2> QED BY <2>1, <2>2
<1>4. type \in Types \cup {None}
  BY <1>2, <1>3
<1>5. urls \in SUBSET (Archives \cup Deposits)
  BY <1>1, RawTypes
<1>6. removals \in [Ids -> Cases \cup {None}]
  BY DEF Cases, UnaryCases
<1>7. WithRemovals(status[r], UnaryCases, removals) \in Statuses
  <2> HIDE DEF removals
  <2> QED BY <1>1, <1>6, WithRemovalsType
<1>8. /\ Stash(x, "type", {ruled, type} # {Raw(x, "type")}) \in Types \cup {None, Unset}
      /\ Stash(x, "urls", Raw(x, "urls") # urls) \in (SUBSET (Archives \cup Deposits)) \cup {Unset}
  BY <1>1, RawTypes DEF Stash
<1>9. x.raw.serial \in Serials \cup {None, Unset}
  BY <1>1 DEF Rows, RawValues
<1>10. UnaryUpdate(r, types) =
           [type |-> type, urls |-> urls,
            raw |-> [type |-> Stash(x, "type", {ruled, type} # {Raw(x, "type")}),
                     urls |-> Stash(x, "urls", Raw(x, "urls") # urls), serial |-> x.raw.serial],
            status |-> WithRemovals(status[r], UnaryCases, removals)]
  BY DEF UnaryUpdate, UnaryUpdateBy
<1> QED
  <2> HIDE DEF x, rule, origin, ruled, type, missing, urls, removals
  <2> QED BY <1>4, <1>5, <1>7, <1>8, <1>9, <1>10 DEF UnaryUpdates, RawValues

(* The serial by DOI is one of the serials, or the one before correction.  *)
LEMMA SerialUpdateType ==
    ASSUME TypeOK, NEW r \in Records
    PROVE  SerialUpdate(r) \in SerialUpdates
<1> DEFINE designated == Designated(facts[r], status[r], world.namespace)
           takes == TakesSerial(facts[r], row[r], designated)
           chosen == IF takes THEN CHOOSE s \in designated : TRUE ELSE Raw(row[r], "serial")
           raw == [row[r].raw EXCEPT !.serial = IF takes THEN None ELSE Unset]
<1>1. row[r] \in Rows /\ row[r].raw \in RawValues
  BY DEF TypeOK, Rows
<1>2. designated \subseteq Serials
  <2>1. world.namespace \in [Dois -> Serials \cup {None}]
    BY DEF TypeOK, Worlds
  <2>2. NamespaceDois(facts[r], status[r]) \subseteq Dois
    BY DEF NamespaceDois, OwnDois
  <2> QED BY <2>1, <2>2 DEF Designated
<1>3. chosen \in Serials \cup {None}
  <2>1. CASE takes
    <3>1. Cardinality(designated) = 1
      BY <2>1 DEF TakesSerial
    <3>2. designated # {}
      BY <3>1, FS_EmptySet
    <3> HIDE DEF designated
    <3>3. (CHOOSE s \in designated : TRUE) \in designated
      BY <3>2
    <3> QED BY <2>1, <3>3, <1>2
  <2>2. CASE ~ takes
    <3> HIDE DEF takes
    <3> QED BY <2>2, <1>1, RawTypes
  <2> QED BY <2>1, <2>2
<1>4. raw \in RawValues
  <2> HIDE DEF takes
  <2> QED BY <1>1 DEF RawValues
<1>5. SerialUpdate(r) = [serial |-> chosen, raw |-> raw]
  BY DEF SerialUpdate, SerialUpdateBy
<1> QED
  <2> HIDE DEF chosen, raw
  <2> QED BY <1>3, <1>4, <1>5 DEF SerialUpdates

(* The groups of one DOI give a status to each identifier.                 *)
LEMMA ClusterStatusType ==
    ASSUME TypeOK, NEW r \in Records
    PROVE  ClusterStatus(r) \in Statuses
<1> DEFINE groups == {d \in Dois : r \in Holders(d) /\ Candidate(d)}
           m == Member(r)
           lostKeys == UNION {LostKeys(Group(d), Separated(d), m) : d \in groups}
           removals == [i \in Ids |-> IF i \in groups /\ i \in world.unresolved THEN "unresolved"
                                      ELSE IF i \in lostKeys \/ (i \in groups /\ m \in Separated(i)) THEN "another work"
                                      ELSE None]
<1>1. status[r] \in Statuses /\ m.id = r
  BY DEF TypeOK, Member
<1>2. \A i \in Ids : removals[i] \in Cases \cup {None}
  <2> HIDE DEF groups, m, lostKeys
  <2> QED BY DEF Cases, ClusterCases
<1>3. WithRemovals(status[r], ClusterCases, removals) \in Statuses
  <2> HIDE DEF removals
  <2> QED BY <1>1, <1>2, WithRemovalsType
<1>4. ClusterStatus(r) = IF groups = {} THEN status[m.id] ELSE WithRemovals(status[m.id], ClusterCases, removals)
  BY DEF ClusterStatus, ClusterStatusIn
<1> QED
  <2> HIDE DEF groups, m, removals
  <2> QED BY <1>1, <1>3, <1>4

(* The kinds of updates of the sub-steps.                                  *)
LEMMA UpdatesOfTasks ==
    /\ Updates("serial_by_doi") = SerialUpdates
    /\ Updates("unary") = UnaryUpdates
    /\ Updates("remove_identifiers") = StatusUpdates
    /\ Updates("matchable") = MatchableUpdates
BY DEF Updates

(* What a sub-step computes has the type of its updates.                   *)
LEMMA ComputedType ==
    ASSUME TypeOK, NEW t \in Tasks \ {"doi_targets"}
    PROVE  Computed(t) \in [Records -> Updates(t) \cup {None}]
<1>1. CASE t = "serial_by_doi"
  <2>1. \A r \in Records : SerialUpdate(r) \in SerialUpdates
    BY SerialUpdateType
  <2> QED BY <1>1, <2>1, UpdatesOfTasks DEF Computed, UnlessSame
<1>2. CASE t = "unary"
  <2>1. \A r \in Records : UnaryUpdate(r, serialType) \in UnaryUpdates
    BY UnaryUpdateType
  <2> QED BY <1>2, <2>1, UpdatesOfTasks DEF Computed, UnlessSame
<1>3. CASE t = "remove_identifiers"
  <2>1. \A r \in Records : [status |-> ClusterStatus(r)] \in StatusUpdates
    BY ClusterStatusType DEF StatusUpdates
  <2> QED BY <1>3, <2>1, UpdatesOfTasks DEF Computed, UnlessSame
<1>4. CASE t = "matchable"
  <2>1. \A r \in Records :
            [matchable |-> IsMatchable(facts[r], row[r], status[r], TargetRecorded(r))] \in MatchableUpdates
    BY DEF MatchableUpdates, IsMatchable
  <2> QED BY <1>4, <2>1, UpdatesOfTasks DEF Computed, UnlessSame
<1> QED BY <1>1, <1>2, <1>3, <1>4 DEF Tasks

(* The target of a DOI is a DOI a record declares.                         *)
LEMMA DeclaredTargetType ==
    ASSUME TypeOK, NEW d \in Dois
    PROVE  DeclaredTarget(d) \in Dois \cup {None}
<1> DEFINE among(r) == {n \in {CHOOSE m \in Declarations(r) : TRUE} : n.own = d /\ SameWork(n.rule, row[r].type, d, n.doi)}
           uniting == UNION {among(r) : r \in {q \in Records : Declarations(q) # {}}}
<1>1. ASSUME NEW r \in Records, NEW n \in Declarations(r)
      PROVE  n.doi \in Dois
  <2>1. facts[r].relations \subseteq [rule : {"version", "variant", "piece"}, doi : Dois]
    BY DEF TypeOK, Facts
  <2>2. PICK e \in Dois, m \in facts[r].relations : n = [own |-> e, rule |-> m.rule, doi |-> m.doi]
    BY <1>1 DEF Declarations
  <2> QED BY <2>1, <2>2
<1>2. ASSUME NEW n \in uniting
      PROVE  n.doi \in Dois
  <2>1. PICK r \in Records : Declarations(r) # {} /\ n \in among(r)
    OBVIOUS
  <2>2. n \in Declarations(r)
    BY <2>1
  <2> QED BY <2>2, <1>1
<1>3. DeclaredTarget(d) = IF uniting = {} THEN None ELSE (CHOOSE n \in uniting : TRUE).doi
  BY DEF DeclaredTarget
<1> QED
  <2> HIDE DEF uniting
  <2> QED BY <1>2, <1>3

------------------------------------------------------------------------------
(* Types, one lemma for each group of actions                              *)

LEMMA Bounds == MaxChanges \in Nat /\ SettlingRuns \in Nat \ {0}
BY CorrectionConstants

(* A change of the world counts among the bounded ones.                    *)
LEMMA DisturbsTypes ==
    ASSUME TypeOK, Disturbs
    PROVE  changes' \in 0..MaxChanges /\ undisturbed' \in BOOLEAN /\ quiet' \in 0..SettlingRuns
<1>1. changes \in 0..MaxChanges
  BY DEF TypeOK
<1>2. changes' \in 0..MaxChanges
  BY <1>1, Bounds DEF Disturbs
<1>3. undisturbed' \in BOOLEAN
  BY DEF Disturbs
<1>4. quiet' \in 0..SettlingRuns
  BY Bounds DEF Disturbs
<1> QED BY <1>2, <1>3, <1>4

LEMMA InitTypes == Init => TypeOK
<1> SUFFICES ASSUME Init PROVE TypeOK
  OBVIOUS
<1>1. facts \in [Records -> Facts]
  BY CorrectionConstants DEF Init
<1>2. row \in [Records -> Rows]
  <2>1. ASSUME NEW r \in Records PROVE Fresh(facts[r]) \in Rows
    <3>1. facts[r].type \in Types \cup {None} /\ facts[r].urls \in SUBSET (Archives \cup Deposits)
      BY <1>1 DEF Facts
    <3>2. NoRaw \in RawValues
      BY DEF NoRaw, RawValues
    <3> QED BY <3>1, <3>2 DEF Fresh, Rows
  <2> QED BY <2>1 DEF Init
<1>3. status \in [Records -> Statuses] /\ targets \in [Dois -> Dois \cup {None}]
  BY DEF Init, NoRemoval, Statuses
<1>4. serialType \in [Serials -> SerialTypes]
  BY DEF Init, SerialTypes
<1>5. world \in Worlds
  BY DEF Init, Worlds
<1>6. pending \in [Records -> Updates(task) \cup {None}]
  BY DEF Init, NoPending
<1>7. task \in Tasks \cup {"idle"} /\ request \in Requests \cup {None}
  BY DEF Init
<1>8. marked \subseteq Records /\ collided \subseteq Records
  BY DEF Init
<1>9. undisturbed \in BOOLEAN /\ quiet \in 0..SettlingRuns /\ changes \in 0..MaxChanges
  BY Bounds DEF Init
<1> QED BY <1>1, <1>2, <1>3, <1>4, <1>5, <1>6, <1>7, <1>8, <1>9 DEF TypeOK

(* Nothing is pending in a sub-step that starts or in none.                *)
LEMMA NothingIsTyped ==
    ASSUME NEW t PROVE NoPending \in [Records -> Updates(t) \cup {None}]
BY DEF NoPending

LEMMA RenormalizeTypes ==
    ASSUME TypeOK, NEW r \in Records, Renormalize(r) PROVE TypeOK'
<1>1. facts' \in [Records -> Facts]
  BY CorrectionConstants DEF Renormalize
<1>2. row' \in [Records -> Rows]
  <2>1. facts'[r].type \in Types \cup {None} /\ facts'[r].urls \in SUBSET (Archives \cup Deposits)
    BY <1>1 DEF Facts
  <2>2. NoRaw \in RawValues
    BY DEF NoRaw, RawValues
  <2>3. row[r] \in Rows
    BY DEF TypeOK
  <2>4. [row[r] EXCEPT !.type = facts'[r].type, !.urls = facts'[r].urls, !.raw = NoRaw] \in Rows
    BY <2>1, <2>2, <2>3 DEF Rows
  <2> QED BY <2>4 DEF TypeOK, Renormalize
<1>3. NoRemoval \in Statuses
  BY DEF NoRemoval, Statuses
<1>4. status' \in [Records -> Statuses]
  BY <1>3 DEF TypeOK, Renormalize
<1>5. request' \in Requests \cup {None}
  <2>1. CASE request = None
    BY <2>1 DEF Renormalize
  <2>2. CASE request # None
    <3>1. request \in Requests
      BY <2>2 DEF TypeOK
    <3> QED BY <2>2, <3>1 DEF Renormalize, Requests
  <2> QED BY <2>1, <2>2
<1>6. changes' \in 0..MaxChanges /\ undisturbed' \in BOOLEAN /\ quiet' \in 0..SettlingRuns
  BY DisturbsTypes DEF Renormalize
<1> QED BY <1>1, <1>2, <1>4, <1>5, <1>6 DEF TypeOK, Renormalize, phaseVars

LEMMA AttachTypes ==
    ASSUME TypeOK, Attach PROVE TypeOK'
<1> DEFINE moved == {r \in Records : Raw(row[r], "serial") # facts[r].serial}
           attached(r) == IF row[r].raw.serial = Unset
                            THEN [row[r] EXCEPT !.serial = facts[r].serial]
                          ELSE [row[r] EXCEPT !.serial = IF facts[r].serial = None THEN @ ELSE facts[r].serial,
                                              !.raw.serial = facts[r].serial]
<1>1. ASSUME NEW r \in Records PROVE attached(r) \in Rows
  <2>1. row[r] \in Rows /\ row[r].raw \in RawValues /\ row[r].serial \in Serials \cup {None}
    BY DEF TypeOK, Rows
  <2>2. facts[r].serial \in Serials \cup {None}
    BY DEF TypeOK, Facts
  <2>3. [row[r] EXCEPT !.serial = facts[r].serial] \in Rows
    BY <2>1, <2>2 DEF Rows
  <2> DEFINE raw == [row[r].raw EXCEPT !.serial = facts[r].serial]
             serial == IF facts[r].serial = None THEN row[r].serial ELSE facts[r].serial
  <2>4. raw \in RawValues /\ serial \in Serials \cup {None}
    BY <2>1, <2>2 DEF RawValues
  <2>5. [row[r] EXCEPT !.serial = serial, !.raw = raw] \in Rows
    <3> HIDE DEF raw, serial
    <3> QED BY <2>1, <2>4 DEF Rows
  <2>6. [row[r] EXCEPT !.serial = IF facts[r].serial = None THEN @ ELSE facts[r].serial, !.raw.serial = facts[r].serial]
        = [row[r] EXCEPT !.serial = serial, !.raw = raw]
    BY <2>1 DEF Rows
  <2> QED BY <2>3, <2>5, <2>6
<1>2. row' = [r \in Records |-> IF r \in moved THEN attached(r) ELSE row[r]]
  BY DEF Attach
<1>3. row' \in [Records -> Rows]
  <2> HIDE DEF moved, attached
  <2> QED BY <1>1, <1>2 DEF TypeOK
<1>4. marked' \subseteq Records
  BY DEF TypeOK, Attach
<1>5. quiet' \in 0..SettlingRuns
  <2>1. quiet' = 0
    BY DEF Attach
  <2> QED BY <2>1, Bounds
<1>6. undisturbed' \in BOOLEAN
  BY DEF Attach
<1> QED BY <1>3, <1>4, <1>5, <1>6 DEF TypeOK, Attach, environmentVars, phaseVars

LEMMA WorldTypes ==
    ASSUME TypeOK, WorldChanges PROVE TypeOK'
<1>1. world \in Worlds
  BY DEF TypeOK
<1>2. world' \in Worlds
  <2>1. ASSUME NEW d \in Dois, NEW s \in Serials \cup {None}, world' = [world EXCEPT !.namespace[d] = s]
        PROVE  world' \in Worlds
    BY <2>1, <1>1 DEF Worlds
  <2>2. ASSUME NEW d \in Dois, world' = [world EXCEPT !.unresolved = @ \cup {d}] \/ world' = [world EXCEPT !.unresolved = @ \ {d}]
        PROVE  world' \in Worlds
    BY <2>2, <1>1 DEF Worlds
  <2>3. ASSUME NEW h \in Deposits, world' = [world EXCEPT !.missing = @ \cup {h}]
        PROVE  world' \in Worlds
    BY <2>3, <1>1 DEF Worlds
  <2>4. ASSUME NEW d \in Dois, world' = [world EXCEPT !.press = @ \cup {Registrant[d]}]
        PROVE  world' \in Worlds
    BY <2>4, <1>1 DEF Worlds
  <2>5. world.unresolved \subseteq Dois
    BY <1>1 DEF Worlds
  <2> QED BY <2>1, <2>2, <2>3, <2>4, <2>5 DEF WorldChanges
<1>3. changes' \in 0..MaxChanges /\ undisturbed' \in BOOLEAN /\ quiet' \in 0..SettlingRuns
  BY DisturbsTypes DEF WorldChanges
<1> QED BY <1>2, <1>3 DEF TypeOK, WorldChanges, recordVars, phaseVars

LEMMA ReconcileTypes ==
    ASSUME TypeOK, Reconcile \/ \E r \in Records, d \in Dois : ReconcileDoi(r, d) PROVE TypeOK'
<1>1. ASSUME Reconcile PROVE TypeOK'
  BY <1>1 DEF TypeOK, Reconcile, environmentVars, phaseVars, auxiliaries
<1>2. ASSUME NEW r \in Records, NEW d \in Dois, ReconcileDoi(r, d) PROVE TypeOK'
  <2>1. status[r] \in Statuses /\ d \in Ids
    BY DEF TypeOK, Ids
  <2>2. [status[r] EXCEPT ![d] = IF @ = None THEN "another publication" ELSE None] \in Statuses
    BY <2>1 DEF Statuses, Cases
  <2>3. status' \in [Records -> Statuses]
    BY <1>2, <2>2 DEF TypeOK, ReconcileDoi
  <2>4. changes' \in 0..MaxChanges /\ undisturbed' \in BOOLEAN /\ quiet' \in 0..SettlingRuns
    BY <1>2, DisturbsTypes DEF ReconcileDoi
  <2> QED BY <1>2, <2>3, <2>4 DEF TypeOK, ReconcileDoi, phaseVars
<1> QED BY <1>1, <1>2

(* A sub-step starts with what it computed.                                *)
LEMMA StartTypes ==
    ASSUME TypeOK, Start PROVE TypeOK'
<1>1. task' \in Tasks \ {"doi_targets"}
  BY DEF Start, Following, Tasks
<1>2. Computed(task') \in [Records -> Updates(task') \cup {None}]
  BY <1>1, ComputedType
<1>3. pending' \in [Records -> Updates(task') \cup {None}] /\ undisturbed' \in BOOLEAN
  BY <1>2 DEF Start, TypeOK
<1> QED BY <1>1, <1>3 DEF TypeOK, Start, recordVars, environmentVars

LEMMA WriteSerialTypes ==
    ASSUME TypeOK, NEW r \in Records, WriteSerial(r) PROVE TypeOK'
<1>1. pending[r] \in SerialUpdates
  BY UpdatesOfTasks DEF TypeOK, WriteSerial
<1>2. row' \in [Records -> Rows]
  <2>1. row[r] \in Rows
    BY DEF TypeOK
  <2>2. [row[r] EXCEPT !.serial = pending[r].serial, !.raw = pending[r].raw] \in Rows
    BY <1>1, <2>1 DEF Rows, SerialUpdates
  <2> QED BY <2>2 DEF TypeOK, WriteSerial
<1>3. pending' \in [Records -> Updates(task') \cup {None}]
  BY DEF TypeOK, WriteSerial
<1> QED BY <1>2, <1>3 DEF TypeOK, WriteSerial, environmentVars

LEMMA CorrectedType ==
    ASSUME NEW x \in Rows, NEW u \in UnaryUpdates
    PROVE  Corrected(x, u) \in Rows
BY DEF Corrected, Rows, UnaryUpdates

LEMMA WriteUnaryTypes ==
    ASSUME TypeOK, NEW r \in Records, WriteUnary(r) PROVE TypeOK'
<1>1. pending[r] \in UnaryUpdates
  BY UpdatesOfTasks DEF TypeOK, WriteUnary
<1>2. row' \in [Records -> Rows]
  BY <1>1, CorrectedType DEF TypeOK, WriteUnary
<1>3. status' \in [Records -> Statuses]
  BY <1>1 DEF TypeOK, WriteUnary, UnaryUpdates
<1>4. pending' \in [Records -> Updates(task') \cup {None}]
  BY DEF TypeOK, WriteUnary
<1> QED BY <1>2, <1>3, <1>4 DEF TypeOK, WriteUnary, environmentVars, auxiliaries

LEMMA DoiTargetsTypes ==
    ASSUME TypeOK, DoiTargets PROVE TypeOK'
<1>1. targets' \in [Dois -> Dois \cup {None}]
  BY DeclaredTargetType DEF DoiTargets
<1>2. marked' \subseteq Records
  BY DEF TypeOK, DoiTargets, Holders
<1>3. pending' \in [Records -> Updates(task') \cup {None}]
  BY NothingIsTyped DEF DoiTargets, NothingPending
<1> QED BY <1>1, <1>2, <1>3 DEF TypeOK, DoiTargets, Tasks, environmentVars, auxiliaries

LEMMA WriteRemovalsTypes ==
    ASSUME TypeOK, NEW r \in Records, WriteRemovals(r) PROVE TypeOK'
<1>1. pending[r] \in StatusUpdates
  BY UpdatesOfTasks DEF TypeOK, WriteRemovals
<1>2. status' \in [Records -> Statuses]
  BY <1>1 DEF TypeOK, WriteRemovals, StatusUpdates
<1>3. pending' \in [Records -> Updates(task') \cup {None}]
  BY DEF TypeOK, WriteRemovals
<1> QED BY <1>2, <1>3 DEF TypeOK, WriteRemovals, environmentVars, auxiliaries

LEMMA WriteMatchableTypes ==
    ASSUME TypeOK, NEW r \in Records, WriteMatchable(r) PROVE TypeOK'
<1>1. pending[r] \in MatchableUpdates
  BY UpdatesOfTasks DEF TypeOK, WriteMatchable
<1>2. row' \in [Records -> Rows]
  <2>1. row[r] \in Rows
    BY DEF TypeOK
  <2>2. [row[r] EXCEPT !.matchable = pending[r].matchable] \in Rows
    BY <1>1, <2>1 DEF Rows, MatchableUpdates
  <2> QED BY <2>2 DEF TypeOK, WriteMatchable
<1>3. pending' \in [Records -> Updates(task') \cup {None}]
  BY DEF TypeOK, WriteMatchable
<1> QED BY <1>2, <1>3 DEF TypeOK, WriteMatchable, environmentVars, auxiliaries

LEMMA EndTypes ==
    ASSUME TypeOK, EndRun \/ Interrupt PROVE TypeOK'
<1>1. ASSUME EndRun PROVE TypeOK'
  <2>1. quiet' \in 0..SettlingRuns
    <3>1. quiet \in 0..SettlingRuns
      BY DEF TypeOK
    <3> QED BY <1>1, <3>1, Bounds DEF EndRun
  <2>2. pending' \in [Records -> Updates(task') \cup {None}]
    BY <1>1, NothingIsTyped DEF EndRun, NothingPending
  <2> QED BY <1>1, <2>1, <2>2 DEF TypeOK, EndRun, recordVars, environmentVars
<1>2. ASSUME Interrupt PROVE TypeOK'
  <2>1. changes' \in 0..MaxChanges /\ undisturbed' \in BOOLEAN /\ quiet' \in 0..SettlingRuns
    BY <1>2, DisturbsTypes DEF Interrupt
  <2>2. pending' \in [Records -> Updates(task') \cup {None}]
    BY <1>2, NothingIsTyped DEF Interrupt
  <2> QED BY <1>2, <2>1, <2>2 DEF TypeOK, Interrupt, recordVars
<1> QED BY <1>1, <1>2

LEMMA AskTypes ==
    ASSUME TypeOK, NEW s \in Serials, NEW type \in SerialTypes, AskRequalification(s, type) PROVE TypeOK'
<1> DEFINE types == [serialType EXCEPT ![s] = type]
           asked(published) ==
               [r \in Records |-> IF r \in OfSerial(s) /\ published # {} THEN UnlessSame(UnaryUpdate(r, types), UnaryNow(r))
                                  ELSE None]
<1>1. PICK published \in SUBSET {s} :
          request' = [serial |-> s, type |-> type, updates |-> asked(published), outdated |-> {}]
  BY DEF AskRequalification
<1>2. asked(published) \in [Records -> UnaryUpdates \cup {None}]
  <2>1. \A r \in Records : UnaryUpdate(r, types) \in UnaryUpdates
    BY UnaryUpdateType
  <2> HIDE DEF types
  <2> QED BY <2>1 DEF UnlessSame
<1>3. request' \in Requests
  <2> HIDE DEF asked
  <2> QED BY <1>1, <1>2 DEF Requests
<1>4. changes' \in 0..MaxChanges /\ undisturbed' \in BOOLEAN /\ quiet' \in 0..SettlingRuns
  BY DisturbsTypes DEF AskRequalification
<1> QED BY <1>3, <1>4 DEF TypeOK, AskRequalification, recordVars, phaseVars

LEMMA CommitTypes ==
    ASSUME TypeOK, CommitRequalification PROVE TypeOK'
<1> DEFINE corrected == {r \in Records : request.updates[r] # None}
<1>1. request \in Requests
  BY DEF TypeOK, CommitRequalification
<1>2. \A r \in corrected : request.updates[r] \in UnaryUpdates
  BY <1>1 DEF Requests
<1>3. row' \in [Records -> Rows]
  <2>1. row' = [r \in Records |-> IF r \in corrected THEN Corrected(row[r], request.updates[r]) ELSE row[r]]
    BY DEF CommitRequalification
  <2> HIDE DEF corrected
  <2> QED BY <2>1, <1>2, CorrectedType DEF TypeOK
<1>4. status' \in [Records -> Statuses]
  <2>1. status' = [r \in Records |-> IF r \in corrected THEN request.updates[r].status ELSE status[r]]
    BY DEF CommitRequalification
  <2>2. \A r \in corrected : request.updates[r].status \in Statuses
    BY <1>2 DEF UnaryUpdates
  <2> HIDE DEF corrected
  <2> QED BY <2>1, <2>2 DEF TypeOK
<1>5. serialType' \in [Serials -> SerialTypes]
  BY <1>1 DEF TypeOK, CommitRequalification, Requests
<1>6. marked' \subseteq Records /\ collided' \subseteq Records
  BY DEF TypeOK, CommitRequalification
<1>7. quiet' \in 0..SettlingRuns
  BY Bounds DEF CommitRequalification
<1>8. undisturbed' \in BOOLEAN /\ request' = None
  BY DEF CommitRequalification
<1> QED BY <1>3, <1>4, <1>5, <1>6, <1>7, <1>8 DEF TypeOK, CommitRequalification, phaseVars

LEMMA StutterTypes ==
    ASSUME TypeOK, UNCHANGED vars PROVE TypeOK'
BY DEF TypeOK, vars, recordVars, environmentVars, phaseVars, auxiliaries

(* TypeOK: the columns, the updates a sub-step holds and those of a        *)
(* request keep their types, whatever the order of the steps.              *)
THEOREM TypeCorrect == Spec => []TypeOK
<1>1. TypeOK /\ [Next]_vars => TypeOK'
  <2> SUFFICES ASSUME TypeOK, [Next]_vars PROVE TypeOK'
    OBVIOUS
  <2> QED
    BY RenormalizeTypes, AttachTypes, WorldTypes, ReconcileTypes, StartTypes, WriteSerialTypes, WriteUnaryTypes,
       DoiTargetsTypes, WriteRemovalsTypes, WriteMatchableTypes, EndTypes, AskTypes, CommitTypes, StutterTypes DEF Next
<1> QED BY InitTypes, <1>1, PTL DEF Spec

------------------------------------------------------------------------------
(* The values of the source                                                *)

(* The values before correction of a record, or of an update of it, are    *)
(* those of its document.                                                  *)
Keeps(x, f) == Raw(x, "type") = f.type /\ Raw(x, "urls") = f.urls

(* RawIsKept is not inductive: it takes that the updates computed and not  *)
(* yet written keep the values too, unless the record was overwritten or   *)
(* rewritten since they were read, and that none waits between two runs.   *)
IInv ==
    /\ TypeOK
    /\ \A r \in Records \ collided : Keeps(row[r], facts[r])
    /\ task = "unary" => \A r \in Records \ collided : pending[r] # None => Keeps(pending[r], facts[r])
    /\ request # None => \A r \in Records \ (collided \cup request.outdated) :
                             request.updates[r] # None => Keeps(request.updates[r], facts[r])
    /\ task = "idle" => pending = NoPending

(* corrections.py: what a correction keeps apart, or the value it leaves,  *)
(* is the value before correction.                                         *)
LEMMA UnaryUpdateKeeps ==
    ASSUME TypeOK, NEW r \in Records, NEW types, NEW f, Keeps(row[r], f)
    PROVE  Keeps(UnaryUpdate(r, types), f)
<1> DEFINE x == row[r]
           rule == RuleOfRecord(r, types)
           origin == OriginType(r, types)
           ruled == TypeAfter(rule, x)
           type == IF origin = None THEN ruled ELSE origin
           missing == Held(facts[r]) \cap world.missing
           urls == IF missing = {} THEN Raw(x, "urls") ELSE Raw(x, "urls") \ world.missing
           u == UnaryUpdate(r, types)
           rawType == Stash(x, "type", {ruled, type} # {Raw(x, "type")})
           rawUrls == Stash(x, "urls", Raw(x, "urls") # urls)
<1>1. x \in Rows
  BY DEF TypeOK
<1>2. /\ u["type"] = type /\ u["urls"] = urls
      /\ u.raw["type"] = rawType /\ u.raw["urls"] = rawUrls
  BY DEF UnaryUpdate, UnaryUpdateBy
<1>3. Raw(x, "type") # Unset /\ Raw(x, "urls") # Unset
  BY <1>1, RawTypes, CorrectionConstants
<1>4. Raw(u, "type") = Raw(x, "type")
  <2>1. CASE {ruled, type} # {Raw(x, "type")}
    BY <2>1, <1>2, <1>3 DEF Raw, Stash
  <2>2. CASE {ruled, type} = {Raw(x, "type")}
    <3>1. rawType = Unset
      BY <2>2 DEF Stash
    <3>2. type = Raw(x, "type")
      <4> HIDE DEF type, ruled, x
      <4> QED BY <2>2
    <3> HIDE DEF x, type, rawType, u
    <3> QED BY <3>1, <3>2, <1>2 DEF Raw
  <2> QED BY <2>1, <2>2
<1>5. Raw(u, "urls") = Raw(x, "urls")
  <2> HIDE DEF u, urls, x
  <2> QED BY <1>2, <1>3 DEF Raw, Stash
<1> QED BY <1>4, <1>5 DEF Keeps

(* A correction that keeps them keeps them in the columns.                 *)
LEMMA CorrectedKeeps ==
    ASSUME NEW x \in Rows, NEW u \in UnaryUpdates, NEW f, Keeps(u, f)
    PROVE  Keeps(Corrected(x, u), f)
BY DEF Keeps, Raw, Corrected, Rows, UnaryUpdates

LEMMA InitKeeps == Init => IInv
<1> SUFFICES ASSUME Init PROVE IInv
  OBVIOUS
<1>1. ASSUME NEW r \in Records PROVE Keeps(row[r], facts[r])
  BY DEF Init, Fresh, NoRaw, Keeps, Raw
<1> QED BY <1>1, InitTypes DEF IInv, Init

(* The normalizer forgets the corrections with the values before them.     *)
LEMMA RenormalizeKeeps ==
    ASSUME IInv, NEW r \in Records, Renormalize(r) PROVE IInv'
<1>1. TypeOK' /\ TypeOK
  BY RenormalizeTypes DEF IInv
<1>2. pending = NoPending /\ task = "idle" /\ task' = task /\ pending' = pending
  BY DEF IInv, Renormalize, phaseVars
<1>3. ASSUME NEW q \in Records \ {r} PROVE row'[q] = row[q] /\ facts'[q] = facts[q]
  BY DEF Renormalize, IInv, TypeOK
<1>4. Keeps(row'[r], facts'[r])
  <2>1. row[r] \in Rows
    BY <1>1 DEF TypeOK
  <2>2. row'[r] = [row[r] EXCEPT !.type = facts'[r].type, !.urls = facts'[r].urls, !.raw = NoRaw]
    BY <1>1 DEF TypeOK, Renormalize
  <2>3. /\ row'[r]["type"] = facts'[r].type /\ row'[r]["urls"] = facts'[r].urls
        /\ row'[r].raw = NoRaw
    BY <2>1, <2>2 DEF Rows
  <2> QED BY <2>3 DEF Keeps, Raw, NoRaw
<1>5. \A q \in Records \ collided' : Keeps(row'[q], facts'[q])
  BY <1>3, <1>4 DEF IInv, Renormalize
<1>6. ASSUME request' # None, NEW q \in Records \ (collided' \cup request'.outdated), request'.updates[q] # None
      PROVE  Keeps(request'.updates[q], facts'[q])
  <2>1. request # None /\ request' = [request EXCEPT !.outdated = @ \cup {r}] /\ request \in Requests
    BY <1>6, <1>1 DEF Renormalize, TypeOK
  <2>2. request'.updates = request.updates /\ request'.outdated = request.outdated \cup {r}
    BY <2>1 DEF Requests
  <2>3. q # r /\ q \in Records \ (collided \cup request.outdated)
    BY <1>6, <2>2 DEF Renormalize
  <2> QED BY <1>3, <1>6, <2>1, <2>2, <2>3 DEF IInv
<1>7. task' = "unary" => \A q \in Records \ collided' : pending'[q] # None => Keeps(pending'[q], facts'[q])
  BY <1>2
<1> QED BY <1>1, <1>2, <1>5, <1>6, <1>7 DEF IInv

(* The attachment to serials leaves types and links, and their values.     *)
LEMMA AttachKeeps ==
    ASSUME IInv, Attach PROVE IInv'
<1>1. TypeOK' /\ TypeOK
  BY AttachTypes DEF IInv
<1>2. ASSUME NEW q \in Records, NEW f, Keeps(row[q], f) PROVE Keeps(row'[q], f)
  <2> DEFINE serial == IF facts[q].serial = None THEN row[q].serial ELSE facts[q].serial
  <2>1. row[q] \in Rows /\ row[q].raw \in RawValues
    BY <1>1 DEF TypeOK, Rows
  <2>2. \/ row'[q] = row[q]
        \/ row'[q] = [row[q] EXCEPT !.serial = facts[q].serial]
        \/ row'[q] = [row[q] EXCEPT !.serial = IF facts[q].serial = None THEN @ ELSE facts[q].serial,
                                    !.raw.serial = facts[q].serial]
    BY DEF Attach
  <2>3. /\ row'[q]["type"] = row[q]["type"] /\ row'[q]["urls"] = row[q]["urls"]
        /\ row'[q].raw["type"] = row[q].raw["type"] /\ row'[q].raw["urls"] = row[q].raw["urls"]
    <3> DEFINE raw == [row[q].raw EXCEPT !.serial = facts[q].serial]
    <3>1. CASE row'[q] = row[q] \/ row'[q] = [row[q] EXCEPT !.serial = facts[q].serial]
      BY <2>1, <3>1 DEF Rows
    <3>2. CASE row'[q] = [row[q] EXCEPT !.serial = IF facts[q].serial = None THEN @ ELSE facts[q].serial,
                                        !.raw.serial = facts[q].serial]
      <4>1. row'[q] = [row[q] EXCEPT !.serial = serial, !.raw = raw]
        BY <2>1, <3>2 DEF Rows
      <4>2. row'[q]["type"] = row[q]["type"] /\ row'[q]["urls"] = row[q]["urls"] /\ row'[q].raw = raw
        <5> HIDE DEF serial, raw
        <5> QED BY <2>1, <4>1 DEF Rows
      <4>3. raw["type"] = row[q].raw["type"] /\ raw["urls"] = row[q].raw["urls"]
        BY <2>1 DEF RawValues
      <4> HIDE DEF raw
      <4> QED BY <4>2, <4>3
    <3> QED BY <2>2, <3>1, <3>2
  <2> QED BY <1>2, <2>3 DEF Keeps, Raw
<1>3. \A q \in Records \ collided' : Keeps(row'[q], facts'[q])
  BY <1>2 DEF IInv, Attach, environmentVars
<1> QED BY <1>1, <1>3 DEF IInv, Attach, environmentVars, phaseVars

(* Nothing else touches the types, the links and what is kept of them.     *)
LEMMA OthersKeep ==
    ASSUME IInv, TypeOK', UNCHANGED <<facts, phaseVars, request, collided>>,
           \A q \in Records : row'[q] = row[q]
    PROVE  IInv'
BY DEF IInv, phaseVars

(* Updates are computed from records, so they keep what these keep.        *)
LEMMA StartKeeps ==
    ASSUME IInv, Start PROVE IInv'
<1>1. TypeOK' /\ TypeOK
  BY StartTypes DEF IInv
<1>2. ASSUME task' = "unary", NEW q \in Records \ collided', pending'[q] # None
      PROVE  Keeps(pending'[q], facts'[q])
  <2>1. Keeps(row[q], facts[q])
    BY DEF IInv, Start
  <2>2. pending'[q] = UnlessSame(UnaryUpdate(q, serialType), UnaryNow(q))
    BY <1>2 DEF Start, Computed
  <2>3. pending'[q] = UnaryUpdate(q, serialType)
    BY <1>2, <2>2 DEF UnlessSame
  <2>4. facts' = facts
    BY DEF Start, environmentVars
  <2> QED BY <1>1, <2>1, <2>3, <2>4, UnaryUpdateKeeps
<1>3. task' # "idle"
  BY DEF Start, Following
<1> QED BY <1>1, <1>2, <1>3 DEF IInv, Start, recordVars, environmentVars

(* A serial corrected with values read before another correction counts    *)
(* among the collided.                                                     *)
LEMMA WriteSerialKeeps ==
    ASSUME IInv, NEW r \in Records, WriteSerial(r) PROVE IInv'
<1>1. TypeOK' /\ TypeOK
  BY WriteSerialTypes DEF IInv
<1>2. pending[r] \in SerialUpdates
  BY <1>1, UpdatesOfTasks DEF TypeOK, WriteSerial
<1>3. ASSUME NEW q \in Records \ collided' PROVE Keeps(row'[q], facts[q])
  <2>1. q \notin collided
    BY DEF WriteSerial
  <2>2. CASE q # r
    BY <2>1, <2>2, <1>1 DEF IInv, TypeOK, WriteSerial
  <2>3. CASE q = r
    <3>1. row[r] \in Rows /\ row'[r] = [row[r] EXCEPT !.serial = pending[r].serial, !.raw = pending[r].raw]
      BY <1>1 DEF TypeOK, WriteSerial
    <3>2. pending[r].raw["type"] = row[r].raw["type"] /\ pending[r].raw["urls"] = row[r].raw["urls"]
      BY <2>3 DEF WriteSerial
    <3>3. /\ row'[r]["type"] = row[r]["type"] /\ row'[r]["urls"] = row[r]["urls"]
          /\ row'[r].raw = pending[r].raw
      BY <3>1 DEF Rows
    <3>4. Keeps(row[r], facts[r])
      BY <2>1, <2>3 DEF IInv
    <3> QED BY <2>3, <3>2, <3>3, <3>4 DEF Keeps, Raw
  <2> QED BY <2>2, <2>3
<1>4. collided \subseteq collided'
  BY DEF WriteSerial
<1>5. facts' = facts /\ request' = request /\ task = "serial_by_doi" /\ task' = task
  BY DEF WriteSerial, environmentVars
<1> QED BY <1>1, <1>3, <1>4, <1>5 DEF IInv

LEMMA WriteUnaryKeeps ==
    ASSUME IInv, NEW r \in Records, WriteUnary(r) PROVE IInv'
<1>1. TypeOK' /\ TypeOK
  BY WriteUnaryTypes DEF IInv
<1>2. pending[r] \in UnaryUpdates
  BY <1>1, UpdatesOfTasks DEF TypeOK, WriteUnary
<1>3. /\ facts' = facts /\ request' = request /\ collided' = collided
      /\ task = "unary" /\ task' = task /\ pending[r] # None
      /\ pending' = [pending EXCEPT ![r] = None]
      /\ row' = [row EXCEPT ![r] = Corrected(@, pending[r])]
  BY DEF WriteUnary, environmentVars, auxiliaries
<1>4. ASSUME NEW q \in Records \ collided' PROVE Keeps(row'[q], facts'[q])
  <2>1. CASE q # r
    BY <2>1, <1>1, <1>3 DEF IInv, TypeOK
  <2>2. CASE q = r
    <3>1. Keeps(pending[r], facts[r]) /\ row[r] \in Rows
      BY <2>2, <1>1, <1>3 DEF IInv, TypeOK
    <3>2. Keeps(Corrected(row[r], pending[r]), facts[r])
      BY <3>1, <1>2, CorrectedKeeps
    <3> QED BY <2>2, <3>2, <1>1, <1>3 DEF TypeOK
  <2> QED BY <2>1, <2>2
<1>5. ASSUME NEW q \in Records \ collided', pending'[q] # None PROVE Keeps(pending'[q], facts'[q])
  BY <1>1, <1>3, <1>5 DEF IInv, TypeOK
<1> QED BY <1>1, <1>3, <1>4, <1>5 DEF IInv

LEMMA WriteMatchableKeeps ==
    ASSUME IInv, NEW r \in Records, WriteMatchable(r) PROVE IInv'
<1>1. TypeOK' /\ TypeOK
  BY WriteMatchableTypes DEF IInv
<1>2. ASSUME NEW q \in Records, NEW f, Keeps(row[q], f) PROVE Keeps(row'[q], f)
  <2>1. row[q] \in Rows
    BY <1>1 DEF TypeOK
  <2>2. row'[q] = row[q] \/ row'[q] = [row[q] EXCEPT !.matchable = pending[r].matchable]
    BY <1>1 DEF TypeOK, WriteMatchable
  <2>3. row'[q]["type"] = row[q]["type"] /\ row'[q]["urls"] = row[q]["urls"] /\ row'[q].raw = row[q].raw
    BY <2>1, <2>2 DEF Rows
  <2> QED BY <1>2, <2>3 DEF Keeps, Raw
<1> QED BY <1>1, <1>2 DEF IInv, WriteMatchable, environmentVars, auxiliaries

(* The steps of the phase that write neither type, links nor corrections.  *)
LEMMA OtherSubStepsKeep ==
    ASSUME IInv, DoiTargets \/ EndRun \/ Interrupt \/ \E r \in Records : WriteRemovals(r) PROVE IInv'
<1>1. TypeOK'
  BY DoiTargetsTypes, EndTypes, WriteRemovalsTypes DEF IInv
<1>2. /\ facts' = facts /\ row' = row /\ request' = request /\ collided' = collided /\ task' # "unary"
      /\ task' = "idle" => pending' = NoPending
  BY DEF DoiTargets, EndRun, Interrupt, WriteRemovals, NothingPending, recordVars, environmentVars, auxiliaries
<1> QED BY <1>1, <1>2 DEF IInv

LEMMA AskKeeps ==
    ASSUME IInv, NEW s \in Serials, NEW type \in SerialTypes, AskRequalification(s, type) PROVE IInv'
<1>1. TypeOK' /\ TypeOK
  BY AskTypes DEF IInv
<1> DEFINE types == [serialType EXCEPT ![s] = type]
           asked(published) ==
               [r \in Records |-> IF r \in OfSerial(s) /\ published # {} THEN UnlessSame(UnaryUpdate(r, types), UnaryNow(r))
                                  ELSE None]
<1>2. PICK published \in SUBSET {s} :
          request' = [serial |-> s, type |-> type, updates |-> asked(published), outdated |-> {}]
  BY DEF AskRequalification
<1>3. /\ facts' = facts /\ row' = row /\ collided' = collided /\ task' = task /\ pending' = pending
  BY DEF AskRequalification, recordVars, phaseVars
<1>4. ASSUME NEW q \in Records \ collided', request'.updates[q] # None
      PROVE  Keeps(request'.updates[q], facts'[q])
  <2>1. Keeps(row[q], facts[q])
    BY <1>3 DEF IInv
  <2>2. request'.updates[q] = UnaryUpdate(q, types)
    <3> HIDE DEF types
    <3> QED BY <1>2, <1>4 DEF UnlessSame
  <2> HIDE DEF types
  <2> QED BY <1>1, <1>3, <2>1, <2>2, UnaryUpdateKeeps
<1> QED BY <1>1, <1>3, <1>4 DEF IInv

(* A request that commits overwrites what was rewritten since it read.     *)
LEMMA CommitKeeps ==
    ASSUME IInv, CommitRequalification PROVE IInv'
<1>1. TypeOK' /\ TypeOK
  BY CommitTypes DEF IInv
<1> DEFINE corrected == {r \in Records : request.updates[r] # None}
<1>2. request \in Requests /\ request # None
  BY <1>1 DEF TypeOK, CommitRequalification
<1>3. /\ facts' = facts /\ collided' = collided \cup (corrected \cap request.outdated) /\ request' = None
      /\ task' = task /\ pending' = pending
      /\ row' = [r \in Records |-> IF r \in corrected THEN Corrected(row[r], request.updates[r]) ELSE row[r]]
  BY DEF CommitRequalification, phaseVars
<1>4. ASSUME NEW q \in Records \ collided' PROVE Keeps(row'[q], facts'[q])
  <2>1. CASE q \notin corrected
    <3> HIDE DEF corrected
    <3> QED BY <2>1, <1>3 DEF IInv
  <2>2. CASE q \in corrected
    <3>1. q \notin collided \cup request.outdated /\ request.updates[q] # None
      BY <2>2, <1>3
    <3>2. Keeps(request.updates[q], facts[q])
      BY <3>1, <1>2 DEF IInv
    <3>3. request.updates[q] \in UnaryUpdates /\ row[q] \in Rows
      BY <3>1, <1>1, <1>2 DEF Requests, TypeOK
    <3>4. Keeps(Corrected(row[q], request.updates[q]), facts[q])
      BY <3>2, <3>3, CorrectedKeeps
    <3> HIDE DEF corrected
    <3> QED BY <2>2, <3>4, <1>3
  <2> QED BY <2>1, <2>2
<1>5. collided \subseteq collided'
  BY <1>3
<1> HIDE DEF corrected
<1> QED BY <1>1, <1>3, <1>4, <1>5 DEF IInv

(* RawIsKept: of every record no update overwrote with values read before  *)
(* another, the type and the links of its document are still there.        *)
THEOREM RawKept == Spec => []RawIsKept
<1>1. IInv /\ [Next]_vars => IInv'
  <2> SUFFICES ASSUME IInv, [Next]_vars PROVE IInv'
    OBVIOUS
  <2>1. TypeOK
    BY DEF IInv
  <2>2. ASSUME WorldChanges \/ Reconcile \/ \E r \in Records, d \in Dois : ReconcileDoi(r, d) PROVE IInv'
    <3>1. TypeOK'
      BY <2>1, <2>2, WorldTypes, ReconcileTypes
    <3>2. UNCHANGED <<facts, phaseVars, request, collided>> /\ row' = row
      BY <2>2 DEF WorldChanges, Reconcile, ReconcileDoi, recordVars, environmentVars, auxiliaries
    <3> QED BY <3>1, <3>2, OthersKeep
  <2>3. CASE UNCHANGED vars
    <3>1. TypeOK'
      BY <2>1, <2>3, StutterTypes
    <3>2. UNCHANGED <<facts, phaseVars, request, collided>> /\ row' = row
      BY <2>3 DEF vars, recordVars, environmentVars, auxiliaries
    <3> QED BY <3>1, <3>2, OthersKeep
  <2> QED
    BY <2>2, <2>3, RenormalizeKeeps, AttachKeeps, StartKeeps, WriteSerialKeeps, WriteUnaryKeeps, WriteMatchableKeeps,
       OtherSubStepsKeep, AskKeeps, CommitKeeps DEF Next
<1>2. IInv => RawIsKept
  BY DEF IInv, RawIsKept, Keeps
<1> QED BY InitKeeps, <1>1, <1>2, PTL DEF Spec

------------------------------------------------------------------------------
(* What the reconciliation reads                                           *)

(* replace_doi_targets: a record whose DOI changes its target holds it.    *)
LEMMA TargetsAreMarked ==
    ASSUME TypeOK, DoiTargets, NEW r \in Records, Key(r)' # Key(r)
    PROVE  r \in marked'
<1>1. row' = row /\ status' = status /\ facts' = facts
  BY DEF DoiTargets, environmentVars
<1>2. [d \in Dois \cap Held(facts[r]) |-> targets'[d]] # [d \in Dois \cap Held(facts[r]) |-> targets[d]]
  BY <1>1 DEF Key, Active, Held
<1>3. PICK d \in Dois \cap Held(facts[r]) : targets'[d] # targets[d]
  BY <1>2
<1>4. r \in Holders(d) /\ d \in Retargeted(targets, targets')
  BY <1>3 DEF Holders, Held, Retargeted
<1>5. marked' = marked \cup UNION {Holders(e) : e \in Retargeted(targets, targets')}
  BY DEF DoiTargets
<1> QED BY <1>4, <1>5

(* A step that leaves the columns, the statuses, the targets and what a    *)
(* record says leaves what the reconciliation reads of it.                 *)
LEMMA KeyUnchanged ==
    ASSUME NEW r \in Records, row'[r] = row[r], status'[r] = status[r], facts'[r] = facts[r], targets' = targets
    PROVE  Key(r)' = Key(r)
BY DEF Key, Active, Held

LEMMA KeyStep ==
    ASSUME TypeOK, [Next]_vars, NEW r \in Records, Key(r)' # Key(r)
    PROVE  r \in marked' \/ marked' = {}
<1>1. ASSUME NEW q \in Records,
             Renormalize(q) \/ WriteSerial(q) \/ WriteUnary(q) \/ WriteRemovals(q) \/ WriteMatchable(q)
      PROVE  r \in marked'
  <2>1. q \in marked' /\ targets' = targets
    BY <1>1 DEF Renormalize, WriteSerial, WriteUnary, WriteRemovals, WriteMatchable
  <2>2. CASE q # r
    <3>1. row'[r] = row[r]
      BY <1>1, <2>2 DEF TypeOK, Renormalize, WriteSerial, WriteUnary, WriteRemovals, WriteMatchable
    <3>2. status'[r] = status[r]
      BY <1>1, <2>2 DEF TypeOK, Renormalize, WriteSerial, WriteUnary, WriteRemovals, WriteMatchable
    <3>3. facts'[r] = facts[r]
      BY <1>1, <2>2 DEF Renormalize, WriteSerial, WriteUnary, WriteRemovals, WriteMatchable, environmentVars
    <3> QED BY <2>1, <3>1, <3>2, <3>3, KeyUnchanged
  <2> QED BY <2>1, <2>2
<1>2. ASSUME Attach PROVE r \in marked'
  <2>1. CASE Raw(row[r], "serial") # facts[r].serial
    BY <1>2, <2>1 DEF Attach
  <2>2. CASE Raw(row[r], "serial") = facts[r].serial
    <3>1. row'[r] = row[r] /\ status' = status /\ targets' = targets /\ facts' = facts
      BY <1>2, <2>2 DEF Attach, environmentVars
    <3> QED BY <3>1, KeyUnchanged
  <2> QED BY <2>1, <2>2
<1>3. ASSUME CommitRequalification PROVE r \in marked'
  <2>1. CASE request.updates[r] # None
    BY <1>3, <2>1 DEF CommitRequalification
  <2>2. CASE request.updates[r] = None
    <3>1. row'[r] = row[r] /\ status'[r] = status[r] /\ targets' = targets /\ facts' = facts
      BY <1>3, <2>2 DEF CommitRequalification
    <3> QED BY <3>1, KeyUnchanged
  <2> QED BY <2>1, <2>2
<1>4. ASSUME Reconcile \/ \E q \in Records, d \in Dois : ReconcileDoi(q, d) PROVE marked' = {}
  BY <1>4 DEF Reconcile, ReconcileDoi
<1>5. ASSUME \/ WorldChanges \/ Start \/ EndRun \/ Interrupt \/ UNCHANGED vars
             \/ \E s \in Serials, type \in SerialTypes : AskRequalification(s, type)
      PROVE  FALSE
  <2>1. row' = row /\ status' = status /\ targets' = targets /\ facts' = facts
    BY <1>5 DEF WorldChanges, Start, EndRun, Interrupt, AskRequalification, vars, recordVars, environmentVars
  <2> QED BY <2>1, KeyUnchanged
<1> QED BY <1>1, <1>2, <1>3, <1>4, <1>5, TargetsAreMarked DEF Next

(* KeyChangesAreMarked: no step of the phase, of a request or of another   *)
(* phase changes what the reconciliation reads of a record without marking *)
(* it, but the reconciliation that decides on it.                          *)
THEOREM KeysAreMarked == Spec => KeyChangesAreMarked
<1>1. TypeOK /\ [Next]_vars => [\A r \in Records : Key(r)' # Key(r) => r \in marked' \/ marked' = {}]_vars
  BY KeyStep
<1> QED BY TypeCorrect, <1>1, PTL DEF Spec, KeyChangesAreMarked

------------------------------------------------------------------------------
(* The works told apart                                                    *)

(* The DOIs whose group has a book, neither unknown nor targeted: what     *)
(* becomes of their holders is for Losers alone to say.                    *)
BookDois ==
    {d \in Dois \ world.unresolved : targets[d] = None /\ \E b \in Holders(d) : row[b].type = "book"}

(* final says of each holder what the rules say of it: a loser does not    *)
(* keep the DOI, an owner does.                                            *)
Judged(final) ==
    \A d \in BookDois : \A r \in Holders(d) :
        /\ Member(r) \in Losers(Group(d), d) => final[r][d] # None
        /\ Member(r) \in Owners(Group(d), d) => final[r][d] = None

(* What remove_identifiers decides of by itself.                           *)
OwnCase(s, i) == s[i] \in ClusterCases \cup {None}

(* The statuses once all that is computed is written.                      *)
Final == [r \in Records |-> IF pending[r] # None THEN pending[r].status ELSE status[r]]

(* A removal of remove_identifiers does not change what it decides from.   *)
SameBase == \A r \in Records : pending[r] # None => \A i \in Ids : OwnCase(pending[r].status, i) <=> OwnCase(status[r], i)

(* What an undisturbed run knows of the holders, until the next one.       *)
WInv ==
    /\ task = "remove_identifiers" /\ undisturbed => SameBase /\ Judged(Final)
    /\ task = "matchable" /\ undisturbed => Judged(status)
    /\ task = "idle" /\ quiet > 0 => Judged(status)

(* An owner of a DOI is not among those who lose it.                       *)
LEMMA OwnersKeep ==
    ASSUME NEW group, NEW d
    PROVE  Losers(group, d) \cap Owners(group, d) = {}
BY DEF Losers, WithCoOwners

(* ClusterStatus: a decision that takes nothing else than Losers.          *)
LEMMA ClusterJudges ==
    ASSUME TypeOK, NEW d \in BookDois, NEW r \in Holders(d)
    PROVE  /\ Member(r) \in Losers(Group(d), d) => ClusterStatus(r)[d] # None
           /\ Member(r) \in Owners(Group(d), d) => ClusterStatus(r)[d] = None
<1> DEFINE groups == {e \in Dois : r \in Holders(e) /\ Candidate(e)}
           m == Member(r)
           lostKeys == UNION {LostKeys(Group(e), Separated(e), m) : e \in groups}
           removals == [i \in Ids |-> IF i \in groups /\ i \in world.unresolved THEN "unresolved"
                                      ELSE IF i \in lostKeys \/ (i \in groups /\ m \in Separated(i)) THEN "another work"
                                      ELSE None]
<1>1. d \in Dois /\ d \in Ids /\ d \notin world.unresolved /\ targets[d] = None /\ r \in Records
  BY DEF BookDois, Ids, Holders
<1>2. Candidate(d) BY DEF BookDois, Candidate, CandidateTypes
<1>3. d \in groups BY <1>1, <1>2
<1>4. Separated(d) = Losers(Group(d), d) BY <1>1, <1>2 DEF Separated
<1>5. m.id = r BY DEF Member
<1>6. ClusterStatus(r) = WithRemovals(status[r], ClusterCases, removals)
  <2>1. ClusterStatus(r) = ClusterStatusIn(groups, m) BY DEF ClusterStatus
  <2>2. groups # {} BY <1>3
  <2>3. ClusterStatusIn(groups, m) = WithRemovals(status[m.id], ClusterCases, removals)
    <3> HIDE DEF m
    <3> QED BY <2>2 DEF ClusterStatusIn
  <2> QED BY <1>5, <2>1, <2>3
<1>7. d \notin lostKeys
  <2>1. m.keys \subseteq Deposits BY DEF Member
  <2>2. \A e \in groups : LostKeys(Group(e), Separated(e), m) \subseteq m.keys BY DEF LostKeys
  <2> HIDE DEF groups, m
  <2> QED BY <1>1, <2>1, <2>2, CorrectionConstants
<1>8. removals[d] = IF m \in Losers(Group(d), d) THEN "another work" ELSE None
  <2> HIDE DEF groups, m, lostKeys
  <2> QED BY <1>1, <1>3, <1>4, <1>7
<1>9. ClusterStatus(r)[d] = IF status[r][d] \in ClusterCases \cup {None} THEN removals[d] ELSE status[r][d]
  <2> HIDE DEF removals
  <2> QED BY <1>1, <1>6 DEF WithRemovals
<1>10. m \in Owners(Group(d), d) => status[r][d] \in ClusterCases \cup {None}
  <2>1. m.own \subseteq Base(r) BY DEF Member
  <2> QED BY <2>1 DEF Owners, Base
<1>11. "another work" # None
  <2>1. "another work" \in Cases BY DEF Cases, ClusterCases
  <2> QED BY <2>1, NoneIsNoValue
<1> HIDE DEF m, removals
<1> QED BY <1>8, <1>9, <1>10, <1>11, OwnersKeep DEF m

(* with_removals leaves the removals of others.                            *)
LEMMA ClusterKeepsCases ==
    ASSUME NEW r \in Records, NEW i \in Ids
    PROVE  OwnCase(ClusterStatus(r), i) <=> OwnCase(status[r], i)
<1> DEFINE groups == {e \in Dois : r \in Holders(e) /\ Candidate(e)}
           m == Member(r)
           lostKeys == UNION {LostKeys(Group(e), Separated(e), m) : e \in groups}
           removals == [j \in Ids |-> IF j \in groups /\ j \in world.unresolved THEN "unresolved"
                                      ELSE IF j \in lostKeys \/ (j \in groups /\ m \in Separated(j)) THEN "another work"
                                      ELSE None]
<1>1. ClusterStatus(r) = IF groups = {} THEN status[r] ELSE WithRemovals(status[r], ClusterCases, removals)
  <2>1. m.id = r BY DEF Member
  <2>2. ClusterStatusIn(groups, m) = IF groups = {} THEN status[m.id] ELSE WithRemovals(status[m.id], ClusterCases, removals)
    <3> HIDE DEF m, groups
    <3> QED BY DEF ClusterStatusIn
  <2> QED BY <2>1, <2>2 DEF ClusterStatus
<1>2. removals[i] \in ClusterCases \cup {None}
  <2> HIDE DEF groups, m, lostKeys
  <2> QED BY DEF ClusterCases
<1> HIDE DEF removals, groups
<1> QED BY <1>1, <1>2 DEF OwnCase, WithRemovals

(* What a decision reads stays while statuses change as it decides.        *)
LEMMA JudgementStays ==
    ASSUME NEW final, UNCHANGED <<facts, world, targets>>,
           \A r \in Records : row'[r].type = row[r].type,
           \A r \in Records, i \in Ids : OwnCase(status'[r], i) <=> OwnCase(status[r], i),
           Judged(final)
    PROVE  Judged(final)'
<1>1. \A d : Holders(d)' = Holders(d) BY DEF Holders
<1>2. \A r \in Records : Base(r)' = Base(r)
  <2>1. \A r : Held(facts[r]) \subseteq Ids BY DEF Held
  <2> QED BY <2>1 DEF Base, OwnCase
<1>3. \A r \in Records : Member(r)' = Member(r) BY <1>2 DEF Member
<1>4. \A d : Group(d)' = Group(d)
  <2>1. \A d : Holders(d) \subseteq Records BY DEF Holders
  <2> QED BY <1>1, <1>3, <2>1 DEF Group
<1>5. BookDois' = BookDois BY <1>1 DEF BookDois, Holders
<1>6. \A d : Holders(d) \subseteq Records BY DEF Holders
<1> QED BY <1>1, <1>3, <1>4, <1>5, <1>6 DEF Judged

(* Nor does it change with what is read the same.                          *)
LEMMA JudgementUnchanged ==
    ASSUME UNCHANGED <<facts, world, targets, row, status>>
    PROVE  Judged(status)' <=> Judged(status)
<1>1. BookDois' = BookDois BY DEF BookDois, Holders
<1>2. \A d : Holders(d)' = Holders(d) /\ Group(d)' = Group(d) BY DEF Holders, Group, Member, Base
<1>3. \A r : Member(r)' = Member(r) BY DEF Member, Base
<1> QED BY <1>1, <1>2, <1>3 DEF Judged

(* remove_identifiers, as it starts, computes what is judged.              *)
LEMMA RemovalsJudge ==
    ASSUME TypeOK, Start, task' = "remove_identifiers"
    PROVE  (SameBase /\ Judged(Final))'
<1>1. /\ UNCHANGED <<facts, world, targets, row, status>>
      /\ pending' = Computed("remove_identifiers")
  BY DEF Start, recordVars, environmentVars
<1>2. ASSUME NEW r \in Records
      PROVE  /\ pending'[r] = UnlessSame([status |-> ClusterStatus(r)], [status |-> status[r]])
             /\ [status |-> ClusterStatus(r)] # None
  <2>1. ClusterStatus(r) \in Statuses BY ClusterStatusType
  <2>2. [status |-> ClusterStatus(r)] \in StatusUpdates BY <2>1 DEF StatusUpdates
  <2> QED BY <1>1, <2>2, NoneIsNoValue DEF Computed
<1>3. Final' = [r \in Records |-> ClusterStatus(r)]
  <2>1. ASSUME NEW r \in Records
        PROVE  (IF pending'[r] # None THEN pending'[r].status ELSE status'[r]) = ClusterStatus(r)
    <3>1. CASE [status |-> ClusterStatus(r)] = [status |-> status[r]]
      <4>1. ClusterStatus(r) = status[r]
        <5>1. [status |-> ClusterStatus(r)].status = [status |-> status[r]].status BY <3>1
        <5> QED BY <5>1
      <4> QED BY <1>1, <1>2, <3>1, <4>1 DEF UnlessSame
    <3>2. CASE [status |-> ClusterStatus(r)] # [status |-> status[r]]
      BY <1>2, <3>2 DEF UnlessSame
    <3> QED BY <3>1, <3>2
  <2> QED BY <2>1 DEF Final
<1>4. Judged(Final')
  <2> SUFFICES ASSUME NEW d \in BookDois, NEW r \in Holders(d)
               PROVE  /\ Member(r) \in Losers(Group(d), d) => Final'[r][d] # None
                      /\ Member(r) \in Owners(Group(d), d) => Final'[r][d] = None
    BY DEF Judged
  <2>1. r \in Records BY DEF Holders
  <2>2. Final'[r] = ClusterStatus(r) BY <1>3, <2>1
  <2> QED BY <2>2, ClusterJudges
<1>5. Judged(Final)'
  <2> DEFINE final == Final'
  <2>1. BookDois' = BookDois BY <1>1 DEF BookDois, Holders
  <2>2. \A d : Holders(d)' = Holders(d) /\ Group(d)' = Group(d) BY <1>1 DEF Holders, Group, Member, Base
  <2>3. \A r : Member(r)' = Member(r) BY <1>1 DEF Member, Base
  <2> QED BY <1>4, <2>1, <2>2, <2>3 DEF Judged
<1>6. SameBase'
  <2> SUFFICES ASSUME NEW r \in Records, pending'[r] # None, NEW i \in Ids
               PROVE  OwnCase(pending'[r].status, i) <=> OwnCase(status[r], i)
    BY <1>1 DEF SameBase, OwnCase
  <2>1. pending'[r] = [status |-> ClusterStatus(r)] BY <1>2 DEF UnlessSame
  <2>2. OwnCase(ClusterStatus(r), i) <=> OwnCase(status[r], i) BY ClusterKeepsCases
  <2>3. pending'[r].status = ClusterStatus(r) BY <2>1
  <2> QED BY <2>2, <2>3
<1> QED BY <1>5, <1>6

(* Whoever disturbs the run leaves nothing to show; in the run, the        *)
(* records are judged when the removals are computed, and stay so while    *)
(* they are written.                                                       *)
LEMMA JudgedStep == TypeOK /\ WInv /\ [Next]_vars => WInv'
<1> SUFFICES ASSUME TypeOK, WInv, [Next]_vars PROVE WInv' OBVIOUS
<1>1. ASSUME ~ undisturbed', quiet' = 0 PROVE WInv'
  <2>1. ~ (quiet' > 0) BY <1>1
  <2> QED BY <1>1, <2>1 DEF WInv
<1>2. ASSUME \/ \E r \in Records : Renormalize(r)
             \/ \E r \in Records, d \in Dois : ReconcileDoi(r, d)
             \/ Attach \/ WorldChanges \/ Interrupt \/ CommitRequalification
             \/ \E s \in Serials, type \in SerialTypes : AskRequalification(s, type)
      PROVE  WInv'
  <2>1. undisturbed' = FALSE /\ quiet' = 0
    BY <1>2 DEF Renormalize, ReconcileDoi, Attach, WorldChanges, Interrupt, CommitRequalification,
                AskRequalification, Disturbs
  <2> QED BY <1>1, <2>1
<1>3. ASSUME NEW r \in Records, WriteSerial(r) \/ WriteUnary(r) PROVE WInv'
  BY <1>3 DEF WriteSerial, WriteUnary, WInv, environmentVars, auxiliaries
<1>4. ASSUME DoiTargets PROVE WInv'
  BY <1>4 DEF DoiTargets, WInv
<1>5. ASSUME Reconcile \/ UNCHANGED vars PROVE WInv'
  <2>1. UNCHANGED <<row, status, targets, environmentVars, phaseVars, auxiliaries>>
    BY <1>5 DEF Reconcile, vars, recordVars
  <2>2. Judged(status)' <=> Judged(status)
    BY <2>1 DEF Judged, BookDois, Holders, Group, Member, Base, environmentVars
  <2>3. (SameBase /\ Judged(Final))' <=> SameBase /\ Judged(Final)
    BY <2>1 DEF Judged, BookDois, Holders, Group, Member, Base, environmentVars, phaseVars, SameBase, Final, OwnCase
  <2> QED BY <2>1, <2>2, <2>3 DEF WInv, phaseVars, auxiliaries
<1>6. ASSUME Start PROVE WInv'
  <2>1. CASE task = "doi_targets"
    <3>1. task' = "remove_identifiers" BY <1>6, <2>1 DEF Start, Following
    <3> QED BY <1>6, <3>1, RemovalsJudge DEF WInv
  <2>2. CASE task = "remove_identifiers"
    <3>1. /\ task' = "matchable" /\ UNCHANGED <<facts, world, targets, row, status>>
          /\ pending = NoPending
      BY <1>6, <2>2 DEF Start, Following, recordVars, environmentVars, NothingPending
    <3>4. undisturbed' => undisturbed
      <4>1. undisturbed' = (undisturbed \/ task = "idle") BY <1>6 DEF Start
      <4>2. ~ (task = "idle") BY <2>2
      <4> QED BY <4>1, <4>2, Zenon
    <3>2. Final = status
      <4>1. \A r \in Records : pending[r] = None BY <3>1 DEF NoPending
      <4>2. status \in [Records -> Statuses] BY DEF TypeOK
      <4> QED BY <4>1, <4>2 DEF Final
    <3>3. Judged(status)' <=> Judged(status) BY <3>1, JudgementUnchanged
    <3>5. ~ (task' = "idle") /\ ~ (task' = "remove_identifiers") BY <3>1
    <3>6. undisturbed => Judged(status) BY <2>2, <3>2 DEF WInv
    <3>7. undisturbed' => Judged(status)' BY <3>3, <3>4, <3>6
    <3> QED BY <3>5, <3>7 DEF WInv
  <2>3. CASE task = "idle" \/ task = "serial_by_doi"
    <3>1. task' = "serial_by_doi" \/ task' = "unary" BY <1>6, <2>3 DEF Start, Following
    <3> QED BY <3>1 DEF WInv
  <2>4. task \in {"idle", "serial_by_doi", "doi_targets", "remove_identifiers"}
    BY <1>6 DEF Start, Following
  <2> QED BY <2>1, <2>2, <2>3, <2>4
<1>7. ASSUME EndRun PROVE WInv'
  <2>1. /\ task = "matchable" /\ task' = "idle" /\ UNCHANGED <<facts, world, targets, row, status, undisturbed>>
        /\ quiet' > 0 => undisturbed
    BY <1>7 DEF EndRun, recordVars, environmentVars
  <2>2. Judged(status)' <=> Judged(status) BY <2>1, JudgementUnchanged
  <2> QED BY <2>1, <2>2 DEF WInv
<1>8. ASSUME NEW q \in Records, WriteRemovals(q) PROVE WInv'
  <2>1. /\ task = "remove_identifiers" /\ task' = task /\ UNCHANGED <<facts, world, targets, row, undisturbed>>
        /\ pending[q] # None
        /\ status' = [status EXCEPT ![q] = pending[q].status]
        /\ pending' = [pending EXCEPT ![q] = None]
    BY <1>8 DEF WriteRemovals, environmentVars, auxiliaries
  <2> SUFFICES ASSUME undisturbed PROVE (SameBase /\ Judged(Final))' BY <2>1 DEF WInv
  <2>2. SameBase /\ Judged(Final) BY <2>1 DEF WInv
  <2>3. status \in [Records -> Statuses] /\ pending \in [Records -> Updates(task) \cup {None}]
    BY DEF TypeOK
  <2>4. \A r \in Records : /\ status'[r] = IF r = q THEN pending[q].status ELSE status[r]
                           /\ pending'[r] = IF r = q THEN None ELSE pending[r]
    <3> SUFFICES ASSUME NEW r \in Records
                 PROVE  /\ status'[r] = IF r = q THEN pending[q].status ELSE status[r]
                        /\ pending'[r] = IF r = q THEN None ELSE pending[r]
      OBVIOUS
    <3>1. status'[r] = IF r = q THEN pending[q].status ELSE status[r] BY <2>1, <2>3
    <3>2. pending'[r] = IF r = q THEN None ELSE pending[r] BY <2>1, <2>3
    <3> QED BY <3>1, <3>2
  <2>5. Final' = Final BY <2>1, <2>4 DEF Final
  <2>6. \A r \in Records, i \in Ids : OwnCase(status'[r], i) <=> OwnCase(status[r], i)
    BY <2>1, <2>2, <2>4 DEF SameBase
  <2>7. ASSUME NEW final, Judged(final) PROVE Judged(final)'
    BY <2>1, <2>6, <2>7, JudgementStays
  <2>8. SameBase' BY <2>2, <2>4, <2>6 DEF SameBase
  <2>9. PICK final : final = Final OBVIOUS
  <2>10. Judged(final)' BY <2>2, <2>7, <2>9
  <2>11. Judged(Final)' BY <2>5, <2>9, <2>10 DEF Judged
  <2> QED BY <2>8, <2>11
<1>9. ASSUME NEW q \in Records, WriteMatchable(q) PROVE WInv'
  <2>1. /\ task = "matchable" /\ task' = task /\ UNCHANGED <<facts, world, targets, status, undisturbed>>
        /\ row' = [row EXCEPT ![q].matchable = pending[q].matchable]
    BY <1>9 DEF WriteMatchable, environmentVars, auxiliaries
  <2>2. \A r \in Records : row'[r].type = row[r].type
    BY <2>1 DEF TypeOK, Rows
  <2>3. ASSUME NEW final, Judged(final) PROVE Judged(final)'
    BY <2>1, <2>2, <2>3, JudgementStays
  <2>4. PICK final : final = status OBVIOUS
  <2>5. Judged(status) => Judged(final) BY <2>4
  <2>6. Judged(final)' => Judged(status)' BY <2>1, <2>4 DEF Judged
  <2>7. Judged(status) => Judged(status)' BY <2>3, <2>5, <2>6
  <2> QED BY <2>1, <2>7 DEF WInv
<1> QED BY <1>2, <1>3, <1>4, <1>5, <1>6, <1>7, <1>8, <1>9 DEF Next

(* A chapter that keeps the DOI of books for which it is no copy has the   *)
(* title of one of them, which keeps the DOI too, since it owns it.        *)
LEMMA JudgedApart == TypeOK /\ WInv => WorksApart
<1> SUFFICES ASSUME TypeOK, WInv, quiet > 0, task = "idle",
                    NEW d \in Dois \ world.unresolved, targets[d] = None, NEW c \in Records,
                    row[c].type = "book_chapter", d \in Active(facts[c], status[c]),
                    facts[c].role[d] \notin Strong,
                    NEW b \in Records, row[b].type = "book", d \in Active(facts[b], status[b]),
                    facts[b].role[d] \in Strong
             PROVE  \E n \in Records : /\ row[n].type = "book" /\ d \in Active(facts[n], status[n])
                                       /\ facts[n].role[d] \in Strong
                                       /\ SameTitle(facts[c].title, facts[n].title)
  BY DEF WorksApart
<1> DEFINE G == Group(d)
<1>1. Judged(status) BY DEF WInv
<1>2. c \in Holders(d) /\ b \in Holders(d) /\ status[c][d] = None /\ status[b][d] = None
  BY DEF Active, Held, Holders
<1>3. d \in BookDois BY <1>2 DEF BookDois
<1>4. \A r \in Records : /\ Member(r).id = r /\ Member(r).type = row[r].type /\ Member(r).title = facts[r].title
                         /\ Member(r).own = {i \in Base(r) : facts[r].role[i] \in Strong}
  BY DEF Member
<1>5. Member(c) \in G /\ Member(b) \in G BY <1>2 DEF Group
<1>6. Member(b) \in Owners(G, d)
  <2>1. d \in Base(b) BY DEF Active, Base
  <2> QED BY <1>4, <1>5, <2>1 DEF Owners
<1>7. Member(c) \notin Owners(G, d) BY <1>4 DEF Owners
<1>8. Member(c) \notin Losers(G, d) BY <1>1, <1>2, <1>3 DEF Judged
<1>9. Member(c) \notin Divergent(G, d) BY <1>7, <1>8 DEF Losers, WithCoOwners
<1> DEFINE books == TitlesOf(Owners(G, d), "book")
<1>10. References(G, d) = Owners(G, d) BY <1>6 DEF References
<1>11. facts[b].title \in books BY <1>4, <1>6 DEF TitlesOf
<1>12. PICK t \in books \ {None} : SameTitle(facts[c].title, t)
  <2>1. Member(c) \in {m \in G : m.type = "book_chapter"} BY <1>4, <1>5
  <2> HIDE DEF G
  <2> QED BY <1>4, <1>9, <1>10, <1>11, <2>1 DEF Divergent
<1>13. PICK m \in Owners(G, d) : m.type = "book" /\ m.title = t BY <1>12 DEF TitlesOf
<1>14. PICK n \in Holders(d) : m = Member(n) BY <1>13 DEF Owners, Group
<1>15. n \in Records BY <1>14 DEF Holders
<1>16. status[n][d] = None BY <1>1, <1>3, <1>13, <1>14 DEF Judged
<1>17. row[n].type = "book" /\ facts[n].title = t BY <1>4, <1>13, <1>14, <1>15
<1>18. d \in Base(n) /\ facts[n].role[d] \in Strong BY <1>4, <1>13, <1>14, <1>15 DEF Owners
<1>19. d \in Active(facts[n], status[n]) BY <1>16, <1>18 DEF Base, Active
<1> QED BY <1>12, <1>15, <1>17, <1>18, <1>19

(* remove_identifiers: a run that nothing disturbed leaves no chapter with *)
(* the DOI that a book of another title has for its own.                   *)
THEOREM WorksStayApart == Spec => []WorksApart
<1>1. Init => WInv
  BY DEF Init, WInv
<1> QED BY TypeCorrect, JudgedStep, JudgedApart, <1>1, PTL DEF Spec
==============================================================================

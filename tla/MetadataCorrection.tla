------------------------- MODULE MetadataCorrection --------------------------
(***************************************************************************)
(* The phase metadata_correction over its runs                             *)
(* (pipeline/transformation/publications/correction): five sub-steps, each *)
(* reading the records, computing its updates and committing them by       *)
(* batches, beside the requests of the administration that change the type *)
(* of a serial and correct its records again (requalify_serial.py), and    *)
(* between the other phases: normalization, attachment to serials,         *)
(* reconciliation.                                                         *)
(*                                                                         *)
(* A batch is one record, the harshest: a larger one only leaves fewer     *)
(* moments for the rest to happen.                                         *)
(***************************************************************************)
EXTENDS CorrectionRules

CONSTANTS
    Stocks,         \* what the records may say: functions from Records to Facts
    SettlingRuns,   \* number of undisturbed runs after which nothing changes any more
    MaxChanges      \* bound on the changes of the world, the rewritten records, the requests and the interruptions

ASSUME CorrectionConstants ==
    /\ Stocks \subseteq [Records -> Facts]
    /\ Dissertations \subseteq Deposits /\ Dois \cap Deposits = {}
    /\ Unset \notin Types \cup {None} /\ \A urls \in SUBSET (Archives \cup Deposits) : urls # Unset
    /\ DoiKind \in [Dois -> {"plain", "chapter", "thesis registry", "preprint server", "excluded"}]
    /\ MaxChanges \in Nat
    /\ SettlingRuns \in Nat \ {0}

VARIABLES
    facts,          \* what the normalizer wrote of each record
    row,            \* columns doc_type, urls, serial_id, is_matchable, corrections (raw values)
    status,         \* removed_by of each identifier
    targets,        \* doi_targets
    marked,         \* source_record_keys_queue
    serialType,     \* serials.serial_type
    world,          \* what the corrections read and others write: namespaces, unknown DOIs and deposits, registrants
    task,           \* last sub-step started, "idle" outside of the phase
    pending,        \* computed updates of the sub-step, not yet committed (None for a record without)
    request,        \* type a request gives to a serial, updates it computed, records rewritten since; None without
    collided,       \* auxiliary: records an update overwrote with values read before another one
    undisturbed,    \* auxiliary: nothing but the phase wrote since its start
    quiet,          \* auxiliary: number of undisturbed runs in a row, SettlingRuns for more
    changes

recordVars == <<row, status, targets, marked>>
environmentVars == <<facts, serialType, world, changes>>
phaseVars == <<task, pending>>
auxiliaries == <<collided, undisturbed, quiet>>
vars == <<recordVars, environmentVars, phaseVars, request, auxiliaries>>

Tasks == {"serial_by_doi", "unary", "doi_targets", "remove_identifiers", "matchable"}
RawValues == [type : Types \cup {None, Unset}, urls : (SUBSET (Archives \cup Deposits)) \cup {Unset},
              serial : Serials \cup {None, Unset}]
Rows == [type : Types \cup {None}, urls : SUBSET (Archives \cup Deposits), serial : Serials \cup {None},
         matchable : BOOLEAN, raw : RawValues]
Worlds == [namespace : [Dois -> Serials \cup {None}], unresolved : SUBSET Dois, missing : SUBSET Deposits,
           press : SUBSET {Registrant[d] : d \in Dois}]

(* The updates of each sub-step: the columns and the statuses it writes.   *)
SerialUpdates == [serial : Serials \cup {None}, raw : RawValues]
UnaryUpdates == [type : Types \cup {None}, urls : SUBSET (Archives \cup Deposits), raw : RawValues,
                 status : Statuses]
StatusUpdates == [status : Statuses]
MatchableUpdates == [matchable : BOOLEAN]

ASSUME NoneIsNoValue == None \notin Cases /\ None \notin StatusUpdates

Updates(t) ==
    CASE t = "serial_by_doi" -> SerialUpdates
      [] t = "unary" -> UnaryUpdates
      [] t = "remove_identifiers" -> StatusUpdates
      [] t = "matchable" -> MatchableUpdates
      [] OTHER -> {}
Requests == [serial : Serials, type : SerialTypes, updates : [Records -> UnaryUpdates \cup {None}],
             outdated : SUBSET Records]

(* Types of the columns, and of the updates each sub-step may hold.        *)
TypeOK ==
    /\ facts \in [Records -> Facts]
    /\ row \in [Records -> Rows]
    /\ status \in [Records -> Statuses]
    /\ targets \in [Dois -> Dois \cup {None}]
    /\ serialType \in [Serials -> SerialTypes]
    /\ world \in Worlds
    /\ task \in Tasks \cup {"idle"}
    /\ pending \in [Records -> Updates(task) \cup {None}]
    /\ request \in Requests \cup {None}
    /\ marked \subseteq Records /\ collided \subseteq Records
    /\ undisturbed \in BOOLEAN /\ quiet \in 0..SettlingRuns /\ changes \in 0..MaxChanges

NoRaw == [type |-> Unset, urls |-> Unset, serial |-> Unset]
NoPending == [r \in Records |-> None]
Fresh(f) == [type |-> f.type, urls |-> f.urls, serial |-> None, matchable |-> TRUE, raw |-> NoRaw]
NoRemoval == [i \in Ids |-> None]

Init ==
    /\ facts \in Stocks
    /\ row = [r \in Records |-> Fresh(facts[r])]
    /\ status = [r \in Records |-> NoRemoval]
    /\ targets = [d \in Dois |-> None]
    /\ marked = Records
    /\ serialType = [s \in Serials |-> "journal"]
    /\ world = [namespace |-> [d \in Dois |-> None], unresolved |-> {}, missing |-> {}, press |-> {}]
    /\ task = "idle" /\ pending = NoPending /\ request = None
    /\ collided = {} /\ undisturbed = TRUE /\ quiet = 0 /\ changes = 0

(* What else happens takes one of the bounded changes, and disturbs the    *)
(* run it happens in.                                                      *)
Disturbs ==
    /\ changes < MaxChanges
    /\ changes' = changes + 1
    /\ undisturbed' = FALSE /\ quiet' = 0

------------------------------------------------------------------------------
(* The other phases and what they write for this one                       *)

(* The normalizer writes a record again: columns and identifiers are those *)
(* of the document, corrections is emptied, serial_id and is_matchable     *)
(* stay.                                                                   *)
Renormalize(r) ==
    /\ task = "idle"
    /\ Disturbs
    /\ facts' \in {stock \in Stocks : \A q \in Records \ {r} : stock[q] = facts[q]}
    /\ row' = [row EXCEPT ![r].type = facts'[r].type, ![r].urls = facts'[r].urls, ![r].raw = NoRaw]
    /\ status' = [status EXCEPT ![r] = NoRemoval]
    /\ marked' = marked \cup {r}
    /\ collided' = collided \ {r}
    /\ request' = IF request = None THEN None ELSE [request EXCEPT !.outdated = @ \cup {r}]
    /\ UNCHANGED <<targets, serialType, world, phaseVars>>

(* attach_serials: the serial of each record is the one its ISSN           *)
(* designates. Of a corrected one this is the value before correction, and *)
(* the correction stays when there is none.                                *)
Attach ==
    LET moved == {r \in Records : Raw(row[r], "serial") # facts[r].serial}
        attached(r) == IF row[r].raw.serial = Unset
                         THEN [row[r] EXCEPT !.serial = facts[r].serial]
                       ELSE [row[r] EXCEPT !.serial = IF facts[r].serial = None THEN @ ELSE facts[r].serial,
                                           !.raw.serial = facts[r].serial]
    IN  /\ task = "idle" /\ moved # {}
        /\ row' = [r \in Records |-> IF r \in moved THEN attached(r) ELSE row[r]]
        /\ marked' = marked \cup moved
        /\ undisturbed' = FALSE /\ quiet' = 0
        /\ UNCHANGED <<status, targets, environmentVars, phaseVars, request, collided>>

(* The harvest and the phase publishing find out about the DOIs of the     *)
(* records, their deposits, registrants and namespaces.                    *)
Cited == UNION {Held(facts[r]) : r \in Records}

WorldChanges ==
    /\ task = "idle"
    /\ Disturbs
    /\ \/ \E d \in Dois \cap Cited, s \in Serials \cup {None} :
              s # world.namespace[d] /\ world' = [world EXCEPT !.namespace[d] = s]
       \/ \E d \in (Dois \cap Cited) \ world.unresolved : world' = [world EXCEPT !.unresolved = @ \cup {d}]
       \/ \E d \in world.unresolved : world' = [world EXCEPT !.unresolved = @ \ {d}]
       \/ \E h \in (Deposits \cap Cited) \ world.missing : world' = [world EXCEPT !.missing = @ \cup {h}]
       \/ \E d \in Dois \cap Cited :
              Registrant[d] \notin world.press /\ world' = [world EXCEPT !.press = @ \cup {Registrant[d]}]
    /\ UNCHANGED <<recordVars, facts, serialType, phaseVars, request, collided>>

(* A reconciliation consumes the marks.                                    *)
Reconcile ==
    /\ task = "idle" /\ marked # {}
    /\ marked' = {}
    /\ UNCHANGED <<row, status, targets, environmentVars, phaseVars, request, auxiliaries>>

(* It may also withdraw a DOI from a record, or give back one it withdrew. *)
ReconcileDoi(r, d) ==
    /\ task = "idle" /\ marked # {}
    /\ Disturbs
    /\ d \in Held(facts[r]) /\ status[r][d] \in {None, "another publication"}
    /\ status' = [status EXCEPT ![r][d] = IF @ = None THEN "another publication" ELSE None]
    /\ marked' = {}
    /\ UNCHANGED <<row, targets, facts, serialType, world, phaseVars, request, collided>>

------------------------------------------------------------------------------
(* Updates                                                                 *)

TypeOfSerial(s, types) == IF s = None THEN None ELSE types[s]

RuleOfRecord(r, types) ==
    RuleOf(facts[r], row[r], OwnDois(facts[r], Active(facts[r], status[r])),
           TypeOfSerial(row[r].serial, types), world.press)

(* corrected_doc_type of the HAL record a record of ScanR was derived      *)
(* from.                                                                   *)
OriginType(r, types) ==
    LET o == facts[r].origin
    IN  IF facts[r].source # "scanr" \/ o = None THEN None ELSE TypeAfter(RuleOfRecord(o, types), row[o])

UnaryUpdateBy(rule, origin, r) ==
    LET x == row[r]
        ruled == TypeAfter(rule, x)
        type == IF origin = None THEN ruled ELSE origin
        missing == Held(facts[r]) \cap world.missing
        urls == IF missing = {} THEN Raw(x, "urls") ELSE Raw(x, "urls") \ world.missing
        removals == [i \in Ids |-> IF rule = ThesisToArticle /\ i \in Held(facts[r]) \cap Dissertations
                                     THEN "thesis to article"
                                   ELSE IF i \in missing THEN "deposit missing" ELSE None]
    IN  [type |-> type,
         urls |-> urls,
         raw |-> [type |-> Stash(x, "type", {ruled, type} # {Raw(x, "type")}),
                  urls |-> Stash(x, "urls", Raw(x, "urls") # urls),
                  serial |-> x.raw.serial],
         status |-> WithRemovals(status[r], UnaryCases, removals)]

(* correct_source_record, with the types of serials the caller sees: the   *)
(* type of the origin prevails on that of the rules, the deposits that are *)
(* missing leave with their links.                                         *)
UnaryUpdate(r, types) == UnaryUpdateBy(RuleOfRecord(r, types), OriginType(r, types), r)
UnaryNow(r) == [type |-> row[r].type, urls |-> row[r].urls, raw |-> row[r].raw, status |-> status[r]]

(* _compute_update of serial_by_doi. Of the records that are no candidates *)
(* it would change nothing.                                                *)
SerialUpdateBy(designated, r) ==
    LET takes == TakesSerial(facts[r], row[r], designated)
    IN  [serial |-> IF takes THEN CHOOSE s \in designated : TRUE ELSE Raw(row[r], "serial"),
         raw |-> [row[r].raw EXCEPT !.serial = IF takes THEN None ELSE Unset]]
SerialUpdate(r) == SerialUpdateBy(Designated(facts[r], status[r], world.namespace), r)
SerialNow(r) == [serial |-> row[r].serial, raw |-> row[r].raw]

(* The groups of remove_identifiers: base identifiers are those this       *)
(* sub-step alone would remove, and the active ones. BaseActive takes the  *)
(* removals of the run before for granted.                                 *)
BaseActive(r) == Active(facts[r], status[r])
Holders(d) == {r \in Records : facts[r].role[d] # None}
Base(r) == {i \in Held(facts[r]) : status[r][i] \in ClusterCases \cup {None}}
Member(r) == [id |-> r, type |-> row[r].type, title |-> facts[r].title, source |-> facts[r].source,
              names |-> facts[r].names, keys |-> Base(r) \cap Deposits,
              own |-> {i \in Base(r) : facts[r].role[i] \in Strong}]
Group(d) == {Member(r) : r \in Holders(d)}

(* fetch_doi_cluster_candidates                                            *)
Candidate(d) ==
    \/ d \in world.unresolved
    \/ \E r \in Holders(d) : row[r].type \in CandidateTypes \/ \E i \in Ids : status[r][i] \in ClusterCases
    \/ \E r, c \in Holders(d) : /\ facts[c].source = "crossref" /\ facts[r].source # "crossref"
                                /\ DistantTitles(facts[r].title, facts[c].title)

(* The members that lose the DOI because their work is another: none when  *)
(* the DOI has a target or is unknown to doi.org.                          *)
Separated(d) ==
    IF d \in world.unresolved \/ targets[d] # None \/ ~ Candidate(d) THEN {} ELSE Losers(Group(d), d)

(* compute_updates: the removals of a record that is in several groups add *)
(* up; who is in none keeps its statuses.                                  *)
ClusterStatusIn(groups, m) ==
    LET lostKeys == UNION {LostKeys(Group(d), Separated(d), m) : d \in groups}
        removals == [i \in Ids |-> IF i \in groups /\ i \in world.unresolved THEN "unresolved"
                                   ELSE IF i \in lostKeys \/ (i \in groups /\ m \in Separated(i)) THEN "another work"
                                   ELSE None]
    IN  IF groups = {} THEN status[m.id] ELSE WithRemovals(status[m.id], ClusterCases, removals)
ClusterStatus(r) == ClusterStatusIn({d \in Dois : r \in Holders(d) /\ Candidate(d)}, Member(r))

(* fetch_matchability_rows: the target of its DOI is the DOI of another.   *)
TargetRecorded(r) ==
    \E d \in Dois : /\ facts[r].role[d] = "primary" /\ targets[d] # None
                    /\ \E o \in Records \ {r} : facts[o].role[targets[d]] = "primary"

(* What each sub-step that writes by batches has to write.                 *)
UnlessSame(new, old) == IF new = old THEN None ELSE new
Computed(t) ==
    [r \in Records |->
        CASE t = "serial_by_doi" -> UnlessSame(SerialUpdate(r), SerialNow(r))
          [] t = "unary" -> UnlessSame(UnaryUpdate(r, serialType), UnaryNow(r))
          [] t = "remove_identifiers" -> UnlessSame([status |-> ClusterStatus(r)], [status |-> status[r]])
          [] t = "matchable" ->
                UnlessSame([matchable |-> IsMatchable(facts[r], row[r], status[r], TargetRecorded(r))],
                           [matchable |-> row[r].matchable])]

(* fetch_secondary_form_declarations: the secondary forms a record of      *)
(* DataCite declares for its DOI, version first; the target is present, a  *)
(* dataset for a piece.                                                    *)
Declarations(r) ==
    LET f == facts[r]
        present == {d \in Dois : \E o \in Records : d \in Base(o)}
        datasets == UNION {Held(facts[o]) : o \in {q \in Records : row[q].type = "dataset"}}
        declared == {[own |-> d, rule |-> n.rule, doi |-> n.doi] :
                        d \in {e \in Dois : f.source = "datacite" /\ f.role[e] = "primary"}, n \in f.relations}
        known == {n \in declared : /\ {n.own, n.doi} \cap world.unresolved = {} /\ n.own # n.doi
                                   /\ IF n.rule = "piece" THEN row[r].type = "dataset" /\ n.doi \in datasets
                                      ELSE n.doi \in present}
        versions == {n \in known : n.rule = "version"}
    IN  IF versions # {} THEN versions ELSE known

(* doi_target: one of the declarations that unite the two DOIs.            *)
DeclaredTarget(d) ==
    LET among(r) == {n \in {CHOOSE m \in Declarations(r) : TRUE} : n.own = d /\ SameWork(n.rule, row[r].type, d, n.doi)}
        uniting == UNION {among(r) : r \in {q \in Records : Declarations(q) # {}}}
    IN  IF uniting = {} THEN None ELSE (CHOOSE n \in uniting : TRUE).doi

------------------------------------------------------------------------------
(* The phase                                                               *)

NothingPending == pending = NoPending

(* A sub-step that writes by batches starts, once the one before has       *)
(* written: it reads everything and computes its updates.                  *)
Following == [idle |-> "serial_by_doi", serial_by_doi |-> "unary", doi_targets |-> "remove_identifiers",
              remove_identifiers |-> "matchable"]

Start ==
    /\ NothingPending /\ task \in DOMAIN Following
    /\ task' = Following[task]
    /\ pending' = Computed(task')
    /\ undisturbed' = (undisturbed \/ task = "idle")
    /\ UNCHANGED <<recordVars, environmentVars, request, collided, quiet>>

(* persist_serial_corrections of a batch: serial_id, and corrections as a  *)
(* whole. The raw values of other fields are those that were read.         *)
WriteSerial(r) ==
    LET u == pending[r]
    IN  /\ task = "serial_by_doi" /\ u # None
        /\ row' = [row EXCEPT ![r].serial = u.serial, ![r].raw = u.raw]
        /\ marked' = marked \cup {r}
        /\ pending' = [pending EXCEPT ![r] = None]
        /\ collided' = IF u.raw.type # row[r].raw.type \/ u.raw.urls # row[r].raw.urls
                       THEN collided \cup {r} ELSE collided
        /\ UNCHANGED <<status, targets, environmentVars, task, request, undisturbed, quiet>>

(* persist_corrections: columns, corrections as a whole, status of each    *)
(* identifier.                                                             *)
Corrected(x, u) == [x EXCEPT !.type = u.type, !.urls = u.urls, !.raw = u.raw]

WriteUnary(r) ==
    LET u == pending[r]
    IN  /\ task = "unary" /\ u # None
        /\ row' = [row EXCEPT ![r] = Corrected(@, u)]
        /\ status' = [status EXCEPT ![r] = u.status]
        /\ marked' = marked \cup {r}
        /\ pending' = [pending EXCEPT ![r] = None]
        /\ UNCHANGED <<targets, environmentVars, task, request, auxiliaries>>

(* replace_doi_targets: the records of each DOI whose target changes are   *)
(* marked, in the same transaction. RetargetedAdded forgets the targets    *)
(* that go.                                                                *)
RetargetedAdded(old, new) == {d \in Dois : new[d] \notin {None, old[d]}}
Retargeted(old, new) == {d \in Dois : old[d] # new[d]}

DoiTargets ==
    /\ task = "unary" /\ NothingPending
    /\ task' = "doi_targets"
    /\ targets' = [d \in Dois |-> DeclaredTarget(d)]
    /\ marked' = marked \cup UNION {Holders(d) : d \in Retargeted(targets, targets')}
    /\ UNCHANGED <<row, status, environmentVars, pending, request, auxiliaries>>

WriteRemovals(r) ==
    /\ task = "remove_identifiers" /\ pending[r] # None
    /\ status' = [status EXCEPT ![r] = pending[r].status]
    /\ marked' = marked \cup {r}
    /\ pending' = [pending EXCEPT ![r] = None]
    /\ UNCHANGED <<row, targets, environmentVars, task, request, auxiliaries>>

WriteMatchable(r) ==
    /\ task = "matchable" /\ pending[r] # None
    /\ row' = [row EXCEPT ![r].matchable = pending[r].matchable]
    /\ marked' = marked \cup {r}
    /\ pending' = [pending EXCEPT ![r] = None]
    /\ UNCHANGED <<status, targets, environmentVars, task, request, auxiliaries>>

EndRun ==
    /\ task = "matchable" /\ NothingPending
    /\ task' = "idle"
    /\ quiet' = IF ~ undisturbed THEN 0 ELSE IF quiet = SettlingRuns THEN quiet ELSE quiet + 1
    /\ UNCHANGED <<recordVars, environmentVars, pending, request, collided, undisturbed>>

(* The batches committed stay, the others are lost; the next run starts    *)
(* from the first sub-step.                                                *)
Interrupt ==
    /\ task # "idle"
    /\ Disturbs
    /\ task' = "idle" /\ pending' = NoPending
    /\ UNCHANGED <<recordVars, facts, serialType, world, request, collided>>

------------------------------------------------------------------------------
(* The administration changes the type of a serial (update_serial): in one *)
(* transaction, it corrects again the records of the serial, if the serial *)
(* has publications, from what it reads and the type it gives.             *)

OfSerial(s) == {r \in Records : row[r].serial = s}

AskRequalification(s, type) ==
    /\ request = None /\ type # serialType[s]
    /\ Disturbs
    /\ LET types == [serialType EXCEPT ![s] = type]
       IN  \E published \in SUBSET {s} :
             request' = [serial |-> s, type |-> type,
                         updates |-> [r \in Records |->
                            IF r \in OfSerial(s) /\ published # {} THEN UnlessSame(UnaryUpdate(r, types), UnaryNow(r))
                            ELSE None],
                         outdated |-> {}]
    /\ UNCHANGED <<recordVars, facts, serialType, world, phaseVars, collided>>

CommitRequalification ==
    LET corrected == {r \in Records : request.updates[r] # None}
    IN  /\ request # None
        /\ serialType' = [serialType EXCEPT ![request.serial] = request.type]
        /\ row' = [r \in Records |-> IF r \in corrected THEN Corrected(row[r], request.updates[r]) ELSE row[r]]
        /\ status' = [r \in Records |-> IF r \in corrected THEN request.updates[r].status ELSE status[r]]
        /\ marked' = marked \cup corrected
        /\ collided' = collided \cup (corrected \cap request.outdated)
        /\ request' = None
        /\ undisturbed' = FALSE /\ quiet' = 0
        /\ UNCHANGED <<targets, facts, world, changes, phaseVars>>

------------------------------------------------------------------------------
Next ==
    \/ \E r \in Records : Renormalize(r) \/ WriteSerial(r) \/ WriteUnary(r) \/ WriteRemovals(r) \/ WriteMatchable(r)
    \/ \E r \in Records, d \in Dois : ReconcileDoi(r, d)
    \/ Attach \/ WorldChanges \/ Reconcile
    \/ Start \/ DoiTargets \/ EndRun \/ Interrupt
    \/ \E s \in Serials, type \in SerialTypes : AskRequalification(s, type)
    \/ CommitRequalification

Spec == Init /\ [][Next]_vars

------------------------------------------------------------------------------
(* Properties                                                              *)

(* Whatever the corrections wrote, and in whatever order, the values the   *)
(* source gave are still there: a record nothing was overwritten of has    *)
(* for values before correction those of its document.                     *)
RawIsKept ==
    \A r \in Records \ collided :
        Raw(row[r], "type") = facts[r].type /\ Raw(row[r], "urls") = facts[r].urls

(* What the reconciliation reads of a record.                              *)
Key(r) == <<row[r].type, row[r].serial, row[r].matchable, Active(facts[r], status[r]),
            [d \in Dois \cap Held(facts[r]) |-> targets[d]]>>

(* Nothing changes what the reconciliation reads of a record without       *)
(* marking it, except the reconciliation that has just decided on it.      *)
KeyChangesAreMarked ==
    [][\A r \in Records : Key(r)' # Key(r) => r \in marked' \/ marked' = {}]_vars

(* The holders of the DOI of a chapter that a record of type other before  *)
(* correction holds as secondary: the type of this record depends on the   *)
(* DOI, whose removal depends on its type.                                 *)
Swinging ==
    UNION {Holders(d) : d \in {e \in Dois : /\ DoiKind[e] = "chapter"
                                           /\ \E r \in Holders(e) : facts[r].type = "other" /\ facts[r].role[e] \notin Strong}}

(* After SettlingRuns runs nothing disturbed, the phase has nothing to     *)
(* write: what a sub-step removes or corrects is no reason for another to  *)
(* undo it at the next run, but for the swinging records.                  *)
Settles ==
    quiet = SettlingRuns /\ task = "idle" =>
        /\ \A t \in Tasks \ {"doi_targets"}, r \in Records \ Swinging : Computed(t)[r] = None
        /\ \A d \in Dois : targets[d] = DeclaredTarget(d)

(* After a run nothing disturbed, no chapter has in common with a book of  *)
(* another title the DOI that book holds for its own.                      *)
WorksApart ==
    quiet > 0 /\ task = "idle" =>
        \A d \in Dois \ world.unresolved : targets[d] = None =>
            \A c \in Records :
                LET books == {b \in Records : row[b].type = "book" /\ d \in Active(facts[b], status[b])
                                             /\ facts[b].role[d] \in Strong}
                IN  /\ row[c].type = "book_chapter" /\ d \in Active(facts[c], status[c])
                    /\ facts[c].role[d] \notin Strong /\ books # {}
                    => \E b \in books : SameTitle(facts[c].title, facts[b].title)

==============================================================================

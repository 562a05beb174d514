-------------------------- MODULE PersonResolution ---------------------------
(***************************************************************************)
(* The persons phase (pipeline/transformation/persons): one run after the  *)
(* other attaches contributions to persons, creates the missing persons,   *)
(* refreshes their name forms and purges; the administration assigns and   *)
(* rejects while it runs, and the grouping of authors recomposes the       *)
(* contributions between two runs.                                         *)
(*                                                                         *)
(* resolve_contributions is one READ COMMITTED transaction: it reads       *)
(* committed rows and its own writes, loads the index of the persons and   *)
(* the rejections once, and writes batch after batch.  A request of the    *)
(* administration is one transaction, an atomic action; it cannot run      *)
(* while it has to write a row the phase has written and not committed.    *)
(*                                                                         *)
(* A name is a full name or a reduced one (initials); one type of          *)
(* identifier; every source contribution is in the perimeter, under a role *)
(* that may found a person, and holds trusted, not neutralized values.     *)
(***************************************************************************)
EXTENDS Naturals, FiniteSets

CONSTANTS
    Pubs,           \* publications, numbers in the order of the batches
    Sources,        \* source contributions, 1 .. n in the order of founding_name
    MaxContribs,    \* bound on the ids the sequence of the contributions issues
    Persons,        \* ids of persons, the smallest free one is given
    Names,          \* normalized names of one last name
    Extends,        \* couples <<reduced name, full name it abbreviates>>
    Values,         \* values of the identifier
    NoValue,        \* a source contribution without identifier
    PubOf, NameOf, ValueOf,     \* of each source contribution
    HrRecords,      \* persons with an HR record, present from the start
    HrName,         \* their names
    MaxRequests,    \* bound on the requests of the administration
    MaxRegroups,    \* bound on the recompositions of contributions
    MaxFailures     \* bound on the interruptions of the phase

Contribs == 1 .. MaxContribs
NoPerson == 0
NoName == "no name"

Reduced == {e[1] : e \in Extends}

ASSUME NumbersAssumption ==
    /\ Pubs \subseteq Nat /\ Persons \subseteq Nat \ {NoPerson}
    /\ MaxContribs \in Nat /\ Cardinality(Sources) \in Contribs
    /\ Sources = 1 .. Cardinality(Sources)
ASSUME NamesAssumption ==
    NoName \notin Names /\ Extends \subseteq Names \X (Names \ Reduced)
ASSUME ValuesAssumption == NoValue \notin Values
ASSUME ProfilesAssumption ==
    /\ PubOf \in [Sources -> Pubs]
    /\ NameOf \in [Sources -> Names]
    /\ ValueOf \in [Sources -> Values \cup {NoValue}]
ASSUME HrAssumption ==
    HrRecords \subseteq Persons /\ HrName \in [HrRecords -> Names \ Reduced]
ASSUME BoundsAssumption == {MaxRequests, MaxRegroups, MaxFailures} \subseteq Nat

VARIABLES
    aligned,        \* contribution each source contribution is aligned in
    issued,         \* last id the sequence of the contributions gave
    link,           \* person and resolution mode of each contribution
    pin,            \* person each source contribution is pinned to
    rejected,       \* rejected pairs <<publication, person>>
    personName,     \* name of each person, NoName for an absent one
    form,           \* form[p][n]: "own" (of the name of p), "pending", "rejected", "none"
    attribution,    \* person and rejection of each identifier value
    queue,          \* contributions marked for the redecision of their person
    stage,          \* where the phase is
    remarked,       \* marks of --rebuild-persons, not committed
    copied,         \* marks the phase copied and no one renewed
    candidates,     \* contributions to decide
    todo, batch,    \* publications to decide, and the one loaded
    pinsRead,       \* pins of the contributions of the batch, as loaded
    taken,          \* persons taken in each publication, as loaded and decided
    toCreate,       \* contributions whose decision is a creation
    index,          \* PersonIndex
    rejectedRead,   \* the rejections, as loaded
    written, named, given,  \* uncommitted: contributions, names of persons, attributions
    disturbed,      \* a request was committed since the phase started
    late,           \* persons a rejection of whom came after the phase decided or wrote
    requests, regroups, failures

tables == <<aligned, issued, link, pin, rejected, personName, form, attribution>>
readings == <<remarked, candidates, todo, batch, pinsRead, taken, toCreate, index, rejectedRead>>
overlay == <<written, named, given>>
counters == <<requests, regroups, failures>>
vars == <<tables, queue, stage, copied, readings, overlay, disturbed, late, counters>>

Modes == {"none", "manual", "identifier", "name"}
Unlinked == [person |-> NoPerson, mode |-> "none"]
Links == [person : Persons \cup {NoPerson}, mode : Modes]
Unattributed == [person |-> NoPerson, rejected |-> FALSE]
Attributions == [person : Persons \cup {NoPerson}, rejected : BOOLEAN]
Forms == {"own", "pending", "rejected", "none"}
NoForms == [n \in Names |-> "none"]
NoIndex == [form |-> [p \in Persons |-> NoForms],
            name |-> [p \in Persons |-> NoName],
            holder |-> [v \in Values |-> NoPerson],
            conflicting |-> {}]
Nothing == <<>>
IsPartial(f, S, T) == DOMAIN f \subseteq S /\ \A x \in DOMAIN f : f[x] \in T

Smallest(S) == CHOOSE x \in S : \A y \in S : x <= y
IsSingleton(S) == \E x \in S : S = {x}
Sole(S) == CHOOSE x \in S : TRUE

(* The contributions as they stand: those some source contribution is in.  *)
Existing == {aligned[s] : s \in Sources}
Members(c) == {s \in Sources : aligned[s] = c}
PubOfContrib(c) == PubOf[CHOOSE s \in Members(c) : TRUE]
Rivals(c) == {o \in Existing \ {c} : PubOfContrib(o) = PubOfContrib(c)}
PinsOf(c) == {pin[s] : s \in Members(c)} \ {NoPerson}

(* What the transaction of the phase reads: the tables under its writes.   *)
View == [c \in Contribs |-> IF c \in DOMAIN written THEN written[c] ELSE link[c]]
NameView == [p \in Persons |-> IF p \in DOMAIN named THEN named[p] ELSE personName[p]]
AttributionView == [v \in Values |-> IF v \in DOMAIN given THEN given[v] ELSE attribution[v]]

(* compute_person_name_forms: the name and its initials.                   *)
FormsOf(n) == {n} \cup {r \in Reduced : <<r, n>> \in Extends}

(* A person the phase renamed or created has the forms of its name.        *)
FormView == [p \in Persons |-> [n \in Names |->
    IF p \in DOMAIN named /\ n \in FormsOf(named[p]) THEN "own" ELSE form[p][n]]]

(* Types of the tables and of what the phase holds.                        *)
TypeOK ==
    /\ aligned \in [Sources -> Contribs]
    /\ issued \in Contribs
    /\ link \in [Contribs -> Links]
    /\ pin \in [Sources -> Persons \cup {NoPerson}]
    /\ rejected \in SUBSET (Pubs \X Persons)
    /\ personName \in [Persons -> Names \cup {NoName}]
    /\ form \in [Persons -> [Names -> Forms]]
    /\ attribution \in [Values -> Attributions]
    /\ {queue, remarked, copied, candidates, toCreate} \subseteq SUBSET Contribs
    /\ stage \in {"idle", "pinned", "deciding", "conflict", "resolved", "populated"}
    /\ {todo, batch} \subseteq SUBSET Pubs
    /\ pinsRead \in [Contribs -> SUBSET Persons]
    /\ taken \in [Pubs -> SUBSET Persons]
    /\ index \in [form : [Persons -> [Names -> Forms]], name : [Persons -> Names \cup {NoName}],
                  holder : [Values -> Persons \cup {NoPerson}], conflicting : SUBSET Persons]
    /\ rejectedRead \in SUBSET (Pubs \X Persons)
    /\ IsPartial(written, Contribs, Links)
    /\ IsPartial(named, Persons, Names)
    /\ IsPartial(given, Values, Attributions)
    /\ disturbed \in BOOLEAN
    /\ late \in SUBSET Persons
    /\ {requests, regroups, failures} \subseteq Nat

NothingRead ==
    /\ remarked = {} /\ candidates = {} /\ todo = {} /\ batch = {} /\ toCreate = {}
    /\ pinsRead = [c \in Contribs |-> {}]
    /\ taken = [b \in Pubs |-> {}]
    /\ index = NoIndex
    /\ rejectedRead = {}

(* A first alignment, one contribution per source contribution, and the    *)
(* persons of the HR import with the forms of their names.                 *)
Init ==
    /\ aligned = [s \in Sources |-> s]
    /\ issued = Cardinality(Sources)
    /\ link = [c \in Contribs |-> Unlinked]
    /\ pin = [s \in Sources |-> NoPerson]
    /\ rejected = {}
    /\ personName = [p \in Persons |-> IF p \in HrRecords THEN HrName[p] ELSE NoName]
    /\ form = [p \in Persons |-> [n \in Names |->
          IF p \in HrRecords /\ n \in FormsOf(HrName[p]) THEN "own" ELSE "none"]]
    /\ attribution = [v \in Values |-> Unattributed]
    /\ queue = {} /\ copied = {}
    /\ stage = "idle"
    /\ NothingRead
    /\ written = Nothing /\ named = Nothing /\ given = Nothing
    /\ disturbed = FALSE /\ late = {}
    /\ requests = 0 /\ regroups = 0 /\ failures = 0

------------------------------------------------------------------------------
(* The decision on one contribution (domain/persons)                       *)

NamesCompatible(n, m) == n = m \/ <<n, m>> \in Extends \/ <<m, n>> \in Extends

(* decide_match_by_identifier: the verdict of the form, else the names.    *)
Corroborates(s, p, idx) ==
    \/ idx.form[p][NameOf[s]] = "own"
    \/ idx.form[p][NameOf[s]] # "rejected" /\ NamesCompatible(NameOf[s], idx.name[p])

Holder(s, idx) == IF ValueOf[s] = NoValue THEN NoPerson ELSE idx.holder[ValueOf[s]]

Identified(s, idx) == {p \in {Holder(s, idx)} \ {NoPerson} : Corroborates(s, p, idx)}

Active(p, n, f) == f[p][n] \in {"own", "pending"}

(* compatible_persons: by initials, when no active form has the name.      *)
CompatiblePersons(n, idx) ==
    IF n \in Reduced
    THEN {p \in Persons : n = idx.name[p] \/ <<n, idx.name[p]>> \in Extends}
    ELSE {p \in Persons \ idx.conflicting :
            /\ <<idx.name[p], n>> \in Extends
            /\ \A q \in Persons : <<idx.name[p], idx.name[q]>> \notin Extends}

NamedBy(s, idx) ==
    LET exact == {p \in Persons : Active(p, NameOf[s], idx.form)}
    IN  IF exact # {} THEN exact ELSE CompatiblePersons(NameOf[s], idx)

(* The persons every source contribution with candidates agrees on.        *)
Common(m, cand) == {p \in Persons : \A s \in m : cand[s] = {} \/ p \in cand[s]}

Decision(p, by, refused) == [person |-> p, by |-> by, refused |-> refused]
Single(S, by, refused) ==
    IF IsSingleton(S) THEN Decision(Sole(S), by, refused)
                      ELSE Decision(NoPerson, "skip", refused)
IsMatch(d) == d.by \in {"manual", "identifier", "name"}

(* decide_contribution: pins, then identifiers, then names, then creation. *)
Decide(m, pins, idx, barred) ==
    LET byValue == [s \in m |-> Identified(s, idx) \ barred]
        byName == [s \in m |-> NamedBy(s, idx) \ barred]
        refused == {ValueOf[s] : s \in {t \in m : /\ Holder(t, idx) # NoPerson
                                                   /\ Identified(t, idx) = {}}}
        on(cand) == \E s \in m : cand[s] # {}
    IN  IF pins # {} THEN Single(pins, "manual", {})
        ELSE IF on(byValue) THEN Single(Common(m, byValue), "identifier", refused)
        ELSE IF on(byName) THEN Single(Common(m, byName), "name", refused)
        ELSE Decision(NoPerson, IF \E s \in m : NamedBy(s, idx) # {} THEN "skip" ELSE "create",
                      refused)

(* Only a full name founds a person.                                       *)
FoundingNameFullOnly(m) ==
    LET full == {s \in m : NameOf[s] \notin Reduced}
    IN  IF full = {} THEN NoName ELSE NameOf[Smallest(full)]

(* founding_name: a full name first, then the order of the sources.        *)
FoundingName(m) ==
    LET full == {s \in m : NameOf[s] \notin Reduced}
    IN  NameOf[Smallest(IF full # {} THEN full ELSE m)]

(* The rejections are ignored.                                             *)
BarredInNobody(b, pairs) == {}

BarredIn(b, pairs) == {p \in Persons : <<b, p>> \in pairs}

(* The index of what f, names and values hold (load_index).                *)
IndexOf(f, names, values, conflicting) ==
    [form |-> f, name |-> names, conflicting |-> conflicting,
     holder |-> [v \in Values |-> IF values[v].rejected THEN NoPerson ELSE values[v].person]]

(* settle_publication: of the contributions that designate one person, the *)
(* best supported keeps it, and none if it is taken.                       *)
Strength(by) == CASE by = "manual" -> 0 [] by = "identifier" -> 1 [] by = "name" -> 2
Better(c, d, decided) ==
    LET x == Strength(decided[c].by)   y == Strength(decided[d].by)
        k == Cardinality(Members(c))   l == Cardinality(Members(d))
    IN  x < y \/ (x = y /\ k > l) \/ (x = y /\ k = l /\ c < d)

Settle(decided, takenHere) ==
    [c \in DOMAIN decided |->
        IF /\ IsMatch(decided[c])
           /\ \/ decided[c].person \in takenHere
              \/ \E d \in DOMAIN decided \ {c} :
                    /\ IsMatch(decided[d]) /\ decided[d].person = decided[c].person
                    /\ Better(d, c, decided)
        THEN Decision(NoPerson, "skip", decided[c].refused)
        ELSE decided[c]]

------------------------------------------------------------------------------
(* Rows written by both sides                                              *)

Occupied(c, p, links) == \E o \in Rivals(c) : links[o].person = p

(* A pin yields to any contribution that has the person.                   *)
PinnedYielding(cs, links) ==
    [c \in Contribs |->
        IF c \in cs /\ \E p \in Persons : PinsOf(c) = {p} /\ ~ Occupied(c, p, links)
        THEN [person |-> Sole(PinsOf(c)), mode |-> "manual"] ELSE links[c]]

(* pinned_contributions_sql on the contributions cs: the smallest one of   *)
(* each pinned person, unless another manual one of that person is there,  *)
(* takes its person; the other contributions of the person are released.   *)
Pinned(cs, links) ==
    LET of(c) == Sole(PinsOf(c))
        free == {c \in cs :
                    /\ IsSingleton(PinsOf(c))
                    /\ \A o \in Rivals(c) : links[o] # [person |-> of(c), mode |-> "manual"]}
        target == {c \in free : \A d \in free \cap Rivals(c) : of(d) = of(c) => c < d}
    IN  [c \in Contribs |->
            IF c \in target THEN [person |-> of(c), mode |-> "manual"]
            ELSE IF c \in Existing /\ \E t \in target \cap Rivals(c) : of(t) = links[c].person
            THEN Unlinked ELSE links[c]]

(* The uncommitted writes after the contributions become links.            *)
Writing(links) ==
    [c \in DOMAIN written \cup {d \in Contribs : links[d] # View[d]} |-> links[c]]

(* attribute_identifier by the phase: a free value, or one rejected for    *)
(* another person, goes in pending to the person of the first contribution *)
(* that carries it and does not refuse it.                                 *)
Attributed(decided) ==
    LET carriers(v) ==
            {c \in DOMAIN decided : /\ IsMatch(decided[c])
                                    /\ v \notin decided[c].refused
                                    /\ decided[c].person # AttributionView[v].person
                                    /\ \E s \in Members(c) : ValueOf[s] = v}
        moved == {v \in Values : /\ carriers(v) # {}
                                 /\ \/ AttributionView[v].person = NoPerson
                                    \/ AttributionView[v].rejected}
    IN  [v \in DOMAIN given \cup moved |->
            IF v \in moved
            THEN [person |-> decided[Smallest(carriers(v))].person, rejected |-> FALSE]
            ELSE given[v]]

------------------------------------------------------------------------------
(* resolve_contributions                                                   *)

(* complete_reduced_first_names: the full first names the contributions    *)
(* attached to a person with a reduced one attest.                         *)
Attested(p, links) ==
    {NameOf[s] : s \in {t \in Sources : /\ links[aligned[t]].person = p
                                        /\ p \notin HrRecords
                                        /\ <<personName[p], NameOf[t]>> \in Extends}}
Conflicting(links) == {p \in Persons : \E n, m \in Attested(p, links) : n # m}

(* The start of the phase: the marks of --rebuild-persons, the pins, the   *)
(* completion of the first names.                                          *)
Start(rebuild) ==
    LET links == Pinned(Existing, link)
        completed == {p \in Persons : IsSingleton(Attested(p, links))}
    IN  /\ stage = "idle"
        /\ stage' = "pinned"
        /\ remarked' = {c \in Existing : /\ rebuild
                                         /\ link[c].mode \notin {"none", "manual"}}
        /\ written' = Writing(links)
        /\ named' = [p \in completed |-> Sole(Attested(p, links))]
        /\ index' = [index EXCEPT !.conflicting = Conflicting(links)]
        /\ disturbed' = FALSE
        /\ UNCHANGED <<tables, queue, copied, candidates, todo, batch, pinsRead, taken, toCreate,
                       rejectedRead, given, late, counters>>

(* prepare_candidates, load_index and the rejections.                      *)
Prepare ==
    /\ stage = "pinned"
    /\ stage' = "deciding"
    /\ copied' = queue
    /\ candidates' = {c \in Existing : \/ View[c].person = NoPerson
                                       \/ c \in queue \cup remarked /\ View[c].mode # "manual"}
    /\ todo' = {PubOfContrib(c) : c \in candidates'}
    /\ index' = IndexOf(FormView, NameView, AttributionView, index.conflicting)
    /\ rejectedRead' = rejected
    /\ UNCHANGED <<tables, queue, remarked, batch, pinsRead, taken, toCreate, overlay,
                   disturbed, late, counters>>

(* A batch: its contributions with their pins, and the persons the other   *)
(* contributions of the publication have.                                  *)
LoadBatch ==
    /\ stage = "deciding" /\ batch = {}
    /\ \E b \in todo :
          /\ \A x \in todo : b <= x
          /\ batch' = {b}
          /\ todo' = todo \ {b}
          /\ pinsRead' = [c \in Contribs |->
                             IF c \in candidates /\ PubOfContrib(c) = b THEN PinsOf(c) ELSE {}]
          /\ taken' = [taken EXCEPT ![b] = {View[c].person :
                          c \in {o \in Existing \ candidates : PubOfContrib(o) = b}} \ {NoPerson}]
    /\ UNCHANGED <<tables, queue, stage, copied, remarked, candidates, toCreate, index,
                   rejectedRead, overlay, disturbed, late, counters>>

(* The decisions are written without the releases first.                   *)
ReleasedNone(decided, links) == links

(* release_contributions: they lose a person their decision does not name. *)
Released(decided, links) ==
    [c \in Contribs |->
        IF c \in DOMAIN decided /\ links[c].person \notin {NoPerson, decided[c].person}
        THEN Unlinked ELSE links[c]]

Attaching(decided, links) ==
    [c \in Contribs |->
        IF c \in DOMAIN decided /\ IsMatch(decided[c])
        THEN [person |-> decided[c].person, mode |-> decided[c].by] ELSE links[c]]

(* UNIQUE (publication_id, person_id), and the foreign key to the persons: *)
(* one row makes the whole task fail.                                      *)
Refused(decided, links) ==
    \E c \in DOMAIN decided :
        /\ IsMatch(decided[c])
        /\ \/ \E o \in Rivals(c) : links[o].person = decided[c].person
           \/ NameView[decided[c].person] = NoName

(* The decisions of a batch, settled; the releases, the writes and the     *)
(* attributions.  The creations wait for the end of the batches.           *)
WriteBatch ==
    /\ stage = "deciding" /\ batch # {}
    /\ \E b \in batch :
       LET cs == {c \in candidates : PubOfContrib(c) = b}
       IN  \E decided \in {Settle([c \in cs |-> Decide(Members(c), pinsRead[c], index,
                                                      BarredIn(b, rejectedRead))],
                                  taken[b])} :
           \E released \in {Released(decided, View)} :
           IF Refused(decided, released)
           THEN stage' = "conflict" /\ UNCHANGED <<batch, pinsRead, taken, toCreate, overlay>>
           ELSE /\ written' = Writing(Attaching(decided, released))
                /\ given' = Attributed(decided)
                /\ toCreate' = toCreate \cup {c \in cs : decided[c].by = "create"}
                /\ taken' = [taken EXCEPT ![b] =
                      @ \cup {decided[c].person : c \in {d \in cs : IsMatch(decided[d])}}]
                /\ pinsRead' = [c \in Contribs |-> {}]
                /\ batch' = {}
                /\ UNCHANGED <<stage, named>>
    /\ UNCHANGED <<tables, queue, copied, remarked, candidates, todo, index, rejectedRead,
                   disturbed, late, counters>>

(* index.register: a created person enters the index by its name.          *)
Registered(p, n, m, refused) ==
    [index EXCEPT
        !.form[p] = [k \in Names |-> IF k \in FormsOf(n) THEN "pending" ELSE "none"],
        !.name[p] = n,
        !.holder = [v \in Values |->
            IF @[v] = NoPerson /\ v \notin refused /\ \E s \in m : ValueOf[s] = v THEN p ELSE @[v]]]

(* create_persons: one contribution, decided again on the index as it now  *)
(* stands; it joins a person created meanwhile, or founds one.  Nobody else *)
(* sees these persons, so the writes meet no row of a request.             *)
CreateNext ==
    /\ stage = "deciding" /\ todo = {} /\ batch = {}
    /\ \E c \in toCreate :
       LET b == PubOfContrib(c)
           free == {p \in Persons : NameView[p] = NoName /\ index.name[p] = NoName}
           n == FoundingName(Members(c))
       IN  /\ \A d \in toCreate : b < PubOfContrib(d) \/ (b = PubOfContrib(d) /\ c <= d)
           /\ toCreate' = toCreate \ {c}
           /\ \E d \in {Decide(Members(c), {}, index, BarredIn(b, rejectedRead))} :
              LET founds == d.by = "create"
                  attached == founds \/ (IsMatch(d) /\ d.person \notin taken[b])
              IN  \E p \in IF founds THEN {q \in free : \A r \in free : q <= r} ELSE {d.person} :
                  LET decided == [x \in {c} |->
                                     Decision(p, IF founds THEN "name" ELSE d.by, d.refused)]
                  IN  /\ written' = IF attached THEN Writing(Attaching(decided, View)) ELSE written
                      /\ given' = IF attached THEN Attributed(decided) ELSE given
                      /\ taken' = IF attached THEN [taken EXCEPT ![b] = @ \cup {p}] ELSE taken
                      /\ named' = IF founds THEN [q \in DOMAIN named \cup {p} |->
                                                    IF q = p THEN n ELSE named[q]] ELSE named
                      /\ index' = IF founds THEN Registered(p, n, Members(c), d.refused)
                                            ELSE index
    /\ UNCHANGED <<tables, queue, stage, copied, remarked, candidates, todo, batch, pinsRead,
                   rejectedRead, disturbed, late, counters>>

TransactionEnds ==
    /\ remarked' = {} /\ candidates' = {} /\ todo' = {} /\ batch' = {} /\ toCreate' = {}
    /\ pinsRead' = [c \in Contribs |-> {}]
    /\ taken' = [b \in Pubs |-> {}]
    /\ index' = NoIndex
    /\ rejectedRead' = {}
    /\ written' = Nothing /\ named' = Nothing /\ given' = Nothing
    /\ copied' = {}

(* The marks copied are deleted with the commit.                           *)
Commit ==
    /\ stage = "deciding" /\ todo = {} /\ batch = {} /\ toCreate = {}
    /\ stage' = "resolved"
    /\ link' = View
    /\ personName' = NameView
    /\ form' = FormView
    /\ attribution' = AttributionView
    /\ queue' = queue \ copied
    /\ TransactionEnds
    /\ UNCHANGED <<aligned, issued, pin, rejected, disturbed, late, counters>>

(* The task fails on a unique constraint, or the run is interrupted.       *)
Abort ==
    /\ stage # "idle"
    /\ \/ stage = "conflict" /\ UNCHANGED failures
       \/ failures < MaxFailures /\ failures' = failures + 1
    /\ stage' = "idle"
    /\ TransactionEnds
    /\ UNCHANGED <<tables, queue, disturbed, late, requests, regroups>>

------------------------------------------------------------------------------
(* populate_person_name_forms, then purge: a transaction each              *)

NamesAttached(p) == {NameOf[s] : s \in {t \in Sources : link[aligned[t]].person = p}}

(* A form some contribution gives comes in pending, whatever its verdict.  *)
SyncedAnew(p, n) ==
    IF personName[p] # NoName /\ n \in FormsOf(personName[p]) THEN "own"
    ELSE IF n \in NamesAttached(p) THEN "pending"
    ELSE IF form[p][n] # "rejected" THEN "none" ELSE form[p][n]

(* sync_from_raw_forms: the forms of the name, those the contributions     *)
(* give, and the verdicts.                                                 *)
Synced(p, n) ==
    IF personName[p] # NoName /\ n \in FormsOf(personName[p]) THEN "own"
    ELSE IF n \in NamesAttached(p) /\ form[p][n] = "none" THEN "pending"
    ELSE IF n \notin NamesAttached(p) /\ form[p][n] # "rejected" THEN "none"
    ELSE form[p][n]

Populate ==
    /\ stage = "resolved"
    /\ stage' = "populated"
    /\ form' = [p \in Persons |-> [n \in Names |-> Synced(p, n)]]
    /\ UNCHANGED <<aligned, issued, link, pin, rejected, personName, attribution, queue, copied,
                   readings, overlay, disturbed, late, counters>>

(* The homonyms are marked whatever the decision says.                     *)
AmbiguousHomonyms ==
    {c \in Existing :
        /\ link[c].mode = "name"
        /\ \E s \in Members(c), p \in Persons \ {link[c].person} : Active(p, NameOf[s], form)}

(* mark_ambiguous_nominal: attached by the name, one of the names is an    *)
(* active form of another person, and the decision names another or none.  *)
Ambiguous ==
    LET idx == IndexOf(form, personName, attribution, Conflicting(link))
    IN  {c \in Existing :
            /\ link[c].mode = "name"
            /\ \E s \in Members(c), p \in Persons \ {link[c].person} : Active(p, NameOf[s], form)
            /\ Decide(Members(c), PinsOf(c), idx, BarredIn(PubOfContrib(c), rejected)).person
                  # link[c].person}

(* An automatic attribution no contribution of the person carries any more. *)
Unsupported(v) ==
    /\ attribution[v].person # NoPerson
    /\ ~ attribution[v].rejected
    /\ \A s \in Sources : ValueOf[s] = v => link[aligned[s]].person # attribution[v].person

(* A person without HR record, contributions or not.                       *)
DeletableAttached(p) ==
    /\ p \notin HrRecords
    /\ \A s \in Sources : pin[s] # p
    /\ \A b \in Pubs : <<b, p>> \notin rejected

(* No contribution, no HR record, no decision of the administration.       *)
Deletable(p) ==
    /\ p \notin HrRecords
    /\ \A c \in Existing : link[c].person # p
    /\ \A s \in Sources : pin[s] # p
    /\ \A b \in Pubs : <<b, p>> \notin rejected

Purge ==
    LET deleted == {p \in Persons : personName[p] # NoName /\ Deletable(p)}
    IN  /\ stage = "populated"
        /\ stage' = "idle"
        /\ queue' = queue \cup Ambiguous
        /\ attribution' = [v \in Values |->
              IF Unsupported(v) \/ attribution[v].person \in deleted
              THEN Unattributed ELSE attribution[v]]
        /\ personName' = [p \in Persons |-> IF p \in deleted THEN NoName ELSE personName[p]]
        /\ form' = [p \in Persons |-> IF p \in deleted THEN NoForms ELSE form[p]]
        /\ link' = [c \in Contribs |-> IF link[c].person \in deleted THEN Unlinked ELSE link[c]]
        /\ UNCHANGED <<aligned, issued, pin, rejected, copied, readings, overlay,
                       disturbed, late, counters>>

------------------------------------------------------------------------------
(* Requests of the administration                                          *)

(* A rejection comes late once the phase has read the rejections and the   *)
(* index.                                                                  *)
Late(p) == IF stage = "deciding" THEN {p} ELSE {}

(* A committed request: the phase is disturbed.                            *)
Request(missed) ==
    /\ requests < MaxRequests
    /\ requests' = requests + 1
    /\ disturbed' = (stage # "idle")
    /\ late' = late \cup missed
    /\ UNCHANGED <<aligned, issued, stage, readings, overlay, regroups, failures>>

(* Rows of the contributions cs, of the forms ns of p, free of writes of   *)
(* the phase (a renamed person has the rows of its own forms written).     *)
Unlocked(cs) == cs \cap DOMAIN written = {}
FormsUnlocked(p, ns) == p \in DOMAIN named => ns \cap FormsOf(named[p]) = {}

(* The contributions are left as they are.                                 *)
MarkNothing(cs) == UNCHANGED <<queue, copied>>

(* The marks of a request; one of a row --rebuild-persons marked waits.    *)
Mark(cs) ==
    /\ cs \cap remarked = {}
    /\ queue' = queue \cup cs
    /\ copied' = copied \ cs

(* assign_orphan_contribution: the rejection of the pair is withdrawn      *)
(* (force), the source contributions are pinned, their names become forms. *)
Assign(c, p) ==
    LET pins == [s \in Sources |-> IF s \in Members(c) THEN p ELSE pin[s]]
        owners == {o \in Rivals(c) : link[o].person = p}
    IN  /\ Request({})
        /\ c \in Existing /\ link[c].person = NoPerson /\ personName[p] # NoName
        /\ \A o \in owners : link[o].mode # "manual"
        /\ Unlocked(owners \cup {c})
        /\ FormsUnlocked(p, {NameOf[s] : s \in Members(c)})
        /\ \A o \in Rivals(c) \cap DOMAIN written : written[o].person # p
        /\ rejected' = rejected \ {<<PubOfContrib(c), p>>}
        /\ pin' = pins
        /\ link' = [d \in Contribs |-> IF d = c THEN [person |-> p, mode |-> "manual"]
                                       ELSE IF d \in owners THEN Unlinked ELSE link[d]]
        /\ form' = [form EXCEPT ![p] = [n \in Names |->
              IF @[n] = "none" /\ \E s \in Members(c) : NameOf[s] = n THEN "pending" ELSE @[n]]]
        /\ UNCHANGED <<personName, attribution, queue, copied>>

(* detach_rejected_contributions: p leaves the publications of the pairs.  *)
Detached(p, pairs, links) ==
    [c \in Contribs |-> IF /\ c \in Existing /\ links[c].person = p
                           /\ <<PubOfContrib(c), p>> \in pairs
                        THEN Unlinked ELSE links[c]]

(* exclude_contribution: the pair is rejected, the person detached, its    *)
(* pins of the publication and its forms without support removed.          *)
RejectPair(c) ==
    LET p == link[c].person
        b == PubOfContrib(c)
        left == Detached(p, {<<b, p>>}, link)
        kept == {NameOf[s] : s \in {t \in Sources : left[aligned[t]].person = p}}
    IN  /\ c \in Existing /\ p # NoPerson
        /\ Request(Late(p))
        /\ Unlocked({d \in Contribs : left[d] # link[d]})
        /\ FormsUnlocked(p, {n \in Names : form[p][n] = "pending"})
        /\ rejected' = rejected \cup {<<b, p>>}
        /\ pin' = [s \in Sources |-> IF PubOf[s] = b /\ pin[s] = p THEN NoPerson ELSE pin[s]]
        /\ link' = left
        /\ form' = [form EXCEPT ![p] = [n \in Names |->
              IF @[n] = "pending" /\ n \notin kept THEN "none" ELSE @[n]]]
        /\ UNCHANGED <<personName, attribution, queue, copied>>

(* update_name_form_status: the contributions of the person attached by    *)
(* this name are marked.                                                   *)
RejectForm(p, n) ==
    /\ form[p][n] = "pending"
    /\ FormsUnlocked(p, {n})
    /\ Request(Late(p))
    /\ form' = [form EXCEPT ![p][n] = "rejected"]
    /\ Mark({c \in Existing : /\ link[c].person = p /\ link[c].mode = "name"
                              /\ \E s \in Members(c) : NameOf[s] = n})
    /\ UNCHANGED <<link, pin, rejected, personName, attribution>>

(* update_identifier_status: the contributions attached by the value are   *)
(* marked.                                                                 *)
RejectIdentifier(v) ==
    LET p == attribution[v].person
    IN  /\ p # NoPerson /\ ~ attribution[v].rejected
        /\ v \notin DOMAIN given
        /\ Request(Late(p))
        /\ attribution' = [attribution EXCEPT ![v].rejected = TRUE]
        /\ Mark({c \in Existing : /\ link[c].person = p /\ link[c].mode = "identifier"
                                  /\ \E s \in Members(c) : ValueOf[s] = v})
        /\ UNCHANGED <<link, pin, rejected, personName, form>>

(* _merge_name_forms: the verdict on t prevails unless it is pending; the  *)
(* forms of the name of s stay if a contribution gives them.               *)
MergedForms(t, s) ==
    [n \in Names |->
        LET kept == IF form[s][n] # "own" THEN form[s][n]
                    ELSE IF n \in NamesAttached(s) THEN "pending" ELSE "none"
        IN  IF form[t][n] \in {"own", "rejected"} THEN form[t][n]
            ELSE IF kept = "rejected" \/ form[t][n] = "none" THEN kept ELSE "pending"]

(* merge_person: t is kept (the one with an HR record), s is absorbed; in  *)
(* a publication where t has a contribution, that of s loses its person.   *)
(* It deletes the row of s, which waits for any reference of the phase to  *)
(* it; a reference to t locks nothing the merge writes, but a row that     *)
(* comes to t waits for one of its publication (the unique constraint).    *)
(* The rejections of s come late for what the phase has written of t.      *)
MergePersons(t, s) ==
    LET pairs == {r \in rejected : r[2] # s} \cup {<<r[1], t>> : r \in {q \in rejected : q[2] = s}}
        moved == [c \in Contribs |->
                    IF link[c].person # s THEN link[c]
                    ELSE IF Occupied(c, t, link) THEN Unlinked ELSE [link[c] EXCEPT !.person = t]]
        merged == Detached(t, pairs, moved)
        missed == \/ s \in late \/ \E n \in Names : MergedForms(t, s)[n] = "rejected"
                  \/ \E c \in DOMAIN written : /\ written[c].person = t
                                               /\ <<PubOfContrib(c), t>> \in pairs
    IN  /\ t # s /\ s \notin HrRecords
        /\ personName[t] # NoName /\ personName[s] # NoName
        /\ Request(IF missed THEN {t} ELSE Late(t))
        /\ Unlocked({c \in Contribs : merged[c] # link[c]})
        /\ {s, t} \cap DOMAIN named = {}
        /\ \A c \in DOMAIN written : written[c].person # s
        /\ \A v \in DOMAIN given : s \notin {given[v].person, attribution[v].person}
        /\ \A c \in Existing : moved[c] # link[c] /\ moved[c].person = t =>
              \A o \in Rivals(c) \cap DOMAIN written : written[o].person # t
        /\ link' = merged
        /\ rejected' = pairs
        /\ pin' = [x \in Sources |->
              LET p == IF pin[x] = s THEN t ELSE pin[x]
              IN  IF p = t /\ <<PubOf[x], t>> \in pairs THEN NoPerson ELSE p]
        /\ attribution' = [v \in Values |-> IF attribution[v].person = s
                                            THEN [attribution[v] EXCEPT !.person = t]
                                            ELSE attribution[v]]
        /\ form' = [form EXCEPT ![t] = MergedForms(t, s), ![s] = NoForms]
        /\ personName' = [personName EXCEPT ![s] = NoName]
        /\ UNCHANGED <<queue, copied>>

------------------------------------------------------------------------------
(* The grouping of authors, between two runs                               *)

(* plan_contribution_ids: couples <<existing contribution, new group>> in  *)
(* the order of the shared source contributions, the existing id, the new  *)
(* index; a couple is kept when no kept couple before it has its id or its *)
(* group.                                                                  *)
Shared(b, group, o) == Cardinality({s \in Sources : /\ PubOf[s] = b /\ aligned[s] = o[1]
                                                    /\ group[s] = o[2]})
Before(b, group, o, q) ==
    LET k == Shared(b, group, o)   l == Shared(b, group, q)
    IN  k > l \/ (k = l /\ o[1] < q[1]) \/ (k = l /\ o[1] = q[1] /\ o[2] < q[2])
IsPlan(plan, b, group) ==
    LET overlaps == {<<aligned[s], group[s]>> : s \in {t \in Sources : PubOf[t] = b}}
    IN  /\ plan \subseteq overlaps
        /\ \A o \in overlaps :
              o \in plan <=> \A q \in plan : ~ /\ Before(b, group, q, o)
                                               /\ q[1] = o[1] \/ q[2] = o[2]

(* realign of a publication, for any new grouping: a group takes the id of *)
(* the plan or a fresh one, a contribution without group is deleted, and a *)
(* recomposed one with a person is marked.                                 *)
Regroup(b, group) ==
    LET mine == {s \in Sources : PubOf[s] = b}
        old == {aligned[s] : s \in mine}
    IN  /\ stage = "idle"
        /\ regroups < MaxRegroups
        /\ \E plan \in SUBSET (old \X {group[s] : s \in mine}) :
           LET kept == {o[1] : o \in plan}
               fresh == {group[s] : s \in mine} \ {o[2] : o \in plan}
               idOf(g) == IF g \in fresh
                          THEN issued + Cardinality({h \in fresh : h <= g})
                          ELSE CHOOSE i \in kept : <<i, g>> \in plan
           IN  /\ IsPlan(plan, b, group)
               /\ issued + Cardinality(fresh) \in Contribs
               /\ aligned' = [s \in Sources |->
                                 IF s \in mine THEN idOf(group[s]) ELSE aligned[s]]
               /\ issued' = issued + Cardinality(fresh)
               /\ link' = [c \in Contribs |-> IF c \in old \ kept THEN Unlinked ELSE link[c]]
               /\ queue' = queue \cup
                     {c \in kept : /\ link[c].person # NoPerson
                                   /\ Members(c) # {s \in Sources : aligned'[s] = c}}
        /\ aligned' # aligned
        /\ regroups' = regroups + 1
        /\ UNCHANGED <<pin, rejected, personName, form, attribution, stage, copied, readings,
                       overlay, disturbed, late, requests, failures>>

------------------------------------------------------------------------------
Phase == \/ \E rebuild \in BOOLEAN : Start(rebuild)
         \/ Prepare \/ LoadBatch \/ WriteBatch \/ CreateNext \/ Commit \/ Populate \/ Purge
         \/ Abort

Administration ==
    \/ \E c \in Contribs, p \in Persons : Assign(c, p)
    \/ \E c \in Contribs : RejectPair(c)
    \/ \E p \in Persons, n \in Names : RejectForm(p, n)
    \/ \E v \in Values : RejectIdentifier(v)
    \/ \E t, s \in Persons : MergePersons(t, s)

Next == \/ Phase \/ Administration
        \/ \E b \in Pubs, group \in [Sources -> 1 .. Cardinality(Sources)] : Regroup(b, group)

Spec == Init /\ [][Next]_vars

(* The scheduler starts the phase again and again; nobody has to send a    *)
(* request, and no interruption is due.                                    *)
FairSpec == Spec /\ WF_vars(Phase)

------------------------------------------------------------------------------
(* Only a request can make the phase meet the unique constraint: without   *)
(* one, the order of the releases and the writes, the settlement and the   *)
(* persons read as taken never give a person twice in a publication.       *)
ConflictNeedsRequest == stage = "conflict" => disturbed

(* A person is attached to a publication it is rejected for only if the    *)
(* rejection came while the phase was deciding, or with a merge once the   *)
(* phase had written the attachment.                                       *)
RejectedStayOut ==
    \A c \in Existing :
        <<PubOfContrib(c), link[c].person>> \in rejected => link[c].person \in late

(* A run no request disturbed leaves a pinned contribution its person,     *)
(* unless another contribution of the publication has it by a decision of  *)
(* the administration, or had it when the run started: a pin yields to     *)
(* what it finds, even to what the same run moves to another person.       *)
PinsPrevail ==
    [][stage = "deciding" /\ stage' = "resolved" /\ ~ disturbed =>
          \A c \in Existing, p \in Persons :
              PinsOf(c) = {p} =>
                  \/ link'[c] = [person |-> p, mode |-> "manual"]
                  \/ \E o \in Rivals(c) :
                        [person |-> p, mode |-> "manual"] \in {link[o], link'[o]}]_vars

(* Between two runs, what attached a contribution still supports it, or it *)
(* is marked: the value is attributed to the person, the name is no form   *)
(* rejected for it (or abbreviates its name).  Two exceptions: a rejection *)
(* that came while the phase was deciding, and a value carried by three    *)
(* source contributions: a batch attributes it without telling the index,  *)
(* where it goes to a person that is created next for a second one, and    *)
(* designates this person to the third.                                    *)
AttachmentsAreSupported ==
    stage = "idle" => \A c \in Existing \ queue :
        LET p == link[c].person IN
        \/ p \in late \cup {NoPerson}
        \/ link[c].mode = "manual"
        \/ /\ link[c].mode = "identifier"
           /\ \E s \in Members(c) : ValueOf[s] # NoValue
                    /\ \/ attribution[ValueOf[s]] = [person |-> p, rejected |-> FALSE]
                       \/ Cardinality({t \in Sources : ValueOf[t] = ValueOf[s]}) > 2
        \/ /\ link[c].mode = "name"
           /\ \E s \in Members(c) : \/ form[p][NameOf[s]] # "rejected"
                                    \/ NamesCompatible(NameOf[s], personName[p])

(* A form rejected for a person, when it is none of its name, never        *)
(* designates that person again: through runs, merges and redecisions.     *)
(* But the completion of a reduced first name does not look at it: it      *)
(* names the person after the very contributions the rejection marked.     *)
RejectedFormsStayOut ==
    [][\A p \in Persons, n \in Names :
          form[p][n] = "rejected" /\ n \notin FormsOf(personName[p])
          => \/ ~ Active(p, n, form')
             \/ personName[p] \in Reduced /\ n \in FormsOf(personName'[p])]_form

(* Once the requests, the recompositions and the failures have ceased, the *)
(* runs of the phase reach a fixed point: redecisions, purges of persons   *)
(* and creations do not feed one another for ever.                         *)
Converges == <>[][FALSE]_link

(* ... and no contribution stays marked between two runs.                  *)
MarksAreConsumed == <>[](stage = "idle" => queue = {})

------------------------------------------------------------------------------
(* What the documents of the code say.                                     *)

(* reject_pair: the phase discards the rejected pairs, the rejection       *)
(* survives the runs that follow.                                          *)
RejectedAreDetached ==
    \A c \in Existing : stage = "idle" => <<PubOfContrib(c), link[c].person>> \notin rejected

==============================================================================

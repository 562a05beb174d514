--------------------------- MODULE CorrectionRules ---------------------------
(***************************************************************************)
(* The decisions of the phase metadata_correction                          *)
(* (domain/source_records/metadata_correction, corrections.py,             *)
(* identifiers.py, domain/publications/scope.py), as operators: the type   *)
(* of a record, the serial its DOIs designate, the identifiers it loses,   *)
(* the target of a DOI, whether it is reconciled.                          *)
(*                                                                         *)
(* What a record says is f (facts written by the normalizer), its columns  *)
(* are x, the status of its identifiers is s.                              *)
(***************************************************************************)
EXTENDS Naturals, Sequences, FiniteSets, FiniteSetsExt

CONSTANTS
    Records,        \* source records
    Dois, Deposits, \* identifiers: DOIs, and HAL deposits (a type of confirmation key)
    Dissertations,  \* deposits of theses and dissertations (tel-, dumas-)
    DoiKind,        \* what the text of a DOI says: "plain", "chapter", "thesis registry", "preprint server", "excluded"
    Registrant,     \* prefix of a DOI
    Serials,
    Titles, Names,
    Alike, Distant, \* pairs of titles of one work, of distant titles: sets of sets of two titles
    Paratext,       \* titles of front matter, indexes, ...
    None, Unset     \* no value, no value before correction kept apart

Ids == Dois \cup Deposits
Types == {"thesis", "memoir", "practice_thesis", "article", "media", "other", "book", "book_chapter", "proceedings",
          "journal_issue", "conference_paper", "preprint", "dataset", "data_paper", "erratum"}
SerialTypes == {"journal", "media", "proceedings", "data_journal"}
Sources == {"crossref", "datacite", "hal", "openalex", "scanr"}
Aggregators == {"openalex", "scanr"}
Roles == {"primary", "derived", "secondary"}
Strong == {"primary", "derived"}
Archives == {"theses.fr", "dumas"}

(* What a record says: its title, the names of its authors, its links, the *)
(* serial its ISSN designates, the role of each identifier (None when it   *)
(* has not this identifier, or only as related), the type the rules on the *)
(* title alone give it, whether it names a conference, the relations it    *)
(* declares, the HAL record it was derived from.                           *)
Facts == [source : Sources, type : Types \cup {None}, title : Titles \cup {None}, names : SUBSET Names,
          urls : SUBSET (Archives \cup Deposits), serial : Serials \cup {None},
          role : [Ids -> Roles \cup {None}], titled : {"proceedings", "erratum", None},
          conference : BOOLEAN, origin : Records \cup {None},
          relations : SUBSET [rule : {"version", "variant", "piece"}, doi : Dois]]

(* source_record_identifiers.removed_by: the two rules of the unary        *)
(* correction, the cases of the groups of one DOI (those that tell works   *)
(* apart are one), and the withdrawal by the reconciliation.               *)
UnaryCases == {"thesis to article", "deposit missing"}
ClusterCases == {"unresolved", "another work"}
Cases == UnaryCases \cup ClusterCases \cup {"another publication"}
Statuses == [Ids -> Cases \cup {None}]

Held(f) == {i \in Ids : f.role[i] # None}
Active(f, s) == {i \in Held(f) : s[i] = None}

(* own_dois: the DOIs of a strong role, else those of any.                 *)
OwnDois(f, S) ==
    LET strong == {d \in S \cap Dois : f.role[d] \in Strong}
    IN  IF strong # {} THEN strong ELSE S \cap Dois

(* with_removals: a sub-step decides again of its own removals, and leaves *)
(* those of the others. WithRemovalsOfOwned forgets the identifiers others *)
(* removed.                                                                *)
WithRemovalsOfOwned(s, owned, removals) == [i \in {j \in Ids : s[j] \in owned \cup {None}} |-> removals[i]]
WithRemovals(s, owned, removals) ==
    [i \in Ids |-> IF s[i] \in owned \cup {None} THEN removals[i] ELSE s[i]]

------------------------------------------------------------------------------
(* Values before correction                                                *)

(* raw_value, hydrate_raw_view: the value kept in corrections, or the one  *)
(* of the column. The view of the unary correction takes the serial too:   *)
(* for its rules a serial attached by the DOI is none.                     *)
Raw(x, field) == IF x.raw[field] = Unset THEN x[field] ELSE x.raw[field]

(* stash_entry: what a correction keeps apart. StashOfColumn keeps the     *)
(* value of the column, that a former run may have corrected.              *)
StashOfColumn(x, field, corrected) == IF corrected THEN x[field] ELSE Unset
Stash(x, field, corrected) == IF corrected THEN Raw(x, field) ELSE Unset

------------------------------------------------------------------------------
(* Type of document                                                        *)

(* _RULES, in their order: the types a rule corrects and its condition.    *)
(* serialType is the type of the serial in the column, the serial of the   *)
(* other conditions that of before correction.                             *)
Rules(f, serial, urls, dois, serialType, press) ==
    LET any == Types \cup {None}
    IN  << [on |-> any, when |-> "theses.fr" \in urls /\ serial = None],
           [on |-> any \ {"practice_thesis"}, when |-> "dumas" \in urls /\ serial = None],
           [on |-> {"thesis", "practice_thesis", "memoir"},
            when |-> serial # None /\ \E d \in dois : DoiKind[d] # "thesis registry"],
           [on |-> any, when |-> serialType = "media" \/ \E d \in dois : Registrant[d] \in press],
           [on |-> {"other"}, when |-> \E d \in dois : DoiKind[d] = "chapter"],
           [on |-> {"article", "conference_paper", "other"}, when |-> f.source = "crossref" /\ f.titled = "proceedings"],
           [on |-> {"article", "book_chapter"}, when |-> serialType = "proceedings"],
           [on |-> {"book_chapter"}, when |-> f.conference],
           [on |-> {"article", "other", "journal_issue"},
            when |-> serial = None /\ dois # {} /\ \A d \in dois : DoiKind[d] = "preprint server"],
           [on |-> {"article", "preprint", "conference_paper", "data_paper", "other"}, when |-> f.titled = "erratum"],
           [on |-> {"article"}, when |-> serialType = "data_journal"] >>
TypeByRule == <<"thesis", "memoir", "article", "media", "book_chapter", "proceedings", "conference_paper",
                "conference_paper", "preprint", "erratum", "data_paper">>
ThesisToArticle == 3

FirstApplying(rules, type) ==
    LET applying == {k \in DOMAIN rules : type \in rules[k].on /\ rules[k].when}
    IN  IF applying = {} THEN 0 ELSE Min(applying)

(* doc_type_correction: the first rule that applies to the values of       *)
(* before correction; 0 when none does.                                    *)
RuleOf(f, x, dois, serialType, press) ==
    FirstApplying(Rules(f, Raw(x, "serial"), Raw(x, "urls"), dois, serialType, press), Raw(x, "type"))

TypeAfter(rule, x) == IF rule \in DOMAIN TypeByRule THEN TypeByRule[rule] ELSE Raw(x, "type")

------------------------------------------------------------------------------
(* Serial                                                                  *)

(* namespace_dois: DOIs unknown to doi.org count.                          *)
NamespaceDois(f, s) == OwnDois(f, {i \in Held(f) : s[i] \in {None, "unresolved"}})

(* The serials the namespaces of the DOIs designate.                       *)
Designated(f, s, namespace) ==
    {namespace[d] : d \in {e \in NamespaceDois(f, s) : DoiKind[e] # "preprint server"}} \ {None}

(* attach_serial_by_doi: a record without serial of its own, neither book  *)
(* nor chapter, takes the only serial its DOIs designate.                  *)
TakesSerial(f, x, designated) ==
    /\ Raw(x, "serial") = None
    /\ f.type \notin {"book", "book_chapter"}
    /\ Cardinality(designated) = 1

------------------------------------------------------------------------------
(* Groups of one DOI. The members are records with their type m.type,      *)
(* title, source, names, the keys they hold (m.keys) and those they hold   *)
(* for their own (m.own), before the removals of this sub-step.            *)

SameTitle(t, u) == t = u \/ None \in {t, u} \/ {t, u} \in Alike
DistantTitles(t, u) == {t, u} \in Distant
CandidateTypes == {"book", "book_chapter", "proceedings", "journal_issue"}

(* The members that hold the DOI for their own designate the work, or all  *)
(* if none does. ReferencesAll takes the copies of others too.             *)
Owners(group, d) == {m \in group : d \in m.own}
ReferencesAll(group, d) == group
References(group, d) == IF Owners(group, d) = {} THEN group ELSE Owners(group, d)
TitlesOf(members, type) == {m.title : m \in {n \in members : n.type = type}}

(* Chapters of another title than each book lose the DOI; chapters without *)
(* a book nor an owner lose it if their titles differ; the contents of a   *)
(* volume of proceedings or of an issue lose it if their titles differ     *)
(* from its title (_divergence_decisions).                                 *)
Divergent(group, d) ==
    LET chapters == {m \in group : m.type = "book_chapter"}
        books == TitlesOf(References(group, d), "book")
        contents(type) ==
            LET containers == TitlesOf(References(group, d), type) \ {None}
            IN  {m \in group : /\ containers # {} /\ m.type # type
                               /\ m.title # None /\ \A t \in containers : ~ SameTitle(m.title, t)}
    IN  IF books # {} /\ chapters # {}
          THEN {m \in chapters : \A t \in books \ {None} : ~ SameTitle(m.title, t)}
        ELSE IF /\ Owners(group, d) = {}
                /\ \E m, n \in chapters : None \notin {m.title, n.title} /\ ~ SameTitle(m.title, n.title)
          THEN chapters
        ELSE contents("proceedings") \cup contents("journal_issue")

(* _records_of_another_work: neither a name nor the title in common with   *)
(* the only record of Crossref.                                            *)
OfAnotherWork(group) ==
    LET references == {m \in group : m.source = "crossref" /\ m.names # {}}
    IN  {m \in group : /\ m.source # "crossref" /\ m.names # {}
                       /\ Cardinality(references) = 1
                       /\ \A n \in references : m.names \cap n.names = {} /\ DistantTitles(m.title, n.title)}

WithCoOwners(losers, group, d) ==
    LET lostKeys == UNION {m.own \cap Deposits : m \in losers}
    IN  losers \cup {m \in group \ Owners(group, d) : m.own \cap lostKeys # {}}

(* resolve_cluster_doi_corrections, but for the DOIs unknown to doi.org:   *)
(* an owner keeps the DOI; who holds for its own the key a loser holds for *)
(* its own loses the DOI too (_co_owners_of_lost_keys).                    *)
Losers(group, d) ==
    WithCoOwners((Divergent(group, d) \cup OfAnotherWork(group)) \ Owners(group, d), group, d)

(* confirmation_id_removals: the keys m loses with the separation of the   *)
(* group. The keys of a keeper stay where it holds them for its own, or    *)
(* where its source describes its own document.                            *)
LostKeys(group, losers, m) ==
    LET keepers == group \ losers
        kept == UNION {IF n.source \in Aggregators THEN n.own ELSE n.own \cup n.keys : n \in keepers}
        lost == (UNION {n.keys : n \in losers}) \ kept
        ownedByKeepers == UNION {n.own : n \in keepers}
    IN  IF losers = {} THEN {}
        ELSE IF m \in losers THEN (m.keys \cap ownedByKeepers) \ m.own
        ELSE m.keys \cap lost

------------------------------------------------------------------------------
(* Targets of DOIs, records set aside                                      *)

(* declares_same_work: a piece joins its dataset, two DOIs of one          *)
(* registrant are one work, a copy joins the published form unless it is a *)
(* preprint.                                                               *)
SameWork(rule, type, own, target) ==
    \/ rule = "piece"
    \/ Registrant[own] = Registrant[target]
    \/ rule = "variant" /\ type # "preprint"

(* is_matchable: an aggregator must have a link or a key; a removal by the *)
(* reconciliation counts as none (reconsidered).                           *)
IsMatchable(f, x, s, targetRecorded) ==
    LET own == OwnDois(f, Held(f))
    IN  /\ ~ (own # {} /\ \A d \in own : DoiKind[d] = "excluded")
        /\ ~ (f.source = "datacite" /\ targetRecorded)
        /\ f.title \notin Paratext
        /\ f.source \in Aggregators =>
               x.urls # {} \/ \E i \in Held(f) : s[i] \in {None, "another publication"}
==============================================================================

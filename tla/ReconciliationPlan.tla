-------------------------- MODULE ReconciliationPlan --------------------------
(***************************************************************************)
(* The decision of the publications phase: which source records of a       *)
(* neighbourhood form which publications                                   *)
(* (domain/publications/reconciliation.py, domain/source_records/keys.py,  *)
(* domain/entity_resolution.py).                                           *)
(*                                                                         *)
(* A neighbourhood is a set of members, records with the fields            *)
(*   id              a natural: the smallest one decides several choices   *)
(*   pub, pubDoi     the publication of the record and its DOI, or None    *)
(*   strong, weak    its DOIs of primary or derived, and of secondary role *)
(*   keys            its other confirmation keys and manual merges         *)
(*   work            it comes from a source of distinct works              *)
(*   primary, derived  the identifiers that link it to its parent          *)
(*   type, year      its type of document; it has a year (a title is       *)
(*                   taken to be present)                                  *)
(*   founds          it may found a publication (perimeter, type)          *)
(*   matchable       it takes part in the reconciliation                   *)
(* Secondary forms of a DOI are taken to be replaced by their target, and  *)
(* whether a DOI designates a deposit not to depend on the type.           *)
(***************************************************************************)
EXTENDS Naturals, FiniteSets, FiniteSetsExt

CONSTANTS
    Dois,           \* DOIs
    Deposits,       \* those that designate a deposit (a repository), which separate nothing
    None            \* no value

ASSUME DoisAssumption == IsFiniteSet(Dois) /\ Deposits \subseteq Dois /\ None \notin Dois

DoisOf(m) == m.strong \cup m.weak
Tokens(m) == m.keys \cup DoisOf(m)
Linked(m, n) == Tokens(m) \cap Tokens(n) # {}
Ids(S) == {m.id : m \in S}

(* The only element of S, None if there is not exactly one.                *)
Only(S) == IF Cardinality(S) = 1 THEN CHOOSE x \in S : TRUE ELSE None

(* The member of S with the smallest identifier.                           *)
Smallest(S) == CHOOSE m \in S : \A n \in S : m.id <= n.id

------------------------------------------------------------------------------
(* Components and anchors                                                  *)

(* No member of C shares a token with a member of S that is not in C.      *)
Closed(S, C) == \A m \in C, n \in S \ C : ~ Linked(m, n)

(* connected_components: the groups linked, directly or step by step.      *)
Components(S) ==
    {C \in SUBSET S : C # {} /\ Closed(S, C)
                      /\ \A D \in SUBSET C : Closed(S, D) => D \in {{}, C}}

(* _anchors, among the DOIs of D: the strong ones; failing that, those of  *)
(* the members that have only one.                                         *)
AnchorsAmong(S, D) ==
    LET strong == UNION {m.strong \cap D : m \in S}
    IN  IF strong # {} THEN strong
        ELSE UNION {w \in {m.weak \cap D : m \in S} : Cardinality(w) = 1}

DoiAnchors(S) == AnchorsAmong(S, Dois \ Deposits)
DepositAnchors(S) == AnchorsAmong(S, Deposits)

(* anchor_of: the anchor a member joins by its own DOIs.                   *)
AnchorOf(m, anchors) ==
    LET own(dois) == dois \cap (anchors \ Deposits)
    IN  Only(IF own(m.strong) # {} THEN own(m.strong) ELSE own(m.weak))

(* _own_anchor: a work is its own anchor.                                  *)
OwnAnchor(m, dois) == IF m.work THEN m.id ELSE AnchorOf(m, dois)

(* _derived_anchors: a derived record follows its parent, failing that the *)
(* only anchor among the records derived from the same identifier.         *)
FollowedAnchor(S, dois, m) ==
    LET family == {n \in S : n.derived = m.derived}
        parents == {n \in S : n.primary = m.derived}
    IN  IF m.derived = None THEN None
        ELSE IF parents # {} THEN OwnAnchor(CHOOSE n \in parents : TRUE, dois)
        ELSE Only({OwnAnchor(n, dois) : n \in family} \ {None})

(* The anchor of a member of a component with several anchors.             *)
Anchor(S, dois, m) ==
    LET followed == FollowedAnchor(S, dois, m)
    IN  IF followed # None THEN followed ELSE OwnAnchor(m, dois)

Types(S) == {m.type : m \in S} \ {None}
Part(a, S) == [anchor |-> a, members |-> S]

(* _bridge_anchor: the anchor that a group of members without anchor       *)
(* joins: the only one it shares a token with; failing that the only one   *)
(* among them of the same type of document.                                *)
BridgeAnchor(anchored, bridge) ==
    LET linked == {p \in anchored : \E m \in p.members, n \in bridge : Linked(m, n)}
        alike == {p \in linked : Types(p.members) \cap Types(bridge) # {}}
    IN  Only({p.anchor : p \in IF Cardinality(linked) = 1 THEN linked ELSE alike})

(* _partitions, for one component: whole under at most one anchor; else    *)
(* one partition for each anchor, with the bridges that join it, and one   *)
(* for each bridge that joins none.                                        *)
ComponentPartitions(S) ==
    LET dois == DoiAnchors(S)
        anchors == dois \cup Ids({m \in S : m.work})
        pairs == {<<m, Anchor(S, dois, m)>> : m \in S}
        held(a) == {x[1] : x \in {y \in pairs : y[2] = a}}
        anchored == {Part(a, held(a)) : a \in {x[2] : x \in pairs} \ {None}}
        bridges == {Part(BridgeAnchor(anchored, b), b) : b \in Components(held(None))}
        joining(a) == UNION {b.members : b \in {c \in bridges : c.anchor = a}}
    IN  IF Cardinality(anchors) <= 1 THEN {Part(Only(anchors), S)}
        ELSE {Part(p.anchor, p.members \cup joining(p.anchor)) : p \in anchored}
             \cup {b \in bridges : b.anchor = None}

Partitions(S) == UNION {ComponentPartitions(C) : C \in Components(S)}

------------------------------------------------------------------------------
(* A DOI belongs to one partition                                          *)

(* _without_dois, for the removals R, pairs of a record and a DOI.         *)
Without(S, R) ==
    {LET removed == {d \in Dois : <<m.id, d>> \in R}
     IN  [m EXCEPT !.strong = @ \ removed, !.weak = @ \ removed] : m \in S}

With(p, d) == {m \in p.members : d \in DoisOf(m)}

(* Mutant: a shared DOI is lost only where no record has it in a strong    *)
(* role.                                                                   *)
SharedRemovalsWeakOnly(parts) ==
    UNION {
        LET holders == {p \in parts : With(p, d) # {}}
            losers == {p \in holders : \A m \in p.members : d \notin m.strong}
        IN  IF Cardinality(holders) < 2 THEN {}
            ELSE {<<m.id, d>> : m \in UNION {With(p, d) : p \in losers}}
        : d \in Dois}

(* _shared_doi_removals: a shared DOI stays with the partition of the      *)
(* smallest record that has it in a strong role; every other one loses it. *)
SharedRemovals(parts) ==
    UNION {
        LET holders == {p \in parts : With(p, d) # {}}
            strong == {m \in UNION {p.members : p \in holders} : d \in m.strong}
            losers == {p \in holders : strong = {} \/ Smallest(strong) \notin p.members}
        IN  IF Cardinality(holders) < 2 THEN {}
            ELSE {<<m.id, d>> : m \in UNION {With(p, d) : p \in losers}}
        : d \in Dois}

(* _unique_doi_partitions: removals change the links, so the neighbourhood *)
(* is partitioned again until no DOI is shared.                            *)
FinalRemovals(S) ==
    LET settle[R \in SUBSET (Ids(S) \X Dois)] ==
            LET more == SharedRemovals(Partitions(Without(S, R)))
            IN  IF more = {} THEN R ELSE settle[R \cup more]
    IN  settle[{}]

------------------------------------------------------------------------------
(* The publication of each partition                                       *)

DoiOf(p) == IF p.anchor \in Dois THEN p.anchor ELSE None

(* Mutant: the publication that already has the DOI is looked for among    *)
(* the members only.                                                       *)
CarrierAmongMembers(p, carrier) ==
    LET inside == {m.pub : m \in {n \in p.members : n.pubDoi = DoiOf(p)}} \ {None}
    IN  IF DoiOf(p) = None \/ inside = {} THEN None ELSE Min(inside)

(* The publication that has the DOI of the partition, that of a member     *)
(* first (carrier: the publication of each DOI, or None).                  *)
Carrier(p, carrier) ==
    LET inside == {m.pub : m \in {n \in p.members : n.pubDoi = DoiOf(p)}} \ {None}
    IN  IF DoiOf(p) = None THEN None
        ELSE IF inside # {} THEN Min(inside) ELSE carrier[DoiOf(p)]

(* Mutant: a partition founds a publication only if its smallest record    *)
(* may.                                                                    *)
ClaimOfSmallest(p, carrier) ==
    LET attached == {m \in p.members : m.pub # None}
        holder == Carrier(p, carrier)
        claim(pub, strong) ==
            {[preferred |-> pub, strong |-> strong, members |-> p.members, doi |-> DoiOf(p)]}
    IN  IF holder # None THEN claim(holder, TRUE)
        ELSE IF attached # {} THEN claim(Smallest(attached).pub, FALSE)
        ELSE IF Smallest(p.members).year /\ Smallest(p.members).founds THEN claim(None, FALSE)
        ELSE {}

(* _claim: what a partition claims; no claim leaves it orphan.             *)
Claim(p, carrier) ==
    LET attached == {m \in p.members : m.pub # None}
        holder == Carrier(p, carrier)
        claim(pub, strong) ==
            {[preferred |-> pub, strong |-> strong, members |-> p.members, doi |-> DoiOf(p)]}
    IN  IF holder # None THEN claim(holder, TRUE)
        ELSE IF attached # {} THEN claim(Smallest(attached).pub, FALSE)
        ELSE IF (\E m \in p.members : m.year) /\ (\E m \in p.members : m.founds)
             THEN claim(None, FALSE)
        ELSE {}

(* Among the claims of one publication, strong ones go first, then the     *)
(* smallest record.                                                        *)
Before(c, d) ==
    \/ c.strong /\ ~ d.strong
    \/ c.strong = d.strong /\ Smallest(c.members).id < Smallest(d.members).id

(* A publication goes to the first partition that claims it.               *)
Awarded(claims, c) ==
    c.preferred # None /\ \A d \in claims \ {c} : d.preferred = c.preferred => Before(c, d)

(* _award: the other partitions found a publication, or lose theirs when   *)
(* no record of them has a year.                                           *)
Founding(c) == \E m \in c.members : m.year

Groups(claims) ==
    {[target |-> IF Awarded(claims, c) THEN c.preferred ELSE None,
      members |-> Ids(c.members), doi |-> c.doi] :
        c \in {d \in claims : Awarded(claims, d) \/ Founding(d)}}

Unfounded(claims) ==
    UNION {Ids(c.members) : c \in {d \in claims : ~ Awarded(claims, d) /\ ~ Founding(d)}}

(* All the records of publication p are in the neighbourhood.              *)
Dissolvable(S, size, p) == size[p] <= Cardinality({m \in S : m.pub = p})

(* _dissolutions: publications awarded to no group, all of whose records   *)
(* are in the neighbourhood; the successor receives the smallest record.   *)
Dissolutions(S, groups, size) ==
    LET awarded == {g.target : g \in groups} \ {None}
        admitted(p) == {m \in S : m.pub = p /\ m.matchable}
        heir(p) == {g \in groups : admitted(p) # {} /\ Smallest(admitted(p)).id \in g.members}
    IN  {e \in (({m.pub : m \in S} \ {None}) \ awarded) \X awarded :
            Dissolvable(S, size, e[1]) /\ \E g \in heir(e[1]) : g.target = e[2]}

(* plan_reconciliation.                                                    *)
Plan(S, carrier, size) ==
    LET removals == FinalRemovals({m \in S : m.matchable})
        N == Without(S, removals)
        parts == Partitions({m \in N : m.matchable})
        claims == UNION {Claim(p, carrier) : p \in parts}
        groups == Groups(claims)
    IN  [groups |-> groups,
         detached |-> Unfounded(claims) \cup Ids({m \in S : ~ m.matchable /\ m.pub # None}),
         dissolved |-> Dissolutions(N, groups, size),
         removals |-> removals]
==============================================================================

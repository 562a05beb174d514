------------------- MODULE PublicationReconciliationProofs -------------------
(***************************************************************************)
(* Theorems on PublicationReconciliation, for any records, contents, DOIs  *)
(* and publications: its types, that the records of a publication are      *)
(* those its authors were aligned on unless it is marked, that             *)
(* redirections lead in one step to a publication that was not dissolved,  *)
(* that the records a plan handles are shared by its parts, which its      *)
(* groups follow, and therefore what a rebuild settles: one publication    *)
(* for a DOI, no two works in one, no strong DOI lost, no dissolution      *)
(* that leaves a record without a publication.                             *)
(***************************************************************************)
EXTENDS PublicationReconciliation, FiniteSetTheorems, WellFoundedInduction, TLAPS

------------------------------------------------------------------------------
(* Choices                                                                 *)

(* A non-empty set of naturals has a smallest member: among the intervals  *)
(* up to each of them, one includes no other strictly.                     *)
LEMMA MinIsMember ==
    ASSUME NEW S, S \subseteq Nat, S # {}
    PROVE  Min(S) \in S /\ \A y \in S : Min(S) <= y
<1> DEFINE Intervals == {0..x : x \in S}
<1>1. Intervals \subseteq FiniteSubsetsOf(Nat)
  <2>1. ASSUME NEW x \in S PROVE IsFiniteSet(0..x) /\ 0..x \subseteq Nat BY FS_Interval
  <2> QED BY <2>1 DEF FiniteSubsetsOf
<1>2. \E T \in Intervals : \A U \in Intervals : <<U, T>> \notin StrictSubsetOrdering(Nat)
  <2>1. Intervals # {} OBVIOUS
  <2>2. IsWellFoundedOn(StrictSubsetOrdering(Nat), FiniteSubsetsOf(Nat))
    BY FS_StrictSubsetOrderingWellFounded
  <2> HIDE DEF Intervals
  <2> QED BY <1>1, <2>1, <2>2, WFMin
<1>3. PICK w \in S : \A y \in S : <<0..y, 0..w>> \notin StrictSubsetOrdering(Nat) BY <1>2
<1>4. ASSUME NEW y \in S PROVE w <= y
  <2> SUFFICES ASSUME y < w PROVE FALSE OBVIOUS
  <2>1. 0..y \subseteq 0..w /\ w \in 0..w /\ w \notin 0..y OBVIOUS
  <2>2. <<0..y, 0..w>> \in StrictSubsetOrdering(Nat) BY <2>1 DEF StrictSubsetOrdering
  <2> QED BY <1>3, <2>2
<1> QED BY <1>4 DEF Min

(* The member with the smallest identifier is one of them.                 *)
LEMMA SmallestIsMember ==
    ASSUME NEW S, S # {}, \A m \in S : m.id \in Nat
    PROVE  Smallest(S) \in S
<1> DEFINE numbers == {m.id : m \in S}
<1>1. numbers \subseteq Nat /\ numbers # {} OBVIOUS
<1>2. Min(numbers) \in numbers /\ \A y \in numbers : Min(numbers) <= y
  <2> HIDE DEF numbers
  <2> QED BY <1>1, MinIsMember
<1>3. PICK m \in S : m.id = Min(numbers) BY <1>2
<1>4. \A n \in S : m.id <= n.id BY <1>2, <1>3
<1> QED BY <1>4 DEF Smallest

LEMMA OnlyIsMember ==
    ASSUME NEW S
    PROVE  Only(S) \in S \cup {None} /\ (S = {} => Only(S) = None)
BY FS_EmptySet DEF Only

LEMMA Identifiers ==
    /\ Records \subseteq Nat /\ Pubs \subseteq Nat
    /\ Cardinality(Pubs) \in Nat /\ Cardinality(Records) \in Nat
    /\ \A n \in Nat : n \in Pubs <=> 1 <= n /\ n <= Cardinality(Pubs)
    /\ None \notin Records /\ None \notin Pubs /\ None \notin Dois
BY FS_CardinalityType, RecordsAssumption, PubsAssumption, DoisAssumption

------------------------------------------------------------------------------
(* Connected components                                                    *)

LEMMA LinkedIsSymmetric == \A m, n : Linked(m, n) => Linked(n, m)
BY DEF Linked

(* connected_components forms a partition: each member of a finite set is  *)
(* in one component and in no other.                                       *)
THEOREM ComponentsPartition ==
    ASSUME NEW S, IsFiniteSet(S)
    PROVE  /\ \A m \in S : \E C \in Components(S) : m \in C
           /\ \A C, D \in Components(S) : C # D => C \cap D = {}
<1>1. ASSUME NEW C \in Components(S), NEW D \in Components(S), C \cap D # {} PROVE C = D
  <2>1. Closed(S, C \cap D) BY DEF Components, Closed
  <2>2. C \cap D = C /\ C \cap D = D BY <1>1, <2>1 DEF Components
  <2> QED BY <2>2
<1>2. ASSUME NEW m \in S PROVE \E C \in Components(S) : m \in C
  <2> DEFINE around == {C \in SUBSET S : m \in C /\ Closed(S, C)}
  <2>1. S \in around BY DEF Closed
  <2>2. around \subseteq FiniteSubsetsOf(S) BY FS_Subset DEF FiniteSubsetsOf
  <2>3. PICK C \in around : \A D \in around : <<D, C>> \notin StrictSubsetOrdering(S)
    <3>1. IsWellFoundedOn(StrictSubsetOrdering(S), FiniteSubsetsOf(S))
      BY FS_StrictSubsetOrderingWellFounded
    <3> HIDE DEF around
    <3> QED BY <2>1, <2>2, <3>1, WFMin
  <2>4. ASSUME NEW D \in SUBSET C, Closed(S, D), D # {}, D # C PROVE FALSE
    <3>1. ASSUME NEW E \in SUBSET C, E # C, Closed(S, E), m \in E PROVE FALSE
      <4>1. E \in around BY <3>1
      <4>2. <<E, C>> \in StrictSubsetOrdering(S) BY <3>1 DEF StrictSubsetOrdering
      <4> QED BY <2>3, <4>1, <4>2
    <3>2. Closed(S, C \ D) BY <2>4, LinkedIsSymmetric DEF Closed
    <3>3. C \ D # C BY <2>4
    <3> QED BY <2>4, <3>1, <3>2, <3>3
  <2>5. C \in Components(S) BY <2>4 DEF Components
  <2> QED BY <2>5
<1> QED BY <1>1, <1>2

------------------------------------------------------------------------------
(* The plan                                                                *)

(* A part of S is a non-empty set of its members.                          *)
PartsOf(parts, S) == \A p \in parts : p.members \in SUBSET S /\ p.members # {}

LEMMA ComponentIsInParts ==
    ASSUME NEW S, S # {}
    PROVE  PartsOf(ComponentPartitions(S), S)
<1> DEFINE dois == DoiAnchors(S)
           anchors == dois \cup Ids({m \in S : m.work})
           pairs == {<<m, Anchor(S, dois, m)>> : m \in S}
           held(a) == {x[1] : x \in {y \in pairs : y[2] = a}}
           anchored == {Part(a, held(a)) : a \in {x[2] : x \in pairs} \ {None}}
           bridges == {Part(BridgeAnchor(anchored, b), b) : b \in Components(held(None))}
           joining(a) == UNION {b.members : b \in {c \in bridges : c.anchor = a}}
<1>1. \A a : held(a) \subseteq S OBVIOUS
<1>2. \A a \in {x[2] : x \in pairs} : held(a) # {}
  <2> HIDE DEF pairs
  <2> QED OBVIOUS
<1> HIDE DEF pairs, held
<1>3. PartsOf(anchored, S) BY <1>1, <1>2 DEF PartsOf, Part
<1>4. PartsOf(bridges, S)
  <2>1. \A C \in Components(held(None)) : C \subseteq S /\ C # {} BY <1>1 DEF Components
  <2>2. ASSUME NEW b \in bridges PROVE b.members \in Components(held(None))
    <3>1. PICK C \in Components(held(None)) : b = Part(BridgeAnchor(anchored, C), C) OBVIOUS
    <3> QED BY <3>1 DEF Part
  <2> QED BY <2>1, <2>2 DEF PartsOf
<1> HIDE DEF anchored, bridges
<1>5. \A a : joining(a) \subseteq S BY <1>4 DEF PartsOf
<1> HIDE DEF joining
<1>6. PartsOf({Part(p.anchor, p.members \cup joining(p.anchor)) : p \in anchored}, S)
  BY <1>3, <1>5 DEF PartsOf, Part
<1>7. PartsOf({b \in bridges : b.anchor = None}, S) BY <1>4 DEF PartsOf
<1>8. PartsOf({Part(Only(anchors), S)}, S) BY DEF PartsOf, Part
<1>9. ComponentPartitions(S) =
          IF Cardinality(anchors) <= 1 THEN {Part(Only(anchors), S)}
          ELSE {Part(p.anchor, p.members \cup joining(p.anchor)) : p \in anchored}
               \cup {b \in bridges : b.anchor = None}
  BY DEF ComponentPartitions, pairs, held, anchored, bridges, joining
<1> HIDE DEF anchors
<1> QED BY <1>6, <1>7, <1>8, <1>9 DEF PartsOf

LEMMA PartitionsAreParts == \A S : PartsOf(Partitions(S), S)
<1> SUFFICES ASSUME NEW T PROVE PartsOf(Partitions(T), T) OBVIOUS
<1>1. \A C \in Components(T) : C \subseteq T /\ C # {} BY DEF Components
<1> QED BY <1>1, ComponentIsInParts DEF Partitions, PartsOf

(* Members of a neighbourhood, whose publications are in P.                *)
MembersOf(S, P) ==
    \A m \in S : {"id", "pub"} \subseteq DOMAIN m /\ m.id \in Records /\ m.pub \in P \cup {None}

(* Removals leave the records and their publications.                      *)
LEMMA WithoutKeepsMembers ==
    ASSUME NEW S, NEW P, NEW R, MembersOf(S, P)
    PROVE  MembersOf(Without(S, R), P)
<1> SUFFICES ASSUME NEW n \in Without(S, R)
             PROVE  {"id", "pub"} \subseteq DOMAIN n /\ n.id \in Records /\ n.pub \in P \cup {None}
  BY DEF MembersOf
<1>1. PICK m \in S : \E x : n = [m EXCEPT !.strong = @ \ x, !.weak = @ \ x] BY DEF Without
<1>2. {"id", "pub"} \subseteq DOMAIN m /\ m.id \in Records /\ m.pub \in P \cup {None}
  BY DEF MembersOf
<1> QED BY <1>1, <1>2

(* What a partition of such members claims is one of their publications,   *)
(* or the one that carries its DOI.                                        *)
SoundClaim(c, P) ==
    /\ c.preferred \in P \cup {None}
    /\ Ids(c.members) \in SUBSET Records /\ Ids(c.members) # {}
    /\ c.doi \in Dois \cup {None}

LEMMA ClaimsAreSound ==
    ASSUME NEW P \in SUBSET Pubs, NEW carrier, \A d \in Dois : carrier[d] \in P \cup {None},
           NEW p, p.members # {}, MembersOf(p.members, P),
           NEW c \in Claim(p, carrier)
    PROVE  SoundClaim(c, P)
<1> DEFINE attached == {m \in p.members : m.pub # None}
           holder == Carrier(p, carrier)
<1>1. DoiOf(p) \in Dois \cup {None} BY DEF DoiOf
<1>2. holder \in P \cup {None}
  <2> DEFINE inside == {m.pub : m \in {n \in p.members : n.pubDoi = DoiOf(p)}} \ {None}
  <2>1. inside \subseteq P BY DEF MembersOf
  <2>2. inside # {} => Min(inside) \in inside BY <2>1, Identifiers, MinIsMember
  <2> HIDE DEF inside
  <2>3. holder = IF DoiOf(p) = None THEN None
                 ELSE IF inside # {} THEN Min(inside) ELSE carrier[DoiOf(p)]
    BY DEF Carrier, inside
  <2> QED BY <1>1, <2>1, <2>2, <2>3
<1>3. attached # {} => Smallest(attached).pub \in P
  <2>1. \A m \in attached : m.id \in Nat /\ m.pub \in P BY Identifiers DEF MembersOf
  <2> QED BY <2>1, SmallestIsMember
<1>4. Ids(p.members) \in SUBSET Records /\ Ids(p.members) # {} BY DEF MembersOf, Ids
<1> HIDE DEF attached, holder
<1>5. c.preferred \in {holder, Smallest(attached).pub, None}
      /\ (c.preferred = holder \/ c.preferred = None \/ attached # {})
      /\ c.members = p.members /\ c.doi = DoiOf(p)
  BY DEF Claim, attached, holder
<1> QED BY <1>1, <1>2, <1>3, <1>4, <1>5 DEF SoundClaim

(* A group of a plan: the publication it joins is one of P, if any.        *)
GroupsOn(P) == [target : P \cup {None}, members : (SUBSET Records) \ {{}}, doi : Dois \cup {None}]

(* What a plan decides: its groups join publications of P, and a dissolved *)
(* publication leads to one that a group joins, which is not dissolved.    *)
SoundPlan(plan, P) ==
    /\ plan.groups \subseteq GroupsOn(P)
    /\ plan.dissolved \subseteq P \X P
    /\ \A e, f \in plan.dissolved : e[1] # f[2]

LEMMA PlanIsSound ==
    ASSUME NEW S, NEW P \in SUBSET Pubs, MembersOf(S, P),
           NEW carrier, \A d \in Dois : carrier[d] \in P \cup {None}, NEW size
    PROVE  SoundPlan(Plan(S, carrier, size), P)
<1> DEFINE removals == FinalRemovals({m \in S : m.matchable})
           N == Without(S, removals)
           parts == Partitions({m \in N : m.matchable})
           claims == UNION {Claim(p, carrier) : p \in parts}
           groups == Groups(claims)
           dissolved == Dissolutions(N, groups, size)
<1>1. MembersOf(N, P) BY WithoutKeepsMembers
<1> HIDE DEF N
<1>2. \A p \in parts : p.members # {} /\ MembersOf(p.members, P)
  <2>1. PartsOf(parts, {m \in N : m.matchable}) BY PartitionsAreParts
  <2> HIDE DEF parts
  <2> QED BY <1>1, <2>1 DEF PartsOf, MembersOf
<1> HIDE DEF parts
<1>3. \A c \in claims : SoundClaim(c, P) BY <1>2, ClaimsAreSound
<1> HIDE DEF claims
<1>4. groups \subseteq GroupsOn(P)
  <2> SUFFICES ASSUME NEW g \in groups PROVE g \in GroupsOn(P) OBVIOUS
  <2>1. PICK c \in claims :
            g = [target |-> IF Awarded(claims, c) THEN c.preferred ELSE None,
                 members |-> Ids(c.members), doi |-> c.doi]
    BY DEF Groups
  <2>2. (IF Awarded(claims, c) THEN c.preferred ELSE None) \in P \cup {None}
    BY <1>3 DEF SoundClaim
  <2>3. Ids(c.members) \in (SUBSET Records) \ {{}} /\ c.doi \in Dois \cup {None}
    BY <1>3 DEF SoundClaim
  <2> QED BY <2>1, <2>2, <2>3 DEF GroupsOn
<1> HIDE DEF groups
<1>5. dissolved \subseteq P \X P /\ \A e, f \in dissolved : e[1] # f[2]
  <2> DEFINE awarded == {g.target : g \in groups} \ {None}
             before == ({m.pub : m \in N} \ {None}) \ awarded
  <2>1. awarded \subseteq P BY <1>4 DEF GroupsOn
  <2>2. before \subseteq P BY <1>1 DEF MembersOf
  <2>3. before \cap awarded = {} OBVIOUS
  <2>4. dissolved \subseteq before \X awarded BY DEF Dissolutions
  <2> HIDE DEF dissolved, before, awarded
  <2> QED BY <2>1, <2>2, <2>3, <2>4
<1> HIDE DEF dissolved
<1>6. Plan(S, carrier, size).groups = groups /\ Plan(S, carrier, size).dissolved = dissolved
  BY DEF Plan, N, parts, claims, groups, dissolved
<1> QED BY <1>4, <1>5, <1>6 DEF SoundPlan

(* There are finitely many groups, so that the new ones can be numbered.   *)
LEMMA GroupsAreFinite == \A P \in SUBSET Pubs : IsFiniteSet(GroupsOn(P))
<1> SUFFICES ASSUME NEW P \in SUBSET Pubs PROVE IsFiniteSet(GroupsOn(P)) OBVIOUS
<1> DEFINE targets == P \cup {None}
           sets == (SUBSET Records) \ {{}}
           dois == Dois \cup {None}
           f == [x \in (targets \X sets) \X dois |->
                    [target |-> x[1][1], members |-> x[1][2], doi |-> x[2]]]
<1>1. IsFiniteSet(targets)
  <2>1. IsFiniteSet(P) BY PubsAssumption, FS_Subset
  <2> QED BY <2>1, FS_AddElement
<1>2. IsFiniteSet(sets)
  <2>1. IsFiniteSet(SUBSET Records) BY RecordsAssumption, FS_SUBSET
  <2> QED BY <2>1, FS_RemoveElement
<1>3. IsFiniteSet(dois) BY DoisAssumption, FS_AddElement
<1> HIDE DEF targets, sets, dois
<1>4. IsFiniteSet((targets \X sets) \X dois)
  <2>1. IsFiniteSet(targets \X sets) BY <1>1, <1>2, FS_Product
  <2> QED BY <1>3, <2>1, FS_Product
<1>5. f \in Surjection((targets \X sets) \X dois, GroupsOn(P))
  <2>1. GroupsOn(P) = [target : targets, members : sets, doi : dois]
    BY DEF GroupsOn, targets, sets, dois
  <2>2. f \in [(targets \X sets) \X dois -> GroupsOn(P)] BY <2>1
  <2>3. ASSUME NEW g \in GroupsOn(P) PROVE \E x \in (targets \X sets) \X dois : f[x] = g
    <3>1. <<<<g.target, g.members>>, g.doi>> \in (targets \X sets) \X dois BY <2>1
    <3>2. f[<<<<g.target, g.members>>, g.doi>>] = g BY <2>1, <3>1
    <3> QED BY <3>1, <3>2
  <2> QED BY <2>2, <2>3 DEF Surjection
<1> QED BY <1>4, <1>5, FS_Surjection

------------------------------------------------------------------------------
(* The inductive invariant                                                 *)

(* The publication of a record exists.                                     *)
PublicationsExist == \A r \in Records : pub[r] \in Ids(pubs) \cup {None}

(* A publication that exists has been created and was not dissolved; one   *)
(* not created yet was not either, and has no authors.                     *)
Numbered ==
    \A p \in Pubs :
        /\ p \in Ids(pubs) => p <= created /\ redirect[p] = None
        /\ p > created => redirect[p] = None /\ aligned[p] = {}

IInv == TypeOK /\ PublicationsExist /\ Numbered /\ RedirectsAreDirect /\ MembershipIsAligned

LEMMA InitKeeps == Init => IInv
<1> SUFFICES ASSUME Init PROVE IInv OBVIOUS
<1>1. TypeOK
  <2>1. issued \in 0..Cardinality(Records) /\ created \in 0..Cardinality(Pubs) /\ writes \in 0..MaxWrites
    BY Identifiers, BoundsAssumption DEF Init
  <2>2. merges \in SUBSET SUBSET Records /\ pubs \subseteq [id : Pubs, doi : Dois \cup {None}]
    BY DEF Init
  <2> QED BY <2>1, <2>2 DEF Init, TypeOK
<1> QED BY <1>1 DEF Init, IInv, PublicationsExist, Numbered, RedirectsAreDirect, MembershipIsAligned, Ids

------------------------------------------------------------------------------
(* Recomputation                                                           *)

(* The DOI of a publication is one of the DOIs.                            *)
LEMMA PublicationDoiType ==
    \A records, out : PublicationDoi(records, out) \in Dois \cup {None}
<1> SUFFICES ASSUME NEW records, NEW out PROVE PublicationDoi(records, out) \in Dois \cup {None}
  OBVIOUS
<1> DEFINE S == {ActiveRecord(r, out) : r \in records}
           candidates == IF DoiAnchors(S) # {} THEN DoiAnchors(S) ELSE DepositAnchors(S)
           joining == {m \in S : AnchorOf(m, candidates) # None}
           first == CHOOSE m \in joining : \A n \in joining : Rank[m.id] <= Rank[n.id]
<1>1. \A T, D : AnchorsAmong(T, D) \subseteq D BY DEF AnchorsAmong
<1>2. candidates \subseteq Dois BY <1>1, DoisAssumption DEF DoiAnchors, DepositAnchors
<1> HIDE DEF S, candidates
<1>3. \A m : AnchorOf(m, candidates) \in Dois \cup {None}
  <2> SUFFICES ASSUME NEW m PROVE AnchorOf(m, candidates) \in Dois \cup {None} OBVIOUS
  <2> DEFINE own(dois) == dois \cap (candidates \ Deposits)
             chosen == IF own(m.strong) # {} THEN own(m.strong) ELSE own(m.weak)
  <2>1. chosen \subseteq Dois BY <1>2
  <2> HIDE DEF chosen
  <2>2. Only(chosen) \in Dois \cup {None} BY <2>1, OnlyIsMember
  <2> QED BY <2>2 DEF AnchorOf, chosen
<1>4. Only(candidates) \in Dois \cup {None} BY <1>2, OnlyIsMember
<1> HIDE DEF joining, first
<1>5. PublicationDoi(records, out) =
          IF Cardinality(candidates) = 1 THEN Only(candidates)
          ELSE IF joining = {} THEN None ELSE AnchorOf(first, candidates)
  BY DEF PublicationDoi, S, candidates, joining, first
<1> QED BY <1>3, <1>4, <1>5

Rows == [id : Pubs, doi : Dois \cup {None}]

(* A recomputation deletes only publications without a record.             *)
LEMMA RefreshedRows ==
    ASSUME NEW rows \in SUBSET Rows, NEW B, NEW attached, NEW out
    PROVE  /\ Refreshed(rows, B, attached, out) \subseteq Rows
           /\ Ids(Refreshed(rows, B, attached, out)) \subseteq Ids(rows)
           /\ \A p \in Ids(rows) :
                 RecordsOf(attached, p) # {} => p \in Ids(Refreshed(rows, B, attached, out))
<1> DEFINE doi(row) == PublicationDoi(RecordsOf(attached, row.id), out)
           kept == {row \in rows : row.id \notin B}
           some == {x \in rows : x.id \in B /\ RecordsOf(attached, x.id) # {}}
           again == {[row EXCEPT !.doi = doi(row)] : row \in some}
<1>1. \A row : doi(row) \in Dois \cup {None} BY PublicationDoiType
<1> HIDE DEF doi
<1>2. Refreshed(rows, B, attached, out) = kept \cup again BY DEF Refreshed, doi
<1>3. \A row \in rows : [row EXCEPT !.doi = doi(row)] \in Rows
                        /\ [row EXCEPT !.doi = doi(row)].id = row.id
  <2> SUFFICES ASSUME NEW row \in rows, NEW v \in Dois \cup {None}
               PROVE  [row EXCEPT !.doi = v] \in Rows /\ [row EXCEPT !.doi = v].id = row.id
    BY <1>1
  <2>1. row \in [id : Pubs, doi : Dois \cup {None}] BY DEF Rows
  <2> QED BY <2>1 DEF Rows
<1>4. kept \cup again \subseteq Rows BY <1>3
<1>5. Ids(kept \cup again) \subseteq Ids(rows) BY <1>3 DEF Ids
<1>6. ASSUME NEW p \in Ids(rows), RecordsOf(attached, p) # {} PROVE p \in Ids(kept \cup again)
  <2>1. PICK row \in rows : row.id = p BY DEF Ids
  <2>2. CASE row.id \notin B BY <2>1, <2>2 DEF Ids
  <2>3. CASE row.id \in B
    <3>1. row \in some BY <1>6, <2>1, <2>3
    <3>2. [row EXCEPT !.doi = doi(row)] \in again BY <3>1
    <3>3. [row EXCEPT !.doi = doi(row)].id = p BY <1>3, <2>1
    <3> HIDE DEF again, kept, some
    <3> QED BY <3>2, <3>3 DEF Ids
  <2> QED BY <2>2, <2>3
<1> HIDE DEF kept, again
<1> QED BY <1>2, <1>4, <1>5, <1>6

(* What is left of the publications after a plan: all that have a record,  *)
(* none of the dissolved ones.                                             *)
LEMMA RewrittenRows ==
    ASSUME NEW inserted \in SUBSET Rows, NEW left, NEW gone, NEW again, NEW attached, NEW out,
           Rewritten(inserted, left, gone, again, attached, out).failure = "none"
    PROVE  LET rows == Rewritten(inserted, left, gone, again, attached, out).rows
           IN  /\ rows \subseteq Rows
               /\ Ids(rows) \subseteq Ids(inserted) \ gone
               /\ \A p \in Ids(inserted) : RecordsOf(attached, p) # {} => p \in Ids(rows)
<1> DEFINE first == Refreshed(inserted, left, attached, out)
           dissolved == Deleted(first, gone)
           rows == Refreshed(dissolved, again, attached, out)
<1>1. Rewritten(inserted, left, gone, again, attached, out).rows = rows BY DEF Rewritten
<1>2. \A p \in gone : RecordsOf(attached, p) = {} BY DEF Rewritten
<1>3. /\ first \subseteq Rows /\ Ids(first) \subseteq Ids(inserted)
      /\ \A p \in Ids(inserted) : RecordsOf(attached, p) # {} => p \in Ids(first)
  BY RefreshedRows
<1> HIDE DEF first
<1>4. /\ dissolved \subseteq Rows /\ Ids(dissolved) \subseteq Ids(first) \ gone
      /\ \A p \in Ids(first) : RecordsOf(attached, p) # {} => p \in Ids(dissolved)
  BY <1>2, <1>3 DEF Deleted, Ids
<1> HIDE DEF dissolved
<1>5. /\ rows \subseteq Rows /\ Ids(rows) \subseteq Ids(dissolved)
      /\ \A p \in Ids(dissolved) : RecordsOf(attached, p) # {} => p \in Ids(rows)
  BY <1>4, RefreshedRows
<1> HIDE DEF rows
<1> QED BY <1>1, <1>3, <1>4, <1>5

------------------------------------------------------------------------------
(* The application of a plan                                               *)

(* The identifiers of new publications follow those created before.        *)
LEMMA NewTargets ==
    ASSUME IInv, NEW plan, plan.groups \subseteq GroupsOn(Ids(pubs)),
           created + Cardinality(NewGroups(plan)) <= Cardinality(Pubs)
    PROVE  /\ Cardinality(NewGroups(plan)) \in Nat
           /\ \A g \in NewGroups(plan) :
                 /\ Target(plan, g) \in Pubs
                 /\ created < Target(plan, g)
                 /\ Target(plan, g) <= created + Cardinality(NewGroups(plan))
<1>1. Ids(pubs) \in SUBSET Pubs /\ created \in Nat BY Identifiers DEF IInv, TypeOK, Ids
<1>2. IsFiniteSet(NewGroups(plan))
  BY <1>1, GroupsAreFinite, FS_Subset DEF NewGroups
<1>3. Cardinality(NewGroups(plan)) \in Nat BY <1>2, FS_CardinalityType
<1>4. ASSUME NEW g \in NewGroups(plan)
      PROVE  /\ Target(plan, g) \in Pubs
             /\ created < Target(plan, g)
             /\ Target(plan, g) <= created + Cardinality(NewGroups(plan))
  <2> DEFINE before == {h \in NewGroups(plan) : Min(h.members) <= Min(g.members)}
  <2>1. Target(plan, g) = created + Cardinality(before) BY DEF Target, NewGroups
  <2>2. g \in before
    <3>1. g.members \subseteq Nat /\ g.members # {} BY Identifiers DEF NewGroups, GroupsOn
    <3>2. Min(g.members) \in Nat BY <3>1, MinIsMember
    <3> QED BY <3>2
  <2>3. before \subseteq NewGroups(plan) OBVIOUS
  <2> HIDE DEF before
  <2>4. /\ IsFiniteSet(before)
        /\ Cardinality(before) \in Nat /\ Cardinality(before) <= Cardinality(NewGroups(plan))
    BY <1>2, <2>3, FS_Subset, FS_CardinalityType
  <2>5. Cardinality(before) # 0 BY <2>2, <2>4, FS_EmptySet
  <2>6. Cardinality(before) >= 1 BY <2>4, <2>5
  <2> QED BY <1>1, <1>3, <2>1, <2>4, <2>6, Identifiers
<1> QED BY <1>3, <1>4

(* The members of a neighbourhood are records of publications that exist.  *)
LEMMA UniverseOfMembers ==
    ASSUME IInv, NEW dirty, NEW verdicts
    PROVE  MembersOf(Universe(dirty, verdicts), Ids(pubs))
<1> SUFFICES ASSUME NEW r \in Existing
             PROVE  LET m == Member(r, verdicts)
                    IN  {"id", "pub"} \subseteq DOMAIN m /\ m.id \in Records
                        /\ m.pub \in Ids(pubs) \cup {None}
  BY DEF MembersOf, Universe
<1>1. r \in Records /\ content[r] \in Contents BY DEF Existing, IInv, TypeOK
<1>2. {"id", "pub", "pubDoi", "strong", "weak", "keys"} \subseteq DOMAIN content[r]
  BY <1>1, ContentsAssumption
<1>3. LET m == Member(r, verdicts)
      IN  {"id", "pub"} \subseteq DOMAIN m /\ m.id = r /\ m.pub = pub[r]
  BY <1>2 DEF Member
<1> QED BY <1>1, <1>3 DEF IInv, PublicationsExist

(* What the application of a plan leaves: the types, publications that     *)
(* exist, numbers above the former ones, redirections in one step, and     *)
(* marks on every publication whose records change.                        *)
Applied ==
    /\ removed' \in [Records -> SUBSET Dois]
    /\ pub' \in [Records -> Pubs \cup {None}]
    /\ pubs' \subseteq [id : Pubs, doi : Dois \cup {None}]
    /\ created' \in 0..Cardinality(Pubs) /\ created <= created'
    /\ redirect' \in [Pubs -> Pubs \cup {None}]
    /\ grouping' \in SUBSET Pubs
    /\ broken' \in {"none", "doi", "dissolve"}
    /\ PublicationsExist' /\ RedirectsAreDirect'
    /\ \A p \in Pubs :
          /\ p \in Ids(pubs') =>
                p <= created' /\ redirect'[p] = None /\ (p \in Ids(pubs) \/ p > created)
          /\ p > created' => redirect'[p] = None
          /\ p \in Ids(pubs') \ grouping' =>
                p \notin grouping /\ RecordsOf(pub', p) = RecordsOf(pub, p)

(* The identifiers that led to a dissolved publication, and its own, lead  *)
(* to its successor, which is not dissolved.                               *)
LEMMA RedirectedIsDirect ==
    ASSUME IInv, NEW dissolved, dissolved \subseteq Ids(pubs) \X Ids(pubs),
           \A e, f \in dissolved : e[1] # f[2]
    PROVE  LET after == Redirected(dissolved)
           IN  /\ after \in [Pubs -> Pubs \cup {None}]
               /\ \A p \in Pubs : after[p] # None => after[p] \in Pubs /\ after[after[p]] = None
               /\ \A p \in Pubs : p > created => after[p] = None
               /\ \A p \in Ids(pubs) \ {e[1] : e \in dissolved} : after[p] = None
<1> DEFINE leading(p) == {e[2] : e \in {x \in dissolved : x[1] = p}}
           heir(p) == Only(leading(p))
           after == [p \in Pubs |-> IF heir(p) # None THEN heir(p)
                                    ELSE IF heir(redirect[p]) # None THEN heir(redirect[p])
                                    ELSE redirect[p]]
           heirs == {e[2] : e \in dissolved}
           gone == {e[1] : e \in dissolved}
<1>1. Redirected(dissolved) = after BY DEF Redirected
<1>2. /\ Ids(pubs) \subseteq Pubs /\ Pubs \subseteq Nat /\ None \notin Pubs /\ created \in Nat
      /\ redirect \in [Pubs -> Pubs \cup {None}]
  BY Identifiers DEF IInv, TypeOK, Ids
<1>3. heirs \subseteq Ids(pubs) /\ gone \subseteq Ids(pubs) /\ heirs \cap gone = {} OBVIOUS
<1>4. \A p : leading(p) \subseteq heirs /\ (p \notin gone => leading(p) = {}) OBVIOUS
<1> HIDE DEF leading, heirs, gone
<1>5. \A p : heir(p) \in heirs \cup {None} /\ (p \notin gone => heir(p) = None)
  BY <1>4, OnlyIsMember
<1> HIDE DEF heir
<1>6. \A p \in Ids(pubs) : redirect[p] = None /\ p <= created
  BY <1>2 DEF IInv, Numbered
<1>7. \A p \in Pubs : p > created => redirect[p] = None BY DEF IInv, Numbered
<1>8. \A p \in Pubs : redirect[p] # None => redirect[p] \in Pubs /\ redirect[redirect[p]] = None
  BY DEF IInv, RedirectsAreDirect
<1>9. None \notin gone /\ heir(None) = None BY <1>2, <1>3, <1>5
<1>10. \A p \in Pubs : after[p] \in Pubs \cup {None} BY <1>2, <1>3, <1>5
<1>11. \A p \in Ids(pubs) \ gone : after[p] = None BY <1>2, <1>5, <1>6, <1>9
<1>12. ASSUME NEW p \in Pubs, p > created PROVE after[p] = None
  <2>1. p \notin Ids(pubs) BY <1>2, <1>6, <1>12
  <2> QED BY <1>3, <1>5, <1>7, <1>9, <1>12, <2>1
<1>13. ASSUME NEW p \in Pubs, after[p] # None PROVE after[p] \in Pubs /\ after[after[p]] = None
  <2>1. CASE after[p] \in heirs BY <1>2, <1>3, <1>11, <2>1
  <2>2. CASE after[p] \notin heirs
    <3>1. after[p] = redirect[p] /\ heir(redirect[p]) = None BY <1>5, <1>13, <2>2
    <3>2. redirect[p] \in Pubs /\ redirect[redirect[p]] = None BY <1>8, <1>13, <3>1
    <3> QED BY <1>9, <3>1, <3>2
  <2> QED BY <2>1, <2>2
<1> HIDE DEF after
<1> QED
  <2>1. after \in [Pubs -> Pubs \cup {None}] BY <1>10 DEF after
  <2> QED BY <1>1, <1>11, <1>12, <1>13, <2>1 DEF gone

(* Where a plan attaches the records: publications that exist, or that it  *)
(* founds.                                                                 *)
LEMMA AttachedTargets ==
    ASSUME IInv, NEW plan, plan.groups \subseteq GroupsOn(Ids(pubs)),
           created + Cardinality(NewGroups(plan)) <= Cardinality(Pubs)
    PROVE  /\ Attached(plan) \in [Records -> Pubs \cup {None}]
           /\ \A r \in Records :
                 Attached(plan)[r] \in Ids(pubs) \cup {Target(plan, g) : g \in NewGroups(plan)} \cup {None}
<1> DEFINE founded == {Target(plan, g) : g \in NewGroups(plan)}
<1>1. Ids(pubs) \subseteq Pubs BY DEF IInv, TypeOK, Ids
<1>2. founded \subseteq Pubs BY NewTargets
<1>3. \A g \in plan.groups : Target(plan, g) \in Ids(pubs) \cup founded
  BY DEF Target, NewGroups, GroupsOn
<1> HIDE DEF founded
<1>4. ASSUME NEW r \in Records PROVE Attached(plan)[r] \in Ids(pubs) \cup founded \cup {None}
  <2> DEFINE joined == {Target(plan, g) : g \in {h \in plan.groups : r \in h.members}}
  <2>1. joined \subseteq Ids(pubs) \cup founded BY <1>3
  <2>2. Attached(plan)[r] = IF r \in plan.detached THEN None
                            ELSE IF joined = {} THEN pub[r] ELSE Only(joined)
    BY DEF Attached
  <2> HIDE DEF joined
  <2>3. Only(joined) \in joined \cup {None} BY OnlyIsMember
  <2> QED BY <2>1, <2>2, <2>3 DEF IInv, PublicationsExist
<1>5. DOMAIN Attached(plan) = Records /\ Attached(plan) = [r \in Records |-> Attached(plan)[r]]
  BY DEF Attached
<1> QED BY <1>1, <1>2, <1>4, <1>5 DEF founded

(* A plan on the publications that exist is applied whole, or not at all.  *)
LEMMA ApplyPlanKeeps ==
    ASSUME IInv, NEW plan, SoundPlan(plan, Ids(pubs)), NEW out \in [Records -> SUBSET Dois],
           NEW dirty, ApplyPlan(plan, Attached(plan), out, dirty)
    PROVE  Applied
<1> DEFINE attached == Attached(plan)
           survivors == {Target(plan, g) : g \in plan.groups}
           gone == {e[1] : e \in plan.dissolved}
           left == ({pub[r] : r \in plan.detached} \ {None}) \ (survivors \cup gone)
           founded == {[id |-> Target(plan, g), doi |-> g.doi] : g \in NewGroups(plan)}
           again == Recomputed(dirty, attached, survivors) \ gone
           end == Rewritten(pubs \cup founded, left, gone, again, attached, out)
           last == created + Cardinality(NewGroups(plan))
<1>1. /\ last <= Cardinality(Pubs)
      /\ broken' = end.failure
      /\ IF end.failure # "none"
         THEN UNCHANGED <<removed, pub, pubs, created, redirect, grouping>>
         ELSE /\ pub' = attached /\ removed' = out /\ pubs' = end.rows
              /\ created' = last
              /\ redirect' = Redirected(plan.dissolved)
              /\ grouping' = grouping \cup (MembershipChanged(attached) \ gone)
  BY DEF ApplyPlan
<1>2. broken' \in {"none", "doi", "dissolve"}
  <2>1. end.failure \in {"none", "doi", "dissolve"} BY DEF Rewritten
  <2> HIDE DEF end
  <2> QED BY <1>1, <2>1
<1>3. /\ Ids(pubs) \subseteq Pubs /\ Pubs \subseteq Nat /\ None \notin Pubs
      /\ Cardinality(Pubs) \in Nat /\ created \in Nat
  BY Identifiers DEF IInv, TypeOK, Ids
<1>4. plan.groups \subseteq GroupsOn(Ids(pubs)) BY DEF SoundPlan
<1>5. /\ Cardinality(NewGroups(plan)) \in Nat
      /\ \A g \in NewGroups(plan) : Target(plan, g) \in Pubs /\ created < Target(plan, g)
                                    /\ Target(plan, g) <= last
  BY <1>1, <1>4, NewTargets
<1>6. last \in Nat /\ created <= last BY <1>3, <1>5
<1> HIDE DEF last
<1>7. CASE end.failure # "none"
  <2>1. UNCHANGED <<removed, pub, pubs, created, redirect, grouping>> BY <1>1, <1>7
  <2>2. PublicationsExist' /\ RedirectsAreDirect'
    BY <2>1 DEF IInv, PublicationsExist, RedirectsAreDirect
  <2>3. \A p \in Pubs :
           /\ p \in Ids(pubs') =>
                 p <= created' /\ redirect'[p] = None /\ (p \in Ids(pubs) \/ p > created)
           /\ p > created' => redirect'[p] = None
           /\ p \in Ids(pubs') \ grouping' =>
                 p \notin grouping /\ RecordsOf(pub', p) = RecordsOf(pub, p)
    BY <2>1 DEF IInv, Numbered
  <2>4. created <= created' BY <1>3, <2>1
  <2> QED BY <1>2, <2>1, <2>2, <2>3, <2>4 DEF Applied, IInv, TypeOK
<1>8. CASE end.failure = "none"
  <2>1. /\ attached \in [Records -> Pubs \cup {None}]
        /\ \A r \in Records :
              attached[r] \in Ids(pubs) \cup {Target(plan, g) : g \in NewGroups(plan)} \cup {None}
    BY <1>1, <1>4, AttachedTargets DEF last
  <2> HIDE DEF attached
  <2>2. /\ pub' = attached /\ removed' = out /\ pubs' = end.rows /\ created' = last
        /\ redirect' = Redirected(plan.dissolved)
        /\ grouping' = grouping \cup (MembershipChanged(attached) \ gone)
    BY <1>1, <1>8
  <2>3. founded \subseteq Rows
    <3>1. \A g \in NewGroups(plan) : g.doi \in Dois \cup {None} BY <1>4 DEF NewGroups, GroupsOn
    <3> QED BY <1>5, <3>1 DEF Rows
  <2>4. Ids(founded) = {Target(plan, g) : g \in NewGroups(plan)}
    <3>1. \A x \in founded : \E g \in NewGroups(plan) : x.id = Target(plan, g) OBVIOUS
    <3>2. ASSUME NEW g \in NewGroups(plan) PROVE \E x \in founded : x.id = Target(plan, g)
      <4>1. [id |-> Target(plan, g), doi |-> g.doi] \in founded OBVIOUS
      <4> HIDE DEF founded
      <4> QED BY <4>1
    <3> HIDE DEF founded
    <3> QED BY <3>1, <3>2 DEF Ids
  <2> HIDE DEF founded
  <2>5. pubs \cup founded \in SUBSET Rows BY <2>3 DEF IInv, TypeOK, Rows
  <2>6. Ids(pubs \cup founded) = Ids(pubs) \cup Ids(founded) BY DEF Ids
  <2> HIDE DEF gone, left, survivors, again
  <2>7. /\ pubs' \subseteq Rows /\ Ids(pubs') \subseteq Ids(pubs \cup founded) \ gone
        /\ \A p \in Ids(pubs \cup founded) : RecordsOf(attached, p) # {} => p \in Ids(pubs')
    BY <1>8, <2>2, <2>5, RewrittenRows
  <2> HIDE DEF end
  <2>8. PublicationsExist'
    <3> SUFFICES ASSUME NEW r \in Records, attached[r] # None PROVE attached[r] \in Ids(pubs')
      BY <2>2 DEF PublicationsExist
    <3>1. attached[r] \in Ids(pubs \cup founded) BY <2>1, <2>4, <2>6
    <3>2. r \in RecordsOf(attached, attached[r]) BY DEF RecordsOf
    <3> QED BY <2>7, <3>1, <3>2
  <2>9. /\ redirect' \in [Pubs -> Pubs \cup {None}]
        /\ \A p \in Pubs : redirect'[p] # None => redirect'[p] \in Pubs /\ redirect'[redirect'[p]] = None
        /\ \A p \in Pubs : p > created => redirect'[p] = None
        /\ \A p \in Ids(pubs) \ gone : redirect'[p] = None
    BY <2>2, RedirectedIsDirect DEF SoundPlan, gone
  <2>10. RedirectsAreDirect' BY <2>9 DEF RedirectsAreDirect
  <2>11. \A p \in Ids(pubs) : p <= created BY <1>3 DEF IInv, Numbered
  <2>12. \A p \in Ids(pubs') :
             p <= created' /\ redirect'[p] = None /\ (p \in Ids(pubs) \/ p > created)
    <3> SUFFICES ASSUME NEW p \in Ids(pubs')
                 PROVE  p <= last /\ redirect'[p] = None /\ (p \in Ids(pubs) \/ p > created)
      BY <2>2
    <3>1. CASE p \in Ids(pubs)
      <4>1. p \in Nat /\ p <= created BY <1>3, <2>11, <3>1
      <4>2. p <= last BY <1>3, <1>6, <4>1
      <4> QED BY <2>7, <2>9, <3>1, <4>2
    <3>2. CASE p \notin Ids(pubs)
      <4>1. PICK g \in NewGroups(plan) : p = Target(plan, g) BY <2>4, <2>6, <2>7, <3>2
      <4>2. p \in Pubs /\ p \in Nat /\ created < p /\ p <= last BY <1>3, <1>5, <4>1
      <4> QED BY <1>3, <2>9, <4>2
    <3> QED BY <3>1, <3>2
  <2>13. ASSUME NEW p \in Pubs, p > created' PROVE redirect'[p] = None
    <3>1. p > created BY <1>3, <1>6, <2>2, <2>13
    <3> QED BY <2>9, <3>1
  <2>14. \A p \in Pubs : p \notin MembershipChanged(attached) =>
                             RecordsOf(attached, p) = RecordsOf(pub, p)
    <3>1. ASSUME NEW r \in Records, attached[r] # pub[r]
          PROVE  {attached[r], pub[r]} \ {None} \subseteq MembershipChanged(attached)
      BY <3>1 DEF MembershipChanged
    <3> QED BY <1>3, <3>1 DEF RecordsOf
  <2>15. \A p \in Ids(pubs') \ grouping' : p \notin gone /\ p \notin grouping
                                         /\ p \notin MembershipChanged(attached)
    BY <2>2, <2>7
  <2>16. MembershipChanged(attached) \subseteq Pubs
    <3> SUFFICES ASSUME NEW p \in MembershipChanged(attached) PROVE p \in Pubs OBVIOUS
    <3>1. PICK r \in Records : p \in {pub[r], attached[r]} \ {None} BY DEF MembershipChanged
    <3> QED BY <2>1, <3>1 DEF IInv, TypeOK
  <2>17. grouping' \in SUBSET Pubs BY <2>2, <2>16 DEF IInv, TypeOK
  <2>18. created' \in 0..Cardinality(Pubs) /\ created <= created' BY <1>1, <1>3, <1>6, <2>2
  <2>19. \A p \in Pubs :
            /\ p \in Ids(pubs') =>
                  p <= created' /\ redirect'[p] = None /\ (p \in Ids(pubs) \/ p > created)
            /\ p > created' => redirect'[p] = None
            /\ p \in Ids(pubs') \ grouping' =>
                  p \notin grouping /\ RecordsOf(pub', p) = RecordsOf(pub, p)
    BY <2>2, <2>12, <2>13, <2>14, <2>15
  <2> QED BY <1>2, <2>1, <2>2, <2>7, <2>8, <2>9, <2>10, <2>17, <2>18, <2>19 DEF Applied, Rows
<1> QED BY <1>7, <1>8

(* A reconciliation of any records.                                        *)
LEMMA ApplyKeeps == ASSUME IInv, NEW dirty, NEW verdicts, Apply(dirty, verdicts) PROVE Applied
<1> DEFINE U == Universe(dirty, verdicts)
           carrier == [d \in Dois |-> Only({x.id : x \in {y \in pubs : y.doi = d}})]
           size == [p \in Pubs |-> Cardinality(RecordsOf(pub, p))]
           plan == Plan(U, carrier, size)
           out == RemovedBy(plan, Ids(U))
<1>1. ApplyPlan(plan, Attached(plan), out, dirty) BY DEF Apply
<1>2. MembersOf(U, Ids(pubs)) BY UniverseOfMembers
<1>3. \A d \in Dois : carrier[d] \in Ids(pubs) \cup {None}
  <2> SUFFICES ASSUME NEW d \in Dois PROVE carrier[d] \in Ids(pubs) \cup {None} OBVIOUS
  <2> DEFINE carriers == {x.id : x \in {y \in pubs : y.doi = d}}
  <2>1. carriers \subseteq Ids(pubs) BY DEF Ids
  <2>2. carrier[d] = Only(carriers) OBVIOUS
  <2> HIDE DEF carriers, carrier
  <2> QED BY <2>1, <2>2, OnlyIsMember
<1> HIDE DEF U, carrier, size
<1>4. Ids(pubs) \in SUBSET Pubs BY DEF IInv, TypeOK, Ids
<1>5. SoundPlan(plan, Ids(pubs)) BY <1>2, <1>3, <1>4, PlanIsSound
<1>6. out \in [Records -> SUBSET Dois] BY DEF RemovedBy, IInv, TypeOK
<1> HIDE DEF plan, out
<1> QED BY <1>1, <1>5, <1>6, ApplyPlanKeeps

(* With the types of the rest, an application keeps the invariant if the   *)
(* authors of the publications it leaves unmarked stay aligned.            *)
LEMMA AppliedKeeps ==
    ASSUME IInv, Applied, content' = content, issued' = issued,
           merges' \in SUBSET SUBSET Records, queue' \in SUBSET Records,
           aligned' \in [Pubs -> SUBSET Records], purged' \in SUBSET Records,
           fresh' \in BOOLEAN, writes' \in 0..MaxWrites,
           \A p \in Pubs :
              aligned'[p] = aligned[p] \/ (p \in Ids(pubs') /\ aligned'[p] = RecordsOf(pub', p))
    PROVE  IInv'
<1>1. TypeOK' BY DEF IInv, TypeOK, Applied
<1>2. PublicationsExist' /\ RedirectsAreDirect' BY DEF Applied
<1>3. Ids(pubs') \subseteq Pubs BY <1>1 DEF TypeOK, Ids
<1>4. /\ Pubs \subseteq Nat /\ created \in Nat /\ created' \in Nat /\ created <= created'
      /\ None \notin Pubs
  BY <1>1, Identifiers DEF IInv, TypeOK, Applied
<1>5. Numbered'
  <2> SUFFICES ASSUME NEW p \in Pubs
               PROVE  /\ p \in Ids(pubs') => p <= created' /\ redirect'[p] = None
                      /\ p > created' => redirect'[p] = None /\ aligned'[p] = {}
    BY DEF Numbered
  <2>1. p \in Ids(pubs') => p <= created' /\ redirect'[p] = None BY DEF Applied
  <2>2. ASSUME p > created' PROVE redirect'[p] = None /\ aligned'[p] = {}
    <3>1. redirect'[p] = None BY <2>2 DEF Applied
    <3>2. p > created /\ p \notin Ids(pubs') BY <1>4, <2>1, <2>2
    <3> QED BY <3>1, <3>2 DEF IInv, Numbered
  <2> QED BY <2>1, <2>2
<1>6. MembershipIsAligned'
  <2> SUFFICES ASSUME NEW p \in Ids(pubs') \ grouping', aligned'[p] = aligned[p]
               PROVE  aligned[p] = RecordsOf(pub', p)
    BY <1>3 DEF MembershipIsAligned
  <2>1. p \notin grouping /\ RecordsOf(pub', p) = RecordsOf(pub, p) BY <1>3 DEF Applied
  <2>2. CASE p \in Ids(pubs) BY <2>1, <2>2 DEF IInv, MembershipIsAligned
  <2>3. CASE p \notin Ids(pubs)
    <3>1. p > created BY <1>3, <2>3 DEF Applied
    <3>2. aligned[p] = {} BY <1>3, <3>1 DEF IInv, Numbered
    <3>3. RecordsOf(pub, p) = {} BY <1>3, <1>4, <2>3 DEF RecordsOf, IInv, PublicationsExist
    <3> QED BY <2>1, <3>2, <3>3
  <2> QED BY <2>2, <2>3
<1> QED BY <1>1, <1>2, <1>5, <1>6 DEF IInv

------------------------------------------------------------------------------
(* The actions                                                             *)

(* An application takes records from those that were purged, and adds none. *)
LEMMA DecidedArePurged ==
    ASSUME IInv, NEW dirty, NEW verdicts, Apply(dirty, verdicts) PROVE purged' \in SUBSET Records
<1>1. purged' = IF broken' = "none" THEN purged \ Ids(Universe(dirty, verdicts)) ELSE purged
  BY DEF Apply
<1> QED BY <1>1 DEF IInv, TypeOK

LEMMA ReconcileKeeps == ASSUME IInv, Reconcile \/ Rebuild PROVE IInv'
<1>1. Applied BY ApplyKeeps DEF Reconcile, Rebuild
<1>2. /\ queue' \in SUBSET Records /\ fresh' \in BOOLEAN
      /\ UNCHANGED <<content, issued, merges, aligned, writes>>
  BY DEF Reconcile, Rebuild, IInv, TypeOK
<1>3. /\ merges' \in SUBSET SUBSET Records /\ aligned' \in [Pubs -> SUBSET Records]
      /\ writes' \in 0..MaxWrites
  BY <1>2 DEF IInv, TypeOK
<1>4. purged' \in SUBSET Records BY DecidedArePurged DEF Reconcile, Rebuild
<1> QED BY <1>1, <1>2, <1>3, <1>4, AppliedKeeps

LEMMA ManualMergeKeeps == ASSUME IInv, NEW p \in Pubs, NEW q \in Pubs, ManualMerge(p, q) PROVE IInv'
<1> DEFINE S == RecordsOf(pub, p) \cup RecordsOf(pub, q)
           merged == {pub'[r] : r \in S} \ {None}
<1>1. /\ Apply(S, merges')
      /\ merges' = merges \cup {S}
      /\ aligned' = [m \in Pubs |-> IF m \in merged THEN RecordsOf(pub', m) ELSE aligned[m]]
      /\ writes < MaxWrites /\ writes' = writes + 1 /\ fresh' = FALSE
      /\ UNCHANGED <<content, issued, queue>>
  BY DEF ManualMerge
<1>2. Applied BY <1>1, ApplyKeeps
<1>3. S \subseteq Records BY DEF RecordsOf
<1>4. merged \subseteq Ids(pubs') BY <1>2, <1>3 DEF Applied, PublicationsExist
<1> HIDE DEF S, merged
<1>5. writes' \in 0..MaxWrites BY <1>1, BoundsAssumption DEF IInv, TypeOK
<1>6. merges' \in SUBSET SUBSET Records BY <1>1, <1>3 DEF IInv, TypeOK
<1>7. \A m : RecordsOf(pub', m) \in SUBSET Records BY DEF RecordsOf
<1>8. aligned' \in [Pubs -> SUBSET Records] BY <1>1, <1>7 DEF IInv, TypeOK
<1>9. \A m \in Pubs :
         aligned'[m] = aligned[m] \/ (m \in Ids(pubs') /\ aligned'[m] = RecordsOf(pub', m))
  <2> SUFFICES ASSUME NEW m \in Pubs
               PROVE  aligned'[m] = aligned[m]
                      \/ (m \in Ids(pubs') /\ aligned'[m] = RecordsOf(pub', m))
    OBVIOUS
  <2>1. aligned'[m] = IF m \in merged THEN RecordsOf(pub', m) ELSE aligned[m] BY <1>1
  <2> QED BY <1>4, <2>1
<1>10. purged' \in SUBSET Records BY <1>1, DecidedArePurged
<1> QED BY <1>1, <1>2, <1>5, <1>6, <1>8, <1>9, <1>10, AppliedKeeps DEF IInv, TypeOK

LEMMA NormalizeKeeps ==
    ASSUME IInv, NEW r \in Records, NEW c \in Written, Normalize(r, c) PROVE IInv'
<1>1. /\ writes < MaxWrites /\ writes' = writes + 1
      /\ issued' = Max({issued, r})
      /\ content' = [content EXCEPT ![r] = c]
      /\ removed' = [removed EXCEPT ![r] = {}]
      /\ queue' = queue \cup {r} /\ fresh' = FALSE
      /\ UNCHANGED <<pub, pubs, created, redirect, merges, grouping, aligned, purged, broken>>
  BY DEF Normalize
<1>2. issued' \in 0..Cardinality(Records)
  <2>1. issued \in 0..Cardinality(Records) /\ r \in 0..Cardinality(Records)
    BY Identifiers, RecordsAssumption DEF IInv, TypeOK
  <2>2. issued >= r => Max({issued, r}) \in {issued, r} BY <2>1 DEF Max
  <2>3. r >= issued => Max({issued, r}) \in {issued, r} BY <2>1 DEF Max
  <2> QED BY <1>1, <2>1, <2>2, <2>3, Identifiers
<1>3. writes' \in 0..MaxWrites BY <1>1, BoundsAssumption DEF IInv, TypeOK
<1>4. content' \in [Records -> Contents \cup {None}]
  BY <1>1, ContentsAssumption DEF IInv, TypeOK
<1>5. TypeOK' BY <1>1, <1>2, <1>3, <1>4 DEF IInv, TypeOK
<1> QED BY <1>1, <1>5
        DEF IInv, PublicationsExist, Numbered, RedirectsAreDirect, MembershipIsAligned

LEMMA DeleteRecordKeeps == ASSUME IInv, NEW r \in Records, DeleteRecord(r) PROVE IInv'
<1>1. /\ writes < MaxWrites /\ writes' = writes + 1 /\ fresh' = FALSE
      /\ content' = [content EXCEPT ![r] = None]
      /\ removed' = [removed EXCEPT ![r] = {}]
      /\ pub' = [pub EXCEPT ![r] = None]
      /\ queue' = queue \cup {s \in Existing \ {r} : pub[r] # None /\ pub[s] = pub[r]}
      /\ grouping' = grouping \cup ({pub[r]} \ {None})
      /\ UNCHANGED <<issued, pubs, created, redirect, merges, aligned, purged, broken>>
  BY DEF DeleteRecord
<1>2. writes' \in 0..MaxWrites BY <1>1, BoundsAssumption DEF IInv, TypeOK
<1>3. queue' \in SUBSET Records BY <1>1 DEF Existing, IInv, TypeOK
<1>4. TypeOK' BY <1>1, <1>2, <1>3 DEF IInv, TypeOK
<1>5. \A s \in Records : pub'[s] = IF s = r THEN None ELSE pub[s] BY <1>1 DEF IInv, TypeOK
<1>6. PublicationsExist' BY <1>1, <1>5 DEF IInv, PublicationsExist
<1>7. (Numbered /\ RedirectsAreDirect)' BY <1>1 DEF IInv, Numbered, RedirectsAreDirect
<1>8. MembershipIsAligned'
  <2> SUFFICES ASSUME NEW p \in Ids(pubs) \ grouping' PROVE aligned[p] = RecordsOf(pub', p)
    BY <1>1 DEF MembershipIsAligned
  <2>1. p \in Pubs /\ p # None /\ p \notin grouping /\ pub[r] # p
    BY <1>1, Identifiers DEF IInv, TypeOK, Ids
  <2>2. RecordsOf(pub', p) = RecordsOf(pub, p) BY <1>5, <2>1 DEF RecordsOf
  <2> QED BY <2>1, <2>2 DEF IInv, MembershipIsAligned
<1> QED BY <1>4, <1>6, <1>7, <1>8 DEF IInv

(* The purge detaches the records of the publications it deletes.          *)
Purged(gone) ==
    /\ gone \subseteq Ids(pubs)
    /\ pubs' = {row \in pubs : row.id \notin gone}
    /\ pub' = [r \in Records |-> IF pub[r] \in gone THEN None ELSE pub[r]]
    /\ purged' = purged \cup {r \in Records : pub[r] \in gone}
    /\ writes' \in 0..MaxWrites
    /\ UNCHANGED <<content, issued, removed, created, redirect, merges, queue, grouping,
                   aligned, fresh, broken>>

LEMMA PurgeIsPurged == ASSUME IInv, Purge PROVE \E gone : Purged(gone)
<1>1. PICK unattributed \in SUBSET Ids(pubs) :
          LET gone == unattributed \cup {p \in Ids(pubs) : RecordsOf(pub, p) = {}}
              detached == {r \in Records : pub[r] \in gone}
          IN  /\ pubs' = Deleted(pubs, gone)
              /\ pub' = [r \in Records |-> IF r \in detached THEN None ELSE pub[r]]
              /\ purged' = purged \cup detached
              /\ writes' = IF detached = {} THEN writes ELSE writes + 1
              /\ writes' <= MaxWrites
              /\ UNCHANGED <<content, issued, removed, created, redirect, merges, queue, grouping,
                             aligned, fresh, broken>>
  BY DEF Purge
<1> DEFINE gone == unattributed \cup {p \in Ids(pubs) : RecordsOf(pub, p) = {}}
<1>2. writes' \in 0..MaxWrites BY <1>1, BoundsAssumption DEF IInv, TypeOK
<1>3. Purged(gone) BY <1>1, <1>2 DEF Purged, Deleted
<1> QED BY <1>3

LEMMA PurgeKeeps == ASSUME IInv, Purge PROVE IInv'
<1>1. PICK gone : Purged(gone) BY PurgeIsPurged
<1>2. TypeOK' BY <1>1 DEF Purged, IInv, TypeOK
<1>3. Ids(pubs') = Ids(pubs) \ gone BY <1>1 DEF Purged, Ids
<1>4. PublicationsExist' BY <1>1, <1>3 DEF Purged, IInv, PublicationsExist
<1>5. MembershipIsAligned'
  <2> SUFFICES ASSUME NEW p \in Ids(pubs') \ grouping' PROVE aligned'[p] = RecordsOf(pub', p)
    BY DEF MembershipIsAligned
  <2>1. p \in Ids(pubs) /\ p \notin grouping /\ p \notin gone /\ p # None
    BY <1>1, <1>3, Identifiers DEF Purged, IInv, TypeOK, Ids
  <2>2. RecordsOf(pub', p) = RecordsOf(pub, p) BY <1>1, <2>1 DEF Purged, RecordsOf
  <2> QED BY <1>1, <2>1, <2>2 DEF Purged, IInv, MembershipIsAligned
<1>6. Numbered' /\ RedirectsAreDirect' BY <1>1, <1>3 DEF Purged, IInv, Numbered, RedirectsAreDirect
<1> QED BY <1>2, <1>4, <1>5, <1>6 DEF IInv

LEMMA AlignKeeps == ASSUME IInv, Align PROVE IInv'
<1>1. /\ aligned' = [p \in Pubs |-> IF p \in grouping THEN RecordsOf(pub, p) ELSE aligned[p]]
      /\ grouping' = {}
      /\ UNCHANGED <<content, issued, removed, pub, pubs, created, redirect, merges, queue,
                     purged, fresh, broken, writes>>
  BY DEF Align
<1>2. \A p : RecordsOf(pub, p) \in SUBSET Records BY DEF RecordsOf
<1>3. TypeOK' BY <1>1, <1>2 DEF IInv, TypeOK
<1>4. (PublicationsExist /\ RedirectsAreDirect)'
  BY <1>1 DEF IInv, PublicationsExist, RedirectsAreDirect
<1>5. Ids(pubs) \subseteq Pubs BY DEF IInv, TypeOK, Ids
<1>6. MembershipIsAligned' BY <1>1, <1>5 DEF IInv, MembershipIsAligned
<1>7. Numbered'
  <2>1. ASSUME NEW p \in Pubs, p > created PROVE RecordsOf(pub, p) = {}
    <3>1. p \notin Ids(pubs) BY <2>1, Identifiers DEF IInv, TypeOK, Numbered
    <3> QED BY <3>1, Identifiers DEF RecordsOf, IInv, PublicationsExist
  <2> QED BY <1>1, <2>1 DEF IInv, Numbered
<1> QED BY <1>3, <1>4, <1>6, <1>7 DEF IInv

LEMMA NextKeeps == IInv /\ [Next]_vars => IInv'
<1> SUFFICES ASSUME IInv, [Next]_vars PROVE IInv' OBVIOUS
<1>1. CASE \E r \in Records : DeleteRecord(r) \/ \E c \in Written : Normalize(r, c)
  BY <1>1, DeleteRecordKeeps, NormalizeKeeps
<1>2. CASE Reconcile \/ Rebuild BY <1>2, ReconcileKeeps
<1>3. CASE \E p, q \in Pubs : ManualMerge(p, q) BY <1>3, ManualMergeKeeps
<1>4. CASE Purge BY <1>4, PurgeKeeps
<1>5. CASE Align BY <1>5, AlignKeeps
<1>6. CASE UNCHANGED vars
  BY <1>6 DEF vars, IInv, TypeOK, PublicationsExist, Numbered, RedirectsAreDirect, MembershipIsAligned
<1> QED BY <1>1, <1>2, <1>3, <1>4, <1>5, <1>6 DEF Next

LEMMA Inductive == Spec => []IInv
BY InitKeeps, NextKeeps, PTL DEF Spec

(* The tables keep their types, whatever is written, merged or deleted.    *)
THEOREM TypeCorrect == Spec => []TypeOK
<1>1. IInv => TypeOK BY DEF IInv
<1> QED BY Inductive, <1>1, PTL

(* reconcile and merge mark every publication that gains or loses a record *)
(* for the alignment of its authors, unless they align it at once.         *)
THEOREM AuthorsAreAligned == Spec => []MembershipIsAligned
<1>1. IInv => MembershipIsAligned BY DEF IInv
<1> QED BY Inductive, <1>1, PTL

(* record_redirect keeps every redirection at one step of a publication    *)
(* that was not dissolved.                                                 *)
THEOREM RedirectionsAreDirect == Spec => []RedirectsAreDirect
<1>1. IInv => RedirectsAreDirect BY DEF IInv
<1> QED BY Inductive, <1>1, PTL

(* A record is attached to a publication that exists: the deletions of     *)
(* reconcile, of lifecycle.refresh and of purge_publications leave none    *)
(* that has a record.                                                      *)
THEOREM NoRecordIsStranded == Spec => []PublicationsExist
<1>1. IInv => PublicationsExist BY DEF IInv
<1> QED BY Inductive, <1>1, PTL

------------------------------------------------------------------------------
(* The parts share the records                                             *)

(* What is the only member of a set with one member.                       *)
LEMMA OneElement ==
    ASSUME NEW X, IsFiniteSet(X), Cardinality(X) <= 1, NEW x \in X
    PROVE  X = {x} /\ Only(X) = x
<1>1. Cardinality(X) = 1 BY FS_CardinalityType, FS_EmptySet
<1>2. X = {x} BY <1>1, FS_Singleton
<1> QED BY <1>1, <1>2 DEF Only

LEMMA OnlyOfOne == \A x : Only({x}) = x
<1> SUFFICES ASSUME NEW x PROVE Only({x}) = x OBVIOUS
<1>1. Cardinality({x}) = 1 BY FS_Singleton
<1> QED BY <1>1 DEF Only

(* The parts share the members of S: each of them is in one, and only one. *)
Split(parts, S) ==
    /\ PartsOf(parts, S)
    /\ \A m \in S : \E p \in parts : m \in p.members
    /\ \A p, q \in parts : p # q => p.members \cap q.members = {}

(* With several anchors, a member follows its own, or the bridge it is in. *)
LEMMA ComponentIsSplit ==
    ASSUME NEW S, IsFiniteSet(S), S # {}
    PROVE  /\ Split(ComponentPartitions(S), S)
           /\ \/ Cardinality(DoiAnchors(S) \cup Ids({m \in S : m.work})) <= 1
              \/ \A p \in ComponentPartitions(S) :
                    \A m \in p.members : Anchor(S, DoiAnchors(S), m) \in {p.anchor, None}
<1> DEFINE dois == DoiAnchors(S)
           anchors == dois \cup Ids({m \in S : m.work})
           pairs == {<<m, Anchor(S, dois, m)>> : m \in S}
           held(a) == {x[1] : x \in {y \in pairs : y[2] = a}}
           anchored == {Part(a, held(a)) : a \in {x[2] : x \in pairs} \ {None}}
           bridges == {Part(BridgeAnchor(anchored, b), b) : b \in Components(held(None))}
           joining(a) == UNION {b.members : b \in {c \in bridges : c.anchor = a}}
           whole == {Part(Only(anchors), S)}
           joined == {Part(p.anchor, p.members \cup joining(p.anchor)) : p \in anchored}
           apart == {b \in bridges : b.anchor = None}
<1>1. ComponentPartitions(S) = IF Cardinality(anchors) <= 1 THEN whole ELSE joined \cup apart
  BY DEF ComponentPartitions
<1>2. PartsOf(ComponentPartitions(S), S) BY ComponentIsInParts
<1>3. Split(whole, S)
  <2> HIDE DEF anchors
  <2> QED BY DEF Split, PartsOf, Part
<1>4. \A a : held(a) = {m \in S : Anchor(S, dois, m) = a}
  <2> SUFFICES ASSUME NEW a PROVE held(a) = {m \in S : Anchor(S, dois, m) = a} OBVIOUS
  <2>1. \A m \in S : <<m, Anchor(S, dois, m)>> \in pairs OBVIOUS
  <2>2. ASSUME NEW x \in pairs PROVE x[1] \in S /\ x[2] = Anchor(S, dois, x[1]) OBVIOUS
  <2> HIDE DEF pairs, dois
  <2>3. ASSUME NEW m \in S, Anchor(S, dois, m) = a PROVE m \in held(a)
    <3>1. <<m, Anchor(S, dois, m)>> \in {y \in pairs : y[2] = a} BY <2>1, <2>3
    <3>2. <<m, Anchor(S, dois, m)>>[1] = m OBVIOUS
    <3> QED BY <3>1, <3>2
  <2>4. ASSUME NEW m \in held(a) PROVE m \in S /\ Anchor(S, dois, m) = a BY <2>2
  <2> HIDE DEF held
  <2> QED BY <2>3, <2>4
<1>5. {x[2] : x \in pairs} = {Anchor(S, dois, m) : m \in S}
  <2>1. \A m \in S : <<m, Anchor(S, dois, m)>> \in pairs OBVIOUS
  <2>2. ASSUME NEW x \in pairs PROVE x[1] \in S /\ x[2] = Anchor(S, dois, x[1]) OBVIOUS
  <2>3. ASSUME NEW m \in S PROVE Anchor(S, dois, m) \in {x[2] : x \in pairs}
    <3>1. <<m, Anchor(S, dois, m)>>[2] = Anchor(S, dois, m) OBVIOUS
    <3> HIDE DEF pairs
    <3> QED BY <2>1, <3>1
  <2> HIDE DEF pairs
  <2> QED BY <2>2, <2>3
<1> HIDE DEF dois, anchors, pairs, held
<1>6. IsFiniteSet(held(None)) BY <1>4, FS_Subset
<1>7. /\ \A m \in held(None) : \E C \in Components(held(None)) : m \in C
      /\ \A C, D \in Components(held(None)) : C # D => C \cap D = {}
      /\ \A C \in Components(held(None)) : C \subseteq held(None)
  BY <1>6, ComponentsPartition DEF Components
<1>8. \A b : b \in bridges <=> \E C \in Components(held(None)) : b = Part(BridgeAnchor(anchored, C), C)
  OBVIOUS
<1>9. \A C : BridgeAnchor(anchored, C) \in {p.anchor : p \in anchored} \cup {None}
  BY OnlyIsMember DEF BridgeAnchor
<1> HIDE DEF anchored, bridges
<1>10. /\ \A m \in held(None) : \E b \in bridges : m \in b.members
       /\ \A b, c \in bridges : b # c => b.members \cap c.members = {}
       /\ \A b \in bridges : b.members \subseteq held(None) /\ b.anchor \in {p.anchor : p \in anchored} \cup {None}
  <2>1. \A C \in Components(held(None)) : \E b \in bridges : b.members = C
    <3> SUFFICES ASSUME NEW C \in Components(held(None)) PROVE \E b \in bridges : b.members = C
      OBVIOUS
    <3>1. Part(BridgeAnchor(anchored, C), C) \in bridges BY <1>8
    <3>2. Part(BridgeAnchor(anchored, C), C).members = C BY DEF Part
    <3> QED BY <3>1, <3>2
  <2>2. \A b \in bridges : /\ b.members \in Components(held(None))
                          /\ b = Part(BridgeAnchor(anchored, b.members), b.members)
                          /\ b.anchor = BridgeAnchor(anchored, b.members)
    BY <1>8 DEF Part
  <2>3. \A m \in held(None) : \E b \in bridges : m \in b.members BY <1>7, <2>1
  <2>4. ASSUME NEW b \in bridges, NEW c \in bridges, b # c PROVE b.members \cap c.members = {}
    <3>1. b.members # c.members BY <2>2, <2>4
    <3> QED BY <1>7, <2>2, <3>1
  <2> QED BY <1>7, <1>9, <2>2, <2>3, <2>4
<1>11. /\ \A p \in anchored : p.anchor # None /\ p.members = held(p.anchor)
       /\ \A m \in S : m \in held(None) \/ \E p \in anchored : m \in held(p.anchor)
  <2>1. ASSUME NEW p \in anchored PROVE p.anchor # None /\ p.members = held(p.anchor)
    <3>1. PICK a \in {Anchor(S, dois, m) : m \in S} \ {None} : p = Part(a, held(a))
      BY <1>5 DEF anchored
    <3> QED BY <3>1 DEF Part
  <2>2. ASSUME NEW m \in S, Anchor(S, dois, m) # None
        PROVE  Part(Anchor(S, dois, m), held(Anchor(S, dois, m))) \in anchored
    BY <1>5, <2>2 DEF anchored
  <2>3. \A m \in S : m \in held(Anchor(S, dois, m)) BY <1>4
  <2>4. \A a : Part(a, held(a)).anchor = a BY DEF Part
  <2> QED BY <2>1, <2>2, <2>3, <2>4
<1>12. \A a, m : m \in joining(a) <=> \E b \in bridges : b.anchor = a /\ m \in b.members
  OBVIOUS
<1>13. \A q : q \in joined <=> \E p \in anchored : q = Part(p.anchor, p.members \cup joining(p.anchor))
  OBVIOUS
<1> HIDE DEF joining, joined
<1>14. ASSUME NEW m \in S PROVE \E p \in joined \cup apart : m \in p.members
  <2>1. CASE m \in held(None)
    <3>1. PICK b \in bridges : m \in b.members BY <1>10, <2>1
    <3>2. CASE b.anchor = None BY <3>1, <3>2
    <3>3. CASE b.anchor # None
      <4>1. PICK p \in anchored : p.anchor = b.anchor BY <1>10, <3>3
      <4>2. m \in joining(p.anchor) BY <1>12, <3>1, <4>1
      <4>3. Part(p.anchor, p.members \cup joining(p.anchor)) \in joined BY <1>13
      <4> QED BY <4>2, <4>3 DEF Part
    <3> QED BY <3>2, <3>3
  <2>2. CASE m \notin held(None)
    <3>1. PICK p \in anchored : m \in held(p.anchor) BY <1>11, <2>2
    <3>2. Part(p.anchor, p.members \cup joining(p.anchor)) \in joined BY <1>13
    <3> QED BY <1>11, <3>1, <3>2 DEF Part
  <2> QED BY <2>1, <2>2
<1>15. \A a, b : a # b => held(a) \cap held(b) = {} BY <1>4
<1>16. \A a, b : a # b => joining(a) \cap joining(b) = {} BY <1>10, <1>12
<1>17. \A q \in joined : q.anchor # None /\ q.members = held(q.anchor) \cup joining(q.anchor)
                         /\ q = Part(q.anchor, q.members)
  BY <1>11, <1>13 DEF Part
<1>18. \A a : joining(a) \subseteq held(None) BY <1>10, <1>12
<1>19. ASSUME NEW p \in joined, NEW q \in joined, p # q PROVE p.members \cap q.members = {}
  <2>1. PICK u \in anchored : p = Part(u.anchor, u.members \cup joining(u.anchor)) BY <1>13
  <2>2. PICK v \in anchored : q = Part(v.anchor, v.members \cup joining(v.anchor)) BY <1>13
  <2>3. u.members = held(u.anchor) /\ v.members = held(v.anchor) BY <1>11
  <2>4. u.anchor # v.anchor BY <1>19, <2>1, <2>2, <2>3
  <2>5. /\ p.members = held(u.anchor) \cup joining(u.anchor)
        /\ q.members = held(v.anchor) \cup joining(v.anchor)
    BY <2>1, <2>2, <2>3 DEF Part
  <2>6. u.anchor # None /\ v.anchor # None BY <1>11
  <2> QED BY <1>15, <1>16, <1>18, <2>4, <2>5, <2>6
<1>20. \A p \in joined, b \in apart : p.members \cap b.members = {}
  BY <1>10, <1>12, <1>15, <1>17
<1>21. \A p, q \in apart : p # q => p.members \cap q.members = {} BY <1>10
<1>22. CASE Cardinality(anchors) <= 1 BY <1>1, <1>3, <1>22 DEF anchors, dois
<1>23. CASE ~ (Cardinality(anchors) <= 1)
  <2>1. Split(ComponentPartitions(S), S)
    BY <1>1, <1>2, <1>14, <1>19, <1>20, <1>21, <1>23 DEF Split
  <2>2. ASSUME NEW p \in joined \cup apart, NEW m \in p.members
        PROVE  Anchor(S, dois, m) \in {p.anchor, None}
    <3>1. CASE p \in joined
      <4>1. m \in held(p.anchor) \/ m \in held(None) BY <1>17, <1>18, <3>1
      <4> QED BY <1>4, <4>1
    <3>2. CASE p \in apart
      <4>1. m \in held(None) BY <1>10, <3>2
      <4> QED BY <1>4, <4>1
    <3> QED BY <3>1, <3>2
  <2> QED BY <1>1, <1>23, <2>1, <2>2 DEF dois
<1> QED BY <1>22, <1>23

(* partition: every record is in one part of its component, and in one     *)
(* only, whatever anchors, bridges and contested records it has.           *)
THEOREM PartitionsSplit ==
    ASSUME NEW S, IsFiniteSet(S)
    PROVE  Split(Partitions(S), S)
<1>1. /\ \A m \in S : \E C \in Components(S) : m \in C
      /\ \A C, D \in Components(S) : C # D => C \cap D = {}
  BY ComponentsPartition
<1>2. \A C \in Components(S) : C \subseteq S /\ C # {} BY DEF Components
<1>3. \A C \in Components(S) : IsFiniteSet(C) BY <1>2, FS_Subset
<1>4. \A C \in Components(S) : Split(ComponentPartitions(C), C) BY <1>2, <1>3, ComponentIsSplit
<1>5. \A p : p \in Partitions(S) <=> \E C \in Components(S) : p \in ComponentPartitions(C)
  BY DEF Partitions
<1>6. PartsOf(Partitions(S), S) BY PartitionsAreParts
<1>7. \A m \in S : \E p \in Partitions(S) : m \in p.members BY <1>1, <1>4, <1>5 DEF Split
<1>8. ASSUME NEW p \in Partitions(S), NEW q \in Partitions(S), p # q
      PROVE  p.members \cap q.members = {}
  <2>1. PICK C \in Components(S) : p \in ComponentPartitions(C) BY <1>5
  <2>2. PICK D \in Components(S) : q \in ComponentPartitions(D) BY <1>5
  <2>3. p.members \subseteq C /\ q.members \subseteq D BY <1>4, <2>1, <2>2 DEF Split, PartsOf
  <2>4. CASE C = D BY <1>4, <1>8, <2>1, <2>2, <2>4 DEF Split
  <2>5. CASE C # D BY <1>1, <2>3, <2>5
  <2> QED BY <2>4, <2>5
<1> QED BY <1>6, <1>7, <1>8 DEF Split

LEMMA IdsAreFinite ==
    ASSUME NEW S, IsFiniteSet(S)
    PROVE  IsFiniteSet(Ids(S))
<1> DEFINE f == [m \in S |-> m.id]
<1>1. f \in Surjection(S, Ids(S)) BY DEF Surjection, Ids
<1> QED BY <1>1, FS_Surjection

LEMMA OnlyOfSet ==
    ASSUME NEW X, IsFiniteSet(X), Only(X) # None
    PROVE  X = {Only(X)}
<1>1. Cardinality(X) = 1 BY DEF Only
<1>2. PICK x \in X : TRUE BY <1>1, FS_EmptySet
<1> QED BY <1>1, OneElement

(* The anchor of a work, or of a record with one DOI that separates.       *)
Separator(m) == IF m.work THEN m.id ELSE Only(m.strong \ Deposits)

(* Records with anchors of their own are in one part only when these are   *)
(* the same.                                                               *)
LEMMA SeparatorsAgree ==
    ASSUME NEW S, IsFiniteSet(S), \A m \in S : m.strong \subseteq Dois,
           NEW p \in Partitions(S), NEW m \in p.members, NEW n \in p.members,
           m.derived = None, n.derived = None, Separator(m) # None, Separator(n) # None
    PROVE  Separator(m) = Separator(n)
<1>1. PICK C \in Components(S) : p \in ComponentPartitions(C) BY DEF Partitions
<1>2. C \subseteq S /\ C # {} BY DEF Components
<1>3. IsFiniteSet(C) BY <1>2, FS_Subset
<1> DEFINE works == Ids({k \in C : k.work})
           anchors == DoiAnchors(C) \cup works
<1>4. /\ Split(ComponentPartitions(C), C)
      /\ \/ Cardinality(anchors) <= 1
         \/ \A q \in ComponentPartitions(C) :
               \A k \in q.members : Anchor(C, DoiAnchors(C), k) \in {q.anchor, None}
  BY <1>2, <1>3, ComponentIsSplit
<1>5. p.members \subseteq C BY <1>1, <1>4 DEF Split, PartsOf
<1>6. DoiAnchors(C) \subseteq Dois \ Deposits BY DEF DoiAnchors, AnchorsAmong
<1>7. IsFiniteSet(anchors)
  <2>1. IsFiniteSet(DoiAnchors(C)) BY <1>6, DoisAssumption, FS_Subset
  <2>2. IsFiniteSet({k \in C : k.work}) BY <1>3, FS_Subset
  <2>3. IsFiniteSet(works) BY <2>2, IdsAreFinite
  <2> QED BY <2>1, <2>3, FS_Union
<1>8. ASSUME NEW k \in C, k.derived = None, Separator(k) # None
      PROVE  Separator(k) \in anchors /\ Anchor(C, DoiAnchors(C), k) = Separator(k)
  <2>1. Anchor(C, DoiAnchors(C), k) = OwnAnchor(k, DoiAnchors(C))
    BY <1>8 DEF Anchor, FollowedAnchor
  <2>2. CASE k.work
    <3>1. k \in {l \in C : l.work} BY <2>2
    <3>2. k.id \in works BY <3>1 DEF Ids
    <3> HIDE DEF works
    <3> QED BY <2>1, <2>2, <3>2 DEF Separator, OwnAnchor
  <2>3. CASE ~ k.work
    <3> DEFINE o == Only(k.strong \ Deposits)
    <3>1. IsFiniteSet(k.strong \ Deposits) BY <1>2, DoisAssumption, FS_Subset
    <3>2. k.strong \ Deposits = {o} BY <1>8, <2>3, <3>1, OnlyOfSet DEF Separator
    <3> HIDE DEF o
    <3>3. o \in k.strong \cap (Dois \ Deposits) BY <1>2, <3>2
    <3>4. o \in DoiAnchors(C) BY <3>3 DEF DoiAnchors, AnchorsAmong
    <3>5. k.strong \cap (DoiAnchors(C) \ Deposits) = {o} BY <1>6, <3>2, <3>3, <3>4
    <3>6. AnchorOf(k, DoiAnchors(C)) = o BY <3>5, OnlyOfOne DEF AnchorOf
    <3> QED BY <2>1, <2>3, <3>4, <3>6 DEF OwnAnchor, Separator, o
  <2> QED BY <2>2, <2>3
<1>9. /\ Separator(m) \in anchors /\ Anchor(C, DoiAnchors(C), m) = Separator(m)
      /\ Separator(n) \in anchors /\ Anchor(C, DoiAnchors(C), n) = Separator(n)
  BY <1>5, <1>8
<1> HIDE DEF anchors
<1>10. CASE Cardinality(anchors) <= 1 BY <1>7, <1>9, <1>10, OneElement
<1>11. CASE ~ (Cardinality(anchors) <= 1) BY <1>1, <1>4, <1>9, <1>11
<1> QED BY <1>10, <1>11

------------------------------------------------------------------------------
(* The parts of a plan                                                     *)

(* What a decision reads of a record.                                      *)
Fields == {"id", "pub", "pubDoi", "strong", "weak", "keys", "work", "primary", "derived",
           "type", "year", "founds", "matchable"}

(* A neighbourhood: finitely many records, each of them once.              *)
Neighbourhood(S, P) ==
    /\ IsFiniteSet(S) /\ MembersOf(S, P)
    /\ \A m \in S : Fields \subseteq DOMAIN m /\ m.strong \subseteq Dois /\ m.weak \subseteq Dois
    /\ \A m, n \in S : m.id = n.id => m = n

(* A member without the DOIs it loses.                                     *)
Lost(m, R) == {d \in Dois : <<m.id, d>> \in R}
Strip(m, R) == [m EXCEPT !.strong = @ \ Lost(m, R), !.weak = @ \ Lost(m, R)]

(* Only its DOIs change.                                                   *)
LEMMA StrippedMember ==
    ASSUME NEW m, NEW R, Fields \subseteq DOMAIN m
    PROVE  LET n == Strip(m, R)
           IN  /\ DOMAIN n = DOMAIN m
               /\ n.id = m.id /\ n.pub = m.pub /\ n.work = m.work /\ n.derived = m.derived
               /\ n.year = m.year /\ n.founds = m.founds /\ n.matchable = m.matchable
               /\ n.strong = m.strong \ Lost(m, R) /\ n.weak = m.weak \ Lost(m, R)
BY DEF Strip, Fields

LEMMA WithoutStrips == \A S, R : Without(S, R) = {Strip(m, R) : m \in S}
BY DEF Without, Strip, Lost

(* The removals leave a neighbourhood, and so does a selection.            *)
LEMMA WithoutIsNeighbourhood ==
    ASSUME NEW S, NEW P, NEW R, Neighbourhood(S, P)
    PROVE  Neighbourhood(Without(S, R), P)
<1>1. Without(S, R) = {Strip(m, R) : m \in S} BY WithoutStrips
<1>2. IsFiniteSet(Without(S, R))
  <2> DEFINE f == [m \in S |-> Strip(m, R)]
  <2>1. f \in Surjection(S, Without(S, R)) BY <1>1 DEF Surjection
  <2> QED BY <2>1, FS_Surjection DEF Neighbourhood
<1>3. \A m \in S : LET n == Strip(m, R)
                  IN  /\ Fields \subseteq DOMAIN n /\ n.id = m.id
                      /\ n.strong \subseteq Dois /\ n.weak \subseteq Dois
  BY StrippedMember DEF Neighbourhood
<1>4. MembersOf(Without(S, R), P) BY WithoutKeepsMembers DEF Neighbourhood
<1>5. ASSUME NEW m \in Without(S, R), NEW n \in Without(S, R), m.id = n.id PROVE m = n
  <2>1. PICK k \in S : m = Strip(k, R) BY <1>1
  <2>2. PICK l \in S : n = Strip(l, R) BY <1>1
  <2>3. k.id = l.id BY <1>3, <1>5, <2>1, <2>2
  <2> QED BY <2>1, <2>2, <2>3 DEF Neighbourhood
<1>6. \A n \in Without(S, R) : Fields \subseteq DOMAIN n /\ n.strong \subseteq Dois /\ n.weak \subseteq Dois
  BY <1>1, <1>3
<1> QED BY <1>2, <1>4, <1>5, <1>6 DEF Neighbourhood

LEMMA SubsetIsNeighbourhood ==
    ASSUME NEW S, NEW P, Neighbourhood(S, P), NEW T \in SUBSET S
    PROVE  Neighbourhood(T, P)
BY FS_Subset DEF Neighbourhood, MembersOf

(* The records that take part, what remains of all of them once DOIs are   *)
(* removed, the parts of those, and what they claim.                       *)
Admissible(S) == {m \in S : m.matchable}
Remaining(S) == Without(S, FinalRemovals(Admissible(S)))
PartsIn(S) == Partitions(Admissible(Remaining(S)))
ClaimsOn(S, carrier) == UNION {Claim(p, carrier) : p \in PartsIn(S)}

(* A plan, from the parts it is made of.                                   *)
LEMMA PlanUnfolded ==
    ASSUME NEW S, NEW carrier, NEW size
    PROVE  LET plan == Plan(S, carrier, size)
               claims == ClaimsOn(S, carrier)
           IN  /\ plan.groups = Groups(claims)
               /\ plan.detached = Unfounded(claims) \cup Ids({m \in S : ~ m.matchable /\ m.pub # None})
               /\ plan.dissolved = Dissolutions(Remaining(S), Groups(claims), size)
               /\ plan.removals = FinalRemovals(Admissible(S))
BY DEF Plan, ClaimsOn, PartsIn, Remaining, Admissible

(* The parts of a neighbourhood share its records.                         *)
LEMMA PartsShareRecords ==
    ASSUME NEW S, NEW P, Neighbourhood(S, P)
    PROVE  /\ Split(PartsIn(S), Admissible(Remaining(S)))
           /\ Neighbourhood(Remaining(S), P)
           /\ \A p, q \in PartsIn(S) : p # q => Ids(p.members) \cap Ids(q.members) = {}
           /\ \A p \in PartsIn(S) : /\ p.members # {} /\ MembersOf(p.members, P)
                                   /\ Ids(p.members) \subseteq Ids(Admissible(S))
<1>1. Neighbourhood(Remaining(S), P) BY WithoutIsNeighbourhood DEF Remaining
<1>2. Admissible(Remaining(S)) \subseteq Remaining(S) BY DEF Admissible
<1>3. Neighbourhood(Admissible(Remaining(S)), P) BY <1>1, <1>2, SubsetIsNeighbourhood
<1>4. Split(PartsIn(S), Admissible(Remaining(S)))
  BY <1>3, PartitionsSplit DEF PartsIn, Neighbourhood
<1>5. ASSUME NEW p \in PartsIn(S), NEW q \in PartsIn(S), p # q
      PROVE  Ids(p.members) \cap Ids(q.members) = {}
  BY <1>3, <1>4, <1>5 DEF Split, PartsOf, Neighbourhood, Ids
<1>6. ASSUME NEW p \in PartsIn(S) PROVE p.members # {} /\ MembersOf(p.members, P)
  BY <1>3, <1>4 DEF Split, PartsOf, Neighbourhood, MembersOf
<1>7. Ids(Admissible(Remaining(S))) \subseteq Ids(Admissible(S))
  <2> SUFFICES ASSUME NEW n \in Admissible(Remaining(S)) PROVE n.id \in Ids(Admissible(S)) BY DEF Ids
  <2>1. n \in Remaining(S) /\ n.matchable BY DEF Admissible
  <2>2. PICK m \in S : n = Strip(m, FinalRemovals(Admissible(S)))
    BY <2>1, WithoutStrips DEF Remaining
  <2>3. n.id = m.id /\ n.matchable = m.matchable BY <2>2, StrippedMember DEF Neighbourhood
  <2> QED BY <2>1, <2>3 DEF Ids, Admissible
<1>8. \A p \in PartsIn(S) : Ids(p.members) \subseteq Ids(Admissible(S))
  BY <1>4, <1>7 DEF Split, PartsOf, Ids
<1> QED BY <1>1, <1>4, <1>5, <1>6, <1>8

(* A part claims at most one publication.                                  *)
LEMMA OneClaim ==
    ASSUME NEW p, NEW carrier
    PROVE  /\ \A c \in Claim(p, carrier) : c.members = p.members /\ c.strong \in BOOLEAN
           /\ \A c, d \in Claim(p, carrier) : c = d
           /\ Claim(p, carrier) = {} =>
                 /\ \A m \in p.members : m.pub = None
                 /\ \A m, n \in p.members : ~ (m.year /\ n.founds)
<1> DEFINE attached == {m \in p.members : m.pub # None}
           holder == Carrier(p, carrier)
           claim(pb, strong) ==
               {[preferred |-> pb, strong |-> strong, members |-> p.members, doi |-> DoiOf(p)]}
<1>1. Claim(p, carrier) =
          IF holder # None THEN claim(holder, TRUE)
          ELSE IF attached # {} THEN claim(Smallest(attached).pub, FALSE)
          ELSE IF (\E m \in p.members : m.year) /\ (\E m \in p.members : m.founds)
               THEN claim(None, FALSE)
          ELSE {}
  BY DEF Claim
<1>2. Claim(p, carrier) = {} => attached = {} /\ \A m, n \in p.members : ~ (m.year /\ n.founds)
  BY <1>1
<1> HIDE DEF attached, holder
<1>3. \E pb, strong : strong \in BOOLEAN /\ (Claim(p, carrier) = {} \/ Claim(p, carrier) = claim(pb, strong))
  BY <1>1
<1> QED BY <1>2, <1>3 DEF attached

(* What a plan does of a part: nothing, when none of its records has a     *)
(* publication and they may not found one together; it detaches them all,  *)
(* when none has a year; or one group has them, and them only.             *)
Unclaimed(plan, p) ==
    /\ \A m \in p.members : m.pub = None
    /\ \A m, n \in p.members : ~ (m.year /\ n.founds)
    /\ Ids(p.members) \cap plan.detached = {}
    /\ \A h \in plan.groups : h.members \cap Ids(p.members) = {}

Discarded(plan, p) ==
    /\ \A m \in p.members : ~ m.year
    /\ Ids(p.members) \subseteq plan.detached
    /\ \A h \in plan.groups : h.members \cap Ids(p.members) = {}

Grouped(plan, p) ==
    /\ Ids(p.members) \cap plan.detached = {}
    /\ \E g \in plan.groups :
          /\ g.members = Ids(p.members)
          /\ \A h \in plan.groups : h.members \cap Ids(p.members) # {} => h = g

(* Every part is placed in one of these three ways.                        *)
LEMMA PartIsPlaced ==
    ASSUME NEW S, NEW P, Neighbourhood(S, P), NEW carrier, NEW size, NEW p \in PartsIn(S)
    PROVE  LET plan == Plan(S, carrier, size)
           IN  Unclaimed(plan, p) \/ Discarded(plan, p) \/ Grouped(plan, p)
<1> DEFINE plan == Plan(S, carrier, size)
           claims == ClaimsOn(S, carrier)
           ids == Ids(p.members)
           aside == Ids({m \in S : ~ m.matchable /\ m.pub # None})
           group(c) == [target |-> IF Awarded(claims, c) THEN c.preferred ELSE None,
                        members |-> Ids(c.members), doi |-> c.doi]
<1>1. plan.groups = Groups(claims) /\ plan.detached = Unfounded(claims) \cup aside
  BY PlanUnfolded
<1>2. /\ \A q \in PartsIn(S) : q # p => Ids(q.members) \cap ids = {}
      /\ p.members # {} /\ ids \subseteq Ids(Admissible(S))
  BY PartsShareRecords
<1>3. ids # {} BY <1>2 DEF Ids
<1>4. aside \cap ids = {} BY <1>2 DEF Neighbourhood, Admissible, Ids
<1>5. \A c : c \in claims <=> \E q \in PartsIn(S) : c \in Claim(q, carrier) BY DEF ClaimsOn
<1> HIDE DEF plan, claims, aside
<1>6. ASSUME NEW c \in claims, Ids(c.members) \cap ids # {}
      PROVE  c \in Claim(p, carrier) /\ c.members = p.members
  <2>1. PICK q \in PartsIn(S) : c \in Claim(q, carrier) BY <1>5
  <2>2. c.members = q.members BY <2>1, OneClaim
  <2>3. q = p BY <1>2, <1>6, <2>2
  <2> QED BY <2>1, <2>2, <2>3
<1>7. ASSUME NEW h \in plan.groups, h.members \cap ids # {}
      PROVE  \E c \in Claim(p, carrier) : /\ c \in claims /\ h = group(c)
                                          /\ Awarded(claims, c) \/ Founding(c)
  <2>1. PICK c \in claims : (Awarded(claims, c) \/ Founding(c)) /\ h = group(c) BY <1>1 DEF Groups
  <2>2. h.members = Ids(c.members) BY <2>1
  <2> QED BY <1>6, <1>7, <2>1, <2>2
<1>8. ASSUME NEW r \in ids, r \in plan.detached
      PROVE  \E c \in Claim(p, carrier) : ~ Awarded(claims, c) /\ ~ Founding(c)
  <2>1. PICK c \in claims : ~ Awarded(claims, c) /\ ~ Founding(c) /\ r \in Ids(c.members)
    BY <1>1, <1>4, <1>8 DEF Unfounded
  <2> QED BY <1>6, <2>1
<1> HIDE DEF ids
<1>9. CASE Claim(p, carrier) = {}
  <2>1. Unclaimed(plan, p) BY <1>7, <1>8, <1>9, OneClaim DEF Unclaimed, ids
  <2> QED BY <2>1 DEF plan
<1>10. CASE Claim(p, carrier) # {}
  <2>1. PICK c \in Claim(p, carrier) : TRUE BY <1>10
  <2>2. c \in claims /\ c.members = p.members /\ \A d \in Claim(p, carrier) : d = c
    BY <1>5, <2>1, OneClaim
  <2>3. CASE Awarded(claims, c) \/ Founding(c)
    <3>1. group(c) \in plan.groups BY <1>1, <2>2, <2>3 DEF Groups
    <3>2. group(c).members = ids BY <2>2 DEF ids
    <3>3. \A h \in plan.groups : h.members \cap ids # {} => h = group(c) BY <1>7, <2>2
    <3> HIDE DEF group
    <3>4. Grouped(plan, p) BY <1>8, <2>2, <2>3, <3>1, <3>2, <3>3 DEF Grouped, ids
    <3> QED BY <3>4 DEF plan
  <2>4. CASE ~ (Awarded(claims, c) \/ Founding(c))
    <3>1. \A h \in plan.groups : h.members \cap ids = {} BY <1>7, <2>2, <2>4
    <3>2. Ids(p.members) \subseteq plan.detached BY <1>1, <2>2, <2>4 DEF Unfounded
    <3>3. \A m \in p.members : ~ m.year BY <2>2, <2>4 DEF Founding
    <3>4. Discarded(plan, p) BY <3>1, <3>2, <3>3 DEF Discarded, ids
    <3> QED BY <3>4 DEF plan
  <2> QED BY <2>3, <2>4
<1> QED BY <1>9, <1>10

(* _award: one publication goes to one part.                               *)
LEMMA AwardedOnce ==
    ASSUME NEW S, NEW P, Neighbourhood(S, P), NEW carrier,
           NEW c \in ClaimsOn(S, carrier), NEW d \in ClaimsOn(S, carrier),
           Awarded(ClaimsOn(S, carrier), c), Awarded(ClaimsOn(S, carrier), d),
           c.preferred = d.preferred
    PROVE  c = d
<1> SUFFICES ASSUME c # d PROVE FALSE OBVIOUS
<1>1. Before(c, d) /\ Before(d, c) BY DEF Awarded
<1>2. ASSUME NEW k \in ClaimsOn(S, carrier)
      PROVE  k.strong \in BOOLEAN /\ Smallest(k.members).id \in Nat
  <2>1. PICK p \in PartsIn(S) : k \in Claim(p, carrier) BY DEF ClaimsOn
  <2>2. k.strong \in BOOLEAN /\ k.members = p.members BY <2>1, OneClaim
  <2>3. p.members # {} /\ \A m \in p.members : m.id \in Nat
    BY PartsShareRecords, Identifiers DEF MembersOf
  <2> QED BY <2>2, <2>3, SmallestIsMember
<1>3. c.strong \in BOOLEAN /\ d.strong \in BOOLEAN BY <1>2
<1>4. Smallest(c.members).id \in Nat /\ Smallest(d.members).id \in Nat BY <1>2
<1> QED BY <1>1, <1>3, <1>4 DEF Before

(* A group is that of a part.                                              *)
LEMMA GroupIsOfPart ==
    ASSUME NEW S, NEW carrier, NEW size, NEW g \in Plan(S, carrier, size).groups
    PROVE  \E p \in PartsIn(S) : g.members = Ids(p.members)
<1>1. PICK c \in ClaimsOn(S, carrier) : g.members = Ids(c.members)
  <2>1. g \in Groups(ClaimsOn(S, carrier)) BY PlanUnfolded
  <2> QED BY <2>1 DEF Groups
<1>2. PICK p \in PartsIn(S) : c \in Claim(p, carrier) BY DEF ClaimsOn
<1> QED BY <1>1, <1>2, OneClaim

(* The publications that receive groups: each of them one group.           *)
LEMMA TargetsDiffer ==
    ASSUME IInv, NEW S, Neighbourhood(S, Ids(pubs)), NEW carrier, NEW size, NEW plan,
           plan = Plan(S, carrier, size), plan.groups \subseteq GroupsOn(Ids(pubs)),
           created + Cardinality(NewGroups(plan)) <= Cardinality(Pubs),
           NEW g \in plan.groups, NEW h \in plan.groups, Target(plan, g) = Target(plan, h)
    PROVE  g = h
<1>1. PICK p \in PartsIn(S) : g.members = Ids(p.members) BY GroupIsOfPart
<1>2. PICK q \in PartsIn(S) : h.members = Ids(q.members) BY GroupIsOfPart
<1>3. g.members \subseteq Nat /\ g.members # {} /\ h.members \subseteq Nat /\ h.members # {}
  BY Identifiers DEF GroupsOn
<1>4. ASSUME g.members \cap h.members # {} PROVE g = h
  <2>1. p = q BY <1>1, <1>2, <1>4, PartsShareRecords
  <2>2. Unclaimed(plan, p) \/ Discarded(plan, p) \/ Grouped(plan, p) BY PartIsPlaced
  <2>3. Grouped(plan, p) BY <1>1, <1>3, <2>2 DEF Unclaimed, Discarded
  <2> QED BY <1>1, <1>2, <1>3, <2>1, <2>3 DEF Grouped
<1>5. /\ Min(g.members) \in g.members /\ Min(h.members) \in h.members
      /\ Min(g.members) \in Nat /\ Min(h.members) \in Nat
  BY <1>3, MinIsMember
<1>6. Ids(pubs) \in SUBSET Pubs /\ created \in Nat /\ None \notin Ids(pubs)
  BY Identifiers DEF IInv, TypeOK, Ids
<1>7. ASSUME NEW k \in plan.groups, k.target # None PROVE k.target \in Nat /\ k.target <= created
  BY <1>6, <1>7, Identifiers DEF GroupsOn, IInv, Numbered
<1>8. ASSUME NEW k \in plan.groups, k.target = None
      PROVE  Target(plan, k) \in Nat /\ created < Target(plan, k)
  <2>1. k \in NewGroups(plan) BY <1>8 DEF NewGroups
  <2> QED BY <2>1, NewTargets, Identifiers
<1>9. \A k \in plan.groups : k.target # None => Target(plan, k) = k.target BY DEF Target
<1>10. CASE g.target # None /\ h.target # None
  <2>1. /\ plan.groups = Groups(ClaimsOn(S, carrier)) BY PlanUnfolded
  <2> DEFINE claims == ClaimsOn(S, carrier)
  <2>2. PICK c \in claims :
            /\ g.target = IF Awarded(claims, c) THEN c.preferred ELSE None
            /\ g = [target |-> g.target, members |-> Ids(c.members), doi |-> c.doi]
    BY <2>1 DEF Groups
  <2>3. PICK d \in claims :
            /\ h.target = IF Awarded(claims, d) THEN d.preferred ELSE None
            /\ h = [target |-> h.target, members |-> Ids(d.members), doi |-> d.doi]
    BY <2>1 DEF Groups
  <2>4. c = d BY <1>9, <1>10, <2>2, <2>3, AwardedOnce
  <2> QED BY <1>9, <1>10, <2>2, <2>3, <2>4
<1>11. CASE g.target # None /\ h.target = None BY <1>6, <1>7, <1>8, <1>9, <1>11
<1>12. CASE g.target = None /\ h.target # None BY <1>6, <1>7, <1>8, <1>9, <1>12
<1>13. CASE g.target = None /\ h.target = None
  <2> DEFINE before(k) == {l \in NewGroups(plan) : Min(l.members) <= Min(k.members)}
  <2>1. g \in NewGroups(plan) /\ h \in NewGroups(plan) BY <1>13 DEF NewGroups
  <2>2. IsFiniteSet(NewGroups(plan)) BY <1>6, GroupsAreFinite, FS_Subset DEF NewGroups
  <2>3. ASSUME NEW k \in NewGroups(plan)
        PROVE  /\ IsFiniteSet(before(k)) /\ Cardinality(before(k)) \in Nat
               /\ Target(plan, k) = created + Cardinality(before(k))
               /\ Min(k.members) \in Nat
    <3>1. IsFiniteSet(before(k)) BY <2>2, FS_Subset
    <3>2. Cardinality(before(k)) \in Nat BY <3>1, FS_CardinalityType
    <3>3. Target(plan, k) = created + Cardinality(before(k)) BY DEF Target, NewGroups
    <3>4. k.members \subseteq Nat /\ k.members # {} BY Identifiers DEF NewGroups, GroupsOn
    <3> QED BY <3>1, <3>2, <3>3, <3>4, MinIsMember
  <2>4. ASSUME NEW k \in NewGroups(plan), NEW l \in NewGroups(plan),
               Min(k.members) < Min(l.members), Target(plan, k) = Target(plan, l)
        PROVE  FALSE
    <3>1. Min(k.members) \in Nat /\ Min(l.members) \in Nat BY <2>3
    <3>2. l \in before(l) /\ l \notin before(k) BY <2>4, <3>1
    <3>3. ASSUME NEW m \in before(k) PROVE m \in before(l)
      <4>1. m \in NewGroups(plan) /\ Min(m.members) <= Min(k.members) OBVIOUS
      <4>2. Min(m.members) \in Nat BY <2>3, <4>1
      <4> QED BY <2>4, <3>1, <4>1, <4>2
    <3> HIDE DEF before
    <3>4. Cardinality(before(k)) = Cardinality(before(l)) BY <1>6, <2>3, <2>4
    <3> QED BY <2>3, <3>2, <3>3, <3>4, FS_Subset
  <2>5. Min(g.members) = Min(h.members) BY <1>5, <2>1, <2>4
  <2> QED BY <1>4, <1>5, <2>5
<1> QED BY <1>10, <1>11, <1>12, <1>13

(* A plan of records with their publications, small enough to be applied.  *)
Planned(S, plan) ==
    /\ Neighbourhood(S, Ids(pubs)) /\ \A m \in S : m.pub = pub[m.id]
    /\ \E carrier, size : plan = Plan(S, carrier, size)
    /\ plan.groups \subseteq GroupsOn(Ids(pubs))
    /\ created + Cardinality(NewGroups(plan)) <= Cardinality(Pubs)

Placed(plan, p, r) ==
    \/ Unclaimed(plan, p) /\ Attached(plan)[r] = None
    \/ Discarded(plan, p) /\ Attached(plan)[r] = None
    \/ Grouped(plan, p) /\ \E g \in plan.groups : /\ g.members = Ids(p.members)
                                                  /\ Attached(plan)[r] = Target(plan, g)
                                                  /\ Target(plan, g) \in Pubs

(* A plan attaches the records of a part to one publication, or detaches   *)
(* them all; it detaches those that do not take part, and leaves those     *)
(* outside the neighbourhood.                                              *)
LEMMA AttachedByParts ==
    ASSUME IInv, NEW S, NEW plan, Planned(S, plan)
    PROVE  /\ \A p \in PartsIn(S) : \A r \in Ids(p.members) : Placed(plan, p, r)
           /\ \A r \in Ids(S) \ Ids(Admissible(S)) : Attached(plan)[r] = None
           /\ \A r \in Records \ Ids(S) : Attached(plan)[r] = pub[r]
<1> DEFINE joined(r) == {Target(plan, g) : g \in {h \in plan.groups : r \in h.members}}
<1>1. PICK carrier, size : plan = Plan(S, carrier, size) BY DEF Planned
<1>2. /\ Neighbourhood(S, Ids(pubs)) /\ \A m \in S : m.pub = pub[m.id]
      /\ plan.groups \subseteq GroupsOn(Ids(pubs))
      /\ created + Cardinality(NewGroups(plan)) <= Cardinality(Pubs)
  BY DEF Planned
<1>3. ASSUME NEW r \in Records
      PROVE  Attached(plan)[r] = IF r \in plan.detached THEN None
                                 ELSE IF joined(r) = {} THEN pub[r] ELSE Only(joined(r))
  BY DEF Attached
<1>4. Ids(S) \subseteq Records BY <1>2 DEF Neighbourhood, MembersOf, Ids
<1>5. \A p \in PartsIn(S) : Ids(p.members) \subseteq Ids(Admissible(S)) BY <1>2, PartsShareRecords
<1>6. Ids(Admissible(S)) \subseteq Ids(S) BY DEF Admissible, Ids
<1>7. \A g \in plan.groups : \E p \in PartsIn(S) : g.members = Ids(p.members)
  BY <1>1, GroupIsOfPart
<1>8. \A r : (\A h \in plan.groups : r \notin h.members) => joined(r) = {} OBVIOUS
<1>9. plan.detached = Unfounded(ClaimsOn(S, carrier)) \cup Ids({m \in S : ~ m.matchable /\ m.pub # None})
  BY <1>1, PlanUnfolded
<1>10. Unfounded(ClaimsOn(S, carrier)) \subseteq Ids(Admissible(S))
  <2> SUFFICES ASSUME NEW c \in ClaimsOn(S, carrier) PROVE Ids(c.members) \subseteq Ids(Admissible(S))
    BY DEF Unfounded
  <2>1. PICK p \in PartsIn(S) : c \in Claim(p, carrier) BY DEF ClaimsOn
  <2> QED BY <1>5, <2>1, OneClaim
<1> HIDE DEF joined
<1>11. ASSUME NEW r \in Records \ Ids(S) PROVE Attached(plan)[r] = pub[r]
  <2>1. joined(r) = {} BY <1>5, <1>6, <1>7, <1>8
  <2>2. r \notin plan.detached BY <1>6, <1>9, <1>10 DEF Ids
  <2> QED BY <1>3, <2>1, <2>2
<1>12. ASSUME NEW r \in Ids(S) \ Ids(Admissible(S)) PROVE Attached(plan)[r] = None
  <2>1. joined(r) = {} BY <1>5, <1>7, <1>8
  <2>2. PICK m \in S : m.id = r BY DEF Ids
  <2>3. ~ m.matchable BY <2>2 DEF Admissible, Ids
  <2>4. m.pub # None => r \in plan.detached BY <1>9, <2>2, <2>3 DEF Ids
  <2>5. m.pub = pub[r] BY <1>2, <2>2
  <2> QED BY <1>3, <1>4, <2>1, <2>4, <2>5
<1>13. ASSUME NEW p \in PartsIn(S), NEW r \in Ids(p.members) PROVE Placed(plan, p, r)
  <2>1. r \in Records BY <1>4, <1>5, <1>6
  <2>2. CASE Unclaimed(plan, p)
    <3>1. joined(r) = {} /\ r \notin plan.detached BY <1>8, <2>2 DEF Unclaimed
    <3>2. PICK n \in p.members : n.id = r BY DEF Ids
    <3>3. n \in Remaining(S) BY <1>2, PartsShareRecords DEF Split, PartsOf, Admissible
    <3>4. PICK m \in S : n = Strip(m, FinalRemovals(Admissible(S))) BY <3>3, WithoutStrips DEF Remaining
    <3>5. n.id = m.id /\ n.pub = m.pub BY <1>2, <3>4, StrippedMember DEF Neighbourhood
    <3>6. n.pub = None BY <2>2 DEF Unclaimed
    <3> QED BY <1>2, <1>3, <2>1, <2>2, <3>1, <3>2, <3>4, <3>5, <3>6 DEF Placed
  <2>3. CASE Discarded(plan, p)
    <3>1. r \in plan.detached BY <2>3 DEF Discarded
    <3> QED BY <1>3, <2>1, <2>3, <3>1 DEF Placed
  <2>4. CASE Grouped(plan, p)
    <3>1. PICK g \in plan.groups :
              /\ g.members = Ids(p.members)
              /\ \A h \in plan.groups : h.members \cap Ids(p.members) # {} => h = g
      BY <2>4 DEF Grouped
    <3>2. r \notin plan.detached BY <2>4 DEF Grouped
    <3>3. joined(r) = {Target(plan, g)} BY <3>1 DEF joined
    <3>4. Attached(plan)[r] = Target(plan, g) BY <1>3, <2>1, <3>2, <3>3, OnlyOfOne
    <3>5. Target(plan, g) \in Pubs
      <4>1. CASE g.target = None
        <5>1. g \in NewGroups(plan) BY <4>1 DEF NewGroups
        <5> QED BY <1>2, <5>1, NewTargets
      <4>2. CASE g.target # None BY <1>2, <4>2 DEF Target, GroupsOn, IInv, TypeOK, Ids
      <4> QED BY <4>1, <4>2
    <3> QED BY <2>4, <3>1, <3>4, <3>5 DEF Placed
  <2> QED BY <1>1, <1>2, <2>2, <2>3, <2>4, PartIsPlaced
<1> QED BY <1>11, <1>12, <1>13

(* Records of the neighbourhood are in one publication only if they are in *)
(* one part, and those of one part are never told apart.                   *)
LEMMA PublicationsFollowParts ==
    ASSUME IInv, NEW S, NEW plan, Planned(S, plan),
           NEW p \in PartsIn(S), NEW r \in Ids(p.members),
           NEW q \in PartsIn(S), NEW s \in Ids(q.members)
    PROVE  /\ p = q => Attached(plan)[r] = Attached(plan)[s]
           /\ Attached(plan)[r] = Attached(plan)[s] /\ Attached(plan)[r] # None => p = q
<1>1. PICK carrier, size : plan = Plan(S, carrier, size) BY DEF Planned
<1>2. /\ Neighbourhood(S, Ids(pubs)) /\ plan.groups \subseteq GroupsOn(Ids(pubs))
      /\ created + Cardinality(NewGroups(plan)) <= Cardinality(Pubs)
  BY DEF Planned
<1>3. Ids(p.members) # {} /\ Ids(q.members) # {}
  OBVIOUS
<1>4. Placed(plan, p, r) /\ Placed(plan, q, s) BY AttachedByParts
<1>5. ASSUME NEW g \in plan.groups, g.members = Ids(p.members)
      PROVE  ~ Unclaimed(plan, p) /\ ~ Discarded(plan, p)
  BY <1>3, <1>5 DEF Unclaimed, Discarded
<1>6. ASSUME p = q PROVE Attached(plan)[r] = Attached(plan)[s]
  <2>1. CASE Grouped(plan, p)
    <3>1. PICK g \in plan.groups :
              /\ g.members = Ids(p.members)
              /\ \A h \in plan.groups : h.members \cap Ids(p.members) # {} => h = g
      BY <2>1 DEF Grouped
    <3>2. Attached(plan)[r] = Target(plan, g) BY <1>3, <1>4, <1>5, <3>1 DEF Placed
    <3>3. Attached(plan)[s] = Target(plan, g) BY <1>3, <1>4, <1>5, <1>6, <3>1 DEF Placed
    <3> QED BY <3>2, <3>3
  <2>2. CASE ~ Grouped(plan, p) BY <1>4, <1>6, <2>2 DEF Placed
  <2> QED BY <2>1, <2>2
<1>7. ASSUME Attached(plan)[r] = Attached(plan)[s], Attached(plan)[r] # None PROVE p = q
  <2>1. PICK g \in plan.groups : g.members = Ids(p.members) /\ Attached(plan)[r] = Target(plan, g)
    BY <1>4, <1>7 DEF Placed
  <2>2. PICK h \in plan.groups : h.members = Ids(q.members) /\ Attached(plan)[s] = Target(plan, h)
    BY <1>4, <1>7 DEF Placed
  <2>3. Target(plan, g) = Target(plan, h) BY <1>7, <2>1, <2>2
  <2>4. g = h
    <3> HIDE <1>7
    <3> QED BY <1>1, <1>2, <2>3, TargetsDiffer
  <2> QED BY <1>2, <1>3, <2>1, <2>2, <2>4, PartsShareRecords
<1> QED BY <1>6, <1>7

------------------------------------------------------------------------------
(* What an application leaves                                              *)

(* Universe reads a neighbourhood, with the publications as they are, and  *)
(* all the marked records.                                                 *)
LEMMA UniverseIsNeighbourhood ==
    ASSUME IInv, NEW dirty, NEW verdicts
    PROVE  /\ Neighbourhood(Universe(dirty, verdicts), Ids(pubs))
           /\ \A m \in Universe(dirty, verdicts) :
                 /\ m.id \in Existing /\ m.pub = pub[m.id]
                 /\ m = Member(m.id, verdicts)
           /\ \A r \in Existing : r \in dirty => Member(r, verdicts) \in Universe(dirty, verdicts)
           /\ \A r \in Existing :
                 LET m == Member(r, verdicts)
                 IN  /\ m.id = r /\ m.pub = pub[r]
                     /\ m.strong = content[r].strong /\ m.weak = content[r].weak
                     /\ m.work = content[r].work /\ m.derived = content[r].derived
                     /\ m.year = content[r].year /\ m.founds = content[r].founds
                     /\ m.matchable = content[r].matchable
<1> DEFINE U == Universe(dirty, verdicts)
           members == {Member(r, verdicts) : r \in Existing}
<1>1. ASSUME NEW r \in Existing
      PROVE  LET m == Member(r, verdicts)
             IN  /\ Fields \subseteq DOMAIN m /\ m.id = r /\ m.pub = pub[r]
                 /\ m.strong = content[r].strong /\ m.weak = content[r].weak
                 /\ m.work = content[r].work /\ m.derived = content[r].derived
                 /\ m.year = content[r].year /\ m.founds = content[r].founds
                 /\ m.matchable = content[r].matchable
                 /\ m.strong \subseteq Dois /\ m.weak \subseteq Dois
  <2>1. content[r] \in Contents BY DEF Existing, IInv, TypeOK
  <2>2. /\ Fields \subseteq DOMAIN content[r]
        /\ content[r].strong \subseteq Dois /\ content[r].weak \subseteq Dois
    BY <2>1, ContentsAssumption DEF Fields
  <2> QED BY <2>2 DEF Member, Fields
<1>2. U \subseteq members /\ \A r \in Existing : r \in dirty => Member(r, verdicts) \in U
  BY <1>1 DEF Universe
<1>3. \A m \in U : m.id \in Existing /\ m = Member(m.id, verdicts) BY <1>1, <1>2
<1>4. IsFiniteSet(U)
  <2> DEFINE f == [r \in Existing |-> Member(r, verdicts)]
  <2>1. f \in Surjection(Existing, members) BY DEF Surjection
  <2>2. IsFiniteSet(Existing) BY RecordsAssumption, FS_Subset DEF Existing
  <2>3. IsFiniteSet(members) BY <2>1, <2>2, FS_Surjection
  <2> QED BY <1>2, <2>3, FS_Subset
<1>5. MembersOf(U, Ids(pubs)) BY UniverseOfMembers
<1> HIDE DEF U
<1>6. \A m, n \in U : m.id = n.id => m = n BY <1>3
<1>7. \A m \in U : Fields \subseteq DOMAIN m /\ m.strong \subseteq Dois /\ m.weak \subseteq Dois BY <1>1, <1>3
<1>8. Neighbourhood(U, Ids(pubs)) BY <1>4, <1>5, <1>6, <1>7 DEF Neighbourhood
<1>9. \A m \in U : m.pub = pub[m.id] BY <1>1, <1>3
<1> QED BY <1>1, <1>2, <1>3, <1>8, <1>9 DEF U

(* An application that succeeds is that of a plan of the neighbourhood.    *)
LEMMA AppliedPlan ==
    ASSUME IInv, NEW dirty, NEW verdicts, Apply(dirty, verdicts)
    PROVE  \E plan :
              /\ Planned(Universe(dirty, verdicts), plan) /\ SoundPlan(plan, Ids(pubs))
              /\ \E size : /\ size = [p \in Pubs |-> Cardinality(RecordsOf(pub, p))]
                           /\ \E carrier : plan = Plan(Universe(dirty, verdicts), carrier, size)
              /\ plan.removals = FinalRemovals(Admissible(Universe(dirty, verdicts)))
              /\ ApplyPlan(plan, Attached(plan), RemovedBy(plan, Ids(Universe(dirty, verdicts))), dirty)
<1> DEFINE U == Universe(dirty, verdicts)
           carrier == [d \in Dois |-> Only({x.id : x \in {y \in pubs : y.doi = d}})]
           size == [p \in Pubs |-> Cardinality(RecordsOf(pub, p))]
           plan == Plan(U, carrier, size)
<1>1. ApplyPlan(plan, Attached(plan), RemovedBy(plan, Ids(U)), dirty) BY DEF Apply
<1>2. Neighbourhood(U, Ids(pubs)) /\ \A m \in U : m.pub = pub[m.id] BY UniverseIsNeighbourhood
<1>3. \A d \in Dois : carrier[d] \in Ids(pubs) \cup {None}
  <2> SUFFICES ASSUME NEW d \in Dois PROVE carrier[d] \in Ids(pubs) \cup {None} OBVIOUS
  <2> DEFINE carriers == {x.id : x \in {y \in pubs : y.doi = d}}
  <2>1. carriers \subseteq Ids(pubs) BY DEF Ids
  <2>2. carrier[d] = Only(carriers) OBVIOUS
  <2> HIDE DEF carriers, carrier
  <2> QED BY <2>1, <2>2, OnlyIsMember
<1>4. Ids(pubs) \in SUBSET Pubs BY DEF IInv, TypeOK, Ids
<1> HIDE DEF U, carrier
<1>5. SoundPlan(plan, Ids(pubs)) BY <1>2, <1>3, <1>4, PlanIsSound DEF Neighbourhood
<1>6. plan.removals = FinalRemovals(Admissible(U)) BY PlanUnfolded
<1> HIDE DEF plan
<1>7. created + Cardinality(NewGroups(plan)) <= Cardinality(Pubs) BY <1>1 DEF ApplyPlan
<1>8. Planned(U, plan) BY <1>2, <1>5, <1>7 DEF Planned, SoundPlan, plan
<1> QED BY <1>1, <1>5, <1>6, <1>8 DEF U, plan

(* A record that may found a publication.                                  *)
Founder(r) == content[r].matchable /\ content[r].year /\ content[r].founds

(* An application attaches the records of the neighbourhood that may found *)
(* a publication, and those that had one still have.                       *)
LEMMA FoundersAreAttached ==
    ASSUME IInv, NEW dirty, NEW verdicts, Apply(dirty, verdicts), broken' = "none",
           NEW r \in Existing, Founder(r), r \in Ids(Universe(dirty, verdicts)) \/ pub[r] # None
    PROVE  pub'[r] # None
<1> DEFINE U == Universe(dirty, verdicts)
<1>1. PICK plan :
          /\ Planned(U, plan)
          /\ ApplyPlan(plan, Attached(plan), RemovedBy(plan, Ids(U)), dirty)
  BY AppliedPlan
<1>2. pub' = Attached(plan) BY <1>1 DEF ApplyPlan
<1>3. Neighbourhood(U, Ids(pubs)) BY UniverseIsNeighbourhood
<1>5. CASE r \notin Ids(U)
  <2>1. Attached(plan)[r] = pub[r] BY <1>1, <1>5, AttachedByParts DEF Existing
  <2> QED BY <1>2, <1>5, <2>1 DEF Existing
<1>6. CASE r \in Ids(U)
  <2>1. PICK m \in U : m.id = r BY <1>6 DEF Ids
  <2>2. m.matchable /\ m.year /\ m.founds BY <2>1, UniverseIsNeighbourhood DEF Founder
  <2> DEFINE n == Strip(m, FinalRemovals(Admissible(U)))
  <2>3. n \in Remaining(U) /\ n.id = r /\ n.matchable /\ n.year /\ n.founds
    BY <1>3, <2>1, <2>2, WithoutStrips, StrippedMember DEF Remaining, Neighbourhood
  <2>4. PICK p \in PartsIn(U) : n \in p.members
    BY <1>3, <2>3, PartsShareRecords DEF Split, Admissible
  <2>5. r \in Ids(p.members) BY <2>3, <2>4 DEF Ids
  <2>6. Placed(plan, p, r) BY <1>1, <2>5, AttachedByParts
  <2>7. ~ Unclaimed(plan, p) /\ ~ Discarded(plan, p) BY <2>3, <2>4 DEF Unclaimed, Discarded
  <2>8. Attached(plan)[r] \in Pubs BY <2>6, <2>7 DEF Placed
  <2> QED BY <1>2, <2>8, Identifiers
<1> QED BY <1>5, <1>6

------------------------------------------------------------------------------
(* _unique_doi_partitions                                                  *)

(* A non-empty set of subsets of a finite set has a largest one.           *)
LEMMA LargestSubset ==
    ASSUME NEW X, IsFiniteSet(X), NEW T \in SUBSET SUBSET X, T # {}
    PROVE  \E R \in T : \A Q \in T : R \subseteq Q => Q = R
<1> DEFINE rests == {X \ R : R \in T}
<1>1. rests # {}
  <2>1. PICK R \in T : TRUE OBVIOUS
  <2>2. X \ R \in rests OBVIOUS
  <2> HIDE DEF rests
  <2> QED BY <2>2
<1>2. rests \subseteq FiniteSubsetsOf(X) BY FS_Subset DEF FiniteSubsetsOf
<1>3. PICK Y \in rests : \A Z \in rests : <<Z, Y>> \notin StrictSubsetOrdering(X)
  <2>1. IsWellFoundedOn(StrictSubsetOrdering(X), FiniteSubsetsOf(X))
    BY FS_StrictSubsetOrderingWellFounded
  <2> HIDE DEF rests
  <2> QED BY <1>1, <1>2, <2>1, WFMin
<1>4. PICK R \in T : Y = X \ R OBVIOUS
<1>5. ASSUME NEW Q \in T, R \subseteq Q, Q # R PROVE FALSE
  <2>1. X \ Q \in rests OBVIOUS
  <2>2. (X \ Q) \subseteq Y /\ X \ Q # Y BY <1>4, <1>5
  <2>3. <<X \ Q, Y>> \in StrictSubsetOrdering(X) BY <2>2 DEF StrictSubsetOrdering
  <2> QED BY <1>3, <2>1, <2>3
<1> QED BY <1>4, <1>5

(* What one more round removes, once the pairs of R are.                   *)
More(S, R) == SharedRemovals(Partitions(Without(S, R)))

(* The parts that have a DOI, its records in a strong role, and the parts  *)
(* that lose it when it is shared.                                         *)
Holders(parts, d) == {p \in parts : With(p, d) # {}}
StrongOf(parts, d) == {m \in UNION {p.members : p \in Holders(parts, d)} : d \in m.strong}
Losers(parts, d) ==
    {p \in Holders(parts, d) :
        StrongOf(parts, d) = {} \/ Smallest(StrongOf(parts, d)) \notin p.members}

LEMMA SharedRemovalsAre ==
    ASSUME NEW parts, NEW x
    PROVE  x \in SharedRemovals(parts) <=>
               \E d \in Dois : /\ ~ (Cardinality(Holders(parts, d)) < 2)
                              /\ \E p \in Losers(parts, d) : \E m \in With(p, d) : x = <<m.id, d>>
<1> DEFINE all(d) == UNION {With(p, d) : p \in Losers(parts, d)}
           lost(d) == IF Cardinality(Holders(parts, d)) < 2 THEN {} ELSE {<<m.id, d>> : m \in all(d)}
<1>1. SharedRemovals(parts) = UNION {lost(d) : d \in Dois}
  BY DEF SharedRemovals, Holders, StrongOf, Losers
<1>2. \A d : x \in lost(d) <=>
               /\ ~ (Cardinality(Holders(parts, d)) < 2)
               /\ \E p \in Losers(parts, d) : \E m \in With(p, d) : x = <<m.id, d>>
  <2> SUFFICES ASSUME NEW d
               PROVE  x \in lost(d) <=>
                          /\ ~ (Cardinality(Holders(parts, d)) < 2)
                          /\ \E p \in Losers(parts, d) : \E m \in With(p, d) : x = <<m.id, d>>
    OBVIOUS
  <2>1. \A m : m \in all(d) <=> \E p \in Losers(parts, d) : m \in With(p, d) OBVIOUS
  <2> HIDE DEF all
  <2>2. x \in {<<m.id, d>> : m \in all(d)} <=> \E m \in all(d) : x = <<m.id, d>> OBVIOUS
  <2> QED BY <2>1, <2>2
<1> HIDE DEF lost
<1> QED BY <1>1, <1>2

(* A round removes DOIs that are still there.                              *)
LEMMA MoreIsNew ==
    ASSUME NEW S, NEW P, Neighbourhood(S, P), NEW R
    PROVE  More(S, R) \subseteq (Ids(S) \X Dois) \ R
<1> SUFFICES ASSUME NEW x \in More(S, R) PROVE x \in (Ids(S) \X Dois) /\ x \notin R OBVIOUS
<1>1. PICK d \in Dois, p \in Partitions(Without(S, R)) :
          \E n \in p.members : d \in DoisOf(n) /\ x = <<n.id, d>>
  <2>1. PICK d \in Dois : \E p \in Losers(Partitions(Without(S, R)), d) :
                             \E m \in With(p, d) : x = <<m.id, d>>
    BY SharedRemovalsAre DEF More
  <2>2. PICK p \in Losers(Partitions(Without(S, R)), d) : \E m \in With(p, d) : x = <<m.id, d>>
    BY <2>1
  <2>3. p \in Partitions(Without(S, R)) BY <2>2 DEF Losers, Holders
  <2> QED BY <2>2, <2>3 DEF With
<1>2. PICK n \in p.members : d \in DoisOf(n) /\ x = <<n.id, d>> BY <1>1
<1>3. n \in Without(S, R) BY PartitionsAreParts DEF PartsOf
<1>4. PICK m \in S : n = Strip(m, R) BY <1>3, WithoutStrips
<1>5. n.id = m.id /\ n.strong = m.strong \ Lost(m, R) /\ n.weak = m.weak \ Lost(m, R)
  BY <1>4, StrippedMember DEF Neighbourhood
<1>6. <<m.id, d>> \notin R BY <1>2, <1>5 DEF DoisOf, Lost
<1> QED BY <1>2, <1>5, <1>6 DEF Ids

(* The removals are those of a series of rounds, until one removes nothing.*)
LEMMA RemovalsSettle ==
    ASSUME NEW S, NEW P, Neighbourhood(S, P)
    PROVE  /\ More(S, FinalRemovals(S)) = {}
           /\ FinalRemovals(S) \subseteq Ids(S) \X Dois
           /\ \A T \in SUBSET SUBSET (Ids(S) \X Dois) :
                 ({} \in T /\ \A R \in T : R \cup More(S, R) \in T) => FinalRemovals(S) \in T
<1> DEFINE X == Ids(S) \X Dois
           D == SUBSET X
           Rounds == {T \in SUBSET D : \A R \in T : R \cup More(S, R) \in T}
           After(R) == {Q \in D : \A T \in Rounds : R \in T => Q \in T}
           Ends(R) == {Q \in After(R) : More(S, Q) = {}}
           F == [R \in D |-> CHOOSE Q : Q \in Ends(R)]
           Settles(g) == g = [R \in D |-> IF More(S, R) = {} THEN R ELSE g[R \cup More(S, R)]]
<1>1. IsFiniteSet(X)
  <2>1. IsFiniteSet(Ids(S)) BY IdsAreFinite DEF Neighbourhood
  <2> QED BY <2>1, DoisAssumption, FS_Product
<1>2. \A R : More(S, R) \subseteq X \ R BY MoreIsNew
<1>3. D \in Rounds BY <1>2
<1>4. \A T : T \in Rounds <=> T \in SUBSET D /\ \A R \in T : R \cup More(S, R) \in T OBVIOUS
<1> HIDE DEF Rounds
<1>5. \A R, Q : Q \in After(R) <=> Q \in D /\ \A T \in Rounds : R \in T => Q \in T OBVIOUS
<1>6. \A R, Q : Q \in Ends(R) <=> Q \in After(R) /\ More(S, Q) = {} OBVIOUS
<1> HIDE DEF X, After, Ends
<1>7. \A R \in D : R \in After(R) BY <1>5
<1>8. ASSUME NEW R \in D, NEW Q \in After(R) PROVE Q \cup More(S, Q) \in After(R)
  <2>1. Q \in D /\ Q \cup More(S, Q) \in D BY <1>2, <1>5
  <2>2. ASSUME NEW T \in Rounds, R \in T PROVE Q \cup More(S, Q) \in T
    <3>1. Q \in T BY <1>5, <2>2
    <3> QED BY <1>4, <3>1
  <2> QED BY <1>5, <2>1, <2>2
<1>9. ASSUME NEW R \in D PROVE After(R) = {R} \cup After(R \cup More(S, R))
  <2>1. R \cup More(S, R) \in After(R) BY <1>7, <1>8
  <2>2. After(R \cup More(S, R)) \subseteq After(R) BY <1>5, <2>1
  <2>3. ASSUME NEW Q \in After(R), Q # R PROVE Q \in After(R \cup More(S, R))
    <3>1. ASSUME NEW T \in Rounds, R \cup More(S, R) \in T PROVE Q \in T
      <4>1. T \cup {R} \in Rounds BY <1>4, <3>1
      <4>2. Q \in T \cup {R} BY <1>5, <4>1
      <4> QED BY <2>3, <4>2
    <3> QED BY <1>5, <3>1
  <2> QED BY <1>7, <2>2, <2>3
<1>10. ASSUME NEW R \in D PROVE Ends(R) # {}
  <2>1. After(R) \in SUBSET SUBSET X /\ After(R) # {} BY <1>5, <1>7
  <2>2. PICK Q \in After(R) : \A U \in After(R) : Q \subseteq U => U = Q
    BY <1>1, <2>1, LargestSubset
  <2>3. Q \cup More(S, Q) \in After(R) BY <1>8
  <2>4. Q \cup More(S, Q) = Q BY <2>2, <2>3
  <2>5. More(S, Q) \cap Q = {} BY <1>2
  <2>6. More(S, Q) = {} BY <2>4, <2>5
  <2> QED BY <1>6, <2>6
<1>11. ASSUME NEW R \in D, More(S, R) # {} PROVE Ends(R) = Ends(R \cup More(S, R))
  <2>1. \A Q : Q \in Ends(R) <=> Q \in Ends(R \cup More(S, R)) BY <1>6, <1>9, <1>11
  <2>2. Ends(R) \subseteq D /\ Ends(R \cup More(S, R)) \subseteq D BY <1>5, <1>6
  <2> QED BY <2>1, <2>2
<1>12. ASSUME NEW R \in D, More(S, R) = {} PROVE Ends(R) = {R}
  <2>1. \A Q \in {R} : Q \cup More(S, Q) \in {R} BY <1>12
  <2>2. {R} \in Rounds BY <1>4, <2>1
  <2>3. \A Q \in After(R) : Q = R BY <1>5, <2>2
  <2> QED BY <1>6, <1>7, <1>12, <2>3
<1>13. Settles(F)
  <2>1. \A R \in D : F[R] = IF More(S, R) = {} THEN R ELSE F[R \cup More(S, R)]
    <3> SUFFICES ASSUME NEW R \in D
                 PROVE  F[R] = IF More(S, R) = {} THEN R ELSE F[R \cup More(S, R)]
      OBVIOUS
    <3>1. R \cup More(S, R) \in D BY <1>2
    <3>2. CASE More(S, R) = {}
      <4>1. Ends(R) = {R} BY <1>12, <3>2
      <4>2. F[R] = R BY <4>1
      <4> QED BY <3>2, <4>2
    <3>3. CASE More(S, R) # {}
      <4>1. Ends(R) = Ends(R \cup More(S, R)) BY <1>11, <3>3
      <4>2. F[R] = F[R \cup More(S, R)] BY <3>1, <4>1
      <4> QED BY <3>3, <4>2
    <3> QED BY <3>2, <3>3
  <2> HIDE DEF F
  <2>2. DOMAIN F = D /\ F = [R \in D |-> F[R]] BY DEF F
  <2> QED BY <2>1, <2>2
<1> HIDE DEF F
<1> DEFINE settle == CHOOSE g : Settles(g)
<1>14. Settles(settle) BY <1>13
<1>15. FinalRemovals(S) = settle[{}]
  BY DEF FinalRemovals, More, X
<1> HIDE DEF settle
<1>16. \A R \in D : settle[R] = IF More(S, R) = {} THEN R ELSE settle[R \cup More(S, R)]
  BY <1>14
<1>17. \A R \in D : settle[R] \in After(R) /\ More(S, settle[R]) = {}
  <2> DEFINE bad == {R \in D : ~ (settle[R] \in After(R) /\ More(S, settle[R]) = {})}
  <2> SUFFICES ASSUME bad # {} PROVE FALSE OBVIOUS
  <2>1. bad \in SUBSET SUBSET X OBVIOUS
  <2>2. PICK R \in bad : \A Q \in bad : R \subseteq Q => Q = R
    <3> HIDE DEF bad
    <3> QED BY <1>1, <2>1, LargestSubset
  <2>3. More(S, R) # {} BY <1>7, <1>16
  <2>4. R \cup More(S, R) \in D /\ R \cup More(S, R) # R BY <1>2, <2>3
  <2>5. R \cup More(S, R) \notin bad BY <2>2, <2>4
  <2>6. settle[R] = settle[R \cup More(S, R)] BY <1>16, <2>3
  <2> QED BY <1>9, <2>2, <2>4, <2>5, <2>6
<1>18. {} \in D OBVIOUS
<1>19. settle[{}] \in After({}) /\ More(S, settle[{}]) = {} BY <1>17, <1>18
<1>20. ASSUME NEW T \in SUBSET D, {} \in T, \A R \in T : R \cup More(S, R) \in T
       PROVE  settle[{}] \in T
  <2>1. T \in Rounds BY <1>4, <1>20
  <2> QED BY <1>5, <1>19, <1>20, <2>1
<1>21. settle[{}] \in D BY <1>5, <1>19
<1> QED BY <1>15, <1>19, <1>20, <1>21 DEF X

(* No more parts than records.                                             *)
LEMMA PartsAreFinite ==
    ASSUME NEW S, IsFiniteSet(S), NEW parts, Split(parts, S)
    PROVE  IsFiniteSet(parts)
<1> DEFINE f == [m \in S |-> CHOOSE p \in parts : m \in p.members]
<1>1. \A m \in S : f[m] \in parts /\ m \in f[m].members BY DEF Split
<1> HIDE DEF f
<1>2. ASSUME NEW p \in parts PROVE \E m \in S : f[m] = p
  <2>1. PICK m \in p.members : TRUE BY DEF Split, PartsOf
  <2>2. m \in S BY <2>1 DEF Split, PartsOf
  <2> QED BY <1>1, <2>1, <2>2 DEF Split
<1>3. DOMAIN f = S /\ f = [m \in S |-> f[m]] BY DEF f
<1>4. f \in Surjection(S, parts) BY <1>1, <1>2, <1>3 DEF Surjection
<1> QED BY <1>4, FS_Surjection

LEMMA TwoElements ==
    ASSUME NEW X, IsFiniteSet(X), NEW x \in X, NEW y \in X, x # y
    PROVE  ~ (Cardinality(X) < 2)
<1>1. Cardinality({x, y}) = 2 /\ IsFiniteSet({x, y})
  <2>1. IsFiniteSet({x}) /\ Cardinality({x}) = 1 BY FS_Singleton
  <2>2. {x, y} = {x} \cup {y} OBVIOUS
  <2> QED BY <2>1, <2>2, FS_AddElement
<1>2. Cardinality({x, y}) <= Cardinality(X) /\ Cardinality(X) \in Nat
  BY FS_Subset, FS_CardinalityType
<1> QED BY <1>1, <1>2

(* When a round removes nothing, a DOI is that of one part.                *)
LEMMA NothingShared ==
    ASSUME NEW S, IsFiniteSet(S), NEW parts, Split(parts, S), SharedRemovals(parts) = {},
           NEW d \in Dois, NEW p \in parts, NEW q \in parts, With(p, d) # {}, With(q, d) # {}
    PROVE  p = q
<1> SUFFICES ASSUME p # q PROVE FALSE OBVIOUS
<1>1. p \in Holders(parts, d) /\ q \in Holders(parts, d) BY DEF Holders
<1>2. IsFiniteSet(Holders(parts, d)) BY PartsAreFinite, FS_Subset DEF Holders
<1>3. ~ (Cardinality(Holders(parts, d)) < 2) BY <1>1, <1>2, TwoElements
<1>4. ASSUME NEW l \in Losers(parts, d) PROVE FALSE
  <2>1. With(l, d) # {} BY DEF Losers, Holders
  <2>2. PICK m \in With(l, d) : TRUE BY <2>1
  <2> DEFINE x == <<m.id, d>>
  <2>3. \E k \in With(l, d) : x = <<k.id, d>> OBVIOUS
  <2> HIDE DEF x
  <2>4. x \in SharedRemovals(parts) BY <1>3, <2>3, SharedRemovalsAre
  <2> QED BY <2>4
<1>5. Smallest(StrongOf(parts, d)) \in p.members /\ Smallest(StrongOf(parts, d)) \in q.members
  BY <1>1, <1>4 DEF Losers
<1> QED BY <1>5 DEF Split

(* A round leaves a DOI to one of the records that have it in a strong     *)
(* role.                                                                   *)
LEMMA StrongKept ==
    ASSUME NEW S, NEW P, Neighbourhood(S, P), NEW m \in S, NEW d \in m.strong
    PROVE  \E n \in S : d \in n.strong /\ <<n.id, d>> \notin FinalRemovals(S)
<1> DEFINE X == Ids(S) \X Dois
           kept(R) == \E n \in S : d \in n.strong /\ <<n.id, d>> \notin R
           T == {R \in SUBSET X : kept(R)}
<1>1. {} \in T OBVIOUS
<1>2. ASSUME NEW R \in T PROVE R \cup More(S, R) \in T
  <2> DEFINE parts == Partitions(Without(S, R))
  <2>1. PICK n \in S : d \in n.strong /\ <<n.id, d>> \notin R OBVIOUS
  <2>2. d \in Dois BY <2>1 DEF Neighbourhood
  <2>3. R \cup More(S, R) \in SUBSET X BY MoreIsNew
  <2>4. Neighbourhood(Without(S, R), P) BY WithoutIsNeighbourhood
  <2>5. Split(parts, Without(S, R)) BY <2>4, PartitionsSplit DEF Neighbourhood
  <2>6. More(S, R) = SharedRemovals(parts) BY DEF More
  <2>7. \A k \in S : Strip(k, R) \in Without(S, R) /\ Strip(k, R).id = k.id
                     /\ Strip(k, R).strong = k.strong \ Lost(k, R)
    BY WithoutStrips, StrippedMember DEF Neighbourhood
  <2> HIDE DEF parts, X
  <2>8. CASE Cardinality(Holders(parts, d)) < 2
    <3>1. <<n.id, d>> \notin More(S, R)
      <4> SUFFICES ASSUME <<n.id, d>> \in More(S, R) PROVE FALSE OBVIOUS
      <4>1. PICK e \in Dois : /\ ~ (Cardinality(Holders(parts, e)) < 2)
                              /\ \E p \in Losers(parts, e) : \E k \in With(p, e) : <<n.id, d>> = <<k.id, e>>
        BY <2>6, SharedRemovalsAre
      <4>2. e = d BY <4>1
      <4> QED BY <2>8, <4>1, <4>2
    <3> QED BY <2>1, <2>3, <3>1
  <2>9. CASE ~ (Cardinality(Holders(parts, d)) < 2)
    <3> DEFINE strong == StrongOf(parts, d)
               w == Smallest(strong)
    <3>1. Strip(n, R) \in strong
      <4>1. d \in Strip(n, R).strong BY <2>1, <2>2, <2>7 DEF Lost
      <4>2. PICK p \in parts : Strip(n, R) \in p.members BY <2>5, <2>7 DEF Split
      <4>3. p \in Holders(parts, d) BY <4>1, <4>2 DEF Holders, With, DoisOf
      <4> QED BY <4>1, <4>2, <4>3 DEF StrongOf
    <3>2. \A k \in strong : k \in Without(S, R) /\ k.id \in Nat /\ d \in k.strong
      <4>1. \A k \in strong : k \in Without(S, R) /\ d \in k.strong
        BY <2>5 DEF StrongOf, Holders, Split, PartsOf
      <4> QED BY <2>4, <4>1, Identifiers DEF Neighbourhood, MembersOf
    <3>3. w \in strong
      <4> HIDE DEF strong
      <4> QED BY <3>1, <3>2, SmallestIsMember
    <3>4. PICK k \in S : w = Strip(k, R) BY <3>2, <3>3, WithoutStrips
    <3>5. d \in k.strong /\ <<k.id, d>> \notin R /\ w.id = k.id
      <4> HIDE DEF w, strong
      <4> QED BY <2>2, <2>7, <3>2, <3>3, <3>4 DEF Lost
    <3>6. <<k.id, d>> \notin More(S, R)
      <4> SUFFICES ASSUME <<k.id, d>> \in More(S, R) PROVE FALSE OBVIOUS
      <4>1. PICK e \in Dois : \E p \in Losers(parts, e) : \E l \in With(p, e) : <<k.id, d>> = <<l.id, e>>
        BY <2>6, SharedRemovalsAre
      <4>2. PICK p \in Losers(parts, d) : \E o \in With(p, d) : o.id = k.id BY <4>1
      <4>7. PICK l \in With(p, d) : l.id = k.id BY <4>2
      <4>3. p \in parts /\ w \notin p.members BY <3>1, <4>2 DEF Losers, Holders
      <4>4. l \in p.members BY <4>7 DEF With
      <4>5. l \in Without(S, R) BY <2>5, <4>3, <4>4 DEF Split, PartsOf
      <4>6. l = w
        <5>1. w \in Without(S, R) BY <3>2, <3>3
        <5> HIDE DEF w
        <5> QED BY <2>4, <3>5, <4>7, <4>5, <5>1 DEF Neighbourhood
      <4> QED BY <4>3, <4>4, <4>6
    <3> HIDE DEF w, strong
    <3> QED BY <2>3, <3>5, <3>6
  <2> QED BY <2>8, <2>9
<1>3. T \in SUBSET SUBSET X OBVIOUS
<1>4. FinalRemovals(S) \in T
  <2> HIDE DEF T
  <2> QED BY <1>1, <1>2, <1>3, RemovalsSettle
<1> QED BY <1>4

------------------------------------------------------------------------------
(* A reconciliation of the whole stock                                     *)

(* Removals leave who takes part.                                          *)
LEMMA AdmissibleStripped ==
    ASSUME NEW S, NEW P, NEW R, Neighbourhood(S, P)
    PROVE  Admissible(Without(S, R)) = Without(Admissible(S), R)
<1>1. Without(S, R) = {Strip(m, R) : m \in S} BY WithoutStrips
<1>2. Without(Admissible(S), R) = {Strip(m, R) : m \in Admissible(S)} BY WithoutStrips
<1>3. \A m \in S : Strip(m, R).matchable = m.matchable BY StrippedMember DEF Neighbourhood
<1> QED BY <1>1, <1>2, <1>3 DEF Admissible

(* Only a record has a publication.                                        *)
OnlyRecordsArePublished == \A r \in Records : content[r] = None => pub[r] = None

(* The whole stock, and what a plan of it removes and attaches.            *)
Rebuilt(U, plan) ==
    /\ U = Universe(Existing, merges) /\ Planned(U, plan)
    /\ \A r \in Existing : removed'[r] = {d \in Dois : <<r, d>> \in FinalRemovals(Admissible(U))}
    /\ content' = content /\ pub' = Attached(plan)
    /\ ApplyPlan(plan, Attached(plan), RemovedBy(plan, Ids(U)), Existing)
    /\ removed' = RemovedBy(plan, Ids(U))

(* A rebuild applies a plan of the whole stock.                            *)
LEMMA RebuildIsPlanned ==
    ASSUME IInv, Rebuild, broken' = "none"
    PROVE  \E U, plan : Rebuilt(U, plan)
<1> DEFINE U == Universe(Existing, merges)
<1>1. Apply(Existing, merges) /\ content' = content BY DEF Rebuild
<1>2. PICK plan :
          /\ Planned(U, plan) /\ plan.removals = FinalRemovals(Admissible(U))
          /\ ApplyPlan(plan, Attached(plan), RemovedBy(plan, Ids(U)), Existing)
  BY <1>1, AppliedPlan
<1>3. pub' = Attached(plan) /\ removed' = RemovedBy(plan, Ids(U)) BY <1>2 DEF ApplyPlan
<1>4. ASSUME NEW r \in Existing PROVE r \in Ids(U) /\ r \in Records
  <2>1. Member(r, merges) \in U /\ Member(r, merges).id = r BY UniverseIsNeighbourhood
  <2> HIDE DEF U
  <2> QED BY <2>1 DEF Ids, Existing
<1> HIDE DEF U
<1>5. \A r \in Existing : removed'[r] = {d \in Dois : <<r, d>> \in FinalRemovals(Admissible(U))}
  BY <1>2, <1>3, <1>4 DEF RemovedBy
<1> QED BY <1>1, <1>2, <1>3, <1>5 DEF Rebuilt, U

(* A record that takes part, as the parts of the plan see it.              *)
SeenAs(n, r) ==
    /\ n.id = r /\ n.work = content[r].work /\ n.derived = content[r].derived
    /\ n.strong = content[r].strong \ removed'[r]
    /\ n.weak = content[r].weak \ removed'[r]

(* Each record that takes part is in a part, without its removed DOIs.     *)
LEMMA RebuiltMember ==
    ASSUME IInv, NEW U, NEW plan, Rebuilt(U, plan), NEW r \in Existing
    PROVE  /\ content[r].matchable =>
                 \E p \in PartsIn(U) : r \in Ids(p.members) /\ \E n \in p.members : SeenAs(n, r)
           /\ ~ content[r].matchable => pub'[r] = None
           /\ content[r].matchable => Member(r, merges) \in Admissible(U)
<1> DEFINE m == Member(r, merges)
           FR == FinalRemovals(Admissible(U))
           n == Strip(m, FR)
<1>1. Neighbourhood(U, Ids(pubs)) BY UniverseIsNeighbourhood DEF Rebuilt
<1>2. /\ m \in U /\ m.id = r /\ m.strong = content[r].strong /\ m.weak = content[r].weak
      /\ m.work = content[r].work /\ m.derived = content[r].derived
      /\ m.matchable = content[r].matchable
  BY UniverseIsNeighbourhood DEF Rebuilt
<1> HIDE DEF m
<1>3. Lost(m, FR) = removed'[r] BY <1>2 DEF Rebuilt, Lost
<1>4. n \in Remaining(U) /\ SeenAs(n, r) /\ n.matchable = m.matchable
  BY <1>1, <1>2, <1>3, WithoutStrips, StrippedMember DEF Remaining, SeenAs, Neighbourhood
<1> HIDE DEF n
<1>5. ASSUME content[r].matchable
      PROVE  \E p \in PartsIn(U) : r \in Ids(p.members) /\ \E k \in p.members : SeenAs(k, r)
  <2>1. n \in Admissible(Remaining(U)) BY <1>2, <1>4, <1>5 DEF Admissible
  <2>2. PICK p \in PartsIn(U) : n \in p.members BY <1>1, <2>1, PartsShareRecords DEF Split
  <2>3. r \in Ids(p.members) BY <1>4, <2>2 DEF SeenAs, Ids
  <2> QED BY <1>4, <2>2, <2>3
<1>6. ASSUME ~ content[r].matchable PROVE pub'[r] = None
  <2>1. r \in Ids(U) BY <1>2 DEF Ids
  <2>2. r \notin Ids(Admissible(U)) BY <1>1, <1>2, <1>6 DEF Ids, Admissible, Neighbourhood
  <2> QED BY <2>1, <2>2, AttachedByParts DEF Rebuilt
<1>7. content[r].matchable => m \in Admissible(U) BY <1>2 DEF Admissible
<1> QED BY <1>5, <1>6, <1>7 DEF m

(* After a rebuild the records of one DOI have one publication: its        *)
(* removals have settled, so that no two parts share a DOI.                *)
LEMMA RebuildUnitesDois ==
    ASSUME IInv, NEW U, NEW plan, Rebuilt(U, plan)
    PROVE  OneDoiOnePublication'
<1> SUFFICES ASSUME NEW r \in Existing, NEW s \in Existing,
                    content[r].matchable, content[s].matchable,
                    (ActiveDois(r) \cap ActiveDois(s) # {})'
             PROVE  pub'[r] = pub'[s]
  BY DEF OneDoiOnePublication, Existing, Rebuilt
<1>1. PICK d : d \in (ActiveDois(r))' /\ d \in (ActiveDois(s))' OBVIOUS
<1>2. /\ d \in (content[r].strong \ removed'[r]) \cup (content[r].weak \ removed'[r])
      /\ d \in (content[s].strong \ removed'[s]) \cup (content[s].weak \ removed'[s])
  BY <1>1 DEF ActiveDois, ActiveRecord, DoisOf, Rebuilt
<1>3. PICK p \in PartsIn(U) : r \in Ids(p.members) /\ \E n \in p.members : SeenAs(n, r)
  BY RebuiltMember
<1>4. PICK q \in PartsIn(U) : s \in Ids(q.members) /\ \E n \in q.members : SeenAs(n, s)
  BY RebuiltMember
<1>5. With(p, d) # {} /\ With(q, d) # {} BY <1>2, <1>3, <1>4 DEF With, SeenAs, DoisOf
<1>6. d \in Dois
  <2>1. content[r] \in Contents BY DEF Existing, IInv, TypeOK
  <2> QED BY <1>2, <2>1, ContentsAssumption
<1>7. Neighbourhood(U, Ids(pubs)) /\ Planned(U, plan) BY DEF Rebuilt, Planned
<1>8. Admissible(U) \subseteq U BY DEF Admissible
<1>9. Neighbourhood(Admissible(U), Ids(pubs)) BY <1>7, <1>8, SubsetIsNeighbourhood
<1>10. SharedRemovals(PartsIn(U)) = {}
  BY <1>7, <1>9, RemovalsSettle, AdmissibleStripped DEF More, PartsIn, Remaining
<1>11. Split(PartsIn(U), Admissible(Remaining(U))) /\ IsFiniteSet(Admissible(Remaining(U)))
  BY <1>7, PartsShareRecords, FS_Subset DEF Neighbourhood, Admissible
<1>12. p = q BY <1>5, <1>6, <1>10, <1>11, NothingShared
<1> QED BY <1>3, <1>4, <1>7, <1>12, PublicationsFollowParts DEF Rebuilt

(* After a rebuild the records of one publication agree on their anchor.   *)
LEMMA RebuildSeparates ==
    ASSUME IInv, NEW U, NEW plan, Rebuilt(U, plan)
    PROVE  AnchorsApart'
<1> DEFINE Own(r) == IF content[r].work THEN r ELSE Only(content[r].strong \ (Deposits \cup removed'[r]))
<1> SUFFICES ASSUME NEW r \in Existing, NEW s \in Existing,
                    content[r].derived = None, content[s].derived = None,
                    pub'[r] # None, pub'[r] = pub'[s], Own(r) # None, Own(s) # None
             PROVE  Own(r) = Own(s)
  <2>1. content' = content BY DEF Rebuilt
  <2>2. AnchorsApart' <=> \A r, s \in {t \in Existing : content[t].derived = None /\ pub'[t] # None} :
                             pub'[r] = pub'[s] /\ Own(r) # None /\ Own(s) # None => Own(r) = Own(s)
    BY <2>1 DEF AnchorsApart, Existing
  <2> HIDE DEF Own
  <2> QED BY <2>2
<1>1. content[r].matchable /\ content[s].matchable BY RebuiltMember
<1>2. PICK p \in PartsIn(U) : r \in Ids(p.members) /\ \E n \in p.members : SeenAs(n, r)
  BY <1>1, RebuiltMember
<1>3. PICK q \in PartsIn(U) : s \in Ids(q.members) /\ \E n \in q.members : SeenAs(n, s)
  BY <1>1, RebuiltMember
<1>4. p = q BY <1>2, <1>3, PublicationsFollowParts DEF Rebuilt
<1>5. PICK n \in p.members : SeenAs(n, r) BY <1>2
<1>6. PICK k \in p.members : SeenAs(k, s) BY <1>3, <1>4
<1>7. Separator(n) = Own(r) /\ n.derived = None
  <2>1. n.strong \ Deposits = content[r].strong \ (Deposits \cup removed'[r]) BY <1>5 DEF SeenAs
  <2> QED BY <1>5, <2>1 DEF SeenAs, Separator
<1>8. Separator(k) = Own(s) /\ k.derived = None
  <2>1. k.strong \ Deposits = content[s].strong \ (Deposits \cup removed'[s]) BY <1>6 DEF SeenAs
  <2> QED BY <1>6, <2>1 DEF SeenAs, Separator
<1> DEFINE A == Admissible(Remaining(U))
<1>9. Neighbourhood(U, Ids(pubs)) BY DEF Rebuilt, Planned
<1>10. IsFiniteSet(A) /\ \A m \in A : m.strong \subseteq Dois
  BY <1>9, PartsShareRecords, FS_Subset DEF Neighbourhood, Admissible
<1>11. p \in Partitions(A) BY DEF PartsIn
<1> HIDE DEF A, Own
<1> QED BY <1>5, <1>6, <1>7, <1>8, <1>10, <1>11, SeparatorsAgree

(* A rebuild takes no DOI from all its strong records.                     *)
LEMMA RebuildKeepsStrongDois ==
    ASSUME IInv, NEW U, NEW plan, Rebuilt(U, plan)
    PROVE  StrongDoisAreKept'
<1> SUFFICES ASSUME NEW r \in Existing, content[r].matchable, NEW d \in content[r].strong
             PROVE  \E s \in Existing : d \in content[s].strong \ removed'[s]
  BY DEF StrongDoisAreKept, Existing, Rebuilt
<1>1. Neighbourhood(U, Ids(pubs)) BY DEF Rebuilt, Planned
<1>2. Admissible(U) \subseteq U BY DEF Admissible
<1>3. Neighbourhood(Admissible(U), Ids(pubs)) BY <1>1, <1>2, SubsetIsNeighbourhood
<1>4. Member(r, merges) \in Admissible(U) BY RebuiltMember
<1>5. d \in Member(r, merges).strong BY UniverseIsNeighbourhood
<1>6. PICK n \in Admissible(U) : d \in n.strong /\ <<n.id, d>> \notin FinalRemovals(Admissible(U))
  BY <1>3, <1>4, <1>5, StrongKept
<1>7. n.id \in Existing /\ n.strong = content[n.id].strong
  BY <1>2, UniverseIsNeighbourhood DEF Rebuilt
<1>8. d \notin removed'[n.id] BY <1>6, <1>7 DEF Rebuilt
<1> QED BY <1>6, <1>7, <1>8

(* PublicationDoi, for the source records c.                               *)
DoiAmong(c, records, out) ==
    LET S == {[id |-> r, strong |-> c[r].strong \ out[r], weak |-> c[r].weak \ out[r]] : r \in records}
        candidates == IF DoiAnchors(S) # {} THEN DoiAnchors(S) ELSE DepositAnchors(S)
        joining == {m \in S : AnchorOf(m, candidates) # None}
        first == CHOOSE m \in joining : \A n \in joining : Rank[m.id] <= Rank[n.id]
    IN  IF Cardinality(candidates) = 1 THEN Only(candidates)
        ELSE IF joining = {} THEN None ELSE AnchorOf(first, candidates)

(* A rebuild that succeeds recomputes the DOI of each publication that     *)
(* keeps records.                                                          *)
LEMMA RebuildDatesDois ==
    ASSUME IInv, OnlyRecordsArePublished, NEW U, NEW plan, Rebuilt(U, plan), TypeOK',
           broken' = "none"
    PROVE  DoiIsThatOfItsRecords'
<1> DEFINE attached == Attached(plan)
           out == RemovedBy(plan, Ids(U))
           survivors == {Target(plan, g) : g \in plan.groups}
           gone == {e[1] : e \in plan.dissolved}
           left == ({pub[r] : r \in plan.detached} \ {None}) \ (survivors \cup gone)
           founded == {[id |-> Target(plan, g), doi |-> g.doi] : g \in NewGroups(plan)}
           again == Recomputed(Existing, attached, survivors) \ gone
           end == Rewritten(pubs \cup founded, left, gone, again, attached, out)
           dissolved == Deleted(Refreshed(pubs \cup founded, left, attached, out), gone)
<1>1. pubs' = end.rows BY DEF Rebuilt, ApplyPlan
<1>2. end.rows = Refreshed(dissolved, again, attached, out) BY DEF Rewritten
<1> HIDE DEF end
<1>3. content' = content /\ pub' = attached /\ removed' = out BY DEF Rebuilt
<1>4. ASSUME NEW row \in pubs', RecordsOf(attached, row.id) # {}, row.id # None
      PROVE  row.doi = PublicationDoi(RecordsOf(attached, row.id), out)
  <2>1. row \in Refreshed(dissolved, again, attached, out) BY <1>1, <1>2
  <2>2. \A x \in dissolved : x.id \notin gone BY DEF Deleted
  <2> HIDE DEF dissolved
  <2>3. CASE row \in dissolved /\ row.id \notin again
    <3>1. PICK r \in Records : attached[r] = row.id BY <1>4 DEF RecordsOf
    <3>2. r \in Existing
      <4> SUFFICES ASSUME r \notin Existing PROVE FALSE OBVIOUS
      <4>1. \A m \in U : m.id \in Existing BY UniverseIsNeighbourhood DEF Rebuilt
      <4>3. r \notin Ids(U) BY <4>1 DEF Ids
      <4>2. attached[r] = pub[r] BY <4>3, AttachedByParts DEF Rebuilt
      <4> QED BY <1>4, <3>1, <4>2 DEF OnlyRecordsArePublished, Existing
    <3>3. attached[r] \in Recomputed(Existing, attached, survivors)
      <4> HIDE DEF attached, survivors
      <4> QED BY <1>4, <3>1, <3>2 DEF Recomputed
    <3>4. row.id \notin gone BY <2>2, <2>3
    <3> HIDE DEF attached, survivors, gone
    <3> QED BY <2>3, <3>1, <3>3, <3>4
  <2>4. CASE \E x \in dissolved : row = [x EXCEPT !.doi = PublicationDoi(RecordsOf(attached, x.id), out)]
    <3>1. PICK x \in dissolved : row = [x EXCEPT !.doi = PublicationDoi(RecordsOf(attached, x.id), out)]
      BY <2>4
    <3> QED BY <3>1
  <2> QED BY <2>1, <2>3, <2>4 DEF Refreshed
<1>5. \A S : PublicationDoi(S, out) = DoiAmong(content, S, out)
  BY DEF PublicationDoi, ActiveRecord, DoiAmong
<1>6. DoiIsThatOfItsRecords' <=>
          \A row \in pubs' : RecordsOf(pub', row.id) # {} =>
              row.doi = DoiAmong(content', RecordsOf(pub', row.id), removed')
  BY DEF DoiIsThatOfItsRecords, PublicationDoi, ActiveRecord, DoiAmong
<1>7. \A row \in pubs' : row.id # None BY Identifiers DEF TypeOK
<1> HIDE DEF attached, out
<1> QED BY <1>3, <1>4, <1>5, <1>6, <1>7

------------------------------------------------------------------------------
(* Dissolutions                                                            *)

(* A plan dissolves only publications it leaves without a record: all      *)
(* their records are in the neighbourhood, and go elsewhere.               *)
LEMMA DissolvedAreEmptied ==
    ASSUME IInv, NEW S, NEW plan, Planned(S, plan), SoundPlan(plan, Ids(pubs)),
           NEW carrier, NEW size, size = [p \in Pubs |-> Cardinality(RecordsOf(pub, p))],
           plan = Plan(S, carrier, size), NEW e \in plan.dissolved
    PROVE  RecordsOf(Attached(plan), e[1]) = {}
<1> DEFINE N == Remaining(S)
           p == e[1]
           inside == {m \in N : m.pub = p}
           awarded == {g.target : g \in plan.groups} \ {None}
<1>1. Neighbourhood(S, Ids(pubs)) /\ \A m \in S : m.pub = pub[m.id] BY DEF Planned
<1>2. e \in Dissolutions(N, plan.groups, size)
  <2>1. plan.groups = Groups(ClaimsOn(S, carrier)) /\ plan.dissolved = Dissolutions(N, Groups(ClaimsOn(S, carrier)), size)
    BY PlanUnfolded
  <2> QED BY <2>1
<1>3. p \notin awarded /\ Dissolvable(N, size, p) BY <1>2 DEF Dissolutions
<1>4. /\ p \in Ids(pubs) /\ p \in Pubs /\ p \in Nat /\ p <= created /\ created \in Nat
      /\ p # None
  <2>1. p \in Ids(pubs) BY DEF SoundPlan
  <2>2. p \in Pubs BY <2>1 DEF Ids, IInv, TypeOK
  <2>3. p \in Nat /\ p # None BY <2>2, Identifiers
  <2>4. p <= created BY <2>1, <2>2 DEF IInv, Numbered
  <2>5. created \in Nat BY Identifiers DEF IInv, TypeOK
  <2> QED BY <2>1, <2>2, <2>3, <2>4, <2>5
<1>5. Neighbourhood(N, Ids(pubs)) BY <1>1, PartsShareRecords
<1>6. \A m \in N : m.pub = pub[m.id]
  <2> SUFFICES ASSUME NEW n \in N PROVE n.pub = pub[n.id] OBVIOUS
  <2>1. PICK m \in S : n = Strip(m, FinalRemovals(Admissible(S))) BY WithoutStrips DEF Remaining
  <2>2. n.id = m.id /\ n.pub = m.pub BY <1>1, <2>1, StrippedMember DEF Neighbourhood
  <2> QED BY <1>1, <2>2
<1> SUFFICES ASSUME NEW r \in Records, Attached(plan)[r] = p PROVE FALSE
  BY DEF RecordsOf
<1>7. CASE r \notin Ids(S)
  <2> DEFINE rest == RecordsOf(pub, p) \ {r}
             f == [m \in inside |-> m.id]
  <2>1. r \in RecordsOf(pub, p)
    <3>1. pub[r] = p BY <1>7, AttachedByParts
    <3> QED BY <3>1 DEF RecordsOf
  <2>2. IsFiniteSet(RecordsOf(pub, p)) BY RecordsAssumption, FS_Subset DEF RecordsOf
  <2>3. /\ IsFiniteSet(rest) /\ Cardinality(rest) = Cardinality(RecordsOf(pub, p)) - 1
        /\ Cardinality(RecordsOf(pub, p)) \in Nat
    BY <2>1, <2>2, FS_RemoveElement, FS_CardinalityType
  <2>4. \A m \in inside : m.id \in rest
    <3> SUFFICES ASSUME NEW m \in inside PROVE m.id \in rest OBVIOUS
    <3>1. m \in N /\ m.id \in Records /\ pub[m.id] = p BY <1>5, <1>6 DEF Neighbourhood, MembersOf
    <3>2. m.id \in Ids(S)
      <4>1. PICK k \in S : m = Strip(k, FinalRemovals(Admissible(S)))
        BY <3>1, WithoutStrips DEF Remaining
      <4>2. m.id = k.id BY <1>1, <4>1, StrippedMember DEF Neighbourhood
      <4> QED BY <4>2 DEF Ids
    <3> QED BY <1>7, <3>1, <3>2 DEF RecordsOf
  <2>5. f \in Injection(inside, rest)
    <3>1. \A m, n \in inside : m.id = n.id => m = n BY <1>5 DEF Neighbourhood
    <3> HIDE DEF rest, inside
    <3> QED BY <2>4, <3>1 DEF Injection, IsInjective
  <2>6. IsFiniteSet(inside) /\ Cardinality(inside) <= Cardinality(rest)
    <3> HIDE DEF rest, inside, f
    <3> QED BY <2>3, <2>5, FS_Injection
  <2>7. Cardinality(inside) \in Nat BY <2>6, FS_CardinalityType
  <2>8. Cardinality(RecordsOf(pub, p)) <= Cardinality(inside)
    <3>1. size[p] = Cardinality(RecordsOf(pub, p)) BY <1>4
    <3> QED BY <1>3, <3>1 DEF Dissolvable
  <2> HIDE DEF rest, inside
  <2> QED BY <2>3, <2>6, <2>7, <2>8
<1>8. CASE r \in Ids(S) /\ r \notin Ids(Admissible(S)) BY <1>4, <1>8, AttachedByParts
<1>9. CASE r \in Ids(Admissible(S))
  <2>1. PICK q \in PartsIn(S) : r \in Ids(q.members)
    <3>1. PICK m \in S : m.id = r /\ m.matchable BY <1>9 DEF Ids, Admissible
    <3> DEFINE n == Strip(m, FinalRemovals(Admissible(S)))
    <3>2. n \in Remaining(S) /\ n.id = r /\ n.matchable
      BY <1>1, <3>1, WithoutStrips, StrippedMember DEF Remaining, Neighbourhood
    <3> HIDE DEF n
    <3>3. PICK q \in PartsIn(S) : n \in q.members
      BY <1>1, <3>2, PartsShareRecords DEF Split, Admissible
    <3> QED BY <3>2, <3>3 DEF Ids
  <2>2. Placed(plan, q, r) BY <2>1, AttachedByParts
  <2>3. PICK g \in plan.groups : Target(plan, g) = p BY <1>4, <2>2 DEF Placed
  <2>4. CASE g.target # None BY <1>3, <2>3, <2>4 DEF Target
  <2>5. CASE g.target = None
    <3>1. g \in NewGroups(plan) BY <2>5 DEF NewGroups
    <3>2. created < Target(plan, g) BY <3>1, NewTargets DEF Planned
    <3> QED BY <1>4, <2>3, <3>2
  <2> QED BY <2>4, <2>5
<1> QED BY <1>7, <1>8, <1>9

(* So the deletion of dissolved publications never fails.                  *)
LEMMA ApplyDissolves ==
    ASSUME IInv, NEW dirty, NEW verdicts, Apply(dirty, verdicts)
    PROVE  broken' # "dissolve"
<1> DEFINE U == Universe(dirty, verdicts)
<1>1. PICK plan :
          /\ Planned(U, plan) /\ SoundPlan(plan, Ids(pubs))
          /\ \E size : /\ size = [p \in Pubs |-> Cardinality(RecordsOf(pub, p))]
                       /\ \E carrier : plan = Plan(U, carrier, size)
          /\ ApplyPlan(plan, Attached(plan), RemovedBy(plan, Ids(U)), dirty)
  BY AppliedPlan
<1> DEFINE gone == {x[1] : x \in plan.dissolved}
<1>2. \A e \in plan.dissolved : RecordsOf(Attached(plan), e[1]) = {} BY <1>1, DissolvedAreEmptied
<1>3. \A p \in gone : RecordsOf(Attached(plan), p) = {} BY <1>2
<1> DEFINE survivors == {Target(plan, g) : g \in plan.groups}
           left == ({pub[r] : r \in plan.detached} \ {None}) \ (survivors \cup gone)
           founded == {[id |-> Target(plan, g), doi |-> g.doi] : g \in NewGroups(plan)}
           attached == Attached(plan)
           out == RemovedBy(plan, Ids(U))
           again == Recomputed(dirty, attached, survivors) \ gone
           end == Rewritten(pubs \cup founded, left, gone, again, attached, out)
<1>4. broken' = end.failure BY <1>1 DEF ApplyPlan
<1> HIDE DEF gone, left, founded, again, attached, out
<1>5. \A p \in gone : RecordsOf(attached, p) = {} BY <1>3 DEF attached
<1>6. end.failure # "dissolve" BY <1>5 DEF Rewritten
<1> QED BY <1>4, <1>6

------------------------------------------------------------------------------
(* Founders and settlements                                                *)

(* Only the marked records await a publication, and those that the purge   *)
(* detached.                                                               *)
FoundersAwait == \A r \in Existing \ (queue \cup purged) : Founder(r) => pub[r] # None

(* Since the last reconciliation of the whole stock nothing is marked.     *)
Settlement == RebuildSettles /\ (fresh => queue = {})

(* No publication is dissolved that would leave a record without one.      *)
NoRecordIsDissolved == broken # "dissolve"

(* The inductive invariant: on that of the tables, that only the marked    *)
(* records await a publication, and what a rebuild settles.                *)
SInv == IInv /\ OnlyRecordsArePublished /\ FoundersAwait /\ Settlement /\ NoRecordIsDissolved

(* A settlement says nothing of records without a publication: it stays if *)
(* publications are deleted and all their records detached.                *)
LEMMA SettlementStays ==
    ASSUME Settlement, content' = content, removed' = removed, NEW gone,
           \A r \in Records : pub'[r] = IF pub[r] \in gone THEN None ELSE pub[r],
           pubs' \subseteq {row \in pubs : row.id \notin gone}, None \notin Ids(pubs),
           queue' = queue, fresh' = fresh
    PROVE  Settlement'
<1>1. OneDoiOnePublication => OneDoiOnePublication'
  BY DEF OneDoiOnePublication, ActiveDois, ActiveRecord, Existing
<1>2. AnchorsApart => AnchorsApart' BY DEF AnchorsApart, Existing
<1>3. DoiIsThatOfItsRecords => DoiIsThatOfItsRecords'
  <2>1. DoiIsThatOfItsRecords <=>
            \A row \in pubs : RecordsOf(pub, row.id) # {} =>
                row.doi = DoiAmong(content, RecordsOf(pub, row.id), removed)
    BY DEF DoiIsThatOfItsRecords, PublicationDoi, ActiveRecord, DoiAmong
  <2>2. DoiIsThatOfItsRecords' <=>
            \A row \in pubs' : RecordsOf(pub', row.id) # {} =>
                row.doi = DoiAmong(content', RecordsOf(pub', row.id), removed')
    BY DEF DoiIsThatOfItsRecords, PublicationDoi, ActiveRecord, DoiAmong
  <2>3. \A row \in pubs' : row \in pubs /\ RecordsOf(pub', row.id) = RecordsOf(pub, row.id)
    BY DEF RecordsOf, Ids
  <2> QED BY <2>1, <2>2, <2>3
<1>4. StrongDoisAreKept => StrongDoisAreKept' BY DEF StrongDoisAreKept, Existing
<1> QED BY <1>1, <1>2, <1>3, <1>4 DEF Settlement, RebuildSettles

(* With nothing read, nothing is due.                                      *)
LEMMA FreshStart == Init => SInv
<1> SUFFICES ASSUME Init PROVE SInv OBVIOUS
<1>1. IInv BY InitKeeps
<1>2. OnlyRecordsArePublished /\ FoundersAwait /\ Settlement /\ NoRecordIsDissolved
  BY DEF Init, OnlyRecordsArePublished, FoundersAwait, Settlement, RebuildSettles,
         NoRecordIsDissolved, Existing
<1> QED BY <1>1, <1>2 DEF SInv

(* An application that takes the marked records and unmarks them leaves no *)
(* other awaiting, of those it decides; one that fails leaves all of them  *)
(* as they were.                                                           *)
LEMMA ApplyKeepsFounders ==
    ASSUME SInv, NEW dirty, NEW verdicts, Apply(dirty, verdicts), content' = content,
           queue' = queue \/ (broken' = "none" /\ queue' = {} /\ queue \cap Existing \subseteq dirty)
    PROVE  OnlyRecordsArePublished' /\ FoundersAwait' /\ NoRecordIsDissolved'
<1> DEFINE U == Universe(dirty, verdicts)
<1>1. PICK plan :
          Planned(U, plan) /\ ApplyPlan(plan, Attached(plan), RemovedBy(plan, Ids(U)), dirty)
  BY AppliedPlan DEF SInv
<1>2. IF broken' = "none" THEN pub' = Attached(plan) ELSE pub' = pub BY <1>1 DEF ApplyPlan
<1>3. OnlyRecordsArePublished'
  <2> SUFFICES ASSUME NEW r \in Records, content[r] = None PROVE pub'[r] = None
    BY DEF OnlyRecordsArePublished
  <2>1. \A m \in U : m.id \in Existing BY UniverseIsNeighbourhood DEF SInv
  <2>2. r \notin Ids(U) BY <2>1 DEF Ids, Existing
  <2>3. Attached(plan)[r] = pub[r] BY <1>1, <2>2, AttachedByParts DEF SInv
  <2> QED BY <1>2, <2>3 DEF SInv, OnlyRecordsArePublished
<1>4. FoundersAwait'
  <2> SUFFICES ASSUME NEW r \in Existing, r \notin queue', r \notin purged', Founder(r)
               PROVE  pub'[r] # None
    BY DEF FoundersAwait, Founder, Existing
  <2>1. purged' = IF broken' = "none" THEN purged \ Ids(U) ELSE purged BY DEF Apply
  <2>2. CASE broken' = "none"
    <3>1. r \in dirty => r \in Ids(U)
      <4>1. r \in dirty => Member(r, verdicts) \in U /\ Member(r, verdicts).id = r
        BY UniverseIsNeighbourhood DEF SInv
      <4> QED BY <4>1 DEF Ids
    <3>2. r \in Ids(U) \/ pub[r] # None
      BY <2>1, <2>2, <3>1 DEF SInv, FoundersAwait
    <3> QED BY <2>2, <3>2, FoundersAreAttached DEF SInv
  <2>3. CASE broken' # "none" BY <1>2, <2>1, <2>3 DEF SInv, FoundersAwait
  <2> QED BY <2>2, <2>3
<1>5. NoRecordIsDissolved' BY ApplyDissolves DEF SInv, NoRecordIsDissolved
<1> QED BY <1>3, <1>4, <1>5

(* A rebuild settles the stock, whatever came before.                      *)
LEMMA RebuildSettlesAgain == ASSUME SInv, Rebuild PROVE Settlement'
<1>1. CASE broken' # "none" BY <1>1 DEF Rebuild, Settlement, RebuildSettles
<1>2. CASE broken' = "none"
  <2>1. PICK U, plan : Rebuilt(U, plan) BY <1>2, RebuildIsPlanned DEF SInv
  <2>2. TypeOK' BY ReconcileKeeps DEF SInv, IInv
  <2>3. OneDoiOnePublication' BY <2>1, RebuildUnitesDois DEF SInv
  <2>4. AnchorsApart' BY <2>1, RebuildSeparates DEF SInv
  <2>5. DoiIsThatOfItsRecords' BY <1>2, <2>1, <2>2, RebuildDatesDois DEF SInv
  <2>6. StrongDoisAreKept' BY <2>1, RebuildKeepsStrongDois DEF SInv
  <2>7. queue' = {} BY <1>2 DEF Rebuild
  <2> QED BY <2>3, <2>4, <2>5, <2>6, <2>7 DEF Settlement, RebuildSettles
<1> QED BY <1>1, <1>2

(* Every step keeps the invariant: the reconciliations by the two lemmas   *)
(* above, the writings because they mark what they touch.                  *)
LEMMA EveryStepKeeps == SInv /\ [Next]_vars => SInv'
<1> SUFFICES ASSUME SInv, [Next]_vars PROVE SInv' OBVIOUS
<1>1. IInv' BY NextKeeps DEF SInv
<1>2. CASE Reconcile
  <2>1. /\ Apply(WithSiblings(queue \cap Existing), merges) /\ content' = content
        /\ queue # {} /\ queue' = (IF broken' = "none" THEN {} ELSE queue) /\ fresh' = fresh
    BY <1>2 DEF Reconcile
  <2>2. queue \cap Existing \subseteq WithSiblings(queue \cap Existing) BY DEF WithSiblings
  <2>3. OnlyRecordsArePublished' /\ FoundersAwait' /\ NoRecordIsDissolved'
    BY <2>1, <2>2, ApplyKeepsFounders
  <2>4. fresh' = FALSE \/ ~ fresh' BY <2>1 DEF SInv, Settlement
  <2>5. Settlement' BY <2>4 DEF Settlement, RebuildSettles
  <2> QED BY <1>1, <2>3, <2>5 DEF SInv
<1>3. CASE Rebuild
  <2>1. /\ Apply(Existing, merges) /\ content' = content
        /\ queue' = (IF broken' = "none" THEN {} ELSE queue)
    BY <1>3 DEF Rebuild
  <2>2. OnlyRecordsArePublished' /\ FoundersAwait' /\ NoRecordIsDissolved'
    BY <2>1, ApplyKeepsFounders
  <2> QED BY <1>1, <1>3, <2>2, RebuildSettlesAgain DEF SInv
<1>4. CASE \E p, q \in Pubs : ManualMerge(p, q)
  <2>1. PICK p, q \in Pubs : ManualMerge(p, q) BY <1>4
  <2>2. /\ Apply(RecordsOf(pub, p) \cup RecordsOf(pub, q), merges')
        /\ content' = content /\ queue' = queue /\ fresh' = FALSE
    BY <2>1 DEF ManualMerge
  <2>3. OnlyRecordsArePublished' /\ FoundersAwait' /\ NoRecordIsDissolved'
    BY <2>2, ApplyKeepsFounders
  <2>4. Settlement' BY <2>2 DEF Settlement, RebuildSettles
  <2> QED BY <1>1, <2>3, <2>4 DEF SInv
<1>5. ASSUME NEW r \in Records, NEW c \in Written, Normalize(r, c) PROVE SInv'
  <2>1. /\ content' = [content EXCEPT ![r] = c] /\ queue' = queue \cup {r} /\ fresh' = FALSE
        /\ pub' = pub /\ purged' = purged /\ broken' = broken
    BY <1>5 DEF Normalize
  <2>2. \A s \in Records : s # r => content'[s] = content[s] BY <2>1 DEF SInv, IInv, TypeOK
  <2>3. content'[r] # None BY <2>1, ContentsAssumption DEF SInv, IInv, TypeOK
  <2>4. OnlyRecordsArePublished' BY <2>1, <2>2, <2>3 DEF SInv, OnlyRecordsArePublished
  <2>5. FoundersAwait' BY <2>1, <2>2 DEF SInv, FoundersAwait, Founder, Existing
  <2>6. Settlement' /\ NoRecordIsDissolved'
    BY <2>1 DEF Settlement, RebuildSettles, SInv, NoRecordIsDissolved
  <2> QED BY <1>1, <2>4, <2>5, <2>6 DEF SInv
<1>6. ASSUME NEW r \in Records, DeleteRecord(r) PROVE SInv'
  <2>1. /\ content' = [content EXCEPT ![r] = None] /\ queue \subseteq queue' /\ fresh' = FALSE
        /\ pub' = [pub EXCEPT ![r] = None] /\ purged' = purged /\ broken' = broken
    BY <1>6 DEF DeleteRecord
  <2>2. \A s \in Records : s # r => content'[s] = content[s] /\ pub'[s] = pub[s]
    BY <2>1 DEF SInv, IInv, TypeOK
  <2>3. content'[r] = None /\ pub'[r] = None BY <2>1 DEF SInv, IInv, TypeOK
  <2>4. OnlyRecordsArePublished' BY <2>2, <2>3 DEF SInv, OnlyRecordsArePublished
  <2>5. FoundersAwait' BY <2>1, <2>2, <2>3 DEF SInv, FoundersAwait, Founder, Existing
  <2>6. Settlement' /\ NoRecordIsDissolved'
    BY <2>1 DEF Settlement, RebuildSettles, SInv, NoRecordIsDissolved
  <2> QED BY <1>1, <2>4, <2>5, <2>6 DEF SInv
<1>7. CASE Purge
  <2>1. PICK gone : Purged(gone) BY <1>7, PurgeIsPurged DEF SInv
  <2>2. None \notin Ids(pubs) BY Identifiers DEF SInv, IInv, TypeOK, Ids
  <2>3. Settlement' BY <2>1, <2>2, SettlementStays DEF Purged, SInv
  <2>4. OnlyRecordsArePublished' /\ FoundersAwait' /\ NoRecordIsDissolved'
    BY <2>1 DEF Purged, SInv, OnlyRecordsArePublished, FoundersAwait, Founder, Existing,
                NoRecordIsDissolved
  <2> QED BY <1>1, <2>3, <2>4 DEF SInv
<1>8. CASE Align \/ UNCHANGED vars
  <2>1. /\ content' = content /\ removed' = removed /\ pub' = pub /\ pubs' = pubs
        /\ queue' = queue /\ purged' = purged /\ fresh' = fresh /\ broken' = broken
    BY <1>8 DEF Align, vars
  <2>2. None \notin Ids(pubs) BY Identifiers DEF SInv, IInv, TypeOK, Ids
  <2>3. Settlement'
    <3>1. PICK gone : gone = {} OBVIOUS
    <3>2. \A r \in Records : pub'[r] = IF pub[r] \in gone THEN None ELSE pub[r] BY <2>1, <3>1
    <3>3. pubs' \subseteq {row \in pubs : row.id \notin gone} BY <2>1, <3>1
    <3>4. Settlement BY DEF SInv
    <3> HIDE <3>1
    <3> QED BY <2>1, <2>2, <3>2, <3>3, <3>4, SettlementStays
  <2>4. OnlyRecordsArePublished' /\ FoundersAwait' /\ NoRecordIsDissolved'
    BY <2>1 DEF SInv, OnlyRecordsArePublished, FoundersAwait, Founder, Existing, NoRecordIsDissolved
  <2> QED BY <1>1, <2>3, <2>4 DEF SInv
<1> QED BY <1>2, <1>3, <1>4, <1>5, <1>6, <1>7, <1>8 DEF Next

LEMMA SettlesInductively == Spec => []SInv
BY FreshStart, EveryStepKeeps, PTL DEF Spec

(* reconcile: once no record is marked, each record that may found a       *)
(* publication has one, whatever was merged, split or deleted meanwhile,   *)
(* but the records of a purged publication that no pass decided since.     *)
THEOREM FoundersHavePublications == Spec => []FoundersArePublished
<1>1. SInv => FoundersArePublished BY DEF SInv, FoundersAwait, Founder, FoundersArePublished
<1> QED BY SettlesInductively, <1>1, PTL

(* reconcile with rebuild: a DOI is then that of one publication, records  *)
(* with DOIs of their own or works are apart, a publication has the DOI    *)
(* its records designate, and no strong DOI was lost.                      *)
THEOREM RebuildsSettle == Spec => []RebuildSettles
<1>1. SInv => RebuildSettles BY DEF SInv, Settlement
<1> QED BY SettlesInductively, <1>1, PTL

(* _dissolutions: the deletion of a dissolved publication never fails on a *)
(* record that it would still have.                                        *)
THEOREM DissolutionsSucceed == Spec => []NoRecordIsDissolved
<1>1. SInv => NoRecordIsDissolved BY DEF SInv
<1> QED BY SettlesInductively, <1>1, PTL
==============================================================================

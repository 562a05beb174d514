----------------------- MODULE PersonResolutionProofs ------------------------
(***************************************************************************)
(* Theorems on PersonResolution.                                           *)
(***************************************************************************)
EXTENDS PersonResolution, Integers, FiniteSetTheorems, WellFoundedInduction, TLAPS

(* A non-empty set of naturals has a smallest member: among the intervals  *)
(* 0 .. x, x in the set, one includes no other one strictly.               *)
LEMMA SmallestIsMember ==
  ASSUME NEW S, S \subseteq Nat, S # {}
  PROVE  /\ Smallest(S) \in S
         /\ \A y \in S : Smallest(S) <= y
<1> DEFINE Below == {0 .. x : x \in S}
<1>1. Below \subseteq FiniteSubsetsOf(Nat)
  <2>1. ASSUME NEW x \in S PROVE IsFiniteSet(0 .. x) /\ 0 .. x \subseteq Nat
    BY <2>1, FS_Interval
  <2> QED
    BY <2>1 DEF FiniteSubsetsOf
<1>2. \E T \in Below : \A U \in Below : ~ <<U, T>> \in StrictSubsetOrdering(Nat)
  <2>1. Below # {}
    OBVIOUS
  <2>2. IsWellFoundedOn(StrictSubsetOrdering(Nat), FiniteSubsetsOf(Nat))
    BY FS_StrictSubsetOrderingWellFounded
  <2> HIDE DEF Below
  <2> QED
    BY <1>1, <2>1, <2>2, WFMin
<1>3. PICK x \in S : \A y \in S : ~ <<0 .. y, 0 .. x>> \in StrictSubsetOrdering(Nat)
  BY <1>2
<1>4. ASSUME NEW y \in S PROVE x <= y
  <2> SUFFICES ASSUME y < x PROVE FALSE
    OBVIOUS
  <2>1. 0 .. y \subseteq 0 .. x /\ x \in 0 .. x /\ x \notin 0 .. y
    OBVIOUS
  <2>2. <<0 .. y, 0 .. x>> \in StrictSubsetOrdering(Nat)
    BY <2>1 DEF StrictSubsetOrdering
  <2> QED
    BY <1>3, <2>2
<1> QED
  BY <1>4 DEF Smallest

(* The member of a singleton.                                              *)
LEMMA SoleIsMember ==
  ASSUME NEW S, IsSingleton(S)
  PROVE  S = {Sole(S)}
  BY DEF IsSingleton, Sole

------------------------------------------------------------------------------
(* The decision on one contribution                                        *)

IndexType ==
    [form : [Persons -> [Names -> Forms]], name : [Persons -> Names \cup {NoName}],
     holder : [Values -> Persons \cup {NoPerson}], conflicting : SUBSET Persons]

(* Identifiers and names designate persons.                                *)
LEMMA DesignatedArePersons ==
  ASSUME NEW s \in Sources, NEW idx \in IndexType
  PROVE  Identified(s, idx) \subseteq Persons /\ NamedBy(s, idx) \subseteq Persons
<1>1. Holder(s, idx) \in Persons \cup {NoPerson}
  BY ProfilesAssumption DEF Holder, IndexType
<1>2. CompatiblePersons(NameOf[s], idx) \subseteq Persons
  BY DEF CompatiblePersons
<1> QED
  BY <1>1, <1>2 DEF Identified, NamedBy

(* What a decision says of its person: a match is pinned, or designated    *)
(* and not barred; nobody is designated, but barred ones, for a creation.  *)
Justified(d, m, pins, idx, barred) ==
    /\ d.by \in {"manual", "identifier", "name", "skip", "create"}
    /\ d.person \in Persons \cup {NoPerson}
    /\ ~ IsMatch(d) => d.person = NoPerson
    /\ d.by = "manual" => d.person \in pins
    /\ d.by = "identifier" => \E s \in m : d.person \in Identified(s, idx) \ barred
    /\ d.by = "name" => \E s \in m : d.person \in NamedBy(s, idx) \ barred
    /\ d.by = "create" => /\ pins = {}
                          /\ \A s \in m : /\ Identified(s, idx) \subseteq barred
                                          /\ NamedBy(s, idx) = {}

(* The decision on a contribution is justified.                            *)
LEMMA DecisionMeans ==
  ASSUME NEW m \in SUBSET Sources, NEW pins \in SUBSET Persons, NEW idx \in IndexType,
         NEW barred
  PROVE  Justified(Decide(m, pins, idx, barred), m, pins, idx, barred)
<1> DEFINE byValue == [s \in m |-> Identified(s, idx) \ barred]
           byName == [s \in m |-> NamedBy(s, idx) \ barred]
           refused == {ValueOf[s] : s \in {t \in m : /\ Holder(t, idx) # NoPerson
                                                      /\ Identified(t, idx) = {}}}
           d == Decide(m, pins, idx, barred)
           last == IF \E s \in m : NamedBy(s, idx) # {} THEN "skip" ELSE "create"
<1>1. \A s \in m : byValue[s] \subseteq Persons /\ byName[s] \subseteq Persons
  BY DesignatedArePersons
<1>2. d = IF pins # {} THEN Single(pins, "manual", {})
          ELSE IF \E s \in m : byValue[s] # {} THEN Single(Common(m, byValue), "identifier", refused)
          ELSE IF \E s \in m : byName[s] # {} THEN Single(Common(m, byName), "name", refused)
          ELSE Decision(NoPerson, last, refused)
  BY DEF Decide
<1>3. ASSUME NEW S, NEW by, NEW r
      PROVE  \/ IsSingleton(S) /\ Single(S, by, r).person \in S /\ Single(S, by, r).by = by
             \/ Single(S, by, r).person = NoPerson /\ Single(S, by, r).by = "skip"
  BY SoleIsMember DEF Single, Decision
<1>4. ASSUME NEW cand, \E s \in m : cand[s] # {}, NEW p \in Common(m, cand)
      PROVE  p \in Persons /\ \E s \in m : p \in cand[s]
  BY <1>4 DEF Common
<1> HIDE DEF byValue, byName, refused, last, d
<1>5. ASSUME pins # {}
      PROVE  Justified(d, m, pins, idx, barred)
  BY <1>2, <1>3, <1>5 DEF IsMatch, Justified
<1>6. ASSUME pins = {} /\ \E s \in m : byValue[s] # {}
      PROVE  Justified(d, m, pins, idx, barred)
  <2>1. d = Single(Common(m, byValue), "identifier", refused)
    BY <1>2, <1>6
  <2>2. CASE d.person \in Common(m, byValue) /\ d.by = "identifier"
    BY <1>4, <1>6, <2>2 DEF IsMatch, byValue, Justified
  <2>3. CASE d.person = NoPerson /\ d.by = "skip"
    BY <2>3 DEF IsMatch, Justified
  <2> QED
    BY <1>3, <2>1, <2>2, <2>3
<1>7. ASSUME pins = {} /\ (\A s \in m : byValue[s] = {}) /\ \E s \in m : byName[s] # {}
      PROVE  Justified(d, m, pins, idx, barred)
  <2>1. d = Single(Common(m, byName), "name", refused)
    BY <1>2, <1>7
  <2>2. CASE d.person \in Common(m, byName) /\ d.by = "name"
    BY <1>4, <1>7, <2>2 DEF IsMatch, byName, Justified
  <2>3. CASE d.person = NoPerson /\ d.by = "skip"
    BY <2>3 DEF IsMatch, Justified
  <2> QED
    BY <1>3, <2>1, <2>2, <2>3
<1>8. ASSUME pins = {} /\ (\A s \in m : byValue[s] = {}) /\ \A s \in m : byName[s] = {}
      PROVE  Justified(d, m, pins, idx, barred)
  <2>1. d = Decision(NoPerson, last, refused)
    BY <1>2, <1>8
  <2> QED
    BY <1>8, <2>1 DEF Decision, last, byValue, IsMatch, Justified
<1>9. Justified(d, m, pins, idx, barred)
  BY <1>5, <1>6, <1>7, <1>8 DEF Justified
<1> QED
  BY <1>9 DEF d

(* The settlement takes some persons away and gives none.                  *)
LEMMA SettlementMeans ==
  ASSUME NEW decided, NEW takenHere, NEW c \in DOMAIN decided
  PROVE  \/ Settle(decided, takenHere)[c] = decided[c]
         \/ /\ Settle(decided, takenHere)[c].by = "skip"
            /\ Settle(decided, takenHere)[c].person = NoPerson
  BY DEF Settle, Decision

(* The source contributions are the first numbers.                         *)
LEMMA SourcesAreNumbers ==
  /\ Cardinality(Sources) \in Contribs
  /\ \A s : s \in Sources <=> s \in 1 .. Cardinality(Sources)
  /\ Contribs \subseteq Nat \ {0} /\ Sources \subseteq Contribs /\ IsFiniteSet(Sources)
<1>1. PICK n : n = Cardinality(Sources)
  OBVIOUS
<1>2. Sources = 1 .. n /\ n \in Contribs
  BY <1>1, NumbersAssumption
<1>3. MaxContribs \in Nat
  BY NumbersAssumption
<1>4. n \in Nat /\ n <= MaxContribs /\ Contribs \subseteq Nat \ {0}
  BY <1>2, <1>3 DEF Contribs
<1>5. Sources \subseteq Contribs
  BY <1>2, <1>3, <1>4 DEF Contribs
<1>6. IsFiniteSet(1 .. n)
  BY <1>4, FS_Interval
<1> QED
  BY <1>1, <1>2, <1>4, <1>5, <1>6

(* A contribution with members founds a person under one of their names.   *)
LEMMA FoundingNameIsName ==
  ASSUME NEW m \in SUBSET Sources, m # {}
  PROVE  FoundingName(m) \in Names
<1> DEFINE full == {s \in m : NameOf[s] \notin Reduced}
           from == IF full # {} THEN full ELSE m
<1>1. from # {} /\ from \subseteq Sources /\ from \subseteq Nat
  BY SourcesAreNumbers
<1>2. Smallest(from) \in from
  BY <1>1, SmallestIsMember
<1>3. FoundingName(m) = NameOf[Smallest(from)]
  BY DEF FoundingName
<1> QED
  BY <1>1, <1>2, <1>3, ProfilesAssumption

------------------------------------------------------------------------------
(* The inductive invariant                                                 *)

(* The source contributions of a contribution are of one publication.      *)
Coherent ==
    /\ \A s, t \in Sources : aligned[s] = aligned[t] => PubOf[s] = PubOf[t]
    /\ \A s \in Sources : aligned[s] <= issued

(* An identifier that is no contribution has no person.                    *)
Vacant == \A c \in Contribs \ Existing : link[c].person = NoPerson

(* The persons of contributions, pins and rejections exist.                *)
Referenced ==
    /\ \A c \in Contribs : link[c].person # NoPerson => personName[link[c].person] # NoName
    /\ \A s \in Sources : pin[s] # NoPerson => personName[pin[s]] # NoName
    /\ \A r \in rejected : personName[r[2]] # NoName

(* A rejected person has no pin in the publication.                        *)
PinsAllowed == \A s \in Sources : <<PubOf[s], pin[s]>> \notin rejected

(* What the phase holds is empty outside its transaction.                  *)
Quiet ==
    /\ stage \in {"idle", "resolved", "populated"} =>
          written = Nothing /\ named = Nothing /\ given = Nothing
    /\ stage \notin {"deciding", "conflict"} =>
          candidates = {} /\ toCreate = {} /\ pinsRead = [c \in Contribs |-> {}]
    /\ candidates \subseteq Existing /\ toCreate \subseteq candidates

(* What the phase has written names persons that exist, and rejected ones  *)
(* only if the rejection came late.                                        *)
WritesAreAllowed ==
    stage \in {"pinned", "deciding"} =>
        \A c \in DOMAIN written :
            /\ c \in Existing
            /\ written[c].person # NoPerson => NameView[written[c].person] # NoName
            /\ <<PubOfContrib(c), written[c].person>> \in rejected => written[c].person \in late

(* The contributions a pin took its person from are locked with it.        *)
PinnedAreLocked ==
    stage = "pinned" =>
        \A d \in DOMAIN written : written[d].person # NoPerson =>
            \A o \in Rivals(d) : link[o].person = written[d].person => o \in DOMAIN written

(* The phase renames a person by completing its name.                      *)
NamesAreCompleted ==
    \A p \in DOMAIN named : personName[p] = NoName \/ <<personName[p], named[p]>> \in Extends

(* What the phase has read is current but for the late rejections.         *)
ReadingsAreCurrent ==
    stage = "deciding" =>
        /\ \A r \in rejected : r \in rejectedRead \/ r[2] \in late
        /\ \A c \in Existing, p \in Persons :
              p \in pinsRead[c] /\ <<PubOfContrib(c), p>> \in rejected => p \in late

(* A contribution whose person is to be created is designated by persons   *)
(* created in the same transaction only.                                   *)
Created == {p \in DOMAIN named : personName[p] = NoName}
DesignatedByCreated(c) ==
    \A s \in Members(c) :
        /\ NamedBy(s, index) \subseteq Created
        /\ Identified(s, index) \subseteq Created \cup BarredIn(PubOfContrib(c), rejectedRead)
CreationsAreOwn == stage = "deciding" => \A c \in toCreate : DesignatedByCreated(c)

IInv ==
    /\ TypeOK /\ Coherent /\ Vacant /\ Referenced /\ PinsAllowed /\ RejectedStayOut /\ Quiet
    /\ WritesAreAllowed /\ PinnedAreLocked /\ NamesAreCompleted /\ ReadingsAreCurrent
    /\ CreationsAreOwn

------------------------------------------------------------------------------
(* Contributions and the rows of the phase                                 *)

(* The empty writes.                                                       *)
LEMMA NothingIsEmpty == DOMAIN Nothing = {}
  BY DEF Nothing

(* Members and publication of a contribution.                              *)
LEMMA ContributionHasPublication ==
  ASSUME TypeOK, Coherent, NEW c \in Existing
  PROVE  /\ c \in Contribs
         /\ Members(c) \subseteq Sources /\ Members(c) # {}
         /\ PubOfContrib(c) \in Pubs
         /\ \A s \in Members(c) : PubOf[s] = PubOfContrib(c)
<1>1. Members(c) \subseteq Sources /\ Members(c) # {} /\ c \in Contribs
  BY DEF Members, Existing, TypeOK
<1>2. (CHOOSE s \in Members(c) : TRUE) \in Members(c)
  BY <1>1
<1>3. \A s \in Members(c) : PubOf[s] = PubOfContrib(c)
  BY <1>2 DEF PubOfContrib, Coherent, Members
<1> QED
  BY <1>1, <1>2, <1>3, ProfilesAssumption DEF PubOfContrib

(* A step that realigns nothing leaves contributions as they are.          *)
LEMMA AlignmentUnchanged ==
  ASSUME aligned' = aligned
  PROVE  /\ Existing' = Existing
         /\ \A c : /\ Members(c)' = Members(c)
                  /\ PubOfContrib(c)' = PubOfContrib(c)
                  /\ Rivals(c)' = Rivals(c)
<1>1. Existing' = Existing
  BY DEF Existing
<1>2. ASSUME NEW c PROVE Members(c)' = Members(c)
  BY DEF Members
<1>3. ASSUME NEW c PROVE PubOfContrib(c)' = PubOfContrib(c)
  BY DEF Members, PubOfContrib
<1>4. ASSUME NEW c PROVE Rivals(c)' = Rivals(c)
  BY <1>1, <1>3 DEF Rivals
<1> QED
  BY <1>1, <1>2, <1>3, <1>4

(* What the phase reads has the types of the tables.                       *)
LEMMA ViewsAreTyped ==
  ASSUME TypeOK
  PROVE  /\ View \in [Contribs -> Links]
         /\ NameView \in [Persons -> Names \cup {NoName}]
         /\ AttributionView \in [Values -> Attributions]
         /\ FormView \in [Persons -> [Names -> Forms]]
<1>1. View \in [Contribs -> Links]
  BY DEF TypeOK, View, IsPartial
<1>2. NameView \in [Persons -> Names \cup {NoName}]
  BY DEF TypeOK, NameView, IsPartial
<1>3. AttributionView \in [Values -> Attributions]
  BY DEF TypeOK, AttributionView, IsPartial
<1>4. FormView \in [Persons -> [Names -> Forms]]
  BY DEF TypeOK, FormView, Forms
<1> QED
  BY <1>1, <1>2, <1>3, <1>4

(* The rows written are those written before, and those that differ.       *)
LEMMA WritingMeans ==
  ASSUME TypeOK, NEW links \in [Contribs -> Links]
  PROVE  /\ IsPartial(Writing(links), Contribs, Links)
         /\ DOMAIN Writing(links) = DOMAIN written \cup {d \in Contribs : links[d] # View[d]}
         /\ \A c \in DOMAIN Writing(links) : Writing(links)[c] = links[c]
  BY DEF Writing, IsPartial, TypeOK

------------------------------------------------------------------------------
(* The initial states                                                      *)

(* The first state satisfies the invariant.                                *)
LEMMA InitImpliesIInv == Init => IInv
<1> SUFFICES ASSUME Init PROVE IInv
  OBVIOUS
<1>1. TypeOK
  <2>1. aligned \in [Sources -> Contribs] /\ issued \in Contribs
    BY SourcesAreNumbers DEF Init
  <2>2. link \in [Contribs -> Links] /\ pin \in [Sources -> Persons \cup {NoPerson}]
    BY DEF Init, Links, Unlinked, Modes
  <2>3. personName \in [Persons -> Names \cup {NoName}]
    BY HrAssumption DEF Init
  <2>4. form \in [Persons -> [Names -> Forms]] /\ attribution \in [Values -> Attributions]
    BY DEF Init, Forms, Attributions, Unattributed
  <2>5. index \in IndexType
    BY DEF Init, NothingRead, NoIndex, NoForms, Forms, IndexType
  <2>6. /\ pinsRead \in [Contribs -> SUBSET Persons] /\ taken \in [Pubs -> SUBSET Persons]
        /\ rejectedRead \in SUBSET (Pubs \X Persons)
        /\ {queue, remarked, copied, candidates, toCreate} \subseteq SUBSET Contribs
        /\ {todo, batch} \subseteq SUBSET Pubs
    BY DEF Init, NothingRead
  <2>7. /\ IsPartial(written, Contribs, Links) /\ IsPartial(named, Persons, Names)
        /\ IsPartial(given, Values, Attributions)
    BY NothingIsEmpty DEF Init, IsPartial
  <2>8. /\ rejected \in SUBSET (Pubs \X Persons)
        /\ late \in SUBSET Persons /\ {requests, regroups, failures} \subseteq Nat
    BY DEF Init
  <2>9. stage \in {"idle", "pinned", "deciding", "conflict", "resolved", "populated"}
    BY DEF Init
  <2>10. disturbed \in BOOLEAN
    BY Zenon DEF Init
  <2> QED
    BY <2>1, <2>2, <2>3, <2>4, <2>5, <2>6, <2>7, <2>8, <2>9, <2>10 DEF TypeOK, IndexType
<1>2. Coherent
  BY SourcesAreNumbers DEF Init, Coherent
<1>3. Vacant
  BY DEF Init, Vacant, Unlinked
<1>4. Referenced /\ PinsAllowed /\ RejectedStayOut
  BY DEF Init, Referenced, PinsAllowed, RejectedStayOut, Unlinked
<1>5. Quiet
  BY DEF Init, NothingRead, Quiet
<1>6. WritesAreAllowed /\ PinnedAreLocked /\ ReadingsAreCurrent /\ CreationsAreOwn
  BY DEF Init, WritesAreAllowed, PinnedAreLocked, ReadingsAreCurrent, CreationsAreOwn
<1>7. NamesAreCompleted
  BY NothingIsEmpty DEF Init, NamesAreCompleted
<1> QED
  BY <1>1, <1>2, <1>3, <1>4, <1>5, <1>6, <1>7 DEF IInv

------------------------------------------------------------------------------
(* The start of the phase                                                  *)

(* What the pins change: the contributions of their persons.               *)
LEMMA PinnedMeans ==
  ASSUME TypeOK, Coherent, NEW new, new = Pinned(Existing, link)
  PROVE  /\ new \in [Contribs -> Links]
         /\ \A c \in Contribs : new[c] # link[c] =>
               /\ c \in Existing
               /\ \/ new[c] = Unlinked
                  \/ \E s \in Members(c) : pin[s] = new[c].person /\ pin[s] # NoPerson
         /\ \A c \in Contribs : new[c] # link[c] /\ new[c].person # NoPerson =>
               \A o \in Rivals(c) : link[o].person = new[c].person => new[o] # link[o]
<1> DEFINE of(c) == Sole(PinsOf(c))
           free == {c \in Existing :
                       /\ IsSingleton(PinsOf(c))
                       /\ \A o \in Rivals(c) : link[o] # [person |-> of(c), mode |-> "manual"]}
           target == {c \in free : \A d \in free \cap Rivals(c) : of(d) = of(c) => c < d}
           released(c) == c \in Existing /\ \E t \in target \cap Rivals(c) : of(t) = link[c].person
<1>1. new = [c \in Contribs |-> IF c \in target THEN [person |-> of(c), mode |-> "manual"]
                                ELSE IF released(c) THEN Unlinked ELSE link[c]]
  BY DEF Pinned
<1>2. ASSUME NEW c \in target
      PROVE  /\ c \in Existing /\ c \in Contribs
             /\ of(c) \in Persons /\ of(c) # NoPerson
             /\ \E s \in Members(c) : pin[s] = of(c)
  <2>1. PinsOf(c) = {of(c)} /\ c \in Existing
    BY SoleIsMember
  <2>2. of(c) \in PinsOf(c)
    BY <2>1
  <2>3. PICK s \in Members(c) : pin[s] = of(c) /\ pin[s] # NoPerson
    <3> HIDE DEF of
    <3> QED
      BY <2>2 DEF PinsOf
  <2>4. s \in Sources /\ c \in Contribs
    BY <2>1, ContributionHasPublication
  <2> QED
    BY <2>1, <2>3, <2>4 DEF TypeOK
<1>3. \A c, d \in target : d \in Rivals(c) /\ of(c) = of(d) => FALSE
  <2> SUFFICES ASSUME NEW c \in target, NEW d \in target, d \in Rivals(c), of(c) = of(d)
               PROVE  FALSE
    OBVIOUS
  <2>1. c \in Rivals(d)
    BY <1>2 DEF Rivals
  <2>2. c \in Nat /\ d \in Nat
    BY <1>2, SourcesAreNumbers
  <2>3. c < d /\ d < c
    BY <2>1
  <2> QED
    BY <2>2, <2>3
<1> HIDE DEF target, of
<1>4. new \in [Contribs -> Links]
  BY <1>1, <1>2 DEF Links, Unlinked, Modes, TypeOK
<1>5. ASSUME NEW c \in Contribs, new[c] # link[c]
      PROVE  /\ c \in Existing
             /\ \/ new[c] = Unlinked
                \/ \E s \in Members(c) : pin[s] = new[c].person /\ pin[s] # NoPerson
  BY <1>1, <1>2, <1>5
<1>6. ASSUME NEW c \in Contribs, new[c] # link[c], new[c].person # NoPerson,
             NEW o \in Rivals(c), link[o].person = new[c].person
      PROVE  new[o] # link[o]
  <2>1. c \in target /\ new[c].person = of(c)
    BY <1>1, <1>6 DEF Unlinked
  <2>2. o \in Existing /\ o \in Contribs /\ c \in Rivals(o)
    BY <1>2, <2>1, ContributionHasPublication DEF Rivals
  <2>3. CASE o \in target
    BY <1>1, <1>3, <1>6, <2>1, <2>2, <2>3
  <2>4. CASE o \notin target
    <3>1. new[o] = Unlinked
      BY <1>1, <1>6, <2>1, <2>2, <2>4
    <3> QED
      BY <1>6, <3>1 DEF Unlinked
  <2> QED
    BY <2>3, <2>4
<1> QED
  BY <1>4, <1>5, <1>6

(* No pair rejects the absence of a person.                                *)
LEMMA RejectedArePersons ==
  ASSUME TypeOK
  PROVE  /\ NoPerson \notin Persons
         /\ \A b, p : <<b, p>> \in rejected => b \in Pubs /\ p \in Persons
         /\ \A r \in rejected : r[2] \in Persons
<1>1. NoPerson \notin Persons
  BY NumbersAssumption
<1>2. rejected \in SUBSET (Pubs \X Persons)
  BY DEF TypeOK
<1> QED
  BY <1>1, <1>2

(* A step that changes none of the tables, and takes no one out of late.   *)
LEMMA TablesUnchanged ==
  ASSUME IInv, UNCHANGED <<aligned, issued, link, pin, rejected, personName>>, late \subseteq late'
  PROVE  Coherent' /\ Vacant' /\ Referenced' /\ PinsAllowed' /\ RejectedStayOut'
<1>1. Coherent'
  BY DEF IInv, Coherent
<1>2. Vacant'
  BY AlignmentUnchanged DEF IInv, Vacant
<1>3. Referenced'
  BY DEF IInv, Referenced
<1>4. PinsAllowed'
  BY DEF IInv, PinsAllowed
<1>5. RejectedStayOut'
  BY AlignmentUnchanged DEF IInv, RejectedStayOut
<1> QED
  BY <1>1, <1>2, <1>3, <1>4, <1>5

(* Without writes, the phase reads the tables.                             *)
LEMMA ViewWithoutWrites ==
  ASSUME TypeOK, written = Nothing
  PROVE  View = link
  BY NothingIsEmpty DEF TypeOK, View

(* The pins, and the names they complete.                                  *)
LEMMA StartPreservesIInv ==
  ASSUME IInv, NEW rebuild \in BOOLEAN, Start(rebuild)
  PROVE  IInv'
<1> DEFINE links == Pinned(Existing, link)
           completed == {p \in Persons : IsSingleton(Attested(p, links))}
<1>1. /\ TypeOK /\ Coherent /\ Vacant /\ Referenced /\ PinsAllowed /\ Quiet
      /\ stage = "idle" /\ stage' = "pinned"
      /\ written = Nothing /\ named = Nothing /\ given = Nothing
  BY DEF IInv, Start, Quiet
<1>2. /\ written' = Writing(links)
      /\ named' = [p \in completed |-> Sole(Attested(p, links))]
      /\ index' = [index EXCEPT !.conflicting = Conflicting(links)]
      /\ remarked' \subseteq Existing /\ disturbed' = FALSE
  BY DEF Start
<1>3. UNCHANGED <<tables, queue, copied, candidates, todo, batch, pinsRead, taken, toCreate,
                  rejectedRead, given, late, counters>>
  BY DEF Start
<1>4. /\ links \in [Contribs -> Links]
      /\ \A c \in Contribs : links[c] # link[c] =>
               /\ c \in Existing
               /\ \/ links[c] = Unlinked
                  \/ \E s \in Members(c) : pin[s] = links[c].person /\ pin[s] # NoPerson
      /\ \A c \in Contribs : links[c] # link[c] /\ links[c].person # NoPerson =>
               \A o \in Rivals(c) : link[o].person = links[c].person => links[o] # link[o]
  BY <1>1, PinnedMeans
<1>5. /\ IsPartial(written', Contribs, Links)
      /\ DOMAIN written' = {d \in Contribs : links[d] # link[d]}
      /\ \A c \in DOMAIN written' : written'[c] = links[c]
  BY <1>1, <1>2, <1>4, WritingMeans, ViewWithoutWrites, NothingIsEmpty
<1>6. ASSUME NEW p \in completed
      PROVE  /\ p \in Persons /\ named'[p] \in Names
             /\ <<personName[p], named'[p]>> \in Extends
  <2>1. Sole(Attested(p, links)) \in Attested(p, links)
    BY SoleIsMember
  <2> HIDE DEF links
  <2> QED
    BY <1>2, <2>1, ProfilesAssumption DEF Attested
<1> HIDE DEF links, completed
<1>7. TypeOK'
  <2>1. UNCHANGED <<aligned, issued, link, pin, rejected, personName, form, attribution>>
    BY <1>3 DEF tables
  <2>2. {queue, remarked, copied, candidates, toCreate}' \subseteq SUBSET Contribs
    BY <1>1, <1>2, <1>3, ContributionHasPublication DEF TypeOK
  <2>3. index' \in IndexType
    BY <1>1, <1>2 DEF TypeOK, IndexType, Conflicting
  <2>4. IsPartial(named', Persons, Names)
    BY <1>2, <1>6 DEF IsPartial
  <2>5. IsPartial(given', Values, Attributions)
    BY <1>1, <1>3 DEF TypeOK
  <2>6. disturbed' \in BOOLEAN
    BY <1>2, Zenon
  <2>7. UNCHANGED <<requests, regroups, failures, late, todo, batch, pinsRead, taken, rejectedRead>>
    BY <1>3 DEF counters
  <2> QED
    BY <1>1, <1>5, <2>1, <2>2, <2>3, <2>4, <2>5, <2>6, <2>7 DEF TypeOK, IndexType
<1>8. Coherent' /\ Vacant' /\ Referenced' /\ PinsAllowed' /\ RejectedStayOut'
  BY <1>3, TablesUnchanged DEF tables
<1>9. Quiet'
  BY <1>1, <1>3, AlignmentUnchanged DEF Quiet, tables
<1>10. WritesAreAllowed'
  <2> SUFFICES ASSUME NEW c \in DOMAIN written'
               PROVE  /\ c \in Existing
                      /\ written'[c].person # NoPerson => NameView'[written'[c].person] # NoName
                      /\ <<PubOfContrib(c), written'[c].person>> \notin rejected
    BY <1>3, AlignmentUnchanged DEF WritesAreAllowed, tables
  <2>1. c \in Existing /\ c \in Contribs /\ written'[c] = links[c]
    BY <1>4, <1>5
  <2>2. CASE links[c] = Unlinked
    BY <1>1, <2>1, <2>2, RejectedArePersons DEF Unlinked
  <2>3. CASE \E s \in Members(c) : pin[s] = links[c].person /\ pin[s] # NoPerson
    <3>1. PICK s \in Members(c) : pin[s] = links[c].person /\ pin[s] # NoPerson
      BY <2>3
    <3>2. s \in Sources /\ PubOf[s] = PubOfContrib(c)
      BY <1>1, <2>1, ContributionHasPublication
    <3>3. pin[s] \in Persons /\ personName[pin[s]] # NoName /\ <<PubOf[s], pin[s]>> \notin rejected
      BY <1>1, <3>1, <3>2 DEF TypeOK, Referenced, PinsAllowed
    <3>4. NameView'[pin[s]] # NoName
      BY <1>2, <1>3, <1>6, <3>3, NamesAssumption DEF NameView, tables
    <3> QED
      BY <2>1, <3>1, <3>2, <3>3, <3>4
  <2> QED
    BY <1>4, <1>5, <2>1, <2>2, <2>3
<1>11. PinnedAreLocked'
  <2>1. \A d : Rivals(d)' = Rivals(d)
    BY <1>3, AlignmentUnchanged DEF tables
  <2>2. \A d \in Contribs : \A o \in Rivals(d) : o \in Contribs
    BY <1>1, ContributionHasPublication DEF Rivals
  <2> QED
    BY <1>3, <1>4, <1>5, <2>1, <2>2 DEF PinnedAreLocked, tables
<1>12. NamesAreCompleted'
  BY <1>2, <1>3, <1>6 DEF NamesAreCompleted, tables
<1>13. ReadingsAreCurrent' /\ CreationsAreOwn'
  BY <1>1 DEF ReadingsAreCurrent, CreationsAreOwn
<1> QED
  BY <1>7, <1>8, <1>9, <1>10, <1>11, <1>12, <1>13 DEF IInv

(* A step of the phase that writes nothing.                                *)
LEMMA WritesUnchanged ==
  ASSUME IInv, stage \in {"pinned", "deciding"},
         UNCHANGED <<aligned, rejected, personName, written, named>>, late \subseteq late'
  PROVE  WritesAreAllowed' /\ NamesAreCompleted'
<1>1. NameView' = NameView
  BY DEF NameView
<1>2. WritesAreAllowed'
  BY <1>1, AlignmentUnchanged DEF IInv, WritesAreAllowed
<1>3. NamesAreCompleted'
  BY DEF IInv, NamesAreCompleted
<1> QED
  BY <1>2, <1>3

------------------------------------------------------------------------------
(* The readings of the phase                                               *)

(* The candidates, the index and the rejections.                           *)
LEMMA PreparePreservesIInv ==
  ASSUME IInv, Prepare
  PROVE  IInv'
<1>1. /\ TypeOK /\ Coherent /\ Quiet
      /\ stage = "pinned" /\ stage' = "deciding"
      /\ toCreate = {} /\ pinsRead = [c \in Contribs |-> {}]
  BY DEF IInv, Prepare, Quiet
<1>2. UNCHANGED <<tables, queue, remarked, batch, pinsRead, taken, toCreate, overlay,
                  disturbed, late, counters>>
  BY DEF Prepare
<1>3. /\ candidates' \subseteq Existing
      /\ todo' = {PubOfContrib(c) : c \in candidates'}
      /\ index' = IndexOf(FormView, NameView, AttributionView, index.conflicting)
      /\ rejectedRead' = rejected /\ copied' = queue
  BY DEF Prepare
<1>4. TypeOK'
  <2>1. UNCHANGED <<aligned, issued, link, pin, rejected, personName, form, attribution>>
    BY <1>2 DEF tables
  <2>2. {queue, remarked, copied, candidates, toCreate}' \subseteq SUBSET Contribs
    BY <1>1, <1>2, <1>3, ContributionHasPublication DEF TypeOK
  <2>3. index' \in IndexType
    <3>1. index.conflicting \in SUBSET Persons
      BY <1>1 DEF TypeOK
    <3> QED
      BY <1>1, <1>3, <3>1, ViewsAreTyped DEF IndexType, IndexOf, Attributions
  <2>4. {todo, batch}' \subseteq SUBSET Pubs
    BY <1>1, <1>2, <1>3, ContributionHasPublication DEF TypeOK
  <2>5. disturbed' \in BOOLEAN
    BY <1>1, <1>2, Zenon DEF TypeOK
  <2>6. UNCHANGED <<requests, regroups, failures, late, written, named, given, pinsRead, taken>>
    BY <1>2 DEF counters, overlay
  <2> QED
    BY <1>1, <1>3, <2>1, <2>2, <2>3, <2>4, <2>5, <2>6 DEF TypeOK, IndexType
<1>5. Coherent' /\ Vacant' /\ Referenced' /\ PinsAllowed' /\ RejectedStayOut'
  BY <1>2, TablesUnchanged DEF tables
<1>6. Quiet'
  BY <1>1, <1>2, <1>3, AlignmentUnchanged DEF Quiet, tables
<1>7. WritesAreAllowed' /\ NamesAreCompleted'
  BY <1>1, <1>2, WritesUnchanged DEF tables, overlay
<1>8. PinnedAreLocked'
  BY <1>1 DEF PinnedAreLocked
<1>9. ReadingsAreCurrent'
  <2>1. \A c \in Existing' : pinsRead'[c] = {}
    BY <1>1, <1>2, AlignmentUnchanged, ContributionHasPublication DEF tables
  <2> QED
    BY <1>2, <1>3, <2>1 DEF ReadingsAreCurrent, tables
<1>10. CreationsAreOwn'
  BY <1>1, <1>2 DEF CreationsAreOwn
<1> QED
  BY <1>4, <1>5, <1>6, <1>7, <1>8, <1>9, <1>10 DEF IInv

(* A batch: its pins are those the rejections left.                        *)
LEMMA LoadBatchPreservesIInv ==
  ASSUME IInv, LoadBatch
  PROVE  IInv'
<1>1. /\ TypeOK /\ Coherent /\ Quiet /\ PinsAllowed /\ ReadingsAreCurrent /\ CreationsAreOwn
      /\ stage = "deciding" /\ stage' = "deciding"
  BY DEF IInv, LoadBatch
<1>2. UNCHANGED <<tables, queue, stage, copied, remarked, candidates, toCreate, index,
                  rejectedRead, overlay, disturbed, late, counters>>
  BY DEF LoadBatch
<1>3. PICK b \in todo :
          /\ batch' = {b}
          /\ todo' = todo \ {b}
          /\ pinsRead' = [c \in Contribs |->
                             IF c \in candidates /\ PubOfContrib(c) = b THEN PinsOf(c) ELSE {}]
          /\ taken' = [taken EXCEPT ![b] = {View[c].person :
                          c \in {o \in Existing \ candidates : PubOfContrib(o) = b}} \ {NoPerson}]
  BY DEF LoadBatch
<1>4. ASSUME NEW c \in Existing, NEW p \in PinsOf(c)
      PROVE  p \in Persons /\ <<PubOfContrib(c), p>> \notin rejected
  <2>1. PICK s \in Members(c) : pin[s] = p /\ p # NoPerson
    BY DEF PinsOf
  <2>2. s \in Sources /\ PubOf[s] = PubOfContrib(c)
    BY <1>1, ContributionHasPublication
  <2> QED
    BY <1>1, <2>1, <2>2 DEF TypeOK, PinsAllowed
<1>5. TypeOK'
  <2>1. UNCHANGED <<aligned, issued, link, pin, rejected, personName, form, attribution,
                    stage, candidates, toCreate, queue, copied, remarked, index, rejectedRead>>
    BY <1>2 DEF tables
  <2>2. pinsRead' \in [Contribs -> SUBSET Persons]
    BY <1>1, <1>3, <1>4 DEF Quiet
  <2>3. {todo, batch}' \subseteq SUBSET Pubs
    BY <1>1, <1>3 DEF TypeOK
  <2>4. taken' \in [Pubs -> SUBSET Persons]
    <3>1. \A c \in Existing : View[c].person \in Persons \cup {NoPerson}
      BY <1>1, ViewsAreTyped, ContributionHasPublication DEF Links
    <3> QED
      BY <1>1, <1>3, <3>1 DEF TypeOK
  <2>5. disturbed' \in BOOLEAN
    BY <1>1, <1>2, Zenon DEF TypeOK
  <2>6. UNCHANGED <<requests, regroups, failures, late, written, named, given>>
    BY <1>2 DEF counters, overlay
  <2> QED
    BY <1>1, <2>1, <2>2, <2>3, <2>4, <2>5, <2>6 DEF TypeOK
<1>6. Coherent' /\ Vacant' /\ Referenced' /\ PinsAllowed' /\ RejectedStayOut'
  BY <1>2, TablesUnchanged DEF tables
<1>7. Quiet'
  BY <1>1, <1>2, AlignmentUnchanged DEF Quiet, tables
<1>8. WritesAreAllowed' /\ NamesAreCompleted'
  BY <1>1, <1>2, WritesUnchanged DEF tables, overlay
<1>9. PinnedAreLocked'
  BY <1>1 DEF PinnedAreLocked
<1>10. ReadingsAreCurrent'
  <2>1. Existing' = Existing /\ \A c : PubOfContrib(c)' = PubOfContrib(c)
    BY <1>2, AlignmentUnchanged DEF tables
  <2>2. ASSUME NEW c \in Existing, NEW p \in pinsRead'[c]
        PROVE  <<PubOfContrib(c), p>> \notin rejected
    <3>1. c \in Contribs
      BY <1>1, ContributionHasPublication
    <3> QED
      BY <1>3, <1>4, <2>2, <3>1
  <2> QED
    BY <1>1, <1>2, <2>1, <2>2 DEF ReadingsAreCurrent, tables
<1>11. CreationsAreOwn'
  <2>1. \A c : Members(c)' = Members(c) /\ PubOfContrib(c)' = PubOfContrib(c)
    BY <1>2, AlignmentUnchanged DEF tables
  <2>2. UNCHANGED <<index, rejectedRead, toCreate, named, personName>>
    BY <1>2 DEF tables, overlay
  <2>3. Created' = Created
    BY <2>2 DEF Created
  <2>4. ASSUME NEW c PROVE DesignatedByCreated(c)' <=> DesignatedByCreated(c)
    BY <2>1, <2>2, <2>3 DEF DesignatedByCreated, NamedBy, Identified, BarredIn, CompatiblePersons,
                            Corroborates, Holder, Active
  <2> QED
    BY <1>1, <2>2, <2>4 DEF CreationsAreOwn
<1> QED
  BY <1>5, <1>6, <1>7, <1>8, <1>9, <1>10, <1>11 DEF IInv

------------------------------------------------------------------------------
(* The writes of the phase                                                 *)

(* A decision to create stays one while the persons created increase.      *)
LEMMA CreationsUnchanged ==
  ASSUME UNCHANGED <<aligned, index, rejectedRead>>, Created \subseteq Created',
         NEW c, DesignatedByCreated(c)
  PROVE  DesignatedByCreated(c)'
<1>1. Members(c)' = Members(c) /\ PubOfContrib(c)' = PubOfContrib(c)
  BY AlignmentUnchanged
<1> QED
  BY <1>1 DEF DesignatedByCreated, NamedBy, Identified, BarredIn, CompatiblePersons,
              Corroborates, Holder, Active

(* The decisions of a batch: persons the rejections allow, but for the     *)
(* late ones, and creations nobody that exists is designated for.          *)
LEMMA DecidedMeans ==
  ASSUME IInv, stage = "deciding", NEW b \in Pubs,
         NEW cs, cs = {c \in candidates : PubOfContrib(c) = b},
         NEW decided,
         decided = Settle([c \in cs |-> Decide(Members(c), pinsRead[c], index,
                                               BarredIn(b, rejectedRead))], taken[b])
  PROVE  /\ DOMAIN decided = cs /\ cs \subseteq Existing
         /\ \A c \in cs :
               /\ decided[c].person \in Persons \cup {NoPerson}
               /\ IsMatch(decided[c]) => decided[c].person \in Persons
               /\ IsMatch(decided[c]) /\ <<b, decided[c].person>> \in rejected
                  => decided[c].person \in late
               /\ decided[c].by = "create" => DesignatedByCreated(c)
<1> DEFINE raw == [c \in cs |-> Decide(Members(c), pinsRead[c], index, BarredIn(b, rejectedRead))]
<1>1. DOMAIN decided = cs
  BY DEF Settle
<1>2. cs \subseteq Existing /\ TypeOK /\ Coherent /\ ReadingsAreCurrent
  BY DEF IInv, Quiet
<1>3. SUFFICES ASSUME NEW c \in cs
               PROVE  /\ decided[c].person \in Persons \cup {NoPerson}
                      /\ IsMatch(decided[c]) => decided[c].person \in Persons
                      /\ IsMatch(decided[c]) /\ <<b, decided[c].person>> \in rejected
                         => decided[c].person \in late
                      /\ decided[c].by = "create" => DesignatedByCreated(c)
  BY <1>1, <1>2
<1>4. /\ c \in Contribs /\ PubOfContrib(c) = b /\ Members(c) \in SUBSET Sources
      /\ pinsRead[c] \in SUBSET Persons /\ index \in IndexType
  BY <1>2, ContributionHasPublication DEF TypeOK, IndexType
<1>5. PICK d : d = Decide(Members(c), pinsRead[c], index, BarredIn(b, rejectedRead))
  OBVIOUS
<1>6. Justified(d, Members(c), pinsRead[c], index, BarredIn(b, rejectedRead))
  <2>1. PICK m \in SUBSET Sources, pins \in SUBSET Persons,
               barred \in SUBSET Persons :
           m = Members(c) /\ pins = pinsRead[c] /\ barred = BarredIn(b, rejectedRead)
    BY <1>4 DEF BarredIn
  <2>2. Justified(Decide(m, pins, index, barred), m, pins, index, barred)
    BY <1>4, DecisionMeans
  <2> QED
    BY <1>5, <2>1, <2>2
<1>7. IsMatch(d) => d.person \in Persons
  BY <1>4, <1>6, DesignatedArePersons DEF Justified, IsMatch
<1>8. IsMatch(d) /\ <<b, d.person>> \in rejected => d.person \in late
  <2> SUFFICES ASSUME IsMatch(d), <<b, d.person>> \in rejected PROVE d.person \in late
    OBVIOUS
  <2>1. CASE d.person \in pinsRead[c]
    BY <1>2, <1>3, <1>4, <1>7, <2>1 DEF ReadingsAreCurrent
  <2>2. CASE d.person \notin BarredIn(b, rejectedRead)
    BY <1>2, <1>7, <2>2 DEF ReadingsAreCurrent, BarredIn
  <2> QED
    BY <1>6, <2>1, <2>2 DEF Justified, IsMatch
<1>9. d.by = "create" => DesignatedByCreated(c)
  BY <1>4, <1>6 DEF DesignatedByCreated, Justified
<1>10. \/ decided[c] = d
       \/ decided[c].by = "skip" /\ decided[c].person = NoPerson
  <2>1. c \in DOMAIN raw /\ raw[c] = d
    BY <1>5
  <2> HIDE DEF raw
  <2>2. decided = Settle(raw, taken[b])
    BY DEF raw
  <2> QED
    BY <2>1, <2>2, SettlementMeans
<1> QED
  BY <1>6, <1>7, <1>8, <1>9, <1>10 DEF IsMatch, Justified

(* The attributions the phase writes.                                      *)
LEMMA AttributedIsTyped ==
  ASSUME TypeOK, NEW decided, DOMAIN decided \subseteq Contribs,
         \A c \in DOMAIN decided : decided[c].person \in Persons \cup {NoPerson}
  PROVE  IsPartial(Attributed(decided), Values, Attributions)
<1> DEFINE carriers(v) ==
               {c \in DOMAIN decided : /\ IsMatch(decided[c])
                                       /\ v \notin decided[c].refused
                                       /\ decided[c].person # AttributionView[v].person
                                       /\ \E s \in Members(c) : ValueOf[s] = v}
           moved == {v \in Values : /\ carriers(v) # {}
                                    /\ \/ AttributionView[v].person = NoPerson
                                       \/ AttributionView[v].rejected}
<1>1. Attributed(decided) =
        [v \in DOMAIN given \cup moved |->
            IF v \in moved
            THEN [person |-> decided[Smallest(carriers(v))].person, rejected |-> FALSE]
            ELSE given[v]]
  BY DEF Attributed
<1>2. ASSUME NEW v \in moved PROVE Smallest(carriers(v)) \in DOMAIN decided
  <2>1. carriers(v) # {} /\ carriers(v) \subseteq DOMAIN decided /\ carriers(v) \subseteq Nat
    BY SourcesAreNumbers
  <2> HIDE DEF carriers
  <2> QED
    BY <2>1, SmallestIsMember
<1>3. moved \subseteq Values
  OBVIOUS
<1> HIDE DEF moved
<1>4. \A v \in moved : [person |-> decided[Smallest(carriers(v))].person, rejected |-> FALSE]
                       \in Attributions
  BY <1>2 DEF Attributions
<1>5. IsPartial(given, Values, Attributions)
  BY DEF TypeOK
<1> HIDE DEF carriers
<1> QED
  BY <1>1, <1>3, <1>4, <1>5 DEF IsPartial

(* The rows a batch attaches.                                              *)
LEMMA AttachingMeans ==
  ASSUME NEW links \in [Contribs -> Links], NEW decided, DOMAIN decided \subseteq Contribs,
         \A c \in DOMAIN decided : IsMatch(decided[c]) => decided[c].person \in Persons
  PROVE  /\ Attaching(decided, links) \in [Contribs -> Links]
         /\ \A c \in Contribs :
               \/ Attaching(decided, links)[c] = links[c]
               \/ /\ c \in DOMAIN decided /\ IsMatch(decided[c])
                  /\ Attaching(decided, links)[c].person = decided[c].person
  BY DEF Attaching, Links, Modes, IsMatch

(* The decisions of a batch written, or refused by a constraint.           *)
LEMMA WriteBatchPreservesIInv ==
  ASSUME IInv, WriteBatch
  PROVE  IInv'
<1>1. /\ TypeOK /\ Coherent /\ Quiet /\ WritesAreAllowed /\ CreationsAreOwn
      /\ stage = "deciding"
  BY DEF IInv, WriteBatch
<1>2. UNCHANGED <<tables, queue, copied, remarked, candidates, todo, index, rejectedRead,
                  disturbed, late, counters>>
  BY DEF WriteBatch
<1>3. UNCHANGED <<aligned, issued, link, pin, rejected, personName, form, attribution>>
  BY <1>2 DEF tables
<1>4. UNCHANGED <<requests, regroups, failures>>
  BY <1>2 DEF counters
<1>5. disturbed' \in BOOLEAN
  BY <1>1, <1>2, Zenon DEF TypeOK
<1>6. Coherent' /\ Vacant' /\ Referenced' /\ PinsAllowed' /\ RejectedStayOut'
  BY <1>2, <1>3, TablesUnchanged
<1>7. Existing' = Existing /\ \A c : PubOfContrib(c)' = PubOfContrib(c)
  BY <1>3, AlignmentUnchanged
<1>8. PICK b \in batch :
       LET cs == {c \in candidates : PubOfContrib(c) = b}
       IN  \E decided \in {Settle([c \in cs |-> Decide(Members(c), pinsRead[c], index,
                                                      BarredIn(b, rejectedRead))],
                                  taken[b])} :
           \E released \in {Released(decided, View)} :
           IF Refused(decided, released)
           THEN stage' = "conflict" /\ UNCHANGED <<batch, pinsRead, taken, toCreate, overlay>>
           ELSE /\ written' = Writing(Attaching(decided, released))
                /\ given' = Attributed(decided)
                /\ toCreate' = toCreate \cup {c \in cs : decided[c].by = "create"}
                /\ taken' = [taken EXCEPT ![b] =
                      @ \cup {decided[c].person : c \in {d \in cs : IsMatch(decided[d])}}]
                /\ pinsRead' = [c \in Contribs |-> {}]
                /\ batch' = {}
                /\ UNCHANGED <<stage, named>>
  BY DEF WriteBatch
<1> DEFINE cs == {c \in candidates : PubOfContrib(c) = b}
           decided == Settle([c \in cs |-> Decide(Members(c), pinsRead[c], index,
                                                  BarredIn(b, rejectedRead))], taken[b])
           released == Released(decided, View)
           attached == Attaching(decided, released)
<1>9. CASE Refused(decided, released)
  <2>1. stage' = "conflict" /\ UNCHANGED <<batch, pinsRead, taken, toCreate, overlay>>
    BY <1>8, <1>9
  <2>2. UNCHANGED <<written, named, given>>
    BY <2>1 DEF overlay
  <2>3. TypeOK'
    BY <1>1, <1>2, <1>3, <1>4, <1>5, <2>1, <2>2 DEF TypeOK
  <2>4. Quiet'
    BY <1>1, <1>2, <1>7, <2>1 DEF Quiet
  <2>5. WritesAreAllowed' /\ PinnedAreLocked' /\ ReadingsAreCurrent' /\ CreationsAreOwn'
    BY <2>1 DEF WritesAreAllowed, PinnedAreLocked, ReadingsAreCurrent, CreationsAreOwn
  <2>6. NamesAreCompleted'
    BY <1>3, <2>2 DEF IInv, NamesAreCompleted
  <2> QED
    BY <1>6, <2>3, <2>4, <2>5, <2>6 DEF IInv
<1>10. CASE ~ Refused(decided, released)
  <2>1. /\ written' = Writing(attached)
        /\ given' = Attributed(decided)
        /\ toCreate' = toCreate \cup {c \in cs : decided[c].by = "create"}
        /\ taken' = [taken EXCEPT ![b] =
              @ \cup {decided[c].person : c \in {d \in cs : IsMatch(decided[d])}}]
        /\ pinsRead' = [c \in Contribs |-> {}]
        /\ batch' = {}
        /\ UNCHANGED <<stage, named>>
    BY <1>8, <1>10
  <2>2. b \in Pubs
    BY <1>1 DEF TypeOK
  <2>3. /\ DOMAIN decided = cs /\ cs \subseteq Existing
        /\ \A c \in cs :
              /\ decided[c].person \in Persons \cup {NoPerson}
              /\ IsMatch(decided[c]) => decided[c].person \in Persons
              /\ IsMatch(decided[c]) /\ <<b, decided[c].person>> \in rejected
                 => decided[c].person \in late
              /\ decided[c].by = "create" => DesignatedByCreated(c)
    <3> HIDE DEF cs, decided
    <3>1. cs = {c \in candidates : PubOfContrib(c) = b}
      BY DEF cs
    <3>2. decided = Settle([c \in cs |-> Decide(Members(c), pinsRead[c], index,
                                                BarredIn(b, rejectedRead))], taken[b])
      BY DEF decided
    <3> QED
      BY <1>1, <2>2, <3>1, <3>2, DecidedMeans
  <2>4. \A c \in cs : PubOfContrib(c) = b /\ c \in candidates
    OBVIOUS
  <2>5. cs \subseteq Contribs
    BY <1>1, <2>3, ContributionHasPublication
  <2> HIDE DEF cs, decided
  <2>6. /\ released \in [Contribs -> Links]
        /\ \A c \in Contribs : released[c] = View[c] \/ (c \in cs /\ released[c] = Unlinked)
    BY <1>1, <2>3, ViewsAreTyped DEF Released, Links, Unlinked, Modes
  <2>7. \A c \in cs : IsMatch(decided[c]) => NameView[decided[c].person] # NoName
    BY <1>10, <2>3 DEF Refused
  <2> HIDE DEF released
  <2>8. /\ attached \in [Contribs -> Links]
        /\ \A c \in Contribs : \/ attached[c] = released[c]
                               \/ /\ c \in cs /\ IsMatch(decided[c])
                                  /\ attached[c].person = decided[c].person
    BY <2>3, <2>5, <2>6, AttachingMeans
  <2> HIDE DEF attached
  <2>9. /\ IsPartial(written', Contribs, Links)
        /\ DOMAIN written' = DOMAIN written \cup {d \in Contribs : attached[d] # View[d]}
        /\ \A c \in DOMAIN written' : written'[c] = attached[c]
    BY <1>1, <2>1, <2>8, WritingMeans
  <2>10. TypeOK'
    <3>1. IsPartial(given', Values, Attributions)
      BY <1>1, <2>1, <2>3, <2>5, AttributedIsTyped
    <3>2. toCreate' \subseteq Contribs
      BY <1>1, <2>1, <2>5 DEF TypeOK
    <3>3. taken' \in [Pubs -> SUBSET Persons]
      <4>1. PICK more : more = {decided[c].person : c \in {d \in cs : IsMatch(decided[d])}}
        OBVIOUS
      <4>2. more \subseteq Persons
        BY <2>3, <4>1
      <4>3. taken \in [Pubs -> SUBSET Persons] /\ taken' = [taken EXCEPT ![b] = @ \cup more]
        BY <1>1, <2>1, <4>1 DEF TypeOK
      <4> QED
        BY <2>2, <4>2, <4>3
    <3>4. UNCHANGED <<queue, copied, remarked, candidates, todo, index, rejectedRead, late,
                      stage, named>>
      BY <1>2, <2>1
    <3>5. {todo, batch}' \subseteq SUBSET Pubs
      BY <1>1, <2>1, <3>4 DEF TypeOK
    <3>6. pinsRead' \in [Contribs -> SUBSET Persons]
      BY <2>1
    <3> QED
      BY <1>1, <1>3, <1>4, <1>5, <2>9, <3>1, <3>2, <3>3, <3>4, <3>5, <3>6 DEF TypeOK
  <2>11. Quiet'
    BY <1>1, <1>2, <1>7, <2>1, <2>4 DEF Quiet
  <2>12. WritesAreAllowed'
    <3>1. NameView' = NameView
      BY <1>3, <2>1 DEF NameView
    <3> SUFFICES ASSUME NEW c \in DOMAIN written'
                 PROVE  /\ c \in Existing
                        /\ written'[c].person # NoPerson => NameView[written'[c].person] # NoName
                        /\ <<PubOfContrib(c), written'[c].person>> \in rejected
                           => written'[c].person \in late
      BY <1>2, <1>3, <1>7, <3>1 DEF WritesAreAllowed
    <3>2. c \in Contribs /\ written'[c] = attached[c]
      BY <2>9 DEF IsPartial
    <3>3. CASE c \in cs /\ IsMatch(decided[c]) /\ attached[c].person = decided[c].person
      BY <2>3, <2>4, <2>7, <3>2, <3>3
    <3>4. CASE c \in cs /\ attached[c] = Unlinked
      BY <1>1, <2>3, <3>2, <3>4, RejectedArePersons DEF Unlinked
    <3>5. CASE attached[c] = View[c]
      <4>1. c \in DOMAIN written /\ View[c] = written[c]
        BY <2>9, <3>2, <3>5 DEF View
      <4> QED
        BY <1>1, <3>2, <3>5, <4>1 DEF WritesAreAllowed
    <3> QED
      BY <2>6, <2>8, <3>2, <3>3, <3>4, <3>5
  <2>13. NamesAreCompleted'
    BY <1>3, <2>1 DEF IInv, NamesAreCompleted
  <2>14. PinnedAreLocked'
    BY <1>1, <2>1 DEF PinnedAreLocked
  <2>15. ReadingsAreCurrent'
    <3>1. \A c \in Existing : pinsRead'[c] = {}
      BY <1>1, <2>1, ContributionHasPublication
    <3> QED
      BY <1>1, <1>2, <1>3, <1>7, <3>1 DEF IInv, ReadingsAreCurrent
  <2>16. CreationsAreOwn'
    <3>1. Created' = Created
      BY <1>3, <2>1 DEF Created
    <3>2. \A c \in toCreate' : DesignatedByCreated(c)
      BY <1>1, <2>1, <2>3 DEF CreationsAreOwn
    <3> QED
      BY <1>2, <1>3, <3>1, <3>2, CreationsUnchanged DEF CreationsAreOwn
  <2> QED
    BY <1>6, <2>10, <2>11, <2>12, <2>13, <2>14, <2>15, <2>16 DEF IInv
<1> QED
  BY <1>9, <1>10

------------------------------------------------------------------------------
(* The creations of the phase                                              *)

(* A person that enters the index designates itself, and makes nobody else *)
(* designated.                                                             *)
LEMMA RegisteredMeans ==
  ASSUME TypeOK, Coherent, NEW p \in Persons, index.name[p] = NoName, p \notin Created,
         NEW n \in Names, NEW m, NEW refused, index' = Registered(p, n, m, refused),
         UNCHANGED <<aligned, rejectedRead>>, Created' = Created \cup {p},
         NEW c \in Existing, DesignatedByCreated(c)
  PROVE  DesignatedByCreated(c)'
<1>1. Members(c)' = Members(c) /\ PubOfContrib(c)' = PubOfContrib(c)
  BY AlignmentUnchanged
<1>2. index \in IndexType
  BY DEF TypeOK, IndexType
<1>3. /\ index'.conflicting = index.conflicting
      /\ \A q \in Persons \ {p} : index'.form[q] = index.form[q] /\ index'.name[q] = index.name[q]
      /\ \A v \in Values : index'.holder[v] \in {index.holder[v], p}
  BY <1>2 DEF Registered, IndexType
<1>4. SUFFICES ASSUME NEW s \in Members(c)
               PROVE  /\ NamedBy(s, index') \subseteq Created \cup {p}
                      /\ Identified(s, index')
                         \subseteq Created \cup {p} \cup BarredIn(PubOfContrib(c), rejectedRead)
  BY <1>1 DEF DesignatedByCreated, NamedBy, Identified, BarredIn, CompatiblePersons,
              Corroborates, Holder, Active
<1>5. /\ s \in Sources /\ NameOf[s] \in Names
      /\ NamedBy(s, index) \subseteq Created
      /\ Identified(s, index) \subseteq Created \cup BarredIn(PubOfContrib(c), rejectedRead)
  BY ContributionHasPublication, ProfilesAssumption DEF DesignatedByCreated
<1>6. Identified(s, index')
      \subseteq Created \cup {p} \cup BarredIn(PubOfContrib(c), rejectedRead)
  <2> SUFFICES ASSUME NEW q \in Identified(s, index'), q # p
               PROVE  q \in Identified(s, index)
    BY <1>5
  <2>1. q \in Persons /\ q # NoPerson /\ q = Holder(s, index') /\ Corroborates(s, q, index')
    <3>1. Holder(s, index') \in Persons \cup {NoPerson}
      BY <1>2, <1>3, <1>5, ProfilesAssumption DEF Holder, IndexType
    <3> QED
      BY <3>1 DEF Identified
  <2>2. Holder(s, index) = q
    BY <1>3, <1>5, <2>1, ProfilesAssumption DEF Holder
  <2>3. Corroborates(s, q, index)
    BY <1>3, <2>1 DEF Corroborates
  <2> QED
    BY <2>1, <2>2, <2>3 DEF Identified
<1>7. NamedBy(s, index') \subseteq Created \cup {p}
  <2> DEFINE exact(idx) == {q \in Persons : Active(q, NameOf[s], idx.form)}
  <2>1. \A idx : NamedBy(s, idx) = IF exact(idx) # {} THEN exact(idx)
                                   ELSE CompatiblePersons(NameOf[s], idx)
    BY DEF NamedBy
  <2>2. \A q \in Persons \ {p} : q \in exact(index') <=> q \in exact(index)
    BY <1>3 DEF Active
  <2>3. exact(index) \subseteq Created /\ exact(index') \subseteq Persons
    BY <1>5, <2>1
  <2> HIDE DEF exact
  <2>4. CASE exact(index') # {}
    <3>1. \A q \in exact(index') : q = p \/ q \in exact(index)
      BY <2>2, <2>3
    <3> QED
      BY <2>1, <2>3, <2>4, <3>1
  <2>5. CASE exact(index') = {}
    <3>1. exact(index) = {}
      BY <2>2, <2>3, <2>5 DEF Created, TypeOK, IsPartial
    <3>2. CompatiblePersons(NameOf[s], index) \subseteq Created
      BY <1>5, <2>1, <3>1
    <3>3. CompatiblePersons(NameOf[s], index')
          \subseteq CompatiblePersons(NameOf[s], index) \cup {p}
      <4>1. \A q : <<q, NoName>> \notin Extends
        BY NamesAssumption
      <4>2. CASE NameOf[s] \in Reduced
        BY <1>3, <4>2 DEF CompatiblePersons
      <4>3. CASE NameOf[s] \notin Reduced
        <5> SUFFICES ASSUME NEW q \in CompatiblePersons(NameOf[s], index'), q # p
                     PROVE  q \in CompatiblePersons(NameOf[s], index)
          OBVIOUS
        <5>1. /\ q \in Persons \ index'.conflicting
              /\ <<index'.name[q], NameOf[s]>> \in Extends
              /\ \A r \in Persons : <<index'.name[q], index'.name[r]>> \notin Extends
          BY <4>3 DEF CompatiblePersons
        <5>2. \A r \in Persons : <<index.name[q], index.name[r]>> \notin Extends
          BY <1>3, <4>1, <5>1
        <5> QED
          BY <1>3, <4>3, <5>1, <5>2 DEF CompatiblePersons
      <4> QED
        BY <4>2, <4>3
    <3> QED
      BY <2>1, <2>5, <3>2, <3>3
  <2> QED
    BY <2>4, <2>5
<1> QED
  BY <1>6, <1>7

(* One contribution attached to a person created in the transaction.       *)
LEMMA AttachedOneMeans ==
  ASSUME IInv, stage = "deciding", NEW c \in Existing, NEW p \in Persons, NEW decided,
         DOMAIN decided = {c}, decided[c].person = p,
         <<PubOfContrib(c), p>> \notin rejected,
         UNCHANGED <<aligned, rejected, late>>,
         \A q : q \in Persons /\ NameView[q] # NoName => NameView'[q] # NoName,
         NameView'[p] # NoName,
         written' = Writing(Attaching(decided, View)), given' = Attributed(decided)
  PROVE  /\ WritesAreAllowed'
         /\ IsPartial(written', Contribs, Links) /\ IsPartial(given', Values, Attributions)
<1>1. TypeOK /\ Coherent /\ WritesAreAllowed /\ c \in Contribs
  BY ContributionHasPublication DEF IInv
<1>2. IsPartial(given', Values, Attributions)
  BY <1>1, AttributedIsTyped
<1>3. View \in [Contribs -> Links]
  BY <1>1, ViewsAreTyped
<1> DEFINE attached == Attaching(decided, View)
<1>4. /\ attached \in [Contribs -> Links]
      /\ \A d \in Contribs : attached[d] = View[d] \/ (d = c /\ attached[d].person = p)
  BY <1>1, <1>3, AttachingMeans
<1> HIDE DEF attached
<1>5. /\ IsPartial(written', Contribs, Links)
      /\ DOMAIN written' = DOMAIN written \cup {d \in Contribs : attached[d] # View[d]}
      /\ \A d \in DOMAIN written' : written'[d] = attached[d]
  <2>1. written' = Writing(attached)
    BY DEF attached
  <2> QED
    BY <1>1, <1>4, <2>1, WritingMeans
<1>6. Existing' = Existing /\ \A d : PubOfContrib(d)' = PubOfContrib(d)
  BY AlignmentUnchanged
<1>7. ASSUME NEW d \in DOMAIN written'
      PROVE  /\ d \in Existing
             /\ written'[d].person # NoPerson => NameView'[written'[d].person] # NoName
             /\ <<PubOfContrib(d), written'[d].person>> \in rejected => written'[d].person \in late
  <2>1. d \in Contribs /\ written'[d] = attached[d] /\ attached[d].person \in Persons \cup {NoPerson}
    BY <1>4, <1>5 DEF IsPartial, Links
  <2>2. CASE d = c /\ attached[d].person = p
    BY <2>1, <2>2
  <2>3. CASE attached[d] = View[d]
    <3>1. d \in DOMAIN written /\ View[d] = written[d]
      BY <1>5, <2>1, <2>3 DEF View
    <3> QED
      BY <1>1, <2>1, <2>3, <3>1 DEF WritesAreAllowed
  <2> QED
    BY <1>4, <2>1, <2>2, <2>3
<1>8. WritesAreAllowed'
  BY <1>6, <1>7 DEF WritesAreAllowed
<1> QED
  BY <1>2, <1>5, <1>8

(* A creation: the person is new, or one created in the same transaction.  *)
LEMMA CreateNextPreservesIInv ==
  ASSUME IInv, CreateNext
  PROVE  IInv'
<1>1. /\ TypeOK /\ Coherent /\ Referenced /\ Quiet /\ CreationsAreOwn /\ ReadingsAreCurrent
      /\ WritesAreAllowed /\ NamesAreCompleted
      /\ stage = "deciding"
  BY DEF IInv, CreateNext
<1>2. UNCHANGED <<tables, queue, stage, copied, remarked, candidates, todo, batch, pinsRead,
                  rejectedRead, disturbed, late, counters>>
  BY DEF CreateNext
<1>3. UNCHANGED <<aligned, issued, link, pin, rejected, personName, form, attribution>>
  BY <1>2 DEF tables
<1>4. UNCHANGED <<requests, regroups, failures>>
  BY <1>2 DEF counters
<1>5. disturbed' \in BOOLEAN
  BY <1>1, <1>2, Zenon DEF TypeOK
<1>6. Coherent' /\ Vacant' /\ Referenced' /\ PinsAllowed' /\ RejectedStayOut'
  BY <1>2, <1>3, TablesUnchanged
<1>7. Existing' = Existing /\ \A c : PubOfContrib(c)' = PubOfContrib(c)
  BY <1>3, AlignmentUnchanged
<1>8. PICK c \in toCreate :
       LET b == PubOfContrib(c)
           free == {p \in Persons : NameView[p] = NoName /\ index.name[p] = NoName}
           n == FoundingName(Members(c))
       IN  /\ \A d \in toCreate : b < PubOfContrib(d) \/ (b = PubOfContrib(d) /\ c <= d)
           /\ toCreate' = toCreate \ {c}
           /\ \E d \in {Decide(Members(c), {}, index, BarredIn(b, rejectedRead))} :
              LET founds == d.by = "create"
                  attached == founds \/ (IsMatch(d) /\ d.person \notin taken[b])
              IN  \E p \in IF founds THEN {q \in free : \A r \in free : q <= r} ELSE {d.person} :
                  LET decided == [x \in {c} |->
                                     Decision(p, IF founds THEN "name" ELSE d.by, d.refused)]
                  IN  /\ written' = IF attached THEN Writing(Attaching(decided, View)) ELSE written
                      /\ given' = IF attached THEN Attributed(decided) ELSE given
                      /\ taken' = IF attached THEN [taken EXCEPT ![b] = @ \cup {p}] ELSE taken
                      /\ named' = IF founds THEN [q \in DOMAIN named \cup {p} |->
                                                    IF q = p THEN n ELSE named[q]] ELSE named
                      /\ index' = IF founds THEN Registered(p, n, Members(c), d.refused)
                                            ELSE index
  BY DEF CreateNext
<1> DEFINE b == PubOfContrib(c)
           free == {p \in Persons : NameView[p] = NoName /\ index.name[p] = NoName}
           n == FoundingName(Members(c))
<1>9. PICK d, founds, attached, p, decided :
           /\ d = Decide(Members(c), {}, index, BarredIn(b, rejectedRead))
           /\ founds \in BOOLEAN /\ attached \in BOOLEAN
           /\ founds <=> d.by = "create"
           /\ attached <=> founds \/ (IsMatch(d) /\ d.person \notin taken[b])
           /\ founds => p \in free
           /\ ~ founds => p = d.person
           /\ decided = [x \in {c} |-> Decision(p, IF founds THEN "name" ELSE d.by, d.refused)]
           /\ attached => /\ written' = Writing(Attaching(decided, View))
                          /\ given' = Attributed(decided)
                          /\ taken' = [taken EXCEPT ![b] = @ \cup {p}]
           /\ ~ attached => UNCHANGED <<written, given, taken>>
           /\ founds => /\ named' = [q \in DOMAIN named \cup {p} |-> IF q = p THEN n ELSE named[q]]
                        /\ index' = Registered(p, n, Members(c), d.refused)
           /\ ~ founds => UNCHANGED <<named, index>>
  BY <1>8
<1>10. /\ c \in toCreate /\ c \in candidates /\ toCreate' = toCreate \ {c}
       /\ c \in Existing /\ c \in Contribs
       /\ b \in Pubs /\ Members(c) \in SUBSET Sources /\ Members(c) # {}
       /\ DesignatedByCreated(c)
  BY <1>1, <1>8, ContributionHasPublication DEF Quiet, CreationsAreOwn
<1>11. n \in Names
  BY <1>10, FoundingNameIsName
<1> HIDE DEF n
<1>12. Justified(d, Members(c), {}, index, BarredIn(b, rejectedRead))
  <2>1. index \in IndexType
    BY <1>1 DEF TypeOK, IndexType
  <2> HIDE DEF b
  <2> QED
    BY <1>9, <1>10, <2>1, DecisionMeans
<1>13. ASSUME attached
       PROVE  /\ p \in Persons /\ personName[p] = NoName
              /\ founds => p \notin DOMAIN named /\ index.name[p] = NoName
              /\ ~ founds => p \in Created
  <2>1. CASE founds
    BY <1>1, <1>9, <2>1, NamesAssumption DEF NameView, TypeOK, IsPartial
  <2>2. CASE ~ founds
    <3>1. IsMatch(d) /\ p = d.person
      BY <1>9, <1>13, <2>2
    <3>2. d.person \in Created
      BY <1>10, <1>12, <3>1 DEF Justified, DesignatedByCreated, IsMatch
    <3> QED
      BY <1>1, <2>2, <3>1, <3>2 DEF Created, TypeOK, IsPartial
  <2> QED
    BY <2>1, <2>2
<1>14. ASSUME NEW q \in Persons, NameView[q] # NoName PROVE NameView'[q] # NoName
  <2>1. CASE founds
    BY <1>3, <1>9, <1>11, <1>14, <2>1, NamesAssumption DEF NameView
  <2>2. CASE ~ founds
    BY <1>3, <1>9, <1>14, <2>2 DEF NameView
  <2> QED
    BY <2>1, <2>2
<1>15. /\ WritesAreAllowed'
       /\ IsPartial(written', Contribs, Links) /\ IsPartial(given', Values, Attributions)
  <2>1. CASE attached
    <3>1. NameView'[p] # NoName
      <4>1. CASE founds
        BY <1>3, <1>9, <1>11, <1>13, <2>1, <4>1, NamesAssumption DEF NameView
      <4>2. CASE ~ founds
        BY <1>1, <1>3, <1>9, <1>13, <2>1, <4>2, NamesAssumption
           DEF NameView, Created, TypeOK, IsPartial
      <4> QED
        BY <4>1, <4>2
    <3>2. <<b, p>> \notin rejected
      BY <1>1, <1>13, <2>1 DEF Referenced
    <3>3. DOMAIN decided = {c} /\ decided[c].person = p
      BY <1>9 DEF Decision
    <3>4. written' = Writing(Attaching(decided, View)) /\ given' = Attributed(decided)
      BY <1>9, <2>1
    <3> QED
      BY <1>1, <1>2, <1>3, <1>10, <1>13, <1>14, <2>1, <3>1, <3>2, <3>3, <3>4, AttachedOneMeans
  <2>2. CASE ~ attached
    <3>1. UNCHANGED <<written, named, given>>
      BY <1>9, <2>2
    <3>2. WritesAreAllowed'
      BY <1>1, <1>2, <1>3, <3>1, WritesUnchanged
    <3> QED
      BY <1>1, <3>1, <3>2 DEF TypeOK
  <2> QED
    BY <2>1, <2>2
<1>16. ASSUME founds PROVE Created' = Created \cup {p}
  BY <1>3, <1>9, <1>13, <1>16 DEF Created
<1>17. TypeOK'
  <2>1. IsPartial(named', Persons, Names)
    <3>1. CASE founds
      BY <1>1, <1>9, <1>11, <1>13, <3>1 DEF TypeOK, IsPartial
    <3>2. CASE ~ founds
      BY <1>1, <1>9, <3>2 DEF TypeOK
    <3> QED
      BY <3>1, <3>2
  <2>2. index' \in IndexType
    <3>1. CASE founds
      <4>1. p \in Persons /\ index \in IndexType
        BY <1>1, <1>9, <3>1 DEF TypeOK, IndexType
      <4>2. [k \in Names |-> IF k \in FormsOf(n) THEN "pending" ELSE "none"] \in [Names -> Forms]
        BY DEF Forms
      <4> QED
        <5>1. PICK entry : entry = [k \in Names |-> IF k \in FormsOf(n) THEN "pending" ELSE "none"]
          OBVIOUS
        <5>2. PICK holder : holder =
                 [v \in Values |->
                    IF /\ index.holder[v] = NoPerson /\ v \notin d.refused
                       /\ \E s \in Members(c) : ValueOf[s] = v
                    THEN p ELSE index.holder[v]]
          OBVIOUS
        <5>3. holder \in [Values -> Persons \cup {NoPerson}]
          BY <4>1, <5>2 DEF IndexType
        <5>4. index' = [index EXCEPT !.form[p] = entry, !.name[p] = n, !.holder = holder]
          <6>1. index' = Registered(p, n, Members(c), d.refused)
            BY <1>9, <3>1
          <6> QED
            BY <5>1, <5>2, <6>1 DEF Registered
        <5> QED
          BY <1>11, <4>1, <4>2, <5>1, <5>3, <5>4 DEF IndexType
    <3>2. CASE ~ founds
      BY <1>1, <1>9, <3>2 DEF TypeOK, IndexType
    <3> QED
      BY <3>1, <3>2
  <2>3. taken' \in [Pubs -> SUBSET Persons]
    BY <1>1, <1>9, <1>10, <1>13 DEF TypeOK
  <2>4. toCreate' \subseteq Contribs
    BY <1>1, <1>10 DEF TypeOK
  <2> QED
    BY <1>1, <1>2, <1>3, <1>4, <1>5, <1>15, <2>1, <2>2, <2>3, <2>4 DEF TypeOK, IndexType
<1>18. Quiet'
  BY <1>1, <1>2, <1>7, <1>10 DEF Quiet
<1>19. NamesAreCompleted'
  <2>1. CASE founds
    BY <1>1, <1>3, <1>9, <1>13, <2>1 DEF NamesAreCompleted
  <2>2. CASE ~ founds
    BY <1>1, <1>3, <1>9, <2>2 DEF NamesAreCompleted
  <2> QED
    BY <2>1, <2>2
<1>20. PinnedAreLocked'
  BY <1>1, <1>2 DEF PinnedAreLocked
<1>21. ReadingsAreCurrent'
  BY <1>1, <1>2, <1>3, <1>7 DEF ReadingsAreCurrent
<1>22. CreationsAreOwn'
  <2> SUFFICES ASSUME NEW x \in toCreate' PROVE DesignatedByCreated(x)'
    BY DEF CreationsAreOwn
  <2>1. x \in Existing /\ DesignatedByCreated(x)
    BY <1>1, <1>10 DEF Quiet, CreationsAreOwn
  <2>2. CASE founds
    <3>1. p \in Persons /\ index.name[p] = NoName /\ p \notin Created
      BY <1>9, <1>13, <2>2 DEF Created
    <3>2. index' = Registered(p, n, Members(c), d.refused) /\ Created' = Created \cup {p}
      BY <1>9, <1>16, <2>2
    <3> QED
      BY <1>1, <1>2, <1>3, <1>11, <2>1, <3>1, <3>2, RegisteredMeans
  <2>3. CASE ~ founds
    <3>1. UNCHANGED <<index, named>> /\ Created' = Created
      BY <1>3, <1>9, <2>3 DEF Created
    <3> QED
      BY <1>2, <1>3, <2>1, <3>1, CreationsUnchanged
  <2> QED
    BY <2>2, <2>3
<1> QED
  BY <1>6, <1>15, <1>17, <1>18, <1>19, <1>20, <1>21, <1>22 DEF IInv

------------------------------------------------------------------------------
(* The end of the transaction                                              *)

(* The types of what the phase holds once the transaction ends.            *)
LEMMA TransactionEndsMeans ==
  ASSUME TransactionEnds
  PROVE  /\ index' \in IndexType
         /\ pinsRead' \in [Contribs -> SUBSET Persons] /\ taken' \in [Pubs -> SUBSET Persons]
         /\ rejectedRead' \in SUBSET (Pubs \X Persons)
         /\ {remarked, copied, candidates, toCreate}' \subseteq SUBSET Contribs
         /\ {todo, batch}' \subseteq SUBSET Pubs
         /\ IsPartial(written', Contribs, Links) /\ IsPartial(named', Persons, Names)
         /\ IsPartial(given', Values, Attributions)
         /\ NamesAreCompleted'
<1>1. index' \in IndexType
  BY DEF TransactionEnds, NoIndex, NoForms, Forms, IndexType
<1>2. /\ pinsRead' \in [Contribs -> SUBSET Persons] /\ taken' \in [Pubs -> SUBSET Persons]
      /\ rejectedRead' \in SUBSET (Pubs \X Persons)
      /\ {remarked, copied, candidates, toCreate}' \subseteq SUBSET Contribs
      /\ {todo, batch}' \subseteq SUBSET Pubs
  BY DEF TransactionEnds
<1>3. written' = Nothing /\ named' = Nothing /\ given' = Nothing
  BY DEF TransactionEnds
<1>4. /\ IsPartial(written', Contribs, Links) /\ IsPartial(named', Persons, Names)
      /\ IsPartial(given', Values, Attributions)
  BY <1>3, NothingIsEmpty DEF IsPartial
<1>5. NamesAreCompleted'
  BY <1>3, NothingIsEmpty DEF NamesAreCompleted
<1> QED
  BY <1>1, <1>2, <1>4, <1>5

(* Outside the transaction nothing is held.                                *)
LEMMA QuietOutside ==
  ASSUME TransactionEnds, stage' \in {"idle", "resolved", "populated"}
  PROVE  Quiet' /\ WritesAreAllowed' /\ PinnedAreLocked' /\ ReadingsAreCurrent' /\ CreationsAreOwn'
  BY DEF TransactionEnds, Quiet, WritesAreAllowed, PinnedAreLocked, ReadingsAreCurrent,
         CreationsAreOwn

(* The commit: what was written becomes the tables.                        *)
LEMMA CommitPreservesIInv ==
  ASSUME IInv, Commit
  PROVE  IInv'
<1>1. /\ TypeOK /\ Coherent /\ Vacant /\ Referenced /\ PinsAllowed /\ RejectedStayOut
      /\ WritesAreAllowed /\ stage = "deciding" /\ stage' = "resolved" /\ TransactionEnds
  BY DEF IInv, Commit
<1>2. /\ link' = View /\ personName' = NameView /\ form' = FormView
      /\ attribution' = AttributionView /\ queue' = queue \ copied
      /\ UNCHANGED <<aligned, issued, pin, rejected, disturbed, late, counters>>
  BY DEF Commit
<1>3. Existing' = Existing /\ \A c : PubOfContrib(c)' = PubOfContrib(c)
  BY <1>2, AlignmentUnchanged
<1>4. \A q \in Persons : personName[q] # NoName => personName'[q] # NoName
  BY <1>1, <1>2, NamesAssumption DEF NameView, TypeOK, IsPartial
<1>5. ASSUME NEW c \in Contribs
      PROVE  \/ c \in DOMAIN written /\ link'[c] = written[c]
             \/ link'[c] = link[c]
  BY <1>2 DEF View
<1>6. TypeOK'
  <2>1. disturbed' \in BOOLEAN
    BY <1>1, <1>2, Zenon DEF TypeOK
  <2>2. /\ link' \in [Contribs -> Links] /\ personName' \in [Persons -> Names \cup {NoName}]
        /\ attribution' \in [Values -> Attributions]
        /\ form' \in [Persons -> [Names -> Forms]]
    BY <1>1, <1>2, ViewsAreTyped
  <2>3. queue' \in SUBSET Contribs
    BY <1>1, <1>2 DEF TypeOK
  <2>4. UNCHANGED <<requests, regroups, failures>>
    BY <1>2 DEF counters
  <2>5. /\ index' \in IndexType
        /\ pinsRead' \in [Contribs -> SUBSET Persons] /\ taken' \in [Pubs -> SUBSET Persons]
        /\ rejectedRead' \in SUBSET (Pubs \X Persons)
        /\ {remarked, copied, candidates, toCreate}' \subseteq SUBSET Contribs
        /\ {todo, batch}' \subseteq SUBSET Pubs
        /\ IsPartial(written', Contribs, Links) /\ IsPartial(named', Persons, Names)
        /\ IsPartial(given', Values, Attributions)
    BY <1>1, TransactionEndsMeans
  <2> QED
    BY <1>1, <1>2, <2>1, <2>2, <2>3, <2>4, <2>5 DEF TypeOK, IndexType
<1>7. Coherent' /\ PinsAllowed'
  BY <1>1, <1>2 DEF Coherent, PinsAllowed
<1>8. Vacant'
  BY <1>1, <1>3, <1>5 DEF Vacant, WritesAreAllowed
<1>9. Referenced'
  <2>1. \A c \in Contribs : link'[c].person # NoPerson => personName'[link'[c].person] # NoName
    <3> SUFFICES ASSUME NEW c \in Contribs, link'[c].person # NoPerson
                 PROVE  personName'[link'[c].person] # NoName
      OBVIOUS
    <3>1. CASE c \in DOMAIN written /\ link'[c] = written[c]
      BY <1>1, <1>2, <3>1 DEF WritesAreAllowed
    <3>2. CASE link'[c] = link[c]
      BY <1>1, <1>4, <3>2 DEF Referenced, TypeOK, Links
    <3> QED
      BY <1>5, <3>1, <3>2
  <2>2. \A s \in Sources : pin'[s] # NoPerson => personName'[pin'[s]] # NoName
    BY <1>1, <1>2, <1>4 DEF Referenced, TypeOK
  <2>3. \A r \in rejected' : personName'[r[2]] # NoName
    BY <1>1, <1>2, <1>4, RejectedArePersons DEF Referenced
  <2> QED
    BY <2>1, <2>2, <2>3 DEF Referenced
<1>10. RejectedStayOut'
  <2> SUFFICES ASSUME NEW c \in Existing, <<PubOfContrib(c), link'[c].person>> \in rejected
               PROVE  link'[c].person \in late
    BY <1>2, <1>3 DEF RejectedStayOut
  <2>1. c \in Contribs
    BY <1>1, ContributionHasPublication
  <2> QED
    BY <1>1, <1>5, <2>1 DEF WritesAreAllowed, RejectedStayOut
<1>11. Quiet' /\ WritesAreAllowed' /\ PinnedAreLocked' /\ ReadingsAreCurrent' /\ CreationsAreOwn'
  BY <1>1, QuietOutside
<1>12. NamesAreCompleted'
  BY <1>1, TransactionEndsMeans
<1> QED
  BY <1>6, <1>7, <1>8, <1>9, <1>10, <1>11, <1>12 DEF IInv

(* A rollback leaves the tables as they are.                               *)
LEMMA AbortPreservesIInv ==
  ASSUME IInv, Abort
  PROVE  IInv'
<1>1. TypeOK /\ stage' = "idle" /\ TransactionEnds
  BY DEF IInv, Abort
<1>2. UNCHANGED <<tables, queue, disturbed, late, requests, regroups>>
  BY DEF Abort
<1>3. UNCHANGED <<aligned, issued, link, pin, rejected, personName, form, attribution>>
  BY <1>2 DEF tables
<1>4. failures' \in Nat
  BY <1>1 DEF Abort, TypeOK
<1>5. TypeOK'
  <2>1. disturbed' \in BOOLEAN
    BY <1>1, <1>2, Zenon DEF TypeOK
  <2>2. /\ index' \in IndexType
        /\ pinsRead' \in [Contribs -> SUBSET Persons] /\ taken' \in [Pubs -> SUBSET Persons]
        /\ rejectedRead' \in SUBSET (Pubs \X Persons)
        /\ {remarked, copied, candidates, toCreate}' \subseteq SUBSET Contribs
        /\ {todo, batch}' \subseteq SUBSET Pubs
        /\ IsPartial(written', Contribs, Links) /\ IsPartial(named', Persons, Names)
        /\ IsPartial(given', Values, Attributions)
    BY <1>1, TransactionEndsMeans
  <2> QED
    BY <1>1, <1>2, <1>3, <1>4, <2>1, <2>2 DEF TypeOK, IndexType
<1>6. Coherent' /\ Vacant' /\ Referenced' /\ PinsAllowed' /\ RejectedStayOut'
  BY <1>2, <1>3, TablesUnchanged
<1>7. Quiet' /\ WritesAreAllowed' /\ PinnedAreLocked' /\ ReadingsAreCurrent' /\ CreationsAreOwn'
  BY <1>1, QuietOutside
<1>8. NamesAreCompleted'
  BY <1>1, TransactionEndsMeans
<1> QED
  BY <1>5, <1>6, <1>7, <1>8 DEF IInv

------------------------------------------------------------------------------
(* The name forms and the purge                                            *)

(* A step outside the transaction of the phase leaves it without readings  *)
(* and writes.                                                             *)
LEMMA StaysQuiet ==
  ASSUME IInv, {stage, stage'} \subseteq {"idle", "resolved", "populated"},
         UNCHANGED <<candidates, toCreate, pinsRead, written, named, given>>
  PROVE  /\ Quiet' /\ WritesAreAllowed' /\ PinnedAreLocked' /\ ReadingsAreCurrent'
         /\ CreationsAreOwn' /\ NamesAreCompleted'
<1>1. /\ written' = Nothing /\ named' = Nothing /\ given' = Nothing
      /\ candidates' = {} /\ toCreate' = {} /\ pinsRead' = [c \in Contribs |-> {}]
  BY DEF IInv, Quiet
<1>2. NamesAreCompleted'
  BY <1>1, NothingIsEmpty DEF NamesAreCompleted
<1> QED
  BY <1>1, <1>2 DEF Quiet, WritesAreAllowed, PinnedAreLocked, ReadingsAreCurrent, CreationsAreOwn

(* The forms are rebuilt.                                                  *)
LEMMA PopulatePreservesIInv ==
  ASSUME IInv, Populate
  PROVE  IInv'
<1>1. TypeOK /\ stage = "resolved" /\ stage' = "populated"
  BY DEF IInv, Populate
<1>2. UNCHANGED <<aligned, issued, link, pin, rejected, personName, attribution, queue, copied,
                  remarked, candidates, todo, batch, pinsRead, taken, toCreate, index,
                  rejectedRead, written, named, given, disturbed, late,
                  requests, regroups, failures>>
  BY DEF Populate, readings, overlay, counters
<1>3. form' \in [Persons -> [Names -> Forms]]
  <2>1. \A p \in Persons, n \in Names : Synced(p, n) \in Forms
    BY <1>1 DEF Synced, Forms, TypeOK
  <2>2. form' = [p \in Persons |-> [n \in Names |-> Synced(p, n)]]
    BY DEF Populate
  <2> QED
    BY <2>1, <2>2
<1>4. TypeOK'
  <2>1. disturbed' \in BOOLEAN
    BY <1>1, <1>2, Zenon DEF TypeOK
  <2> QED
    BY <1>1, <1>2, <1>3, <2>1 DEF TypeOK
<1>5. Coherent' /\ Vacant' /\ Referenced' /\ PinsAllowed' /\ RejectedStayOut'
  BY <1>2, TablesUnchanged
<1>6. /\ Quiet' /\ WritesAreAllowed' /\ PinnedAreLocked' /\ ReadingsAreCurrent'
      /\ CreationsAreOwn' /\ NamesAreCompleted'
  BY <1>1, <1>2, StaysQuiet
<1> QED
  BY <1>4, <1>5, <1>6 DEF IInv

(* The persons the purge deletes are those nothing refers to.              *)
LEMMA PurgePreservesIInv ==
  ASSUME IInv, Purge
  PROVE  IInv'
<1> DEFINE deleted == {p \in Persons : personName[p] # NoName /\ Deletable(p)}
<1>1. /\ TypeOK /\ Coherent /\ Vacant /\ Referenced /\ RejectedStayOut
      /\ stage = "populated" /\ stage' = "idle"
  BY DEF IInv, Purge
<1>2. UNCHANGED <<aligned, issued, pin, rejected, copied,
                  remarked, candidates, todo, batch, pinsRead, taken, toCreate, index,
                  rejectedRead, written, named, given, disturbed, late,
                  requests, regroups, failures>>
  BY DEF Purge, readings, overlay, counters
<1>3. /\ queue' = queue \cup Ambiguous
      /\ attribution' = [v \in Values |->
            IF Unsupported(v) \/ attribution[v].person \in deleted
            THEN Unattributed ELSE attribution[v]]
      /\ personName' = [p \in Persons |-> IF p \in deleted THEN NoName ELSE personName[p]]
      /\ form' = [p \in Persons |-> IF p \in deleted THEN NoForms ELSE form[p]]
      /\ link' = [c \in Contribs |-> IF link[c].person \in deleted THEN Unlinked ELSE link[c]]
  BY DEF Purge
<1>4. Existing' = Existing /\ \A c : PubOfContrib(c)' = PubOfContrib(c)
  BY <1>2, AlignmentUnchanged
<1>5. /\ \A s \in Sources : pin[s] \notin deleted
      /\ \A r \in rejected : r[2] \notin deleted
  <2>1. rejected \subseteq Pubs \X Persons
    BY <1>1 DEF TypeOK
  <2> QED
    BY <2>1 DEF Deletable
<1> HIDE DEF deleted
<1>6. TypeOK'
  <2>1. disturbed' \in BOOLEAN
    BY <1>1, <1>2, Zenon DEF TypeOK
  <2>2. queue' \subseteq Contribs
    BY <1>1, <1>3, ContributionHasPublication DEF Ambiguous, TypeOK
  <2>3. attribution' \in [Values -> Attributions]
    BY <1>1, <1>3 DEF TypeOK, Unattributed, Attributions
  <2>4. /\ personName' \in [Persons -> Names \cup {NoName}]
        /\ form' \in [Persons -> [Names -> Forms]]
    BY <1>1, <1>3 DEF TypeOK, NoForms, Forms
  <2>5. link' \in [Contribs -> Links]
    BY <1>1, <1>3 DEF TypeOK, Unlinked, Links, Modes
  <2> QED
    BY <1>1, <1>2, <2>1, <2>2, <2>3, <2>4, <2>5 DEF TypeOK
<1>7. Coherent'
  BY <1>1, <1>2 DEF Coherent
<1>8. PinsAllowed'
  BY <1>2 DEF IInv, PinsAllowed
<1>9. Vacant'
  BY <1>1, <1>3, <1>4 DEF Vacant, Unlinked
<1>10. Referenced'
  BY <1>1, <1>2, <1>3, <1>5, RejectedArePersons DEF Referenced, Unlinked, TypeOK, Links
<1>11. RejectedStayOut'
  BY <1>1, <1>2, <1>3, <1>4, RejectedArePersons, ContributionHasPublication
     DEF RejectedStayOut, Unlinked
<1>12. /\ Quiet' /\ WritesAreAllowed' /\ PinnedAreLocked' /\ ReadingsAreCurrent'
       /\ CreationsAreOwn' /\ NamesAreCompleted'
  BY <1>1, <1>2, StaysQuiet
<1> QED
  BY <1>6, <1>7, <1>8, <1>9, <1>10, <1>11, <1>12 DEF IInv

------------------------------------------------------------------------------
(* The requests of the administration                                      *)

(* What every request leaves to the phase: the names of the persons it has *)
(* written; new rejections are late while it decides, and are late when    *)
(* they are of a person it wrote before; no person it wrote comes to a row *)
(* it left.                                                                *)
Respectful ==
    /\ \A p \in DOMAIN named \cup {written[c].person : c \in DOMAIN written} :
          personName'[p] = personName[p]
    /\ stage = "deciding" => \A r \in rejected' : r \in rejected \/ r[2] \in late'
    /\ stage = "pinned" => \A c \in DOMAIN written :
          <<PubOfContrib(c), written[c].person>> \in rejected' =>
              \/ <<PubOfContrib(c), written[c].person>> \in rejected
              \/ written[c].person \in late'
    /\ stage = "pinned" => \A d \in DOMAIN written : \A o \in Rivals(d) :
          written[d].person # NoPerson /\ link'[o].person = written[d].person =>
              link[o].person = written[d].person

(* A respectful request keeps what the phase has read and written allowed. *)
LEMMA RequestKeepsPhase ==
  ASSUME IInv, Respectful, late \subseteq late', late' \subseteq Persons,
         UNCHANGED <<aligned, stage, candidates, toCreate, pinsRead, index, rejectedRead,
                     written, named, given>>
  PROVE  /\ Quiet' /\ WritesAreAllowed' /\ PinnedAreLocked' /\ NamesAreCompleted'
         /\ ReadingsAreCurrent' /\ CreationsAreOwn'
<1>1. TypeOK /\ Coherent
  BY DEF IInv
<1>2. /\ Existing' = Existing
      /\ \A c : PubOfContrib(c)' = PubOfContrib(c) /\ Rivals(c)' = Rivals(c)
  BY AlignmentUnchanged
<1>3. Quiet'
  BY <1>2 DEF IInv, Quiet
<1>4. WritesAreAllowed'
  <2> SUFFICES ASSUME stage \in {"pinned", "deciding"}, NEW c \in DOMAIN written
               PROVE  /\ c \in Existing
                      /\ written[c].person # NoPerson => NameView'[written[c].person] # NoName
                      /\ <<PubOfContrib(c), written[c].person>> \in rejected'
                         => written[c].person \in late'
    BY <1>2 DEF WritesAreAllowed
  <2>1. /\ c \in Existing
        /\ written[c].person # NoPerson => NameView[written[c].person] # NoName
        /\ <<PubOfContrib(c), written[c].person>> \in rejected => written[c].person \in late
    BY DEF IInv, WritesAreAllowed
  <2>2. written[c].person \in Persons \cup {NoPerson}
    BY <1>1 DEF TypeOK, IsPartial, Links
  <2>3. personName'[written[c].person] = personName[written[c].person]
    BY DEF Respectful
  <2>4. written[c].person # NoPerson => NameView'[written[c].person] # NoName
    BY <2>1, <2>2, <2>3 DEF NameView
  <2> QED
    BY <2>1, <2>4 DEF Respectful
<1>5. PinnedAreLocked'
  BY <1>2 DEF IInv, PinnedAreLocked, Respectful
<1>6. NamesAreCompleted'
  BY DEF IInv, NamesAreCompleted, Respectful
<1>7. ReadingsAreCurrent'
  BY <1>2 DEF IInv, ReadingsAreCurrent, Respectful
<1>8. CreationsAreOwn'
  <2>1. Created' = Created
    BY DEF Created, Respectful
  <2> QED
    BY <2>1, CreationsUnchanged DEF IInv, CreationsAreOwn
<1> QED
  BY <1>3, <1>4, <1>5, <1>6, <1>7, <1>8

(* What a request does not touch.                                          *)
LEMMA RequestMeans ==
  ASSUME IInv, NEW missed \in SUBSET Persons, Request(missed)
  PROVE  /\ UNCHANGED <<aligned, issued, stage, remarked, candidates, todo, batch, pinsRead, taken,
                        toCreate, index, rejectedRead, written, named, given, regroups, failures>>
         /\ requests' \in Nat /\ disturbed' \in BOOLEAN
         /\ late' = late \cup missed /\ late' \in SUBSET Persons /\ late \subseteq late'
<1>1. TypeOK
  BY DEF IInv
<1>2. disturbed' \in BOOLEAN
  <2>1. disturbed' = (stage # "idle")
    BY DEF Request
  <2> QED
    BY <2>1, Zenon
<1> QED
  BY <1>1, <1>2 DEF Request, readings, overlay, TypeOK

(* The types, when the tables of the request have theirs.                  *)
LEMMA RequestIsTyped ==
  ASSUME IInv, NEW missed \in SUBSET Persons, Request(missed),
         link' \in [Contribs -> Links], pin' \in [Sources -> Persons \cup {NoPerson}],
         rejected' \in SUBSET (Pubs \X Persons),
         personName' \in [Persons -> Names \cup {NoName}],
         form' \in [Persons -> [Names -> Forms]], attribution' \in [Values -> Attributions],
         queue' \in SUBSET Contribs, copied' \in SUBSET Contribs
  PROVE  TypeOK'
  BY RequestMeans DEF IInv, TypeOK

(* An assignment withdraws a rejection, and is made of a person the phase  *)
(* has not written in the publication.                                     *)
LEMMA AssignPreservesIInv ==
  ASSUME IInv, NEW c \in Contribs, NEW p \in Persons, Assign(c, p)
  PROVE  IInv'
<1> DEFINE owners == {o \in Rivals(c) : link[o].person = p}
<1>1. TypeOK /\ Coherent /\ Vacant /\ Referenced /\ PinsAllowed /\ RejectedStayOut
  BY DEF IInv
<1>2. Request({}) /\ c \in Existing /\ personName[p] # NoName
  BY DEF Assign
<1>3. Unlocked(owners \cup {c}) /\ \A o \in Rivals(c) \cap DOMAIN written : written[o].person # p
  BY DEF Assign
<1>4. rejected' = rejected \ {<<PubOfContrib(c), p>>}
  BY DEF Assign
<1>5. pin' = [s \in Sources |-> IF s \in Members(c) THEN p ELSE pin[s]]
  BY DEF Assign
<1>6. link' = [d \in Contribs |-> IF d = c THEN [person |-> p, mode |-> "manual"]
                                  ELSE IF d \in owners THEN Unlinked ELSE link[d]]
  BY DEF Assign
<1>7. form' = [form EXCEPT ![p] = [n \in Names |->
              IF @[n] = "none" /\ \E s \in Members(c) : NameOf[s] = n THEN "pending" ELSE @[n]]]
  BY DEF Assign
<1>8. UNCHANGED <<personName, attribution, queue, copied>>
  BY DEF Assign
<1>9. /\ UNCHANGED <<aligned, issued, stage, remarked, candidates, todo, batch, pinsRead, taken,
                     toCreate, index, rejectedRead, written, named, given, regroups, failures>>
      /\ late \subseteq late' /\ late' \subseteq Persons
  BY <1>2, RequestMeans
<1>10. Existing' = Existing /\ \A d : PubOfContrib(d)' = PubOfContrib(d)
  BY <1>9, AlignmentUnchanged
<1>11. \A s \in Members(c) : PubOf[s] = PubOfContrib(c)
  BY <1>1, <1>2, ContributionHasPublication
<1> HIDE DEF owners
<1>12. TypeOK'
  <2>1. link' \in [Contribs -> Links] /\ pin' \in [Sources -> Persons \cup {NoPerson}]
    BY <1>1, <1>5, <1>6 DEF TypeOK, Links, Modes, Unlinked
  <2>2. form' \in [Persons -> [Names -> Forms]]
    <3>1. form[p] \in [Names -> Forms]
      BY <1>1 DEF TypeOK
    <3>2. [n \in Names |-> IF form[p][n] = "none" /\ \E s \in Members(c) : NameOf[s] = n
                           THEN "pending" ELSE form[p][n]] \in [Names -> Forms]
      BY <3>1 DEF Forms
    <3> QED
      BY <1>1, <1>7, <3>2 DEF TypeOK
  <2>3. /\ rejected' \in SUBSET (Pubs \X Persons)
        /\ personName' \in [Persons -> Names \cup {NoName}] /\ attribution' \in [Values -> Attributions]
        /\ queue' \in SUBSET Contribs /\ copied' \in SUBSET Contribs
    BY <1>1, <1>4, <1>8 DEF TypeOK
  <2> QED
    BY <1>2, <2>1, <2>2, <2>3, RequestIsTyped
<1>13. Coherent' /\ Vacant'
  BY <1>1, <1>2, <1>6, <1>9, <1>10 DEF Coherent, Vacant, Unlinked
<1>14. Referenced'
  BY <1>1, <1>2, <1>4, <1>5, <1>6, <1>8 DEF Referenced, Unlinked
<1>15. PinsAllowed'
  BY <1>1, <1>4, <1>5, <1>11 DEF PinsAllowed
<1>16. RejectedStayOut'
  <2> SUFFICES ASSUME NEW d \in Existing, <<PubOfContrib(d), link'[d].person>> \in rejected'
               PROVE  link'[d].person \in late'
    BY <1>10 DEF RejectedStayOut
  <2>1. d \in Contribs
    BY <1>1, ContributionHasPublication
  <2>2. d # c
    BY <1>4, <1>6
  <2>3. link'[d] # Unlinked
    BY <1>1, <1>4, RejectedArePersons DEF Unlinked
  <2>4. link'[d] = link[d]
    BY <1>6, <2>1, <2>2, <2>3
  <2> QED
    BY <1>1, <1>4, <1>9, <2>4 DEF RejectedStayOut
<1>17. Respectful
  <2>1. \A d \in DOMAIN written : \A o \in Rivals(d) :
            stage = "pinned" /\ written[d].person # NoPerson /\ link'[o].person = written[d].person
            => link[o].person = written[d].person
    <3> SUFFICES ASSUME NEW d \in DOMAIN written, NEW o \in Rivals(d), stage = "pinned",
                        written[d].person # NoPerson, link'[o].person = written[d].person
                 PROVE  link[o].person = written[d].person
      OBVIOUS
    <3>1. d \in Existing /\ o \in Existing /\ o \in Contribs
      BY <1>1, ContributionHasPublication DEF IInv, WritesAreAllowed, Rivals
    <3>2. o # c
      <4> SUFFICES ASSUME o = c PROVE FALSE
        OBVIOUS
      <4>1. d \in Rivals(c)
        BY <3>1 DEF Rivals
      <4> QED
        BY <1>3, <1>6, <4>1
    <3> QED
      BY <1>6, <3>1, <3>2 DEF Unlinked
  <2> QED
    BY <1>4, <1>8, <2>1 DEF Respectful
<1>18. /\ Quiet' /\ WritesAreAllowed' /\ PinnedAreLocked' /\ NamesAreCompleted'
       /\ ReadingsAreCurrent' /\ CreationsAreOwn'
  BY <1>9, <1>17, RequestKeepsPhase
<1> QED
  BY <1>12, <1>13, <1>14, <1>15, <1>16, <1>18 DEF IInv

(* A person written where it is rejected would be held by the contribution *)
(* the request detaches, which the phase has locked.                       *)
LEMMA RejectPairPreservesIInv ==
  ASSUME IInv, NEW c \in Contribs, RejectPair(c)
  PROVE  IInv'
<1>1. TypeOK /\ Coherent /\ Vacant /\ Referenced /\ PinsAllowed /\ RejectedStayOut
  BY DEF IInv
<1>2. PICK p, b, left, kept :
        /\ p = link[c].person /\ b = PubOfContrib(c)
        /\ left = Detached(p, {<<b, p>>}, link)
        /\ kept = {NameOf[s] : s \in {t \in Sources : left[aligned[t]].person = p}}
        /\ c \in Existing /\ p # NoPerson
        /\ Request(Late(p))
        /\ Unlocked({d \in Contribs : left[d] # link[d]})
        /\ rejected' = rejected \cup {<<b, p>>}
        /\ pin' = [s \in Sources |-> IF PubOf[s] = b /\ pin[s] = p THEN NoPerson ELSE pin[s]]
        /\ link' = left
        /\ form' = [form EXCEPT ![p] = [n \in Names |->
              IF @[n] = "pending" /\ n \notin kept THEN "none" ELSE @[n]]]
        /\ UNCHANGED <<personName, attribution, queue, copied>>
  BY DEF RejectPair
<1>3. p \in Persons /\ b \in Pubs
  BY <1>1, <1>2, ContributionHasPublication DEF TypeOK, Links
<1>4. Late(p) \in SUBSET Persons /\ (stage = "deciding" => p \in Late(p))
  BY <1>3 DEF Late
<1>5. /\ UNCHANGED <<aligned, issued, stage, remarked, candidates, todo, batch, pinsRead, taken,
                     toCreate, index, rejectedRead, written, named, given, regroups, failures>>
      /\ late' = late \cup Late(p) /\ late \subseteq late' /\ late' \subseteq Persons
  BY <1>2, <1>4, RequestMeans
<1>6. Existing' = Existing /\ \A d : PubOfContrib(d)' = PubOfContrib(d)
  BY <1>5, AlignmentUnchanged
<1>7. \A d \in Contribs :
        \/ /\ link'[d] = Unlinked /\ d \in Existing
           /\ link[d].person = p /\ PubOfContrib(d) = b
        \/ link'[d] = link[d] /\ ~ (d \in Existing /\ link[d].person = p /\ PubOfContrib(d) = b)
  BY <1>2 DEF Detached
<1>8. TypeOK'
  <2>1. link' \in [Contribs -> Links]
    BY <1>1, <1>2 DEF TypeOK, Links, Modes, Unlinked, Detached
  <2>2. pin' \in [Sources -> Persons \cup {NoPerson}] /\ rejected' \in SUBSET (Pubs \X Persons)
    BY <1>1, <1>2, <1>3 DEF TypeOK
  <2>3. form' \in [Persons -> [Names -> Forms]]
    <3>1. form[p] \in [Names -> Forms]
      BY <1>1, <1>3 DEF TypeOK
    <3>2. [n \in Names |-> IF form[p][n] = "pending" /\ n \notin kept
                           THEN "none" ELSE form[p][n]] \in [Names -> Forms]
      BY <3>1 DEF Forms
    <3> QED
      BY <1>1, <1>2, <1>3, <3>2 DEF TypeOK
  <2>4. /\ personName' \in [Persons -> Names \cup {NoName}] /\ attribution' \in [Values -> Attributions]
        /\ queue' \in SUBSET Contribs /\ copied' \in SUBSET Contribs
    BY <1>1, <1>2 DEF TypeOK
  <2> QED
    BY <1>2, <1>4, <2>1, <2>2, <2>3, <2>4, RequestIsTyped
<1>9. Coherent'
  BY <1>1, <1>5 DEF Coherent
<1>10. Vacant'
  BY <1>1, <1>6, <1>7 DEF Vacant
<1>11. Referenced'
  <2>1. personName[p] # NoName
    BY <1>1, <1>2 DEF Referenced
  <2>2. \A d \in Contribs : link'[d].person # NoPerson => personName'[link'[d].person] # NoName
    <3>1. UNCHANGED personName
      BY <1>2
    <3>2. \A d \in Contribs : link'[d].person \in {NoPerson, link[d].person}
      BY <1>7 DEF Unlinked
    <3> QED
      BY <1>1, <3>1, <3>2 DEF Referenced
  <2>3. \A s \in Sources : pin'[s] # NoPerson => personName'[pin'[s]] # NoName
    BY <1>1, <1>2 DEF Referenced
  <2>4. \A r \in rejected' : personName'[r[2]] # NoName
    BY <1>1, <1>2, <2>1 DEF Referenced
  <2> QED
    BY <2>2, <2>3, <2>4 DEF Referenced
<1>12. PinsAllowed'
  BY <1>1, <1>2, <1>3, RejectedArePersons DEF PinsAllowed
<1>13. RejectedStayOut'
  <2> SUFFICES ASSUME NEW d \in Existing, <<PubOfContrib(d), link'[d].person>> \in rejected'
               PROVE  link'[d].person \in late'
    BY <1>6 DEF RejectedStayOut
  <2>1. d \in Contribs
    BY <1>1, ContributionHasPublication
  <2>2. link'[d] # Unlinked
    <3>1. \A x : <<x, NoPerson>> \notin rejected'
      BY <1>1, <1>2, RejectedArePersons
    <3> QED
      BY <3>1 DEF Unlinked
  <2>3. link'[d] = link[d] /\ <<PubOfContrib(d), link[d].person>> \in rejected
    BY <1>2, <1>7, <2>1, <2>2
  <2> QED
    BY <1>1, <1>5, <2>3 DEF RejectedStayOut
<1>14. Respectful
  <2>1. stage = "deciding" => p \in late'
    BY <1>4, <1>5
  <2>2. \A d \in DOMAIN written : \A o \in Rivals(d) :
            written[d].person # NoPerson /\ link'[o].person = written[d].person
            => link[o].person = written[d].person
    <3>1. \A d \in DOMAIN written : \A o \in Rivals(d) : o \in Contribs
      BY <1>1, ContributionHasPublication DEF Rivals
    <3> QED
      BY <1>7, <3>1 DEF Unlinked
  <2>3. ASSUME stage = "pinned", NEW d \in DOMAIN written, PubOfContrib(d) = b, written[d].person = p
        PROVE  FALSE
    <3>1. d \in Existing
      BY <2>3 DEF IInv, WritesAreAllowed
    <3>2. c \notin DOMAIN written
      <4>1. left[c] = Unlinked
        BY <1>2, <1>7
      <4>2. left[c] # link[c]
        BY <1>2, <4>1 DEF Unlinked
      <4> QED
        BY <1>2, <4>2 DEF Unlocked
    <3>3. c \in Rivals(d)
      BY <1>2, <2>3, <3>1, <3>2 DEF Rivals
    <3> QED
      BY <1>2, <2>3, <3>2, <3>3 DEF IInv, PinnedAreLocked
  <2>4. stage = "deciding" => \A r \in rejected' : r \in rejected \/ r[2] \in late'
    BY <1>2, <2>1
  <2>5. stage = "pinned" => \A d \in DOMAIN written :
          <<PubOfContrib(d), written[d].person>> \in rejected' =>
              <<PubOfContrib(d), written[d].person>> \in rejected
    BY <1>2, <2>3
  <2>6. UNCHANGED personName
    BY <1>2
  <2> QED
    BY <2>2, <2>4, <2>5, <2>6 DEF Respectful
<1>15. /\ Quiet' /\ WritesAreAllowed' /\ PinnedAreLocked' /\ NamesAreCompleted'
       /\ ReadingsAreCurrent' /\ CreationsAreOwn'
  BY <1>5, <1>14, RequestKeepsPhase
<1> QED
  BY <1>8, <1>9, <1>10, <1>11, <1>12, <1>13, <1>15 DEF IInv

(* A verdict on a form or on an identifier moves nobody.                   *)
LEMMA VerdictPreservesIInv ==
  ASSUME IInv, NEW missed \in SUBSET Persons, Request(missed), NEW cs \in SUBSET Existing, Mark(cs),
         UNCHANGED <<link, pin, rejected, personName>>,
         form' \in [Persons -> [Names -> Forms]], attribution' \in [Values -> Attributions]
  PROVE  IInv'
<1>1. TypeOK /\ Coherent
  BY DEF IInv
<1>2. /\ UNCHANGED <<aligned, issued, stage, remarked, candidates, todo, batch, pinsRead, taken,
                     toCreate, index, rejectedRead, written, named, given, regroups, failures>>
      /\ late \subseteq late' /\ late' \subseteq Persons
  BY RequestMeans
<1>3. TypeOK'
  <2>1. queue' \in SUBSET Contribs /\ copied' \in SUBSET Contribs
    BY <1>1, ContributionHasPublication DEF Mark, TypeOK
  <2>2. /\ link' \in [Contribs -> Links] /\ pin' \in [Sources -> Persons \cup {NoPerson}]
        /\ rejected' \in SUBSET (Pubs \X Persons)
        /\ personName' \in [Persons -> Names \cup {NoName}]
    BY <1>1 DEF TypeOK
  <2> QED
    BY <2>1, <2>2, RequestIsTyped
<1>4. Coherent' /\ Vacant' /\ Referenced' /\ PinsAllowed' /\ RejectedStayOut'
  BY <1>2, TablesUnchanged
<1>5. Respectful
  BY DEF Respectful
<1>6. /\ Quiet' /\ WritesAreAllowed' /\ PinnedAreLocked' /\ NamesAreCompleted'
      /\ ReadingsAreCurrent' /\ CreationsAreOwn'
  BY <1>2, <1>5, RequestKeepsPhase
<1> QED
  BY <1>3, <1>4, <1>6 DEF IInv

(* The rejection of a form.                                                *)
LEMMA RejectFormPreservesIInv ==
  ASSUME IInv, NEW p \in Persons, NEW n \in Names, RejectForm(p, n)
  PROVE  IInv'
<1>1. TypeOK
  BY DEF IInv
<1>2. PICK cs \in SUBSET Existing : Mark(cs)
  BY DEF RejectForm
<1>3. Late(p) \in SUBSET Persons /\ Request(Late(p))
  BY DEF Late, RejectForm
<1>4. form' \in [Persons -> [Names -> Forms]] /\ attribution' \in [Values -> Attributions]
  BY <1>1 DEF RejectForm, TypeOK, Forms
<1>5. UNCHANGED <<link, pin, rejected, personName>>
  BY DEF RejectForm
<1> QED
  BY <1>2, <1>3, <1>4, <1>5, VerdictPreservesIInv

(* The rejection of an identifier.                                         *)
LEMMA RejectIdentifierPreservesIInv ==
  ASSUME IInv, NEW v \in Values, RejectIdentifier(v)
  PROVE  IInv'
<1>1. TypeOK
  BY DEF IInv
<1>2. PICK cs \in SUBSET Existing : Mark(cs)
  BY DEF RejectIdentifier
<1>3. PICK p \in Persons : Request(Late(p))
  BY <1>1 DEF RejectIdentifier, TypeOK, Attributions
<1>4. Late(p) \in SUBSET Persons
  BY DEF Late
<1>5. form' \in [Persons -> [Names -> Forms]] /\ attribution' \in [Values -> Attributions]
  BY <1>1 DEF RejectIdentifier, TypeOK, Attributions
<1>6. UNCHANGED <<link, pin, rejected, personName>>
  BY DEF RejectIdentifier
<1> QED
  BY <1>2, <1>3, <1>4, <1>5, <1>6, VerdictPreservesIInv

(* The forms of the merged person.                                         *)
LEMMA MergedFormsTyped ==
  ASSUME TypeOK, NEW t \in Persons, NEW s \in Persons
  PROVE  MergedForms(t, s) \in [Names -> Forms]
  BY DEF TypeOK, MergedForms, Forms

(* A merge: what the absorbed person had goes to the kept one, its pairs   *)
(* included; the phase has written nothing of the absorbed one.            *)
LEMMA MergePersonsPreservesIInv ==
  ASSUME IInv, NEW t \in Persons, NEW s \in Persons, MergePersons(t, s)
  PROVE  IInv'
<1>1. /\ TypeOK /\ Coherent /\ Vacant /\ Referenced /\ PinsAllowed /\ RejectedStayOut
      /\ t # NoPerson /\ s # NoPerson
  BY RejectedArePersons DEF IInv
<1> DEFINE late2(pairs) ==
              \/ s \in late \/ \E n \in Names : MergedForms(t, s)[n] = "rejected"
              \/ \E c \in DOMAIN written : /\ written[c].person = t
                                           /\ <<PubOfContrib(c), t>> \in pairs
<1>2. PICK pairs, moved, missed :
        /\ pairs = {r \in rejected : r[2] # s} \cup {<<r[1], t>> : r \in {q \in rejected : q[2] = s}}
        /\ moved = [c \in Contribs |->
                    IF link[c].person # s THEN link[c]
                    ELSE IF Occupied(c, t, link) THEN Unlinked ELSE [link[c] EXCEPT !.person = t]]
        /\ missed = IF late2(pairs) THEN {t} ELSE Late(t)
        /\ Request(missed)
        /\ \A c \in Existing : moved[c] # link[c] /\ moved[c].person = t =>
              \A o \in Rivals(c) \cap DOMAIN written : written[o].person # t
        /\ link' = Detached(t, pairs, moved)
        /\ rejected' = pairs
        /\ pin' = [x \in Sources |->
              LET p == IF pin[x] = s THEN t ELSE pin[x]
              IN  IF p = t /\ <<PubOf[x], t>> \in pairs THEN NoPerson ELSE p]
  BY DEF MergePersons
<1>3. /\ t # s /\ personName[t] # NoName /\ personName[s] # NoName
      /\ {s, t} \cap DOMAIN named = {} /\ \A c \in DOMAIN written : written[c].person # s
      /\ attribution' = [v \in Values |-> IF attribution[v].person = s
                                          THEN [attribution[v] EXCEPT !.person = t]
                                          ELSE attribution[v]]
      /\ form' = [form EXCEPT ![t] = MergedForms(t, s), ![s] = NoForms]
      /\ personName' = [personName EXCEPT ![s] = NoName]
      /\ UNCHANGED <<queue, copied>>
  BY DEF MergePersons
<1>4. /\ missed \in SUBSET Persons /\ (stage = "deciding" => t \in missed)
      /\ \A c \in DOMAIN written : written[c].person = t /\ <<PubOfContrib(c), t>> \in pairs
                                   => t \in missed
  BY <1>2 DEF Late
<1>5. /\ UNCHANGED <<aligned, issued, stage, remarked, candidates, todo, batch, pinsRead, taken,
                     toCreate, index, rejectedRead, written, named, given, regroups, failures>>
      /\ late' = late \cup missed /\ late \subseteq late' /\ late' \subseteq Persons
  BY <1>2, <1>4, RequestMeans
<1>6. Existing' = Existing /\ \A d : PubOfContrib(d)' = PubOfContrib(d)
  BY <1>5, AlignmentUnchanged
<1>7. /\ pairs \in SUBSET (Pubs \X Persons)
      /\ \A r \in pairs : (r \in rejected /\ r[2] # s) \/ r[2] = t
      /\ \A b, p : <<b, p>> \in pairs => p # NoPerson /\ p # s /\ (p # t => <<b, p>> \in rejected)
  <2>1. pairs \in SUBSET (Pubs \X Persons)
    BY <1>1, <1>2 DEF TypeOK
  <2>2. \A r \in pairs : (r \in rejected /\ r[2] # s) \/ r[2] = t
    BY <1>2
  <2>3. ASSUME NEW b, NEW p, <<b, p>> \in pairs
        PROVE  p # NoPerson /\ p # s /\ (p # t => <<b, p>> \in rejected)
    <3>1. p \in Persons /\ <<b, p>>[2] = p
      BY <2>1, <2>3
    <3>2. (<<b, p>> \in rejected /\ p # s) \/ p = t
      BY <2>2, <2>3, <3>1
    <3> QED
      BY <1>3, <3>1, <3>2, RejectedArePersons, <1>1
  <2> QED
    BY <2>1, <2>2, <2>3
<1>8. moved \in [Contribs -> Links]
  <2>1. \A l \in Links : [l EXCEPT !.person = t] \in Links
    BY DEF Links
  <2>2. Unlinked \in Links /\ link \in [Contribs -> Links]
    BY <1>1 DEF Links, Modes, Unlinked, TypeOK
  <2> QED
    BY <1>2, <2>1, <2>2
<1>9. \A c \in Contribs : \/ moved[c] = link[c] /\ link[c].person # s
                          \/ moved[c] = Unlinked /\ link[c].person = s
                          \/ moved[c].person = t /\ link[c].person = s
  BY <1>1, <1>2 DEF TypeOK, Links
<1>10. \A c \in Contribs :
          \/ link'[c] = Unlinked
          \/ /\ link'[c] = moved[c]
             /\ ~ (c \in Existing /\ moved[c].person = t /\ <<PubOfContrib(c), t>> \in pairs)
  BY <1>2 DEF Detached
<1>11. \A c \in Contribs : /\ link'[c].person \in {NoPerson, t, link[c].person} \ {s}
                           /\ link[c].person = NoPerson => link'[c].person = NoPerson
  <2> SUFFICES ASSUME NEW c \in Contribs
               PROVE  /\ link'[c].person \in {NoPerson, t, link[c].person} \ {s}
                      /\ link[c].person = NoPerson => link'[c].person = NoPerson
    OBVIOUS
  <2>1. Unlinked.person = NoPerson
    BY DEF Unlinked
  <2>2. link'[c].person \in {NoPerson, moved[c].person}
    BY <1>10, <2>1
  <2>3. \/ moved[c].person = link[c].person /\ link[c].person # s
        \/ moved[c].person \in {NoPerson, t} /\ link[c].person = s
    BY <1>9, <2>1
  <2> QED
    BY <1>1, <1>3, <2>2, <2>3
<1>12. \A x \in Sources : /\ pin'[x] \in {NoPerson, t, pin[x]} \ {s}
                          /\ pin'[x] = t => <<PubOf[x], t>> \notin pairs
                          /\ pin'[x] # t => pin'[x] \in {NoPerson, pin[x]}
  BY <1>1, <1>2, <1>3
<1>13. TypeOK'
  <2>1. link' \in [Contribs -> Links]
    BY <1>2, <1>8 DEF Detached, Links, Unlinked, Modes
  <2>2. pin' \in [Sources -> Persons \cup {NoPerson}]
    BY <1>1, <1>2, <1>12 DEF TypeOK
  <2>3. attribution' \in [Values -> Attributions]
    BY <1>1, <1>3 DEF TypeOK, Attributions
  <2>4. form' \in [Persons -> [Names -> Forms]]
    BY <1>1, <1>3, MergedFormsTyped DEF TypeOK, NoForms, Forms
  <2>5. /\ personName' \in [Persons -> Names \cup {NoName}]
        /\ queue' \in SUBSET Contribs /\ copied' \in SUBSET Contribs
        /\ rejected' \in SUBSET (Pubs \X Persons)
    BY <1>1, <1>2, <1>3, <1>7 DEF TypeOK
  <2> QED
    BY <1>2, <1>4, <2>1, <2>2, <2>3, <2>4, <2>5, RequestIsTyped
<1>14. Coherent'
  BY <1>1, <1>5 DEF Coherent
<1>15. Vacant'
  BY <1>1, <1>6, <1>11 DEF Vacant
<1>16. Referenced'
  <2>1. \A p \in Persons : p # s /\ personName[p] # NoName => personName'[p] # NoName
    BY <1>1, <1>3 DEF TypeOK
  <2>2. \A c \in Contribs : link'[c].person # NoPerson => personName'[link'[c].person] # NoName
    BY <1>1, <1>3, <1>11, <2>1 DEF Referenced, TypeOK, Links
  <2>3. \A x \in Sources : pin'[x] # NoPerson => personName'[pin'[x]] # NoName
    BY <1>1, <1>3, <1>12, <2>1 DEF Referenced, TypeOK
  <2>4. \A r \in rejected' : personName'[r[2]] # NoName
    BY <1>1, <1>2, <1>3, <1>7, <2>1, RejectedArePersons DEF Referenced
  <2> QED
    BY <2>2, <2>3, <2>4 DEF Referenced
<1>17. PinsAllowed'
  BY <1>1, <1>2, <1>7, <1>12 DEF PinsAllowed
<1>18. RejectedStayOut'
  <2> SUFFICES ASSUME NEW d \in Existing, <<PubOfContrib(d), link'[d].person>> \in pairs
               PROVE  link'[d].person \in late'
    BY <1>2, <1>6 DEF RejectedStayOut
  <2>1. d \in Contribs
    BY <1>1, ContributionHasPublication
  <2>2. link'[d].person # NoPerson
    BY <1>7
  <2>3. link'[d].person # t /\ link'[d].person = link[d].person
    BY <1>9, <1>10, <1>11, <2>1, <2>2 DEF Unlinked
  <2>4. <<PubOfContrib(d), link[d].person>> \in rejected
    BY <1>7, <2>3
  <2> QED
    BY <1>1, <1>5, <2>3, <2>4 DEF RejectedStayOut
<1>19. Respectful
  <2>1. \A p \in DOMAIN named \cup {written[c].person : c \in DOMAIN written} :
            personName'[p] = personName[p]
    BY <1>3
  <2>2. stage = "deciding" => \A r \in rejected' : r \in rejected \/ r[2] \in late'
    BY <1>2, <1>4, <1>5, <1>7
  <2>3. ASSUME NEW c \in DOMAIN written, <<PubOfContrib(c), written[c].person>> \in rejected'
        PROVE  \/ <<PubOfContrib(c), written[c].person>> \in rejected
               \/ written[c].person \in late'
    BY <1>2, <1>4, <1>5, <1>7, <2>3
  <2>4. ASSUME stage = "pinned", NEW d \in DOMAIN written, NEW o \in Rivals(d),
               written[d].person # NoPerson, link'[o].person = written[d].person
        PROVE  link[o].person = written[d].person
    <3>1. o \in Contribs /\ o \in Existing
      BY <1>1, ContributionHasPublication DEF Rivals
    <3>2. CASE written[d].person # t
      BY <1>11, <2>4, <3>1, <3>2
    <3>3. CASE written[d].person = t /\ link[o].person # t
      <4>1. link'[o] = moved[o] /\ moved[o] # link[o] /\ moved[o].person = t
        <5>1. link'[o].person = t /\ t # NoPerson /\ Unlinked.person = NoPerson
          BY <1>1, <2>4, <3>3 DEF Unlinked
        <5>2. link'[o] = moved[o]
          BY <1>10, <3>1, <5>1
        <5> QED
          BY <3>3, <5>1, <5>2
      <4>2. d \in Existing
        BY <2>4 DEF IInv, WritesAreAllowed
      <4>3. d \in Rivals(o)
        BY <3>1, <4>2 DEF Rivals
      <4> QED
        BY <1>2, <3>1, <3>3, <4>1, <4>3
    <3> QED
      BY <3>2, <3>3
  <2> QED
    BY <2>1, <2>2, <2>3, <2>4 DEF Respectful
<1>20. /\ Quiet' /\ WritesAreAllowed' /\ PinnedAreLocked' /\ NamesAreCompleted'
       /\ ReadingsAreCurrent' /\ CreationsAreOwn'
  BY <1>5, <1>19, RequestKeepsPhase
<1> QED
  BY <1>13, <1>14, <1>15, <1>16, <1>17, <1>18, <1>20 DEF IInv

------------------------------------------------------------------------------
(* The grouping of authors                                                 *)

(* Two couples of a plan with one group are one couple: of two couples,    *)
(* one is before the other.                                                *)
LEMMA PlanIsFunctional ==
  ASSUME TypeOK, NEW b \in Pubs, NEW group \in [Sources -> 1 .. Cardinality(Sources)],
         NEW plan, IsPlan(plan, b, group), NEW o \in plan, NEW q \in plan, o[2] = q[2]
  PROVE  o = q
<1> DEFINE overlaps == {<<aligned[s], group[s]>> : s \in {t \in Sources : PubOf[t] = b}}
<1>1. /\ plan \subseteq overlaps
      /\ \A x \in overlaps : x \in plan <=> \A y \in plan : ~ /\ Before(b, group, y, x)
                                                              /\ y[1] = x[1] \/ y[2] = x[2]
  BY DEF IsPlan
<1>2. overlaps \subseteq Contribs \X (1 .. Cardinality(Sources))
  BY DEF TypeOK
<1>3. Cardinality(Sources) \in Nat /\ Contribs \subseteq Nat
  BY SourcesAreNumbers
<1> HIDE DEF overlaps
<1>4. /\ o[1] \in Nat /\ o[2] \in Nat /\ q[1] \in Nat /\ q[2] \in Nat
      /\ o = <<o[1], o[2]>> /\ q = <<q[1], q[2]>>
  <2>1. o \in Contribs \X (1 .. Cardinality(Sources)) /\ q \in Contribs \X (1 .. Cardinality(Sources))
    BY <1>1, <1>2
  <2>2. 1 .. Cardinality(Sources) \subseteq Nat
    BY <1>3
  <2>3. o[1] \in Nat /\ o[2] \in Nat /\ o = <<o[1], o[2]>>
    <3>1. PICK x \in Contribs, y \in 1 .. Cardinality(Sources) : o = <<x, y>>
      BY <2>1
    <3>2. x \in Nat /\ y \in Nat
      BY <1>3, <2>2
    <3> QED
      BY <3>1, <3>2
  <2>4. q[1] \in Nat /\ q[2] \in Nat /\ q = <<q[1], q[2]>>
    <3>1. PICK x \in Contribs, y \in 1 .. Cardinality(Sources) : q = <<x, y>>
      BY <2>1
    <3>2. x \in Nat /\ y \in Nat
      BY <1>3, <2>2
    <3> QED
      BY <3>1, <3>2
  <2> QED
    BY <2>3, <2>4
<1>5. \A x : Shared(b, group, x) \in Nat
  <2> SUFFICES ASSUME NEW x PROVE Shared(b, group, x) \in Nat
    OBVIOUS
  <2>1. IsFiniteSet({s \in Sources : PubOf[s] = b /\ aligned[s] = x[1] /\ group[s] = x[2]})
    BY SourcesAreNumbers, FS_Subset
  <2> QED
    BY <2>1, FS_CardinalityType DEF Shared
<1>6. ~ Before(b, group, o, q) /\ ~ Before(b, group, q, o)
  BY <1>1
<1>7. Shared(b, group, o) \in Nat /\ Shared(b, group, q) \in Nat
  BY <1>5
<1>8. o[1] = q[1]
  BY <1>4, <1>6, <1>7 DEF Before
<1> QED
  BY <1>4, <1>8

(* The identifiers of a new alignment: kept ones, or fresh ones that       *)
(* follow the last issued.                                                 *)
LEMMA FreshIdsMean ==
  ASSUME NEW fresh, fresh \subseteq 1 .. Cardinality(Sources), NEW g \in fresh, NEW last \in Nat
  PROVE  /\ Cardinality(fresh) \in Nat
         /\ Cardinality({h \in fresh : h <= g}) \in Nat
         /\ last < last + Cardinality({h \in fresh : h <= g})
         /\ last + Cardinality({h \in fresh : h <= g}) <= last + Cardinality(fresh)
<1> DEFINE below == {h \in fresh : h <= g}
<1>1. Cardinality(Sources) \in Nat
  BY SourcesAreNumbers
<1>2. IsFiniteSet(1 .. Cardinality(Sources))
  BY <1>1, FS_Interval
<1>3. IsFiniteSet(fresh)
  BY <1>2, FS_Subset
<1>4. below \subseteq fresh /\ g \in below
  BY <1>1
<1> HIDE DEF below
<1>5. IsFiniteSet(below) /\ Cardinality(below) <= Cardinality(fresh)
  BY <1>3, <1>4, FS_Subset
<1>6. Cardinality(fresh) \in Nat /\ Cardinality(below) \in Nat /\ Cardinality(below) # 0
  BY <1>3, <1>4, <1>5, FS_CardinalityType, FS_EmptySet
<1>7. last < last + Cardinality(below) /\ last + Cardinality(below) <= last + Cardinality(fresh)
  BY <1>5, <1>6
<1> QED
  BY <1>6, <1>7 DEF below

(* A recomposed contribution stays in its publication, and an identifier   *)
(* given back keeps no person.                                             *)
LEMMA RegroupPreservesIInv ==
  ASSUME IInv, NEW b \in Pubs, NEW group \in [Sources -> 1 .. Cardinality(Sources)],
         Regroup(b, group)
  PROVE  IInv'
<1> DEFINE mine == {s \in Sources : PubOf[s] = b}
           old == {aligned[s] : s \in mine}
<1>1. /\ TypeOK /\ Coherent /\ Vacant /\ Referenced /\ PinsAllowed /\ RejectedStayOut
      /\ stage = "idle"
  BY DEF IInv, Regroup
<1>2. UNCHANGED <<pin, rejected, personName, form, attribution, stage, copied,
                  remarked, candidates, todo, batch, pinsRead, taken, toCreate, index, rejectedRead,
                  written, named, given, disturbed, late, requests, failures>>
  BY DEF Regroup, readings, overlay
<1>3. regroups' \in Nat
  BY <1>1 DEF Regroup, TypeOK
<1>4. PICK plan \in SUBSET (old \X {group[s] : s \in mine}) :
           LET kept == {o[1] : o \in plan}
               fresh == {group[s] : s \in mine} \ {o[2] : o \in plan}
               idOf(g) == IF g \in fresh
                          THEN issued + Cardinality({h \in fresh : h <= g})
                          ELSE CHOOSE i \in kept : <<i, g>> \in plan
           IN  /\ IsPlan(plan, b, group)
               /\ issued + Cardinality(fresh) \in Contribs
               /\ aligned' = [s \in Sources |->
                                 IF s \in mine THEN idOf(group[s]) ELSE aligned[s]]
               /\ issued' = issued + Cardinality(fresh)
               /\ link' = [c \in Contribs |-> IF c \in old \ kept THEN Unlinked ELSE link[c]]
               /\ queue' = queue \cup
                     {c \in kept : /\ link[c].person # NoPerson
                                   /\ Members(c) # {s \in Sources : aligned'[s] = c}}
  BY DEF Regroup
<1> DEFINE kept == {o[1] : o \in plan}
           fresh == {group[s] : s \in mine} \ {o[2] : o \in plan}
           idOf(g) == IF g \in fresh THEN issued + Cardinality({h \in fresh : h <= g})
                                     ELSE CHOOSE i \in kept : <<i, g>> \in plan
<1>20. /\ IsPlan(plan, b, group)
       /\ issued + Cardinality(fresh) \in Contribs
       /\ aligned' = [s \in Sources |-> IF s \in mine THEN idOf(group[s]) ELSE aligned[s]]
       /\ issued' = issued + Cardinality(fresh)
       /\ link' = [c \in Contribs |-> IF c \in old \ kept THEN Unlinked ELSE link[c]]
       /\ queue' \subseteq queue \cup kept
  BY <1>4
<1>21. /\ \A o \in plan : o = <<o[1], o[2]>> /\ o[1] \in kept /\ o[1] \in old /\ o[2] \notin fresh
       /\ \A i \in kept : \E o \in plan : o[1] = i
       /\ \A s \in mine : group[s] \notin fresh => \E o \in plan : o[2] = group[s]
       /\ \A o \in plan : \E s \in mine : o[2] = group[s]
       /\ fresh \subseteq {group[s] : s \in mine}
  OBVIOUS
<1>22. \A s \in mine : aligned'[s] = idOf(group[s]) /\ s \in Sources
  BY <1>20
<1>23. \A s \in Sources : s \notin mine => aligned'[s] = aligned[s]
  BY <1>20
<1> HIDE DEF kept, fresh
<1>5. Contribs \subseteq Nat /\ issued \in Nat
  BY <1>1, SourcesAreNumbers DEF TypeOK
<1>6. /\ old \subseteq Contribs /\ old \subseteq Existing /\ kept \subseteq old
      /\ \A c \in old : c <= issued
      /\ \A s \in mine : group[s] \in 1 .. Cardinality(Sources)
      /\ fresh \subseteq 1 .. Cardinality(Sources)
  <2>1. old \subseteq Contribs /\ old \subseteq Existing /\ \A c \in old : c <= issued
    BY <1>1 DEF TypeOK, Coherent, Existing
  <2>2. kept \subseteq old
    BY <1>21
  <2>3. \A s \in mine : group[s] \in 1 .. Cardinality(Sources)
    OBVIOUS
  <2> QED
    BY <1>21, <2>1, <2>2, <2>3
<1>7. Cardinality(fresh) \in Nat /\ issued' \in Nat /\ issued <= issued'
  <2>1. IsFiniteSet(1 .. Cardinality(Sources))
    BY SourcesAreNumbers, FS_Interval
  <2>2. Cardinality(fresh) \in Nat
    BY <1>6, <2>1, FS_Subset, FS_CardinalityType
  <2> QED
    BY <1>5, <1>20, <2>2
<1>8. ASSUME NEW s \in mine
      PROVE  /\ aligned'[s] \in Contribs
             /\ \/ aligned'[s] > issued /\ aligned'[s] <= issued'
                \/ aligned'[s] \in kept /\ <<aligned'[s], group[s]>> \in plan
  <2>1. aligned'[s] = idOf(group[s])
    BY <1>22
  <2>2. CASE group[s] \in fresh
    <3>1. PICK k : k = Cardinality({h \in fresh : h <= group[s]})
      OBVIOUS
    <3>2. aligned'[s] = issued + k
      BY <2>1, <2>2, <3>1
    <3>3. k \in Nat /\ issued < issued + k /\ issued + k <= issued + Cardinality(fresh)
      BY <1>5, <1>6, <2>2, <3>1, FreshIdsMean
    <3>4. issued' \in Contribs
      BY <1>20
    <3>5. aligned'[s] \in Nat /\ aligned'[s] > issued /\ aligned'[s] <= issued'
      BY <1>5, <1>20, <3>2, <3>3
    <3>6. \A i : i \in Contribs <=> i \in Nat /\ 1 <= i /\ i <= MaxContribs
      BY NumbersAssumption DEF Contribs
    <3>7. MaxContribs \in Nat
      BY NumbersAssumption
    <3> QED
      BY <1>5, <1>7, <3>4, <3>5, <3>6, <3>7
  <2>3. CASE group[s] \notin fresh
    <3>1. PICK o \in plan : o[2] = group[s]
      BY <1>21, <2>3
    <3>2. o[1] \in kept /\ <<o[1], group[s]>> \in plan
      BY <1>21, <3>1
    <3>3. aligned'[s] = CHOOSE i \in kept : <<i, group[s]>> \in plan
      BY <2>1, <2>3
    <3>4. aligned'[s] \in kept /\ <<aligned'[s], group[s]>> \in plan
      BY <3>2, <3>3
    <3> QED
      BY <1>6, <3>4
  <2> QED
    BY <2>2, <2>3
<1> HIDE DEF idOf
<1>9. ASSUME NEW s \in Sources \ mine PROVE aligned'[s] = aligned[s]
  BY <1>23
<1>10. ASSUME NEW c \in kept PROVE \E s \in mine : aligned'[s] = c
  <2>1. PICK o \in plan : o[1] = c
    BY <1>21
  <2>2. PICK s \in mine : o[2] = group[s]
    BY <1>21
  <2>3. group[s] \notin fresh
    BY <1>21, <2>2
  <2>4. <<aligned'[s], group[s]>> \in plan
    <3>1. aligned'[s] = CHOOSE i \in kept : <<i, group[s]>> \in plan
      BY <1>22, <2>3 DEF idOf
    <3>2. c \in kept /\ <<c, group[s]>> \in plan
      BY <1>21, <2>1, <2>2
    <3> QED
      BY <3>1, <3>2
  <2>5. <<aligned'[s], group[s]>>[2] = o[2]
    BY <2>2
  <2>6. <<aligned'[s], group[s]>> = o
    BY <1>1, <1>20, <2>4, <2>5, PlanIsFunctional
  <2>7. aligned'[s] = o[1]
    BY <2>6
  <2> QED
    BY <2>1, <2>7
<1>11. TypeOK'
  <2>1. aligned' \in [Sources -> Contribs] /\ issued' \in Contribs
    <3>1. \A s \in Sources : aligned'[s] \in Contribs
      BY <1>1, <1>8, <1>9 DEF TypeOK
    <3>2. aligned' = [s \in Sources |-> aligned'[s]]
      BY <1>20
    <3> QED
      BY <1>20, <3>1, <3>2
  <2>2. link' \in [Contribs -> Links]
    BY <1>1, <1>20 DEF TypeOK, Links, Modes, Unlinked
  <2>3. queue' \in SUBSET Contribs
    BY <1>1, <1>20, <1>6 DEF TypeOK
  <2>4. disturbed' \in BOOLEAN
    BY <1>1, <1>2, Zenon DEF TypeOK
  <2> QED
    BY <1>1, <1>2, <1>3, <2>1, <2>2, <2>3, <2>4 DEF TypeOK
<1>12. Coherent'
  <2>1. ASSUME NEW s \in mine, NEW t \in Sources \ mine, aligned'[s] = aligned'[t]
        PROVE  FALSE
    <3>1. aligned'[t] = aligned[t] /\ aligned[t] <= issued /\ aligned[t] \in Nat
      BY <1>1, <1>5, <1>9 DEF Coherent, TypeOK
    <3>2. aligned'[s] \in kept
      <4>1. ~ aligned'[s] > issued
        BY <1>5, <2>1, <3>1
      <4> QED
        BY <1>8, <4>1
    <3>3. PICK u \in mine : aligned[u] = aligned[t]
      BY <1>6, <2>1, <3>1, <3>2
    <3> QED
      BY <1>1, <3>3 DEF Coherent
  <2>2. ASSUME NEW s \in Sources, NEW t \in Sources, aligned'[s] = aligned'[t]
        PROVE  PubOf[s] = PubOf[t]
    <3>1. CASE s \in mine /\ t \in mine
      BY <3>1
    <3>2. CASE s \notin mine /\ t \notin mine
      BY <1>1, <1>9, <2>2, <3>2 DEF Coherent
    <3> QED
      BY <2>1, <2>2, <3>1, <3>2
  <2>3. ASSUME NEW s \in Sources PROVE aligned'[s] <= issued'
    <3>1. issued' \in Nat
      BY <1>20, <1>5
    <3>2. CASE s \in mine
      <4>1. CASE aligned'[s] \in kept
        <5>1. aligned'[s] <= issued /\ aligned'[s] \in Nat
          BY <1>5, <1>6, <4>1
        <5> QED
          BY <1>5, <1>7, <5>1
      <4> QED
        BY <1>8, <3>2, <4>1
    <3>3. CASE s \notin mine
      <4>1. aligned'[s] = aligned[s] /\ aligned[s] <= issued /\ aligned[s] \in Nat
        BY <1>1, <1>5, <1>9, <3>3 DEF Coherent, TypeOK
      <4> QED
        BY <1>5, <1>7, <4>1
    <3> QED
      BY <3>2, <3>3
  <2> QED
    BY <1>2, <2>2, <2>3 DEF Coherent
<1>13. Vacant'
  <2> SUFFICES ASSUME NEW c \in Contribs, c \notin Existing', link'[c].person # NoPerson
               PROVE  FALSE
    BY DEF Vacant
  <2>1. link'[c] = link[c] /\ c \notin old \ kept
    BY <1>20 DEF Unlinked
  <2>2. c \in Existing
    BY <1>1, <2>1 DEF Vacant
  <2>3. PICK s \in Sources : aligned[s] = c
    BY <2>2 DEF Existing
  <2>4. CASE s \in mine
    BY <1>10, <2>1, <2>3, <2>4 DEF Existing
  <2>5. CASE s \notin mine
    BY <1>9, <2>3, <2>5 DEF Existing
  <2> QED
    BY <2>4, <2>5
<1>14. Referenced'
  BY <1>1, <1>2, <1>20 DEF Referenced, Unlinked
<1>15. PinsAllowed'
  BY <1>1, <1>2 DEF PinsAllowed
<1>16. RejectedStayOut'
  <2> SUFFICES ASSUME NEW c \in Existing', <<PubOfContrib(c)', link'[c].person>> \in rejected
               PROVE  link'[c].person \in late
    BY <1>2 DEF RejectedStayOut
  <2>1. c \in Contribs /\ \E s \in Sources : aligned'[s] = c
    BY <1>11 DEF Existing, TypeOK
  <2>2. link'[c] = link[c] /\ link[c].person # NoPerson
    BY <1>1, <1>20, <2>1, RejectedArePersons DEF Unlinked
  <2>3. c \in Existing
    BY <1>1, <2>1, <2>2 DEF Vacant
  <2>4. PICK s \in Sources : aligned'[s] = c /\ PubOfContrib(c)' = PubOf[s]
    <3>1. Members(c)' # {} /\ Members(c)' = {s \in Sources : aligned'[s] = c}
      BY <2>1 DEF Members
    <3>2. (CHOOSE s \in Members(c)' : TRUE) \in Members(c)'
      BY <3>1
    <3> QED
      BY <3>1, <3>2 DEF PubOfContrib
  <2>5. \E u \in Sources : aligned[u] = c /\ PubOf[u] = PubOf[s]
    <3>1. CASE s \in mine
      <4>1. c <= issued /\ c \in Nat
        BY <1>1, <1>5, <2>3 DEF Existing, Coherent, TypeOK
      <4>2. ~ c > issued
        BY <1>5, <4>1
      <4>3. c \in kept
        BY <1>8, <2>4, <3>1, <4>2
      <4> QED
        BY <1>6, <3>1, <4>3
    <3>2. CASE s \notin mine
      BY <1>9, <2>4, <3>2
    <3> QED
      BY <3>1, <3>2
  <2>6. PubOfContrib(c) = PubOf[s]
    BY <1>1, <2>3, <2>5, ContributionHasPublication DEF Members
  <2> QED
    BY <1>1, <2>2, <2>3, <2>4, <2>6 DEF RejectedStayOut
<1>17. /\ Quiet' /\ WritesAreAllowed' /\ PinnedAreLocked' /\ ReadingsAreCurrent'
       /\ CreationsAreOwn' /\ NamesAreCompleted'
  BY <1>1, <1>2, StaysQuiet
<1> QED
  BY <1>11, <1>12, <1>13, <1>14, <1>15, <1>16, <1>17 DEF IInv

------------------------------------------------------------------------------
(* The theorems                                                            *)

(* Every step preserves the invariant.                                     *)
LEMMA NextPreservesIInv ==
  ASSUME IInv, [Next]_vars
  PROVE  IInv'
<1>1. CASE Phase
  BY <1>1, StartPreservesIInv, PreparePreservesIInv, LoadBatchPreservesIInv,
     WriteBatchPreservesIInv, CreateNextPreservesIInv, CommitPreservesIInv,
     PopulatePreservesIInv, PurgePreservesIInv, AbortPreservesIInv DEF Phase
<1>2. CASE Administration
  BY <1>2, AssignPreservesIInv, RejectPairPreservesIInv, RejectFormPreservesIInv,
     RejectIdentifierPreservesIInv, MergePersonsPreservesIInv DEF Administration
<1>3. CASE \E b \in Pubs, group \in [Sources -> 1 .. Cardinality(Sources)] : Regroup(b, group)
  BY <1>3, RegroupPreservesIInv
<1>4. CASE UNCHANGED vars
  <2>1. UNCHANGED <<tables, queue, stage, copied, readings, overlay, disturbed, late, counters>>
    BY <1>4 DEF vars
  <2>2. UNCHANGED <<aligned, issued, link, pin, rejected, personName, form, attribution,
                    queue, stage, copied, remarked, candidates, todo, batch, pinsRead, taken,
                    toCreate, index, rejectedRead, written, named, given, disturbed, late,
                    requests, regroups, failures>>
    BY <2>1 DEF tables, readings, overlay, counters
  <2>3. TypeOK'
    <3>1. disturbed' \in BOOLEAN
      BY <2>2, Zenon DEF IInv, TypeOK
    <3> QED
      BY <2>2, <3>1 DEF IInv, TypeOK
  <2>4. Coherent' /\ Vacant' /\ Referenced' /\ PinsAllowed' /\ RejectedStayOut'
    BY <2>2, TablesUnchanged
  <2>5. Respectful
    BY <2>2 DEF Respectful
  <2>6. /\ Quiet' /\ WritesAreAllowed' /\ PinnedAreLocked' /\ NamesAreCompleted'
        /\ ReadingsAreCurrent' /\ CreationsAreOwn'
    <3>1. late' \subseteq Persons
      BY <2>3 DEF TypeOK
    <3> QED
      BY <2>2, <2>5, <3>1, RequestKeepsPhase
  <2> QED
    BY <2>3, <2>4, <2>6 DEF IInv
<1> QED
  BY <1>1, <1>2, <1>3, <1>4 DEF Next

(* The inductive invariant holds in every reachable state.                 *)
THEOREM IInvIsInvariant == Spec => []IInv
<1>1. Init => IInv
  BY InitImpliesIInv
<1>2. IInv /\ [Next]_vars => IInv'
  BY NextPreservesIInv
<1> QED
  BY <1>1, <1>2, PTL DEF Spec

(* The types of the tables, of the readings and of the uncommitted writes. *)
THEOREM TypeCorrect == Spec => []TypeOK
<1>1. IInv => TypeOK
  BY DEF IInv
<1> QED
  BY <1>1, IInvIsInvariant, PTL

(* Whatever the requests do while the phase runs, a person is attached to  *)
(* a publication it is rejected for only if the rejection came while the   *)
(* phase was deciding, or with a merge once the phase had written the      *)
(* attachment.                                                             *)
THEOREM RejectionsPrevail == Spec => []RejectedStayOut
<1>1. IInv => RejectedStayOut
  BY DEF IInv
<1> QED
  BY <1>1, IInvIsInvariant, PTL

==============================================================================

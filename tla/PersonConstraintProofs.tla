----------------------- MODULE PersonConstraintProofs ------------------------
(***************************************************************************)
(* Theorems on the constraints that the persons phase meets: one           *)
(* contribution for each person in a publication, persons that exist; and  *)
(* on what attaches a contribution to its person, which still holds when   *)
(* the phase is over. They rest on the invariant of PersonResolutionProofs. *)
(***************************************************************************)
EXTENDS PersonResolutionProofs

(* In a publication a person has one contribution at most: in the tables,  *)
(* and in what the transaction of the phase reads.                         *)
Apart(links) ==
    \A c \in Existing : \A o \in Rivals(c) :
        links[o].person = links[c].person => links[c].person = NoPerson
PersonsAreApart == Apart(link) /\ Apart(View)

(* A form is of a person that exists, a value is attributed to one.        *)
SupportsExist ==
    /\ \A p \in Persons : personName[p] = NoName => \A n \in Names : form[p][n] = "none"
    /\ \A v \in Values : attribution[v].person # NoPerson
                            => personName[attribution[v].person] # NoName
    /\ \A v \in DOMAIN given : given[v].person # NoPerson => NameView[given[v].person] # NoName

(* The phase creates persons once the batches are decided, and counts them *)
(* among the persons taken.                                                *)
CreationsComeLast ==
    /\ stage = "pinned" \/ todo # {} \/ batch # {} => Created = {}
    /\ stage = "deciding" => \A c \in Existing :
          View[c].person \in Created => View[c].person \in taken[PubOfContrib(c)]

(* Without a request, the index is of the persons there are, the pins read *)
(* are those there are, and the persons of the contributions that are not  *)
(* decided are taken.                                                      *)
IndexIsWhole ==
    /\ index.name = NameView
    /\ \A p \in Persons : index.name[p] = NoName => \A n \in Names : index.form[p][n] = "none"
    /\ \A v \in Values : index.holder[v] # NoPerson => index.name[index.holder[v]] # NoName
ReadingsAreWhole ==
    stage = "deciding" /\ ~ disturbed =>
        /\ IndexIsWhole
        /\ \A c \in Existing : pinsRead[c] \subseteq PinsOf(c)
        /\ \A o \in Existing \ candidates : PubOfContrib(o) \in batch =>
              View[o].person \in taken[PubOfContrib(o)] \cup {NoPerson}

(* Without a request, a pinned contribution has its person, or another one *)
(* of the publication has it, or had it, by a decision of the              *)
(* administration.                                                         *)
Manual(p) == [person |-> p, mode |-> "manual"]
PinsHold ==
    stage \in {"pinned", "deciding"} /\ ~ disturbed => \A c \in Existing, p \in Persons :
        PinsOf(c) = {p} =>
            \/ View[c] = Manual(p)
            \/ \E o \in Rivals(c) : Manual(p) \in {link[o], View[o]}

(* Nothing that is still to decide has a person from the administration.   *)
Undecided(c) == View[c].person = NoPerson \/ View[c].mode # "manual"
BatchesAreApart ==
    stage = "deciding" /\ ~ disturbed =>
        /\ \A c \in candidates : PubOfContrib(c) \in todo \cup batch => Undecided(c)
        /\ \A c \in toCreate : PubOfContrib(c) \notin todo \cup batch /\ Undecided(c)
        /\ todo \cap batch = {}

(* Outside the decision no batch is loaded, and none is left.              *)
NothingLoaded == stage \notin {"deciding", "conflict"} => todo = {} /\ batch = {}

CInv ==
    /\ PersonsAreApart /\ SupportsExist /\ NothingLoaded /\ CreationsComeLast
    /\ ReadingsAreWhole /\ ConflictNeedsRequest /\ PinsHold /\ BatchesAreApart

------------------------------------------------------------------------------
(* What the phase reads after a step                                       *)

(* A step that realigns nothing compares the same contributions.           *)
LEMMA ApartUnchanged ==
  ASSUME aligned' = aligned
  PROVE  /\ Apart(link)' <=> Apart(link')
         /\ Apart(View)' <=> Apart(View')
  BY AlignmentUnchanged DEF Apart

(* After its writes the phase reads what it has written.                   *)
LEMMA ViewAfterWriting ==
  ASSUME TypeOK, NEW links \in [Contribs -> Links], link' = link, written' = Writing(links)
  PROVE  View' = links
<1>1. View \in [Contribs -> Links]
  BY ViewsAreTyped
<1>2. ASSUME NEW c \in Contribs
      PROVE  (IF c \in DOMAIN written' THEN written'[c] ELSE link[c]) = links[c]
  <2>1. CASE c \in DOMAIN written'
    BY <2>1 DEF Writing
  <2>2. CASE c \notin DOMAIN written'
    <3>1. c \notin DOMAIN written /\ links[c] = View[c]
      BY <2>2 DEF Writing
    <3> QED
      BY <2>2, <3>1 DEF View
  <2> QED
    BY <2>1, <2>2
<1>3. View' = [c \in Contribs |-> IF c \in DOMAIN written' THEN written'[c] ELSE link[c]]
  BY DEF View
<1> QED
  BY <1>2, <1>3

(* Contributions that lose their person stay apart.                        *)
LEMMA ReleasedStayApart ==
  ASSUME NEW links, NEW new, Apart(links),
         \A c \in Existing : new[c] = links[c] \/ new[c].person = NoPerson
  PROVE  Apart(new)
  BY DEF Apart, Rivals

(* A person reads with the persons it exists among.                        *)
LEMMA NamesInView ==
  ASSUME TypeOK, NEW p \in Persons
  PROVE  /\ personName[p] # NoName => NameView[p] # NoName
         /\ NameView[p] # NoName => personName[p] # NoName \/ p \in Created
         /\ p \in Created => NameView[p] # NoName /\ personName[p] = NoName
  BY NamesAssumption DEF TypeOK, NameView, Created, IsPartial

------------------------------------------------------------------------------
(* The pins                                                                *)

(* The pins give their person to some contributions, apart from those that *)
(* had it, and are not heard only where a manual contribution has it.      *)
PinsGive(new, target) ==
    /\ target \subseteq Existing
    /\ \A c \in target : \E p \in Persons : PinsOf(c) = {p} /\ new[c] = Manual(p)
    /\ \A c \in target : \A o \in Rivals(c) : new[o].person # new[c].person
    /\ \A c \in Contribs \ target : new[c] = link[c] \/ new[c].person = NoPerson
    /\ \A c \in Existing, p \in Persons : PinsOf(c) = {p} =>
          \/ \E t \in target : t \in Rivals(c) \cup {c} /\ PinsOf(t) = {p}
          \/ \E o \in Rivals(c) : link[o] = Manual(p)

LEMMA PinnedGives ==
  ASSUME TypeOK, Coherent, NEW new, new = Pinned(Existing, link)
  PROVE  \E target : PinsGive(new, target)
<1> DEFINE of(c) == Sole(PinsOf(c))
           free == {c \in Existing :
                       /\ IsSingleton(PinsOf(c))
                       /\ \A o \in Rivals(c) : link[o] # [person |-> of(c), mode |-> "manual"]}
           target == {c \in free : \A d \in free \cap Rivals(c) : of(d) = of(c) => c < d}
           released(c) == c \in Existing /\ \E t \in target \cap Rivals(c) : of(t) = link[c].person
<1>1. new = [c \in Contribs |-> IF c \in target THEN [person |-> of(c), mode |-> "manual"]
                                ELSE IF released(c) THEN Unlinked ELSE link[c]]
  BY DEF Pinned
<1>2. ASSUME NEW c \in Existing, IsSingleton(PinsOf(c))
      PROVE  of(c) \in Persons /\ PinsOf(c) = {of(c)} /\ of(c) # NoPerson
  <2>1. PinsOf(c) = {of(c)}
    BY <1>2, SoleIsMember
  <2>2. PinsOf(c) \subseteq Persons
    BY ContributionHasPublication DEF PinsOf, TypeOK
  <2> HIDE DEF of
  <2> QED
    BY <2>1, <2>2, RejectedArePersons
<1>3. free \subseteq Existing /\ target \subseteq free /\ \A c \in free : IsSingleton(PinsOf(c))
  OBVIOUS
<1>4. Existing \subseteq Contribs /\ Contribs \subseteq Nat
  BY ContributionHasPublication, SourcesAreNumbers
<1>5. \A c \in target : \A d \in target : d \in Rivals(c) => of(c) # of(d)
  <2> SUFFICES ASSUME NEW c \in target, NEW d \in target, d \in Rivals(c), of(c) = of(d)
               PROVE  FALSE
    OBVIOUS
  <2>1. c \in Rivals(d)
    BY <1>3 DEF Rivals
  <2>2. c \in Nat /\ d \in Nat
    BY <1>3, <1>4
  <2>3. c < d /\ d < c
    BY <2>1
  <2> QED
    BY <2>2, <2>3
<1>6. ASSUME NEW c \in free
      PROVE  \E t \in target : t \in Rivals(c) \cup {c} /\ of(t) = of(c)
  <2> DEFINE same == {d \in free : d \in Rivals(c) \cup {c} /\ of(d) = of(c)}
  <2>1. same \subseteq Nat /\ c \in same
    BY <1>3, <1>4
  <2>2. PICK t \in same : \A d \in same : t <= d
    <3> HIDE DEF same
    <3> QED
      BY <2>1, SmallestIsMember
  <2>3. t \in free /\ t \in Rivals(c) \cup {c} /\ of(t) = of(c)
    BY <2>2
  <2>4. ASSUME NEW d \in free \cap Rivals(t), of(d) = of(t) PROVE t < d
    <3>1. d \in Rivals(c) \cup {c} /\ d # t
      BY <1>3, <2>3, <2>4 DEF Rivals
    <3>2. d \in same
      BY <2>3, <2>4, <3>1
    <3>3. t <= d /\ t \in Nat /\ d \in Nat
      BY <1>3, <1>4, <2>2, <2>3, <3>2
    <3> QED
      BY <3>1, <3>3
  <2> QED
    BY <2>3, <2>4
<1> HIDE DEF target, free, of
<1>7. \A c \in target : \E p \in Persons : PinsOf(c) = {p} /\ new[c] = Manual(p) /\ p = of(c)
  BY <1>1, <1>2, <1>3, <1>4 DEF Manual
<1>8. ASSUME NEW c \in target, NEW o \in Rivals(c) PROVE new[o].person # new[c].person
  <2>1. /\ o \in Existing /\ o \in Contribs /\ c \in Rivals(o) /\ c \in Contribs
        /\ c \in Existing /\ new[c].person = of(c)
    BY <1>1, <1>3, <1>4 DEF Rivals
  <2>4. of(c) \in Persons /\ of(c) # NoPerson
    BY <1>2, <1>3, <2>1
  <2>2. CASE o \in target
    BY <1>1, <1>5, <2>1, <2>2
  <2>3. CASE o \notin target
    <3>1. new[o] = IF released(o) THEN Unlinked ELSE link[o]
      BY <1>1, <2>1, <2>3
    <3>2. released(o) \/ link[o].person # of(c)
      BY <2>1
    <3> HIDE DEF released
    <3> QED
      BY <2>1, <2>4, <3>1, <3>2 DEF Unlinked
  <2> QED
    BY <2>2, <2>3
<1>9. \A c \in Contribs \ target : new[c] = link[c] \/ new[c].person = NoPerson
  BY <1>1 DEF Unlinked
<1>10. ASSUME NEW c \in Existing, NEW p \in Persons, PinsOf(c) = {p}
       PROVE  \/ \E t \in target : t \in Rivals(c) \cup {c} /\ PinsOf(t) = {p}
              \/ \E o \in Rivals(c) : link[o] = Manual(p)
  <2>1. IsSingleton(PinsOf(c)) /\ of(c) = p
    BY <1>2, <1>10 DEF IsSingleton
  <2>2. CASE c \in free
    BY <1>6, <1>7, <2>1, <2>2
  <2>3. CASE c \notin free
    BY <2>1, <2>3 DEF free, Manual
  <2> QED
    BY <2>2, <2>3
<1>11. PinsGive(new, target)
  BY <1>3, <1>7, <1>8, <1>9, <1>10 DEF PinsGive
<1> QED
  BY <1>11

------------------------------------------------------------------------------
(* What a batch writes                                                     *)

Batch(b) == {c \in candidates : PubOfContrib(c) = b}
Decided(b) == Settle([c \in Batch(b) |-> Decide(Members(c), pinsRead[c], index,
                                                BarredIn(b, rejectedRead))], taken[b])
Rewritten(b) == Attaching(Decided(b), Released(Decided(b), View))

(* Of two contributions that designate one person, one is better.          *)
LEMMA BetterIsTotal ==
  ASSUME TypeOK, Coherent, NEW c \in Existing, NEW d \in Existing, c # d, NEW decided,
         decided[c].by \in {"manual", "identifier", "name"},
         decided[d].by \in {"manual", "identifier", "name"}
  PROVE  Better(c, d, decided) \/ Better(d, c, decided)
<1>1. \A e \in Existing : Cardinality(Members(e)) \in Nat /\ e \in Nat
  <2>1. ASSUME NEW e \in Existing PROVE Cardinality(Members(e)) \in Nat /\ e \in Nat
    <3>1. Members(e) \subseteq Sources /\ e \in Contribs
      BY ContributionHasPublication
    <3>2. IsFiniteSet(Members(e))
      BY <3>1, SourcesAreNumbers, FS_Subset
    <3> QED
      BY <3>1, <3>2, FS_CardinalityType, SourcesAreNumbers
  <2> QED
    BY <2>1
<1>2. \A by \in {"manual", "identifier", "name"} : Strength(by) \in 0 .. 2
  BY DEF Strength
<1> QED
  BY <1>1, <1>2 DEF Better

(* The decisions of a batch are justified matches of distinct persons that *)
(* are not taken, or name nobody.                                          *)
LEMMA DecidedAreApart ==
  ASSUME IInv, stage = "deciding", NEW b \in Pubs
  PROVE  /\ DOMAIN Decided(b) = Batch(b) /\ Batch(b) \subseteq Existing
         /\ \A c \in Batch(b) :
               LET d == Decided(b)[c] IN
               /\ d.person \in Persons \cup {NoPerson}
               /\ d.by = "create" => d.person = NoPerson
               /\ ~ IsMatch(d) => d.person = NoPerson
               /\ IsMatch(d) => d.person \in Persons /\ d.person \notin taken[b]
               /\ d.by = "manual" => d.person \in pinsRead[c]
               /\ d.by = "identifier" => \E s \in Members(c) : d.person \in Identified(s, index)
               /\ d.by = "name" => \E s \in Members(c) : d.person \in NamedBy(s, index)
               /\ \A o \in Batch(b) \ {c} : IsMatch(d) /\ IsMatch(Decided(b)[o])
                                            => Decided(b)[o].person # d.person
<1> DEFINE raw == [c \in Batch(b) |-> Decide(Members(c), pinsRead[c], index,
                                             BarredIn(b, rejectedRead))]
<1>1. TypeOK /\ Coherent /\ Batch(b) \subseteq Existing /\ b \in Pubs
  BY DEF IInv, Quiet, Batch
<1>2. Decided(b) = Settle(raw, taken[b])
  BY DEF Decided
<1>3. DOMAIN raw = Batch(b)
  OBVIOUS
<1>4. ASSUME NEW c \in Batch(b)
      PROVE  Justified(raw[c], Members(c), pinsRead[c], index, BarredIn(b, rejectedRead))
  <2>1. PICK m \in SUBSET Sources, pins \in SUBSET Persons, barred \in SUBSET Persons :
           m = Members(c) /\ pins = pinsRead[c] /\ barred = BarredIn(b, rejectedRead)
    BY <1>1, ContributionHasPublication DEF BarredIn, TypeOK
  <2>2. index \in IndexType
    BY <1>1 DEF TypeOK, IndexType
  <2>3. Justified(Decide(m, pins, index, barred), m, pins, index, barred)
    BY <2>2, DecisionMeans
  <2> QED
    BY <2>1, <2>3
<1> HIDE DEF raw
<1>5. DOMAIN Decided(b) = Batch(b)
  BY <1>2, <1>3 DEF Settle
<1>6. ASSUME NEW c \in Batch(b)
      PROVE  \/ /\ Decided(b)[c] = raw[c]
                /\ IsMatch(raw[c]) => /\ raw[c].person \notin taken[b]
                                      /\ \A o \in Batch(b) \ {c} :
                                            ~ /\ IsMatch(raw[o])
                                              /\ raw[o].person = raw[c].person
                                              /\ Better(o, c, raw)
             \/ /\ Decided(b)[c].by = "skip" /\ Decided(b)[c].person = NoPerson
  BY <1>2, <1>3 DEF Settle, Decision
<1>7. ASSUME NEW c \in Batch(b)
      PROVE  LET d == Decided(b)[c] IN
             /\ d.person \in Persons \cup {NoPerson}
             /\ d.by = "create" => d.person = NoPerson
             /\ ~ IsMatch(d) => d.person = NoPerson
             /\ IsMatch(d) => d.person \in Persons /\ d.person \notin taken[b]
             /\ d.by = "manual" => d.person \in pinsRead[c]
             /\ d.by = "identifier" => \E s \in Members(c) : d.person \in Identified(s, index)
             /\ d.by = "name" => \E s \in Members(c) : d.person \in NamedBy(s, index)
  <2>1. /\ raw[c].person \in Persons \cup {NoPerson}
        /\ ~ IsMatch(raw[c]) => raw[c].person = NoPerson
        /\ IsMatch(raw[c]) => raw[c].person \in Persons
    <3>1. /\ Members(c) \in SUBSET Sources /\ pinsRead[c] \in SUBSET Persons
          /\ index \in IndexType
      BY <1>1, ContributionHasPublication DEF TypeOK, IndexType
    <3> QED
      BY <1>4, <3>1, DesignatedArePersons DEF Justified, IsMatch
  <2>2. "create" \notin {"manual", "identifier", "name"} /\ "skip" \notin {"manual", "identifier", "name"}
    OBVIOUS
  <2>3. CASE Decided(b)[c].by = "skip" /\ Decided(b)[c].person = NoPerson
    BY <2>2, <2>3 DEF IsMatch
  <2>4. CASE Decided(b)[c] = raw[c] /\ (IsMatch(raw[c]) => raw[c].person \notin taken[b])
    BY <1>4, <2>1, <2>2, <2>4 DEF IsMatch, Justified
  <2> QED
    BY <1>6, <2>3, <2>4
<1>8. ASSUME NEW c \in Batch(b), NEW o \in Batch(b) \ {c},
             IsMatch(Decided(b)[c]), IsMatch(Decided(b)[o]),
             Decided(b)[o].person = Decided(b)[c].person
      PROVE  FALSE
  <2>1. ~ IsMatch([by |-> "skip"]) /\ \A d : d.by = "skip" => ~ IsMatch(d)
    BY DEF IsMatch
  <2>2. /\ Decided(b)[c] = raw[c] /\ Decided(b)[o] = raw[o]
        /\ ~ Better(o, c, raw) /\ ~ Better(c, o, raw)
    BY <1>6, <1>8, <2>1
  <2> QED
    BY <1>1, <1>8, <2>2, BetterIsTotal DEF IsMatch
<1> QED
  BY <1>1, <1>5, <1>7, <1>8

(* What is released and attached keeps the contributions of a publication  *)
(* apart, unless the constraint refuses it.                                *)
LEMMA RewrittenMeans ==
  ASSUME IInv, stage = "deciding", NEW b \in Pubs
  PROVE  /\ Rewritten(b) \in [Contribs -> Links]
         /\ \A c \in Contribs \ Batch(b) : Rewritten(b)[c] = View[c]
         /\ \A c \in Batch(b) :
               LET d == Decided(b)[c] IN
               /\ IsMatch(d) => Rewritten(b)[c] = [person |-> d.person, mode |-> d.by]
               /\ ~ IsMatch(d) => Rewritten(b)[c].person = NoPerson
         /\ Apart(View) /\ ~ Refused(Decided(b), Released(Decided(b), View))
               => Apart(Rewritten(b))
<1> DEFINE R == Released(Decided(b), View)
<1>1. /\ DOMAIN Decided(b) = Batch(b) /\ Batch(b) \subseteq Existing
      /\ \A c \in Batch(b) :
            LET d == Decided(b)[c] IN
            /\ d.person \in Persons \cup {NoPerson}
            /\ ~ IsMatch(d) => d.person = NoPerson
            /\ IsMatch(d) => d.person \in Persons
            /\ \A o \in Batch(b) \ {c} : IsMatch(d) /\ IsMatch(Decided(b)[o])
                                         => Decided(b)[o].person # d.person
  BY DecidedAreApart
<1>2. TypeOK /\ Coherent /\ View \in [Contribs -> Links]
  BY ViewsAreTyped DEF IInv
<1>3. Batch(b) \subseteq Contribs /\ Existing \subseteq Contribs /\ NoPerson \notin Persons
  BY <1>1, <1>2, ContributionHasPublication, RejectedArePersons
<1>4. /\ R \in [Contribs -> Links]
      /\ \A c \in Contribs : R[c] = View[c] \/ R[c].person = NoPerson
      /\ \A c \in Contribs \ Batch(b) : R[c] = View[c]
      /\ \A c \in Batch(b) : R[c].person \in {NoPerson, Decided(b)[c].person}
  BY <1>1, <1>2, <1>3 DEF Released, Unlinked, Links, Modes
<1>5. Rewritten(b) = [c \in Contribs |->
          IF c \in Batch(b) /\ IsMatch(Decided(b)[c])
          THEN [person |-> Decided(b)[c].person, mode |-> Decided(b)[c].by] ELSE R[c]]
  BY <1>1 DEF Rewritten, Attaching
<1>6. Rewritten(b) \in [Contribs -> Links]
  BY <1>1, <1>4, <1>5 DEF Links, Modes, IsMatch
<1>7. ASSUME Apart(View), ~ Refused(Decided(b), R) PROVE Apart(Rewritten(b))
  <2>1. Apart(R)
    BY <1>3, <1>4, <1>7, ReleasedStayApart
  <2>2. \A c \in Batch(b) : IsMatch(Decided(b)[c]) =>
           \A o \in Rivals(c) : R[o].person # Decided(b)[c].person
    BY <1>1, <1>7 DEF Refused
  <2> SUFFICES ASSUME NEW c \in Existing, NEW o \in Rivals(c),
                      Rewritten(b)[o].person = Rewritten(b)[c].person
               PROVE  Rewritten(b)[c].person = NoPerson
    BY DEF Apart
  <2>3. o \in Existing /\ c \in Rivals(o) /\ o # c
    BY DEF Rivals
  <2>4. CASE c \in Batch(b) /\ IsMatch(Decided(b)[c])
    BY <1>1, <1>3, <1>5, <2>2, <2>3, <2>4
  <2>5. CASE ~ (c \in Batch(b) /\ IsMatch(Decided(b)[c]))
    <3>1. CASE o \in Batch(b) /\ IsMatch(Decided(b)[o])
      BY <1>1, <1>3, <1>5, <2>2, <2>3, <2>5, <3>1
    <3>2. CASE ~ (o \in Batch(b) /\ IsMatch(Decided(b)[o]))
      BY <1>3, <1>5, <2>1, <2>3, <2>5, <3>2 DEF Apart
    <3> QED
      BY <3>1, <3>2
  <2> QED
    BY <2>4, <2>5
<1> HIDE DEF R
<1>8. \A c \in Batch(b) : ~ IsMatch(Decided(b)[c]) => Rewritten(b)[c].person = NoPerson
  BY <1>1, <1>3, <1>4, <1>5
<1>9. \A c \in Contribs \ Batch(b) : Rewritten(b)[c] = View[c]
  BY <1>4, <1>5
<1>10. \A c \in Batch(b) : IsMatch(Decided(b)[c]) =>
          Rewritten(b)[c] = [person |-> Decided(b)[c].person, mode |-> Decided(b)[c].by]
  BY <1>3, <1>5
<1> QED
  BY <1>6, <1>7, <1>8, <1>9, <1>10 DEF R

(* The decisions of a batch are written, or refused.                       *)
BatchWritten(b) ==
    /\ UNCHANGED <<stage, named>>
    /\ View' = Rewritten(b) /\ given' = Attributed(Decided(b))
    /\ toCreate' = toCreate \cup {c \in Batch(b) : Decided(b)[c].by = "create"}
    /\ taken' = [taken EXCEPT ![b] =
          @ \cup {Decided(b)[c].person : c \in {d \in Batch(b) : IsMatch(Decided(b)[d])}}]
    /\ pinsRead' = [c \in Contribs |-> {}]
    /\ batch' = {}
BatchRefused(b) ==
    /\ Refused(Decided(b), Released(Decided(b), View))
    /\ stage' = "conflict"
    /\ UNCHANGED <<batch, pinsRead, taken, toCreate, written, named, given>>
    /\ View' = View

LEMMA WriteBatchMeans ==
  ASSUME IInv, WriteBatch
  PROVE  /\ stage = "deciding" /\ batch # {}
         /\ UNCHANGED <<aligned, issued, link, pin, rejected, personName, form, attribution,
                        queue, copied, remarked, candidates, todo, index, rejectedRead,
                        disturbed, late>>
         /\ \E b \in batch :
               /\ b \in Pubs
               /\ \/ BatchRefused(b)
                  \/ /\ ~ Refused(Decided(b), Released(Decided(b), View))
                     /\ BatchWritten(b)
<1>1. /\ stage = "deciding" /\ batch # {} /\ batch \subseteq Pubs /\ TypeOK
      /\ UNCHANGED <<aligned, issued, link, pin, rejected, personName, form, attribution,
                     queue, copied, remarked, candidates, todo, index, rejectedRead,
                     disturbed, late>>
  BY DEF WriteBatch, tables, IInv, TypeOK
<1>2. PICK b \in batch :
         IF Refused(Decided(b), Released(Decided(b), View))
         THEN stage' = "conflict" /\ UNCHANGED <<batch, pinsRead, taken, toCreate, overlay>>
         ELSE /\ written' = Writing(Rewritten(b))
              /\ given' = Attributed(Decided(b))
              /\ toCreate' = toCreate \cup {c \in Batch(b) : Decided(b)[c].by = "create"}
              /\ taken' = [taken EXCEPT ![b] =
                    @ \cup {Decided(b)[c].person : c \in {d \in Batch(b) : IsMatch(Decided(b)[d])}}]
              /\ pinsRead' = [c \in Contribs |-> {}]
              /\ batch' = {}
              /\ UNCHANGED <<stage, named>>
  <2>1. PICK b \in batch :
       LET cs == {c \in candidates : PubOfContrib(c) = b}
       IN  \E decided \in {Settle([c \in cs |-> Decide(Members(c), pinsRead[c], index,
                                                      BarredIn(b, rejectedRead))],
                                  taken[b])} :
           \E released \in {Released(decided, View)} :
           IF Refused(decided, released)
           THEN stage' = "conflict" /\ UNCHANGED <<batch, pinsRead, taken, toCreate, overlay>>
           ELSE /\ written' = Writing(Attaching(decided, released))
                /\ given' = Attributed(decided)
                /\ toCreate' = toCreate \cup {c \in cs : decided[c].by = "create"}
                /\ taken' = [taken EXCEPT ![b] =
                      @ \cup {decided[c].person : c \in {d \in cs : IsMatch(decided[d])}}]
                /\ pinsRead' = [c \in Contribs |-> {}]
                /\ batch' = {}
                /\ UNCHANGED <<stage, named>>
    BY DEF WriteBatch
  <2> QED
    BY <2>1 DEF Rewritten, Decided, Batch
<1>3. CASE Refused(Decided(b), Released(Decided(b), View))
  <2>1. /\ stage' = "conflict"
        /\ UNCHANGED <<batch, pinsRead, taken, toCreate, written, named, given>>
    BY <1>2, <1>3 DEF overlay
  <2>2. View' = View
    BY <1>1, <2>1 DEF View
  <2> QED
    BY <1>1, <1>3, <2>1, <2>2 DEF BatchRefused
<1>4. CASE ~ Refused(Decided(b), Released(Decided(b), View))
  <2>1. Rewritten(b) \in [Contribs -> Links]
    BY <1>1, RewrittenMeans
  <2>2. View' = Rewritten(b)
    BY <1>1, <1>2, <1>4, <2>1, ViewAfterWriting
  <2> QED
    BY <1>1, <1>2, <1>4, <2>2 DEF BatchWritten
<1> QED
  BY <1>3, <1>4

------------------------------------------------------------------------------
(* What a creation writes                                                  *)

(* Of the contributions to create, c founds p under the name n, joins a    *)
(* person created before it, or is left alone.                             *)
Attaches(c, p, decided) ==
    /\ p \in Persons /\ DOMAIN decided = {c} /\ decided[c].person = p /\ IsMatch(decided[c])
    /\ decided[c].by = "identifier" => \E s \in Members(c) : p \in Identified(s, index)
    /\ View' = [View EXCEPT ![c] = [person |-> p, mode |-> decided[c].by]]
    /\ given' = Attributed(decided)
    /\ taken' = [taken EXCEPT ![PubOfContrib(c)] = @ \cup {p}]
Founds(c, p, n, refused) ==
    /\ n \in Names /\ p \in Persons
    /\ NameView[p] = NoName /\ index.name[p] = NoName
    /\ named' = [q \in DOMAIN named \cup {p} |-> IF q = p THEN n ELSE named[q]]
    /\ index' = Registered(p, n, Members(c), refused)
Leaves == View' = View /\ UNCHANGED <<given, taken, named, index>>

LEMMA CreateNextMeans ==
  ASSUME IInv, CreateNext
  PROVE  /\ stage = "deciding" /\ todo = {} /\ batch = {}
         /\ UNCHANGED <<aligned, issued, link, pin, rejected, personName, form, attribution,
                        queue, stage, copied, remarked, candidates, todo, batch, pinsRead,
                        rejectedRead, disturbed, late>>
         /\ \E c \in toCreate :
               /\ c \in Existing /\ toCreate' = toCreate \ {c}
               /\ \/ Leaves
                  \/ \E p, decided :
                        /\ Attaches(c, p, decided)
                        /\ p \in Created /\ p \notin taken[PubOfContrib(c)]
                        /\ UNCHANGED <<named, index>>
                  \/ \E p, decided, n, refused :
                        /\ Attaches(c, p, decided) /\ decided[c] = Decision(p, "name", refused)
                        /\ Founds(c, p, n, refused)
<1>1. /\ stage = "deciding" /\ todo = {} /\ batch = {}
      /\ TypeOK /\ Coherent /\ Quiet /\ CreationsAreOwn
      /\ UNCHANGED <<aligned, issued, link, pin, rejected, personName, form, attribution,
                     queue, stage, copied, remarked, candidates, todo, batch, pinsRead,
                     rejectedRead, disturbed, late>>
  BY DEF CreateNext, tables, IInv
<1>2. PICK c \in toCreate :
       LET b == PubOfContrib(c)
           free == {p \in Persons : NameView[p] = NoName /\ index.name[p] = NoName}
           n == FoundingName(Members(c))
       IN  /\ toCreate' = toCreate \ {c}
           /\ \E d \in {Decide(Members(c), {}, index, BarredIn(b, rejectedRead))} :
              LET founds == d.by = "create"
                  attached == founds \/ (IsMatch(d) /\ d.person \notin taken[b])
              IN  \E p \in IF founds THEN {q \in free : \A r \in free : q <= r} ELSE {d.person} :
                  LET decided == [x \in {c} |->
                                     Decision(p, IF founds THEN "name" ELSE d.by, d.refused)]
                  IN  /\ written' = IF attached THEN Writing(Attaching(decided, View)) ELSE written
                      /\ given' = IF attached THEN Attributed(decided) ELSE given
                      /\ taken' = IF attached THEN [taken EXCEPT ![b] = @ \cup {p}] ELSE taken
                      /\ named' = IF founds THEN [q \in DOMAIN named \cup {p} |->
                                                    IF q = p THEN n ELSE named[q]] ELSE named
                      /\ index' = IF founds THEN Registered(p, n, Members(c), d.refused)
                                            ELSE index
  BY DEF CreateNext
<1> DEFINE b == PubOfContrib(c)
           free == {p \in Persons : NameView[p] = NoName /\ index.name[p] = NoName}
           n == FoundingName(Members(c))
<1>3. PICK d, founds, attached, p, decided :
           /\ d = Decide(Members(c), {}, index, BarredIn(b, rejectedRead))
           /\ founds \in BOOLEAN /\ attached \in BOOLEAN
           /\ founds <=> d.by = "create"
           /\ attached <=> founds \/ (IsMatch(d) /\ d.person \notin taken[b])
           /\ founds => p \in free
           /\ ~ founds => p = d.person
           /\ decided = [x \in {c} |-> Decision(p, IF founds THEN "name" ELSE d.by, d.refused)]
           /\ attached => /\ written' = Writing(Attaching(decided, View))
                          /\ given' = Attributed(decided)
                          /\ taken' = [taken EXCEPT ![b] = @ \cup {p}]
           /\ ~ attached => UNCHANGED <<written, given, taken>>
           /\ founds => /\ named' = [q \in DOMAIN named \cup {p} |-> IF q = p THEN n ELSE named[q]]
                        /\ index' = Registered(p, n, Members(c), d.refused)
           /\ ~ founds => UNCHANGED <<named, index>>
  BY <1>2
<1>4. /\ c \in Existing /\ c \in Contribs /\ b \in Pubs
      /\ Members(c) \in SUBSET Sources /\ Members(c) # {}
      /\ DesignatedByCreated(c) /\ toCreate' = toCreate \ {c}
  BY <1>1, <1>2, ContributionHasPublication DEF Quiet, CreationsAreOwn
<1>5. n \in Names
  BY <1>4, FoundingNameIsName
<1> HIDE DEF n
<1>6. Justified(d, Members(c), {}, index, BarredIn(b, rejectedRead))
  <2>1. index \in IndexType
    BY <1>1 DEF TypeOK, IndexType
  <2> HIDE DEF b
  <2> QED
    BY <1>3, <1>4, <2>1, DecisionMeans
<1>7. founds => p \in Persons /\ NameView[p] = NoName /\ index.name[p] = NoName
  BY <1>3
<1>8. attached /\ ~ founds => p \in Created /\ p \in Persons /\ p \notin taken[b]
  <2> SUFFICES ASSUME attached, ~ founds PROVE p \in Created /\ p \in Persons /\ p \notin taken[b]
    OBVIOUS
  <2>1. IsMatch(d) /\ p = d.person /\ p \notin taken[b]
    BY <1>3
  <2>2. p \in Created
    BY <1>4, <1>6, <2>1 DEF Justified, DesignatedByCreated, IsMatch
  <2> QED
    BY <1>1, <2>1, <2>2 DEF Created, TypeOK, IsPartial
<1> HIDE DEF free
<1>9. attached => Attaches(c, p, decided)
  <2> SUFFICES ASSUME attached PROVE Attaches(c, p, decided)
    OBVIOUS
  <2>1. /\ p \in Persons /\ DOMAIN decided = {c} /\ decided[c].person = p
        /\ IsMatch(decided[c]) /\ decided[c].by \in Modes
    BY <1>3, <1>7, <1>8 DEF Decision, IsMatch, Modes
  <2>2. View \in [Contribs -> Links]
    BY <1>1, ViewsAreTyped
  <2>3. Attaching(decided, View) = [View EXCEPT ![c] = [person |-> p, mode |-> decided[c].by]]
    BY <1>4, <2>1, <2>2 DEF Attaching
  <2>4. Attaching(decided, View) \in [Contribs -> Links]
    <3>1. PICK links \in [Contribs -> Links], l \in Links :
             links = View /\ l = [person |-> p, mode |-> decided[c].by]
      BY <2>1, <2>2 DEF Links
    <3>2. Attaching(decided, View) = [links EXCEPT ![c] = l]
      BY <2>3, <3>1
    <3> QED
      BY <3>2
  <2>5. View' = Attaching(decided, View)
    BY <1>1, <1>3, <2>4, ViewAfterWriting
  <2>6. decided[c].by = "identifier" => \E s \in Members(c) : p \in Identified(s, index)
    BY <1>3, <1>6 DEF Decision, Justified
  <2> QED
    BY <1>3, <2>1, <2>3, <2>5, <2>6 DEF Attaches
<1>10. ~ attached => Leaves
  BY <1>1, <1>3 DEF Leaves, View
<1>11. founds => Founds(c, p, n, d.refused)
  BY <1>3, <1>5, <1>7 DEF Founds
<1>12. founds => attached
  BY <1>3
<1>13. \/ Leaves
       \/ Attaches(c, p, decided) /\ p \in Created /\ p \notin taken[b] /\ UNCHANGED <<named, index>>
       \/ /\ Attaches(c, p, decided) /\ decided[c] = Decision(p, "name", d.refused)
          /\ Founds(c, p, n, d.refused)
  <2>1. CASE founds
    BY <1>3, <1>9, <1>11, <1>12, <2>1
  <2>2. CASE ~ founds /\ attached
    BY <1>3, <1>8, <1>9, <2>2
  <2>3. CASE ~ founds /\ ~ attached
    BY <1>10, <2>3
  <2> QED
    BY <2>1, <2>2, <2>3
<1> QED
  BY <1>1, <1>2, <1>4, <1>13

------------------------------------------------------------------------------
(* One contribution for each person in a publication                       *)

LEMMA StayApart ==
  ASSUME PersonsAreApart, UNCHANGED <<aligned, link, written>>
  PROVE  PersonsAreApart'
<1>1. View' = View
  BY DEF View
<1> QED
  BY <1>1, ApartUnchanged DEF PersonsAreApart

(* Outside its transaction the phase reads the tables.                     *)
LEMMA TablesAreApart ==
  ASSUME IInv', aligned' = aligned, Apart(link'), written' = Nothing
  PROVE  PersonsAreApart'
<1>1. View' = link'
  BY NothingIsEmpty DEF IInv, TypeOK, View
<1> QED
  BY <1>1, ApartUnchanged DEF PersonsAreApart

LEMMA StartKeepsApart ==
  ASSUME IInv, PersonsAreApart, NEW rebuild \in BOOLEAN, Start(rebuild)
  PROVE  /\ PersonsAreApart'
         /\ View' = Pinned(Existing, link)
<1> DEFINE links == Pinned(Existing, link)
<1>1. /\ TypeOK /\ Coherent /\ written' = Writing(links)
      /\ UNCHANGED <<aligned, link>>
  BY DEF Start, tables, IInv
<1>2. links \in [Contribs -> Links]
  BY <1>1, PinnedMeans
<1>3. PICK target : PinsGive(links, target)
  BY <1>1, PinnedGives
<1> HIDE DEF links
<1>4. View' = links
  BY <1>1, <1>2, ViewAfterWriting
<1>5. Apart(links)
  <2> SUFFICES ASSUME NEW c \in Existing, NEW o \in Rivals(c), links[o].person = links[c].person
               PROVE  links[c].person = NoPerson
    BY DEF Apart
  <2>1. o \in Existing /\ c \in Rivals(o) /\ c \in Contribs /\ o \in Contribs
    BY <1>1, ContributionHasPublication DEF Rivals
  <2>2. c \notin target /\ o \notin target
    BY <1>3, <2>1 DEF PinsGive
  <2> QED
    BY <1>3, <2>1, <2>2 DEF PinsGive, PersonsAreApart, Apart
<1> QED
  BY <1>1, <1>4, <1>5, ApartUnchanged DEF PersonsAreApart, links

LEMMA WriteBatchKeepsApart ==
  ASSUME IInv, PersonsAreApart, WriteBatch
  PROVE  PersonsAreApart'
<1>1. /\ stage = "deciding" /\ UNCHANGED <<aligned, link>>
      /\ \E b \in batch :
            /\ b \in Pubs
            /\ \/ BatchRefused(b)
               \/ /\ ~ Refused(Decided(b), Released(Decided(b), View))
                  /\ BatchWritten(b)
  BY WriteBatchMeans
<1>2. Apart(View')
  BY <1>1, RewrittenMeans DEF BatchRefused, BatchWritten, PersonsAreApart
<1> QED
  BY <1>1, <1>2, ApartUnchanged DEF PersonsAreApart

(* A created person is in no publication it is not taken in.               *)
LEMMA CreateNextKeepsApart ==
  ASSUME IInv, PersonsAreApart, CreationsComeLast, CreateNext
  PROVE  PersonsAreApart'
<1>1. /\ stage = "deciding" /\ UNCHANGED <<aligned, link>>
      /\ \E c \in toCreate :
            /\ c \in Existing
            /\ \/ Leaves
               \/ \E p, decided : /\ Attaches(c, p, decided)
                                  /\ p \in Created /\ p \notin taken[PubOfContrib(c)]
               \/ \E p, decided, n, refused : Attaches(c, p, decided) /\ Founds(c, p, n, refused)
  BY CreateNextMeans
<1>2. CASE View' = View
  BY <1>1, <1>2, ApartUnchanged DEF PersonsAreApart
<1>3. CASE \E c \in Existing : \E p, decided :
              /\ Attaches(c, p, decided)
              /\ \/ p \in Created /\ p \notin taken[PubOfContrib(c)]
                 \/ NameView[p] = NoName
  <2>0. PICK c \in Existing : \E p, decided :
              /\ Attaches(c, p, decided)
              /\ \/ p \in Created /\ p \notin taken[PubOfContrib(c)]
                 \/ NameView[p] = NoName
    BY <1>3
  <2>1. PICK p, decided :
              /\ Attaches(c, p, decided)
              /\ \/ p \in Created /\ p \notin taken[PubOfContrib(c)]
                 \/ NameView[p] = NoName
    BY <2>0
  <2>2. /\ TypeOK /\ Coherent /\ WritesAreAllowed /\ Referenced
        /\ p \in Persons /\ p # NoPerson /\ View \in [Contribs -> Links]
        /\ \A x : x \in Existing => x \in Contribs
    BY <2>1, RejectedArePersons, ViewsAreTyped, ContributionHasPublication DEF IInv, Attaches
  <2>3. ASSUME NEW o \in Rivals(c) PROVE View[o].person # p
    <3>1. o \in Existing /\ PubOfContrib(o) = PubOfContrib(c)
      BY DEF Rivals
    <3>2. ASSUME NameView[p] = NoName PROVE View[o].person # p
      <4>1. CASE o \in DOMAIN written
        BY <1>1, <2>2, <3>1, <3>2, <4>1 DEF View, WritesAreAllowed
      <4>2. CASE o \notin DOMAIN written
        BY <2>2, <3>1, <3>2, <4>2, NamesInView DEF View, Referenced
      <4> QED
        BY <4>1, <4>2
    <3> QED
      BY <1>1, <2>1, <3>1, <3>2 DEF CreationsComeLast
  <2>4. View' = [View EXCEPT ![c] = [person |-> p, mode |-> decided[c].by]]
    BY <2>1 DEF Attaches
  <2>5. Apart(View')
    <3> SUFFICES ASSUME NEW x \in Existing, NEW y \in Rivals(x),
                        View'[y].person = View'[x].person
                 PROVE  View'[x].person = NoPerson
      BY DEF Apart
    <3>1. y \in Existing /\ x \in Rivals(y) /\ x # y
      BY DEF Rivals
    <3>2. /\ View'[c].person = p
          /\ \A z \in Contribs \ {c} : View'[z] = View[z]
      BY <2>2, <2>4
    <3>3. CASE x = c
      BY <2>2, <2>3, <3>1, <3>2, <3>3
    <3>4. CASE y = c
      BY <2>2, <2>3, <3>1, <3>2, <3>4
    <3>5. CASE x # c /\ y # c
      BY <2>2, <3>1, <3>2, <3>5 DEF PersonsAreApart, Apart
    <3> QED
      BY <3>3, <3>4, <3>5
  <2> QED
    BY <1>1, <2>5, ApartUnchanged DEF PersonsAreApart
<1>4. /\ Leaves => View' = View
      /\ \A c, p, n, refused : Founds(c, p, n, refused) => NameView[p] = NoName
  BY DEF Leaves, Founds
<1> QED
  BY <1>1, <1>2, <1>3, <1>4

LEMMA CommitKeepsApart ==
  ASSUME IInv, IInv', PersonsAreApart, Commit
  PROVE  PersonsAreApart'
  BY TablesAreApart DEF PersonsAreApart, Commit, TransactionEnds

LEMMA AbortKeepsApart ==
  ASSUME IInv, IInv', PersonsAreApart, Abort
  PROVE  PersonsAreApart'
  BY TablesAreApart DEF PersonsAreApart, Abort, TransactionEnds, tables

LEMMA PurgeKeepsApart ==
  ASSUME IInv, IInv', PersonsAreApart, Purge
  PROVE  PersonsAreApart'
<1>1. /\ UNCHANGED <<aligned, written>> /\ written = Nothing /\ TypeOK /\ Coherent
      /\ \E deleted : link' = [c \in Contribs |->
                                  IF link[c].person \in deleted THEN Unlinked ELSE link[c]]
  BY DEF Purge, overlay, IInv, Quiet
<1>2. \A c \in Existing : link'[c] = link[c] \/ link'[c].person = NoPerson
  BY <1>1, ContributionHasPublication DEF Unlinked
<1> QED
  BY <1>1, <1>2, ReleasedStayApart, TablesAreApart DEF PersonsAreApart

(* A request that takes persons away, or gives one that no contribution of *)
(* the publication has, in the tables or in what the phase has written.    *)
LEMMA RequestKeepsApart ==
  ASSUME IInv, IInv', PersonsAreApart, UNCHANGED <<aligned, written>>, Apart(link'),
         \A d \in Existing : link'[d] # link[d] =>
            /\ d \notin DOMAIN written
            /\ link'[d].person # NoPerson =>
                  \A o \in Rivals(d) \cap DOMAIN written : written[o].person # link'[d].person
  PROVE  PersonsAreApart'
<1>1. TypeOK /\ Coherent /\ \A x : x \in Existing => x \in Contribs
  BY ContributionHasPublication DEF IInv
<1>2. /\ View = [c \in Contribs |-> IF c \in DOMAIN written THEN written[c] ELSE link[c]]
      /\ View' = [c \in Contribs |-> IF c \in DOMAIN written THEN written[c] ELSE link'[c]]
  BY DEF View
<1>3. Apart(View')
  <2> SUFFICES ASSUME NEW c \in Existing, NEW o \in Rivals(c), View'[o].person = View'[c].person,
                      View'[c].person # NoPerson
               PROVE  FALSE
    BY DEF Apart
  <2>1. o \in Existing /\ c \in Rivals(o) /\ c \in Contribs /\ o \in Contribs
    BY <1>1 DEF Rivals
  <2>2. CASE View'[c] = View[c] /\ View'[o] = View[o]
    BY <2>2 DEF PersonsAreApart, Apart
  <2>3. CASE View'[c] # View[c] \/ View'[o] # View[o]
    <3>1. c \notin DOMAIN written \/ o \notin DOMAIN written
      BY <1>2, <2>1, <2>3
    <3>2. CASE c \notin DOMAIN written /\ o \notin DOMAIN written
      BY <1>2, <2>1, <3>2 DEF Apart
    <3>3. CASE c \in DOMAIN written /\ o \notin DOMAIN written
      BY <1>2, <2>1, <2>3, <3>3
    <3>4. CASE c \notin DOMAIN written /\ o \in DOMAIN written
      BY <1>2, <2>1, <2>3, <3>4
    <3> QED
      BY <3>1, <3>2, <3>3, <3>4
  <2> QED
    BY <2>2, <2>3
<1> QED
  BY <1>3, ApartUnchanged DEF PersonsAreApart

LEMMA AssignKeepsApart ==
  ASSUME IInv, IInv', PersonsAreApart, NEW c \in Contribs, NEW p \in Persons, Assign(c, p)
  PROVE  PersonsAreApart'
<1> DEFINE owners == {o \in Rivals(c) : link[o].person = p}
<1>1. /\ TypeOK /\ Coherent /\ c \in Existing /\ NoPerson \notin Persons
      /\ \A x : x \in Existing => x \in Contribs
  BY RejectedArePersons, ContributionHasPublication DEF IInv, Assign
<1>2. /\ UNCHANGED <<aligned, written>>
      /\ Unlocked(owners \cup {c}) /\ \A o \in Rivals(c) \cap DOMAIN written : written[o].person # p
      /\ link' = [d \in Contribs |-> IF d = c THEN [person |-> p, mode |-> "manual"]
                                     ELSE IF d \in owners THEN Unlinked ELSE link[d]]
  BY DEF Assign, Request, overlay
<1>3. /\ link'[c].person = p
      /\ \A d \in Contribs \ {c} : link'[d] = link[d] \/ (d \in owners /\ link'[d].person = NoPerson)
      /\ \A d \in owners : d # c /\ link'[d].person = NoPerson
  BY <1>1, <1>2 DEF Unlinked, Rivals
<1>4. Apart(link')
  <2> SUFFICES ASSUME NEW x \in Existing, NEW y \in Rivals(x), link'[y].person = link'[x].person,
                      link'[x].person # NoPerson
               PROVE  FALSE
    BY DEF Apart
  <2>1. y \in Existing /\ x \in Rivals(y) /\ x # y /\ x \in Contribs /\ y \in Contribs
    BY <1>1 DEF Rivals
  <2>2. CASE x = c
    BY <1>3, <2>1, <2>2
  <2>3. CASE y = c
    BY <1>3, <2>1, <2>3
  <2>4. CASE x # c /\ y # c
    BY <1>3, <2>1, <2>4 DEF PersonsAreApart, Apart
  <2> QED
    BY <2>2, <2>3, <2>4
<1>5. ASSUME NEW d \in Existing, link'[d] # link[d]
      PROVE  /\ d \notin DOMAIN written
             /\ link'[d].person # NoPerson =>
                   \A o \in Rivals(d) \cap DOMAIN written : written[o].person # link'[d].person
  BY <1>1, <1>2, <1>3, <1>5 DEF Unlocked
<1> QED
  BY <1>2, <1>4, <1>5, RequestKeepsApart

LEMMA RejectPairKeepsApart ==
  ASSUME IInv, IInv', PersonsAreApart, NEW c \in Contribs, RejectPair(c)
  PROVE  PersonsAreApart'
<1>1. /\ TypeOK /\ Coherent /\ \A x : x \in Existing => x \in Contribs
      /\ UNCHANGED <<aligned, written>>
  BY ContributionHasPublication DEF IInv, RejectPair, Request, overlay
<1>2. PICK left : /\ link' = left /\ Unlocked({d \in Contribs : left[d] # link[d]})
                  /\ \E p, pairs : left = Detached(p, pairs, link)
  BY DEF RejectPair
<1>3. \A d \in Existing : link'[d] = link[d] \/ (link'[d].person = NoPerson /\ d \notin DOMAIN written)
  <2> SUFFICES ASSUME NEW d \in Existing, link'[d] # link[d]
               PROVE  link'[d].person = NoPerson /\ d \notin DOMAIN written
    OBVIOUS
  <2>1. link'[d] = Unlinked
    BY <1>1, <1>2 DEF Detached
  <2> QED
    BY <1>1, <1>2, <2>1 DEF Unlinked, Unlocked
<1>4. Apart(link')
  BY <1>3, ReleasedStayApart DEF PersonsAreApart
<1> QED
  BY <1>1, <1>3, <1>4, RequestKeepsApart

LEMMA MergePersonsKeepsApart ==
  ASSUME IInv, IInv', PersonsAreApart, NEW t \in Persons, NEW s \in Persons, MergePersons(t, s)
  PROVE  PersonsAreApart'
<1>1. /\ TypeOK /\ Coherent /\ NoPerson \notin Persons
      /\ \A x : x \in Existing => x \in Contribs
  BY RejectedArePersons, ContributionHasPublication DEF IInv
<1>2. UNCHANGED <<aligned, written>> /\ t # s
  BY DEF MergePersons, Request, overlay
<1> DEFINE pairs == {r \in rejected : r[2] # s}
                      \cup {<<r[1], t>> : r \in {q \in rejected : q[2] = s}}
           moved == [c \in Contribs |->
                      IF link[c].person # s THEN link[c]
                      ELSE IF Occupied(c, t, link) THEN Unlinked ELSE [link[c] EXCEPT !.person = t]]
<1>3. /\ link' = Detached(t, pairs, moved)
      /\ Unlocked({c \in Contribs : Detached(t, pairs, moved)[c] # link[c]})
  BY DEF MergePersons
<1>3a. ASSUME NEW c \in Existing, moved[c] # link[c], moved[c].person = t
       PROVE  \A o \in Rivals(c) \cap DOMAIN written : written[o].person # t
  BY <1>3a DEF MergePersons
<1>4. \A c \in Contribs : \/ moved[c] = link[c] /\ link[c].person # s
                          \/ moved[c].person = NoPerson /\ link[c].person = s
                          \/ /\ moved[c].person = t /\ link[c].person = s
                             /\ ~ Occupied(c, t, link)
  BY <1>1 DEF TypeOK, Links, Unlinked
<1> HIDE DEF pairs, moved
<1>5. Apart(moved)
  <2> SUFFICES ASSUME NEW x \in Existing, NEW y \in Rivals(x), moved[y].person = moved[x].person,
                      moved[x].person # NoPerson
               PROVE  FALSE
    BY DEF Apart
  <2>1. y \in Existing /\ x \in Rivals(y) /\ x # y /\ x \in Contribs /\ y \in Contribs
    BY <1>1 DEF Rivals
  <2>2. link[x].person # link[y].person \/ link[x].person = NoPerson
    BY DEF PersonsAreApart, Apart
  <2>3. CASE link[x].person = s
    BY <1>1, <1>4, <2>1, <2>2, <2>3 DEF Occupied
  <2>4. CASE link[y].person = s
    BY <1>1, <1>4, <2>1, <2>2, <2>4 DEF Occupied
  <2>5. CASE link[x].person # s /\ link[y].person # s
    BY <1>1, <1>4, <2>1, <2>2, <2>5
  <2> QED
    BY <2>3, <2>4, <2>5
<1>6. \A c \in Contribs : link'[c] = moved[c] \/ link'[c].person = NoPerson
  BY <1>3 DEF Detached, Unlinked
<1>7. Apart(link')
  BY <1>1, <1>5, <1>6, ReleasedStayApart
<1>8. ASSUME NEW d \in Existing, link'[d] # link[d]
      PROVE  /\ d \notin DOMAIN written
             /\ link'[d].person # NoPerson =>
                   \A o \in Rivals(d) \cap DOMAIN written : written[o].person # link'[d].person
  <2>1. d \in Contribs /\ d \notin DOMAIN written
    BY <1>1, <1>3, <1>8 DEF Unlocked
  <2>2. link'[d].person # NoPerson => /\ link'[d].person = t /\ moved[d].person = t
                                      /\ moved[d] # link[d]
    BY <1>4, <1>6, <1>8, <2>1
  <2> QED
    BY <1>3a, <2>1, <2>2
<1> QED
  BY <1>2, <1>7, <1>8, RequestKeepsApart

(* The contributions with a person after a recomposition had it before,    *)
(* in the same publication, and are marked when their members change.      *)
LEMMA RegroupMeans ==
  ASSUME IInv, IInv', NEW b \in Pubs, NEW group \in [Sources -> 1 .. Cardinality(Sources)],
         Regroup(b, group)
  PROVE  \A c \in Existing' : link'[c].person # NoPerson =>
            /\ c \in Existing /\ link'[c] = link[c] /\ PubOfContrib(c)' = PubOfContrib(c)
            /\ Members(c)' = Members(c) \/ c \in queue'
<1> DEFINE mine == {s \in Sources : PubOf[s] = b}
           old == {aligned[s] : s \in mine}
<1>1. TypeOK /\ Coherent /\ Vacant /\ TypeOK' /\ Coherent'
  BY DEF IInv
<1>2. PICK plan \in SUBSET (old \X {group[s] : s \in mine}) :
           LET kept == {o[1] : o \in plan}
               fresh == {group[s] : s \in mine} \ {o[2] : o \in plan}
               idOf(g) == IF g \in fresh
                          THEN issued + Cardinality({h \in fresh : h <= g})
                          ELSE CHOOSE i \in kept : <<i, g>> \in plan
           IN  /\ aligned' = [s \in Sources |->
                                 IF s \in mine THEN idOf(group[s]) ELSE aligned[s]]
               /\ link' = [c \in Contribs |-> IF c \in old \ kept THEN Unlinked ELSE link[c]]
               /\ queue' = queue \cup
                     {c \in kept : /\ link[c].person # NoPerson
                                   /\ Members(c) # {s \in Sources : aligned'[s] = c}}
  BY DEF Regroup
<1> DEFINE kept == {o[1] : o \in plan}
           fresh == {group[s] : s \in mine} \ {o[2] : o \in plan}
           idOf(g) == IF g \in fresh THEN issued + Cardinality({h \in fresh : h <= g})
                                     ELSE CHOOSE i \in kept : <<i, g>> \in plan
<1>3. /\ \A s \in mine : aligned'[s] = idOf(group[s]) /\ s \in Sources /\ PubOf[s] = b
      /\ \A s \in Sources : s \notin mine => aligned'[s] = aligned[s]
      /\ \A c \in Contribs : link'[c] = link[c] \/ link'[c] = Unlinked
  BY <1>2
<1>4. /\ \A c \in Contribs : c \in old /\ c \notin kept => link'[c] = Unlinked
      /\ \A c \in kept : \/ link[c].person = NoPerson \/ c \in queue'
                        \/ Members(c) = {s \in Sources : aligned'[s] = c}
  BY <1>2
<1>5. /\ \A o \in plan : o = <<o[1], o[2]>> /\ o[1] \in kept /\ o[1] \in old
      /\ \A s \in mine : group[s] \notin fresh => \E o \in plan : o[2] = group[s]
      /\ fresh \subseteq {group[s] : s \in mine} /\ kept \subseteq old
      /\ \A i \in old : \E s \in mine : aligned[s] = i
  OBVIOUS
<1>6. fresh \subseteq 1 .. Cardinality(Sources) /\ issued \in Nat
  <2>1. \A s \in mine : group[s] \in 1 .. Cardinality(Sources)
    OBVIOUS
  <2> QED
    BY <1>1, <1>5, <2>1, SourcesAreNumbers DEF TypeOK
<1> HIDE DEF kept, fresh, old
<1>7. ASSUME NEW s \in mine PROVE aligned'[s] > issued \/ aligned'[s] \in kept
  <2>1. CASE group[s] \in fresh
    <3>1. /\ Cardinality({h \in fresh : h <= group[s]}) \in Nat
          /\ issued < issued + Cardinality({h \in fresh : h <= group[s]})
      BY <1>6, <2>1, FreshIdsMean
    <3>2. aligned'[s] = issued + Cardinality({h \in fresh : h <= group[s]})
      BY <1>3, <2>1
    <3>3. PICK k \in Nat : aligned'[s] = issued + k /\ issued < issued + k
      BY <3>1, <3>2
    <3> QED
      BY <1>6, <3>3
  <2>2. CASE group[s] \notin fresh
    <3>1. PICK o \in plan : o[2] = group[s]
      BY <1>5, <2>2
    <3>2. o[1] \in kept /\ <<o[1], group[s]>> \in plan
      BY <1>5, <3>1
    <3>3. aligned'[s] = CHOOSE i \in kept : <<i, group[s]>> \in plan
      BY <1>3, <2>2
    <3> HIDE DEF idOf, mine
    <3> QED
      BY <3>2, <3>3
  <2> QED
    BY <2>1, <2>2
<1> HIDE DEF idOf
<1>8. SUFFICES ASSUME NEW c \in Existing', link'[c].person # NoPerson
               PROVE  /\ c \in Existing /\ link'[c] = link[c] /\ PubOfContrib(c)' = PubOfContrib(c)
                      /\ Members(c)' = Members(c) \/ c \in queue'
  OBVIOUS
<1>9. c \in Contribs
  BY <1>1 DEF Existing, TypeOK
<1>10. link'[c] = link[c] /\ c \in Existing
  BY <1>1, <1>3, <1>8, <1>9 DEF Unlinked, Vacant
<1>11. PICK s \in Sources : aligned'[s] = c
  BY <1>8 DEF Existing
<1>12. PubOfContrib(c)' = PubOf[s]
  <2>1. \A x \in Sources : aligned'[x] = c => PubOf[x] = PubOf[s]
    BY <1>1, <1>11 DEF Coherent
  <2>2. PICK m : m = {x \in Sources : aligned'[x] = c}
    OBVIOUS
  <2>3. (CHOOSE x \in m : TRUE) \in m
    BY <1>11, <2>2
  <2>4. PubOfContrib(c)' = PubOf[CHOOSE x \in m : TRUE]
    BY <2>2 DEF PubOfContrib, Members
  <2> QED
    BY <2>1, <2>2, <2>3, <2>4
<1>13. \A x \in mine : aligned'[x] = c => c \in kept
  <2>1. c <= issued
    BY <1>1, <1>10 DEF Coherent, Existing
  <2>2. c \in Nat /\ issued \in Nat
    BY <1>6, <1>9, SourcesAreNumbers
  <2> QED
    BY <1>7, <2>1, <2>2
<1>14. \E x \in Sources : aligned[x] = c /\ PubOf[x] = PubOf[s]
  <2>1. CASE s \in mine
    BY <1>3, <1>5, <1>11, <1>13, <2>1
  <2>2. CASE s \notin mine
    BY <1>3, <1>11, <2>2
  <2> QED
    BY <2>1, <2>2
<1>15. Members(c)' = Members(c) \/ c \in queue'
  <2>1. CASE c \in kept
    BY <1>4, <1>8, <1>10, <2>1 DEF Members
  <2>2. CASE c \notin kept
    <3>1. c \notin old
      BY <1>4, <1>8, <1>9, <2>2 DEF Unlinked
    <3>2. \A x \in mine : aligned[x] # c /\ aligned'[x] # c
      BY <1>13, <2>2, <3>1 DEF old
    <3>3. \A x \in Sources : aligned'[x] = c <=> aligned[x] = c
      BY <1>3, <3>2
    <3> QED
      BY <3>3 DEF Members
  <2> QED
    BY <2>1, <2>2
<1>16. \A x \in Sources : aligned[x] = c => PubOf[x] = PubOfContrib(c)
  BY <1>1, <1>10, ContributionHasPublication DEF Members
<1> QED
  BY <1>10, <1>12, <1>14, <1>15, <1>16

LEMMA RegroupKeepsApart ==
  ASSUME IInv, IInv', PersonsAreApart, NEW b \in Pubs,
         NEW group \in [Sources -> 1 .. Cardinality(Sources)], Regroup(b, group)
  PROVE  PersonsAreApart'
<1>1. written' = Nothing /\ TypeOK'
  BY DEF Regroup, overlay, IInv, Quiet
<1>2. View' = link'
  BY <1>1, NothingIsEmpty DEF TypeOK, View
<1>3. Apart(link)'
  <2> SUFFICES ASSUME NEW c \in Existing', NEW o \in Rivals(c)',
                      link'[o].person = link'[c].person, link'[c].person # NoPerson
               PROVE  FALSE
    BY DEF Apart
  <2>1. o \in Existing' /\ o # c /\ PubOfContrib(o)' = PubOfContrib(c)'
    BY DEF Rivals
  <2>2. /\ c \in Existing /\ link'[c] = link[c] /\ PubOfContrib(c)' = PubOfContrib(c)
        /\ o \in Existing /\ link'[o] = link[o] /\ PubOfContrib(o)' = PubOfContrib(o)
    BY <2>1, RegroupMeans
  <2>3. o \in Rivals(c)
    BY <2>1, <2>2 DEF Rivals
  <2> QED
    BY <2>2, <2>3 DEF PersonsAreApart, Apart
<1>4. Apart(View)' <=> Apart(link)'
  BY <1>2 DEF Apart
<1> QED
  BY <1>3, <1>4 DEF PersonsAreApart

------------------------------------------------------------------------------
(* The persons of forms and attributions                                   *)

(* The persons of contributions are persons the phase reads.               *)
LEMMA ViewedExist ==
  ASSUME IInv, stage \in {"pinned", "deciding"}, NEW o \in Existing, View[o].person # NoPerson
  PROVE  NameView[View[o].person] # NoName
<1>1. /\ TypeOK /\ Coherent /\ WritesAreAllowed /\ Referenced /\ o \in Contribs
      /\ View \in [Contribs -> Links]
  BY ContributionHasPublication, ViewsAreTyped DEF IInv
<1>2. View[o].person \in Persons
  BY <1>1 DEF Links
<1>3. CASE o \in DOMAIN written
  BY <1>1, <1>3 DEF View, WritesAreAllowed
<1>4. CASE o \notin DOMAIN written
  <2>1. View[o] = link[o] /\ personName[link[o].person] # NoName
    BY <1>1, <1>4 DEF View, Referenced
  <2> QED
    BY <1>1, <1>2, <2>1, NamesInView
<1> QED
  BY <1>3, <1>4

(* What the phase reads has forms and attributions of persons it reads.    *)
LEMMA SupportsInView ==
  ASSUME TypeOK, SupportsExist
  PROVE  /\ \A p \in Persons : NameView[p] = NoName => \A n \in Names : FormView[p][n] = "none"
         /\ \A v \in Values : AttributionView[v].person # NoPerson
                                 => NameView[AttributionView[v].person] # NoName
<1>1. ASSUME NEW p \in Persons, NameView[p] = NoName, NEW n \in Names
      PROVE  FormView[p][n] = "none"
  <2>1. personName[p] = NoName
    BY <1>1, NamesInView
  <2>2. p \notin DOMAIN named
    BY <1>1, NamesAssumption DEF NameView, TypeOK, IsPartial
  <2> QED
    BY <2>1, <2>2 DEF FormView, SupportsExist
<1>2. ASSUME NEW v \in Values, AttributionView[v].person # NoPerson
      PROVE  NameView[AttributionView[v].person] # NoName
  <2>1. CASE v \in DOMAIN given
    BY <1>2, <2>1 DEF AttributionView, SupportsExist
  <2>2. CASE v \notin DOMAIN given
    <3>1. AttributionView[v] = attribution[v]
      BY <2>2 DEF AttributionView
    <3>2. attribution[v].person \in Persons
      BY <1>2, <3>1 DEF TypeOK, Attributions
    <3> QED
      BY <1>2, <3>1, <3>2, NamesInView DEF SupportsExist
  <2> QED
    BY <2>1, <2>2
<1> QED
  BY <1>1, <1>2

(* A step that takes no person away, gives no form to an absent one, and   *)
(* attributes nothing anew.                                                *)
LEMMA SupportsStay ==
  ASSUME TypeOK, SupportsExist, UNCHANGED <<personName, given>>,
         \A p \in Persons : NameView[p] # NoName => NameView'[p] # NoName,
         \A p \in Persons : personName[p] = NoName => \A n \in Names : form'[p][n] = form[p][n],
         \A v \in Values : attribution'[v].person = attribution[v].person
  PROVE  SupportsExist'
<1>1. \A v \in DOMAIN given : given[v].person \in Persons \cup {NoPerson}
  BY DEF TypeOK, IsPartial, Attributions
<1>2. ASSUME NEW v \in DOMAIN given, given[v].person # NoPerson
      PROVE  NameView'[given[v].person] # NoName
  BY <1>1, <1>2 DEF SupportsExist
<1> QED
  BY <1>2 DEF SupportsExist

(* ... for the steps that write no table.                                  *)
LEMMA SupportsStayInTables ==
  ASSUME TypeOK, SupportsExist, UNCHANGED <<personName, form, attribution, named, given>>
  PROVE  SupportsExist'
<1>1. NameView' = NameView
  BY DEF NameView
<1> QED
  BY <1>1, SupportsStay

(* ... when the transaction ends.                                          *)
LEMMA SupportsAfterTransaction ==
  ASSUME given' = Nothing,
         \A p \in Persons : personName'[p] = NoName => \A n \in Names : form'[p][n] = "none",
         \A v \in Values : attribution'[v].person # NoPerson
                              => personName'[attribution'[v].person] # NoName
  PROVE  SupportsExist'
<1>1. DOMAIN given' = {}
  BY NothingIsEmpty
<1> QED
  BY <1>1 DEF SupportsExist

(* The values go to persons the decisions name.                            *)
LEMMA AttributedMeans ==
  ASSUME TypeOK, NEW decided, DOMAIN decided \subseteq Nat, NEW v \in DOMAIN Attributed(decided)
  PROVE  \/ v \in DOMAIN given /\ Attributed(decided)[v] = given[v]
         \/ \E c \in DOMAIN decided : /\ IsMatch(decided[c])
                                      /\ Attributed(decided)[v].person = decided[c].person
<1> DEFINE carriers(w) ==
               {c \in DOMAIN decided : /\ IsMatch(decided[c])
                                       /\ w \notin decided[c].refused
                                       /\ decided[c].person # AttributionView[w].person
                                       /\ \E s \in Members(c) : ValueOf[s] = w}
           moved == {w \in Values : /\ carriers(w) # {}
                                    /\ \/ AttributionView[w].person = NoPerson
                                       \/ AttributionView[w].rejected}
<1>1. Attributed(decided) = [w \in DOMAIN given \cup moved |->
            IF w \in moved
            THEN [person |-> decided[Smallest(carriers(w))].person, rejected |-> FALSE]
            ELSE given[w]]
  BY DEF Attributed
<1>2. /\ \A w : carriers(w) \subseteq Nat
      /\ \A w : \A c \in carriers(w) : c \in DOMAIN decided /\ IsMatch(decided[c])
      /\ \A w \in moved : carriers(w) # {}
  OBVIOUS
<1> HIDE DEF carriers, moved
<1>3. CASE v \in moved
  <2>1. Smallest(carriers(v)) \in carriers(v)
    BY <1>2, <1>3, SmallestIsMember
  <2> QED
    BY <1>1, <1>2, <1>3, <2>1
<1>4. CASE v \notin moved
  BY <1>1, <1>4
<1> QED
  BY <1>3, <1>4

LEMMA StartKeepsSupports ==
  ASSUME IInv, SupportsExist, NEW rebuild \in BOOLEAN, Start(rebuild)
  PROVE  SupportsExist' /\ Created' = {}
<1>1. /\ TypeOK /\ UNCHANGED <<personName, form, attribution, given>> /\ named = Nothing
  BY DEF Start, tables, IInv, Quiet
<1>2. PICK links, completed :
         /\ completed = {p \in Persons : IsSingleton(Attested(p, links))}
         /\ named' = [p \in completed |-> Sole(Attested(p, links))]
  BY DEF Start
<1>3. \A p \in completed : personName[p] \in Names /\ named'[p] \in Names
  <2> SUFFICES ASSUME NEW p \in completed PROVE personName[p] \in Names /\ named'[p] \in Names
    OBVIOUS
  <2>1. named'[p] \in Attested(p, links)
    BY <1>2, SoleIsMember
  <2>2. <<personName[p], named'[p]>> \in Extends
    BY <2>1 DEF Attested
  <2> QED
    BY <2>2, NamesAssumption
<1>4. Created' = {}
  BY <1>1, <1>2, <1>3, NamesAssumption DEF Created
<1>5. ASSUME NEW p \in Persons, NameView[p] # NoName PROVE NameView'[p] # NoName
  <2>1. personName[p] # NoName
    BY <1>1, <1>5, NothingIsEmpty DEF NameView
  <2> QED
    BY <1>1, <1>2, <1>3, <2>1, NamesAssumption DEF NameView
<1> QED
  BY <1>1, <1>4, <1>5, SupportsStay

LEMMA WriteBatchKeepsSupports ==
  ASSUME IInv, SupportsExist, WriteBatch
  PROVE  SupportsExist'
<1>1. /\ TypeOK /\ stage = "deciding"
      /\ UNCHANGED <<personName, form, attribution>>
  BY WriteBatchMeans DEF IInv
<1>2. PICK b \in batch : /\ b \in Pubs
                         /\ \/ BatchRefused(b)
                            \/ /\ ~ Refused(Decided(b), Released(Decided(b), View))
                               /\ BatchWritten(b)
  BY WriteBatchMeans
<1>3. CASE BatchRefused(b)
  BY <1>1, <1>3, SupportsStayInTables DEF BatchRefused
<1>4. CASE ~ Refused(Decided(b), Released(Decided(b), View)) /\ BatchWritten(b)
  <2>1. NameView' = NameView /\ given' = Attributed(Decided(b))
    BY <1>1, <1>4 DEF BatchWritten, NameView
  <2>2. DOMAIN Decided(b) \subseteq Nat
    <3>1. DOMAIN Decided(b) \subseteq Existing
      BY <1>1, <1>2, DecidedAreApart
    <3> QED
      BY <1>1, <3>1, ContributionHasPublication, SourcesAreNumbers DEF IInv
  <2>3. \A c \in DOMAIN Decided(b) : IsMatch(Decided(b)[c])
                                     => NameView[Decided(b)[c].person] # NoName
    BY <1>4 DEF Refused
  <2>4. ASSUME NEW v \in DOMAIN given', given'[v].person # NoPerson
        PROVE  NameView[given'[v].person] # NoName
    BY <1>1, <2>1, <2>2, <2>3, <2>4, AttributedMeans DEF SupportsExist
  <2> QED
    BY <1>1, <2>1, <2>4 DEF SupportsExist
<1> QED
  BY <1>2, <1>3, <1>4

LEMMA CreateNextKeepsSupports ==
  ASSUME IInv, SupportsExist, CreateNext
  PROVE  SupportsExist'
<1>1. /\ TypeOK /\ Coherent /\ UNCHANGED <<personName, form, attribution>>
  BY CreateNextMeans DEF IInv
<1>2. PICK c \in Existing :
         \/ Leaves
         \/ \E p, decided : /\ Attaches(c, p, decided)
                            /\ p \in Created /\ UNCHANGED <<named, index>>
         \/ \E p, decided, n, refused : /\ Attaches(c, p, decided)
                                        /\ Founds(c, p, n, refused)
  BY CreateNextMeans
<1>3. CASE Leaves
  BY <1>1, <1>3, SupportsStayInTables DEF Leaves
<1>4. ASSUME NEW p, NEW decided, Attaches(c, p, decided),
             \A q \in Persons : NameView[q] # NoName => NameView'[q] # NoName,
             NameView'[p] # NoName
      PROVE  SupportsExist'
  <2>1. given' = Attributed(decided) /\ DOMAIN decided = {c} /\ decided[c].person = p
    BY <1>4 DEF Attaches
  <2>2. DOMAIN decided \subseteq Nat
    BY <1>1, <2>1, ContributionHasPublication, SourcesAreNumbers
  <2>3. \A v \in DOMAIN given : given[v].person \in Persons \cup {NoPerson}
    BY <1>1 DEF TypeOK, IsPartial, Attributions
  <2>4. ASSUME NEW v \in DOMAIN given', given'[v].person # NoPerson
        PROVE  NameView'[given'[v].person] # NoName
    BY <1>1, <1>4, <2>1, <2>2, <2>3, <2>4, AttributedMeans DEF SupportsExist
  <2> QED
    BY <1>1, <2>4 DEF SupportsExist
<1>5. ASSUME NEW p, NEW decided, Attaches(c, p, decided), p \in Created, UNCHANGED named
      PROVE  SupportsExist'
  <2>1. NameView' = NameView /\ p \in Persons
    BY <1>1, <1>5 DEF NameView, Attaches
  <2> QED
    BY <1>1, <1>4, <1>5, <2>1, NamesInView
<1>6. ASSUME NEW p, NEW decided, NEW n, NEW refused,
             Attaches(c, p, decided), Founds(c, p, n, refused)
      PROVE  SupportsExist'
  <2>1. p \in Persons /\ n \in Names
        /\ named' = [q \in DOMAIN named \cup {p} |-> IF q = p THEN n ELSE named[q]]
    BY <1>6 DEF Founds
  <2>2. \A q \in Persons : NameView'[q] = IF q = p THEN n ELSE NameView[q]
    BY <1>1, <2>1 DEF NameView
  <2> QED
    BY <1>4, <1>6, <2>1, <2>2, NamesAssumption
<1> QED
  BY <1>2, <1>3, <1>5, <1>6

LEMMA CommitKeepsSupports ==
  ASSUME IInv, SupportsExist, Commit
  PROVE  SupportsExist'
<1>1. TypeOK /\ personName' = NameView /\ form' = FormView /\ attribution' = AttributionView
      /\ given' = Nothing
  BY DEF IInv, Commit, TransactionEnds
<1> QED
  BY <1>1, SupportsInView, SupportsAfterTransaction

LEMMA AbortKeepsSupports ==
  ASSUME IInv, SupportsExist, Abort
  PROVE  SupportsExist'
<1>1. UNCHANGED <<personName, form, attribution>> /\ given' = Nothing
  BY DEF Abort, TransactionEnds, tables
<1> QED
  BY <1>1, SupportsAfterTransaction DEF SupportsExist

LEMMA PopulateKeepsSupports ==
  ASSUME IInv, SupportsExist, Populate
  PROVE  SupportsExist'
<1>1. /\ TypeOK /\ Referenced /\ UNCHANGED <<personName, attribution, named, given>>
      /\ form' = [p \in Persons |-> [n \in Names |-> Synced(p, n)]]
  BY DEF IInv, Populate, overlay
<1>2. ASSUME NEW p \in Persons, personName[p] = NoName, NEW n \in Names
      PROVE  form'[p][n] = form[p][n]
  <2>1. p # NoPerson /\ \A s \in Sources : link[aligned[s]].person # p
    BY <1>1, <1>2, RejectedArePersons DEF Referenced, TypeOK
  <2>2. NamesAttached(p) = {} /\ form[p][n] = "none"
    BY <1>2, <2>1 DEF NamesAttached, SupportsExist
  <2> QED
    BY <1>1, <1>2, <2>2 DEF Synced
<1>3. NameView' = NameView
  BY <1>1 DEF NameView
<1> QED
  BY <1>1, <1>2, <1>3, SupportsStay

LEMMA PurgeKeepsSupports ==
  ASSUME IInv, SupportsExist, Purge
  PROVE  SupportsExist'
<1>1. TypeOK /\ given' = Nothing
  BY DEF IInv, Purge, overlay, Quiet
<1>2. PICK deleted \in SUBSET Persons :
         /\ attribution' = [v \in Values |->
              IF Unsupported(v) \/ attribution[v].person \in deleted
              THEN Unattributed ELSE attribution[v]]
         /\ personName' = [p \in Persons |-> IF p \in deleted THEN NoName ELSE personName[p]]
         /\ form' = [p \in Persons |-> IF p \in deleted THEN NoForms ELSE form[p]]
  BY DEF Purge
<1>3. \A v \in Values : attribution[v].person \in Persons \cup {NoPerson}
  BY <1>1 DEF TypeOK, Attributions
<1> QED
  BY <1>1, <1>2, <1>3, SupportsAfterTransaction DEF SupportsExist, NoForms, Unattributed

LEMMA AssignKeepsSupports ==
  ASSUME IInv, SupportsExist, NEW c \in Contribs, NEW p \in Persons, Assign(c, p)
  PROVE  SupportsExist'
<1>1. /\ TypeOK /\ UNCHANGED <<personName, attribution, named, given>> /\ personName[p] # NoName
      /\ \A q \in Persons \ {p} : form'[q] = form[q]
  BY DEF IInv, Assign, Request, overlay, TypeOK
<1>2. NameView' = NameView
  BY <1>1 DEF NameView
<1> QED
  BY <1>1, <1>2, SupportsStay

LEMMA RejectPairKeepsSupports ==
  ASSUME IInv, SupportsExist, NEW c \in Contribs, RejectPair(c)
  PROVE  SupportsExist'
<1>1. /\ TypeOK /\ UNCHANGED <<personName, attribution, named, given>>
  BY DEF IInv, RejectPair, Request, overlay
<1>2. PICK p, kept : form' = [form EXCEPT ![p] = [n \in Names |->
              IF @[n] = "pending" /\ n \notin kept THEN "none" ELSE @[n]]]
  BY DEF RejectPair
<1>3. \A q \in Persons, n \in Names : form'[q][n] \in {form[q][n], "none"}
  BY <1>1, <1>2 DEF TypeOK
<1>4. NameView' = NameView
  BY <1>1 DEF NameView
<1> QED
  BY <1>1, <1>3, <1>4, SupportsStay DEF SupportsExist

LEMMA RejectFormKeepsSupports ==
  ASSUME IInv, SupportsExist, NEW p \in Persons, NEW n \in Names, RejectForm(p, n)
  PROVE  SupportsExist'
<1>1. /\ TypeOK /\ UNCHANGED <<personName, attribution, named, given>> /\ form[p][n] = "pending"
      /\ form' = [form EXCEPT ![p][n] = "rejected"]
  BY DEF IInv, RejectForm, Request, overlay
<1>2. personName[p] # NoName
  BY <1>1 DEF SupportsExist
<1>3. \A q \in Persons \ {p} : form'[q] = form[q]
  BY <1>1 DEF TypeOK
<1>4. NameView' = NameView
  BY <1>1 DEF NameView
<1> QED
  BY <1>1, <1>2, <1>3, <1>4, SupportsStay

LEMMA RejectIdentifierKeepsSupports ==
  ASSUME IInv, SupportsExist, NEW v \in Values, RejectIdentifier(v)
  PROVE  SupportsExist'
<1>1. /\ TypeOK /\ UNCHANGED <<personName, form, named, given>>
      /\ attribution' = [attribution EXCEPT ![v].rejected = TRUE]
  BY DEF IInv, RejectIdentifier, Request, overlay
<1>2. \A w \in Values : attribution'[w].person = attribution[w].person
  BY <1>1 DEF TypeOK, Attributions
<1>3. NameView' = NameView
  BY <1>1 DEF NameView
<1> QED
  BY <1>1, <1>2, <1>3, SupportsStay

(* Who the phase is writing of is absorbed by nobody.                      *)
LEMMA MergePersonsKeepsSupports ==
  ASSUME IInv, SupportsExist, NEW t \in Persons, NEW s \in Persons, MergePersons(t, s)
  PROVE  SupportsExist'
<1>1. /\ TypeOK /\ UNCHANGED <<named, given>> /\ t # s /\ personName[t] # NoName
      /\ {s, t} \cap DOMAIN named = {} /\ \A v \in DOMAIN given : given[v].person # s
      /\ personName' = [personName EXCEPT ![s] = NoName]
      /\ form' = [form EXCEPT ![t] = MergedForms(t, s), ![s] = NoForms]
      /\ attribution' = [v \in Values |-> IF attribution[v].person = s
                                          THEN [attribution[v] EXCEPT !.person = t]
                                          ELSE attribution[v]]
  BY DEF IInv, MergePersons, Request, overlay
<1>2. /\ \A p \in Persons \ {s} : personName'[p] = personName[p]
      /\ \A p \in Persons \ {s, t} : form'[p] = form[p]
      /\ form'[s] = NoForms /\ personName'[s] = NoName
  BY <1>1 DEF TypeOK
<1>3. \A p \in Persons \ {s} : NameView'[p] = NameView[p]
  BY <1>1, <1>2 DEF NameView
<1>4. \A v \in DOMAIN given : /\ given[v].person \in Persons \cup {NoPerson}
                              /\ given[v].person # s
  BY <1>1 DEF TypeOK, IsPartial, Attributions
<1>5. ASSUME NEW p \in Persons, personName'[p] = NoName, NEW n \in Names
      PROVE  form'[p][n] = "none"
  <2>1. CASE p = s
    BY <1>2, <2>1 DEF NoForms
  <2>2. CASE p # s
    <3>1. personName[p] = NoName /\ p \notin {s, t}
      BY <1>1, <1>2, <1>5, <2>2
    <3> QED
      BY <1>2, <3>1 DEF SupportsExist
  <2> QED
    BY <2>1, <2>2
<1>6. ASSUME NEW v \in Values, attribution'[v].person # NoPerson
      PROVE  personName'[attribution'[v].person] # NoName
  <2>1. attribution[v] \in Attributions
    BY <1>1 DEF TypeOK
  <2>2. CASE attribution[v].person = s
    <3>1. attribution'[v].person = t
      BY <1>1, <2>1, <2>2 DEF Attributions
    <3> QED
      BY <1>1, <1>2, <3>1
  <2>3. CASE attribution[v].person # s
    BY <1>1, <1>2, <1>6, <2>1, <2>3 DEF SupportsExist, Attributions
  <2> QED
    BY <2>2, <2>3
<1>7. \A v \in DOMAIN given' : given'[v].person # NoPerson => NameView'[given'[v].person] # NoName
  BY <1>1, <1>3, <1>4 DEF SupportsExist
<1> QED
  BY <1>5, <1>6, <1>7 DEF SupportsExist

------------------------------------------------------------------------------
(* The readings of the phase                                               *)

(* What CInv says of the readings.                                         *)
Readings ==
    /\ NothingLoaded /\ CreationsComeLast /\ ReadingsAreWhole
    /\ ConflictNeedsRequest /\ PinsHold /\ BatchesAreApart

(* Outside its transaction the phase has read nothing.                     *)
LEMMA NothingIsRead ==
  ASSUME stage' \in {"idle", "resolved", "populated"}, named' = Nothing, todo' = {}, batch' = {}
  PROVE  Readings'
<1>1. Created' = {}
  BY NothingIsEmpty DEF Created
<1> QED
  BY <1>1 DEF Readings, NothingLoaded, CreationsComeLast, ReadingsAreWhole, ConflictNeedsRequest,
              PinsHold, BatchesAreApart

(* A request disturbs the phase; what it changes in the tables concerns no *)
(* person that is being created.                                           *)
LEMMA RequestKeepsReadings ==
  ASSUME IInv, IInv', Readings, NEW missed, Request(missed), Created' = Created
  PROVE  Readings'
<1>1. /\ UNCHANGED <<aligned, stage, todo, batch, taken, written, named>>
      /\ stage # "idle" => disturbed'
  BY DEF Request, readings, overlay
<1>2. NothingLoaded' /\ ReadingsAreWhole' /\ ConflictNeedsRequest' /\ PinsHold' /\ BatchesAreApart'
  BY <1>1 DEF Readings, NothingLoaded, ReadingsAreWhole, ConflictNeedsRequest, PinsHold,
              BatchesAreApart
<1>3. CreationsComeLast'
  <2>1. SUFFICES ASSUME stage = "deciding", NEW c \in Existing, View'[c].person \in Created
                 PROVE  View'[c].person \in taken[PubOfContrib(c)]
    BY <1>1, AlignmentUnchanged DEF Readings, CreationsComeLast
  <2>2. TypeOK /\ TypeOK' /\ Coherent /\ Referenced' /\ c \in Contribs
    BY ContributionHasPublication DEF IInv
  <2>3. CASE c \in DOMAIN written
    <3>1. View'[c] = View[c]
      BY <1>1, <2>2, <2>3 DEF View
    <3> QED
      BY <2>1, <3>1 DEF Readings, CreationsComeLast
  <2>4. CASE c \notin DOMAIN written
    <3>1. View'[c] = link'[c]
      BY <1>1, <2>2, <2>4 DEF View
    <3>2. link'[c].person \in DOMAIN named /\ personName'[link'[c].person] = NoName
      BY <1>1, <2>1, <3>1 DEF Created
    <3>3. link'[c].person # NoPerson
      BY <1>1, <2>2, <3>2, RejectedArePersons DEF TypeOK, IsPartial
    <3> QED
      BY <2>2, <3>2, <3>3 DEF Referenced
  <2> QED
    BY <2>3, <2>4
<1> QED
  BY <1>2, <1>3 DEF Readings

(* The pins are written.                                                   *)
LEMMA StartKeepsReadings ==
  ASSUME IInv, IInv', CInv, NEW rebuild \in BOOLEAN, Start(rebuild)
  PROVE  Readings'
<1>1. /\ TypeOK /\ Coherent /\ stage = "idle" /\ stage' = "pinned"
      /\ UNCHANGED <<aligned, link, pin, todo, batch>>
  BY DEF Start, tables, IInv
<1>2. Created' = {} /\ View' = Pinned(Existing, link)
  BY StartKeepsSupports, StartKeepsApart DEF CInv
<1>3. PICK target : PinsGive(View', target)
  BY <1>1, <1>2, PinnedGives
<1>4. \A c : PinsOf(c)' = PinsOf(c) /\ Rivals(c)' = Rivals(c) /\ Existing' = Existing
  BY <1>1, AlignmentUnchanged DEF PinsOf
<1>5. ASSUME NEW c \in Existing, NEW p \in Persons, PinsOf(c) = {p}
      PROVE  View'[c] = Manual(p) \/ \E o \in Rivals(c) : Manual(p) \in {link[o], View'[o]}
  <2>1. CASE \E t \in target : t \in Rivals(c) \cup {c} /\ PinsOf(t) = {p}
    <3>1. PICK t \in target : t \in Rivals(c) \cup {c} /\ PinsOf(t) = {p}
      BY <2>1
    <3>2. View'[t] = Manual(p)
      BY <1>3, <3>1 DEF PinsGive
    <3> QED
      BY <3>1, <3>2
  <2> QED
    BY <1>3, <1>5, <2>1 DEF PinsGive
<1>6. PinsHold'
  BY <1>1, <1>4, <1>5 DEF PinsHold
<1>7. todo = {} /\ batch = {}
  BY <1>1 DEF CInv, NothingLoaded
<1> QED
  BY <1>1, <1>2, <1>6, <1>7 DEF Readings, NothingLoaded, CreationsComeLast, ReadingsAreWhole,
                                ConflictNeedsRequest, BatchesAreApart

(* A step that writes nothing leaves the pins as they are.                 *)
LEMMA PinsStay ==
  ASSUME PinsHold, UNCHANGED <<aligned, link, pin, written, disturbed>>,
         stage \in {"pinned", "deciding"}
  PROVE  PinsHold'
<1>1. View' = View
  BY DEF View
<1>2. \A c : PinsOf(c)' = PinsOf(c) /\ Rivals(c)' = Rivals(c) /\ Existing' = Existing
  BY AlignmentUnchanged DEF PinsOf
<1> QED
  BY <1>1, <1>2 DEF PinsHold

(* The index is of the persons there are.                                  *)
LEMMA PrepareKeepsReadings ==
  ASSUME IInv, CInv, Prepare
  PROVE  Readings'
<1>1. /\ TypeOK /\ Quiet /\ stage = "pinned" /\ stage' = "deciding"
      /\ UNCHANGED <<aligned, link, pin, personName, batch, pinsRead, toCreate, written, named,
                     disturbed>>
      /\ index' = IndexOf(FormView, NameView, AttributionView, index.conflicting)
      /\ candidates' \subseteq {c \in Existing : View[c].person = NoPerson \/ View[c].mode # "manual"}
  BY DEF Prepare, tables, overlay, IInv
<1>2. /\ View' = View /\ NameView' = NameView /\ Created' = Created
      /\ Existing' = Existing /\ \A c : PubOfContrib(c)' = PubOfContrib(c)
  BY <1>1, AlignmentUnchanged DEF View, NameView, Created
<1>3. batch' = {} /\ Created' = {} /\ toCreate' = {}
  BY <1>1, <1>2 DEF CInv, NothingLoaded, CreationsComeLast, Quiet
<1>4. \A c \in Existing : pinsRead'[c] = {}
  <2>1. pinsRead' = [c \in Contribs |-> {}]
    BY <1>1 DEF Quiet
  <2>2. Existing \subseteq Contribs
    BY ContributionHasPublication DEF IInv
  <2> QED
    BY <2>1, <2>2
<1>5. IndexIsWhole'
  <2>1. /\ index'.name = NameView /\ index'.form = FormView
        /\ \A v \in Values : index'.holder[v] = NoPerson
                             \/ index'.holder[v] = AttributionView[v].person
    BY <1>1 DEF IndexOf
  <2> QED
    BY <1>1, <1>2, <2>1, SupportsInView DEF CInv, IndexIsWhole
<1>6. PinsHold'
  BY <1>1, PinsStay DEF CInv
<1>7. BatchesAreApart'
  BY <1>1, <1>2, <1>3 DEF BatchesAreApart, Undecided
<1>8. ReadingsAreWhole'
  BY <1>2, <1>3, <1>4, <1>5 DEF ReadingsAreWhole
<1> QED
  BY <1>1, <1>3, <1>6, <1>7, <1>8 DEF Readings, NothingLoaded, CreationsComeLast,
                                      ConflictNeedsRequest

(* A batch is loaded with its pins and the persons it does not decide.     *)
LEMMA LoadBatchKeepsReadings ==
  ASSUME IInv, CInv, LoadBatch
  PROVE  Readings'
<1>1. /\ TypeOK /\ stage = "deciding" /\ batch = {}
      /\ UNCHANGED <<aligned, link, pin, personName, stage, candidates, toCreate, index, written,
                     named, disturbed>>
  BY DEF LoadBatch, tables, overlay, IInv
<1>2. PICK b \in todo :
          /\ batch' = {b} /\ todo' = todo \ {b}
          /\ pinsRead' = [c \in Contribs |->
                             IF c \in candidates /\ PubOfContrib(c) = b THEN PinsOf(c) ELSE {}]
          /\ taken' = [taken EXCEPT ![b] = {View[c].person :
                          c \in {o \in Existing \ candidates : PubOfContrib(o) = b}} \ {NoPerson}]
  BY DEF LoadBatch
<1>3. /\ View' = View /\ NameView' = NameView /\ Created' = Created /\ Existing' = Existing
      /\ \A c : PubOfContrib(c)' = PubOfContrib(c) /\ PinsOf(c)' = PinsOf(c)
  BY <1>1, AlignmentUnchanged DEF View, NameView, Created, PinsOf
<1>4. Created' = {}
  BY <1>2, <1>3 DEF CInv, CreationsComeLast
<1>5. \A c \in Existing : pinsRead'[c] \subseteq PinsOf(c)
  <2>1. Existing \subseteq Contribs
    BY ContributionHasPublication DEF IInv
  <2> QED
    BY <1>2, <2>1
<1>6. ASSUME NEW o \in Existing \ candidates, PubOfContrib(o) \in batch'
      PROVE  View[o].person \in taken'[PubOfContrib(o)] \cup {NoPerson}
  <2>1. PubOfContrib(o) = b /\ b \in Pubs
    BY <1>1, <1>2, <1>6 DEF TypeOK
  <2>2. taken'[b] = {View[c].person :
                        c \in {x \in Existing \ candidates : PubOfContrib(x) = b}} \ {NoPerson}
    BY <1>1, <1>2, <2>1 DEF TypeOK
  <2> QED
    BY <2>1, <2>2
<1>7. ReadingsAreWhole'
  <2> SUFFICES ASSUME ~ disturbed PROVE ReadingsAreWhole'
    BY <1>1 DEF ReadingsAreWhole
  <2>1. IndexIsWhole'
    BY <1>1, <1>3 DEF CInv, ReadingsAreWhole, IndexIsWhole
  <2> QED
    BY <1>1, <1>3, <1>5, <1>6, <2>1 DEF ReadingsAreWhole
<1>8. BatchesAreApart'
  BY <1>1, <1>2, <1>3 DEF CInv, BatchesAreApart, Undecided
<1>9. PinsHold'
  BY <1>1, PinsStay DEF CInv
<1> QED
  BY <1>1, <1>4, <1>7, <1>8, <1>9 DEF Readings, NothingLoaded, CreationsComeLast,
                                      ConflictNeedsRequest

(* Who the index designates exists.                                        *)
LEMMA DesignatedExist ==
  ASSUME TypeOK, IndexIsWhole, NEW s \in Sources, NEW p,
         p \in Identified(s, index) \/ p \in NamedBy(s, index)
  PROVE  NameView[p] # NoName
<1>1. /\ p \in Persons /\ index \in IndexType /\ index.name = NameView
      /\ NameOf[s] \in Names /\ NameOf[s] # NoName
  BY DesignatedArePersons, ProfilesAssumption, NamesAssumption DEF TypeOK, IndexType, IndexIsWhole
<1>2. CASE p \in Identified(s, index)
  <2>1. p = Holder(s, index) /\ p # NoPerson
    BY <1>2 DEF Identified
  <2>2. ValueOf[s] \in Values /\ p = index.holder[ValueOf[s]]
    BY <2>1, ProfilesAssumption DEF Holder
  <2> QED
    BY <1>1, <2>1, <2>2 DEF IndexIsWhole
<1>3. CASE p \in NamedBy(s, index)
  <2>1. Active(p, NameOf[s], index.form) \/ p \in CompatiblePersons(NameOf[s], index)
    BY <1>3 DEF NamedBy
  <2>2. CASE Active(p, NameOf[s], index.form)
    BY <1>1, <2>2 DEF Active, IndexIsWhole
  <2>3. CASE p \in CompatiblePersons(NameOf[s], index)
    <3>1. index.name[p] # NoName
      BY <1>1, <2>3, NamesAssumption DEF CompatiblePersons
    <3> QED
      BY <1>1, <3>1
  <2> QED
    BY <2>1, <2>2, <2>3
<1> QED
  BY <1>2, <1>3

(* Without a request, the constraint refuses no batch: the persons of the  *)
(* decisions exist, and those who have them in the publication are decided *)
(* in the batch, or counted as taken.                                      *)
LEMMA NoBatchRefused ==
  ASSUME IInv, ReadingsAreWhole, stage = "deciding", ~ disturbed, NEW b \in batch, b \in Pubs
  PROVE  ~ Refused(Decided(b), Released(Decided(b), View))
<1> DEFINE R == Released(Decided(b), View)
<1>1. /\ TypeOK /\ Coherent /\ Referenced /\ IndexIsWhole /\ NoPerson \notin Persons
  BY RejectedArePersons DEF IInv, ReadingsAreWhole
<1>2. /\ DOMAIN Decided(b) = Batch(b) /\ Batch(b) \subseteq Existing
      /\ Existing \subseteq Contribs
  BY <1>1, DecidedAreApart, ContributionHasPublication
<1>3. SUFFICES ASSUME NEW c \in Batch(b), IsMatch(Decided(b)[c])
               PROVE  /\ \A o \in Rivals(c) : R[o].person # Decided(b)[c].person
                      /\ NameView[Decided(b)[c].person] # NoName
  BY <1>2 DEF Refused
<1>4. PICK p \in Persons : p = Decided(b)[c].person /\ p \notin taken[b]
  BY <1>2, <1>3, DecidedAreApart
<1>5. ASSUME NEW o \in Rivals(c) PROVE R[o].person # p
  <2>1. o \in Existing /\ o # c /\ PubOfContrib(o) = b
    BY DEF Rivals, Batch
  <2>2. CASE o \in Batch(b)
    <3>1. R[o].person \in {NoPerson, Decided(b)[o].person}
      BY <1>2, <2>1, <2>2 DEF Released, Unlinked
    <3>2. Decided(b)[o].person # p
      <4>1. CASE IsMatch(Decided(b)[o])
        BY <1>3, <1>4, <2>1, <2>2, <4>1, DecidedAreApart
      <4>2. CASE ~ IsMatch(Decided(b)[o])
        BY <1>1, <1>4, <2>2, <4>2, DecidedAreApart
      <4> QED
        BY <4>1, <4>2
    <3> QED
      BY <1>1, <3>1, <3>2
  <2>3. CASE o \notin Batch(b)
    <3>1. R[o] = View[o] /\ o \notin candidates
      BY <1>2, <2>1, <2>3 DEF Released, Batch
    <3>2. View[o].person \in taken[b] \cup {NoPerson}
      BY <2>1, <3>1 DEF ReadingsAreWhole
    <3> QED
      BY <1>1, <1>4, <3>1, <3>2
  <2> QED
    BY <2>2, <2>3
<1>6. NameView[p] # NoName
  <2>1. \/ p \in pinsRead[c]
        \/ \E s \in Members(c) : p \in Identified(s, index)
        \/ \E s \in Members(c) : p \in NamedBy(s, index)
    BY <1>3, <1>4, DecidedAreApart DEF IsMatch
  <2>2. c \in Existing /\ Members(c) \subseteq Sources
    BY <1>1, <1>2, ContributionHasPublication
  <2>3. CASE p \in pinsRead[c]
    <3>1. p \in PinsOf(c)
      BY <2>2, <2>3 DEF ReadingsAreWhole
    <3>2. PICK s \in Sources : pin[s] = p
      BY <2>2, <3>1 DEF PinsOf
    <3>3. personName[p] # NoName
      BY <1>1, <1>4, <3>2 DEF Referenced
    <3> QED
      BY <1>1, <3>3, NamesInView
  <2>4. CASE \E s \in Members(c) : p \in Identified(s, index) \/ p \in NamedBy(s, index)
    BY <1>1, <2>2, <2>4, DesignatedExist
  <2> QED
    BY <2>1, <2>3, <2>4
<1> QED
  BY <1>4, <1>5, <1>6

(* A batch changes the rows it decides, and no person of theirs was given  *)
(* by the administration.                                                  *)
LEMMA WriteBatchKeepsReadings ==
  ASSUME IInv, CInv, WriteBatch
  PROVE  Readings'
<1>1. /\ TypeOK /\ stage = "deciding" /\ batch # {}
      /\ UNCHANGED <<aligned, link, pin, personName, candidates, todo, index, disturbed>>
  BY WriteBatchMeans DEF IInv
<1>2. PICK b \in batch : /\ b \in Pubs
                         /\ \/ BatchRefused(b)
                            \/ BatchWritten(b)
                         /\ BatchRefused(b) => Refused(Decided(b), Released(Decided(b), View))
  BY WriteBatchMeans DEF BatchRefused
<1>3. /\ Existing' = Existing /\ Created = {}
      /\ \A c : /\ PubOfContrib(c)' = PubOfContrib(c) /\ PinsOf(c)' = PinsOf(c)
                /\ Rivals(c)' = Rivals(c)
  BY <1>1, AlignmentUnchanged DEF PinsOf, CInv, CreationsComeLast
<1>4. CASE BatchRefused(b)
  <2>1. disturbed
    BY <1>1, <1>2, <1>4, NoBatchRefused DEF CInv
  <2>2. stage' = "conflict" /\ UNCHANGED named
    BY <1>4 DEF BatchRefused
  <2>3. Created' = {}
    BY <1>1, <1>3, <2>2 DEF Created
  <2> QED
    BY <1>1, <2>1, <2>2, <2>3 DEF Readings, NothingLoaded, CreationsComeLast, ReadingsAreWhole,
                                  ConflictNeedsRequest, PinsHold, BatchesAreApart
<1>5. CASE BatchWritten(b)
  <2>1. /\ stage' = "deciding" /\ batch' = {} /\ View' = Rewritten(b)
        /\ toCreate' = toCreate \cup {c \in Batch(b) : Decided(b)[c].by = "create"}
        /\ pinsRead' = [c \in Contribs |-> {}] /\ named' = named
    BY <1>1, <1>5 DEF BatchWritten
  <2>2. /\ \A c \in Contribs \ Batch(b) : View'[c] = View[c]
        /\ \A c \in Batch(b) : Decided(b)[c].by = "create" => View'[c].person = NoPerson
    <3>1. ASSUME NEW c \in Batch(b), Decided(b)[c].by = "create"
          PROVE  View'[c].person = NoPerson
      <4>1. ~ IsMatch(Decided(b)[c])
        BY <3>1 DEF IsMatch
      <4> QED
        BY <1>1, <1>2, <2>1, <4>1, RewrittenMeans
    <3> QED
      BY <1>1, <1>2, <2>1, <3>1, RewrittenMeans
  <2>3. Existing \subseteq Contribs /\ candidates \subseteq Existing /\ toCreate \subseteq candidates
    BY ContributionHasPublication DEF IInv, Quiet
  <2>4. Created' = {} /\ NameView' = NameView
    BY <1>1, <1>3, <2>1 DEF Created, NameView
  <2>5. CreationsComeLast'
    BY <2>4 DEF CreationsComeLast
  <2>6. ReadingsAreWhole'
    <3>1. IndexIsWhole' <=> IndexIsWhole
      BY <1>1, <2>4 DEF IndexIsWhole
    <3> QED
      BY <1>1, <1>3, <2>1, <2>3, <3>1 DEF CInv, ReadingsAreWhole
  <2>7. PinsHold'
    <3> SUFFICES ASSUME ~ disturbed, NEW c \in Existing, NEW p \in Persons, PinsOf(c) = {p}
                 PROVE  View'[c] = Manual(p) \/ \E o \in Rivals(c) : Manual(p) \in {link[o], View'[o]}
      BY <1>1, <1>3 DEF PinsHold
    <3>1. ASSUME NEW x \in Existing, View[x] = Manual(p) PROVE View'[x] = Manual(p)
      <4>1. ~ Undecided(x)
        BY <1>1, <3>1, RejectedArePersons DEF Undecided, Manual
      <4>2. x \notin Batch(b)
        BY <1>1, <1>2, <4>1 DEF CInv, BatchesAreApart, Batch
      <4> QED
        BY <2>2, <2>3, <3>1, <4>2
    <3>2. View[c] = Manual(p) \/ \E o \in Rivals(c) : Manual(p) \in {link[o], View[o]}
      BY <1>1 DEF CInv, PinsHold
    <3>3. Rivals(c) \subseteq Existing
      BY DEF Rivals
    <3> QED
      BY <3>1, <3>2, <3>3
  <2>8. BatchesAreApart'
    <3> SUFFICES ASSUME ~ disturbed
                 PROVE  /\ \A c \in candidates : PubOfContrib(c) \in todo => Undecided(c)'
                        /\ \A c \in toCreate' : PubOfContrib(c) \notin todo /\ Undecided(c)'
      BY <1>1, <1>3, <2>1 DEF BatchesAreApart
    <3>1. b \notin todo
      BY <1>1 DEF CInv, BatchesAreApart
    <3>2. ASSUME NEW c \in Existing \ Batch(b), Undecided(c) PROVE Undecided(c)'
      BY <2>2, <2>3, <3>2 DEF Undecided
    <3>3. ASSUME NEW c \in candidates, PubOfContrib(c) \in todo PROVE Undecided(c)'
      <4>1. c \notin Batch(b)
        BY <3>1, <3>3 DEF Batch
      <4>2. Undecided(c)
        BY <1>1, <3>3 DEF CInv, BatchesAreApart
      <4> QED
        BY <2>3, <3>2, <4>1, <4>2
    <3>4. ASSUME NEW c \in toCreate PROVE PubOfContrib(c) \notin todo /\ Undecided(c)'
      <4>1. PubOfContrib(c) \notin todo \cup batch /\ Undecided(c)
        BY <1>1, <3>4 DEF CInv, BatchesAreApart
      <4>2. c \notin Batch(b)
        BY <4>1 DEF Batch
      <4> QED
        BY <2>3, <3>2, <4>1, <4>2
    <3>5. ASSUME NEW c \in Batch(b), Decided(b)[c].by = "create"
          PROVE  PubOfContrib(c) \notin todo /\ Undecided(c)'
      BY <2>2, <3>1, <3>5 DEF Batch, Undecided
    <3> QED
      BY <2>1, <3>3, <3>4, <3>5
  <2> QED
    BY <2>1, <2>5, <2>6, <2>7, <2>8 DEF Readings, NothingLoaded, ConflictNeedsRequest
<1> QED
  BY <1>2, <1>4, <1>5

(* A creation registers its person in the index and takes it.              *)
LEMMA CreateNextKeepsReadings ==
  ASSUME IInv, CInv, CreateNext
  PROVE  Readings'
<1>1. /\ TypeOK /\ Quiet /\ stage = "deciding" /\ todo = {} /\ batch = {}
      /\ UNCHANGED <<aligned, link, pin, personName, stage, candidates, todo, batch, pinsRead,
                     disturbed>>
      /\ Existing \subseteq Contribs /\ View \in [Contribs -> Links] /\ NoPerson \notin Persons
  BY CreateNextMeans, ContributionHasPublication, ViewsAreTyped, RejectedArePersons DEF IInv
<1>2. PICK c \in toCreate :
         /\ c \in Existing /\ toCreate' = toCreate \ {c}
         /\ \/ Leaves
            \/ \E p, decided : /\ Attaches(c, p, decided)
                               /\ p \in Created /\ UNCHANGED <<named, index>>
            \/ \E p, decided, n, refused : /\ Attaches(c, p, decided)
                                           /\ Founds(c, p, n, refused)
  BY CreateNextMeans
<1>3. /\ Existing' = Existing
      /\ \A x : /\ PubOfContrib(x)' = PubOfContrib(x) /\ PinsOf(x)' = PinsOf(x)
                /\ Rivals(x)' = Rivals(x)
  BY <1>1, AlignmentUnchanged DEF PinsOf
<1>4. \A x \in Contribs \ {c} : View'[x] = View[x]
  BY <1>1, <1>2 DEF Leaves, Attaches
<1>5. PinsHold'
  <2> SUFFICES ASSUME ~ disturbed, NEW x \in Existing, NEW p \in Persons, PinsOf(x) = {p}
               PROVE  View'[x] = Manual(p) \/ \E o \in Rivals(x) : Manual(p) \in {link[o], View'[o]}
    BY <1>1, <1>3 DEF PinsHold
  <2>1. ASSUME NEW y \in Existing, View[y] = Manual(p) PROVE View'[y] = Manual(p)
    <3>1. ~ Undecided(y)
      BY <1>1, <2>1 DEF Undecided, Manual
    <3>2. y # c
      BY <1>1, <3>1 DEF CInv, BatchesAreApart
    <3> QED
      BY <1>1, <1>4, <2>1, <3>2
  <2>2. View[x] = Manual(p) \/ \E o \in Rivals(x) : Manual(p) \in {link[o], View[o]}
    BY <1>1 DEF CInv, PinsHold
  <2>3. Rivals(x) \subseteq Existing
    BY DEF Rivals
  <2> QED
    BY <2>1, <2>2, <2>3
<1>6. BatchesAreApart'
  <2> SUFFICES ASSUME ~ disturbed, NEW x \in toCreate' PROVE Undecided(x)'
    BY <1>1 DEF BatchesAreApart
  <2>1. x \in toCreate /\ x # c /\ x \in Contribs
    BY <1>1, <1>2 DEF Quiet
  <2>2. Undecided(x)
    BY <1>1, <2>1 DEF CInv, BatchesAreApart
  <2> QED
    BY <1>4, <2>1, <2>2 DEF Undecided
<1>7. \A q \in Persons : q \notin DOMAIN named /\ NameView[q] = NoName => q \notin Created
  BY DEF Created
<1>8. CASE Leaves
  <2>1. View' = View /\ UNCHANGED <<taken, named, index>> /\ Created' = Created
    BY <1>1, <1>8 DEF Leaves, Created
  <2>2. CreationsComeLast'
    BY <1>1, <1>3, <2>1 DEF CInv, CreationsComeLast
  <2>3. ReadingsAreWhole'
    BY <1>1, <1>3, <2>1 DEF CInv, ReadingsAreWhole, IndexIsWhole, NameView
  <2> QED
    BY <1>1, <1>5, <1>6, <2>2, <2>3 DEF Readings, NothingLoaded, ConflictNeedsRequest
<1>9. ASSUME NEW p, NEW decided, Attaches(c, p, decided),
             \A q \in Created' : q \in Created \/ (q = p /\ NameView[p] = NoName),
             IndexIsWhole => IndexIsWhole'
      PROVE  Readings'
  <2>1. /\ p \in Persons /\ View' = [View EXCEPT ![c] = [person |-> p, mode |-> decided[c].by]]
        /\ taken' = [taken EXCEPT ![PubOfContrib(c)] = @ \cup {p}]
    BY <1>9 DEF Attaches
  <2>2. \A x \in Existing : PubOfContrib(x) \in Pubs
    BY ContributionHasPublication DEF IInv
  <2>3. /\ \A x \in Existing : taken[PubOfContrib(x)] \subseteq taken'[PubOfContrib(x)]
        /\ p \in taken'[PubOfContrib(c)] /\ View'[c].person = p
    BY <1>1, <1>2, <2>1, <2>2 DEF TypeOK
  <2>4. ASSUME NEW x \in Existing, View'[x].person \in Created'
        PROVE  View'[x].person \in taken'[PubOfContrib(x)]
    <3>1. CASE x = c
      BY <2>3, <3>1
    <3>2. CASE x # c
      <4>1. View'[x] = View[x]
        BY <1>1, <1>4, <3>2
      <4>2. View[x].person \in Created \/ (View[x].person = p /\ NameView[p] = NoName)
        BY <1>9, <2>4, <4>1
      <4>3. View[x].person # p \/ NameView[p] # NoName
        BY <1>1, <2>1, ViewedExist
      <4> QED
        BY <1>1, <2>3, <4>1, <4>2, <4>3 DEF CInv, CreationsComeLast
    <3> QED
      BY <3>1, <3>2
  <2>5. CreationsComeLast'
    BY <1>1, <1>3, <2>4 DEF CreationsComeLast
  <2>6. ReadingsAreWhole'
    BY <1>1, <1>3, <1>9 DEF CInv, ReadingsAreWhole
  <2> QED
    BY <1>1, <1>5, <1>6, <2>5, <2>6 DEF Readings, NothingLoaded, ConflictNeedsRequest
<1>10. ASSUME NEW p, NEW decided, Attaches(c, p, decided), UNCHANGED <<named, index>>
       PROVE  Readings'
  <2>1. Created' = Created /\ NameView' = NameView
    BY <1>1, <1>10 DEF Created, NameView
  <2>2. IndexIsWhole => IndexIsWhole'
    BY <1>10, <2>1 DEF IndexIsWhole
  <2> QED
    BY <1>9, <1>10, <2>1, <2>2
<1>11. ASSUME NEW p, NEW decided, NEW n, NEW refused,
              Attaches(c, p, decided), Founds(c, p, n, refused)
       PROVE  Readings'
  <2>1. /\ n \in Names /\ p \in Persons /\ NameView[p] = NoName
        /\ named' = [q \in DOMAIN named \cup {p} |-> IF q = p THEN n ELSE named[q]]
        /\ index' = Registered(p, n, Members(c), refused)
    BY <1>11 DEF Founds
  <2>2. \A q \in Created' : q \in Created \/ q = p
    BY <1>1, <2>1 DEF Created
  <2>3. NameView' = [NameView EXCEPT ![p] = n]
    <3>1. NameView' = [q \in Persons |-> IF q \in DOMAIN named' THEN named'[q] ELSE personName[q]]
      BY <1>1 DEF NameView
    <3>2. NameView = [q \in Persons |-> IF q \in DOMAIN named THEN named[q] ELSE personName[q]]
      BY DEF NameView
    <3> QED
      BY <2>1, <3>1, <3>2
  <2>4. ASSUME IndexIsWhole PROVE IndexIsWhole'
    <3>1. index \in IndexType /\ index.name = NameView
      BY <1>1, <2>4 DEF TypeOK, IndexType, IndexIsWhole
    <3>2. /\ index'.name = [index.name EXCEPT ![p] = n]
          /\ \A q \in Persons \ {p} : index'.form[q] = index.form[q]
          /\ \A v \in Values : index'.holder[v] \in {index.holder[v], p}
      BY <2>1, <3>1 DEF Registered, IndexType
    <3>3. index'.name[p] = n /\ n # NoName /\ \A q \in Persons \ {p} : index'.name[q] = index.name[q]
      BY <2>1, <3>1, <3>2, NamesAssumption DEF IndexType
    <3>4. index'.name = NameView'
      BY <2>3, <3>1, <3>2
    <3>5. \A q \in Persons : index'.name[q] = NoName => \A k \in Names : index'.form[q][k] = "none"
      BY <2>4, <3>2, <3>3 DEF IndexIsWhole
    <3>6. \A v \in Values : index.holder[v] \in Persons \cup {NoPerson}
      BY <3>1 DEF IndexType
    <3>7. \A v \in Values : index'.holder[v] # NoPerson => index'.name[index'.holder[v]] # NoName
      BY <2>4, <3>2, <3>3, <3>6 DEF IndexIsWhole
    <3> QED
      BY <3>4, <3>5, <3>7 DEF IndexIsWhole
  <2> QED
    BY <1>9, <1>11, <2>1, <2>2, <2>4
<1> QED
  BY <1>2, <1>8, <1>10, <1>11

------------------------------------------------------------------------------
(* The invariant                                                           *)

(* The first state satisfies it.                                           *)
LEMMA InitImpliesCInv ==
  ASSUME Init
  PROVE  CInv
<1>1. /\ TypeOK /\ Coherent
      /\ stage = "idle" /\ todo = {} /\ batch = {} /\ written = Nothing /\ named = Nothing
      /\ given = Nothing /\ link = [c \in Contribs |-> Unlinked]
      /\ \A p \in Persons : personName[p] = NoName => \A n \in Names : form[p][n] = "none"
      /\ \A v \in Values : attribution[v].person = NoPerson
  <2>1. \A p \in Persons : p \in HrRecords => HrName[p] # NoName
    BY HrAssumption, NamesAssumption
  <2> QED
    BY <2>1, InitImpliesIInv DEF Init, NothingRead, IInv, Unattributed
<1>2. View = link
  BY <1>1, ViewWithoutWrites
<1>3. PersonsAreApart
  <2>1. \A c \in Existing : link[c].person = NoPerson
    BY <1>1, ContributionHasPublication DEF Unlinked
  <2> QED
    BY <1>2, <2>1 DEF PersonsAreApart, Apart
<1>4. SupportsExist
  BY <1>1, NothingIsEmpty DEF SupportsExist
<1>5. Created = {}
  BY <1>1, NothingIsEmpty DEF Created
<1> QED
  BY <1>1, <1>3, <1>4, <1>5 DEF CInv, NothingLoaded, CreationsComeLast, ReadingsAreWhole,
                                ConflictNeedsRequest, PinsHold, BatchesAreApart

(* The steps of the phase.                                                 *)
LEMMA PhaseKeepsCInv ==
  ASSUME IInv, IInv', CInv, Phase
  PROVE  CInv'
<1> DEFINE kept == PersonsAreApart' /\ SupportsExist' /\ Readings'
<1>1. TypeOK /\ PersonsAreApart /\ SupportsExist /\ CreationsComeLast /\ NothingLoaded
  BY DEF IInv, CInv
<1> SUFFICES kept
  BY DEF CInv, Readings
<1>2. ASSUME NEW rebuild \in BOOLEAN, Start(rebuild) PROVE kept
  BY <1>1, <1>2, StartKeepsApart, StartKeepsSupports, StartKeepsReadings
<1>3. CASE Prepare
  <2>1. UNCHANGED <<aligned, link, written, personName, form, attribution, named, given>>
    BY <1>3 DEF Prepare, tables, overlay
  <2> QED
    BY <1>1, <1>3, <2>1, StayApart, SupportsStayInTables, PrepareKeepsReadings
<1>4. CASE LoadBatch
  <2>1. UNCHANGED <<aligned, link, written, personName, form, attribution, named, given>>
    BY <1>4 DEF LoadBatch, tables, overlay
  <2> QED
    BY <1>1, <1>4, <2>1, StayApart, SupportsStayInTables, LoadBatchKeepsReadings
<1>5. CASE WriteBatch
  BY <1>1, <1>5, WriteBatchKeepsApart, WriteBatchKeepsSupports, WriteBatchKeepsReadings
<1>6. CASE CreateNext
  BY <1>1, <1>6, CreateNextKeepsApart, CreateNextKeepsSupports, CreateNextKeepsReadings
<1>7. CASE Commit
  <2>1. Readings'
    BY <1>7, NothingIsRead DEF Commit, TransactionEnds
  <2> QED
    BY <1>1, <1>7, <2>1, CommitKeepsApart, CommitKeepsSupports
<1>8. CASE Abort
  <2>1. Readings'
    BY <1>8, NothingIsRead DEF Abort, TransactionEnds
  <2> QED
    BY <1>1, <1>8, <2>1, AbortKeepsApart, AbortKeepsSupports
<1>9. CASE Populate
  <2>1. /\ UNCHANGED <<aligned, link, written>> /\ stage' = "populated"
        /\ named' = Nothing /\ todo' = {} /\ batch' = {}
    BY <1>1, <1>9 DEF Populate, overlay, readings, IInv, Quiet, NothingLoaded
  <2> QED
    BY <1>1, <1>9, <2>1, StayApart, PopulateKeepsSupports, NothingIsRead
<1>10. CASE Purge
  <2>1. stage' = "idle" /\ named' = Nothing /\ todo' = {} /\ batch' = {}
    BY <1>1, <1>10 DEF Purge, overlay, readings, IInv, Quiet, NothingLoaded
  <2> QED
    BY <1>1, <1>10, <2>1, PurgeKeepsApart, PurgeKeepsSupports, NothingIsRead
<1> QED
  BY <1>2, <1>3, <1>4, <1>5, <1>6, <1>7, <1>8, <1>9, <1>10 DEF Phase

(* The requests.                                                           *)
LEMMA AdministrationKeepsCInv ==
  ASSUME IInv, IInv', CInv, Administration
  PROVE  CInv'
<1> DEFINE kept == PersonsAreApart' /\ SupportsExist' /\ Readings'
<1>1. TypeOK /\ PersonsAreApart /\ SupportsExist /\ Readings
  BY DEF IInv, CInv, Readings
<1>2. ASSUME NEW missed, Request(missed), personName' = personName PROVE Readings'
  <2>1. Created' = Created
    BY <1>2 DEF Request, overlay, Created
  <2> QED
    BY <1>1, <1>2, <2>1, RequestKeepsReadings
<1>3. ASSUME NEW c \in Contribs, NEW p \in Persons, Assign(c, p) PROVE kept
  BY <1>1, <1>2, <1>3, AssignKeepsApart, AssignKeepsSupports DEF Assign
<1>4. ASSUME NEW c \in Contribs, RejectPair(c) PROVE kept
  BY <1>1, <1>2, <1>4, RejectPairKeepsApart, RejectPairKeepsSupports DEF RejectPair
<1>5. ASSUME NEW p \in Persons, NEW n \in Names, RejectForm(p, n) PROVE kept
  <2>1. UNCHANGED <<aligned, link, written, personName>> /\ \E missed : Request(missed)
    BY <1>5 DEF RejectForm, Request, overlay
  <2> QED
    BY <1>1, <1>2, <1>5, <2>1, StayApart, RejectFormKeepsSupports
<1>6. ASSUME NEW v \in Values, RejectIdentifier(v) PROVE kept
  <2>1. UNCHANGED <<aligned, link, written, personName>> /\ \E missed : Request(missed)
    BY <1>6 DEF RejectIdentifier, Request, overlay
  <2> QED
    BY <1>1, <1>2, <1>6, <2>1, StayApart, RejectIdentifierKeepsSupports
<1>7. ASSUME NEW t \in Persons, NEW s \in Persons, MergePersons(t, s) PROVE kept
  <2>1. PICK missed : Request(missed)
    BY <1>7 DEF MergePersons
  <2>2. s \notin DOMAIN named /\ personName' = [personName EXCEPT ![s] = NoName]
        /\ personName[s] # NoName
    BY <1>7 DEF MergePersons
  <2>3. named' = named /\ DOMAIN named \subseteq Persons
    BY <1>1, <2>1 DEF Request, overlay, TypeOK, IsPartial
  <2>4. Created' = Created
    BY <1>1, <2>2, <2>3 DEF Created, TypeOK
  <2> QED
    BY <1>1, <1>7, <2>1, <2>4, MergePersonsKeepsApart, MergePersonsKeepsSupports,
       RequestKeepsReadings
<1>8. kept
  BY <1>3, <1>4, <1>5, <1>6, <1>7 DEF Administration
<1> QED
  BY <1>8 DEF CInv, Readings

(* The recompositions.                                                     *)
LEMMA RegroupKeepsCInv ==
  ASSUME IInv, IInv', CInv, NEW b \in Pubs, NEW group \in [Sources -> 1 .. Cardinality(Sources)],
         Regroup(b, group)
  PROVE  CInv'
<1>1. /\ TypeOK /\ PersonsAreApart /\ SupportsExist
      /\ UNCHANGED <<personName, form, attribution, named, given>>
      /\ stage' = "idle" /\ named' = Nothing /\ todo' = {} /\ batch' = {}
  BY DEF Regroup, overlay, readings, IInv, Quiet, CInv, NothingLoaded
<1>2. PersonsAreApart' /\ SupportsExist' /\ Readings'
  BY <1>1, RegroupKeepsApart, SupportsStayInTables, NothingIsRead
<1> QED
  BY <1>2 DEF CInv, Readings

(* Every step preserves it.                                                *)
LEMMA NextPreservesCInv ==
  ASSUME IInv, IInv', CInv, [Next]_vars
  PROVE  CInv'
<1>1. CASE UNCHANGED vars
  <2>1. UNCHANGED <<aligned, link, pin, personName, form, attribution, stage, candidates, todo,
                    batch, pinsRead, taken, toCreate, index, written, named, given, disturbed>>
    BY <1>1 DEF vars, tables, readings, overlay
  <2>2. PersonsAreApart' /\ SupportsExist'
    BY <2>1, StayApart, SupportsStayInTables DEF IInv, CInv
  <2>3. /\ View' = View /\ NameView' = NameView /\ Created' = Created /\ Existing' = Existing
        /\ \A c : /\ PubOfContrib(c)' = PubOfContrib(c) /\ PinsOf(c)' = PinsOf(c)
                  /\ Rivals(c)' = Rivals(c)
    BY <2>1, AlignmentUnchanged DEF View, NameView, Created, PinsOf
  <2>4. NothingLoaded' /\ CreationsComeLast' /\ ConflictNeedsRequest'
    BY <2>1, <2>3 DEF CInv, NothingLoaded, CreationsComeLast, ConflictNeedsRequest
  <2>5. ReadingsAreWhole'
    BY <2>1, <2>3 DEF CInv, ReadingsAreWhole, IndexIsWhole
  <2>6. PinsHold' /\ BatchesAreApart'
    BY <2>1, <2>3 DEF CInv, PinsHold, BatchesAreApart, Undecided
  <2> QED
    BY <2>2, <2>4, <2>5, <2>6 DEF CInv
<1>2. CASE Next
  BY <1>2, PhaseKeepsCInv, AdministrationKeepsCInv, RegroupKeepsCInv DEF Next
<1> QED
  BY <1>1, <1>2

------------------------------------------------------------------------------
(* The theorems                                                            *)

(* Both invariants hold in every reachable state.                          *)
LEMMA CInvIsInvariant == Spec => [](IInv /\ CInv)
<1>1. Init => CInv
  BY InitImpliesCInv
<1>2. IInv /\ IInv' /\ CInv /\ [Next]_vars => CInv'
  BY NextPreservesCInv
<1> QED
  BY <1>1, <1>2, IInvIsInvariant, PTL DEF Spec

(* In a publication a person has one contribution at most, in the tables   *)
(* and in what the transaction of the phase reads: the unique constraint   *)
(* holds also after the steps that do not meet it, the pins, the creations *)
(* decided on what was read before, the requests and the recompositions.   *)
THEOREM PersonsStayApart == Spec => []PersonsAreApart
<1>1. CInv => PersonsAreApart
  BY DEF CInv
<1> QED
  BY <1>1, CInvIsInvariant, PTL

(* Without a request the phase never meets the unique constraint, nor the  *)
(* foreign key to the persons: pins, settlement, releases and the persons  *)
(* taken leave no row for them to refuse.                                  *)
THEOREM ConflictsNeedRequests == Spec => []ConflictNeedsRequest
<1>1. CInv => ConflictNeedsRequest
  BY DEF CInv
<1> QED
  BY <1>1, CInvIsInvariant, PTL

(* A run no request disturbed leaves a pinned contribution its person, but *)
(* where the administration gave it to another one of the publication.     *)
THEOREM PinsAreHonoured == Spec => PinsPrevail
<1>1. IInv /\ CInv /\ [Next]_vars =>
        [stage = "deciding" /\ stage' = "resolved" /\ ~ disturbed =>
            \A c \in Existing, p \in Persons :
                PinsOf(c) = {p} =>
                    \/ link'[c] = [person |-> p, mode |-> "manual"]
                    \/ \E o \in Rivals(c) :
                          [person |-> p, mode |-> "manual"] \in {link[o], link'[o]}]_vars
  <2> SUFFICES ASSUME IInv, CInv, Next, stage = "deciding", stage' = "resolved", ~ disturbed,
                      NEW c \in Existing, NEW p \in Persons, PinsOf(c) = {p}
               PROVE  \/ link'[c] = Manual(p)
                      \/ \E o \in Rivals(c) : Manual(p) \in {link[o], link'[o]}
    BY DEF Manual
  <2>1. link' = View
    <3>1. CASE Phase
      <4>1. CASE Commit
        BY <4>1 DEF Commit
      <4>2. ~ (Prepare \/ LoadBatch \/ CreateNext \/ Abort \/ Populate \/ Purge
               \/ \E rebuild \in BOOLEAN : Start(rebuild))
        BY DEF Prepare, LoadBatch, CreateNext, Abort, Populate, Purge, Start
      <4>3. ~ WriteBatch
        BY WriteBatchMeans DEF BatchRefused, BatchWritten
      <4> QED
        BY <3>1, <4>1, <4>2, <4>3 DEF Phase
    <3>2. ~ Administration
      BY DEF Administration, Assign, RejectPair, RejectForm, RejectIdentifier, MergePersons, Request
    <3>3. ~ \E b \in Pubs, group \in [Sources -> 1 .. Cardinality(Sources)] : Regroup(b, group)
      BY DEF Regroup
    <3> QED
      BY <3>1, <3>2, <3>3 DEF Next
  <2> QED
    BY <2>1 DEF CInv, PinsHold
<1> QED
  BY <1>1, CInvIsInvariant, PTL DEF Spec, PinsPrevail

------------------------------------------------------------------------------
(* What attached a contribution still supports it                          *)

To(p) == [person |-> p, rejected |-> FALSE]
Carries(m, v) == \E s \in m : ValueOf[s] = v
Contested(v) == Cardinality({t \in Sources : ValueOf[t] = v}) > 2

(* The link k of source contributions m, but of an excused person, has the *)
(* support of values, of forms or of names.                                *)
Supported(m, k, excused, values, forms, names) ==
    \/ k.person \in excused \cup {NoPerson}
    \/ k.mode = "manual"
    \/ /\ k.mode = "identifier"
       /\ \E s \in m : ValueOf[s] # NoValue /\ (values[ValueOf[s]] = To(k.person)
                                                \/ Contested(ValueOf[s]))
    \/ /\ k.mode = "name"
       /\ \E s \in m : \/ forms[k.person][NameOf[s]] # "rejected"
                       \/ NamesCompatible(NameOf[s], names[k.person])

(* In the tables, at every stage, but for the marked contributions.        *)
LinksAreSupported ==
    \A c \in Existing \ queue : Supported(Members(c), link[c], late, attribution, form, personName)

(* In what the transaction reads, but for the marks of a request committed *)
(* since it copied them and the copied ones that are still to decide.      *)
ToDecide(c) == c \in candidates /\ PubOfContrib(c) \in todo \cup batch
ViewIsSupported ==
    stage \in {"pinned", "deciding"} => \A c \in Existing \ (queue \ copied) :
        \/ c \in copied /\ ToDecide(c)
        \/ Supported(Members(c), View[c], late, AttributionView, FormView, NameView)

MarksAreCopied == copied \subseteq queue /\ (stage \notin {"deciding", "conflict"} => copied = {})

(* Before the decisions the phase has written the pins alone.              *)
PinsFirst ==
    stage = "pinned" =>
        /\ given = Nothing
        /\ \A c \in DOMAIN written : written[c].person = NoPerson \/ written[c].mode = "manual"

(* One batch is loaded, and decides a publication for good.                *)
Ordered ==
    stage = "deciding" =>
        /\ \A c \in toCreate : PubOfContrib(c) \notin todo \cup batch
        /\ todo \cap batch = {} /\ \A x, y \in batch : x = y

(* The index is of the names, the forms and the values the phase reads but *)
(* for the late persons and those a merge absorbed: the batches attribute  *)
(* values without telling it (NoPerson holds them), and a creation then    *)
(* enters its person for a value another one was given.                    *)
Gone(p) == NameView[p] = NoName /\ index.name[p] # NoName
Settled(c) == c \notin toCreate /\ ~ ToDecide(c)
HolderAgrees(v) ==
    \/ index.holder[v] \in late \/ Gone(index.holder[v])
    \/ AttributionView[v] = To(index.holder[v])
    \/ /\ todo = {} /\ batch = {}
       /\ \E c, d \in Existing \ toCreate : /\ c # d
                                            /\ Carries(Members(c), v) /\ Carries(Members(d), v)
FreeAgrees(v) ==
    \/ AttributionView[v].person = NoPerson \/ AttributionView[v].rejected
    \/ \E c \in Existing : Settled(c) /\ Carries(Members(c), v)
IndexAgrees ==
    stage = "deciding" =>
        /\ \A p \in Persons : index.name[p] = NameView[p] \/ Gone(p)
        /\ \A p \in Persons, n \in Names :
              index.form[p][n] # "rejected" => p \in late \/ FormView[p][n] # "rejected"
        /\ \A v \in Values : IF index.holder[v] # NoPerson THEN HolderAgrees(v) ELSE FreeAgrees(v)

SInv ==
    /\ LinksAreSupported /\ ViewIsSupported /\ MarksAreCopied /\ PinsFirst /\ Ordered
    /\ IndexAgrees

(* A support stays with what it rests on.                                  *)
LEMMA SupportStays ==
  ASSUME NEW m, NEW k, NEW excused, NEW excused2, NEW values, NEW values2, NEW forms, NEW forms2,
         NEW names, NEW names2,
         Supported(m, k, excused, values, forms, names), excused \subseteq excused2,
         k.person \notin excused2 \cup {NoPerson} =>
            /\ \A s \in m : ValueOf[s] # NoValue /\ values[ValueOf[s]] = To(k.person)
                               => values2[ValueOf[s]] = To(k.person)
            /\ \A s \in m : forms[k.person][NameOf[s]] # "rejected"
                               => forms2[k.person][NameOf[s]] # "rejected"
            /\ \A s \in m : NamesCompatible(NameOf[s], names[k.person])
                               => \/ NamesCompatible(NameOf[s], names2[k.person])
                                  \/ forms2[k.person][NameOf[s]] # "rejected"
  PROVE  Supported(m, k, excused2, values2, forms2, names2)
  BY DEF Supported

(* An attribution that is not rejected is to its person.                   *)
LEMMA AttributionMeans ==
  ASSUME NEW a \in Attributions
  PROVE  /\ ~ a.rejected => a = To(a.person)
         /\ \A p : a = To(p) => a.person = p /\ ~ a.rejected
  BY DEF Attributions, To

(* Source contributions of three contributions carry a contested value.    *)
LEMMA ThreeAreContested ==
  ASSUME NEW c, NEW d, NEW e, c # d, c # e, d # e, NEW v,
         Carries(Members(c), v), Carries(Members(d), v), Carries(Members(e), v)
  PROVE  Contested(v)
<1> DEFINE T == {t \in Sources : ValueOf[t] = v}
<1>1. PICK x \in Members(c), y \in Members(d), z \in Members(e) :
         ValueOf[x] = v /\ ValueOf[y] = v /\ ValueOf[z] = v
  BY DEF Carries
<1>2. {x, y, z} \subseteq T /\ x # y /\ x # z /\ y # z
  BY <1>1 DEF Members
<1>3. IsFiniteSet(T)
  BY SourcesAreNumbers, FS_Subset
<1>4. Cardinality({x, y, z}) = 3 /\ IsFiniteSet({x, y, z})
  <2>1. ASSUME NEW S, NEW w, IsFiniteSet(S), w \notin S
        PROVE  IsFiniteSet(S \cup {w}) /\ Cardinality(S \cup {w}) = Cardinality(S) + 1
    BY <2>1, FS_AddElement
  <2>2. PICK X : X = {x} /\ IsFiniteSet(X) /\ Cardinality(X) = 1
    BY FS_Singleton
  <2>3. PICK Y : Y = X \cup {y} /\ IsFiniteSet(Y) /\ Cardinality(Y) = 1 + 1
    BY <1>2, <2>1, <2>2
  <2>4. PICK Z : Z = Y \cup {z} /\ IsFiniteSet(Z) /\ Cardinality(Z) = 1 + 1 + 1
    BY <1>2, <2>1, <2>2, <2>3
  <2>5. Z = {x, y, z}
    BY <2>2, <2>3, <2>4
  <2> QED
    BY <2>4, <2>5
<1> HIDE DEF T
<1>5. Cardinality({x, y, z}) <= Cardinality(T) /\ Cardinality(T) \in Nat
  BY <1>2, <1>3, FS_Subset, FS_CardinalityType
<1>6. Cardinality(T) > 2
  BY <1>4, <1>5
<1> QED
  BY <1>6 DEF Contested, T

(* Outside the transaction, the tables and the marks are all there is.     *)
LEMMA OutsideTransaction ==
  ASSUME stage' \notin {"pinned", "deciding"}, LinksAreSupported', MarksAreCopied'
  PROVE  SInv'
  BY DEF SInv, ViewIsSupported, PinsFirst, Ordered, IndexAgrees

(* The first state.                                                        *)
LEMMA InitImpliesSInv ==
  ASSUME Init
  PROVE  SInv
<1>1. TypeOK /\ Coherent
  BY InitImpliesIInv DEF IInv
<1>2. \A c \in Existing : link[c].person = NoPerson
  BY <1>1, ContributionHasPublication DEF Init, Unlinked
<1>3. stage = "idle" /\ copied = {}
  BY DEF Init
<1> QED
  BY <1>2, <1>3 DEF SInv, LinksAreSupported, Supported, ViewIsSupported, MarksAreCopied, PinsFirst,
                    Ordered, IndexAgrees

------------------------------------------------------------------------------
(* ... through the steps of the phase                                      *)

(* The marks of the copied rows are all there is before the decisions.     *)
LEMMA NothingCopied ==
  ASSUME MarksAreCopied, ViewIsSupported, stage = "pinned", NEW c \in Existing \ queue
  PROVE  Supported(Members(c), View[c], late, AttributionView, FormView, NameView)
  BY DEF MarksAreCopied, ViewIsSupported

(* The pins are of the administration; a completed name is that of the     *)
(* contributions that attest it.                                           *)
LEMMA StartKeepsSInv ==
  ASSUME IInv, CInv, SInv, NEW rebuild \in BOOLEAN, Start(rebuild)
  PROVE  SInv'
<1> DEFINE links == Pinned(Existing, link)
           completed == {p \in Persons : IsSingleton(Attested(p, links))}
<1>1. /\ TypeOK /\ Coherent /\ stage = "idle" /\ stage' = "pinned" /\ copied = {}
      /\ UNCHANGED <<aligned, link, personName, form, attribution, queue, copied, late, given>>
      /\ written = Nothing /\ given = Nothing
      /\ written' = Writing(links) /\ named' = [p \in completed |-> Sole(Attested(p, links))]
  BY DEF Start, tables, IInv, Quiet, SInv, MarksAreCopied
<1>2. PICK target : PinsGive(links, target)
  BY <1>1, PinnedGives
<1>3. View' = links /\ links \in [Contribs -> Links] /\ View = link
  BY <1>1, StartKeepsApart, PinnedMeans, ViewWithoutWrites DEF CInv
<1>4. Existing' = Existing /\ \A c : Members(c)' = Members(c)
  BY <1>1, AlignmentUnchanged
<1> HIDE DEF links
<1>4a. ASSUME NEW c \in Contribs
       PROVE  links[c].mode = "manual" \/ links[c].person = NoPerson \/ links[c] = link[c]
  <2>1. CASE c \in target
    <3>1. PICK p \in Persons : links[c] = Manual(p)
      BY <1>2, <2>1 DEF PinsGive
    <3> QED
      BY <3>1 DEF Manual
  <2>2. CASE c \notin target
    BY <1>2, <2>2 DEF PinsGive
  <2> QED
    BY <2>1, <2>2
<1>5. \A c \in Existing : \/ View'[c].mode = "manual" \/ View'[c].person = NoPerson
                          \/ View'[c] = link[c]
  BY <1>1, <1>3, <1>4a, ContributionHasPublication
<1>6. LinksAreSupported'
  BY <1>1, <1>4 DEF SInv, LinksAreSupported
<1>7. \A v \in Values : AttributionView'[v] = attribution[v]
  BY <1>1, NothingIsEmpty DEF AttributionView
<1>8. ASSUME NEW p \in Persons, NEW n \in Names, form[p][n] # "rejected"
      PROVE  FormView'[p][n] # "rejected"
  BY <1>1, <1>8 DEF FormView
<1>9. ASSUME NEW c \in Existing, link[c].person \in Persons, View'[c] = link[c],
             NEW s \in Members(c), NamesCompatible(NameOf[s], personName[link[c].person])
      PROVE  NamesCompatible(NameOf[s], NameView'[link[c].person])
  <2>1. PICK p \in Persons : p = link[c].person
    BY <1>9
  <2>2. s \in Sources /\ aligned[s] = c /\ links[aligned[s]].person = p
    BY <1>3, <1>9, <2>1 DEF Members
  <2>3. CASE p \in completed
    <3>1. Attested(p, links) = {named'[p]} /\ NameView'[p] = named'[p]
      BY <1>1, <2>3, SoleIsMember DEF NameView
    <3>2. p \notin HrRecords /\ <<personName[p], named'[p]>> \in Extends
      BY <3>1 DEF Attested
    <3>3. personName[p] \in Reduced
      BY <3>2 DEF Reduced
    <3>4. <<NameOf[s], personName[p]>> \notin Extends
      BY <3>3, NamesAssumption
    <3>5. CASE NameOf[s] = personName[p]
      BY <2>1, <3>1, <3>2, <3>5 DEF NamesCompatible
    <3>6. CASE <<personName[p], NameOf[s]>> \in Extends
      <4>1. NameOf[s] \in Attested(p, links)
        BY <2>2, <3>2, <3>6 DEF Attested
      <4> QED
        BY <2>1, <3>1, <4>1 DEF NamesCompatible
    <3> QED
      BY <1>9, <2>1, <3>4, <3>5, <3>6 DEF NamesCompatible
  <2>4. CASE p \notin completed
    <3>1. NameView'[p] = personName[p]
      BY <1>1, <2>4 DEF NameView
    <3> QED
      BY <1>9, <2>1, <3>1
  <2> QED
    BY <2>3, <2>4
<1>10. ViewIsSupported'
  <2> SUFFICES ASSUME NEW c \in Existing \ queue
               PROVE  Supported(Members(c), View'[c], late, AttributionView', FormView', NameView')
    BY <1>1, <1>4 DEF ViewIsSupported
  <2>1. CASE View'[c].mode = "manual" \/ View'[c].person = NoPerson
    BY <2>1 DEF Supported
  <2>2. CASE View'[c] = link[c]
    <3>1. Supported(Members(c), link[c], late, attribution, form, personName)
      BY DEF SInv, LinksAreSupported
    <3>2. c \in Contribs /\ Members(c) \subseteq Sources /\ link[c].person \in Persons \cup {NoPerson}
      BY <1>1, ContributionHasPublication DEF TypeOK, Links
    <3>3. \A s \in Members(c) : NameOf[s] \in Names /\ (ValueOf[s] # NoValue => ValueOf[s] \in Values)
      BY <3>2, ProfilesAssumption
    <3>4. link[c].person \notin late \cup {NoPerson} =>
            /\ \A s \in Members(c) : ValueOf[s] # NoValue /\ attribution[ValueOf[s]] = To(link[c].person)
                               => AttributionView'[ValueOf[s]] = To(link[c].person)
            /\ \A s \in Members(c) : form[link[c].person][NameOf[s]] # "rejected"
                               => FormView'[link[c].person][NameOf[s]] # "rejected"
            /\ \A s \in Members(c) : NamesCompatible(NameOf[s], personName[link[c].person])
                               => NamesCompatible(NameOf[s], NameView'[link[c].person])
      BY <1>7, <1>8, <1>9, <2>2, <3>2, <3>3
    <3> QED
      BY <2>2, <3>1, <3>4, SupportStays
  <2> QED
    BY <1>5, <2>1, <2>2
<1>11. PinsFirst'
  <2>1. DOMAIN written' \subseteq Contribs /\ \A c \in DOMAIN written' : /\ written'[c] = links[c]
                                                                       /\ links[c] # link[c]
    BY <1>1, <1>3, WritingMeans, NothingIsEmpty DEF IsPartial
  <2>2. \A c \in DOMAIN written' : written'[c].person = NoPerson \/ written'[c].mode = "manual"
    BY <1>4a, <2>1
  <2> QED
    BY <1>1, <2>2 DEF PinsFirst
<1> QED
  BY <1>1, <1>6, <1>10, <1>11 DEF SInv, MarksAreCopied, Ordered, IndexAgrees

(* What is marked and was not decided by the administration is to decide.  *)
LEMMA PrepareKeepsSInv ==
  ASSUME IInv, CInv, SInv, Prepare
  PROVE  SInv'
<1>1. /\ TypeOK /\ Coherent /\ stage = "pinned" /\ stage' = "deciding"
      /\ UNCHANGED <<aligned, link, personName, form, attribution, queue, late, batch, toCreate,
                     written, named, given>>
      /\ copied' = queue /\ toCreate = {} /\ batch = {}
      /\ candidates' = {c \in Existing : \/ View[c].person = NoPerson
                                         \/ c \in queue \cup remarked /\ View[c].mode # "manual"}
      /\ todo' = {PubOfContrib(c) : c \in candidates'}
      /\ index' = IndexOf(FormView, NameView, AttributionView, index.conflicting)
  BY DEF Prepare, tables, overlay, IInv, Quiet, CInv, NothingLoaded
<1>2. /\ Existing' = Existing
      /\ \A c : Members(c)' = Members(c) /\ PubOfContrib(c)' = PubOfContrib(c)
  BY <1>1, AlignmentUnchanged
<1>3. View' = View /\ AttributionView' = AttributionView /\ FormView' = FormView /\ NameView' = NameView
  BY <1>1 DEF View, AttributionView, FormView, NameView
<1>4. LinksAreSupported'
  BY <1>1, <1>2 DEF SInv, LinksAreSupported
<1>5. ViewIsSupported'
  <2> SUFFICES ASSUME NEW c \in Existing
               PROVE  \/ c \in queue /\ c \in candidates' /\ PubOfContrib(c) \in todo'
                      \/ Supported(Members(c), View[c], late, AttributionView, FormView, NameView)
    BY <1>1, <1>2, <1>3 DEF ViewIsSupported, ToDecide
  <2>1. CASE c \in queue
    BY <1>1, <2>1 DEF Supported
  <2>2. CASE c \notin queue
    BY <1>1, <2>2, NothingCopied DEF SInv
  <2> QED
    BY <2>1, <2>2
<1>6. AttributionView \in [Values -> Attributions]
  BY <1>1, ViewsAreTyped
<1>7. IndexAgrees'
  <2>1. index'.name = NameView /\ index'.form = FormView
    BY <1>1 DEF IndexOf
  <2>2. ASSUME NEW v \in Values, index'.holder[v] # NoPerson
        PROVE  AttributionView[v] = To(index'.holder[v])
    BY <1>1, <1>6, <2>2, AttributionMeans DEF IndexOf
  <2>3. ASSUME NEW v \in Values, index'.holder[v] = NoPerson
        PROVE  AttributionView[v].person = NoPerson \/ AttributionView[v].rejected
    BY <1>1, <1>6, <2>3 DEF IndexOf
  <2> QED
    BY <1>3, <2>1, <2>2, <2>3 DEF IndexAgrees, HolderAgrees, FreeAgrees
<1> QED
  BY <1>1, <1>4, <1>5, <1>7 DEF SInv, MarksAreCopied, PinsFirst, Ordered

(* The publications to decide stay so.                                     *)
LEMMA LoadBatchKeepsSInv ==
  ASSUME IInv, CInv, SInv, LoadBatch
  PROVE  SInv'
<1>1. /\ TypeOK /\ stage = "deciding" /\ stage' = "deciding" /\ batch = {} /\ todo # {}
      /\ UNCHANGED <<aligned, link, personName, form, attribution, queue, copied, late, candidates,
                     toCreate, index, written, named, given>>
      /\ \E b \in todo : batch' = {b} /\ todo' = todo \ {b}
  BY DEF LoadBatch, tables, overlay, IInv
<1>2. /\ Existing' = Existing
      /\ \A c : Members(c)' = Members(c) /\ PubOfContrib(c)' = PubOfContrib(c)
  BY <1>1, AlignmentUnchanged
<1>3. View' = View /\ AttributionView' = AttributionView /\ FormView' = FormView /\ NameView' = NameView
  BY <1>1 DEF View, AttributionView, FormView, NameView
<1>4. todo' \cup batch' = todo \cup batch
  BY <1>1
<1>5. \A c : ToDecide(c)' = ToDecide(c) /\ Settled(c)' = Settled(c) /\ Gone(c)' = Gone(c)
  BY <1>1, <1>2, <1>3, <1>4 DEF ToDecide, Settled, Gone
<1>6. LinksAreSupported'
  BY <1>1, <1>2 DEF SInv, LinksAreSupported
<1>7. ViewIsSupported'
  BY <1>1, <1>2, <1>3, <1>5 DEF SInv, ViewIsSupported
<1>8. IndexAgrees'
  BY <1>1, <1>2, <1>3, <1>5 DEF SInv, IndexAgrees, HolderAgrees, FreeAgrees
<1>9. Ordered'
  BY <1>1, <1>2, <1>4 DEF SInv, Ordered
<1> QED
  BY <1>1, <1>6, <1>7, <1>8, <1>9 DEF SInv, MarksAreCopied, PinsFirst

(* A free value goes to a person the decisions name, for a contribution    *)
(* that carries it; no other value moves.                                  *)
Freed(v) == AttributionView[v].person = NoPerson \/ AttributionView[v].rejected
Carrying(c, v, decided) ==
    /\ IsMatch(decided[c]) /\ v \notin decided[c].refused
    /\ decided[c].person # AttributionView[v].person /\ Carries(Members(c), v)

(* What a batch attributes is new, and to the person of its decision.      *)
LEMMA AttributedMoves ==
  ASSUME TypeOK, NEW decided, DOMAIN decided \subseteq Nat, given' = Attributed(decided),
         attribution' = attribution, NEW v \in Values
  PROVE  /\ \/ AttributionView'[v] = AttributionView[v]
            \/ /\ Freed(v)
               /\ \E c \in DOMAIN decided : /\ Carrying(c, v, decided)
                                            /\ AttributionView'[v] = To(decided[c].person)
         /\ (Freed(v) /\ \E c \in DOMAIN decided : Carrying(c, v, decided))
               => \E c \in DOMAIN decided : /\ Carrying(c, v, decided)
                                            /\ AttributionView'[v] = To(decided[c].person)
<1> DEFINE carriers(w) ==
               {c \in DOMAIN decided : /\ IsMatch(decided[c])
                                       /\ w \notin decided[c].refused
                                       /\ decided[c].person # AttributionView[w].person
                                       /\ \E s \in Members(c) : ValueOf[s] = w}
           moved == {w \in Values : /\ carriers(w) # {}
                                    /\ \/ AttributionView[w].person = NoPerson
                                       \/ AttributionView[w].rejected}
<1>1. given' = [w \in DOMAIN given \cup moved |->
            IF w \in moved
            THEN [person |-> decided[Smallest(carriers(w))].person, rejected |-> FALSE]
            ELSE given[w]]
  BY DEF Attributed
<1>2. carriers(v) \subseteq Nat /\ carriers(v) = {c \in DOMAIN decided : Carrying(c, v, decided)}
  BY DEF Carrying, Carries
<1>3. v \in moved <=> Freed(v) /\ carriers(v) # {}
  BY DEF Freed
<1> HIDE DEF carriers, moved
<1>4. CASE v \in moved
  <2>1. Smallest(carriers(v)) \in carriers(v)
    BY <1>2, <1>3, <1>4, SmallestIsMember
  <2>2. AttributionView'[v] = To(decided[Smallest(carriers(v))].person)
    BY <1>1, <1>4 DEF AttributionView, To
  <2> QED
    BY <1>2, <1>3, <1>4, <2>1, <2>2
<1>5. CASE v \notin moved
  <2>1. v \in DOMAIN given' <=> v \in DOMAIN given
    BY <1>1, <1>5
  <2>2. v \in DOMAIN given => given'[v] = given[v]
    BY <1>1, <1>5
  <2>3. AttributionView'[v] = AttributionView[v]
    BY <2>1, <2>2 DEF AttributionView
  <2> QED
    BY <1>2, <1>3, <1>5, <2>3
<1> QED
  BY <1>4, <1>5

(* A value that is to its person stays there.                              *)
LEMMA AttributedKeeps ==
  ASSUME TypeOK, NEW decided, DOMAIN decided \subseteq Nat, given' = Attributed(decided),
         attribution' = attribution, NEW v \in Values, NEW p \in Persons,
         AttributionView[v] = To(p)
  PROVE  AttributionView'[v] = To(p)
<1>1. ~ Freed(v)
  BY RejectedArePersons DEF Freed, To
<1> QED
  BY <1>1, AttributedMoves

(* Who the index designates by the value or the name of a member supports  *)
(* the link of the contribution.                                           *)
LEMMA IdentifiedIsSupported ==
  ASSUME IInv, SInv, stage = "deciding", NEW c \in Existing, NEW s \in Members(c),
         NEW p \in Identified(s, index), NameView[p] # NoName,
         batch # {} \/ c \in toCreate
  PROVE  Supported(Members(c), [person |-> p, mode |-> "identifier"], late, AttributionView,
                   FormView, NameView)
<1>1. /\ TypeOK /\ Members(c) \subseteq Sources
      /\ p = Holder(s, index) /\ p # NoPerson
  BY ContributionHasPublication DEF IInv, Identified
<1>2. ValueOf[s] # NoValue /\ ValueOf[s] \in Values /\ p = index.holder[ValueOf[s]]
  BY <1>1, ProfilesAssumption DEF Holder
<1>3. HolderAgrees(ValueOf[s])
  BY <1>1, <1>2 DEF SInv, IndexAgrees
<1>4. CASE p \in late \/ AttributionView[ValueOf[s]] = To(p)
  BY <1>2, <1>4 DEF Supported
<1>5. CASE /\ batch = {}
           /\ \E d, e \in Existing \ toCreate :
                 /\ d # e /\ Carries(Members(d), ValueOf[s]) /\ Carries(Members(e), ValueOf[s])
  <2>1. Carries(Members(c), ValueOf[s]) /\ c \in toCreate
    BY <1>5 DEF Carries
  <2>2. Contested(ValueOf[s])
    BY <1>5, <2>1, ThreeAreContested
  <2> QED
    BY <1>2, <2>2 DEF Supported
<1> QED
  BY <1>2, <1>3, <1>4, <1>5 DEF HolderAgrees, Gone

(* So has one that the index of the phase designates by name.              *)
LEMMA NamedIsSupported ==
  ASSUME IInv, SInv, stage = "deciding", NEW c \in Existing, NEW s \in Members(c),
         NEW p \in NamedBy(s, index), NameView[p] # NoName
  PROVE  Supported(Members(c), [person |-> p, mode |-> "name"], late, AttributionView,
                   FormView, NameView)
<1>1. /\ TypeOK /\ Members(c) \subseteq Sources /\ p \in Persons /\ NameOf[s] \in Names
  <2>1. TypeOK /\ Members(c) \subseteq Sources /\ index \in IndexType
    BY ContributionHasPublication DEF IInv, TypeOK, IndexType
  <2> QED
    BY <2>1, DesignatedArePersons, ProfilesAssumption
<1>2. CASE Active(p, NameOf[s], index.form)
  <2>1. p \in late \/ FormView[p][NameOf[s]] # "rejected"
    BY <1>1, <1>2 DEF Active, SInv, IndexAgrees
  <2> QED
    BY <2>1 DEF Supported
<1>3. CASE p \in CompatiblePersons(NameOf[s], index)
  <2>1. NamesCompatible(NameOf[s], index.name[p])
    BY <1>3 DEF CompatiblePersons, NamesCompatible
  <2>2. index.name[p] = NameView[p]
    BY <1>1 DEF SInv, IndexAgrees, Gone
  <2> QED
    BY <2>1, <2>2 DEF Supported
<1> QED
  BY <1>2, <1>3 DEF NamedBy

(* A batch writes what the index supports, and settles its publication.    *)
LEMMA WriteBatchKeepsSInv ==
  ASSUME IInv, CInv, SInv, WriteBatch
  PROVE  SInv'
<1>1. /\ TypeOK /\ Coherent /\ stage = "deciding" /\ batch # {}
      /\ UNCHANGED <<aligned, link, personName, form, attribution, queue, copied, candidates,
                     todo, index, late>>
  BY WriteBatchMeans DEF IInv
<1>2. PICK b \in batch : /\ b \in Pubs
                         /\ \/ BatchRefused(b)
                            \/ /\ ~ Refused(Decided(b), Released(Decided(b), View))
                               /\ BatchWritten(b)
  BY WriteBatchMeans
<1>3. /\ Existing' = Existing
      /\ \A c : Members(c)' = Members(c) /\ PubOfContrib(c)' = PubOfContrib(c)
  BY <1>1, AlignmentUnchanged
<1>4. LinksAreSupported'
  BY <1>1, <1>3 DEF SInv, LinksAreSupported
<1>5. CASE BatchRefused(b)
  BY <1>1, <1>4, <1>5, OutsideTransaction DEF BatchRefused, SInv, MarksAreCopied
<1>6. CASE ~ Refused(Decided(b), Released(Decided(b), View)) /\ BatchWritten(b)
  <2>1. /\ stage' = "deciding" /\ batch' = {} /\ View' = Rewritten(b) /\ named' = named
        /\ given' = Attributed(Decided(b))
        /\ toCreate' = toCreate \cup {c \in Batch(b) : Decided(b)[c].by = "create"}
    BY <1>1, <1>6 DEF BatchWritten
  <2>2. /\ DOMAIN Decided(b) = Batch(b) /\ Batch(b) \subseteq Existing
        /\ Existing \subseteq Contribs /\ Batch(b) \subseteq Nat
    <3>1. DOMAIN Decided(b) = Batch(b) /\ Batch(b) \subseteq Existing
      BY <1>1, <1>2, DecidedAreApart
    <3> QED
      BY <1>1, <3>1, ContributionHasPublication, SourcesAreNumbers
  <2>3. /\ \A c \in Contribs \ Batch(b) : View'[c] = View[c]
        /\ \A c \in Batch(b) :
              \/ /\ IsMatch(Decided(b)[c])
                 /\ View'[c] = [person |-> Decided(b)[c].person, mode |-> Decided(b)[c].by]
              \/ View'[c].person = NoPerson
    BY <1>1, <1>2, <2>1, RewrittenMeans
  <2>4. NameView' = NameView /\ FormView' = FormView
    BY <1>1, <2>1 DEF NameView, FormView
  <2>5. batch = {b} /\ b \notin todo /\ \A c \in toCreate : PubOfContrib(c) \notin todo \cup batch
    BY <1>1, <1>2 DEF SInv, Ordered
  <2>6. \A c \in Batch(b) : c \in candidates /\ PubOfContrib(c) = b
    BY DEF Batch
  <2>7. /\ \A c : ToDecide(c)' => ToDecide(c)
        /\ \A c \in Contribs \ Batch(b) : ToDecide(c) => ToDecide(c)'
    BY <1>1, <1>3, <2>1, <2>5 DEF ToDecide, Batch
  <2>8. \A c : Settled(c) => Settled(c)'
    BY <2>1, <2>5, <2>6, <2>7 DEF Settled, ToDecide
  <2>9. \A c \in Batch(b) : IsMatch(Decided(b)[c]) => Settled(c)'
    <3> SUFFICES ASSUME NEW c \in Batch(b), IsMatch(Decided(b)[c]) PROVE Settled(c)'
      OBVIOUS
    <3>1. Decided(b)[c].by # "create"
      BY DEF IsMatch
    <3>2. c \notin toCreate'
      BY <1>2, <2>1, <2>5, <2>6, <3>1
    <3> QED
      BY <1>1, <1>3, <2>1, <2>5, <2>6, <3>2 DEF Settled, ToDecide
  <2>10. /\ \A v \in Values, p \in Persons : AttributionView[v] = To(p) => AttributionView'[v] = To(p)
    BY <1>1, <2>1, <2>2, AttributedKeeps
  <2>11. ASSUME NEW c \in Existing \ Batch(b),
                Supported(Members(c), View[c], late, AttributionView, FormView, NameView)
         PROVE  Supported(Members(c), View'[c], late, AttributionView', FormView', NameView')
    <3>1. View'[c] = View[c] /\ View[c].person \in Persons \cup {NoPerson}
      BY <1>1, <2>2, <2>3, ViewsAreTyped DEF Links
    <3>2. \A s \in Members(c) : ValueOf[s] # NoValue => ValueOf[s] \in Values
      BY <1>1, ContributionHasPublication, ProfilesAssumption
    <3> QED
      BY <2>4, <2>10, <2>11, <3>1, <3>2, SupportStays
  <2>12. ASSUME NEW c \in Batch(b)
         PROVE  Supported(Members(c), View'[c], late, AttributionView', FormView', NameView')
    <3>1. CASE View'[c].person = NoPerson
      BY <3>1 DEF Supported
    <3>2. CASE /\ IsMatch(Decided(b)[c])
               /\ View'[c] = [person |-> Decided(b)[c].person, mode |-> Decided(b)[c].by]
      <4>1. PICK p \in Persons : p = Decided(b)[c].person /\ NameView[p] # NoName
        BY <1>1, <1>2, <1>6, <2>2, <3>2, DecidedAreApart DEF Refused
      <4>2. /\ Decided(b)[c].by = "identifier" => \E s \in Members(c) : p \in Identified(s, index)
            /\ Decided(b)[c].by = "name" => \E s \in Members(c) : p \in NamedBy(s, index)
        BY <1>1, <1>2, <4>1, DecidedAreApart
      <4>3. /\ c \in Existing /\ View'[c].person = p /\ View'[c].mode = Decided(b)[c].by
            /\ View'[c] = [person |-> p, mode |-> Decided(b)[c].by]
            /\ Decided(b)[c].by \in {"manual", "identifier", "name"}
        BY <2>2, <3>2, <4>1 DEF IsMatch
      <4>4. CASE Decided(b)[c].by = "manual"
        BY <4>3, <4>4 DEF Supported
      <4>5. CASE Decided(b)[c].by \in {"identifier", "name"}
        <5>1. Supported(Members(c), View'[c], late, AttributionView, FormView, NameView)
          BY <1>1, <4>1, <4>2, <4>3, <4>5, IdentifiedIsSupported, NamedIsSupported
        <5>2. \A s \in Members(c) : ValueOf[s] # NoValue => ValueOf[s] \in Values
          BY <1>1, <4>3, ContributionHasPublication, ProfilesAssumption
        <5> QED
          BY <2>4, <2>10, <4>1, <4>3, <5>1, <5>2, SupportStays
      <4> QED
        BY <4>3, <4>4, <4>5
    <3> QED
      BY <2>3, <3>1, <3>2
  <2>13. ViewIsSupported'
    <3> SUFFICES ASSUME NEW c \in Existing \ (queue \ copied)
                 PROVE  \/ c \in copied /\ ToDecide(c)'
                        \/ Supported(Members(c), View'[c], late, AttributionView', FormView', NameView')
      BY <1>1, <1>3 DEF ViewIsSupported
    <3>1. CASE c \in Batch(b)
      BY <2>12, <3>1
    <3>2. CASE c \notin Batch(b)
      <4>1. \/ c \in copied /\ ToDecide(c)
            \/ Supported(Members(c), View[c], late, AttributionView, FormView, NameView)
        BY <1>1 DEF SInv, ViewIsSupported
      <4> QED
        BY <2>2, <2>7, <2>11, <3>2, <4>1
    <3> QED
      BY <3>1, <3>2
  <2>14. IndexAgrees'
    <3>1. \A p : Gone(p)' = Gone(p)
      BY <1>1, <2>4 DEF Gone
    <3>2. ASSUME NEW v \in Values, index.holder[v] # NoPerson PROVE HolderAgrees(v)'
      <4>1. index.holder[v] \in Persons /\ HolderAgrees(v)
        BY <1>1, <3>2 DEF SInv, IndexAgrees, TypeOK
      <4> QED
        BY <1>1, <2>5, <2>10, <3>1, <4>1 DEF HolderAgrees
    <3>3. ASSUME NEW v \in Values, index.holder[v] = NoPerson PROVE FreeAgrees(v)'
      <4>1. FreeAgrees(v)
        BY <1>1, <3>3 DEF SInv, IndexAgrees
      <4>2. CASE AttributionView'[v] = AttributionView[v]
        BY <1>3, <2>8, <4>1, <4>2 DEF FreeAgrees
      <4>3. CASE \E c \in Batch(b) : Carrying(c, v, Decided(b))
        BY <1>3, <2>2, <2>9, <4>3 DEF FreeAgrees, Carrying
      <4> QED
        BY <1>1, <2>1, <2>2, <4>2, <4>3, AttributedMoves
    <3> QED
      BY <1>1, <2>1, <2>4, <3>1, <3>2, <3>3 DEF SInv, IndexAgrees
  <2>15. Ordered'
    BY <1>1, <1>3, <2>1, <2>5, <2>6 DEF SInv, Ordered
  <2> QED
    BY <1>1, <1>4, <2>1, <2>13, <2>14, <2>15 DEF SInv, MarksAreCopied, PinsFirst
<1> QED
  BY <1>2, <1>5, <1>6

(* A creation joins a person the index supports, or founds one whose forms *)
(* nobody rejected; a value it enters in the index without attributing it  *)
(* is carried by another contribution, decided before.                     *)
LEMMA CreateNextKeepsSInv ==
  ASSUME IInv, CInv, SInv, CreateNext
  PROVE  SInv'
<1>1. /\ TypeOK /\ Coherent /\ SupportsExist /\ stage = "deciding" /\ stage' = "deciding"
      /\ todo = {} /\ batch = {} /\ todo' = {} /\ batch' = {}
      /\ UNCHANGED <<aligned, link, personName, form, attribution, queue, copied, candidates, late>>
  BY CreateNextMeans DEF IInv, CInv
<1>2. PICK c \in toCreate :
         /\ c \in Existing /\ toCreate' = toCreate \ {c}
         /\ \/ Leaves
            \/ \E p, decided : /\ Attaches(c, p, decided)
                               /\ p \in Created /\ UNCHANGED <<named, index>>
            \/ \E p, decided, n, refused :
                  /\ Attaches(c, p, decided) /\ decided[c] = Decision(p, "name", refused)
                  /\ Founds(c, p, n, refused)
  BY CreateNextMeans
<1>3. /\ Existing' = Existing /\ Existing \subseteq Contribs /\ Contribs \subseteq Nat
      /\ \A d : Members(d)' = Members(d) /\ PubOfContrib(d)' = PubOfContrib(d)
  BY <1>1, AlignmentUnchanged, ContributionHasPublication, SourcesAreNumbers
<1>4. /\ \A d : ~ ToDecide(d) /\ ~ ToDecide(d)'
      /\ \A d : Settled(d) => Settled(d)'
      /\ Settled(c)' /\ c \notin toCreate'
  BY <1>1, <1>2 DEF ToDecide, Settled
<1>5. /\ LinksAreSupported' /\ MarksAreCopied' /\ PinsFirst'
  BY <1>1, <1>3 DEF SInv, LinksAreSupported, MarksAreCopied, PinsFirst
<1>6. Ordered'
  BY <1>1, <1>2 DEF Ordered
<1>7. \A d \in Existing \ (queue \ copied) :
         Supported(Members(d), View[d], late, AttributionView, FormView, NameView)
  BY <1>1, <1>4 DEF SInv, ViewIsSupported
<1>8. \A d \in Existing : \A s \in Members(d) :
         /\ NameOf[s] \in Names /\ s \in Sources
         /\ ValueOf[s] # NoValue => ValueOf[s] \in Values
  BY <1>1, ContributionHasPublication, ProfilesAssumption
<1>9. View \in [Contribs -> Links] /\ AttributionView \in [Values -> Attributions]
  BY <1>1, ViewsAreTyped
<1>10. SUFFICES ViewIsSupported' /\ IndexAgrees'
  BY <1>5, <1>6 DEF SInv
<1>11. CASE Leaves
  <2>1. View' = View /\ UNCHANGED <<given, named, index>>
    BY <1>11 DEF Leaves
  <2>2. AttributionView' = AttributionView /\ FormView' = FormView /\ NameView' = NameView
    BY <1>1, <2>1 DEF AttributionView, FormView, NameView
  <2>3. \A p : Gone(p)' = Gone(p)
    BY <2>1, <2>2 DEF Gone
  <2>4. ViewIsSupported'
    BY <1>1, <1>3, <1>7, <2>1, <2>2 DEF ViewIsSupported
  <2>5. ASSUME NEW v \in Values
        PROVE  (HolderAgrees(v) => HolderAgrees(v)') /\ (FreeAgrees(v) => FreeAgrees(v)')
    BY <1>1, <1>2, <1>3, <1>4, <2>1, <2>2, <2>3 DEF HolderAgrees, FreeAgrees
  <2>6. IndexAgrees'
    BY <1>1, <2>1, <2>2, <2>3, <2>5 DEF SInv, IndexAgrees
  <2> QED
    BY <2>4, <2>6
<1> DEFINE Attached(p, decided) ==
               /\ p \in Persons /\ given' = Attributed(decided) /\ DOMAIN decided = {c}
               /\ DOMAIN decided \subseteq Nat /\ decided[c].person = p /\ IsMatch(decided[c])
               /\ View'[c] = [person |-> p, mode |-> decided[c].by]
               /\ \A d \in Existing \ {c} : View'[d] = View[d]
               /\ \A v \in Values, q \in Persons :
                     AttributionView[v] = To(q) => AttributionView'[v] = To(q)
<1>12. ASSUME NEW p, NEW decided, Attaches(c, p, decided)
       PROVE  Attached(p, decided)
  <2>1. /\ p \in Persons /\ given' = Attributed(decided) /\ DOMAIN decided = {c}
        /\ decided[c].person = p /\ IsMatch(decided[c])
        /\ View' = [View EXCEPT ![c] = [person |-> p, mode |-> decided[c].by]]
    BY <1>12 DEF Attaches
  <2>2. DOMAIN decided \subseteq Nat
    BY <1>2, <1>3, <2>1
  <2> QED
    BY <1>1, <1>2, <1>3, <1>9, <2>1, <2>2, AttributedKeeps
<1> HIDE DEF Attached
<1>13. ASSUME NEW p, NEW decided, Attaches(c, p, decided), NEW v \in Values, FreeAgrees(v)
       PROVE  FreeAgrees(v)'
  <2>0. given' = Attributed(decided) /\ DOMAIN decided = {c} /\ DOMAIN decided \subseteq Nat
    BY <1>12, <1>13 DEF Attached
  <2>1. CASE AttributionView'[v] = AttributionView[v]
    BY <1>3, <1>4, <1>13, <2>1 DEF FreeAgrees
  <2>2. CASE Carrying(c, v, decided)
    BY <1>2, <1>3, <1>4, <2>2 DEF FreeAgrees, Carrying
  <2> QED
    BY <1>1, <2>0, <2>1, <2>2, AttributedMoves
<1>14. ASSUME NEW p, NEW decided, Attaches(c, p, decided), p \in Created, UNCHANGED <<named, index>>
       PROVE  ViewIsSupported' /\ IndexAgrees'
  <2>0. /\ p \in Persons /\ given' = Attributed(decided) /\ DOMAIN decided = {c}
        /\ DOMAIN decided \subseteq Nat /\ decided[c].person = p /\ IsMatch(decided[c])
        /\ View'[c] = [person |-> p, mode |-> decided[c].by]
        /\ \A d \in Existing \ {c} : View'[d] = View[d]
        /\ \A v \in Values, q \in Persons :
              AttributionView[v] = To(q) => AttributionView'[v] = To(q)
    BY <1>12, <1>14 DEF Attached
  <2>1. FormView' = FormView /\ NameView' = NameView /\ p \in Persons
    BY <1>1, <2>0, <1>14 DEF FormView, NameView
  <2>2. NameView[p] # NoName /\ personName[p] = NoName
    BY <1>1, <1>14, <2>1, NamesInView
  <2>3. \A n \in Names : FormView[p][n] # "rejected"
    BY <1>1, <2>1, <2>2 DEF FormView, SupportsExist
  <2>4. Supported(Members(c), View'[c], late, AttributionView, FormView, NameView)
    <3>1. View'[c] = [person |-> p, mode |-> decided[c].by] /\ IsMatch(decided[c])
      BY <2>0, <1>14
    <3>2. CASE decided[c].by = "manual"
      BY <3>1, <3>2 DEF Supported
    <3>3. CASE decided[c].by = "identifier"
      <4>1. PICK s \in Members(c) : p \in Identified(s, index)
        BY <1>14, <3>3 DEF Attaches
      <4> QED
        BY <1>1, <1>2, <2>2, <3>1, <3>3, <4>1, IdentifiedIsSupported
    <3>4. CASE decided[c].by = "name"
      <4>1. PICK s \in Members(c) : NameOf[s] \in Names
        BY <1>1, <1>2, <1>8, ContributionHasPublication
      <4>2. FormView[p][NameOf[s]] # "rejected"
        BY <2>3, <4>1
      <4> QED
        BY <3>1, <3>4, <4>1, <4>2 DEF Supported
    <3> QED
      BY <3>1, <3>2, <3>3, <3>4 DEF IsMatch
  <2>5. ViewIsSupported'
    <3> SUFFICES ASSUME NEW d \in Existing \ (queue \ copied)
                 PROVE  Supported(Members(d), View'[d], late, AttributionView', FormView', NameView')
      BY <1>1, <1>3 DEF ViewIsSupported
    <3>1. Supported(Members(d), View'[d], late, AttributionView, FormView, NameView)
      BY <1>7, <2>0, <1>14, <2>4
    <3>2. View'[d].person \in Persons \cup {NoPerson}
      BY <1>3, <1>9, <2>0, <1>14 DEF Links
    <3> QED
      BY <1>8, <2>0, <1>14, <2>1, <3>1, <3>2, SupportStays
  <2>6. \A q : Gone(q)' = Gone(q)
    BY <1>14, <2>1 DEF Gone
  <2>7. ASSUME NEW v \in Values, index.holder[v] # NoPerson, HolderAgrees(v) PROVE HolderAgrees(v)'
    <3>1. index.holder[v] \in Persons
      BY <1>1, <2>7 DEF TypeOK
    <3> QED
      BY <1>1, <1>2, <1>3, <2>0, <1>14, <2>6, <2>7, <3>1 DEF HolderAgrees
  <2>8. IndexAgrees'
    BY <1>1, <1>13, <1>14, <2>1, <2>6, <2>7 DEF SInv, IndexAgrees
  <2> QED
    BY <2>5, <2>8
<1>15. ASSUME NEW p, NEW decided, NEW n, NEW refused,
              Attaches(c, p, decided), decided[c] = Decision(p, "name", refused),
              Founds(c, p, n, refused)
       PROVE  ViewIsSupported' /\ IndexAgrees'
  <2>0. /\ p \in Persons /\ given' = Attributed(decided) /\ DOMAIN decided = {c}
        /\ DOMAIN decided \subseteq Nat /\ decided[c].person = p /\ IsMatch(decided[c])
        /\ View'[c] = [person |-> p, mode |-> decided[c].by]
        /\ \A d \in Existing \ {c} : View'[d] = View[d]
        /\ \A v \in Values, q \in Persons :
              AttributionView[v] = To(q) => AttributionView'[v] = To(q)
    BY <1>12, <1>15 DEF Attached
  <2>1. /\ n \in Names /\ p \in Persons /\ NameView[p] = NoName /\ index.name[p] = NoName
        /\ named' = [q \in DOMAIN named \cup {p} |-> IF q = p THEN n ELSE named[q]]
        /\ index' = Registered(p, n, Members(c), refused)
    BY <1>15 DEF Founds
  <2>2. personName[p] = NoName
    BY <1>1, <2>1, NamesInView
  <2>3. \A q \in Persons : NameView'[q] = IF q = p THEN n ELSE NameView[q]
    BY <1>1, <2>1 DEF NameView
  <2>4. /\ \A q \in Persons \ {p}, k \in Names : FormView'[q][k] = FormView[q][k]
        /\ \A k \in Names : FormView'[p][k] # "rejected"
    BY <1>1, <2>1, <2>2 DEF FormView, SupportsExist
  <2>5. /\ \A q \in Persons \ {p} : index'.name[q] = index.name[q] /\ index'.form[q] = index.form[q]
        /\ index'.name[p] = n
        /\ \A v \in Values : index'.holder[v] =
              IF index.holder[v] = NoPerson /\ v \notin refused /\ Carries(Members(c), v)
              THEN p ELSE index.holder[v]
    BY <1>1, <2>1 DEF Registered, TypeOK, Carries
  <2>6. View'[c].person = p /\ View'[c].mode = "name"
    BY <2>0, <1>15 DEF Decision
  <2>7. ViewIsSupported'
    <3> SUFFICES ASSUME NEW d \in Existing \ (queue \ copied)
                 PROVE  Supported(Members(d), View'[d], late, AttributionView', FormView', NameView')
      BY <1>1, <1>3 DEF ViewIsSupported
    <3>1. CASE d = c
      <4>1. PICK s \in Members(c) : NameOf[s] \in Names
        BY <1>1, <1>2, <1>8, ContributionHasPublication
      <4>2. FormView'[p][NameOf[s]] # "rejected"
        BY <2>4, <4>1
      <4> QED
        BY <2>6, <3>1, <4>1, <4>2 DEF Supported
    <3>2. CASE d # c
      <4>1. /\ View'[d] = View[d] /\ View[d].person \in Persons \cup {NoPerson}
            /\ Supported(Members(d), View[d], late, AttributionView, FormView, NameView)
        BY <1>3, <1>7, <1>9, <2>0, <1>15, <3>2 DEF Links
      <4>2. View[d].person # NoPerson => View[d].person # p
        BY <1>1, <2>1, ViewedExist
      <4> QED
        BY <1>8, <2>0, <1>15, <2>3, <2>4, <4>1, <4>2, SupportStays
    <3> QED
      BY <3>1, <3>2
  <2>8. \A q \in Persons \ {p} : Gone(q)' = Gone(q)
    BY <2>3, <2>5 DEF Gone
  <2>9. ~ Gone(p)
    BY <2>1 DEF Gone
  <2>10. ASSUME NEW v \in Values, index'.holder[v] = p, index.holder[v] = NoPerson PROVE HolderAgrees(v)'
    <3>1. v \notin refused /\ Carries(Members(c), v) /\ FreeAgrees(v) /\ p # NoPerson
      BY <1>1, <2>1, <2>5, <2>10, RejectedArePersons DEF SInv, IndexAgrees
    <3>2. AttributionView[v].person # p
      BY <1>1, <2>1, <3>1, SupportsInView
    <3>3. Carrying(c, v, decided)
      BY <2>0, <1>15, <3>1, <3>2 DEF Carrying, Decision
    <3>4. CASE Freed(v)
      <4>1. AttributionView'[v] = To(p)
        BY <1>1, <2>0, <1>15, <3>3, <3>4, AttributedMoves
      <4> QED
        BY <2>10, <4>1 DEF HolderAgrees
    <3>5. CASE ~ Freed(v)
      <4>1. PICK e \in Existing : Settled(e) /\ Carries(Members(e), v)
        BY <3>1, <3>5 DEF FreeAgrees, Freed
      <4>2. e # c /\ e \notin toCreate'
        BY <1>2, <1>4, <4>1 DEF Settled
      <4> QED
        BY <1>1, <1>2, <1>3, <1>4, <3>1, <4>1, <4>2 DEF HolderAgrees
    <3> QED
      BY <3>4, <3>5
  <2>11. ASSUME NEW v \in Values, index'.holder[v] = index.holder[v], index.holder[v] # NoPerson
         PROVE  HolderAgrees(v)'
    <3>1. PICK q \in Persons : q = index.holder[v] /\ HolderAgrees(v)
      BY <1>1, <2>11 DEF TypeOK, SInv, IndexAgrees
    <3>2. Gone(q) => Gone(q)'
      BY <2>8, <2>9
    <3>3. CASE q \in late \/ Gone(q)
      BY <1>1, <2>11, <3>1, <3>2, <3>3 DEF HolderAgrees
    <3>4. CASE AttributionView[v] = To(q)
      BY <2>0, <1>15, <2>11, <3>1, <3>4 DEF HolderAgrees
    <3>5. CASE \E d, e \in Existing \ toCreate :
                  d # e /\ Carries(Members(d), v) /\ Carries(Members(e), v)
      BY <1>1, <1>2, <1>3, <3>5 DEF HolderAgrees
    <3> QED
      BY <3>1, <3>3, <3>4, <3>5 DEF HolderAgrees
  <2>12. ASSUME NEW v \in Values
         PROVE  IF index'.holder[v] # NoPerson THEN HolderAgrees(v)' ELSE FreeAgrees(v)'
    <3>1. CASE index.holder[v] # NoPerson
      <4>1. index'.holder[v] = index.holder[v] /\ index'.holder[v] # NoPerson
        BY <2>5, <3>1
      <4>2. HolderAgrees(v)'
        BY <2>11, <3>1, <4>1
      <4> QED
        BY <4>1, <4>2
    <3>2. CASE index.holder[v] = NoPerson /\ index'.holder[v] = p
      <4>1. index'.holder[v] # NoPerson
        BY <1>1, <2>1, <3>2, RejectedArePersons
      <4>2. HolderAgrees(v)'
        BY <2>10, <3>2
      <4> QED
        BY <4>1, <4>2
    <3>3. CASE index.holder[v] = NoPerson /\ index'.holder[v] = NoPerson
      BY <1>1, <1>13, <1>15, <3>3 DEF SInv, IndexAgrees
    <3> QED
      BY <2>5, <3>1, <3>2, <3>3
  <2>13. ASSUME NEW q \in Persons PROVE index'.name[q] = NameView'[q] \/ Gone(q)'
    BY <1>1, <2>3, <2>5, <2>8 DEF SInv, IndexAgrees
  <2>14. ASSUME NEW q \in Persons, NEW k \in Names, index'.form[q][k] # "rejected"
         PROVE  q \in late \/ FormView'[q][k] # "rejected"
    <3>1. CASE q = p
      BY <2>4, <3>1
    <3>2. CASE q # p
      BY <1>1, <2>4, <2>5, <2>14, <3>2 DEF SInv, IndexAgrees
    <3> QED
      BY <3>1, <3>2
  <2>15. IndexAgrees'
    BY <1>1, <2>12, <2>13, <2>14 DEF IndexAgrees
  <2> QED
    BY <2>7, <2>15
<1> QED
  BY <1>2, <1>11, <1>14, <1>15

(* What the phase reads becomes the tables, when nothing is left to decide. *)
LEMMA CommitKeepsSInv ==
  ASSUME IInv, SInv, Commit
  PROVE  SInv'
<1>1. /\ stage = "deciding" /\ todo = {} /\ batch = {} /\ stage' = "resolved" /\ copied' = {}
      /\ link' = View /\ personName' = NameView /\ form' = FormView
      /\ attribution' = AttributionView /\ queue' = queue \ copied
      /\ UNCHANGED <<aligned, late>>
  BY DEF Commit, TransactionEnds
<1>2. Existing' = Existing /\ \A c : Members(c)' = Members(c)
  BY <1>1, AlignmentUnchanged
<1>3. LinksAreSupported'
  BY <1>1, <1>2 DEF SInv, ViewIsSupported, ToDecide, LinksAreSupported
<1> QED
  BY <1>1, <1>3, OutsideTransaction DEF MarksAreCopied

(* What was written is forgotten, the marks are still there.               *)
LEMMA AbortKeepsSInv ==
  ASSUME IInv, SInv, Abort
  PROVE  SInv'
<1>1. /\ stage' = "idle" /\ copied' = {}
      /\ UNCHANGED <<aligned, link, personName, form, attribution, queue, late>>
  BY DEF Abort, TransactionEnds, tables
<1>2. Existing' = Existing /\ \A c : Members(c)' = Members(c)
  BY <1>1, AlignmentUnchanged
<1>3. LinksAreSupported'
  BY <1>1, <1>2 DEF SInv, LinksAreSupported
<1> QED
  BY <1>1, <1>3, OutsideTransaction DEF MarksAreCopied

(* The members of a contribution have names, and values or none.           *)
LEMMA MembersAreProfiled ==
  ASSUME IInv, NEW c \in Existing, NEW s \in Members(c)
  PROVE  /\ c \in Contribs /\ s \in Sources /\ aligned[s] = c /\ NameOf[s] \in Names
         /\ ValueOf[s] # NoValue => ValueOf[s] \in Values
         /\ link[c].person \in Persons \cup {NoPerson}
<1>1. TypeOK /\ c \in Contribs /\ s \in Sources /\ aligned[s] = c
  BY ContributionHasPublication DEF IInv, Members
<1> QED
  BY <1>1, ProfilesAssumption DEF TypeOK, Links

(* No form is rejected by its refreshing.                                  *)
LEMMA PopulateKeepsSInv ==
  ASSUME IInv, SInv, Populate
  PROVE  SInv'
<1>1. /\ stage = "resolved" /\ stage' = "populated"
      /\ UNCHANGED <<aligned, link, personName, attribution, queue, copied, late>>
      /\ form' = [p \in Persons |-> [n \in Names |-> Synced(p, n)]]
  BY DEF Populate
<1>2. Existing' = Existing /\ \A c : Members(c)' = Members(c)
  BY <1>1, AlignmentUnchanged
<1>3. ASSUME NEW p \in Persons, NEW n \in Names, form[p][n] # "rejected"
      PROVE  form'[p][n] # "rejected"
  BY <1>1, <1>3 DEF Synced
<1>4. ASSUME NEW c \in Existing \ queue
      PROVE  Supported(Members(c), link[c], late, attribution, form', personName)
  <2>1. Supported(Members(c), link[c], late, attribution, form, personName)
    BY DEF SInv, LinksAreSupported
  <2>2. \A s \in Members(c) : NameOf[s] \in Names /\ link[c].person \in Persons \cup {NoPerson}
    BY MembersAreProfiled
  <2> QED
    BY <1>3, <2>1, <2>2, SupportStays
<1>5. LinksAreSupported'
  BY <1>1, <1>2, <1>4 DEF LinksAreSupported
<1> QED
  BY <1>1, <1>5, OutsideTransaction DEF SInv, MarksAreCopied

(* The purge takes the values nobody carries, and the persons nobody has.  *)
LEMMA PurgeKeepsSInv ==
  ASSUME IInv, SInv, Purge
  PROVE  SInv'
<1>1. /\ stage = "populated" /\ stage' = "idle" /\ queue \subseteq queue' /\ TypeOK
      /\ UNCHANGED <<aligned, copied, late>>
  BY DEF Purge, IInv
<1>2. PICK deleted \in SUBSET Persons :
         /\ attribution' = [v \in Values |->
              IF Unsupported(v) \/ attribution[v].person \in deleted
              THEN Unattributed ELSE attribution[v]]
         /\ personName' = [p \in Persons |-> IF p \in deleted THEN NoName ELSE personName[p]]
         /\ form' = [p \in Persons |-> IF p \in deleted THEN NoForms ELSE form[p]]
         /\ link' = [c \in Contribs |-> IF link[c].person \in deleted THEN Unlinked ELSE link[c]]
  BY DEF Purge
<1>3. Existing' = Existing /\ \A c : Members(c)' = Members(c)
  BY <1>1, AlignmentUnchanged
<1>4. ASSUME NEW c \in Existing \ queue
      PROVE  Supported(Members(c), link'[c], late, attribution', form', personName')
  <2>1. c \in Contribs /\ link[c].person \in Persons \cup {NoPerson}
    BY <1>1, ContributionHasPublication DEF IInv, TypeOK, Links
  <2>2. CASE link[c].person \in deleted \cup {NoPerson}
    <3>1. link'[c].person = NoPerson
      BY <1>2, <2>1, <2>2 DEF Unlinked
    <3> QED
      BY <3>1 DEF Supported
  <2>3. CASE link[c].person \notin deleted \cup {NoPerson}
    <3>1. PICK p \in Persons : p = link[c].person /\ p \notin deleted /\ link'[c] = link[c]
      BY <1>2, <2>1, <2>3
    <3>2. form'[p] = form[p] /\ personName'[p] = personName[p]
      BY <1>2, <3>1
    <3>3. ASSUME NEW s \in Members(c), ValueOf[s] # NoValue, attribution[ValueOf[s]] = To(p)
          PROVE  attribution'[ValueOf[s]] = To(p)
      <4>1. s \in Sources /\ ValueOf[s] \in Values /\ link[aligned[s]].person = p
        BY <3>1, <3>3, MembersAreProfiled
      <4>2. attribution[ValueOf[s]].person = p
        BY <3>3 DEF To
      <4>3. ~ Unsupported(ValueOf[s])
        BY <4>1, <4>2 DEF Unsupported
      <4> QED
        BY <1>2, <3>1, <3>3, <4>1, <4>2, <4>3
    <3>4. Supported(Members(c), link[c], late, attribution, form, personName)
      BY DEF SInv, LinksAreSupported
    <3> QED
      BY <3>1, <3>2, <3>3, <3>4, SupportStays
  <2> QED
    BY <2>2, <2>3
<1>5. LinksAreSupported'
  BY <1>1, <1>3, <1>4 DEF LinksAreSupported
<1> QED
  BY <1>1, <1>5, OutsideTransaction DEF SInv, MarksAreCopied

------------------------------------------------------------------------------
(* ... through the requests                                                *)

(* The rows cs a request marks are decided again; the others keep their    *)
(* support, and the index what agrees with it.                             *)
LEMMA RequestKeepsSInv ==
  ASSUME IInv, SInv, NEW missed \in SUBSET Persons, Request(missed), NEW cs,
         queue' = queue \cup cs, copied' = copied \ cs,
         \A c \in Existing \ cs :
            Supported(Members(c), link[c], late, attribution, form, personName)
            => Supported(Members(c), link'[c], late', attribution', form', personName'),
         stage \in {"pinned", "deciding"} => \A c \in Existing \ cs :
            Supported(Members(c), View[c], late, AttributionView, FormView, NameView)
            => Supported(Members(c), View'[c], late', AttributionView', FormView', NameView'),
         IndexAgrees'
  PROVE  SInv'
<1>1. UNCHANGED <<aligned, stage, candidates, todo, batch, toCreate, written, given>>
  BY RequestMeans
<1>2. /\ Existing' = Existing
      /\ \A c : Members(c)' = Members(c) /\ PubOfContrib(c)' = PubOfContrib(c)
  BY <1>1, AlignmentUnchanged
<1>3. \A c : ToDecide(c)' = ToDecide(c)
  BY <1>1, <1>2 DEF ToDecide
<1>4. LinksAreSupported'
  BY <1>2 DEF SInv, LinksAreSupported
<1>5. ViewIsSupported'
  <2> SUFFICES ASSUME stage \in {"pinned", "deciding"}, NEW c \in Existing \ (queue' \ copied')
               PROVE  \/ c \in copied' /\ ToDecide(c)
                      \/ Supported(Members(c), View'[c], late', AttributionView', FormView', NameView')
    BY <1>1, <1>2, <1>3 DEF ViewIsSupported
  <2>1. c \notin cs /\ c \notin queue \ copied /\ (c \in copied => c \in copied')
    OBVIOUS
  <2>2. \/ c \in copied /\ ToDecide(c)
        \/ Supported(Members(c), View[c], late, AttributionView, FormView, NameView)
    BY <2>1 DEF SInv, ViewIsSupported
  <2> QED
    BY <2>1, <2>2
<1>6. MarksAreCopied' /\ PinsFirst' /\ Ordered'
  BY <1>1, <1>2 DEF SInv, MarksAreCopied, PinsFirst, Ordered
<1> QED
  BY <1>4, <1>5, <1>6 DEF SInv

(* A request that assigns or takes persons away.                           *)
LEMMA LinksChangeKeepsSInv ==
  ASSUME IInv, SInv, NEW missed \in SUBSET Persons, Request(missed),
         UNCHANGED <<personName, attribution, queue, copied>>,
         \A c \in Existing :
            \/ link'[c] = link[c]
            \/ /\ link'[c].person = NoPerson \/ link'[c].mode = "manual"
               /\ c \notin DOMAIN written,
         \A p \in Persons, n \in Names : form[p][n] # "rejected" => form'[p][n] # "rejected"
  PROVE  SInv'
<1>1. /\ UNCHANGED <<aligned, stage, candidates, todo, batch, toCreate, index, written, named, given>>
      /\ late \subseteq late' /\ TypeOK
  BY RequestMeans DEF IInv
<1>2. /\ Existing' = Existing /\ Existing \subseteq Contribs
      /\ \A c : Members(c)' = Members(c) /\ PubOfContrib(c)' = PubOfContrib(c)
  BY <1>1, AlignmentUnchanged, ContributionHasPublication DEF IInv
<1>3. AttributionView' = AttributionView /\ NameView' = NameView
  BY <1>1 DEF AttributionView, NameView
<1>4. ASSUME NEW p \in Persons, NEW n \in Names, FormView[p][n] # "rejected"
      PROVE  FormView'[p][n] # "rejected"
  BY <1>1, <1>4 DEF FormView
<1>5. ASSUME NEW c \in Existing
      PROVE  View'[c] = View[c] \/ View'[c].person = NoPerson \/ View'[c].mode = "manual"
  BY <1>1, <1>2 DEF View
<1>6. ASSUME NEW c \in Existing,
             Supported(Members(c), link[c], late, attribution, form, personName)
      PROVE  Supported(Members(c), link'[c], late', attribution', form', personName')
  <2>1. CASE link'[c] = link[c]
    <3>1. \A s \in Members(c) : NameOf[s] \in Names /\ link[c].person \in Persons \cup {NoPerson}
      BY MembersAreProfiled
    <3> QED
      BY <1>1, <1>6, <2>1, <3>1, SupportStays
  <2>2. CASE link'[c].person = NoPerson \/ link'[c].mode = "manual"
    BY <2>2 DEF Supported
  <2> QED
    BY <2>1, <2>2
<1>7. ASSUME NEW c \in Existing,
             Supported(Members(c), View[c], late, AttributionView, FormView, NameView)
      PROVE  Supported(Members(c), View'[c], late', AttributionView', FormView', NameView')
  <2>1. CASE View'[c] = View[c]
    <3>1. \A s \in Members(c) : NameOf[s] \in Names
      BY MembersAreProfiled
    <3>2. View[c].person \in Persons \cup {NoPerson}
      BY <1>1, <1>2, ViewsAreTyped DEF Links
    <3> QED
      BY <1>1, <1>3, <1>4, <1>7, <2>1, <3>1, <3>2, SupportStays
  <2>2. CASE View'[c].person = NoPerson \/ View'[c].mode = "manual"
    BY <2>2 DEF Supported
  <2> QED
    BY <1>5, <2>1, <2>2
<1>8. IndexAgrees'
  <2>1. \A p : Gone(p)' = Gone(p)
    BY <1>1, <1>3 DEF Gone
  <2>2. \A c : Settled(c)' = Settled(c)
    BY <1>1, <1>2 DEF Settled, ToDecide
  <2>3. ASSUME NEW v \in Values
        PROVE  (HolderAgrees(v) => HolderAgrees(v)') /\ (FreeAgrees(v) => FreeAgrees(v)')
    BY <1>1, <1>2, <1>3, <2>1, <2>2 DEF HolderAgrees, FreeAgrees
  <2>4. ASSUME stage = "deciding", NEW p \in Persons, NEW n \in Names, index.form[p][n] # "rejected"
        PROVE  p \in late' \/ FormView'[p][n] # "rejected"
    BY <1>1, <1>4, <2>4 DEF SInv, IndexAgrees
  <2> QED
    BY <1>1, <1>3, <2>1, <2>3, <2>4 DEF SInv, IndexAgrees
<1>9. queue' = queue \cup {} /\ copied' = copied \ {}
  OBVIOUS
<1> QED
  BY <1>6, <1>7, <1>8, <1>9, RequestKeepsSInv

(* An assignment is a decision of the administration.                      *)
LEMMA AssignKeepsSInv ==
  ASSUME IInv, SInv, NEW c \in Contribs, NEW p \in Persons, Assign(c, p)
  PROVE  SInv'
<1>1. /\ TypeOK /\ Existing \subseteq Contribs
      /\ Request({}) /\ UNCHANGED <<personName, attribution, queue, copied>>
      /\ form' = [form EXCEPT ![p] = [n \in Names |->
              IF @[n] = "none" /\ \E s \in Members(c) : NameOf[s] = n THEN "pending" ELSE @[n]]]
  BY ContributionHasPublication DEF Assign, IInv
<1>2. PICK owners :
         /\ link' = [d \in Contribs |-> IF d = c THEN [person |-> p, mode |-> "manual"]
                                        ELSE IF d \in owners THEN Unlinked ELSE link[d]]
         /\ (owners \cup {c}) \cap DOMAIN written = {}
  BY DEF Assign, Unlocked
<1>3. ASSUME NEW d \in Existing
      PROVE  \/ link'[d] = link[d]
             \/ /\ link'[d].person = NoPerson \/ link'[d].mode = "manual"
                /\ d \notin DOMAIN written
  BY <1>1, <1>2 DEF Unlinked
<1>4. ASSUME NEW q \in Persons, NEW n \in Names, form[q][n] # "rejected"
      PROVE  form'[q][n] # "rejected"
  BY <1>1, <1>4 DEF TypeOK
<1>5. {} \in SUBSET Persons
  OBVIOUS
<1> QED
  BY <1>1, <1>3, <1>4, <1>5, LinksChangeKeepsSInv

(* A rejection of a pair detaches, and does no more.                       *)
LEMMA RejectPairKeepsSInv ==
  ASSUME IInv, SInv, NEW c \in Contribs, RejectPair(c)
  PROVE  SInv'
<1>1. /\ TypeOK /\ Existing \subseteq Contribs /\ link[c].person \in Persons
      /\ Request(Late(link[c].person)) /\ UNCHANGED <<personName, attribution, queue, copied>>
  BY ContributionHasPublication DEF RejectPair, IInv, TypeOK, Links
<1>2. PICK kept : form' = [form EXCEPT ![link[c].person] = [n \in Names |->
              IF @[n] = "pending" /\ n \notin kept THEN "none" ELSE @[n]]]
  BY DEF RejectPair
<1>3. PICK pairs : /\ link' = Detached(link[c].person, pairs, link)
                   /\ {d \in Contribs : link'[d] # link[d]} \cap DOMAIN written = {}
  BY DEF RejectPair, Unlocked
<1>4. ASSUME NEW d \in Existing
      PROVE  \/ link'[d] = link[d]
             \/ /\ link'[d].person = NoPerson \/ link'[d].mode = "manual"
                /\ d \notin DOMAIN written
  BY <1>1, <1>3 DEF Detached, Unlinked
<1>5. ASSUME NEW q \in Persons, NEW n \in Names, form[q][n] # "rejected"
      PROVE  form'[q][n] # "rejected"
  BY <1>1, <1>2, <1>5 DEF TypeOK
<1>6. Late(link[c].person) \in SUBSET Persons
  BY <1>1 DEF Late
<1> QED
  BY <1>1, <1>4, <1>5, <1>6, LinksChangeKeepsSInv

(* What the phase reads of a contribution it has not decided again is in   *)
(* the tables, or by the administration.                                   *)
LEMMA PinnedView ==
  ASSUME IInv, SInv, stage = "pinned", NEW c \in Existing
  PROVE  /\ \/ View[c] = link[c]
            \/ View[c].person = NoPerson \/ View[c].mode = "manual"
         /\ AttributionView = attribution
<1>1. c \in Contribs /\ TypeOK
  BY ContributionHasPublication DEF IInv
<1>2. View[c] = link[c] \/ View[c].person = NoPerson \/ View[c].mode = "manual"
  BY <1>1 DEF SInv, PinsFirst, View
<1>3. DOMAIN given = {}
  BY NothingIsEmpty DEF SInv, PinsFirst
<1>4. AttributionView = attribution
  BY <1>1, <1>3 DEF AttributionView, TypeOK
<1> QED
  BY <1>2, <1>4

(* Who a form is rejected for loses the contributions it attached.         *)
LEMMA RejectFormKeepsSInv ==
  ASSUME IInv, SInv, NEW p \in Persons, NEW n \in Names, RejectForm(p, n)
  PROVE  SInv'
<1> DEFINE cs == {c \in Existing : /\ link[c].person = p /\ link[c].mode = "name"
                                   /\ \E s \in Members(c) : NameOf[s] = n}
<1>1. /\ Request(Late(p)) /\ queue' = queue \cup cs /\ copied' = copied \ cs
      /\ UNCHANGED <<link, personName, attribution>>
      /\ form' = [form EXCEPT ![p][n] = "rejected"]
  BY DEF RejectForm, Mark
<1>2. Late(p) \in SUBSET Persons
  BY DEF Late
<1>3. /\ UNCHANGED <<aligned, stage, candidates, todo, batch, toCreate, index, written, named, given>>
      /\ late \subseteq late' /\ TypeOK /\ (stage = "deciding" => p \in late')
  BY <1>1, <1>2, RequestMeans DEF IInv, Late
<1>4. /\ Existing' = Existing
      /\ \A c : Members(c)' = Members(c) /\ PubOfContrib(c)' = PubOfContrib(c)
  BY <1>3, AlignmentUnchanged
<1>5. View' = View /\ AttributionView' = AttributionView /\ NameView' = NameView
  BY <1>1, <1>3 DEF View, AttributionView, NameView
<1>6. ASSUME NEW q \in Persons, NEW k \in Names, q # p \/ k # n
      PROVE  form'[q][k] = form[q][k] /\ FormView'[q][k] = FormView[q][k]
  <2>1. form'[q][k] = form[q][k]
    BY <1>1, <1>3, <1>6 DEF TypeOK
  <2> QED
    BY <1>1, <1>3, <2>1 DEF FormView
<1>7. ASSUME NEW c \in Existing \ cs,
             Supported(Members(c), link[c], late, attribution, form, personName)
      PROVE  Supported(Members(c), link'[c], late', attribution', form', personName')
  <2>1. CASE link[c].mode = "name"
    <3>1. link[c].person \in Persons \cup {NoPerson}
      BY <1>3, ContributionHasPublication DEF IInv, TypeOK, Links
    <3>2. \A s \in Members(c) : NameOf[s] \in Names /\ (link[c].person = p => NameOf[s] # n)
      BY <2>1, MembersAreProfiled
    <3>3. \A s \in Members(c) : link[c].person # NoPerson =>
             form'[link[c].person][NameOf[s]] = form[link[c].person][NameOf[s]]
      BY <1>6, <3>1, <3>2
    <3> QED
      BY <1>1, <1>3, <1>7, <2>1, <3>3 DEF Supported
  <2>2. CASE link[c].mode # "name"
    BY <1>1, <1>3, <1>7, <2>2 DEF Supported
  <2> QED
    BY <2>1, <2>2
<1>8. ASSUME stage \in {"pinned", "deciding"}, NEW c \in Existing \ cs,
             Supported(Members(c), View[c], late, AttributionView, FormView, NameView)
      PROVE  Supported(Members(c), View'[c], late', AttributionView', FormView', NameView')
  <2>1. View[c].person \in Persons \cup {NoPerson}
    BY <1>3, MembersAreProfiled, ContributionHasPublication, ViewsAreTyped DEF Links, IInv
  <2>2. \A s \in Members(c) : NameOf[s] \in Names
    BY MembersAreProfiled
  <2>3. CASE View[c].person # p \/ stage = "deciding"
    BY <1>3, <1>5, <1>6, <1>8, <2>1, <2>2, <2>3, SupportStays
  <2>4. CASE View[c].person = NoPerson \/ View[c].mode # "name"
    BY <1>3, <1>5, <1>8, <2>4 DEF Supported
  <2>5. CASE stage = "pinned" /\ View[c] = link[c] /\ link[c].mode = "name" /\ link[c].person = p
    <3>1. \A s \in Members(c) : NameOf[s] # n
      BY <2>5
    <3> QED
      BY <1>3, <1>5, <1>6, <1>8, <2>1, <2>2, <2>5, <3>1, SupportStays
  <2> QED
    BY <1>8, <2>3, <2>4, <2>5, PinnedView
<1>9. IndexAgrees'
  <2>1. \A q : Gone(q)' = Gone(q)
    BY <1>3, <1>5 DEF Gone
  <2>2. \A c : Settled(c)' = Settled(c)
    BY <1>3, <1>4 DEF Settled, ToDecide
  <2>3. ASSUME NEW v \in Values
        PROVE  (HolderAgrees(v) => HolderAgrees(v)') /\ (FreeAgrees(v) => FreeAgrees(v)')
    BY <1>3, <1>4, <1>5, <2>1, <2>2 DEF HolderAgrees, FreeAgrees
  <2>4. ASSUME stage = "deciding", NEW q \in Persons, NEW k \in Names, index.form[q][k] # "rejected"
        PROVE  q \in late' \/ FormView'[q][k] # "rejected"
    BY <1>3, <1>6, <2>4 DEF SInv, IndexAgrees
  <2> QED
    BY <1>3, <1>5, <2>1, <2>3, <2>4 DEF SInv, IndexAgrees
<1> HIDE DEF cs
<1> QED
  BY <1>1, <1>2, <1>7, <1>8, <1>9, RequestKeepsSInv

(* Who a value is rejected for loses the contributions it attached.        *)
LEMMA RejectIdentifierKeepsSInv ==
  ASSUME IInv, SInv, NEW v \in Values, RejectIdentifier(v)
  PROVE  SInv'
<1> DEFINE p == attribution[v].person
           cs == {c \in Existing : /\ link[c].person = p /\ link[c].mode = "identifier"
                                   /\ \E s \in Members(c) : ValueOf[s] = v}
<1>1. /\ Request(Late(p)) /\ queue' = queue \cup cs /\ copied' = copied \ cs
      /\ UNCHANGED <<link, personName, form>> /\ p # NoPerson /\ ~ attribution[v].rejected
      /\ attribution' = [attribution EXCEPT ![v].rejected = TRUE] /\ v \notin DOMAIN given
  BY DEF RejectIdentifier, Mark
<1>2. TypeOK /\ p \in Persons /\ attribution[v] = To(p)
  BY <1>1, AttributionMeans DEF IInv, TypeOK, Attributions
<1>3. Late(p) \in SUBSET Persons
  BY <1>2 DEF Late
<1>4. /\ UNCHANGED <<aligned, stage, candidates, todo, batch, toCreate, index, written, named, given>>
      /\ late \subseteq late' /\ (stage = "deciding" => p \in late')
  BY <1>1, <1>3, RequestMeans DEF Late
<1> HIDE DEF p
<1>5. /\ Existing' = Existing
      /\ \A c : Members(c)' = Members(c) /\ PubOfContrib(c)' = PubOfContrib(c)
  BY <1>4, AlignmentUnchanged
<1>6. View' = View /\ FormView' = FormView /\ NameView' = NameView
  BY <1>1, <1>4 DEF View, FormView, NameView
<1>7. /\ \A w \in Values \ {v} : /\ attribution'[w] = attribution[w]
                                 /\ AttributionView'[w] = AttributionView[w]
      /\ AttributionView[v] = To(p) /\ AttributionView'[v].rejected
  <2>1. \A w \in Values \ {v} : attribution'[w] = attribution[w]
    BY <1>1, <1>2 DEF TypeOK
  <2>2. attribution'[v].rejected
    BY <1>1, <1>2 DEF TypeOK, Attributions
  <2> QED
    BY <1>1, <1>2, <1>4, <2>1, <2>2 DEF AttributionView
<1>8. ASSUME NEW c \in Existing \ cs,
             Supported(Members(c), link[c], late, attribution, form, personName)
      PROVE  Supported(Members(c), link'[c], late', attribution', form', personName')
  <2>1. CASE link[c].mode = "identifier"
    <3>1. \A s \in Members(c) : /\ ValueOf[s] # NoValue => ValueOf[s] \in Values
                                /\ link[c].person = p => ValueOf[s] # v
      BY <2>1, MembersAreProfiled
    <3>2. \A s \in Members(c) : ValueOf[s] # NoValue /\ attribution[ValueOf[s]] = To(link[c].person)
                                => attribution'[ValueOf[s]] = To(link[c].person)
      BY <1>2, <1>7, <3>1 DEF To
    <3> QED
      BY <1>1, <1>4, <1>8, <2>1, <3>2 DEF Supported
  <2>2. CASE link[c].mode # "identifier"
    BY <1>1, <1>4, <1>8, <2>2 DEF Supported
  <2> QED
    BY <2>1, <2>2
<1>9. ASSUME stage \in {"pinned", "deciding"}, NEW c \in Existing \ cs,
             Supported(Members(c), View[c], late, AttributionView, FormView, NameView)
      PROVE  Supported(Members(c), View'[c], late', AttributionView', FormView', NameView')
  <2>1. \A s \in Members(c) : ValueOf[s] # NoValue => ValueOf[s] \in Values
    BY MembersAreProfiled
  <2>2. CASE View[c].person # p \/ stage = "deciding"
    <3>1. View[c].person \notin late' \cup {NoPerson} =>
            \A s \in Members(c) : ValueOf[s] # NoValue /\ AttributionView[ValueOf[s]] = To(View[c].person)
                                => AttributionView'[ValueOf[s]] = To(View[c].person)
      BY <1>4, <1>7, <2>1, <2>2 DEF To
    <3> QED
      BY <1>4, <1>6, <1>9, <3>1, SupportStays
  <2>3. CASE View[c].person = NoPerson \/ View[c].mode # "identifier"
    BY <1>4, <1>6, <1>9, <2>3 DEF Supported
  <2>4. CASE stage = "pinned" /\ View[c] = link[c] /\ link[c].mode = "identifier" /\ link[c].person = p
    <3>1. \A s \in Members(c) : ValueOf[s] # v
      BY <2>4
    <3>2. \A s \in Members(c) : ValueOf[s] # NoValue /\ AttributionView[ValueOf[s]] = To(View[c].person)
                                => AttributionView'[ValueOf[s]] = To(View[c].person)
      BY <1>7, <2>1, <3>1
    <3> QED
      BY <1>4, <1>6, <1>9, <3>2, SupportStays
  <2> QED
    BY <1>9, <2>2, <2>3, <2>4, PinnedView
<1>10. IndexAgrees'
  <2>1. \A q : Gone(q)' = Gone(q)
    BY <1>4, <1>6 DEF Gone
  <2>2. \A c : Settled(c)' = Settled(c)
    BY <1>4, <1>5 DEF Settled, ToDecide
  <2>3. ASSUME NEW w \in Values, stage = "deciding"
        PROVE  (HolderAgrees(w) => HolderAgrees(w)') /\ (FreeAgrees(w) => FreeAgrees(w)')
    <3>1. CASE w # v
      BY <1>4, <1>5, <1>7, <2>1, <2>2, <3>1 DEF HolderAgrees, FreeAgrees
    <3>2. CASE w = v
      <4>1. FreeAgrees(v)'
        BY <1>7 DEF FreeAgrees
      <4>2. ASSUME HolderAgrees(v), index.holder[v] # p PROVE HolderAgrees(v)'
        <5>1. AttributionView[v] # To(index.holder[v])
          BY <1>7, <4>2 DEF To
        <5> QED
          BY <1>4, <1>5, <2>1, <4>2, <5>1 DEF HolderAgrees
      <4>3. index.holder[v] = p => HolderAgrees(v)'
        BY <1>4, <2>3 DEF HolderAgrees
      <4> QED
        BY <3>2, <4>1, <4>2, <4>3
    <3> QED
      BY <3>1, <3>2
  <2>4. ASSUME stage = "deciding", NEW w \in Values
        PROVE  IF index.holder[w] # NoPerson THEN HolderAgrees(w)' ELSE FreeAgrees(w)'
    BY <2>3, <2>4 DEF SInv, IndexAgrees
  <2> QED
    BY <1>4, <1>6, <2>1, <2>4 DEF SInv, IndexAgrees
<1> HIDE DEF cs
<1> QED
  BY <1>1, <1>3, <1>8, <1>9, <1>10, RequestKeepsSInv

(* The supports of the absorbed person go with its contributions, and the  *)
(* forms rejected for one of the two make the merge late for the other.    *)
LEMMA MergePersonsKeepsSInv ==
  ASSUME IInv, CInv, SInv, NEW t \in Persons, NEW s \in Persons, MergePersons(t, s)
  PROVE  SInv'
<1>1. PICK missed : /\ Request(missed) /\ missed \in SUBSET {t}
                    /\ stage = "deciding" \/ s \in late \/ (\E n \in Names : MergedForms(t, s)[n] = "rejected")
                          => t \in missed
  <2>1. PICK pairs :
           Request(IF \/ s \in late
                      \/ \E n \in Names : MergedForms(t, s)[n] = "rejected"
                      \/ \E c \in DOMAIN written : /\ written[c].person = t
                                                   /\ <<PubOfContrib(c), t>> \in pairs
                   THEN {t} ELSE Late(t))
    BY DEF MergePersons
  <2> QED
    BY <2>1 DEF Late
<1>2. PICK moved, pairs :
         /\ moved = [c \in Contribs |->
                IF link[c].person # s THEN link[c]
                ELSE IF Occupied(c, t, link) THEN Unlinked ELSE [link[c] EXCEPT !.person = t]]
         /\ link' = Detached(t, pairs, moved)
         /\ {c \in Contribs : link'[c] # link[c]} \cap DOMAIN written = {}
  BY DEF MergePersons, Unlocked
<1>3. /\ TypeOK /\ t # s /\ personName[s] # NoName
      /\ s \notin DOMAIN named /\ t \notin DOMAIN named
      /\ \A c \in DOMAIN written : written[c].person # s
      /\ \A v \in DOMAIN given : given[v].person # s
      /\ attribution' = [v \in Values |-> IF attribution[v].person = s
                                          THEN [attribution[v] EXCEPT !.person = t]
                                          ELSE attribution[v]]
      /\ form' = [form EXCEPT ![t] = MergedForms(t, s), ![s] = NoForms]
      /\ personName' = [personName EXCEPT ![s] = NoName]
      /\ UNCHANGED <<queue, copied>>
  BY DEF MergePersons, IInv
<1>4. /\ UNCHANGED <<aligned, stage, candidates, todo, batch, toCreate, index, written, named, given>>
      /\ late' = late \cup missed /\ late \subseteq late' /\ missed \in SUBSET Persons
  BY <1>1, RequestMeans
<1>5. /\ Existing' = Existing /\ Existing \subseteq Contribs
      /\ \A c : Members(c)' = Members(c) /\ PubOfContrib(c)' = PubOfContrib(c)
  BY <1>3, <1>4, AlignmentUnchanged, ContributionHasPublication DEF IInv
<1>6. ASSUME NEW c \in Existing
      PROVE  \/ link'[c].person = NoPerson
             \/ link[c].person \notin {s, t} /\ link'[c] = link[c]
             \/ link[c].person \in {s, t} /\ link'[c] = [person |-> t, mode |-> link[c].mode]
  <2>1. c \in Contribs /\ link[c] \in Links
    BY <1>3, <1>5 DEF TypeOK
  <2>2. link'[c].person = NoPerson \/ link'[c] = moved[c]
    BY <1>2, <2>1 DEF Detached, Unlinked
  <2>3. CASE link[c].person # s
    <3>1. moved[c] = link[c]
      BY <1>2, <2>1, <2>3
    <3>2. link[c] = [person |-> link[c].person, mode |-> link[c].mode]
      BY <2>1 DEF Links
    <3> QED
      BY <2>2, <2>3, <3>1, <3>2
  <2>4. CASE link[c].person = s
    <3>1. moved[c].person = NoPerson \/ moved[c] = [person |-> t, mode |-> link[c].mode]
      BY <1>2, <2>1, <2>4 DEF Unlinked, Links
    <3> QED
      BY <2>2, <2>4, <3>1
  <2> QED
    BY <2>3, <2>4
<1>7. /\ \A p \in Persons \ {s} : personName'[p] = personName[p] /\ NameView'[p] = NameView[p]
      /\ \A p \in Persons \ {s, t}, n \in Names : /\ form'[p][n] = form[p][n]
                                                  /\ FormView'[p][n] = FormView[p][n]
      /\ NameView[s] # NoName /\ NameView'[s] = NoName
  <2>1. /\ \A p \in Persons \ {s} : personName'[p] = personName[p]
        /\ personName'[s] = NoName
    BY <1>3 DEF TypeOK
  <2>2. \A p \in Persons \ {s, t} : form'[p] = form[p]
    BY <1>3 DEF TypeOK
  <2>3. \A p \in Persons \ {s} : NameView'[p] = NameView[p]
    BY <1>4, <2>1 DEF NameView
  <2>4. \A p \in Persons \ {s, t}, n \in Names : FormView'[p][n] = FormView[p][n]
    BY <1>4, <2>1, <2>2 DEF FormView
  <2>5. NameView[s] # NoName /\ NameView'[s] = NoName
    BY <1>3, <1>4, <2>1 DEF NameView
  <2> QED
    BY <2>1, <2>2, <2>3, <2>4, <2>5
<1>8. ASSUME t \notin late', NEW n \in Names
      PROVE  form'[t][n] # "rejected" /\ FormView'[t][n] # "rejected"
  <2>1. form'[t][n] = MergedForms(t, s)[n]
    BY <1>3 DEF TypeOK
  <2> QED
    BY <1>1, <1>3, <1>4, <1>8, <2>1 DEF FormView
<1>9. ASSUME NEW v \in Values
      PROVE  /\ attribution[v] = To(s) \/ attribution[v] = To(t) => attribution'[v] = To(t)
             /\ AttributionView[v] = To(s) \/ AttributionView[v] = To(t) => AttributionView'[v] = To(t)
             /\ attribution[v].person # s => attribution'[v] = attribution[v]
             /\ AttributionView[v].person # s => AttributionView'[v] = AttributionView[v]
             /\ AttributionView[v].rejected => AttributionView'[v].rejected
  <2>1. attribution[v] \in Attributions
    BY <1>3 DEF TypeOK
  <2>2. /\ attribution[v].person # s => attribution'[v] = attribution[v]
        /\ attribution[v].person = s => attribution'[v] = [person |-> t, rejected |-> attribution[v].rejected]
    BY <1>3, <2>1 DEF Attributions
  <2>3. /\ attribution[v] = To(s) \/ attribution[v] = To(t) => attribution'[v] = To(t)
        /\ attribution[v].rejected => attribution'[v].rejected
    <3>1. /\ attribution[v] = To(s) => attribution[v].person = s /\ ~ attribution[v].rejected
          /\ attribution[v] = To(t) => attribution[v].person # s
      BY <1>3, <2>1, AttributionMeans
    <3>2. attribution[v] = To(s) => attribution'[v] = To(t)
      BY <2>1, <2>2, <3>1 DEF To, Attributions
    <3>3. attribution[v].rejected => attribution'[v].rejected
      BY <2>1, <2>2 DEF Attributions
    <3> QED
      BY <2>2, <3>1, <3>2, <3>3
  <2>4. CASE v \in DOMAIN given
    <3>1. AttributionView'[v] = given[v] /\ AttributionView[v] = given[v] /\ given[v].person # s
      BY <1>3, <1>4, <2>4 DEF AttributionView
    <3> QED
      BY <2>2, <2>3, <3>1 DEF To
  <2>5. CASE v \notin DOMAIN given
    <3>1. AttributionView'[v] = attribution'[v] /\ AttributionView[v] = attribution[v]
      BY <1>4, <2>5 DEF AttributionView
    <3> QED
      BY <2>2, <2>3, <3>1
  <2> QED
    BY <2>4, <2>5
<1>10. ASSUME NEW c \in Existing,
              Supported(Members(c), link[c], late, attribution, form, personName)
       PROVE  Supported(Members(c), link'[c], late', attribution', form', personName')
  <2>1. /\ \A x \in Members(c) : NameOf[x] \in Names /\ (ValueOf[x] # NoValue => ValueOf[x] \in Values)
        /\ Members(c) # {}
    BY MembersAreProfiled, ContributionHasPublication DEF IInv
  <2>2. CASE link'[c].person = NoPerson
    BY <2>2 DEF Supported
  <2>3. CASE link[c].person \notin {s, t} /\ link'[c] = link[c]
    <3>1. PICK p \in Persons \cup {NoPerson} : p = link[c].person /\ p \notin {s, t}
      BY <1>3, <1>5, <2>3 DEF TypeOK, Links
    <3>2. \A x \in Members(c) : ValueOf[x] # NoValue /\ attribution[ValueOf[x]] = To(p)
                                => attribution'[ValueOf[x]] = To(p)
      BY <1>9, <2>1, <3>1 DEF To
    <3>3. p # NoPerson => /\ personName'[p] = personName[p]
                          /\ \A x \in Members(c) : form'[p][NameOf[x]] = form[p][NameOf[x]]
      BY <1>7, <2>1, <3>1
    <3> QED
      BY <1>4, <1>10, <2>3, <3>1, <3>2, <3>3, SupportStays
  <2>4. CASE link[c].person \in {s, t} /\ link'[c] = [person |-> t, mode |-> link[c].mode]
    <3> SUFFICES ASSUME t \notin late'
                 PROVE  Supported(Members(c), link'[c], late', attribution', form', personName')
      BY <2>4 DEF Supported
    <3>1. link[c].person \notin late \cup {NoPerson}
      BY <1>1, <1>3, <1>4, <2>4, RejectedArePersons
    <3>2. CASE link[c].mode = "manual"
      BY <2>4, <3>2 DEF Supported
    <3>3. CASE link[c].mode = "identifier"
      <4>1. PICK x \in Members(c) :
               ValueOf[x] # NoValue /\ (attribution[ValueOf[x]] = To(link[c].person)
                                        \/ Contested(ValueOf[x]))
        BY <1>10, <3>1, <3>3 DEF Supported
      <4>2. attribution'[ValueOf[x]] = To(t) \/ Contested(ValueOf[x])
        BY <1>9, <2>1, <2>4, <4>1
      <4> QED
        BY <2>4, <3>3, <4>1, <4>2 DEF Supported
    <3>4. CASE link[c].mode = "name"
      <4>1. PICK x \in Members(c) : form'[t][NameOf[x]] # "rejected"
        BY <1>8, <2>1
      <4> QED
        BY <2>4, <3>4, <4>1 DEF Supported
    <3> QED
      BY <1>10, <3>1, <3>2, <3>3, <3>4 DEF Supported
  <2> QED
    BY <1>6, <2>2, <2>3, <2>4
<1>11. ASSUME NEW c \in Existing,
              Supported(Members(c), View[c], late, AttributionView, FormView, NameView)
       PROVE  Supported(Members(c), View'[c], late', AttributionView', FormView', NameView')
  <2>1. /\ \A x \in Members(c) : NameOf[x] \in Names /\ (ValueOf[x] # NoValue => ValueOf[x] \in Values)
        /\ Members(c) # {}
    BY MembersAreProfiled, ContributionHasPublication DEF IInv
  <2>2. \/ View'[c].person = NoPerson
        \/ View[c].person \notin {s, t} /\ View'[c] = View[c]
        \/ View[c].person \in {s, t} /\ View'[c] = [person |-> t, mode |-> View[c].mode]
    <3>1. c \in Contribs
      BY <1>5
    <3>2. CASE c \in DOMAIN written
      <4>1. View'[c] = written[c] /\ View[c] = written[c] /\ written[c].person # s
        BY <1>3, <1>4, <3>1, <3>2 DEF View
      <4>2. View[c] = [person |-> View[c].person, mode |-> View[c].mode]
        BY <1>3, <3>1, ViewsAreTyped DEF Links
      <4> QED
        BY <4>1, <4>2
    <3>3. CASE c \notin DOMAIN written
      BY <1>4, <1>6, <3>1, <3>3 DEF View
    <3> QED
      BY <3>2, <3>3
  <2>3. CASE View'[c].person = NoPerson
    BY <2>3 DEF Supported
  <2>4. CASE View[c].person \notin {s, t} /\ View'[c] = View[c]
    <3>1. PICK p \in Persons \cup {NoPerson} : p = View[c].person /\ p \notin {s, t}
      BY <1>3, <1>5, <2>4, ViewsAreTyped DEF Links
    <3>2. \A x \in Members(c) : ValueOf[x] # NoValue /\ AttributionView[ValueOf[x]] = To(p)
                                => AttributionView'[ValueOf[x]] = To(p)
      BY <1>9, <2>1, <3>1 DEF To
    <3>3. p # NoPerson => /\ NameView'[p] = NameView[p]
                          /\ \A x \in Members(c) : FormView'[p][NameOf[x]] = FormView[p][NameOf[x]]
      BY <1>7, <2>1, <3>1
    <3> QED
      BY <1>4, <1>11, <2>4, <3>1, <3>2, <3>3, SupportStays
  <2>5. CASE View[c].person \in {s, t} /\ View'[c] = [person |-> t, mode |-> View[c].mode]
    <3> SUFFICES ASSUME t \notin late'
                 PROVE  Supported(Members(c), View'[c], late', AttributionView', FormView', NameView')
      BY <2>5 DEF Supported
    <3>1. View[c].person \notin late \cup {NoPerson}
      BY <1>1, <1>3, <1>4, <2>5, RejectedArePersons
    <3>2. CASE View[c].mode = "manual"
      BY <2>5, <3>2 DEF Supported
    <3>3. CASE View[c].mode = "identifier"
      <4>1. PICK x \in Members(c) :
               ValueOf[x] # NoValue /\ (AttributionView[ValueOf[x]] = To(View[c].person)
                                        \/ Contested(ValueOf[x]))
        BY <1>11, <3>1, <3>3 DEF Supported
      <4>2. AttributionView'[ValueOf[x]] = To(t) \/ Contested(ValueOf[x])
        BY <1>9, <2>1, <2>5, <4>1
      <4> QED
        BY <2>5, <3>3, <4>1, <4>2 DEF Supported
    <3>4. CASE View[c].mode = "name"
      <4>1. PICK x \in Members(c) : FormView'[t][NameOf[x]] # "rejected"
        BY <1>8, <2>1
      <4> QED
        BY <2>5, <3>4, <4>1 DEF Supported
    <3> QED
      BY <1>11, <3>1, <3>2, <3>3, <3>4 DEF Supported
  <2> QED
    BY <2>2, <2>3, <2>4, <2>5
<1>12. IndexAgrees'
  <2> SUFFICES ASSUME stage = "deciding"
               PROVE  /\ \A p \in Persons : index.name[p] = NameView'[p] \/ Gone(p)'
                      /\ \A p \in Persons, n \in Names :
                            index.form[p][n] # "rejected" => p \in late' \/ FormView'[p][n] # "rejected"
                      /\ \A v \in Values : IF index.holder[v] # NoPerson THEN HolderAgrees(v)'
                                                                         ELSE FreeAgrees(v)'
    BY <1>4 DEF IndexAgrees
  <2>1. t \in late'
    BY <1>1, <1>4
  <2>2. index.name[s] # NoName
    BY <1>7 DEF SInv, IndexAgrees, Gone
  <2>3. /\ \A p \in Persons : Gone(p) => Gone(p)'
        /\ Gone(s)'
    BY <1>4, <1>7, <2>2 DEF Gone
  <2>4. ASSUME NEW p \in Persons PROVE index.name[p] = NameView'[p] \/ Gone(p)'
    BY <1>7, <2>3 DEF SInv, IndexAgrees
  <2>5. ASSUME NEW p \in Persons, NEW n \in Names, index.form[p][n] # "rejected"
        PROVE  p \in late' \/ FormView'[p][n] # "rejected"
    <3>1. CASE p = s
      <4>1. form'[s] = NoForms
        BY <1>3 DEF TypeOK
      <4> QED
        BY <1>3, <1>4, <3>1, <4>1 DEF FormView, NoForms
    <3>2. CASE p # s
      BY <1>4, <1>7, <2>1, <2>5, <3>2 DEF SInv, IndexAgrees
    <3> QED
      BY <3>1, <3>2
  <2>6. \A c : Settled(c)' = Settled(c)
    BY <1>4, <1>5 DEF Settled, ToDecide
  <2>7. ASSUME NEW v \in Values, index.holder[v] # NoPerson PROVE HolderAgrees(v)'
    <3>1. PICK p \in Persons : p = index.holder[v] /\ HolderAgrees(v)
      BY <1>3, <2>7 DEF TypeOK, SInv, IndexAgrees
    <3>2. CASE p = s \/ p \in late \/ Gone(p)
      BY <1>4, <2>3, <3>1, <3>2 DEF HolderAgrees
    <3>3. CASE p # s /\ AttributionView[v] = To(p)
      BY <1>4, <1>9, <3>1, <3>3 DEF HolderAgrees, To
    <3>4. CASE todo = {} /\ batch = {} /\ \E c, d \in Existing \ toCreate :
                  c # d /\ Carries(Members(c), v) /\ Carries(Members(d), v)
      BY <1>4, <1>5, <3>4 DEF HolderAgrees
    <3> QED
      BY <3>1, <3>2, <3>3, <3>4 DEF HolderAgrees
  <2>8. ASSUME NEW v \in Values, index.holder[v] = NoPerson PROVE FreeAgrees(v)'
    <3>1. FreeAgrees(v) /\ NoPerson # s
      BY <1>3, <2>8, RejectedArePersons DEF SInv, IndexAgrees
    <3> QED
      BY <1>5, <1>9, <2>6, <3>1 DEF FreeAgrees
  <2> QED
    BY <2>4, <2>5, <2>7, <2>8
<1>13. queue' = queue \cup {} /\ copied' = copied \ {}
  BY <1>3
<1> QED
  BY <1>1, <1>4, <1>10, <1>11, <1>12, <1>13, RequestKeepsSInv

(* A recomposition marks what it takes a member from.                      *)
LEMMA RegroupKeepsSInv ==
  ASSUME IInv, IInv', SInv, NEW b \in Pubs, NEW group \in [Sources -> 1 .. Cardinality(Sources)],
         Regroup(b, group)
  PROVE  SInv'
<1>1. /\ queue \subseteq queue' /\ stage = "idle" /\ stage' = "idle" /\ copied' = copied
      /\ UNCHANGED <<late, personName, form, attribution>>
  BY DEF Regroup
<1>2. LinksAreSupported'
  <2> SUFFICES ASSUME NEW c \in Existing' \ queue', link'[c].person # NoPerson
               PROVE  Supported(Members(c)', link'[c], late, attribution, form, personName)
    BY <1>1 DEF LinksAreSupported, Supported
  <2>1. c \in Existing \ queue /\ link'[c] = link[c] /\ Members(c)' = Members(c)
    BY <1>1, RegroupMeans
  <2> QED
    BY <2>1 DEF SInv, LinksAreSupported
<1>3. MarksAreCopied'
  BY <1>1 DEF SInv, MarksAreCopied
<1> QED
  BY <1>1, <1>2, <1>3, OutsideTransaction

(* Nothing of it changes without the variables.                            *)
LEMMA StutterKeepsSInv ==
  ASSUME SInv, UNCHANGED vars
  PROVE  SInv'
<1>1. UNCHANGED <<aligned, link, personName, form, attribution, queue, stage, copied, candidates,
                  todo, batch, toCreate, index, written, named, given, late>>
  BY DEF vars, tables, readings, overlay
<1>2. /\ Existing' = Existing
      /\ \A c : Members(c)' = Members(c) /\ PubOfContrib(c)' = PubOfContrib(c)
  BY <1>1, AlignmentUnchanged
<1>3. /\ View' = View /\ NameView' = NameView /\ FormView' = FormView
      /\ AttributionView' = AttributionView
  BY <1>1 DEF View, NameView, FormView, AttributionView
<1>4. LinksAreSupported' /\ MarksAreCopied' /\ PinsFirst' /\ Ordered'
  BY <1>1, <1>2 DEF SInv, LinksAreSupported, MarksAreCopied, PinsFirst, Ordered
<1>5. \A c : ToDecide(c)' = ToDecide(c) /\ Settled(c)' = Settled(c)
  BY <1>1, <1>2 DEF ToDecide, Settled
<1>6. ViewIsSupported'
  BY <1>1, <1>2, <1>3, <1>5 DEF SInv, ViewIsSupported
<1>7. \A p : Gone(p)' = Gone(p)
  BY <1>1, <1>3 DEF Gone
<1>8. \A v : HolderAgrees(v)' = HolderAgrees(v) /\ FreeAgrees(v)' = FreeAgrees(v)
  BY <1>1, <1>2, <1>3, <1>5, <1>7 DEF HolderAgrees, FreeAgrees
<1>9. IndexAgrees'
  BY <1>1, <1>3, <1>7, <1>8 DEF SInv, IndexAgrees
<1> QED
  BY <1>4, <1>6, <1>9 DEF SInv

(* Every step preserves it.                                                *)
LEMMA NextPreservesSInv ==
  ASSUME IInv, IInv', CInv, SInv, [Next]_vars
  PROVE  SInv'
<1>1. CASE UNCHANGED vars
  BY <1>1, StutterKeepsSInv
<1>2. CASE Phase
  BY <1>2, StartKeepsSInv, PrepareKeepsSInv, LoadBatchKeepsSInv, WriteBatchKeepsSInv,
     CreateNextKeepsSInv, CommitKeepsSInv, PopulateKeepsSInv, PurgeKeepsSInv, AbortKeepsSInv
     DEF Phase
<1>3. CASE Administration
  BY <1>3, AssignKeepsSInv, RejectPairKeepsSInv, RejectFormKeepsSInv, RejectIdentifierKeepsSInv,
     MergePersonsKeepsSInv DEF Administration
<1>4. CASE \E b \in Pubs, group \in [Sources -> 1 .. Cardinality(Sources)] : Regroup(b, group)
  BY <1>4, RegroupKeepsSInv
<1> QED
  BY <1>1, <1>2, <1>3, <1>4 DEF Next

(* The three invariants hold in every reachable state.                     *)
LEMMA SInvIsInvariant == Spec => [](IInv /\ CInv /\ SInv)
<1>1. Init => SInv
  BY InitImpliesSInv
<1>2. IInv /\ IInv' /\ CInv /\ SInv /\ [Next]_vars => SInv'
  BY NextPreservesSInv
<1> QED
  BY <1>1, <1>2, CInvIsInvariant, PTL DEF Spec

(* Between two runs what attached a contribution still supports it: every  *)
(* request that takes a support away marks who it attached, every run      *)
(* decides again what is marked, and a recomposition marks what it takes a *)
(* member from. Excused are the rejections that came while the phase was   *)
(* deciding, and the values that three source contributions carry.         *)
THEOREM AttachmentsKeepSupport == Spec => []AttachmentsAreSupported
<1>1. SInv => AttachmentsAreSupported
  <2> SUFFICES ASSUME SInv, stage = "idle", NEW c \in Existing \ queue
               PROVE  LET p == link[c].person IN
                      \/ p \in late \cup {NoPerson}
                      \/ link[c].mode = "manual"
                      \/ /\ link[c].mode = "identifier"
                         /\ \E s \in Members(c) : ValueOf[s] # NoValue
                              /\ \/ attribution[ValueOf[s]] = [person |-> p, rejected |-> FALSE]
                                 \/ Cardinality({t \in Sources : ValueOf[t] = ValueOf[s]}) > 2
                      \/ /\ link[c].mode = "name"
                         /\ \E s \in Members(c) : \/ form[p][NameOf[s]] # "rejected"
                                                  \/ NamesCompatible(NameOf[s], personName[p])
    BY DEF AttachmentsAreSupported
  <2>1. Supported(Members(c), link[c], late, attribution, form, personName)
    BY DEF SInv, LinksAreSupported
  <2> QED
    BY <2>1 DEF Supported, To, Contested
<1> QED
  BY <1>1, SInvIsInvariant, PTL

------------------------------------------------------------------------------
(* A rejected form comes back as a form of the person only with a name the *)
(* phase completed.                                                        *)
LEMMA FormStaysRejected ==
  ASSUME IInv, SupportsExist, Next, NEW p \in Persons, NEW n \in Names,
         form[p][n] = "rejected", n \notin FormsOf(personName[p])
  PROVE  \/ ~ Active(p, n, form')
         \/ personName[p] \in Reduced /\ n \in FormsOf(personName'[p])
<1>1. TypeOK
  BY DEF IInv
<1>2. form \in [Persons -> [Names -> Forms]] /\ form[p] \in [Names -> Forms]
  BY <1>1 DEF TypeOK
<1>3. CASE UNCHANGED form
  BY <1>3 DEF Active
<1>4. CASE Commit
  <2>1. form' = FormView /\ personName' = NameView
    BY <1>4 DEF Commit
  <2>2. CASE p \in DOMAIN named /\ n \in FormsOf(named[p])
    <3>1. personName'[p] = named[p]
      BY <2>1, <2>2 DEF NameView
    <3>2. <<personName[p], named[p]>> \in Extends
      <4>1. personName[p] # NoName
        BY DEF SupportsExist
      <4> QED
        BY <2>2, <4>1 DEF IInv, NamesAreCompleted
    <3>3. personName[p] \in Reduced
      <4>1. <<personName[p], named[p]>>[1] = personName[p]
        OBVIOUS
      <4> QED
        BY <3>2, <4>1 DEF Reduced
    <3> QED
      BY <2>2, <3>1, <3>3
  <2>3. CASE ~ (p \in DOMAIN named /\ n \in FormsOf(named[p]))
    BY <2>1, <2>3 DEF FormView, Active
  <2> QED
    BY <2>2, <2>3
<1>5. CASE Populate
  <2>1. form'[p][n] = Synced(p, n)
    BY <1>5 DEF Populate
  <2> QED
    BY <2>1 DEF Synced, Active
<1>6. CASE Purge
  <2>1. form'[p][n] \in {"none", form[p][n]}
    BY <1>6 DEF Purge, NoForms
  <2> QED
    BY <2>1 DEF Active
<1>7. ASSUME NEW c \in Contribs, NEW q \in Persons, Assign(c, q)
      PROVE  ~ Active(p, n, form')
  BY <1>2, <1>7 DEF Assign, Active
<1>8. ASSUME NEW c \in Contribs, RejectPair(c)
      PROVE  ~ Active(p, n, form')
  BY <1>2, <1>8 DEF RejectPair, Active
<1>9. ASSUME NEW q \in Persons, NEW m \in Names, RejectForm(q, m)
      PROVE  ~ Active(p, n, form')
  BY <1>2, <1>9 DEF RejectForm, Active
<1>10. ASSUME NEW t \in Persons, NEW s \in Persons, MergePersons(t, s)
       PROVE  ~ Active(p, n, form')
  <2>1. form' = [form EXCEPT ![t] = MergedForms(t, s), ![s] = NoForms]
    BY <1>10 DEF MergePersons
  <2>2. form'[p][n] \in {"none", form[p][n]} \/ (p = t /\ form'[p][n] = MergedForms(t, s)[n])
    <3>1. CASE p = s
      <4>1. form'[p] = NoForms
        BY <1>2, <2>1, <3>1
      <4>2. NoForms[n] = "none"
        BY DEF NoForms
      <4> QED
        BY <4>1, <4>2
    <3>2. CASE p # s /\ p = t
      <4>1. form'[p] = MergedForms(t, s)
        BY <1>2, <2>1, <3>2
      <4> QED
        BY <3>2, <4>1
    <3>3. CASE p # s /\ p # t
      <4>1. form'[p] = form[p]
        BY <1>2, <2>1, <3>3
      <4> QED
        BY <4>1
    <3> QED
      BY <3>1, <3>2, <3>3
  <2>3. p = t => MergedForms(t, s)[n] = "rejected"
    BY DEF MergedForms
  <2> QED
    BY <2>2, <2>3 DEF Active
<1>11. ASSUME Phase
       PROVE  \/ ~ Active(p, n, form')
              \/ personName[p] \in Reduced /\ n \in FormsOf(personName'[p])
  <2>1. CASE \E rebuild \in BOOLEAN : Start(rebuild)
    BY <1>3, <2>1 DEF Start, tables
  <2>2. CASE Prepare \/ LoadBatch \/ WriteBatch \/ CreateNext \/ Abort
    <3>1. UNCHANGED tables
      BY <2>2 DEF Prepare, LoadBatch, WriteBatch, CreateNext, Abort
    <3> QED
      BY <1>3, <3>1 DEF tables
  <2> QED
    BY <1>4, <1>5, <1>6, <1>11, <2>1, <2>2 DEF Phase
<1>12. ASSUME Administration PROVE ~ Active(p, n, form')
  <2>1. CASE \E v \in Values : RejectIdentifier(v)
    BY <2>1 DEF RejectIdentifier, Active
  <2> QED
    BY <1>7, <1>8, <1>9, <1>10, <1>12, <2>1 DEF Administration
<1>13. CASE \E b \in Pubs, group \in [Sources -> 1 .. Cardinality(Sources)] : Regroup(b, group)
  BY <1>3, <1>13 DEF Regroup
<1> QED
  BY <1>11, <1>12, <1>13 DEF Next

(* A form rejected for a person, when it is none of its name, designates   *)
(* it again only when the completion of its first name makes it one.       *)
THEOREM RejectedFormsAreKept == Spec => RejectedFormsStayOut
<1>1. IInv /\ CInv /\ [Next]_vars =>
        [\A p \in Persons, n \in Names :
            form[p][n] = "rejected" /\ n \notin FormsOf(personName[p])
            => \/ ~ Active(p, n, form')
               \/ personName[p] \in Reduced /\ n \in FormsOf(personName'[p])]_form
  <2> SUFFICES ASSUME IInv, CInv, [Next]_vars, form' # form
               PROVE  \A p \in Persons, n \in Names :
                        form[p][n] = "rejected" /\ n \notin FormsOf(personName[p])
                        => \/ ~ Active(p, n, form')
                           \/ personName[p] \in Reduced /\ n \in FormsOf(personName'[p])
    OBVIOUS
  <2>1. Next
    BY DEF vars, tables
  <2> QED
    BY <2>1, FormStaysRejected DEF CInv
<1> QED
  BY <1>1, CInvIsInvariant, PTL DEF Spec, RejectedFormsStayOut

==============================================================================

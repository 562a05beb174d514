------------------------ MODULE StagingLifecycleProofs ------------------------
(***************************************************************************)
(* Theorems on StagingLifecycle, for any documents, contents and bounds:   *)
(* its types, that no payload is emptied before it is in the record, and   *)
(* that a row nothing waits for has its content in its record.             *)
(***************************************************************************)
EXTENDS StagingLifecycle, TLAPS

------------------------------------------------------------------------------
(* The inductive invariant                                                 *)

(* A document is merged into one the source has.                           *)
MergesAreDirect == \A d \in Docs : src[d] \in Docs => src[src[d]] \in Contents

(* A row has its three columns, and its payload the last content written.  *)
RowsAreWhole ==
    \A d \in Docs :
        /\ raw[d] = None <=> hash[d] = None
        /\ hash[d] # None => last[d] \in Contents
        /\ raw[d] \in Payloads => raw[d].content = last[d]

(* Without capped lists, the only case an import is possible in, a payload *)
(* is the one its fingerprint was computed from, or empty.                 *)
ImportedAreWhole ==
    Long \cup AtCap = {} =>
        /\ truncated = {}
        /\ \A d \in Docs : raw[d] \in {hash[d], Emptied}
        /\ \A d \in Docs : rows[d] # None => rows[d].raw \in {rows[d].hash, Emptied}

(* The normalizer holds something only while it runs; what it has selected *)
(* or treated is still in the queue, and treated once.                     *)
NormalizerHolds ==
    /\ phase # "normalize" => copied = {} /\ done = {} /\ \A d \in Docs : rows[d] = None
    /\ phase = "normalize" => selection \cup done \subseteq queued /\ selection \cap done = {}
    /\ \A d \in Docs : rows[d] # None => d \in selection
    /\ \A d \in Docs \ done : pending[d] = NoEffect

(* What was read of a row: what it still holds if it was not marked again, *)
(* and its last content if its fingerprint is the same.                    *)
ReadingsHold ==
    \A d \in Docs : rows[d] # None =>
        /\ rows[d].raw # Emptied => raw[d] # Emptied
        /\ d \in copied => rows[d].raw = raw[d] /\ rows[d].hash = hash[d]
        /\ hash[d] = rows[d].hash /\ rows[d].raw # Emptied => rows[d].raw.content = last[d]

(* The record that is about to be written is that of the last payload.     *)
Normalizes(d) ==
    IF last[d] \in Refused THEN pending[d].record = None
    ELSE pending[d].record # None /\ pending[d].record.content = last[d]

(* A payload is about to be emptied, or a mark to leave, only with the     *)
(* last content on its way to the record, or in it.                        *)
EffectsHold ==
    \A d \in Docs :
        /\ pending[d].cleared => pending[d].written /\ Normalizes(d)
        /\ pending[d].written => raw[d] # Emptied
        /\ d \in done \cap copied =>
              IF pending[d].written THEN Normalizes(d) ELSE Normalized(d) \/ d \in pruned

IInv ==
    /\ TypeOK /\ MergesAreDirect /\ RowsAreWhole /\ ImportedAreWhole
    /\ NormalizerHolds /\ ReadingsHold /\ EffectsHold
    /\ NoPayloadLost /\ ContentReachesRecord

------------------------------------------------------------------------------
(* The payloads                                                            *)

(* An emptied payload and a missing one are none of the payloads, and a    *)
(* missing reading none of the readings.                                   *)
LEMMA EmptiedIsNoPayload ==
    /\ Emptied \notin Payloads
    /\ None \notin Payloads /\ None # Emptied /\ None \notin Contents
    /\ \A p \in Payloads : p.content \in Contents /\ p # None /\ p # Emptied
    /\ NoEffect \in Effects
    /\ NoEffect.cleared = FALSE /\ NoEffect.written = FALSE
<1>1. Emptied \notin Payloads BY NoneAssumption DEF Emptied, Payloads
<1> QED BY <1>1, NoneAssumption DEF Emptied, Payloads, NoEffect, Effects

(* The answers of a source are payloads.                                   *)
LEMMA AnswersArePayloads ==
    \A c \in Contents :
        /\ Listed(c) \in Payloads /\ Listed(c).content = c
        /\ Whole(c) \in Payloads /\ Whole(c).content = c
        /\ MayBeTruncated(c) \in BOOLEAN
BY DEF Listed, Whole, Payloads, MayBeTruncated

(* Nothing is staged, queued or read at first.                             *)
LEMMA InitKeeps == Init => IInv
<1> SUFFICES ASSUME Init PROVE IInv OBVIOUS
<1> USE DEF Init
<1>1. TypeOK
  BY EmptiedIsNoPayload, ContentsAssumption, BoundsAssumption DEF TypeOK, Staged
<1>2. MergesAreDirect BY ContentsAssumption DEF MergesAreDirect
<1>3. RowsAreWhole BY EmptiedIsNoPayload DEF RowsAreWhole
<1>4. ImportedAreWhole BY DEF ImportedAreWhole
<1>5. NormalizerHolds BY DEF NormalizerHolds
<1>6. ReadingsHold BY DEF ReadingsHold
<1>7. EffectsHold BY EmptiedIsNoPayload DEF EffectsHold
<1>8. NoPayloadLost BY EmptiedIsNoPayload DEF NoPayloadLost
<1>9. ContentReachesRecord BY DEF ContentReachesRecord, Staged
<1> QED BY <1>1, <1>2, <1>3, <1>4, <1>5, <1>6, <1>7, <1>8, <1>9 DEF IInv

------------------------------------------------------------------------------
(* The writes of staging                                                   *)

(* A write of staging comes while the normalizer does not run, and its     *)
(* phase goes on or ends; or from an import, beside a phase it leaves.     *)
Beside ==
    \/ phase # "normalize" /\ phase' # "normalize"
    \/ phase' = phase /\ selection' = selection /\ Long \cup AtCap = {}

(* An upsert keeps the invariant.                                          *)
LEMMA UpsertKeeps ==
    ASSUME IInv, TypeOK',
           NEW d \in Docs, NEW p \in Payloads, NEW capped \in BOOLEAN, NEW absent \in SUBSET Docs,
           Upsert(d, p, capped, absent),
           Long \cup AtCap = {} => ~ capped,
           Beside,
           UNCHANGED <<src, normalizerVars, record, pruned>>
    PROVE  IInv'
<1> USE DEF IInv
<1> DEFINE trunc == IF hash[d] # p THEN capped ELSE d \in truncated
<1>1. /\ ~ pending[d].cleared
      /\ raw' = IF hash[d] # p THEN [raw EXCEPT ![d] = p] ELSE raw
      /\ hash' = [hash EXCEPT ![d] = p]
      /\ last' = IF hash[d] # p THEN [last EXCEPT ![d] = p.content] ELSE last
      /\ truncated' = IF trunc THEN truncated \cup {d} ELSE truncated \ {d}
      /\ queued' = queued \cup IF hash[d] # p /\ ~ trunc THEN {d} ELSE {}
      /\ copied' = copied \ IF hash[d] # p /\ ~ trunc THEN {d} ELSE {}
  BY DEF Upsert, Locked, Enqueue, ToQueue
<1>2. /\ rows' = rows /\ done' = done /\ pending' = pending /\ src' = src
      /\ record' = record /\ pruned' = pruned
  BY DEF normalizerVars
<1>3. /\ raw \in [Docs -> Payloads \cup {Emptied, None}]
      /\ hash \in [Docs -> Payloads \cup {None}]
      /\ last \in [Docs -> Contents \cup {None}]
  BY DEF TypeOK
<1>4. p.content \in Contents /\ p # None /\ p # Emptied BY EmptiedIsNoPayload
<1> HIDE DEF trunc
<1>5. MergesAreDirect' BY <1>2 DEF MergesAreDirect
<1>6. RowsAreWhole' BY <1>1, <1>3, <1>4 DEF RowsAreWhole
<1>7. ImportedAreWhole'
  BY <1>1, <1>2, <1>3, <1>4 DEF ImportedAreWhole, trunc
<1>8. NormalizerHolds'
  BY <1>1, <1>2 DEF NormalizerHolds, Beside
<1>9. ReadingsHold'
  <2> SUFFICES ASSUME NEW e \in Docs, rows[e] # None
               PROVE  /\ rows[e].raw # Emptied => raw'[e] # Emptied
                      /\ e \in copied' => rows[e].raw = raw'[e] /\ rows[e].hash = hash'[e]
                      /\ hash'[e] = rows[e].hash /\ rows[e].raw # Emptied
                            => rows[e].raw.content = last'[e]
    BY <1>2 DEF ReadingsHold
  <2>1. phase = "normalize" /\ Long \cup AtCap = {} BY DEF Beside, NormalizerHolds
  <2>2. truncated = {} /\ rows[e].raw \in {rows[e].hash, Emptied}
    BY <2>1 DEF ImportedAreWhole
  <2>3. CASE hash[d] # p
    BY <1>1, <1>3, <1>4, <2>1, <2>2, <2>3 DEF ReadingsHold, trunc
  <2>4. CASE hash[d] = p
    BY <1>1, <1>3, <1>4, <2>4 DEF ReadingsHold
  <2> QED BY <2>3, <2>4
<1>10. EffectsHold'
  <2> SUFFICES ASSUME NEW e \in Docs
               PROVE  /\ pending[e].cleared => pending[e].written /\ Normalizes(e)'
                      /\ pending[e].written => raw'[e] # Emptied
                      /\ e \in done \cap copied' =>
                            IF pending[e].written THEN Normalizes(e)'
                            ELSE Normalized(e)' \/ e \in pruned
    BY <1>2 DEF EffectsHold
  <2>1. CASE hash[d] = p \/ e # d
    <3>1. last'[e] = last[e] /\ raw'[e] = raw[e] /\ (e \in copied' => e \in copied)
      BY <1>1, <1>3, <2>1
    <3>2. Normalizes(e)' = Normalizes(e) /\ Normalized(e)' = Normalized(e)
      BY <1>2, <3>1 DEF Normalizes, Normalized
    <3> QED BY <3>1, <3>2 DEF EffectsHold
  <2>2. CASE hash[d] # p /\ e = d
    <3>1. raw'[e] # Emptied BY <1>1, <1>3, <1>4, <2>2
    <3>2. e \notin done \cap copied'
      <4>1. CASE phase # "normalize" BY <4>1 DEF NormalizerHolds
      <4>2. CASE Long \cup AtCap = {} BY <1>1, <2>2, <4>2 DEF trunc
      <4> QED BY <4>1, <4>2 DEF Beside
    <3> QED BY <1>1, <2>2, <3>1, <3>2
  <2> QED BY <2>1, <2>2
<1>11. NoPayloadLost' /\ ContentReachesRecord'
  <2> SUFFICES ASSUME NEW e \in Docs
               PROVE  /\ raw'[e] = Emptied => Normalized(e)' \/ e \in pruned
                      /\ e \notin queued' \cup truncated' \cup pruned /\ Staged(e)' => Normalized(e)'
    BY <1>2 DEF NoPayloadLost, ContentReachesRecord
  <2>1. CASE hash[d] = p \/ e # d
    <3>1. last'[e] = last[e] /\ raw'[e] = raw[e] /\ hash'[e] = hash[e]
      BY <1>1, <1>3, <2>1
    <3>2. e \notin queued' \cup truncated' => e \notin queued \cup truncated
      BY <1>1, <2>1 DEF trunc
    <3>3. Normalized(e)' = Normalized(e) /\ Staged(e)' = Staged(e)
      BY <1>2, <3>1 DEF Normalized, Staged
    <3> QED BY <3>1, <3>2, <3>3 DEF NoPayloadLost, ContentReachesRecord
  <2>2. CASE hash[d] # p /\ e = d
    BY <1>1, <1>3, <1>4, <2>2 DEF trunc
  <2> QED BY <2>1, <2>2
<1> QED BY <1>5, <1>6, <1>7, <1>8, <1>9, <1>10, <1>11

(* An upsert keeps the types of staging.                                   *)
LEMMA UpsertTypes ==
    ASSUME TypeOK,
           NEW d \in Docs, NEW p \in Payloads, NEW capped \in BOOLEAN, NEW absent \in SUBSET Docs,
           Upsert(d, p, capped, absent)
    PROVE  /\ raw' \in [Docs -> Payloads \cup {Emptied, None}]
           /\ hash' \in [Docs -> Payloads \cup {None}]
           /\ last' \in [Docs -> Contents \cup {None}]
           /\ {truncated', disappeared', old', queued', copied'} \subseteq SUBSET Docs
           /\ copied' \subseteq queued'
           /\ \A e \in truncated' \cup disappeared' \cup old' \cup queued' : hash'[e] # None
<1> DEFINE trunc == IF hash[d] # p THEN capped ELSE d \in truncated
<1>1. /\ raw' = IF hash[d] # p THEN [raw EXCEPT ![d] = p] ELSE raw
      /\ hash' = [hash EXCEPT ![d] = p]
      /\ last' = IF hash[d] # p THEN [last EXCEPT ![d] = p.content] ELSE last
      /\ truncated' = IF trunc THEN truncated \cup {d} ELSE truncated \ {d}
      /\ disappeared' = (disappeared \ {d}) \cup {e \in absent : hash[e] # None}
      /\ old' = old \ {d}
      /\ queued' = queued \cup IF hash[d] # p /\ ~ trunc THEN {d} ELSE {}
      /\ copied' = copied \ IF hash[d] # p /\ ~ trunc THEN {d} ELSE {}
  BY DEF Upsert, Enqueue, ToQueue, MarkedDisappeared, Staged
<1>2. p.content \in Contents /\ p # None /\ p # Emptied BY EmptiedIsNoPayload
<1> HIDE DEF trunc
<1>3. /\ raw \in [Docs -> Payloads \cup {Emptied, None}]
      /\ hash \in [Docs -> Payloads \cup {None}]
      /\ last \in [Docs -> Contents \cup {None}]
      /\ {truncated, disappeared, old, queued, copied} \subseteq SUBSET Docs
      /\ copied \subseteq queued
      /\ \A e \in truncated \cup disappeared \cup old \cup queued : hash[e] # None
  BY DEF TypeOK, Staged
<1> QED BY <1>1, <1>2, <1>3

(* A list response is staged.                                              *)
LEMMA HarvestKeeps == ASSUME IInv, NEW d \in Docs, Harvest(d) PROVE IInv'
<1>1. /\ src[d] \in Contents /\ phase = "idle"
      /\ Upsert(d, Listed(src[d]), MayBeTruncated(src[d]), {})
      /\ UNCHANGED <<src, phase, selection, normalizerVars, record, pruned, changes, errors>>
  BY DEF Harvest
<1>2. /\ Listed(src[d]) \in Payloads /\ MayBeTruncated(src[d]) \in BOOLEAN
      /\ Long \cup AtCap = {} => ~ MayBeTruncated(src[d])
  BY <1>1, AnswersArePayloads DEF MayBeTruncated
<1>3. TypeOK'
  BY <1>1, <1>2, UpsertTypes DEF IInv, TypeOK, normalizerVars, Staged
<1> QED BY <1>1, <1>2, <1>3, UpsertKeeps DEF Beside

(* A row is imported, beside whatever runs.                                *)
LEMMA ImportKeeps == ASSUME IInv, NEW d \in Docs, NEW c \in Contents, Import(d, c) PROVE IInv'
<1>1. /\ changes < MaxChanges /\ changes' = changes + 1 /\ Long \cup AtCap = {}
      /\ Upsert(d, Whole(c), FALSE, {})
      /\ UNCHANGED <<src, phase, selection, normalizerVars, record, pruned, errors>>
  BY DEF Import
<1>2. Whole(c) \in Payloads BY AnswersArePayloads
<1>3. changes' \in 0..MaxChanges BY <1>1, BoundsAssumption DEF IInv, TypeOK
<1>4. TypeOK'
  BY <1>1, <1>2, <1>3, UpsertTypes DEF IInv, TypeOK, normalizerVars, Staged
<1> QED BY <1>1, <1>2, <1>4, UpsertKeeps DEF Beside

------------------------------------------------------------------------------
(* The lookups                                                             *)

(* The end of a request leaves the phase, or ends it.                      *)
LEMMA AnswerIsBeside ==
    ASSUME IInv, NEW p \in {"stale", "truncated"}, NEW d \in Docs, Answered(p, d)
    PROVE  /\ phase # "normalize" /\ phase' # "normalize"
           /\ phase' \in {"idle", "stale", "truncated", "normalize"}
           /\ selection' \in SUBSET Docs
           /\ UNCHANGED <<src, rows, done, pending, record, pruned, changes, errors>>
BY DEF Answered, IInv, TypeOK, normalizerVars

(* What the source returns is a document of it, or nothing.                *)
LEMMA ReturnedInContents ==
    ASSUME IInv, NEW d \in Docs, NEW e \in Returned(d)
    PROVE  e \in Docs /\ src[e] \in Contents /\ AbsentAfter(d) \in SUBSET Docs
BY DEF IInv, TypeOK, MergesAreDirect, Returned, AbsentAfter

(* Away from the normalizer, a lookup keeps the invariant if it keeps the  *)
(* types, the shape of the rows, and what is known of emptied and of       *)
(* settled rows.                                                           *)
LEMMA LookupKeeps ==
    ASSUME IInv, TypeOK',
           phase # "normalize", phase' # "normalize", copied' \subseteq copied,
           UNCHANGED <<src, rows, done, pending, record, pruned>>,
           RowsAreWhole',
           Long \cup AtCap = {} => truncated' = {} /\ \A d \in Docs : raw'[d] \in {hash'[d], Emptied},
           NoPayloadLost', ContentReachesRecord'
    PROVE  IInv'
<1> USE DEF IInv
<1>1. copied' = {} /\ done = {} /\ \A d \in Docs : rows[d] = None BY DEF NormalizerHolds
<1>2. \A d \in Docs : pending[d] = NoEffect BY <1>1 DEF NormalizerHolds
<1>3. MergesAreDirect' BY DEF MergesAreDirect
<1>4. ImportedAreWhole' BY <1>1 DEF ImportedAreWhole
<1>5. NormalizerHolds' BY <1>1, <1>2 DEF NormalizerHolds
<1>6. ReadingsHold' BY <1>1 DEF ReadingsHold
<1>7. EffectsHold' BY <1>1, <1>2, EmptiedIsNoPayload DEF EffectsHold
<1> QED BY <1>3, <1>4, <1>5, <1>6, <1>7

(* A source that has not the document.                                     *)
LEMMA NotFoundKeeps ==
    ASSUME IInv, NEW p \in {"stale", "truncated"}, NEW d \in Docs, Answered(p, d), NotFound(d)
    PROVE  IInv'
<1>1. /\ disappeared' = disappeared \cup {e \in {d} : hash[e] # None}
      /\ UNCHANGED <<raw, hash, last, truncated, old, queued, copied>>
  BY DEF NotFound, MarkedDisappeared, Staged
<1>2. TypeOK' BY <1>1, AnswerIsBeside DEF IInv, TypeOK, Staged
<1>3. RowsAreWhole' BY <1>1 DEF IInv, RowsAreWhole
<1>4. Long \cup AtCap = {} => truncated' = {} /\ \A e \in Docs : raw'[e] \in {hash'[e], Emptied}
  BY <1>1 DEF IInv, ImportedAreWhole
<1>5. NoPayloadLost' /\ ContentReachesRecord'
  BY <1>1, AnswerIsBeside DEF IInv, NoPayloadLost, ContentReachesRecord, Normalized, Staged
<1> QED BY <1>1, <1>2, <1>3, <1>4, <1>5, AnswerIsBeside, LookupKeeps

(* A stale document is read again.                                         *)
LEMMA RereadKeeps == ASSUME IInv, NEW d \in Docs, Reread(d) PROVE IInv'
<1>1. Answered("stale", d) BY DEF Reread
<1>2. CASE NotFound(d) BY <1>1, <1>2, NotFoundKeeps
<1>3. ASSUME NEW e \in Returned(d), Upsert(e, Whole(src[e]), FALSE, AbsentAfter(d)) PROVE IInv'
  <2>1. e \in Docs /\ src[e] \in Contents /\ AbsentAfter(d) \in SUBSET Docs BY ReturnedInContents
  <2>2. Whole(src[e]) \in Payloads BY <2>1, AnswersArePayloads
  <2>3. TypeOK'
    BY <1>1, <1>3, <2>1, <2>2, UpsertTypes, AnswerIsBeside DEF IInv, TypeOK, Staged
  <2> QED BY <1>1, <1>3, <2>1, <2>2, <2>3, UpsertKeeps, AnswerIsBeside DEF Beside, normalizerVars
<1> QED BY <1>2, <1>3 DEF Reread

(* The marker of a document at the cap or below is removed.                *)
LEMMA ClearTruncatedKeeps ==
    ASSUME IInv, NEW d \in Docs, Answered("truncated", d), NEW e \in Docs,
           disappeared' = disappeared \cup MarkedDisappeared(AbsentAfter(d)),
           AbsentAfter(d) \in SUBSET Docs,
           ClearTruncated(e)
    PROVE  IInv'
<1>1. /\ truncated' = truncated \ {e}
      /\ queued' = queued \cup ({e} \cap truncated) /\ copied' = copied \ ({e} \cap truncated)
      /\ UNCHANGED <<raw, hash, last, old>>
      /\ disappeared' = disappeared \cup {f \in AbsentAfter(d) : hash[f] # None}
  BY DEF ClearTruncated, Enqueue, MarkedDisappeared, Staged
<1>2. TypeOK' BY <1>1, AnswerIsBeside DEF IInv, TypeOK, Staged
<1>3. RowsAreWhole' BY <1>1 DEF IInv, RowsAreWhole
<1>4. Long \cup AtCap = {} => truncated' = {} /\ \A f \in Docs : raw'[f] \in {hash'[f], Emptied}
  BY <1>1 DEF IInv, ImportedAreWhole
<1>5. NoPayloadLost' /\ ContentReachesRecord'
  BY <1>1, AnswerIsBeside DEF IInv, NoPayloadLost, ContentReachesRecord, Normalized, Staged
<1> QED BY <1>1, <1>2, <1>3, <1>4, <1>5, AnswerIsBeside, LookupKeeps

(* The authors of a document above the cap are completed.                  *)
LEMMA CompleteAuthorsKeeps ==
    ASSUME IInv, NEW d \in Docs, Answered("truncated", d), NEW e \in Docs, src[e] \in Long,
           disappeared' = disappeared \cup MarkedDisappeared(AbsentAfter(d)),
           AbsentAfter(d) \in SUBSET Docs,
           CompleteAuthors(e, Whole(src[e]))
    PROVE  IInv'
<1> DEFINE p == Whole(src[e])
<1>1. /\ raw' = IF hash[e] # None THEN [raw EXCEPT ![e] = p] ELSE raw
      /\ last' = IF hash[e] # None THEN [last EXCEPT ![e] = p.content] ELSE last
      /\ truncated' = truncated \ {e} /\ old' = old \ {e}
      /\ queued' = queued \cup {f \in {e} : hash[f] # None}
      /\ copied' = copied \ {f \in {e} : hash[f] # None}
      /\ hash' = hash
      /\ disappeared' = disappeared \cup {f \in AbsentAfter(d) : hash[f] # None}
  BY DEF CompleteAuthors, Enqueue, MarkedDisappeared, Staged
<1>2. p \in Payloads /\ p.content \in Contents /\ p # None /\ p # Emptied /\ Long # {}
  BY AnswersArePayloads, EmptiedIsNoPayload, ContentsAssumption
<1> HIDE DEF p
<1>3. TypeOK' BY <1>1, <1>2, AnswerIsBeside DEF IInv, TypeOK, Staged
<1>4. RowsAreWhole' BY <1>1, <1>2 DEF IInv, RowsAreWhole, TypeOK
<1>5. NoPayloadLost' /\ ContentReachesRecord'
  <2>1. \A f \in Docs \ {e} : raw'[f] = raw[f] /\ last'[f] = last[f] BY <1>1 DEF IInv, TypeOK
  <2>2. hash[e] # None => raw'[e] # Emptied /\ e \in queued' BY <1>1, <1>2 DEF IInv, TypeOK
  <2>3. hash[e] = None => raw'[e] # Emptied
    BY <1>1, EmptiedIsNoPayload DEF IInv, TypeOK, RowsAreWhole
  <2> QED BY <1>1, <2>1, <2>2, <2>3, AnswerIsBeside
          DEF IInv, NoPayloadLost, ContentReachesRecord, Normalized, Staged
<1> QED BY <1>1, <1>2, <1>3, <1>4, <1>5, AnswerIsBeside, LookupKeeps

(* A truncated document is completed.                                      *)
LEMMA CompleteKeeps == ASSUME IInv, NEW d \in Docs, Complete(d) PROVE IInv'
<1>1. Answered("truncated", d) BY DEF Complete
<1>2. CASE NotFound(d) BY <1>1, <1>2, NotFoundKeeps
<1>3. ASSUME NEW e \in Returned(d),
             disappeared' = disappeared \cup MarkedDisappeared(AbsentAfter(d)),
             IF src[e] \in Long THEN CompleteAuthors(e, Whole(src[e])) ELSE ClearTruncated(e)
      PROVE  IInv'
  BY <1>1, <1>3, ReturnedInContents, CompleteAuthorsKeeps, ClearTruncatedKeeps
<1> QED BY <1>2, <1>3 DEF Complete

(* A phase selects its rows, the normalizer those of the queue; a source   *)
(* that cannot answer leaves a document.                                   *)
LEMMA SelectionKeeps ==
    ASSUME IInv, \/ \E years \in SUBSET (Docs \X Contents) : SelectStale(years)
                 \/ SelectTruncated
                 \/ Snapshot
                 \/ \E d \in Docs : Unanswered(d)
    PROVE  IInv'
<1>1. /\ phase # "normalize"
      /\ phase' \in {"idle", "stale", "truncated", "normalize"}
      /\ selection' \in SUBSET Docs
      /\ phase' # "normalize" => copied' = copied
      /\ phase' = "normalize" => copied' = queued /\ selection' = queued
      /\ UNCHANGED <<src, raw, hash, last, truncated, disappeared, old, queued, rows, done, pending,
                     record, pruned, changes>>
  BY DEF SelectStale, SelectTruncated, Snapshot, Select, Unanswered, Stale, ToComplete, IInv, TypeOK,
         stagingVars, normalizerVars
<1>2. errors' \in 0..MaxErrors
  BY BoundsAssumption DEF SelectStale, SelectTruncated, Snapshot, Select, Unanswered, IInv, TypeOK
<1>3. TypeOK' BY <1>1, <1>2 DEF IInv, TypeOK, Staged
<1>4. /\ done = {} /\ \A d \in Docs : rows[d] = None /\ pending[d] = NoEffect
  BY <1>1 DEF IInv, NormalizerHolds
<1>5. (MergesAreDirect /\ RowsAreWhole /\ ImportedAreWhole)'
  BY <1>1 DEF IInv, MergesAreDirect, RowsAreWhole, ImportedAreWhole
<1>6. NormalizerHolds' BY <1>1, <1>4 DEF IInv, NormalizerHolds
<1>7. (ReadingsHold /\ EffectsHold)' BY <1>1, <1>4, EmptiedIsNoPayload DEF ReadingsHold, EffectsHold
<1>8. (NoPayloadLost /\ ContentReachesRecord)'
  BY <1>1 DEF IInv, NoPayloadLost, ContentReachesRecord, Normalized, Staged
<1> QED BY <1>3, <1>5, <1>6, <1>7, <1>8 DEF IInv

------------------------------------------------------------------------------
(* The normalizer                                                          *)

(* A row of the queue is read.                                             *)
LEMMA ReadKeeps == ASSUME IInv, NEW d \in Docs, Read(d) PROVE IInv'
<1> USE DEF IInv
<1>1. /\ phase = "normalize" /\ d \in selection
      /\ rows' = [rows EXCEPT ![d] = [raw |-> raw[d], hash |-> hash[d]]]
      /\ UNCHANGED <<src, raw, hash, last, truncated, disappeared, old, queued, copied, phase,
                     selection, done, pending, record, pruned, changes, errors>>
  BY DEF Read, stagingVars
<1>2. /\ hash[d] # None /\ raw[d] # None /\ last[d] \in Contents
      /\ hash[d] \in Payloads /\ raw[d] \in Payloads \cup {Emptied}
  BY <1>1 DEF NormalizerHolds, TypeOK, Staged, RowsAreWhole
<1>3. \A e \in Docs : rows'[e] = IF e = d THEN [raw |-> raw[d], hash |-> hash[d]] ELSE rows[e]
  BY <1>1 DEF TypeOK
<1>4. TypeOK' BY <1>1, <1>2 DEF TypeOK, Staged
<1>5. (MergesAreDirect /\ RowsAreWhole)' BY <1>1 DEF MergesAreDirect, RowsAreWhole
<1>6. ImportedAreWhole' BY <1>1, <1>3 DEF ImportedAreWhole
<1>7. NormalizerHolds' BY <1>1, <1>3 DEF NormalizerHolds
<1>8. ReadingsHold' BY <1>1, <1>2, <1>3 DEF ReadingsHold, RowsAreWhole
<1>9. EffectsHold'
  BY <1>1 DEF EffectsHold, Normalizes, Normalized
<1>10. (NoPayloadLost /\ ContentReachesRecord)'
  BY <1>1 DEF NoPayloadLost, ContentReachesRecord, Normalized, Staged
<1> QED BY <1>4, <1>5, <1>6, <1>7, <1>8, <1>9, <1>10

(* A row leaves the hands of the normalizer.                               *)
LEMMA ReleasedReadingsHold ==
    ASSUME IInv, NEW d \in Docs, rows' = [rows EXCEPT ![d] = None],
           UNCHANGED <<raw, hash, last, copied>>
    PROVE  ReadingsHold' /\ \A e \in Docs : rows'[e] = IF e = d THEN None ELSE rows[e]
BY DEF IInv, TypeOK, ReadingsHold

(* A row is treated: its record is to be written, its payload to be        *)
(* emptied, unless it had been emptied already.                            *)
LEMMA ProcessKeeps == ASSUME IInv, NEW d \in Docs, Process(d) PROVE IInv'
<1> USE DEF IInv
<1> DEFINE p == rows[d].raw
           effect == [written |-> TRUE,
                      record |-> IF p.content \in Refused THEN None ELSE p,
                      cleared |-> hash[d] = rows[d].hash]
<1>1. /\ rows[d] # None /\ d \in selection
      /\ selection' = selection \ {d}
      /\ done' = done \cup {d}
      /\ rows' = [rows EXCEPT ![d] = None]
      /\ pending' = IF p = Emptied THEN pending ELSE [pending EXCEPT ![d] = effect]
      /\ UNCHANGED <<src, raw, hash, last, truncated, disappeared, old, queued, copied, phase,
                     record, pruned, changes, errors>>
  BY DEF Process, stagingVars, Clears
<1>2. phase = "normalize" /\ d \in queued /\ d \notin done /\ pending[d] = NoEffect
  BY <1>1 DEF NormalizerHolds
<1>3. p \in Payloads \cup {Emptied} BY <1>1 DEF TypeOK
<1>4. p # Emptied => p \in Payloads /\ p.content \in Contents /\ p # None
  BY <1>3, EmptiedIsNoPayload
<1>5. p # Emptied => effect \in Effects
  BY <1>4 DEF Effects
<1>6. /\ p # Emptied => raw[d] # Emptied
      /\ d \in copied => p = raw[d]
      /\ hash[d] = rows[d].hash /\ p # Emptied => p.content = last[d]
  BY <1>1 DEF ReadingsHold
<1>7. \A e \in Docs \ {d} : pending'[e] = pending[e] BY <1>1 DEF TypeOK
<1>8. /\ p # Emptied => pending'[d] = effect
      /\ p = Emptied => pending'[d] = NoEffect
  BY <1>1, <1>2 DEF TypeOK
<1>9. pending' \in [Docs -> Effects] BY <1>1, <1>5 DEF TypeOK
<1>10. /\ effect.written = TRUE /\ effect.cleared = (hash[d] = rows[d].hash)
       /\ effect.record = IF p.content \in Refused THEN None ELSE p
  OBVIOUS
<1>11. hash[d] # None /\ (d \in copied => rows[d].hash = hash[d])
  BY <1>1, <1>2 DEF ReadingsHold, TypeOK, Staged
<1> HIDE DEF effect, p
<1>12. TypeOK' BY <1>1, <1>9 DEF TypeOK, Staged
<1>13. (MergesAreDirect /\ RowsAreWhole)' BY <1>1 DEF MergesAreDirect, RowsAreWhole
<1>14. ReadingsHold' /\ \A e \in Docs : rows'[e] = IF e = d THEN None ELSE rows[e]
  BY <1>1, ReleasedReadingsHold
<1>15. ImportedAreWhole' BY <1>1, <1>14 DEF ImportedAreWhole
<1>16. NormalizerHolds' BY <1>1, <1>2, <1>7, <1>14 DEF NormalizerHolds
<1>17. EffectsHold'
  <2> SUFFICES ASSUME NEW e \in Docs
               PROVE  /\ pending'[e].cleared => pending'[e].written /\ Normalizes(e)'
                      /\ pending'[e].written => raw[e] # Emptied
                      /\ e \in done' \cap copied =>
                            IF pending'[e].written THEN Normalizes(e)'
                            ELSE Normalized(e) \/ e \in pruned
    BY <1>1 DEF EffectsHold, Normalized
  <2>1. CASE e # d
    BY <1>1, <1>7, <2>1 DEF EffectsHold, Normalizes
  <2>2. CASE e = d /\ p # Emptied
    <3>1. p.content = last[d] => Normalizes(d)'
      BY <1>1, <1>4, <1>8, <1>10, <2>2 DEF Normalizes
    <3> QED BY <1>6, <1>8, <1>10, <1>11, <2>2, <3>1
  <2>3. CASE e = d /\ p = Emptied
    <3>1. d \in copied => Normalized(d) \/ d \in pruned BY <1>6, <2>3 DEF NoPayloadLost
    <3> QED BY <1>8, <2>3, <3>1, EmptiedIsNoPayload
  <2> QED BY <2>1, <2>2, <2>3
<1>18. (NoPayloadLost /\ ContentReachesRecord)'
  BY <1>1 DEF NoPayloadLost, ContentReachesRecord, Normalized, Staged
<1> QED BY <1>12, <1>13, <1>14, <1>15, <1>16, <1>17, <1>18

(* A row in error is left, nothing of it is done.                          *)
LEMMA RowErrorKeeps == ASSUME IInv, NEW d \in Docs, RowError(d) PROVE IInv'
<1> USE DEF IInv
<1>1. /\ d \in selection /\ selection' = selection \ {d}
      /\ rows' = [rows EXCEPT ![d] = None]
      /\ errors < MaxErrors /\ errors' = errors + 1
      /\ UNCHANGED <<src, raw, hash, last, truncated, disappeared, old, queued, copied, phase,
                     done, pending, record, pruned, changes>>
  BY DEF RowError, stagingVars
<1>2. errors' \in 0..MaxErrors BY <1>1, BoundsAssumption DEF TypeOK
<1>3. TypeOK' BY <1>1, <1>2 DEF TypeOK, Staged
<1>4. ReadingsHold' /\ \A e \in Docs : rows'[e] = IF e = d THEN None ELSE rows[e]
  BY <1>1, ReleasedReadingsHold
<1>5. (MergesAreDirect /\ RowsAreWhole)' BY <1>1 DEF MergesAreDirect, RowsAreWhole
<1>6. ImportedAreWhole' BY <1>1, <1>4 DEF ImportedAreWhole
<1>7. NormalizerHolds' BY <1>1, <1>4 DEF NormalizerHolds
<1>8. EffectsHold' BY <1>1 DEF EffectsHold, Normalizes, Normalized
<1>9. (NoPayloadLost /\ ContentReachesRecord)'
  BY <1>1 DEF NoPayloadLost, ContentReachesRecord, Normalized, Staged
<1> QED BY <1>3, <1>4, <1>5, <1>6, <1>7, <1>8, <1>9

(* A batch is committed: records written, payloads emptied, marks treated. *)
LEMMA CommitKeeps == ASSUME IInv, Commit PROVE IInv'
<1> USE DEF IInv
<1>1. /\ queued' = queued \ (done \cap copied) /\ copied' = copied \ (done \cap copied)
      /\ done' = {}
      /\ raw' = [d \in Docs |-> IF pending[d].cleared THEN Emptied ELSE raw[d]]
      /\ record' = [d \in Docs |-> IF pending[d].written THEN pending[d].record ELSE record[d]]
      /\ pruned' = {d \in pruned : ~ pending[d].written}
      /\ pending' = [d \in Docs |-> NoEffect]
      /\ UNCHANGED <<src, hash, last, truncated, disappeared, old, phase, selection, rows, changes,
                     errors>>
  BY DEF Commit, Forgotten
<1>2. \A d \in Docs : pending[d].cleared \in BOOLEAN /\ pending[d].written \in BOOLEAN
                      /\ pending[d].record \in Payloads \cup {None}
  BY DEF TypeOK, Effects
<1>3. \A d \in Docs : pending[d].cleared \/ pending[d].written => d \in done
  BY EmptiedIsNoPayload DEF NormalizerHolds
<1>4. phase = "normalize" \/ done = {} BY DEF NormalizerHolds
<1>5. \A d \in done : rows[d] = None BY <1>4 DEF NormalizerHolds, TypeOK
<1>6. TypeOK'
  BY <1>1, <1>2, EmptiedIsNoPayload DEF TypeOK, Staged
<1>7. MergesAreDirect' BY <1>1 DEF MergesAreDirect
<1>8. RowsAreWhole'
  <2>1. \A d \in Docs : pending[d].cleared => raw[d] # None /\ hash[d] # None
    BY <1>3, <1>4 DEF NormalizerHolds, RowsAreWhole, TypeOK, Staged
  <2> QED BY <1>1, <2>1, EmptiedIsNoPayload DEF RowsAreWhole
<1>9. ImportedAreWhole' BY <1>1 DEF ImportedAreWhole
<1>10. NormalizerHolds' BY <1>1, <1>4, <1>5 DEF NormalizerHolds
<1>11. ReadingsHold'
  BY <1>1, <1>3, <1>5 DEF ReadingsHold
<1>12. EffectsHold' BY <1>1, EmptiedIsNoPayload DEF EffectsHold
<1>13. ASSUME NEW d \in Docs
       PROVE  /\ pending[d].written /\ Normalizes(d) => Normalized(d)'
              /\ ~ pending[d].written => Normalized(d)' = Normalized(d)
  BY <1>1 DEF Normalizes, Normalized
<1>14. NoPayloadLost'
  BY <1>1, <1>2, <1>13 DEF NoPayloadLost, EffectsHold
<1>15. ContentReachesRecord'
  <2> SUFFICES ASSUME NEW d \in Docs, d \notin queued' \cup truncated \cup pruned', hash[d] # None
               PROVE  Normalized(d)'
    BY <1>1 DEF ContentReachesRecord, Staged
  <2>1. CASE d \in done \cap copied
    BY <1>1, <1>2, <1>13, <2>1 DEF EffectsHold
  <2>2. CASE d \notin done \cap copied
    <3>1. d \notin queued BY <1>1, <2>2
    <3>2. ~ pending[d].written BY <1>3, <1>4, <3>1 DEF NormalizerHolds
    <3>3. d \notin pruned BY <1>1, <3>2
    <3> QED BY <1>13, <3>1, <3>2, <3>3 DEF ContentReachesRecord, Staged
  <2> QED BY <2>1, <2>2
<1> QED BY <1>6, <1>7, <1>8, <1>9, <1>10, <1>11, <1>12, <1>14, <1>15

(* The normalizer ends with nothing in hand, or is interrupted and leaves  *)
(* all that it had not committed.                                          *)
LEMMA EndKeeps == ASSUME IInv, Finish \/ Interrupt PROVE IInv'
<1> USE DEF IInv
<1>1. /\ phase' = "idle" /\ selection' = {} /\ copied' = {} /\ done' = {}
      /\ \A d \in Docs : rows'[d] = None
      /\ \A d \in Docs : pending'[d] = NoEffect
      /\ rows' \in [Docs -> {None}] /\ pending' \in [Docs -> Effects]
      /\ UNCHANGED <<src, raw, hash, last, truncated, disappeared, old, queued, record, pruned,
                     changes>>
  <2>1. CASE Finish
    BY <2>1, NoneAssumption DEF Finish, NormalizerHolds, TypeOK, normalizerVars
  <2>2. CASE Interrupt
    BY <2>2, EmptiedIsNoPayload DEF Interrupt, TypeOK
  <2> QED BY <2>1, <2>2
<1>2. errors' \in 0..MaxErrors BY BoundsAssumption DEF Finish, Interrupt, TypeOK
<1>3. TypeOK' BY <1>1, <1>2 DEF TypeOK, Staged
<1>4. (MergesAreDirect /\ RowsAreWhole /\ ImportedAreWhole)'
  BY <1>1 DEF MergesAreDirect, RowsAreWhole, ImportedAreWhole
<1>5. NormalizerHolds' BY <1>1 DEF NormalizerHolds
<1>6. (ReadingsHold /\ EffectsHold)' BY <1>1, EmptiedIsNoPayload DEF ReadingsHold, EffectsHold
<1>7. (NoPayloadLost /\ ContentReachesRecord)'
  BY <1>1 DEF NoPayloadLost, ContentReachesRecord, Normalized, Staged
<1> QED BY <1>3, <1>4, <1>5, <1>6, <1>7

(* The records of the documents that disappeared are removed.              *)
LEMMA PruneKeeps == ASSUME IInv, Prune PROVE IInv'
<1> USE DEF IInv
<1>1. /\ phase = "idle"
      /\ record' = [d \in Docs |-> IF d \in disappeared THEN None ELSE record[d]]
      /\ pruned' = pruned \cup {d \in disappeared : record[d] # None}
      /\ UNCHANGED <<src, raw, hash, last, truncated, disappeared, old, queued, copied, phase,
                     selection, rows, done, pending, changes, errors>>
  BY DEF Prune, stagingVars, normalizerVars
<1>2. TypeOK' BY <1>1 DEF TypeOK, Staged
<1>3. (MergesAreDirect /\ RowsAreWhole /\ ImportedAreWhole /\ NormalizerHolds /\ ReadingsHold)'
  BY <1>1 DEF MergesAreDirect, RowsAreWhole, ImportedAreWhole, NormalizerHolds, ReadingsHold
<1>4. EffectsHold'
  BY <1>1, EmptiedIsNoPayload DEF EffectsHold, NormalizerHolds
<1>5. \A d \in Docs : Normalized(d) => Normalized(d)' \/ d \in pruned'
  BY <1>1 DEF Normalized
<1>6. (NoPayloadLost /\ ContentReachesRecord)'
  BY <1>1, <1>5 DEF NoPayloadLost, ContentReachesRecord, Staged
<1> QED BY <1>2, <1>3, <1>4, <1>6

------------------------------------------------------------------------------
(* The source, time, and the whole                                         *)

(* The source changes, or time passes, without a write but of dates.       *)
LEMMA SourceKeeps == ASSUME IInv, Source PROVE IInv'
<1> USE DEF IInv
<1>1. /\ UNCHANGED <<raw, hash, last, truncated, disappeared, queued, copied, phase, selection,
                     rows, done, pending, record, pruned, errors>>
      /\ src' \in [Docs -> Contents \cup Docs \cup {Absent}]
      /\ old' \in SUBSET Docs /\ \A d \in old' : hash[d] # None
  BY DEF Source, Ages, SourceChanges, stagingVars, normalizerVars, TypeOK, Staged
<1>2. changes' \in 0..MaxChanges
  BY BoundsAssumption DEF Source, Ages, SourceChanges, TypeOK
<1>3. TypeOK' BY <1>1, <1>2 DEF TypeOK, Staged
<1>4. MergesAreDirect'
  <2>1. CASE \E d \in Docs : Ages(d) BY <2>1 DEF Ages, MergesAreDirect
  <2>2. ASSUME NEW d \in Docs, NEW v \in Contents \cup Docs \cup {Absent}, SourceChanges(d, v)
        PROVE  MergesAreDirect'
    BY <2>2, ContentsAssumption DEF SourceChanges, MergesAreDirect, TypeOK
  <2> QED BY <2>1, <2>2 DEF Source
<1>5. (RowsAreWhole /\ ImportedAreWhole /\ NormalizerHolds /\ ReadingsHold)'
  BY <1>1 DEF RowsAreWhole, ImportedAreWhole, NormalizerHolds, ReadingsHold
<1>6. EffectsHold' BY <1>1 DEF EffectsHold, Normalizes, Normalized
<1>7. (NoPayloadLost /\ ContentReachesRecord)'
  BY <1>1 DEF NoPayloadLost, ContentReachesRecord, Normalized, Staged
<1> QED BY <1>3, <1>4, <1>5, <1>6, <1>7

(* A step that changes nothing keeps it.                                   *)
LEMMA StutterKeeps == ASSUME IInv, UNCHANGED vars PROVE IInv'
<1> USE DEF IInv, vars, stagingVars, normalizerVars
<1>1. TypeOK' BY DEF TypeOK, Staged
<1>2. (MergesAreDirect /\ RowsAreWhole /\ ImportedAreWhole /\ NormalizerHolds /\ ReadingsHold)'
  BY DEF MergesAreDirect, RowsAreWhole, ImportedAreWhole, NormalizerHolds, ReadingsHold
<1>3. EffectsHold' BY DEF EffectsHold, Normalizes, Normalized
<1>4. (NoPayloadLost /\ ContentReachesRecord)'
  BY DEF NoPayloadLost, ContentReachesRecord, Normalized, Staged
<1> QED BY <1>1, <1>2, <1>3, <1>4

(* Every step keeps the invariant.                                         *)
LEMMA NextKeeps == IInv /\ [Next]_vars => IInv'
<1> SUFFICES ASSUME IInv, [Next]_vars PROVE IInv' OBVIOUS
<1>1. CASE Source BY <1>1, SourceKeeps
<1>2. CASE \E d \in Docs : Harvest(d) \/ \E c \in Contents : Import(d, c)
  BY <1>2, HarvestKeeps, ImportKeeps
<1>3. CASE Lookups BY <1>3, SelectionKeeps, RereadKeeps, CompleteKeeps DEF Lookups
<1>4. CASE Normalization
  BY <1>4, SelectionKeeps, ReadKeeps, ProcessKeeps, RowErrorKeeps, CommitKeeps, EndKeeps, PruneKeeps
  DEF Normalization
<1>5. CASE Interrupt BY <1>5, EndKeeps
<1>6. CASE UNCHANGED vars BY <1>6, StutterKeeps
<1> QED BY <1>1, <1>2, <1>3, <1>4, <1>5, <1>6 DEF Next

LEMMA Inductive == Spec => []IInv
BY InitKeeps, NextKeeps, PTL DEF Spec

(* The columns of staging and the state of each phase keep their types,    *)
(* what is copied is in the queue, and only rows of staging are marked.    *)
THEOREM TypeCorrect == Spec => []TypeOK
<1>1. IInv => TypeOK BY DEF IInv
<1> QED BY Inductive, <1>1, PTL

(* clear_payload never empties a payload whose content is not in the       *)
(* record of its document, whatever was imported since it was read.        *)
THEOREM NoPayloadIsLost == Spec => []NoPayloadLost
<1>1. IInv => NoPayloadLost BY DEF IInv
<1> QED BY Inductive, <1>1, PTL

(* The queue, the marker of truncated lists and the removal of records     *)
(* leave no document behind: one that nothing waits for has its last       *)
(* content in its record.                                                  *)
THEOREM ContentIsReached == Spec => []ContentReachesRecord
<1>1. IInv => ContentReachesRecord BY DEF IInv
<1> QED BY Inductive, <1>1, PTL
==============================================================================

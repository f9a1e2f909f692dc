-------------------------- MODULE KeyLifecycleProofs --------------------------
(***************************************************************************)
(* Proofs about KeyLifecycle for every set of versions, every pair of      *)
(* policy files and any number of days and restarts.                       *)
(*                                                                         *)
(* None of the properties is inductive.  They rest on how a destroyed key  *)
(* hangs together with the records: a version is written once and under a  *)
(* key of its class, an envelope belongs to a record and bears its key     *)
(* version or a later one, the key of a shred manifest of this run is      *)
(* destroyed, and a destroyed key is that of a record the retention rules  *)
(* had released.                                                           *)
(***************************************************************************)
EXTENDS KeyLifecycle, TLAPS

\* What the retention rules have to say of a record before its key is destroyed.
Expired(m) == Policy[m.policy].early
              \/ (Policy[m.policy].days # 0 /\ day >= m.created + Policy[m.policy].days)
Disposable(m) == m.policy \in Policies /\ ~m.hold /\ ~Policy[m.policy].worm /\ ~RequiresWorm(m)

KeysOfTheirClass == \A v \in Versions : Exists(v) => RecordKey(v).class = versions[v].class

EnvelopesOfRecords ==
    \A v \in Versions : \A e \in envelopes[v] :
        /\ Exists(v)
        /\ e >= RecordKey(v).version
        /\ e >= MinKeyVersion

ShredsAreDestroyed ==
    \A s \in shreds :
        /\ Exists(s.version)
        /\ s.run = restarts => RecordKey(s.version) \in destroyed

DestroyedWereReleased ==
    \A k \in destroyed : \E w \in Versions :
        /\ Exists(w) /\ RecordKey(w) = k
        /\ Expired(versions[w]) /\ Disposable(versions[w])

IInv ==
    /\ TypeOK
    /\ KeysOfTheirClass
    /\ EnvelopesOfRecords
    /\ ShredsAreDestroyed
    /\ OneEvidencePerKey
    /\ DestroyedWereReleased

-----------------------------------------------------------------------------
\* What a legal hold command writes is metadata again.
LEMMA ChangedIsMetadata ==
    ASSUME NEW m \in Metadata, NEW b \in BOOLEAN, NEW p \in PolicyIds
    PROVE  /\ [m EXCEPT !.hold = b] \in Metadata
           /\ [m EXCEPT !.canonical = b] \in Metadata
           /\ [m EXCEPT !.intact = b] \in Metadata
           /\ [m EXCEPT !.policy = p] \in Metadata
<1>1. [m EXCEPT !.hold = b] \in Metadata
  BY DEF Metadata
<1>2. [m EXCEPT !.canonical = b] \in Metadata
  BY DEF Metadata
<1>3. [m EXCEPT !.intact = b] \in Metadata
  BY DEF Metadata
<1>4. [m EXCEPT !.policy = p] \in Metadata
  BY DEF Metadata
<1>5. QED
  BY <1>1, <1>2, <1>3, <1>4

LEMMA HeldIsMetadata ==
    ASSUME NEW m \in Metadata, NEW form \in BOOLEAN
    PROVE  Held(m, form) \in Metadata
<1> DEFINE b  == m.canonical /\ form
           m1 == [m EXCEPT !.hold = TRUE]
           m2 == [m1 EXCEPT !.canonical = b]
           m3 == [m2 EXCEPT !.intact = TRUE]
<1>1. Held(m, form) = m3
  BY Zenon DEF Held
<1>2. b \in BOOLEAN /\ TRUE \in BOOLEAN
  OBVIOUS
<1>3. PICK p \in PolicyIds : TRUE
  BY DEF Metadata
<1> HIDE DEF b
<1>4. m1 \in Metadata
  BY <1>2, <1>3, ChangedIsMetadata, Zenon
<1> HIDE DEF m1
<1>5. m2 \in Metadata
  BY <1>2, <1>3, <1>4, ChangedIsMetadata, Zenon
<1> HIDE DEF m2
<1>6. m3 \in Metadata
  BY <1>2, <1>3, <1>5, ChangedIsMetadata, Zenon
<1>7. QED
  BY <1>1, <1>6, Zenon

LEMMA ReleasedIsMetadata ==
    ASSUME NEW m \in Metadata, NEW form \in BOOLEAN, NEW p \in PolicyIds
    PROVE  Released(m, p, form) \in Metadata
<1> DEFINE b  == m.canonical /\ form
           m1 == [m EXCEPT !.hold = FALSE]
           m2 == [m1 EXCEPT !.policy = p]
           m3 == [m2 EXCEPT !.canonical = b]
           m4 == [m3 EXCEPT !.intact = TRUE]
<1>1. Released(m, p, form) = m4
  BY Zenon DEF Released
<1>2. b \in BOOLEAN /\ TRUE \in BOOLEAN /\ FALSE \in BOOLEAN
  OBVIOUS
<1> HIDE DEF b
<1>3. m1 \in Metadata
  BY <1>2, ChangedIsMetadata, Zenon
<1> HIDE DEF m1
<1>4. m2 \in Metadata
  BY <1>2, <1>3, ChangedIsMetadata, Zenon
<1> HIDE DEF m2
<1>5. m3 \in Metadata
  BY <1>2, <1>4, ChangedIsMetadata, Zenon
<1> HIDE DEF m3
<1>6. m4 \in Metadata
  BY <1>2, <1>5, ChangedIsMetadata, Zenon
<1>7. QED
  BY <1>1, <1>6, Zenon

\* A step of the versions writes one that was not there, under a key of its class.
LEMMA VersionsStep ==
    ASSUME VersionsTypeOK, VersionsNext
    PROVE  \E v \in Versions, m \in Metadata :
              /\ ~Exists(v)
              /\ m.key.class = m.class
              /\ versions' = [versions EXCEPT ![v] = m]
<1>1. CASE \E v \in Versions, m \in Drafts : Write(v, m)
  BY <1>1, VersionsAssumption DEF Write, GuardAccepts
<1>2. CASE \E v, w \in Versions, form \in Forms : PlaceHold(v, w, form)
  <2>1. PICK v \in Versions, w \in Versions, form \in Forms : PlaceHold(v, w, form)
    BY <1>2
  <2>2. versions[v] \in Metadata /\ form \in BOOLEAN
    BY <2>1, VersionsAssumption DEF PlaceHold, Exists, VersionsTypeOK
  <2>3. Held(versions[v], form) \in Metadata
    BY <2>2, HeldIsMetadata
  <2>4. QED
    BY <2>1, <2>3 DEF PlaceHold, Write, GuardAccepts
<1>3. CASE \E v, w \in Versions, p \in PolicyIds, form \in Forms : ReleaseHold(v, w, p, form)
  <2>1. PICK v \in Versions, w \in Versions, p \in PolicyIds, form \in Forms :
                ReleaseHold(v, w, p, form)
    BY <1>3
  <2>2. versions[v] \in Metadata /\ form \in BOOLEAN
    BY <2>1, VersionsAssumption DEF ReleaseHold, Exists, VersionsTypeOK
  <2>3. Released(versions[v], p, form) \in Metadata
    BY <2>2, ReleasedIsMetadata
  <2>4. QED
    BY <2>1, <2>3 DEF ReleaseHold, Write, GuardAccepts
<1>4. QED
  BY <1>1, <1>2, <1>3 DEF VersionsNext

\* Hence a version that is there stays as it is.
LEMMA VersionsAreKept ==
    ASSUME VersionsTypeOK, VersionsNext
    PROVE  /\ VersionsTypeOK'
           /\ \A v \in Versions : Exists(v) => versions'[v] = versions[v] /\ Exists(v)'
           /\ \A v \in Versions : Exists(v)' /\ ~Exists(v) =>
                 versions'[v].key.class = versions'[v].class
<1>1. PICK v \in Versions, m \in Metadata :
              /\ ~Exists(v)
              /\ m.key.class = m.class
              /\ versions' = [versions EXCEPT ![v] = m]
  BY VersionsStep
<1>2. VersionsTypeOK'
  BY <1>1 DEF VersionsTypeOK
<1>3. ASSUME NEW w \in Versions, Exists(w)
      PROVE  versions'[w] = versions[w] /\ Exists(w)'
  BY <1>1, <1>3 DEF Exists, VersionsTypeOK
<1>4. ASSUME NEW w \in Versions, Exists(w)', ~Exists(w)
      PROVE  versions'[w].key.class = versions'[w].class
  BY <1>1, <1>4 DEF Exists, VersionsTypeOK
<1>5. QED
  BY <1>2, <1>3, <1>4

\* What the retention rules have released has expired, and nothing forbids its disposal.
LEMMA ReleasedMeansDisposable ==
    ASSUME NEW m \in Metadata, Releasable(m), day \in Nat
    PROVE  Expired(m) /\ Disposable(m)
<1> DEFINE p == Policy[m.policy]
<1>1. p \in RetentionPolicies /\ m.created \in Nat /\ m.policy \in Policies
  BY PoliciesAssumption DEF Metadata, Releasable, Retainable
<1>2. ~m.hold /\ ~RequiresWorm(m)
  BY DEF Releasable, RequiresWorm
<1>3. ~p.worm
  BY DEF Releasable, RetentionManifest
<1>4. CASE RetentionManifest(m).early
  BY <1>4, <1>1, <1>2, <1>3 DEF RetentionManifest, Expired, Disposable
<1>5. CASE ~RetentionManifest(m).early
  <2>1. RetentionManifest(m).until # 0 /\ day >= RetentionManifest(m).until
    BY <1>5 DEF Releasable, RetentionEnded
  <2>2. RetentionManifest(m).until = IF p.days = 0 THEN 0 ELSE m.created + p.days
    BY DEF RetentionManifest
  <2>3. p.days # 0 /\ day >= m.created + p.days
    BY <2>1, <2>2
  <2>4. QED
    BY <1>1, <1>2, <1>3, <2>3 DEF Expired, Disposable
<1>6. QED
  BY <1>4, <1>5

\* The record of a version and the key of an envelope of it.
LEMMA RecordsAreTyped ==
    ASSUME TypeOK, NEW v \in Versions, Exists(v)
    PROVE  /\ versions[v] \in Metadata
           /\ RecordKey(v) \in KeyRefs
           /\ versions[v].class \in DataClasses
           /\ RecordKey(v).version \in KeyVersions
BY DEF TypeOK, VersionsTypeOK, Exists, RecordKey, Metadata, KeyRefs

LEMMA KeysAreTyped ==
    ASSUME TypeOK, KeysOfTheirClass, NEW v \in Versions, Exists(v)
    PROVE  KeyOf(v, RecordKey(v).version) = RecordKey(v)
BY RecordsAreTyped DEF KeyOf, KeysOfTheirClass, KeyRefs

-----------------------------------------------------------------------------
LEMMA InitIsGood == Init => IInv
<1> SUFFICES ASSUME Init PROVE IInv
  OBVIOUS
<1>1. TypeOK
  BY KeyAssumption DEF Init, TypeOK, NoVersions, VersionsTypeOK, EnvelopeManifests
<1>2. KeysOfTheirClass
  BY DEF Init, NoVersions, KeysOfTheirClass, Exists
<1>3. EnvelopesOfRecords
  BY DEF Init, EnvelopesOfRecords
<1>4. ShredsAreDestroyed /\ OneEvidencePerKey
  BY DEF Init, ShredsAreDestroyed, OneEvidencePerKey
<1>5. DestroyedWereReleased
  BY DEF Init, DestroyedWereReleased
<1>6. QED
  BY <1>1, <1>2, <1>3, <1>4, <1>5 DEF IInv

\* A step that leaves the keys alone: versions are only added.
LEMMA VersionsPreserve ==
    ASSUME IInv, VersionsNext, UNCHANGED keyVars
    PROVE  IInv'
<1>1. /\ VersionsTypeOK'
      /\ \A v \in Versions : Exists(v) => versions'[v] = versions[v] /\ Exists(v)'
      /\ \A v \in Versions : Exists(v)' /\ ~Exists(v) =>
            versions'[v].key.class = versions'[v].class
  BY VersionsAreKept DEF IInv, TypeOK
<1>2. TypeOK'
  BY <1>1 DEF IInv, TypeOK, keyVars, ShredManifests, RestoreDrillReports
<1>3. KeysOfTheirClass'
  BY <1>1 DEF IInv, KeysOfTheirClass, RecordKey
<1>4. EnvelopesOfRecords'
  BY <1>1 DEF IInv, EnvelopesOfRecords, RecordKey, keyVars
<1>5. \A s \in shreds : s.version \in Versions
  BY DEF IInv, TypeOK, ShredManifests
<1>6. ShredsAreDestroyed'
  BY <1>1, <1>5 DEF IInv, ShredsAreDestroyed, RecordKey, keyVars
<1>7. OneEvidencePerKey'
  BY <1>1, <1>5 DEF IInv, OneEvidencePerKey, ShredsAreDestroyed, RecordKey, keyVars
<1>8. DestroyedWereReleased'
  BY <1>1 DEF IInv, DestroyedWereReleased, RecordKey, keyVars, Expired
<1>9. QED
  BY <1>2, <1>3, <1>4, <1>6, <1>7, <1>8 DEF IInv

\* A new envelope of a record, under its key version or a later one.
LEMMA EnvelopePreserves ==
    ASSUME IInv, NEW v \in Versions, NEW e \in KeyVersions, Exists(v),
           e >= RecordKey(v).version, e >= MinKeyVersion,
           envelopes' = [envelopes EXCEPT ![v] = @ \cup {e}],
           UNCHANGED <<versions, destroyed, shreds, reports, day, restarts>>
    PROVE  IInv'
<1>1. TypeOK'
  BY DEF IInv, TypeOK, VersionsTypeOK, EnvelopeManifests, ShredManifests, RestoreDrillReports
<1>2. KeysOfTheirClass'
  BY DEF IInv, KeysOfTheirClass, RecordKey, Exists
<1>3. EnvelopesOfRecords'
  BY DEF IInv, TypeOK, EnvelopeManifests, EnvelopesOfRecords, RecordKey, Exists
<1>4. ShredsAreDestroyed' /\ OneEvidencePerKey'
  BY DEF IInv, ShredsAreDestroyed, OneEvidencePerKey, RecordKey, Exists
<1>5. DestroyedWereReleased'
  BY DEF IInv, DestroyedWereReleased, RecordKey, Exists, Expired
<1>6. QED
  BY <1>1, <1>2, <1>3, <1>4, <1>5 DEF IInv

LEMMA EncryptPreserves ==
    ASSUME IInv, NEW v \in Versions, Encrypt(v)
    PROVE  IInv'
<1>1. RecordKey(v).version \in KeyVersions /\ RecordKey(v).version \in Nat
  BY RecordsAreTyped, PoliciesAssumption DEF IInv, Encrypt
<1>2. RecordKey(v).version >= MinKeyVersion /\ RecordKey(v).version >= RecordKey(v).version
  BY <1>1 DEF Encrypt, Valid
<1>3. QED
  BY <1>1, <1>2, EnvelopePreserves DEF Encrypt

LEMMA RewrapPreserves ==
    ASSUME IInv, NEW v \in Versions, NEW e \in KeyVersions, Rewrap(v, e)
    PROVE  IInv'
<1>1. RecordKey(v).version \in Nat /\ e \in Nat
  BY RecordsAreTyped, PoliciesAssumption DEF IInv, Rewrap
<1>2. e >= RecordKey(v).version /\ e >= MinKeyVersion
  BY DEF IInv, EnvelopesOfRecords, Rewrap, Decryptable
<1>3. e + 1 >= RecordKey(v).version /\ e + 1 >= MinKeyVersion
  BY <1>1, <1>2, KeyAssumption DEF ConsistentKeyPolicy
<1>4. QED
  BY <1>3, EnvelopePreserves DEF Rewrap

-----------------------------------------------------------------------------
LEMMA ShredPreserves ==
    ASSUME IInv, NEW v \in Versions, Shred(v)
    PROVE  IInv'
<1> DEFINE s == [version |-> v, run |-> restarts]
           k == RecordKey(v)
<1>1. /\ Exists(v) /\ Releasable(versions[v])
      /\ k \notin destroyed
      /\ destroyed' = destroyed \cup {k}
      /\ shreds' = shreds \cup {s}
      /\ UNCHANGED <<versions, envelopes, reports, day, restarts>>
  BY DEF Shred, RecordKeyDestruction, Destructible, Valid, RecordKey
<1>2. /\ versions[v] \in Metadata /\ k \in KeyRefs
      /\ restarts \in Nat /\ day \in Nat
  BY <1>1, RecordsAreTyped DEF IInv, TypeOK
<1>3. \A t \in shreds : t.version \in Versions /\ t.run \in 0..restarts
  BY DEF IInv, TypeOK, ShredManifests
<1>4. TypeOK'
  <2>1. s \in ShredManifests
    BY <1>2 DEF ShredManifests
  <2>2. QED
    BY <1>1, <1>2, <2>1
    DEF IInv, TypeOK, VersionsTypeOK, ShredManifests, RestoreDrillReports
<1>5. KeysOfTheirClass' /\ EnvelopesOfRecords'
  BY <1>1 DEF IInv, KeysOfTheirClass, EnvelopesOfRecords, RecordKey, Exists
<1>6. ShredsAreDestroyed'
  BY <1>1 DEF IInv, ShredsAreDestroyed, RecordKey, Exists
<1>7. OneEvidencePerKey'
  \* The key of the new manifest was not destroyed, those of the others of this run were.
  <2>1. \A t \in shreds : t.run = s.run => RecordKey(t.version) # RecordKey(s.version)
    BY <1>1 DEF IInv, ShredsAreDestroyed
  <2>2. QED
    BY <1>1, <2>1 DEF IInv, OneEvidencePerKey, RecordKey
<1>8. DestroyedWereReleased'
  <2>1. Expired(versions[v]) /\ Disposable(versions[v])
    BY <1>1, <1>2, ReleasedMeansDisposable
  <2>2. QED
    BY <1>1, <2>1 DEF IInv, DestroyedWereReleased, RecordKey, Exists, Expired
<1>9. QED
  BY <1>4, <1>5, <1>6, <1>7, <1>8 DEF IInv

LEMMA ReportPreserves ==
    ASSUME IInv, NEW v \in Versions, NEW status \in Statuses, Report(v, status),
           UNCHANGED <<versions, destroyed, envelopes, shreds, day, restarts>>
    PROVE  IInv'
<1>1. restarts \in Nat
  BY DEF IInv, TypeOK
<1>2. TypeOK'
  BY <1>1 DEF IInv, TypeOK, VersionsTypeOK, ShredManifests, RestoreDrillReports, Report
<1>3. KeysOfTheirClass' /\ EnvelopesOfRecords'
  BY DEF IInv, KeysOfTheirClass, EnvelopesOfRecords, RecordKey, Exists
<1>4. ShredsAreDestroyed' /\ OneEvidencePerKey'
  BY DEF IInv, ShredsAreDestroyed, OneEvidencePerKey, RecordKey, Exists
<1>5. DestroyedWereReleased'
  BY DEF IInv, DestroyedWereReleased, RecordKey, Exists, Expired
<1>6. QED
  BY <1>2, <1>3, <1>4, <1>5 DEF IInv

LEMMA TickPreserves ==
    ASSUME IInv, Tick
    PROVE  IInv'
<1>1. day \in Nat /\ day' \in 0..MaxDays /\ day' >= day
  BY KeyAssumption DEF IInv, TypeOK, Tick
<1>2. TypeOK'
  BY <1>1 DEF IInv, TypeOK, VersionsTypeOK, ShredManifests, RestoreDrillReports, Tick
<1>3. KeysOfTheirClass' /\ EnvelopesOfRecords'
  BY DEF IInv, KeysOfTheirClass, EnvelopesOfRecords, RecordKey, Exists, Tick
<1>4. ShredsAreDestroyed' /\ OneEvidencePerKey'
  BY DEF IInv, ShredsAreDestroyed, OneEvidencePerKey, RecordKey, Exists, Tick
<1>5. ASSUME NEW k \in destroyed
      PROVE  \E w \in Versions : /\ Exists(w)' /\ RecordKey(w)' = k
                                 /\ Expired(versions[w])' /\ Disposable(versions[w])'
  <2>1. PICK w \in Versions : /\ Exists(w) /\ RecordKey(w) = k
                              /\ Expired(versions[w]) /\ Disposable(versions[w])
    BY DEF IInv, DestroyedWereReleased
  <2> DEFINE m == versions[w]
  <2>2. m.created \in Nat
    BY <2>1, RecordsAreTyped DEF IInv, Metadata
  <2>3. Policy[m.policy].days \in Nat
    BY <2>1, PoliciesAssumption DEF Disposable, RetentionPolicies
  <2>4. Expired(m)'
    BY <2>1, <2>2, <2>3, <1>1 DEF Expired, Tick
  <2>5. QED
    BY <2>1, <2>4 DEF Disposable, RecordKey, Exists, Tick
<1>6. DestroyedWereReleased'
  BY <1>5 DEF DestroyedWereReleased, Tick
<1>7. QED
  BY <1>2, <1>3, <1>4, <1>6 DEF IInv

\* After a restart no key is known as destroyed, and no manifest is of the new run.
LEMMA RestartPreserves ==
    ASSUME IInv, Restart
    PROVE  IInv'
<1>1. restarts \in Nat /\ restarts' = restarts + 1 /\ restarts' \in 0..MaxRestarts
  BY KeyAssumption DEF IInv, TypeOK, Restart
<1>2. \A s \in shreds : s.version \in Versions /\ s.run \in 0..restarts
  BY DEF IInv, TypeOK, ShredManifests
<1>3. TypeOK'
  BY <1>1 DEF IInv, TypeOK, VersionsTypeOK, ShredManifests, RestoreDrillReports, Restart
<1>4. KeysOfTheirClass' /\ EnvelopesOfRecords'
  BY DEF IInv, KeysOfTheirClass, EnvelopesOfRecords, RecordKey, Exists, Restart
<1>5. ShredsAreDestroyed'
  BY <1>1, <1>2 DEF IInv, ShredsAreDestroyed, Exists, Restart
<1>6. OneEvidencePerKey'
  BY DEF IInv, OneEvidencePerKey, RecordKey, Restart
<1>7. DestroyedWereReleased'
  BY DEF DestroyedWereReleased, Restart
<1>8. QED
  BY <1>3, <1>4, <1>5, <1>6, <1>7 DEF IInv

-----------------------------------------------------------------------------
LEMMA NextPreserves == IInv /\ [Next]_vars => IInv'
<1> SUFFICES ASSUME IInv, [Next]_vars PROVE IInv'
  OBVIOUS
<1>1. CASE VersionsNext /\ UNCHANGED keyVars
  BY <1>1, VersionsPreserve
<1>2. ASSUME NEW v \in Versions, Encrypt(v) PROVE IInv'
  BY <1>2, EncryptPreserves
<1>3. ASSUME NEW v \in Versions, Shred(v) PROVE IInv'
  BY <1>3, ShredPreserves
<1>4. ASSUME NEW v \in Versions, EncryptedRestoreDrill(v) PROVE IInv'
  BY <1>4, ReportPreserves DEF EncryptedRestoreDrill, Statuses
<1>5. ASSUME NEW v \in Versions, ShreddedRestoreDrill(v) PROVE IInv'
  BY <1>5, ReportPreserves DEF ShreddedRestoreDrill, Statuses
<1>6. ASSUME NEW v \in Versions, NEW e \in KeyVersions, Rewrap(v, e) PROVE IInv'
  BY <1>6, RewrapPreserves
<1>7. CASE Tick
  BY <1>7, TickPreserves
<1>8. CASE Restart
  BY <1>8, RestartPreserves
<1>9. CASE UNCHANGED vars
  <2>1. TypeOK'
    BY <1>9 DEF IInv, TypeOK, VersionsTypeOK, ShredManifests, RestoreDrillReports, vars, keyVars
  <2>2. KeysOfTheirClass' /\ EnvelopesOfRecords'
    BY <1>9 DEF IInv, KeysOfTheirClass, EnvelopesOfRecords, RecordKey, Exists, vars, keyVars
  <2>3. ShredsAreDestroyed' /\ OneEvidencePerKey'
    BY <1>9 DEF IInv, ShredsAreDestroyed, OneEvidencePerKey, RecordKey, Exists, vars, keyVars
  <2>4. DestroyedWereReleased'
    BY <1>9 DEF IInv, DestroyedWereReleased, RecordKey, Exists, Expired, vars, keyVars
  <2>5. QED
    BY <2>1, <2>2, <2>3, <2>4 DEF IInv
<1>10. QED
  BY <1>1, <1>2, <1>3, <1>4, <1>5, <1>6, <1>7, <1>8, <1>9 DEF Next

(* The facts about destroyed keys hold in every state.                        *)
THEOREM Invariant == Spec => []IInv
<1>1. Init => IInv
  BY InitIsGood
<1>2. IInv /\ [Next]_vars => IInv'
  BY NextPreserves
<1>3. QED
  BY <1>1, <1>2, PTL DEF Spec

(* Versions, manifests, reports and the clock have their types.               *)
THEOREM TypeCorrect == Spec => []TypeOK
<1>1. IInv => TypeOK
  BY DEF IInv
<1>2. QED
  BY <1>1, Invariant, PTL

(* One destruction of a key, one manifest that claims it.                     *)
THEOREM EvidenceIsUnique == Spec => []OneEvidencePerKey
<1>1. IInv => OneEvidencePerKey
  BY DEF IInv
<1>2. QED
  BY <1>1, Invariant, PTL

(* What was encrypted for a shredded version is lost to every envelope that   *)
(* bears the key version of the record.                                       *)
THEOREM ShredIsEffective == Spec => []ShreddedNeedsRewrap
<1>1. IInv => ShreddedNeedsRewrap
  <2> SUFFICES ASSUME IInv, NEW v \in Versions, Shredded(v),
                      NEW e \in envelopes[v], Decryptable(v, e)
               PROVE  e > RecordKey(v).version
    BY DEF ShreddedNeedsRewrap
  <2>1. Exists(v) /\ RecordKey(v) \in destroyed
    BY DEF IInv, ShredsAreDestroyed, Shredded
  <2>2. KeyOf(v, RecordKey(v).version) = RecordKey(v)
    BY <2>1, KeysAreTyped DEF IInv
  <2>3. e # RecordKey(v).version
    BY <2>1, <2>2 DEF Decryptable, Valid
  <2>4. e >= RecordKey(v).version /\ e \in Nat /\ RecordKey(v).version \in Nat
    BY <2>1, RecordsAreTyped, PoliciesAssumption
    DEF IInv, EnvelopesOfRecords, TypeOK, EnvelopeManifests
  <2>5. QED
    BY <2>3, <2>4
<1>2. QED
  BY <1>1, Invariant, PTL

(* Content under keys of its own is lost by the end of its retention only.    *)
THEOREM RetentionIsKept == Spec => []OwnKeyOutlivesRetention
<1>1. IInv => OwnKeyOutlivesRetention
  <2> SUFFICES ASSUME IInv, NEW v \in Versions,
                      Exists(v), envelopes[v] # {}, ~Readable(v), ~SharesKey(v)
               PROVE  Expired(versions[v]) /\ Disposable(versions[v])
    BY DEF OwnKeyOutlivesRetention, Expired, Disposable
  <2>1. PICK e \in envelopes[v] : e >= MinKeyVersion
    BY DEF IInv, EnvelopesOfRecords
  <2>2. KeyOf(v, e) \in destroyed
    BY <2>1 DEF Readable, Decryptable, Valid, KeyOf
  <2>3. PICK w \in Versions : /\ Exists(w) /\ RecordKey(w) = KeyOf(v, e)
                              /\ Expired(versions[w]) /\ Disposable(versions[w])
    BY <2>2 DEF IInv, DestroyedWereReleased
  <2>4. versions[w].class = versions[v].class /\ RecordKey(w).version = e
    BY <2>3 DEF IInv, KeysOfTheirClass, KeyOf
  <2>5. w = v
    BY <2>1, <2>3, <2>4 DEF SharesKey
  <2>6. QED
    BY <2>3, <2>5
<1>2. QED
  BY <1>1, Invariant, PTL

-----------------------------------------------------------------------------
(* Only a cryptoshred takes the last readable envelope of a version away.     *)
THEOREM OnlyShredsLose == Spec => LostOnlyByShred
<1> DEFINE Lost(v) == Readable(v) /\ ~Readable(v)'
           ByShred(v) == \E s \in shreds' \ shreds, e \in envelopes[v] :
                            Decryptable(v, e) /\ RecordKey(s.version) = KeyOf(v, e)
<1>1. IInv /\ [Next]_vars => [\A v \in Versions : Lost(v) => ByShred(v)]_vars
  <2> SUFFICES ASSUME IInv, Next, NEW v \in Versions, Lost(v) PROVE ByShred(v)
    OBVIOUS
  <2>1. PICK e \in envelopes[v] : Decryptable(v, e)
    BY DEF Readable
  <2>2. Exists(v)
    BY <2>1 DEF IInv, EnvelopesOfRecords
  \* A step after which the record, the key and the envelope are still there does not.
  <2>3. ~(/\ versions'[v] = versions[v] /\ e \in envelopes'[v]
          /\ KeyOf(v, e) \notin destroyed')
    BY <2>1 DEF Readable, Decryptable, Valid, KeyOf
  <2>4. ~(VersionsNext /\ UNCHANGED keyVars)
    BY <2>1, <2>2, <2>3, VersionsAreKept DEF IInv, TypeOK, keyVars, Decryptable, Valid
  <2>5. \A w \in Versions : ~Encrypt(w) /\ \A f \in KeyVersions : ~Rewrap(w, f)
    BY <2>1, <2>3 DEF IInv, TypeOK, EnvelopeManifests, Encrypt, Rewrap, Decryptable, Valid
  <2>6. \A w \in Versions : ~EncryptedRestoreDrill(w) /\ ~ShreddedRestoreDrill(w)
    BY <2>1, <2>3 DEF EncryptedRestoreDrill, ShreddedRestoreDrill, Decryptable, Valid
  <2>7. ~Tick /\ ~Restart
    BY <2>1, <2>3 DEF Tick, Restart, Decryptable, Valid
  <2>8. PICK w \in Versions : Shred(w)
    BY <2>4, <2>5, <2>6, <2>7 DEF Next
  <2> DEFINE s == [version |-> w, run |-> restarts]
  <2>9. /\ destroyed' = destroyed \cup {RecordKey(w)} /\ RecordKey(w) \notin destroyed
        /\ s \in shreds' /\ envelopes' = envelopes /\ versions' = versions
    BY <2>8 DEF Shred, RecordKeyDestruction, Destructible, Valid, RecordKey
  <2>10. RecordKey(w) = KeyOf(v, e)
    BY <2>1, <2>3, <2>9 DEF Decryptable, Valid
  <2>11. s \notin shreds
    BY <2>9 DEF IInv, ShredsAreDestroyed
  <2>12. QED
    BY <2>1, <2>9, <2>10, <2>11
<1>2. QED
  BY <1>1, Invariant, PTL DEF Spec, LostOnlyByShred

(* What a restore drill restores is under a key that this run has not          *)
(* destroyed.                                                                  *)
THEOREM DrillsRespectShreds == Spec => NoRestoreAfterShred
<1> DEFINE Kept(r) == \A s \in shreds : s.run = restarts =>
                          RecordKey(s.version) # RecordKey(r.version)
           New == \A r \in reports' \ reports : r.status = "restored" => Kept(r)
<1>1. IInv /\ [Next]_vars => [New]_vars
  <2> SUFFICES ASSUME IInv, Next, NEW r \in reports' \ reports, r.status = "restored"
               PROVE  Kept(r)
    OBVIOUS
  <2>1. PICK v \in Versions : EncryptedRestoreDrill(v) \/ ShreddedRestoreDrill(v)
    BY DEF Next, keyVars, Encrypt, Rewrap, Shred, Tick, Restart
  <2>2. r = [version |-> v, status |-> "restored", run |-> restarts]
        /\ EncryptedRestoreDrill(v)
    BY <2>1 DEF EncryptedRestoreDrill, ShreddedRestoreDrill, Report
  <2>3. Exists(v) /\ KeyOf(v, RecordKey(v).version) \notin destroyed
    BY <2>2 DEF EncryptedRestoreDrill, Archived, Decryptable, Valid
  <2>4. RecordKey(v) \notin destroyed
    BY <2>3, KeysAreTyped DEF IInv
  <2>5. QED
    BY <2>2, <2>4 DEF IInv, ShredsAreDestroyed
<1>2. QED
  BY <1>1, Invariant, PTL DEF Spec, NoRestoreAfterShred
=============================================================================

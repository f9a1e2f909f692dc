----------------------------- MODULE KeyLifecycle -----------------------------
(***************************************************************************)
(* What happens to the keys of stored source object versions: envelope     *)
(* encryption, rewrapping, cryptoshredding and the restore drills.  The    *)
(* versions themselves are written, held and released as in                *)
(* SourceVersions.  A key version belongs to a tenant and a data class and *)
(* is shared by the versions that name it; the local adapter knows the     *)
(* destroyed ones in memory only.  Ciphertext and manifests are kept by    *)
(* the callers and outlive a restart.  Nothing in src calls these services *)
(* from several threads: each call is a step.                              *)
(*                                                                         *)
(* One tenant; hash comparisons of manifests that belong together succeed. *)
(***************************************************************************)
EXTENDS SourceVersions

CONSTANTS
    ShreddableClasses,  \* those with cryptoshred_allowed in the key policy file
    MinKeyVersion,      \* min_key_version
    MaxDays,            \* bound on the clock
    MaxRestarts         \* bound on the restarts

\* What the validators of the key policy file accept.
ConsistentKeyPolicy ==
    /\ ShreddableClasses \subseteq DataClasses \ ProtectedClasses
    /\ MinKeyVersion \in Nat

ASSUME KeyAssumption == ConsistentKeyPolicy /\ MaxDays \in Nat /\ MaxRestarts \in Nat

VARIABLES
    destroyed,  \* key versions the adapter knows as destroyed
    envelopes,  \* of each version: the key versions with an envelope manifest
    shreds,     \* cryptoshred manifests
    reports,    \* restore drill reports
    day, restarts

keyVars == <<destroyed, envelopes, shreds, reports, day, restarts>>
vars == <<versions, keyVars>>

Statuses == {"restored", "unrecoverable_by_policy"}
EnvelopeManifests == [Versions -> SUBSET KeyVersions]
\* A manifest or a report bears its time, which tells the runs of the process apart.
ShredManifests == [version: Versions, run: 0..restarts]
RestoreDrillReports == [version: Versions, status: Statuses, run: 0..restarts]

TypeOK ==
    /\ VersionsTypeOK
    /\ destroyed \subseteq KeyRefs
    /\ envelopes \in EnvelopeManifests
    /\ shreds \subseteq ShredManifests
    /\ reports \subseteq RestoreDrillReports
    /\ day \in 0..MaxDays /\ restarts \in 0..MaxRestarts

Init ==
    /\ NoVersions
    /\ destroyed = {}
    /\ envelopes = [v \in Versions |-> {}]
    /\ shreds = {}
    /\ reports = {}
    /\ day = 0
    /\ restarts = 0

-----------------------------------------------------------------------------
KeyOf(v, e) == [class |-> versions[v].class, version |-> e]
RecordKey(v) == versions[v].key

\* LocalKmsAdapter._validate_key_ref
ValidWhenDestroyed(key) == key.version >= MinKeyVersion
Valid(key) == key.version >= MinKeyVersion /\ key \notin destroyed

Encrypt(v) ==
    /\ Exists(v)
    /\ Valid(RecordKey(v))
    /\ envelopes' = [envelopes EXCEPT ![v] = @ \cup {RecordKey(v).version}]
    /\ UNCHANGED <<versions, destroyed, shreds, reports, day, restarts>>

Decryptable(v, e) == e \in envelopes[v] /\ Valid(KeyOf(v, e))
Readable(v) == \E e \in envelopes[v] : Decryptable(v, e)

\* The key is rotated to the next version, whatever has happened to that one; the
\* manifest for the older one is still there.
RewrapReplacing(v, e) ==
    /\ Exists(v)
    /\ Decryptable(v, e)
    /\ e + 1 \in KeyVersions
    /\ envelopes' = [envelopes EXCEPT ![v] = (@ \ {e}) \cup {e + 1}]
    /\ UNCHANGED <<versions, destroyed, shreds, reports, day, restarts>>
Rewrap(v, e) ==
    /\ Exists(v)
    /\ Decryptable(v, e)
    /\ e + 1 \in KeyVersions
    /\ envelopes' = [envelopes EXCEPT ![v] = @ \cup {e + 1}]
    /\ UNCHANGED <<versions, destroyed, shreds, reports, day, restarts>>

-----------------------------------------------------------------------------
\* The decision of the cryptoshred service about a record and its retention manifest...
RetentionNearlyEnded(m) ==
    LET r == RetentionManifest(m) IN r.early \/ (r.until # 0 /\ day + 1 >= r.until)
RetentionEnded(m) ==
    LET r == RetentionManifest(m) IN r.early \/ (r.until # 0 /\ day >= r.until)

Releasable(m) ==
    /\ Retainable(m)
    /\ ~m.hold
    /\ m.class \notin ProtectedClasses
    /\ m.lifecycle \notin RecordStates
    /\ ~RetentionManifest(m).blocked
    /\ RetentionEnded(m)

\* ... and that of the key adapter, which repeats part of it.
Destructible(m) ==
    /\ Valid(m.key)
    /\ ~m.hold
    /\ m.class \notin ProtectedClasses
    /\ m.lifecycle \notin RecordStates
    /\ m.class \in ShreddableClasses

RecordKeyDestruction(m) == Destructible(m) /\ destroyed' = destroyed \cup {m.key}

Shred(v) ==
    /\ Exists(v)
    /\ Releasable(versions[v])
    /\ RecordKeyDestruction(versions[v])
    /\ shreds' = shreds \cup {[version |-> v, run |-> restarts]}
    /\ UNCHANGED <<versions, envelopes, reports, day, restarts>>

-----------------------------------------------------------------------------
Report(v, status) ==
    reports' = reports \cup {[version |-> v, status |-> status, run |-> restarts]}

\* Record, retention manifest and storage manifest have to match.
Archived(v) == Exists(v) /\ Retainable(versions[v]) /\ Storable(versions[v])

\* The envelope that is restored has to name the key of the storage manifest.
DrillOnManifests(v) ==
    /\ Archived(v)
    /\ RecordKey(v).version \in envelopes[v]
    /\ Report(v, "restored")
    /\ UNCHANGED <<versions, destroyed, envelopes, shreds, day, restarts>>
EncryptedRestoreDrill(v) ==
    /\ Archived(v)
    /\ Decryptable(v, RecordKey(v).version)
    /\ Report(v, "restored")
    /\ UNCHANGED <<versions, destroyed, envelopes, shreds, day, restarts>>

\* The drill on a cryptoshredded object compares manifests.
ShreddedRestoreDrill(v) ==
    /\ Archived(v)
    /\ \E s \in shreds : s.version = v /\ Report(v, "unrecoverable_by_policy")
    /\ UNCHANGED <<versions, destroyed, envelopes, shreds, day, restarts>>

-----------------------------------------------------------------------------
Tick ==
    /\ day < MaxDays
    /\ day' = day + 1
    /\ UNCHANGED <<versions, destroyed, envelopes, shreds, reports, restarts>>

Restart ==
    /\ restarts < MaxRestarts
    /\ restarts' = restarts + 1
    /\ destroyed' = {}
    /\ UNCHANGED <<versions, envelopes, shreds, reports, day>>

Next ==
    \/ VersionsNext /\ UNCHANGED keyVars
    \/ \E v \in Versions :
          \/ Encrypt(v) \/ Shred(v) \/ EncryptedRestoreDrill(v) \/ ShreddedRestoreDrill(v)
          \/ \E e \in KeyVersions : Rewrap(v, e)
    \/ Tick
    \/ Restart

Spec == Init /\ [][Next]_vars

-----------------------------------------------------------------------------
Shredded(v) == [version |-> v, run |-> restarts] \in shreds
SharesKey(v) ==
    \E w \in Versions \ {v} : /\ Exists(w) /\ versions[w].class = versions[v].class
                              /\ RecordKey(w).version \in envelopes[v] \cup {RecordKey(v).version}

(* Once a version has been shredded and as long as the adapter runs, content  *)
(* encrypted for it can only be read through an envelope that was rewrapped   *)
(* to a later key version.                                                    *)
ShreddedNeedsRewrap ==
    \A v \in Versions :
        Shredded(v) => \A e \in envelopes[v] : Decryptable(v, e) => e > RecordKey(v).version

(* As long as the adapter runs, one key version is destroyed on behalf of one *)
(* version only: no evidence claims a destruction that had happened before.   *)
OneEvidencePerKey ==
    \A s, t \in shreds :
        s.run = t.run /\ RecordKey(s.version) = RecordKey(t.version) => s = t

(* A version that shares its keys with no other stays readable until its      *)
(* retention ends, and for good while its class, its lifecycle state, its     *)
(* policy or a legal hold forbid its disposal.                                *)
OwnKeyOutlivesRetention ==
    \A v \in Versions :
        Exists(v) /\ envelopes[v] # {} /\ ~Readable(v) /\ ~SharesKey(v) =>
            LET m == versions[v]
                p == Policy[m.policy]
            IN  /\ p.early \/ (p.days # 0 /\ day >= m.created + p.days)
                /\ ~m.hold /\ ~p.worm /\ ~RequiresWorm(m)

(* Content becomes unreadable only in the step that shreds a version whose    *)
(* record names the key of an envelope that could be read until then: no      *)
(* rewrap, drill, hold, new version or restart does it.                       *)
LostOnlyByShred ==
    [][\A v \in Versions :
         Readable(v) /\ ~Readable(v)' =>
            \E s \in shreds' \ shreds, e \in envelopes[v] :
                Decryptable(v, e) /\ RecordKey(s.version) = KeyOf(v, e)]_vars

(* As long as the adapter runs, no restore drill restores a version whose key *)
(* was destroyed, on behalf of whichever version.                             *)
NoRestoreAfterShred ==
    [][\A r \in reports' \ reports :
         r.status = "restored" =>
            \A s \in shreds : s.run = restarts => RecordKey(s.version) # RecordKey(r.version)]_vars

(* An active legal hold blocks cryptoshredding: content that can be read      *)
(* stays readable while the version is held.                                  *)
HeldStaysReadable ==
    [][\A v \in Versions :
         Exists(v) /\ versions[v].hold /\ Readable(v) => Readable(v)']_vars
=============================================================================

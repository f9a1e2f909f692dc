--------------------------- MODULE SourceVersions ---------------------------
(***************************************************************************)
(* What a source object repository and the legal hold service promise: the *)
(* versions of an object are written once, a hold is placed and released   *)
(* by writing another version that differs in the hold, and the version    *)
(* the hold was placed on stays as it is.  Every call is one step here.    *)
(***************************************************************************)
EXTENDS RetentionRules

VARIABLE versions   \* the metadata of each version

VersionsTypeOK == versions \in [Versions -> Metadata \cup {Absent}]

NoVersions == versions = [v \in Versions |-> Absent]

Exists(v) == versions[v] # Absent

Write(v, m) ==
    /\ ~Exists(v)
    /\ WellFormed(m)
    /\ GuardAccepts(m)
    /\ versions' = [versions EXCEPT ![v] = m]

PlaceHold(v, w, form) ==
    /\ Exists(v) /\ ~versions[v].hold
    /\ MayFollow(v, w)
    /\ Write(w, Held(versions[v], form))

ReleaseHold(v, w, p, form) ==
    /\ Exists(v) /\ versions[v].hold
    /\ MayFollow(v, w)
    /\ Write(w, Released(versions[v], p, form))

VersionsNext ==
    \/ \E v \in Versions, m \in Drafts : Write(v, m)
    \/ \E v, w \in Versions, form \in Forms : PlaceHold(v, w, form)
    \/ \E v, w \in Versions, p \in PolicyIds, form \in Forms : ReleaseHold(v, w, p, form)

VersionsSpec == NoVersions /\ [][VersionsNext]_versions
=============================================================================

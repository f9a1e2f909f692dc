-------------------------- MODULE TokenVerification --------------------------
(***************************************************************************)
(* DynamicOidcJwksVerifier with the replay guard over PostgreSQL: requests *)
(* run in threads that share one cache of an issuer's signing keys.  A     *)
(* verification refreshes the cache when it is due, and once more when the *)
(* key of the token is not in it; fetching from the issuer can fail.  The  *)
(* cache is emptied and filled by separate statements, without a lock.     *)
(*                                                                         *)
(* One issuer: refreshes of others replace the same dictionary and are not *)
(* modelled, nor is the deletion of rows of the replay table.  Time is     *)
(* kept as ages, in units of the refresh interval's, that stop growing     *)
(* where they make no difference any more.                                 *)
(***************************************************************************)
EXTENDS Integers, FiniteSets

CONSTANTS
    Callers,            \* threads that verify a token, one after the other
    KeyIds,             \* keys the issuer signs with
    Tokens,             \* tokens that are presented: key id and jti
    OutagePolicies,     \* outage_policy a deployment can have
    RefreshInterval,    \* refresh_interval_seconds
    StaleGrace,         \* stale_grace_seconds
    MaxCallTime,        \* bound on the time that a verification takes
    Never               \* the cache has not been filled

ASSUME VerifierAssumption ==
    /\ OutagePolicies \subseteq {"fail_closed", "use_stale_keys"}
    /\ RefreshInterval \in Nat \ {0} /\ StaleGrace \in Nat /\ MaxCallTime \in Nat
    /\ Never \notin Int

VARIABLES
    policy,         \* outage policy of the deployment
    published,      \* keys in the issuer's JWKS
    withdrawn,      \* of the tokens' keys: time since they were published
    keys,           \* cached keys
    age,            \* time since the cache was stamped as refreshed
    recorded,       \* jti in jwt_replay_tokens
    accepted,       \* jti of the tokens that were accepted
    call

vars == <<policy, published, withdrawn, keys, age, recorded, accepted, call>>
tables == <<recorded, accepted>>

TokenKeyIds == {t.kid : t \in Tokens}
TokenIds == {t.jti : t \in Tokens}
Longest(p) == RefreshInterval + (IF p = "use_stale_keys" THEN StaleGrace ELSE 0)
MaxAge == RefreshInterval + StaleGrace + MaxCallTime + 1

\* A key that was withdrawn can be in a JWKS that was fetched before, by a call whose
\* insertion into the cache another call dates.
TrustedFor(p) == Longest(p) + 3 * MaxCallTime
MaxWithdrawn == TrustedFor("use_stale_keys") + 1

Refreshing == {"fetch", "clear", "install", "stamp"}
Running == Refreshing \cup {"key", "claims", "contains", "record"}
Ended == {"accepted", "untrusted", "outage", "refused", "error"}
Calls ==
    [pc: Running, token: Tokens,
     lag: 0..MaxCallTime,       \* time since now_epoch was read
     retry: BOOLEAN,            \* the key was missing, and is fetched for
     got: SUBSET KeyIds,        \* the JWKS that was fetched
     steady: BOOLEAN,           \* the key was published all the time, and no fetch failed
     alone: BOOLEAN]            \* no other call was refreshing at any time
Results == [pc: Ended \cup {"idle"}, token: Tokens]

TypeOK ==
    /\ policy \in OutagePolicies
    /\ published \subseteq KeyIds
    /\ withdrawn \in [TokenKeyIds -> 0..MaxWithdrawn]
    /\ keys \subseteq KeyIds
    /\ age \in 0..MaxAge \cup {Never}
    /\ recorded \subseteq TokenIds
    /\ accepted \subseteq TokenIds
    /\ call \in [Callers -> Calls \cup Results]

Init ==
    /\ policy \in OutagePolicies
    /\ published \in (SUBSET KeyIds) \ {{}}
    /\ withdrawn = [k \in TokenKeyIds |-> IF k \in published THEN 0 ELSE MaxWithdrawn]
    /\ keys = {}
    /\ age = Never
    /\ recorded = {}
    /\ accepted = {}
    /\ \E t \in Tokens :
          call = [c \in Callers |-> [pc |-> "idle", token |-> t]]

-----------------------------------------------------------------------------
At(c, pc) == call[c].pc = pc
IsRunning(c) == call[c].pc \in Running
IsRefreshing(c) == call[c].pc \in Refreshing
Goes(c, pc) == call' = [call EXCEPT ![c].pc = pc]
Ends(c, result) ==
    call' = [call EXCEPT ![c] = [pc |-> result, token |-> @.token]]

\* A call that starts to refresh is noted by the others that are running.
GoesRefreshing(c, started) ==
    call' = [d \in Callers |->
              IF d = c THEN started
              ELSE IF IsRunning(d) THEN [call[d] EXCEPT !.alone = FALSE] ELSE call[d]]

\* Ages are compared with the time at which the call read the clock.
RefreshDueOnce == age = Never
RefreshDue == age = Never \/ age >= RefreshInterval

Verify(c, t) ==
    /\ ~IsRunning(c)
    /\ LET started(pc) ==
             [pc |-> pc, token |-> t, lag |-> 0, retry |-> FALSE, got |-> {},
              steady |-> t.kid \in published,
              alone |-> \A d \in Callers \ {c} : ~IsRefreshing(d)]
       IN  IF RefreshDue THEN GoesRefreshing(c, started("fetch"))
                         ELSE call' = [call EXCEPT ![c] = started("key")]
    /\ UNCHANGED <<policy, published, withdrawn, keys, age, tables>>

\* Discovery document and JWKS are fetched; a JWKS without signing keys is a failure.
FetchKeys(c) ==
    /\ At(c, "fetch")
    /\ published # {}
    /\ call' = [call EXCEPT ![c].pc = "clear", ![c].got = published]
    /\ UNCHANGED <<policy, published, withdrawn, keys, age, tables>>

CacheUsable(c) ==
    /\ age # Never
    /\ policy = "use_stale_keys"
    /\ age - call[c].lag <= RefreshInterval + StaleGrace

FetchFails(c) ==
    /\ At(c, "fetch")
    /\ IF CacheUsable(c)
       THEN call' = [call EXCEPT ![c].pc = "key", ![c].steady = FALSE]
       ELSE Ends(c, "outage")
    /\ UNCHANGED <<policy, published, withdrawn, keys, age, tables>>

\* The issuer's keys are dropped from the cache, then the fetched ones are put into it, then
\* it is dated.
Clear(c) ==
    /\ At(c, "clear")
    /\ keys' = {}
    /\ Goes(c, "install")
    /\ UNCHANGED <<policy, published, withdrawn, age, tables>>

\* Dropping them goes over the dictionary; another call can change it meanwhile.
ClearIsDisturbed(c) ==
    /\ At(c, "clear")
    /\ \E d \in Callers \ {c} : At(d, "install")
    /\ Ends(c, "error")
    /\ UNCHANGED <<policy, published, withdrawn, keys, age, tables>>

Install(c) ==
    /\ At(c, "install")
    /\ keys' = keys \cup call[c].got
    /\ call' = [call EXCEPT ![c].pc = "stamp", ![c].got = {}]
    /\ UNCHANGED <<policy, published, withdrawn, age, tables>>

Stamp(c) ==
    /\ At(c, "stamp")
    /\ age' = 0
    /\ Goes(c, "key")
    /\ UNCHANGED <<policy, published, withdrawn, keys, tables>>

KeyFromCacheOnly(c) ==
    /\ At(c, "key")
    /\ IF call[c].token.kid \in keys THEN Goes(c, "claims") ELSE Ends(c, "untrusted")
    /\ UNCHANGED <<policy, published, withdrawn, keys, age, tables>>
KeyUntilFound(c) ==
    /\ At(c, "key")
    /\ IF call[c].token.kid \in keys THEN Goes(c, "claims")
       ELSE GoesRefreshing(c, [call[c] EXCEPT !.pc = "fetch", !.retry = TRUE])
    /\ UNCHANGED <<policy, published, withdrawn, keys, age, tables>>
\* A missing key is fetched for once.
Key(c) ==
    /\ At(c, "key")
    /\ IF call[c].token.kid \in keys
       THEN Goes(c, "claims")
       ELSE IF call[c].retry THEN Ends(c, "untrusted")
            ELSE GoesRefreshing(c, [call[c] EXCEPT !.pc = "fetch", !.retry = TRUE])
    /\ UNCHANGED <<policy, published, withdrawn, keys, age, tables>>

\* Signature, audience and times of the token.
Claims(c) ==
    /\ At(c, "claims")
    /\ Goes(c, "contains") \/ Ends(c, "refused")
    /\ UNCHANGED <<policy, published, withdrawn, keys, age, tables>>

\* The replay guard looks the token up, and inserts it in a transaction of its own.
Contains(c) ==
    /\ At(c, "contains")
    /\ IF call[c].token.jti \in recorded THEN Ends(c, "refused") ELSE Goes(c, "record")
    /\ UNCHANGED <<policy, published, withdrawn, keys, age, tables>>

RecordOrIgnore(c) ==
    /\ At(c, "record")
    /\ recorded' = recorded \cup {call[c].token.jti}
    /\ accepted' = accepted \cup {call[c].token.jti}
    /\ Ends(c, "accepted")
    /\ UNCHANGED <<policy, published, withdrawn, keys, age>>
\* The primary key decides between calls that have both found nothing.
Record(c) ==
    /\ At(c, "record")
    /\ IF call[c].token.jti \in recorded
       THEN Ends(c, "refused") /\ UNCHANGED tables
       ELSE /\ recorded' = recorded \cup {call[c].token.jti}
            /\ accepted' = accepted \cup {call[c].token.jti}
            /\ Ends(c, "accepted")
    /\ UNCHANGED <<policy, published, withdrawn, keys, age>>

-----------------------------------------------------------------------------
\* The issuer publishes other keys.
Rotate ==
    \E now \in (SUBSET KeyIds) \ {published} :
        /\ published' = now
        /\ withdrawn' = [k \in TokenKeyIds |-> IF k \in now THEN 0 ELSE withdrawn[k]]
        /\ call' = [c \in Callers |->
                     IF IsRunning(c)
                     THEN [call[c] EXCEPT !.steady = @ /\ call[c].token.kid \in now]
                     ELSE call[c]]
        /\ UNCHANGED <<policy, keys, age, tables>>

Capped(n, limit) == IF n < limit THEN n + 1 ELSE limit

Tick ==
    /\ \A c \in Callers : IsRunning(c) => call[c].lag < MaxCallTime
    /\ age' = IF age = Never THEN Never ELSE Capped(age, MaxAge)
    /\ withdrawn' = [k \in TokenKeyIds |->
                      IF k \in published THEN 0 ELSE Capped(withdrawn[k], MaxWithdrawn)]
    /\ call' = [c \in Callers |->
                 IF IsRunning(c) THEN [call[c] EXCEPT !.lag = @ + 1] ELSE call[c]]
    /\ UNCHANGED <<policy, published, keys, tables>>

Restart ==
    /\ keys' = {}
    /\ age' = Never
    /\ call' = [c \in Callers |-> [pc |-> "idle", token |-> call[c].token]]
    /\ UNCHANGED <<policy, published, withdrawn, tables>>

Step(c) ==
    \/ FetchKeys(c) \/ FetchFails(c) \/ Clear(c) \/ ClearIsDisturbed(c) \/ Install(c)
    \/ Stamp(c) \/ Key(c) \/ Claims(c) \/ Contains(c) \/ Record(c)

Next ==
    \/ \E c \in Callers : Step(c) \/ \E t \in Tokens : Verify(c, t)
    \/ Rotate \/ Tick \/ Restart

\* A thread that can go on does: each fetch ends, one way or the other, by its timeout.
Fairness == \A c \in Callers : WF_vars(Step(c))

Spec == Init /\ [][Next]_vars /\ Fairness
-----------------------------------------------------------------------------
(* A key that the issuer has withdrawn is trusted for the refresh interval,   *)
(* plus the grace time if the deployment uses stale keys in an outage, plus   *)
(* what the calls take that are involved; never for good.                     *)
TrustEnds ==
    [][\A c \in Callers :
         At(c, "key") /\ At(c, "claims")' =>
            withdrawn[call[c].token.kid] <= TrustedFor(policy)]_vars

(* A token is called untrusted only if its key has not been published all the *)
(* time since the verification started, or one of its fetches failed, or      *)
(* another call was refreshing meanwhile.                                     *)
PublishedIsTrusted ==
    [][\A c \in Callers :
         At(c, "key") /\ At(c, "untrusted")' => ~(call[c].steady /\ call[c].alone)]_vars

(* Of the verifications of one token, however they interleave and whatever    *)
(* restarts come between them, one ends with the token accepted.              *)
TokenAcceptedOnce ==
    [][\A c \in Callers :
         ~At(c, "accepted") /\ At(c, "accepted")' => call[c].token.jti \notin accepted]_vars

(* Every verification that is begun comes to an end, unless the process is    *)
(* stopped: looking for a key that is not published does not go on for ever.  *)
VerificationsEnd == \A c \in Callers : IsRunning(c) ~> ~IsRunning(c)
=============================================================================

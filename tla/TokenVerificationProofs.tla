----------------------- MODULE TokenVerificationProofs -----------------------
(***************************************************************************)
(* What holds of verifications for any number of threads, keys and tokens. *)
(* A token is accepted once because every accepted one is recorded.  That  *)
(* a published key is trusted rests on what a call that refreshes alone    *)
(* knows: the keys it fetched were published, nobody empties the cache     *)
(* behind it, and so the key is in the cache when it looks again.          *)
(* How long a withdrawn key is trusted is the sum of three ages: what was  *)
(* fetched is as old as the call that fetched it, what is in the cache was *)
(* fetched by a call that the dating one overlapped, and the cache is      *)
(* looked up only while it was recent enough when the call began.          *)
(***************************************************************************)
EXTENDS TokenVerification, TLAPS

AcceptedIsRecorded == accepted \subseteq recorded

(* While a call that counts as alone is running, no other one refreshes.      *)
OthersWait ==
    \A c, d \in Callers : c # d /\ IsRunning(c) /\ call[c].alone => ~IsRefreshing(d)

(* What a call whose key is published all the time has seen of it.            *)
KeyIsFetched ==
    \A c \in Callers :
        IsRunning(c) /\ call[c].steady =>
            /\ call[c].token.kid \in published
            /\ call[c].pc \in {"clear", "install"} => call[c].token.kid \in call[c].got
            /\ (call[c].alone /\ (At(c, "stamp") \/ (At(c, "key") /\ call[c].retry)))
                  => call[c].token.kid \in keys

IInv == TypeOK /\ AcceptedIsRecorded /\ OthersWait /\ KeyIsFetched

-----------------------------------------------------------------------------
CallsOK == call \in [Callers -> Calls \cup Results]

LEMMA BoundsAreNaturals ==
    /\ MaxAge \in Nat /\ MaxWithdrawn \in Nat
    /\ RefreshInterval <= MaxAge /\ Never \notin Int
  BY VerifierAssumption DEF VerifierAssumption, MaxAge, MaxWithdrawn, TrustedFor, Longest

LEMMA CappedIsBounded ==
    ASSUME NEW limit \in Nat, NEW n \in 0..limit
    PROVE  Capped(n, limit) \in 0..limit
  BY DEF Capped

LEMMA RunningIsCall ==
    ASSUME CallsOK, NEW c \in Callers
    PROVE  IsRunning(c) <=> call[c] \in Calls
<1>1. Running \cap (Ended \cup {"idle"}) = {}
  BY DEF Running, Refreshing, Ended
<1>2. CASE call[c] \in Calls
  BY <1>2 DEF Calls, IsRunning
<1>3. CASE call[c] \in Results
  <2>1. call[c].pc \in Ended \cup {"idle"}
    BY <1>3 DEF Results
  <2>2. call[c] \notin Calls
    BY <2>1, <1>1 DEF Calls
  <2> QED
    BY <2>1, <2>2, <1>1 DEF IsRunning
<1> QED
  BY <1>2, <1>3 DEF CallsOK

LEMMA TokenOfCall ==
    ASSUME CallsOK, NEW c \in Callers
    PROVE  call[c].token \in Tokens
  BY DEF CallsOK, Calls, Results

(* An ended call keeps its token only.                                        *)
LEMMA EndedIsResult ==
    ASSUME CallsOK, NEW c \in Callers, NEW result \in Ended, Ends(c, result)
    PROVE  /\ CallsOK'
           /\ call' = [call EXCEPT ![c] = [pc |-> result, token |-> call[c].token]]
           /\ ~IsRunning(c)' /\ ~IsRefreshing(c)'
           /\ \A d \in Callers \ {c} : call'[d] = call[d]
<1>1. [pc |-> result, token |-> call[c].token] \in Results
  BY TokenOfCall DEF Results
<1>2. call' = [call EXCEPT ![c] = [pc |-> result, token |-> call[c].token]]
  BY DEF Ends
<1>3. CallsOK' /\ call'[c].pc = result /\ \A d \in Callers \ {c} : call'[d] = call[d]
  BY <1>1, <1>2 DEF CallsOK
<1>4. result \notin Running /\ result \notin Refreshing
  BY DEF Running, Refreshing, Ended
<1> QED
  BY <1>2, <1>3, <1>4 DEF IsRunning, IsRefreshing

LEMMA RefreshingIsRunning ==
    ASSUME NEW c \in Callers, IsRefreshing(c)
    PROVE  IsRunning(c)
  BY DEF IsRefreshing, IsRunning, Running

(* A call that starts to refresh takes nothing from the others but that they  *)
(* are alone.                                                                 *)
LEMMA RefreshingCalls ==
    ASSUME CallsOK, NEW c \in Callers, NEW started \in Calls, GoesRefreshing(c, started)
    PROVE  /\ CallsOK'
           /\ call'[c] = started
           /\ \A d \in Callers \ {c} :
                 /\ ~IsRunning(d) => call'[d] = call[d]
                 /\ IsRunning(d) => call'[d] = [call[d] EXCEPT !.alone = FALSE]
<1>1. \A d \in Callers : IsRunning(d) => [call[d] EXCEPT !.alone = FALSE] \in Calls
  BY RunningIsCall DEF Calls
<1> QED
  BY <1>1 DEF CallsOK, GoesRefreshing

-----------------------------------------------------------------------------
(* Each step of a call replaces its record, and leaves those of the others    *)
(* but for what RefreshingCalls says.                                         *)
LEMMA StartedIsCall ==
    ASSUME TypeOK, NEW c \in Callers, NEW t \in Tokens, NEW pc \in {"fetch", "key"},
           NEW steady \in BOOLEAN, NEW alone \in BOOLEAN
    PROVE  [pc |-> pc, token |-> t, lag |-> 0, retry |-> FALSE, got |-> {},
            steady |-> steady, alone |-> alone] \in Calls
  BY VerifierAssumption DEF VerifierAssumption, Calls, Running, Refreshing

LEMMA CallsStep ==
    ASSUME TypeOK, [Next]_vars
    PROVE  CallsOK'
<1> USE DEF CallsOK
<1>0. CallsOK
  BY DEF TypeOK
<1>1. ASSUME NEW c \in Callers, NEW t \in Tokens, Verify(c, t)
      PROVE  CallsOK'
  <2> DEFINE alone == \A d \in Callers \ {c} : ~IsRefreshing(d)
             started(pc) == [pc |-> pc, token |-> t, lag |-> 0, retry |-> FALSE, got |-> {},
                             steady |-> t.kid \in published, alone |-> alone]
  <2>0. (t.kid \in published) \in BOOLEAN /\ alone \in BOOLEAN
    OBVIOUS
  <2> HIDE DEF alone
  <2>1. started("fetch") \in Calls /\ started("key") \in Calls
    BY <2>0, StartedIsCall
  <2> USE DEF alone
  <2>2. CASE RefreshDue
    BY <2>1, <2>2, <1>0, <1>1, RefreshingCalls DEF Verify
  <2>3. CASE ~RefreshDue
    BY <2>1, <2>3, <1>0, <1>1 DEF Verify
  <2> QED
    BY <2>2, <2>3
<1>2. ASSUME NEW c \in Callers, FetchKeys(c)
      PROVE  CallsOK'
  <2>1. call[c] \in Calls /\ published \subseteq KeyIds
    BY <1>0, <1>2, RunningIsCall DEF FetchKeys, At, IsRunning, Running, Refreshing, TypeOK
  <2>2. [call[c] EXCEPT !.pc = "clear", !.got = published] \in Calls
    BY <2>1 DEF Calls, Running, Refreshing
  <2> QED
    BY <1>0, <1>2, <2>2 DEF FetchKeys
<1>3. ASSUME NEW c \in Callers, FetchFails(c)
      PROVE  CallsOK'
  <2>1. call[c] \in Calls
    BY <1>0, <1>3, RunningIsCall DEF FetchFails, At, IsRunning, Running, Refreshing
  <2>2. [call[c] EXCEPT !.pc = "key", !.steady = FALSE] \in Calls
    BY <2>1 DEF Calls, Running
  <2>3. CASE CacheUsable(c)
    BY <1>0, <1>3, <2>2, <2>3 DEF FetchFails
  <2>4. CASE ~CacheUsable(c)
    BY <1>0, <1>3, <2>4, EndedIsResult DEF FetchFails, Ended
  <2> QED
    BY <2>3, <2>4
<1>4. ASSUME NEW c \in Callers, Clear(c) \/ Stamp(c)
      PROVE  CallsOK'
  <2>1. call[c] \in Calls
    BY <1>0, <1>4, RunningIsCall DEF Clear, Stamp, At, IsRunning, Running, Refreshing
  <2>2. [call[c] EXCEPT !.pc = "install"] \in Calls /\ [call[c] EXCEPT !.pc = "key"] \in Calls
    BY <2>1 DEF Calls, Running, Refreshing
  <2> QED
    BY <1>0, <1>4, <2>2 DEF Clear, Stamp, Goes
<1>5. ASSUME NEW c \in Callers, ClearIsDisturbed(c)
      PROVE  CallsOK'
  BY <1>0, <1>5, EndedIsResult DEF ClearIsDisturbed, Ended
<1>6. ASSUME NEW c \in Callers, Install(c)
      PROVE  CallsOK'
  <2>1. call[c] \in Calls
    BY <1>0, <1>6, RunningIsCall DEF Install, At, IsRunning, Running, Refreshing
  <2>2. [call[c] EXCEPT !.pc = "stamp", !.got = {}] \in Calls
    BY <2>1 DEF Calls, Running, Refreshing
  <2> QED
    BY <1>0, <1>6, <2>2 DEF Install
<1>7. ASSUME NEW c \in Callers, Key(c)
      PROVE  CallsOK'
  <2>1. call[c] \in Calls
    BY <1>0, <1>7, RunningIsCall DEF Key, At, IsRunning, Running
  <2>2. /\ [call[c] EXCEPT !.pc = "fetch", !.retry = TRUE] \in Calls
        /\ [call[c] EXCEPT !.pc = "claims"] \in Calls
    BY <2>1 DEF Calls, Running, Refreshing
  <2>3. CASE call[c].token.kid \in keys
    BY <1>0, <1>7, <2>2, <2>3 DEF Key, Goes
  <2>4. CASE call[c].token.kid \notin keys /\ call[c].retry
    BY <1>0, <1>7, <2>4, EndedIsResult DEF Key, Ended
  <2>5. CASE call[c].token.kid \notin keys /\ ~call[c].retry
    BY <1>0, <1>7, <2>2, <2>5, RefreshingCalls DEF Key
  <2> QED
    BY <2>3, <2>4, <2>5
<1>8. ASSUME NEW c \in Callers, Claims(c) \/ Contains(c) \/ Record(c)
      PROVE  CallsOK'
  <2>1. call[c] \in Calls
    BY <1>0, <1>8, RunningIsCall DEF Claims, Contains, Record, At, IsRunning, Running
  <2>2. [call[c] EXCEPT !.pc = "contains"] \in Calls /\ [call[c] EXCEPT !.pc = "record"] \in Calls
    BY <2>1 DEF Calls, Running
  <2>3. CASE Goes(c, "contains") \/ Goes(c, "record")
    BY <1>0, <2>2, <2>3 DEF Goes
  <2>4. CASE Ends(c, "refused") \/ Ends(c, "accepted")
    BY <1>0, <2>4, EndedIsResult DEF Ended
  <2> QED
    BY <1>8, <2>3, <2>4 DEF Claims, Contains, Record
<1>9. CASE Rotate
  <2>1. PICK now \in SUBSET KeyIds :
           call' = [c \in Callers |->
                     IF IsRunning(c)
                     THEN [call[c] EXCEPT !.steady = @ /\ call[c].token.kid \in now]
                     ELSE call[c]]
    BY <1>9 DEF Rotate
  <2>2. \A c \in Callers :
           IsRunning(c) => [call[c] EXCEPT !.steady = @ /\ call[c].token.kid \in now] \in Calls
    BY <1>0, RunningIsCall DEF Calls
  <2> QED
    BY <1>0, <2>1, <2>2
<1>10. CASE Tick
  <2>1. \A c \in Callers : IsRunning(c) => [call[c] EXCEPT !.lag = @ + 1] \in Calls
    <3>1. ASSUME NEW c \in Callers, IsRunning(c)
          PROVE  [call[c] EXCEPT !.lag = @ + 1] \in Calls
      <4>1. call[c] \in Calls /\ call[c].lag < MaxCallTime
        BY <1>0, <1>10, <3>1, RunningIsCall DEF Tick
      <4>2. call[c].lag + 1 \in 0..MaxCallTime
        BY <4>1, VerifierAssumption DEF VerifierAssumption, Calls
      <4> QED
        BY <4>1, <4>2 DEF Calls
    <3> QED
      BY <3>1
  <2> QED
    BY <1>0, <1>10, <2>1 DEF Tick
<1>11. CASE Restart
  <2>1. \A c \in Callers : [pc |-> "idle", token |-> call[c].token] \in Results
    BY <1>0, TokenOfCall DEF Results
  <2> QED
    BY <1>11, <2>1 DEF Restart
<1>12. CASE UNCHANGED vars
  BY <1>0, <1>12 DEF vars
<1> QED
  BY <1>1, <1>2, <1>3, <1>4, <1>5, <1>6, <1>7, <1>8, <1>9, <1>10, <1>11, <1>12 DEF Next, Step

LEMMA TypeStep ==
    ASSUME TypeOK, [Next]_vars
    PROVE  TypeOK'
<1>1. CallsOK'
  BY CallsStep
<1>2. CASE Next
  <2> USE DEF TypeOK, tables
  <2>1. ASSUME NEW c \in Callers,
               \/ \E t \in Tokens : Verify(c, t)
               \/ FetchKeys(c) \/ FetchFails(c) \/ ClearIsDisturbed(c)
               \/ Key(c) \/ Claims(c) \/ Contains(c)
        PROVE  TypeOK'
    BY <1>1, <2>1
       DEF CallsOK, Verify, FetchKeys, FetchFails, ClearIsDisturbed, Key, Claims, Contains
  <2>2. ASSUME NEW c \in Callers, Clear(c)
        PROVE  TypeOK'
    BY <1>1, <2>2 DEF CallsOK, Clear
  <2>3. ASSUME NEW c \in Callers, Install(c)
        PROVE  TypeOK'
    <3>1. call[c].got \subseteq KeyIds
      BY <2>3, RunningIsCall DEF CallsOK, Install, At, IsRunning, Running, Refreshing, Calls
    <3> QED
      BY <1>1, <2>3, <3>1 DEF CallsOK, Install
  <2>4. ASSUME NEW c \in Callers, Stamp(c)
        PROVE  TypeOK'
    BY <1>1, <2>4, BoundsAreNaturals DEF CallsOK, Stamp
  <2>5. ASSUME NEW c \in Callers, Record(c)
        PROVE  TypeOK'
    <3>1. call[c].token.jti \in TokenIds
      BY TokenOfCall DEF CallsOK, TokenIds
    <3> QED
      BY <1>1, <2>5, <3>1 DEF CallsOK, Record
  <2>6. CASE Rotate
    <3>1. PICK now \in SUBSET KeyIds :
             /\ published' = now
             /\ withdrawn' = [k \in TokenKeyIds |-> IF k \in now THEN 0 ELSE withdrawn[k]]
             /\ UNCHANGED <<policy, keys, age, tables>>
      BY <2>6 DEF Rotate
    <3>2. withdrawn' \in [TokenKeyIds -> 0..MaxWithdrawn]
      BY <3>1, BoundsAreNaturals
    <3> QED
      BY <1>1, <3>1, <3>2 DEF CallsOK
  <2>7. CASE Tick
    <3>1. age' \in 0..MaxAge \cup {Never}
      BY <2>7, BoundsAreNaturals, CappedIsBounded DEF Tick
    <3>2. withdrawn' \in [TokenKeyIds -> 0..MaxWithdrawn]
      BY <2>7, BoundsAreNaturals, CappedIsBounded DEF Tick
    <3> QED
      BY <1>1, <2>7, <3>1, <3>2 DEF CallsOK, Tick
  <2>8. CASE Restart
    BY <1>1, <2>8 DEF CallsOK, Restart
  <2> QED
    BY <1>2, <2>1, <2>2, <2>3, <2>4, <2>5, <2>6, <2>7, <2>8 DEF Next, Step
<1>3. CASE UNCHANGED vars
  BY <1>3 DEF vars, TypeOK
<1> QED
  BY <1>2, <1>3

LEMMA InitIsTyped ==
    ASSUME Init
    PROVE  TypeOK
<1>1. CallsOK
  <2>1. \A t \in Tokens : [pc |-> "idle", token |-> t] \in Results
    BY DEF Results
  <2> QED
    BY <2>1 DEF Init, CallsOK
<1>2. withdrawn \in [TokenKeyIds -> 0..MaxWithdrawn]
  BY BoundsAreNaturals DEF Init
<1> QED
  BY <1>1, <1>2 DEF Init, TypeOK, CallsOK

-----------------------------------------------------------------------------
(* Records are added with what they accept, and never dropped.                *)
LEMMA RecordedStep ==
    ASSUME AcceptedIsRecorded, [Next]_vars
    PROVE  AcceptedIsRecorded'
<1>1. ASSUME NEW c \in Callers, Record(c)
      PROVE  AcceptedIsRecorded'
  BY <1>1 DEF Record, AcceptedIsRecorded, tables
<1>2. CASE UNCHANGED tables
  BY <1>2 DEF tables, AcceptedIsRecorded
<1>3. ASSUME NEW c \in Callers, NEW t \in Tokens, Verify(c, t)
      PROVE  UNCHANGED tables
  BY <1>3 DEF Verify
<1>4. ASSUME NEW c \in Callers, Step(c), ~Record(c)
      PROVE  UNCHANGED tables
  BY <1>4 DEF Step, FetchKeys, FetchFails, Clear, ClearIsDisturbed, Install, Stamp, Key, Claims,
              Contains
<1>5. ASSUME Rotate \/ Tick \/ Restart
      PROVE  UNCHANGED tables
  BY <1>5 DEF Rotate, Tick, Restart
<1>6. ASSUME UNCHANGED vars
      PROVE  UNCHANGED tables
  BY <1>6 DEF vars, tables
<1> QED
  BY <1>1, <1>2, <1>3, <1>4, <1>5, <1>6 DEF Next

-----------------------------------------------------------------------------
(* A step of one call that does not start to refresh disturbs no other.       *)
LEMMA QuietStep ==
    ASSUME OthersWait, NEW c \in Callers,
           \A d \in Callers \ {c} : call'[d] = call[d],
           IsRefreshing(c)' => IsRefreshing(c),
           IsRunning(c)' => IsRunning(c) /\ (call'[c].alone => call[c].alone)
    PROVE  OthersWait'
  BY DEF OthersWait, IsRunning, IsRefreshing

LEMMA StartingStep ==
    ASSUME OthersWait, CallsOK, NEW c \in Callers, NEW started \in Calls,
           GoesRefreshing(c, started),
           started.alone => \A d \in Callers \ {c} : ~IsRefreshing(d)
    PROVE  OthersWait'
<1> SUFFICES ASSUME NEW a \in Callers, NEW b \in Callers, a # b,
                    IsRunning(a)', call'[a].alone
             PROVE  ~IsRefreshing(b)'
  BY DEF OthersWait
<1>1. /\ call'[c] = started
      /\ \A d \in Callers \ {c} :
            /\ ~IsRunning(d) => call'[d] = call[d]
            /\ IsRunning(d) => call'[d] = [call[d] EXCEPT !.alone = FALSE]
  BY RefreshingCalls
<1>2. \A d \in Callers \ {c} : IsRunning(d) => call'[d].alone = FALSE /\ call'[d].pc = call[d].pc
  BY <1>1, RunningIsCall DEF Calls
<1>3. \A d \in Callers \ {c} : call'[d].pc = call[d].pc
  BY <1>1, <1>2
<1>4. a = c
  BY <1>2, <1>3 DEF IsRunning
<1>5. started.alone
  BY <1>1, <1>4
<1> QED
  BY <1>3, <1>4, <1>5 DEF IsRefreshing

LEMMA WaitStep ==
    ASSUME TypeOK, OthersWait, [Next]_vars
    PROVE  OthersWait'
<1>0. CallsOK
  BY DEF TypeOK, CallsOK
<1>1. ASSUME NEW c \in Callers, NEW t \in Tokens, Verify(c, t)
      PROVE  OthersWait'
  <2> DEFINE alone == \A d \in Callers \ {c} : ~IsRefreshing(d)
             started(pc) == [pc |-> pc, token |-> t, lag |-> 0, retry |-> FALSE, got |-> {},
                             steady |-> t.kid \in published, alone |-> alone]
  <2>0. (t.kid \in published) \in BOOLEAN /\ alone \in BOOLEAN
    OBVIOUS
  <2> HIDE DEF alone
  <2>1. started("fetch") \in Calls /\ started("fetch").alone = alone
    BY <2>0, StartedIsCall
  <2> USE DEF alone
  <2>2. CASE RefreshDue
    <3>1. GoesRefreshing(c, started("fetch"))
      BY <1>1, <2>2 DEF Verify
    <3>2. started("fetch").alone => \A d \in Callers \ {c} : ~IsRefreshing(d)
      BY <2>1
    <3> HIDE DEF started
    <3> QED
      BY <3>1, <3>2, <2>1, <1>0, StartingStep
  <2>3. CASE ~RefreshDue
    <3>1. call' = [call EXCEPT ![c] = started("key")]
      BY <1>1, <2>3 DEF Verify
    <3>2. /\ call'[c].pc = "key" /\ call'[c].alone = alone
          /\ \A d \in Callers \ {c} : call'[d] = call[d]
      BY <3>1, <1>0 DEF CallsOK
    <3> QED
      BY <3>2 DEF OthersWait, IsRunning, IsRefreshing, Refreshing
  <2> QED
    BY <2>2, <2>3
<1>2. ASSUME NEW c \in Callers, Key(c), call[c].token.kid \notin keys, ~call[c].retry
      PROVE  OthersWait'
  <2>1. call[c] \in Calls /\ IsRunning(c)
    BY <1>0, <1>2, RunningIsCall DEF Key, At, IsRunning, Running
  <2> DEFINE started == [call[c] EXCEPT !.pc = "fetch", !.retry = TRUE]
  <2>2. started \in Calls /\ started.alone = call[c].alone /\ GoesRefreshing(c, started)
    BY <2>1, <1>2 DEF Calls, Running, Refreshing, Key
  <2>3. started.alone => \A d \in Callers \ {c} : ~IsRefreshing(d)
    BY <2>1, <2>2 DEF OthersWait
  <2> HIDE DEF started
  <2> QED
    BY <2>2, <2>3, <1>0, StartingStep
<1>3. ASSUME NEW c \in Callers, Step(c),
             ~(Key(c) /\ call[c].token.kid \notin keys /\ ~call[c].retry)
      PROVE  OthersWait'
  <2>1. call[c] \in Calls /\ IsRunning(c)
    BY <1>0, <1>3, RunningIsCall DEF Step, FetchKeys, FetchFails, Clear, ClearIsDisturbed, Install,
        Stamp, Key, Claims, Contains, Record, At, IsRunning, Running, Refreshing
  <2>2. CASE \E result \in Ended : Ends(c, result)
    BY <2>2, <1>0, EndedIsResult, QuietStep
  <2>3. CASE FetchKeys(c) \/ Clear(c) \/ Install(c)
    <3>1. IsRefreshing(c)
      BY <2>3 DEF FetchKeys, Clear, Install, At, IsRefreshing, Refreshing
    <3>2. call'[c].alone = call[c].alone /\ \A d \in Callers \ {c} : call'[d] = call[d]
      BY <2>1, <2>3, <1>0 DEF FetchKeys, Clear, Install, Goes, CallsOK, Calls
    <3> QED
      BY <2>1, <3>1, <3>2, QuietStep
  <2>4. CASE \E pc \in {"key", "claims", "contains", "record"} :
                \/ Goes(c, pc)
                \/ call' = [call EXCEPT ![c].pc = pc, ![c].steady = FALSE]
    <3>1. /\ call'[c].alone = call[c].alone
          /\ call'[c].pc \in {"key", "claims", "contains", "record"}
          /\ \A d \in Callers \ {c} : call'[d] = call[d]
      BY <2>1, <2>4, <1>0 DEF Goes, CallsOK, Calls
    <3> QED
      BY <2>1, <3>1, QuietStep DEF IsRefreshing, Refreshing
  <2> QED
    BY <1>3, <2>2, <2>3, <2>4 DEF Step, FetchFails, ClearIsDisturbed, Stamp, Key, Claims, Contains,
        Record, Ended
<1>4. CASE Rotate
  <2>1. \A c \in Callers : /\ call'[c].pc = call[c].pc
                           /\ IsRunning(c) => call'[c].alone = call[c].alone
    BY <1>0, <1>4, RunningIsCall DEF Rotate, Calls
  <2> QED
    BY <2>1 DEF OthersWait, IsRunning, IsRefreshing
<1>5. CASE Tick
  <2>1. \A c \in Callers : /\ call'[c].pc = call[c].pc
                           /\ IsRunning(c) => call'[c].alone = call[c].alone
    BY <1>0, <1>5, RunningIsCall DEF Tick, Calls
  <2> QED
    BY <2>1 DEF OthersWait, IsRunning, IsRefreshing
<1>6. CASE Restart
  BY <1>6 DEF Restart, OthersWait, IsRunning, Running, Refreshing
<1>7. CASE UNCHANGED vars
  BY <1>7 DEF vars, OthersWait, IsRunning, IsRefreshing
<1> QED
  BY <1>1, <1>2, <1>3, <1>4, <1>5, <1>6, <1>7 DEF Next

-----------------------------------------------------------------------------
KnowsKey(c) ==
    IsRunning(c) /\ call[c].steady =>
        /\ call[c].token.kid \in published
        /\ call[c].pc \in {"clear", "install"} => call[c].token.kid \in call[c].got
        /\ (call[c].alone /\ (At(c, "stamp") \/ (At(c, "key") /\ call[c].retry)))
              => call[c].token.kid \in keys

(* A step that drops no key from the cache leaves what the other calls know.  *)
LEMMA KeepingStep ==
    ASSUME KeyIsFetched, NEW c \in Callers,
           \A d \in Callers \ {c} : call'[d] = call[d],
           published' = published, keys \subseteq keys', KnowsKey(c)'
    PROVE  KeyIsFetched'
  BY DEF KeyIsFetched, KnowsKey, IsRunning, At

LEMMA EndingStep ==
    ASSUME KeyIsFetched, CallsOK, NEW c \in Callers, NEW result \in Ended, Ends(c, result),
           published' = published, keys \subseteq keys'
    PROVE  KeyIsFetched'
  BY EndedIsResult, KeepingStep DEF KnowsKey

LEMMA StartedKnows ==
    ASSUME KeyIsFetched, CallsOK, NEW c \in Callers, NEW started \in Calls,
           GoesRefreshing(c, started),
           started.pc = "fetch", started.steady => started.token.kid \in published,
           published' = published, keys' = keys
    PROVE  KeyIsFetched'
<1>1. /\ call'[c] = started
      /\ \A d \in Callers \ {c} :
            /\ ~IsRunning(d) => call'[d] = call[d]
            /\ IsRunning(d) => call'[d] = [call[d] EXCEPT !.alone = FALSE]
  BY RefreshingCalls
<1>2. \A d \in Callers \ {c} :
         IsRunning(d) => /\ call'[d].alone = FALSE /\ call'[d].pc = call[d].pc
                         /\ call'[d].steady = call[d].steady /\ call'[d].token = call[d].token
                         /\ call'[d].got = call[d].got
  <2> SUFFICES ASSUME NEW d \in Callers \ {c}, IsRunning(d)
               PROVE  /\ call'[d].alone = FALSE /\ call'[d].pc = call[d].pc
                      /\ call'[d].steady = call[d].steady /\ call'[d].token = call[d].token
                      /\ call'[d].got = call[d].got
    OBVIOUS
  <2>1. call[d] \in Calls
    BY RunningIsCall
  <2>2. call'[d] = [call[d] EXCEPT !.alone = FALSE]
    BY <1>1
  <2> QED
    BY <2>1, <2>2 DEF Calls
<1>3. KnowsKey(c)'
  BY <1>1 DEF KnowsKey, At
<1>4. \A d \in Callers \ {c} : KnowsKey(d)'
  BY <1>1, <1>2 DEF KeyIsFetched, KnowsKey, IsRunning, At
<1> QED
  BY <1>3, <1>4 DEF KeyIsFetched, KnowsKey

LEMMA KeyStep ==
    ASSUME TypeOK, OthersWait, KeyIsFetched, [Next]_vars
    PROVE  KeyIsFetched'
<1>0. CallsOK
  BY DEF TypeOK, CallsOK
<1>1. ASSUME NEW c \in Callers, NEW t \in Tokens, Verify(c, t)
      PROVE  KeyIsFetched'
  <2> DEFINE alone == \A d \in Callers \ {c} : ~IsRefreshing(d)
             started(pc) == [pc |-> pc, token |-> t, lag |-> 0, retry |-> FALSE, got |-> {},
                             steady |-> t.kid \in published, alone |-> alone]
  <2>0. (t.kid \in published) \in BOOLEAN /\ alone \in BOOLEAN
    OBVIOUS
  <2> HIDE DEF alone
  <2>1. /\ started("fetch") \in Calls /\ started("fetch").pc = "fetch"
        /\ started("fetch").steady => started("fetch").token.kid \in published
    BY <2>0, StartedIsCall
  <2>2. published' = published /\ keys' = keys
    BY <1>1 DEF Verify
  <2> USE DEF alone
  <2>3. CASE RefreshDue
    <3>1. GoesRefreshing(c, started("fetch"))
      BY <1>1, <2>3 DEF Verify
    <3> HIDE DEF started
    <3> QED
      BY <3>1, <2>1, <2>2, <1>0, StartedKnows
  <2>4. CASE ~RefreshDue
    <3>1. call' = [call EXCEPT ![c] = started("key")]
      BY <1>1, <2>4 DEF Verify
    <3>2. /\ call'[c].pc = "key" /\ call'[c].retry = FALSE /\ call'[c].token = t
          /\ call'[c].steady = (t.kid \in published)
          /\ \A d \in Callers \ {c} : call'[d] = call[d]
      BY <3>1, <1>0 DEF CallsOK
    <3>3. KnowsKey(c)'
      BY <3>2, <2>2 DEF KnowsKey, At
    <3> QED
      BY <3>2, <3>3, <2>2, KeepingStep
  <2> QED
    BY <2>3, <2>4
<1>2. ASSUME NEW c \in Callers, FetchKeys(c)
      PROVE  KeyIsFetched'
  <2>1. call[c] \in Calls /\ IsRunning(c)
    BY <1>0, <1>2, RunningIsCall DEF FetchKeys, At, IsRunning, Running, Refreshing
  <2>2. /\ call'[c] = [call[c] EXCEPT !.pc = "clear", !.got = published]
        /\ \A d \in Callers \ {c} : call'[d] = call[d]
        /\ published' = published /\ keys' = keys
    BY <1>0, <1>2 DEF CallsOK, FetchKeys
  <2>3. KnowsKey(c)'
    BY <2>1, <2>2 DEF KeyIsFetched, KnowsKey, At, Calls
  <2> QED
    BY <2>2, <2>3, KeepingStep
<1>3. ASSUME NEW c \in Callers, FetchFails(c)
      PROVE  KeyIsFetched'
  <2>1. published' = published /\ keys' = keys
    BY <1>3 DEF FetchFails
  <2>2. CASE CacheUsable(c)
    <3>1. call[c] \in Calls
      BY <1>0, <1>3, RunningIsCall DEF FetchFails, At, IsRunning, Running, Refreshing
    <3>2. call'[c].steady = FALSE /\ \A d \in Callers \ {c} : call'[d] = call[d]
      BY <1>0, <1>3, <2>2, <3>1 DEF CallsOK, FetchFails, Calls
    <3> QED
      BY <3>2, <2>1, KeepingStep DEF KnowsKey
  <2>3. CASE ~CacheUsable(c)
    BY <1>0, <1>3, <2>1, <2>3, EndingStep DEF FetchFails, Ended
  <2> QED
    BY <2>2, <2>3
<1>4. ASSUME NEW c \in Callers, Clear(c)
      PROVE  KeyIsFetched'
  <2>1. call[c] \in Calls /\ IsRunning(c) /\ IsRefreshing(c)
    BY <1>0, <1>4, RunningIsCall
       DEF Clear, At, IsRunning, IsRefreshing, Running, Refreshing
  <2>2. /\ call'[c] = [call[c] EXCEPT !.pc = "install"]
        /\ \A d \in Callers \ {c} : call'[d] = call[d]
        /\ published' = published
    BY <1>0, <1>4 DEF CallsOK, Clear, Goes
  <2>3. KnowsKey(c)'
    BY <1>4, <2>1, <2>2 DEF KeyIsFetched, KnowsKey, At, Calls, Clear
  <2>4. \A d \in Callers \ {c} : IsRunning(d) => ~call[d].alone
    BY <2>1 DEF OthersWait
  <2>5. \A d \in Callers \ {c} : KnowsKey(d)'
    BY <2>2, <2>4 DEF KeyIsFetched, KnowsKey, IsRunning, At
  <2> QED
    BY <2>3, <2>5 DEF KeyIsFetched, KnowsKey
<1>5. ASSUME NEW c \in Callers, Install(c)
      PROVE  KeyIsFetched'
  <2>1. call[c] \in Calls /\ IsRunning(c)
    BY <1>0, <1>5, RunningIsCall DEF Install, At, IsRunning, Running, Refreshing
  <2>2. /\ call'[c] = [call[c] EXCEPT !.pc = "stamp", !.got = {}]
        /\ \A d \in Callers \ {c} : call'[d] = call[d]
        /\ published' = published /\ keys' = keys \cup call[c].got
    BY <1>0, <1>5 DEF CallsOK, Install
  <2>3. KnowsKey(c)'
    <3>1. call[c].steady => /\ call[c].token.kid \in published
                            /\ call[c].token.kid \in call[c].got
      BY <1>5, <2>1 DEF KeyIsFetched, At, Install
    <3>2. /\ call'[c].pc = "stamp" /\ call'[c].token = call[c].token
          /\ call'[c].steady = call[c].steady
      BY <2>1, <2>2 DEF Calls
    <3> QED
      BY <2>2, <3>1, <3>2 DEF KnowsKey
  <2> QED
    BY <2>2, <2>3, KeepingStep
<1>6. ASSUME NEW c \in Callers, Stamp(c)
      PROVE  KeyIsFetched'
  <2>1. call[c] \in Calls /\ IsRunning(c)
    BY <1>0, <1>6, RunningIsCall DEF Stamp, At, IsRunning, Running, Refreshing
  <2>2. /\ call'[c] = [call[c] EXCEPT !.pc = "key"]
        /\ \A d \in Callers \ {c} : call'[d] = call[d]
        /\ published' = published /\ keys' = keys
    BY <1>0, <1>6 DEF CallsOK, Stamp, Goes
  <2>3. KnowsKey(c)'
    BY <1>6, <2>1, <2>2 DEF KeyIsFetched, KnowsKey, At, Calls, Stamp
  <2> QED
    BY <2>2, <2>3, KeepingStep
<1>7. ASSUME NEW c \in Callers, Key(c)
      PROVE  KeyIsFetched'
  <2>1. call[c] \in Calls /\ IsRunning(c)
    BY <1>0, <1>7, RunningIsCall DEF Key, At, IsRunning, Running
  <2>2. published' = published /\ keys' = keys
    BY <1>7 DEF Key
  <2>3. CASE call[c].token.kid \in keys
    <3>1. /\ call'[c] = [call[c] EXCEPT !.pc = "claims"]
          /\ \A d \in Callers \ {c} : call'[d] = call[d]
      BY <1>0, <1>7, <2>3 DEF CallsOK, Key, Goes
    <3>2. KnowsKey(c)'
      BY <2>1, <2>2, <3>1 DEF KeyIsFetched, KnowsKey, At, Calls
    <3> QED
      BY <3>1, <3>2, <2>2, KeepingStep
  <2>4. CASE call[c].token.kid \notin keys /\ call[c].retry
    BY <1>0, <1>7, <2>2, <2>4, EndingStep DEF Key, Ended
  <2>5. CASE call[c].token.kid \notin keys /\ ~call[c].retry
    <3> DEFINE started == [call[c] EXCEPT !.pc = "fetch", !.retry = TRUE]
    <3>1. /\ started \in Calls /\ started.pc = "fetch" /\ GoesRefreshing(c, started)
          /\ started.steady => started.token.kid \in published
      BY <1>7, <2>1, <2>5 DEF KeyIsFetched, Calls, Running, Refreshing, Key
    <3> HIDE DEF started
    <3> QED
      BY <3>1, <2>2, <1>0, StartedKnows
  <2> QED
    BY <2>3, <2>4, <2>5
<1>8. ASSUME NEW c \in Callers, ClearIsDisturbed(c) \/ Claims(c) \/ Contains(c) \/ Record(c)
      PROVE  KeyIsFetched'
  <2>1. call[c] \in Calls /\ IsRunning(c)
    BY <1>0, <1>8, RunningIsCall
       DEF ClearIsDisturbed, Claims, Contains, Record, At, IsRunning, Running, Refreshing
  <2>2. published' = published /\ keys' = keys
    BY <1>8 DEF ClearIsDisturbed, Claims, Contains, Record
  <2>3. CASE \E result \in Ended : Ends(c, result)
    BY <2>2, <2>3, <1>0, EndingStep
  <2>4. CASE Goes(c, "contains") \/ Goes(c, "record")
    <3>1. /\ \/ call'[c] = [call[c] EXCEPT !.pc = "contains"]
             \/ call'[c] = [call[c] EXCEPT !.pc = "record"]
          /\ \A d \in Callers \ {c} : call'[d] = call[d]
      BY <1>0, <2>4 DEF CallsOK, Goes
    <3>2. KnowsKey(c)'
      BY <2>1, <2>2, <3>1 DEF KeyIsFetched, KnowsKey, At, Calls
    <3> QED
      BY <3>1, <3>2, <2>2, KeepingStep
  <2> QED
    BY <1>8, <2>3, <2>4 DEF ClearIsDisturbed, Claims, Contains, Record, Ended
<1>9. CASE Rotate
  <2>1. PICK now \in SUBSET KeyIds :
           /\ published' = now /\ keys' = keys
           /\ call' = [c \in Callers |->
                        IF IsRunning(c)
                        THEN [call[c] EXCEPT !.steady = @ /\ call[c].token.kid \in now]
                        ELSE call[c]]
    BY <1>9 DEF Rotate
  <2>2. ASSUME NEW c \in Callers
        PROVE  KnowsKey(c)'
    <3>1. CASE IsRunning(c)
      <4>1. call[c] \in Calls
        BY <1>0, <3>1, RunningIsCall
      <4>2. call'[c] = [call[c] EXCEPT !.steady = call[c].steady /\ call[c].token.kid \in now]
        BY <2>1, <3>1
      <4>3. /\ call'[c].pc = call[c].pc /\ call'[c].token = call[c].token
            /\ call'[c].got = call[c].got /\ call'[c].alone = call[c].alone
            /\ call'[c].retry = call[c].retry
            /\ call'[c].steady = (call[c].steady /\ call[c].token.kid \in now)
        BY <4>1, <4>2 DEF Calls
      <4>4. KnowsKey(c)
        BY DEF KeyIsFetched, KnowsKey
      <4>5. keys' = keys /\ published' = now
        BY <2>1
      <4>6. call'[c].steady => call[c].steady /\ call[c].token.kid \in now
        BY <4>3, Zenon
      <4> SUFFICES ASSUME call'[c].steady
                   PROVE  /\ call'[c].token.kid \in published'
                          /\ call'[c].pc \in {"clear", "install"} =>
                                call'[c].token.kid \in call'[c].got
                          /\ (call'[c].alone /\ (call'[c].pc = "stamp" \/
                                (call'[c].pc = "key" /\ call'[c].retry)))
                             => call'[c].token.kid \in keys'
        BY DEF KnowsKey, At
      <4>7. call[c].steady
        BY <4>6
      <4>8. /\ call[c].pc \in {"clear", "install"} => call[c].token.kid \in call[c].got
            /\ (call[c].alone /\ (call[c].pc = "stamp" \/ (call[c].pc = "key" /\ call[c].retry)))
               => call[c].token.kid \in keys
        BY <3>1, <4>4, <4>7 DEF KnowsKey, At
      <4> QED
        BY <4>3, <4>6, <4>5, <4>8, Zenon
    <3>2. CASE ~IsRunning(c)
      BY <2>1, <3>2 DEF KnowsKey, IsRunning
    <3> QED
      BY <3>1, <3>2
  <2> QED
    BY <2>2 DEF KeyIsFetched, KnowsKey
<1>10. CASE Tick
  <2>1. published' = published /\ keys' = keys
    BY <1>10 DEF Tick
  <2>2. ASSUME NEW c \in Callers
        PROVE  KnowsKey(c)'
    <3>1. CASE IsRunning(c)
      <4>1. /\ call'[c].pc = call[c].pc /\ call'[c].token = call[c].token
            /\ call'[c].got = call[c].got /\ call'[c].alone = call[c].alone
            /\ call'[c].retry = call[c].retry /\ call'[c].steady = call[c].steady
        BY <1>0, <1>10, <3>1, RunningIsCall DEF Tick, Calls
      <4> QED
        BY <2>1, <3>1, <4>1 DEF KeyIsFetched, KnowsKey, IsRunning, At
    <3>2. CASE ~IsRunning(c)
      BY <1>10, <3>2 DEF Tick, KnowsKey, IsRunning
    <3> QED
      BY <3>1, <3>2
  <2> QED
    BY <2>2 DEF KeyIsFetched, KnowsKey
<1>11. CASE Restart
  BY <1>11 DEF Restart, KeyIsFetched, IsRunning, Running, Refreshing
<1>12. CASE UNCHANGED vars
  BY <1>12 DEF vars, KeyIsFetched, IsRunning, At
<1> QED
  BY <1>1, <1>2, <1>3, <1>4, <1>5, <1>6, <1>7, <1>8, <1>9, <1>10, <1>11, <1>12 DEF Next, Step

-----------------------------------------------------------------------------
LEMMA InitInv ==
    ASSUME Init
    PROVE  IInv
<1>1. TypeOK
  BY InitIsTyped
<1>2. \A c \in Callers : ~IsRunning(c)
  BY DEF Init, IsRunning, Running, Refreshing
<1> QED
  BY <1>1, <1>2 DEF IInv, AcceptedIsRecorded, OthersWait, KeyIsFetched, Init

(* The inductive invariant of all verifications, for any number of threads.   *)
THEOREM Invariant == Spec => []IInv
<1>1. Init => IInv
  BY InitInv
<1>2. IInv /\ [Next]_vars => IInv'
  BY TypeStep, RecordedStep, WaitStep, KeyStep DEF IInv
<1> QED
  BY <1>1, <1>2, PTL DEF Spec

(* All variables keep their types: ages stay below their bounds.              *)
THEOREM TypeCorrect == Spec => []TypeOK
<1>1. IInv => TypeOK
  BY DEF IInv
<1> QED
  BY <1>1, Invariant, PTL

(* A token is accepted by one verification at most, in any number of threads  *)
(* and across restarts.                                                       *)
THEOREM AcceptedOnce == Spec => TokenAcceptedOnce
<1>1. IInv /\ [Next]_vars =>
         [\A c \in Callers :
            ~At(c, "accepted") /\ At(c, "accepted")' => call[c].token.jti \notin accepted]_vars
  <2> SUFFICES ASSUME IInv, [Next]_vars, NEW c \in Callers,
                      ~At(c, "accepted"), At(c, "accepted")'
               PROVE  call[c].token.jti \notin accepted
    OBVIOUS
  <2>0. CallsOK
    BY DEF IInv, TypeOK, CallsOK
  <2>1. ASSUME NEW d \in Callers, Record(d)
        PROVE  call[c].token.jti \notin accepted
    <3>1. c = d
      BY <2>0, <2>1, EndedIsResult DEF Record, At, Ended
    <3>2. call[d].token.jti \notin recorded
      <4>1. CASE call[d].token.jti \in recorded
        <5>1. call' = [call EXCEPT ![d] = [pc |-> "refused", token |-> call[d].token]]
          BY <2>1, <4>1 DEF Record, Ends
        <5> QED
          BY <5>1, <3>1, <2>0 DEF At, CallsOK
      <4> QED
        BY <4>1
    <3> QED
      BY <3>1, <3>2 DEF IInv, AcceptedIsRecorded
  <2>2. ASSUME NEW d \in Callers, Step(d), ~Record(d)
        PROVE  call'[c].pc # "accepted"
    <3>1. call[d] \in Calls
      BY <2>0, <2>2, RunningIsCall DEF Step, FetchKeys, FetchFails, Clear, ClearIsDisturbed,
          Install, Stamp, Key, Claims, Contains, Record, At, IsRunning, Running, Refreshing
    <3>2. CASE \E result \in Ended \ {"accepted"} : Ends(d, result)
      BY <2>0, <3>2, EndedIsResult DEF Ends, At, CallsOK
    <3>3. CASE Key(d) /\ call[d].token.kid \notin keys /\ ~call[d].retry
      <4> DEFINE started == [call[d] EXCEPT !.pc = "fetch", !.retry = TRUE]
      <4>1. started \in Calls /\ started.pc = "fetch" /\ GoesRefreshing(d, started)
        BY <3>1, <3>3 DEF Calls, Running, Refreshing, Key
      <4> HIDE DEF started
      <4>2. \A e \in Callers \ {d} :
               IsRunning(e) => [call[e] EXCEPT !.alone = FALSE].pc = call[e].pc
        BY <2>0, RunningIsCall DEF Calls
      <4>3. /\ call'[d] = started
            /\ \A e \in Callers \ {d} :
                  /\ ~IsRunning(e) => call'[e] = call[e]
                  /\ IsRunning(e) => call'[e] = [call[e] EXCEPT !.alone = FALSE]
        BY <4>1, <2>0, RefreshingCalls
      <4>4. \A e \in Callers \ {d} : call'[e].pc = call[e].pc
        BY <4>2, <4>3
      <4> QED
        BY <4>1, <4>3, <4>4 DEF At
    <3>4. CASE \E pc \in Running : \/ Goes(d, pc)
                                   \/ call' = [call EXCEPT ![d].pc = pc, ![d].steady = FALSE]
                                   \/ call' = [call EXCEPT ![d].pc = pc, ![d].got = published]
                                   \/ call' = [call EXCEPT ![d].pc = pc, ![d].got = {}]
      <4>1. \A e \in Callers \ {d} : call'[e] = call[e]
        BY <2>0, <3>4 DEF Goes, CallsOK
      <4>2. call'[d].pc \in Running
        BY <2>0, <3>1, <3>4 DEF Goes, CallsOK, Calls
      <4> QED
        BY <4>1, <4>2 DEF At, Running, Refreshing
    <3> QED
      BY <2>2, <3>2, <3>3, <3>4 DEF Step, FetchKeys, FetchFails, Clear, ClearIsDisturbed, Install,
          Stamp, Key, Claims, Contains, Ended, Running, Refreshing
  <2>3. ASSUME NEW d \in Callers, NEW t \in Tokens, Verify(d, t)
        PROVE  call'[c].pc # "accepted"
    <3>1. \A e \in Callers \ {d} : IsRunning(e) => [call[e] EXCEPT !.alone = FALSE].pc = call[e].pc
      BY <2>0, RunningIsCall DEF Calls
    <3>2. call'[d].pc \in {"fetch", "key"}
      BY <2>0, <2>3 DEF Verify, GoesRefreshing, CallsOK
    <3>3. \A e \in Callers \ {d} : call'[e].pc = call[e].pc
      BY <2>0, <2>3, <3>1 DEF Verify, GoesRefreshing, CallsOK
    <3> QED
      BY <3>2, <3>3 DEF At
  <2>4. CASE Rotate \/ Tick
    <3>1. call'[c].pc = call[c].pc
      BY <2>0, <2>4, RunningIsCall DEF Rotate, Tick, Calls
    <3> QED
      BY <3>1 DEF At
  <2>5. CASE Restart
    BY <2>5 DEF Restart, At
  <2>6. CASE UNCHANGED vars
    BY <2>6 DEF vars, At
  <2> QED
    BY <2>1, <2>2, <2>3, <2>4, <2>5, <2>6 DEF Next, At
<1> QED
  BY <1>1, Invariant, PTL DEF Spec, TokenAcceptedOnce

(* A token whose key is published all the time is called untrusted only when  *)
(* a fetch failed or another call was refreshing too.                         *)
THEOREM Trusted == Spec => PublishedIsTrusted
<1>1. IInv /\ [Next]_vars =>
         [\A c \in Callers :
            At(c, "key") /\ At(c, "untrusted")' => ~(call[c].steady /\ call[c].alone)]_vars
  <2> SUFFICES ASSUME IInv, [Next]_vars, NEW c \in Callers,
                      At(c, "key"), At(c, "untrusted")', call[c].steady, call[c].alone
               PROVE  FALSE
    OBVIOUS
  <2>0. CallsOK
    BY DEF IInv, TypeOK, CallsOK
  <2>1. IsRunning(c) /\ call[c] \in Calls
    BY <2>0, RunningIsCall DEF At, IsRunning, Running
  <2>2. call[c].retry => call[c].token.kid \in keys
    BY <2>1 DEF IInv, KeyIsFetched
  <2>3. ASSUME NEW d \in Callers \ {c}, Step(d)
        PROVE  call'[c].pc # "untrusted"
    BY <2>0, <2>1, <2>3 DEF Step, FetchKeys, FetchFails, Clear, ClearIsDisturbed, Install, Stamp,
        Key, Claims, Contains, Record, Goes, Ends, GoesRefreshing, CallsOK, Calls, At
  <2>4. ASSUME Key(c)
        PROVE  call'[c].pc # "untrusted"
    <3>1. CASE call[c].token.kid \in keys
      BY <2>0, <2>1, <2>4, <3>1 DEF Key, Goes, CallsOK, Calls
    <3>2. CASE call[c].token.kid \notin keys
      <4>1. ~call[c].retry
        BY <2>2, <3>2
      <4>2. GoesRefreshing(c, [call[c] EXCEPT !.pc = "fetch", !.retry = TRUE])
        BY <2>4, <3>2, <4>1 DEF Key
      <4> QED
        BY <2>1, <4>2 DEF GoesRefreshing, Calls
    <3> QED
      BY <3>1, <3>2
  <2>5. ASSUME Step(c)
        PROVE  Key(c)
    BY <2>5 DEF Step, FetchKeys, FetchFails, Clear, ClearIsDisturbed, Install, Stamp, Claims,
        Contains, Record, At
  <2>6. ASSUME NEW d \in Callers, NEW t \in Tokens, Verify(d, t)
        PROVE  call'[c].pc # "untrusted"
    <3>1. c # d
      BY <2>1, <2>6 DEF Verify
    <3> QED
      BY <2>0, <2>1, <2>6, <3>1 DEF Verify, GoesRefreshing, CallsOK, Calls, At
  <2>7. CASE Rotate \/ Tick
    BY <2>0, <2>1, <2>7, RunningIsCall DEF Rotate, Tick, Calls, At
  <2>8. CASE Restart
    BY <2>8 DEF Restart, At
  <2>9. CASE UNCHANGED vars
    BY <2>9 DEF vars, At
  <2> QED
    BY <2>3, <2>4, <2>5, <2>6, <2>7, <2>8, <2>9 DEF Next, At
<1> QED
  BY <1>1, Invariant, PTL DEF Spec, PublishedIsTrusted
-----------------------------------------------------------------------------
\* How long keys have been withdrawn that a call is dealing with, and the cache.
PublishedIsNew == \A k \in published \cap TokenKeyIds : withdrawn[k] = 0

DatedCache ==
    age # Never => \A k \in keys \cap TokenKeyIds : withdrawn[k] <= age + 2 * MaxCallTime

\* What was fetched was published since the call began; what is in the cache after it was
\* cleared was fetched by a call that was under way then; what a call looks a key up in was
\* recent enough when the call read the clock.
FetchedIsRecent(c) ==
    call[c].pc \in {"clear", "install"} =>
        \A k \in call[c].got \cap TokenKeyIds : withdrawn[k] <= call[c].lag
CacheIsRecent(c) ==
    call[c].pc \in {"install", "stamp"} =>
        \A k \in keys \cap TokenKeyIds : withdrawn[k] <= MaxCallTime + call[c].lag
CacheIsUsable(c) ==
    At(c, "key") => age # Never /\ age - call[c].lag <= Longest(policy)
KnowsAges(c) == FetchedIsRecent(c) /\ CacheIsRecent(c) /\ CacheIsUsable(c)

TrustInv == PublishedIsNew /\ DatedCache /\ \A c \in Callers : KnowsAges(c)

LEMMA AgesAreNumbers ==
    ASSUME TypeOK
    PROVE  /\ MaxCallTime \in Nat /\ 0 # Never /\ Longest(policy) \in Nat
           /\ \A k \in TokenKeyIds : withdrawn[k] \in Nat /\ withdrawn[k] <= MaxWithdrawn
           /\ age # Never => age \in Nat /\ age <= MaxAge
           /\ MaxWithdrawn = MaxAge + 2 * MaxCallTime
           /\ TrustedFor(policy) = Longest(policy) + 3 * MaxCallTime
           /\ RefreshInterval \in Nat /\ RefreshInterval <= Longest(policy)
           /\ MaxAge \in Nat /\ MaxWithdrawn \in Nat
<1>1. /\ RefreshInterval \in Nat /\ StaleGrace \in Nat /\ MaxCallTime \in Nat /\ Never \notin Int
  BY VerifierAssumption DEF VerifierAssumption
<1>2. MaxAge \in Nat /\ MaxWithdrawn \in Nat
  BY BoundsAreNaturals
<1> QED
  BY <1>1, <1>2 DEF TypeOK, MaxAge, MaxWithdrawn, TrustedFor, Longest

LEMMA LagIsNumber ==
    ASSUME TypeOK, NEW c \in Callers, IsRunning(c)
    PROVE  call[c] \in Calls /\ call[c].lag \in Nat /\ call[c].lag <= MaxCallTime
<1>1. call[c] \in Calls
  BY RunningIsCall DEF TypeOK, CallsOK
<1> QED
  BY <1>1, VerifierAssumption DEF VerifierAssumption, Calls

(* A call that goes elsewhere than to where ages matter knows enough.         *)
LEMMA ElsewhereKnows ==
    ASSUME NEW c \in Callers, call'[c].pc \notin {"clear", "install", "stamp", "key"}
    PROVE  KnowsAges(c)'
  BY DEF KnowsAges, FetchedIsRecent, CacheIsRecent, CacheIsUsable, At

(* What a step does not touch stays known.                                    *)
LEMMA UntouchedKnows ==
    ASSUME TypeOK, NEW c \in Callers, KnowsAges(c), UNCHANGED <<policy, withdrawn>>,
           keys' \subseteq keys,
           age' = age \/ age' = 0,
           call'[c].pc = call[c].pc,
           IsRunning(c) => call'[c].lag = call[c].lag /\ call'[c].got = call[c].got
    PROVE  KnowsAges(c)'
<1>1. CASE IsRunning(c)
  <2>1. 0 # Never /\ Longest(policy) \in Nat /\ call[c].lag \in Nat
    BY <1>1, AgesAreNumbers, LagIsNumber
  <2>2. FetchedIsRecent(c)'
    BY <1>1 DEF KnowsAges, FetchedIsRecent
  <2>3. CacheIsRecent(c)'
    BY <1>1 DEF KnowsAges, CacheIsRecent
  <2>4. Longest(policy)' = Longest(policy)
    BY DEF Longest
  <2>5. CacheIsUsable(c)'
    BY <1>1, <2>1, <2>4 DEF KnowsAges, CacheIsUsable, At
  <2> QED
    BY <2>2, <2>3, <2>5 DEF KnowsAges
<1>2. CASE ~IsRunning(c)
  BY <1>2, ElsewhereKnows DEF IsRunning, Running, Refreshing
<1> QED
  BY <1>1, <1>2

(* The step of one call leaves the others where they are.                     *)
LEMMA OthersStay ==
    ASSUME TypeOK, NEW c \in Callers, NEW d \in Callers \ {c},
           Step(c) \/ \E t \in Tokens : Verify(c, t)
    PROVE  /\ call'[d].pc = call[d].pc
           /\ IsRunning(d) => call'[d].lag = call[d].lag /\ call'[d].got = call[d].got
<1>1. IsRunning(d) =>
         /\ [call[d] EXCEPT !.alone = FALSE].pc = call[d].pc
         /\ [call[d] EXCEPT !.alone = FALSE].lag = call[d].lag
         /\ [call[d] EXCEPT !.alone = FALSE].got = call[d].got
  BY LagIsNumber DEF Calls
<1>2. call'[d] = call[d] \/ (IsRunning(d) /\ call'[d] = [call[d] EXCEPT !.alone = FALSE])
  BY DEF TypeOK, Step, FetchKeys, FetchFails, Clear, ClearIsDisturbed, Install, Stamp, Key,
         Claims, Contains, Record, Verify, Goes, Ends, GoesRefreshing
<1> QED
  BY <1>1, <1>2

-----------------------------------------------------------------------------
LEMMA InitTrust ==
    ASSUME Init
    PROVE  TrustInv
<1>1. \A c \in Callers : call[c].pc = "idle"
  BY DEF Init
<1>2. PublishedIsNew
  BY DEF Init, PublishedIsNew
<1>3. DatedCache
  BY DEF Init, DatedCache
<1> QED
  BY <1>1, <1>2, <1>3
     DEF TrustInv, KnowsAges, FetchedIsRecent, CacheIsRecent, CacheIsUsable, At

(* Steps that leave the cache and the issuer as they are: what the call knows *)
(* then is all there is to show.                                              *)
LEMMA QuietTrust ==
    ASSUME TypeOK, TrustInv, NEW c \in Callers,
           Step(c) \/ \E t \in Tokens : Verify(c, t),
           UNCHANGED <<policy, published, withdrawn, keys, age>>,
           KnowsAges(c)'
    PROVE  TrustInv'
<1>1. ASSUME NEW d \in Callers \ {c} PROVE KnowsAges(d)'
  BY OthersStay, UntouchedKnows DEF TrustInv
<1>2. PublishedIsNew' /\ DatedCache'
  BY DEF TrustInv, PublishedIsNew, DatedCache
<1> QED
  BY <1>1, <1>2 DEF TrustInv

LEMMA VerifyTrust ==
    ASSUME TypeOK, TrustInv, NEW c \in Callers, NEW t \in Tokens, Verify(c, t)
    PROVE  TrustInv'
<1>1. UNCHANGED <<policy, published, withdrawn, keys, age>>
  BY DEF Verify
<1>2. CASE RefreshDue
  <2>1. call'[c].pc = "fetch"
    BY <1>2 DEF Verify, GoesRefreshing, TypeOK
  <2> QED
    BY <1>1, <2>1, ElsewhereKnows, QuietTrust
<1>3. CASE ~RefreshDue
  <2>1. call'[c].pc = "key" /\ call'[c].lag = 0
    BY <1>3 DEF Verify, TypeOK
  <2>2. age # Never /\ age - 0 <= Longest(policy)
    BY <1>3, AgesAreNumbers DEF RefreshDue
  <2>3. Longest(policy)' = Longest(policy)
    BY <1>1 DEF Longest
  <2>4. KnowsAges(c)'
    BY <1>1, <2>1, <2>2, <2>3 DEF KnowsAges, FetchedIsRecent, CacheIsRecent, CacheIsUsable, At
  <2> QED
    BY <1>1, <2>4, QuietTrust
<1> QED
  BY <1>2, <1>3

LEMMA FetchTrust ==
    ASSUME TypeOK, TrustInv, NEW c \in Callers, FetchKeys(c) \/ FetchFails(c)
    PROVE  TrustInv'
<1>1. UNCHANGED <<policy, published, withdrawn, keys, age>> /\ Step(c)
  BY DEF FetchKeys, FetchFails, Step
<1>2. call[c] \in Calls /\ call[c].lag \in Nat
  BY LagIsNumber DEF FetchKeys, FetchFails, At, IsRunning, Running, Refreshing
<1>3. CASE FetchKeys(c)
  <2>1. call'[c].pc = "clear" /\ call'[c].got = published /\ call'[c].lag = call[c].lag
    BY <1>2, <1>3 DEF FetchKeys, TypeOK, Calls
  <2>2. KnowsAges(c)'
    BY <1>1, <1>2, <2>1
       DEF KnowsAges, FetchedIsRecent, CacheIsRecent, CacheIsUsable, At, TrustInv, PublishedIsNew
  <2> QED
    BY <1>1, <2>2, QuietTrust
<1>4. CASE FetchFails(c) /\ CacheUsable(c)
  <2>1. call'[c].pc = "key" /\ call'[c].lag = call[c].lag
    BY <1>2, <1>4 DEF FetchFails, TypeOK, Calls
  <2>2. age # Never /\ age - call[c].lag <= Longest(policy)
    BY <1>4 DEF CacheUsable, Longest
  <2>3. Longest(policy)' = Longest(policy)
    BY <1>1 DEF Longest
  <2>4. KnowsAges(c)'
    BY <1>1, <2>1, <2>2, <2>3 DEF KnowsAges, FetchedIsRecent, CacheIsRecent, CacheIsUsable, At
  <2> QED
    BY <1>1, <2>4, QuietTrust
<1>5. CASE FetchFails(c) /\ ~CacheUsable(c)
  <2>1. call'[c].pc = "outage"
    BY <1>5 DEF FetchFails, Ends, TypeOK
  <2> QED
    BY <1>1, <2>1, ElsewhereKnows, QuietTrust
<1> QED
  BY <1>3, <1>4, <1>5

LEMMA ClearTrust ==
    ASSUME TypeOK, TrustInv, NEW c \in Callers, Clear(c)
    PROVE  TrustInv'
<1>1. UNCHANGED <<policy, published, withdrawn, age>> /\ keys' = {} /\ Step(c)
  BY DEF Clear, Step
<1>2. call[c] \in Calls
  BY LagIsNumber DEF Clear, At, IsRunning, Running, Refreshing
<1>3. /\ call[c].pc = "clear" /\ call'[c].pc = "install"
      /\ call'[c].lag = call[c].lag /\ call'[c].got = call[c].got
  BY <1>2 DEF Clear, Goes, At, TypeOK, Calls
<1>4. KnowsAges(c)'
  BY <1>1, <1>3 DEF KnowsAges, FetchedIsRecent, CacheIsRecent, CacheIsUsable, At, TrustInv
<1>5. ASSUME NEW d \in Callers \ {c} PROVE KnowsAges(d)'
  BY <1>1, OthersStay, UntouchedKnows DEF TrustInv
<1>6. PublishedIsNew' /\ DatedCache'
  BY <1>1 DEF TrustInv, PublishedIsNew, DatedCache
<1> QED
  BY <1>4, <1>5, <1>6 DEF TrustInv

LEMMA InstallTrust ==
    ASSUME TypeOK, TrustInv, NEW c \in Callers, Install(c)
    PROVE  TrustInv'
<1>1. /\ UNCHANGED <<policy, published, withdrawn, age>> /\ Step(c)
      /\ keys' = keys \cup call[c].got
  BY DEF Install, Step
<1>2. /\ call[c] \in Calls /\ call[c].lag \in Nat /\ call[c].lag <= MaxCallTime
      /\ call[c].pc = "install"
  BY LagIsNumber DEF Install, At, IsRunning, Running, Refreshing
<1>3. call'[c].pc = "stamp" /\ call'[c].lag = call[c].lag
  BY <1>2 DEF Install, TypeOK, Calls
<1>4. /\ MaxCallTime \in Nat
      /\ \A k \in TokenKeyIds : withdrawn[k] \in Nat
      /\ age # Never => age \in Nat
  BY AgesAreNumbers
<1>5. \A k \in call[c].got \cap TokenKeyIds : withdrawn[k] <= call[c].lag
  BY <1>2 DEF TrustInv, KnowsAges, FetchedIsRecent
<1>6. KnowsAges(c)'
  <2>1. \A k \in keys \cap TokenKeyIds : withdrawn[k] <= MaxCallTime + call[c].lag
    BY <1>2 DEF TrustInv, KnowsAges, CacheIsRecent
  <2>2. \A k \in keys' \cap TokenKeyIds : withdrawn[k] <= MaxCallTime + call[c].lag
    BY <1>1, <1>2, <1>4, <1>5, <2>1
  <2> QED
    BY <1>1, <1>3, <2>2 DEF KnowsAges, FetchedIsRecent, CacheIsRecent, CacheIsUsable, At
<1>7. ASSUME NEW d \in Callers \ {c} PROVE KnowsAges(d)'
  <2>1. KnowsAges(d)
    BY DEF TrustInv
  <2>2. CASE call[d].pc \in {"install", "stamp"}
    <3>1. IsRunning(d)
      BY <2>2 DEF IsRunning, Running, Refreshing
    <3>2. call[d].lag \in Nat
      BY <3>1, LagIsNumber
    <3>3. /\ call'[d].pc = call[d].pc /\ call'[d].lag = call[d].lag
          /\ call'[d].got = call[d].got
      BY <1>1, <3>1, OthersStay
    <3>4. \A k \in keys \cap TokenKeyIds : withdrawn[k] <= MaxCallTime + call[d].lag
      BY <2>1, <2>2 DEF KnowsAges, CacheIsRecent
    <3>5. \A k \in keys' \cap TokenKeyIds : withdrawn[k] <= MaxCallTime + call[d].lag
      BY <1>1, <1>2, <1>4, <1>5, <3>2, <3>4
    <3>6. CacheIsRecent(d)'
      BY <1>1, <3>3, <3>5 DEF CacheIsRecent
    <3>7. FetchedIsRecent(d)'
      BY <1>1, <2>1, <3>3 DEF KnowsAges, FetchedIsRecent
    <3>8. CacheIsUsable(d)'
      BY <2>2, <3>3 DEF CacheIsUsable, At
    <3> QED
      BY <3>6, <3>7, <3>8 DEF KnowsAges
  <2>3. CASE call[d].pc \in {"clear", "key"}
    <3>1. IsRunning(d)
      BY <2>3 DEF IsRunning, Running, Refreshing
    <3>2. /\ call'[d].pc = call[d].pc /\ call'[d].lag = call[d].lag
          /\ call'[d].got = call[d].got
      BY <1>1, <3>1, OthersStay
    <3>3. Longest(policy)' = Longest(policy)
      BY <1>1 DEF Longest
    <3> QED
      BY <1>1, <2>1, <2>3, <3>2, <3>3
         DEF KnowsAges, FetchedIsRecent, CacheIsRecent, CacheIsUsable, At
  <2>4. CASE call[d].pc \notin {"clear", "install", "stamp", "key"}
    BY <1>1, <2>4, OthersStay, ElsewhereKnows
  <2> QED
    BY <2>2, <2>3, <2>4
<1>8. DatedCache'
  <2>1. \A k \in call[c].got \cap TokenKeyIds :
           age # Never => withdrawn[k] <= age + 2 * MaxCallTime
    BY <1>2, <1>4, <1>5
  <2> QED
    BY <1>1, <2>1 DEF TrustInv, DatedCache
<1>9. PublishedIsNew'
  BY <1>1 DEF TrustInv, PublishedIsNew
<1> QED
  BY <1>6, <1>7, <1>8, <1>9 DEF TrustInv

LEMMA StampTrust ==
    ASSUME TypeOK, TrustInv, NEW c \in Callers, Stamp(c)
    PROVE  TrustInv'
<1>1. UNCHANGED <<policy, published, withdrawn, keys>> /\ age' = 0 /\ Step(c)
  BY DEF Stamp, Step
<1>2. /\ call[c] \in Calls /\ call[c].lag \in Nat /\ call[c].lag <= MaxCallTime
      /\ call[c].pc = "stamp"
  BY LagIsNumber DEF Stamp, At, IsRunning, Running, Refreshing
<1>3. call'[c].pc = "key" /\ call'[c].lag = call[c].lag
  BY <1>2 DEF Stamp, Goes, TypeOK, Calls
<1>4. /\ MaxCallTime \in Nat /\ 0 # Never /\ Longest(policy) \in Nat
      /\ \A k \in TokenKeyIds : withdrawn[k] \in Nat
  BY AgesAreNumbers
<1>5. \A k \in keys \cap TokenKeyIds : withdrawn[k] <= MaxCallTime + call[c].lag
  BY <1>2 DEF TrustInv, KnowsAges, CacheIsRecent
<1>6. DatedCache'
  BY <1>1, <1>2, <1>4, <1>5 DEF DatedCache
<1>7. Longest(policy)' = Longest(policy)
  BY <1>1 DEF Longest
<1>8. KnowsAges(c)'
  BY <1>1, <1>2, <1>3, <1>4, <1>7
     DEF KnowsAges, FetchedIsRecent, CacheIsRecent, CacheIsUsable, At
<1>9. ASSUME NEW d \in Callers \ {c} PROVE KnowsAges(d)'
  BY <1>1, OthersStay, UntouchedKnows DEF TrustInv
<1>10. PublishedIsNew'
  BY <1>1 DEF TrustInv, PublishedIsNew
<1> QED
  BY <1>6, <1>8, <1>9, <1>10 DEF TrustInv

LEMMA OtherStepsTrust ==
    ASSUME TypeOK, TrustInv, NEW c \in Callers,
           ClearIsDisturbed(c) \/ Key(c) \/ Claims(c) \/ Contains(c) \/ Record(c)
    PROVE  TrustInv'
<1>1. UNCHANGED <<policy, published, withdrawn, keys, age>> /\ Step(c)
  BY DEF ClearIsDisturbed, Key, Claims, Contains, Record, Step
<1>2. call'[c].pc \in {"error", "claims", "untrusted", "fetch", "contains", "refused", "record",
                       "accepted"}
  <2>1. call[c] \in Calls
    BY LagIsNumber DEF ClearIsDisturbed, Key, Claims, Contains, Record, At, IsRunning, Running,
       Refreshing
  <2>2. CASE \E result \in {"error", "untrusted", "refused", "accepted"} : Ends(c, result)
    BY <2>2 DEF Ends, TypeOK
  <2>3. CASE \E pc \in {"claims", "contains", "record"} : Goes(c, pc)
    BY <2>1, <2>3 DEF Goes, TypeOK, Calls
  <2>4. CASE GoesRefreshing(c, [call[c] EXCEPT !.pc = "fetch", !.retry = TRUE])
    <3>1. call'[c] = [call[c] EXCEPT !.pc = "fetch", !.retry = TRUE]
      BY <2>4 DEF GoesRefreshing, TypeOK
    <3> QED
      BY <2>1, <3>1 DEF Calls
  <2> QED
    BY <2>2, <2>3, <2>4 DEF ClearIsDisturbed, Key, Claims, Contains, Record
<1> QED
  BY <1>1, <1>2, ElsewhereKnows, QuietTrust

LEMMA RotateTrust ==
    ASSUME TypeOK, TrustInv, Rotate
    PROVE  TrustInv'
<1>1. PICK now \in SUBSET KeyIds :
        /\ published' = now
        /\ withdrawn' = [k \in TokenKeyIds |-> IF k \in now THEN 0 ELSE withdrawn[k]]
        /\ call' = [c \in Callers |->
                     IF IsRunning(c)
                     THEN [call[c] EXCEPT !.steady = @ /\ call[c].token.kid \in now]
                     ELSE call[c]]
        /\ UNCHANGED <<policy, keys, age>>
  BY DEF Rotate
<1>2. \A k \in TokenKeyIds : withdrawn[k] \in Nat /\ withdrawn'[k] \in {0, withdrawn[k]}
  BY <1>1, AgesAreNumbers
<1>3. PublishedIsNew'
  BY <1>1 DEF PublishedIsNew
<1>4. DatedCache'
  BY <1>1, <1>2, AgesAreNumbers DEF TrustInv, DatedCache
<1>5. ASSUME NEW c \in Callers PROVE KnowsAges(c)'
  <2>1. CASE IsRunning(c)
    <3>1. call[c] \in Calls /\ call[c].lag \in Nat
      BY <2>1, LagIsNumber
    <3>2. /\ call'[c].pc = call[c].pc /\ call'[c].lag = call[c].lag
          /\ call'[c].got = call[c].got
      BY <1>1, <2>1, <3>1 DEF Calls
    <3>3. KnowsAges(c) /\ MaxCallTime \in Nat
      BY AgesAreNumbers DEF TrustInv
    <3>4. FetchedIsRecent(c)'
      BY <1>2, <3>1, <3>2, <3>3 DEF KnowsAges, FetchedIsRecent
    <3>5. CacheIsRecent(c)'
      BY <1>1, <1>2, <3>1, <3>2, <3>3 DEF KnowsAges, CacheIsRecent
    <3>6. CacheIsUsable(c)'
      BY <1>1, <3>2, <3>3 DEF KnowsAges, CacheIsUsable, At, Longest
    <3> QED
      BY <3>4, <3>5, <3>6 DEF KnowsAges
  <2>2. CASE ~IsRunning(c)
    <3>1. call'[c] = call[c]
      BY <1>1, <2>2
    <3> QED
      BY <2>2, <3>1, ElsewhereKnows DEF IsRunning, Running, Refreshing
  <2> QED
    BY <2>1, <2>2
<1> QED
  BY <1>3, <1>4, <1>5 DEF TrustInv

(* Time passes for the keys, the cache and the calls alike.                   *)
LEMMA TickTrust ==
    ASSUME TypeOK, TrustInv, Tick
    PROVE  TrustInv'
<1>1. /\ UNCHANGED <<policy, published, keys>>
      /\ age' = IF age = Never THEN Never ELSE Capped(age, MaxAge)
      /\ withdrawn' = [k \in TokenKeyIds |->
                        IF k \in published THEN 0 ELSE Capped(withdrawn[k], MaxWithdrawn)]
      /\ call' = [c \in Callers |->
                   IF IsRunning(c) THEN [call[c] EXCEPT !.lag = @ + 1] ELSE call[c]]
  BY DEF Tick
<1>2. /\ MaxCallTime \in Nat /\ Longest(policy) \in Nat /\ MaxAge \in Nat
      /\ MaxWithdrawn = MaxAge + 2 * MaxCallTime /\ MaxWithdrawn \in Nat
      /\ age # Never => age \in Nat /\ age <= MaxAge
      /\ \A k \in TokenKeyIds : withdrawn[k] \in Nat /\ withdrawn[k] <= MaxWithdrawn
  BY AgesAreNumbers
<1>3. \A k \in TokenKeyIds :
         withdrawn'[k] \in Nat /\ withdrawn'[k] <= withdrawn[k] + 1 /\ withdrawn'[k] <= MaxWithdrawn
  BY <1>1, <1>2 DEF Capped
<1>4. /\ age' = Never <=> age = Never
      /\ age # Never => /\ age' \in Nat /\ age' <= age + 1
                        /\ age' = age + 1 \/ age' = MaxAge
  <2>1. CASE age = Never
    BY <1>1, <2>1
  <2>2. CASE age # Never
    <3>1. Never \notin Int
      BY BoundsAreNaturals
    <3> QED
      BY <1>1, <1>2, <2>2, <3>1 DEF Capped
  <2> QED
    BY <2>1, <2>2
<1>5. PublishedIsNew'
  BY <1>1 DEF PublishedIsNew
<1>6. DatedCache'
  <2> SUFFICES ASSUME age' # Never, NEW k \in keys \cap TokenKeyIds
               PROVE  withdrawn'[k] <= age' + 2 * MaxCallTime
    BY <1>1 DEF DatedCache
  <2>1. withdrawn[k] <= age + 2 * MaxCallTime
    BY <1>4 DEF TrustInv, DatedCache
  <2> QED
    BY <1>2, <1>3, <1>4, <2>1
<1>7. ASSUME NEW c \in Callers PROVE KnowsAges(c)'
  <2>1. CASE IsRunning(c)
    <3>1. call[c] \in Calls /\ call[c].lag \in Nat
      BY <2>1, LagIsNumber
    <3>2. /\ call'[c].pc = call[c].pc /\ call'[c].lag = call[c].lag + 1
          /\ call'[c].got = call[c].got
      BY <1>1, <2>1, <3>1 DEF Calls
    <3>3. KnowsAges(c)
      BY DEF TrustInv
    <3>4. FetchedIsRecent(c)'
      BY <1>2, <1>3, <3>1, <3>2, <3>3 DEF KnowsAges, FetchedIsRecent
    <3>5. CacheIsRecent(c)'
      BY <1>1, <1>2, <1>3, <3>1, <3>2, <3>3 DEF KnowsAges, CacheIsRecent
    <3>6. Longest(policy)' = Longest(policy)
      BY <1>1 DEF Longest
    <3>7. CacheIsUsable(c)'
      BY <1>2, <1>4, <3>1, <3>2, <3>3, <3>6 DEF KnowsAges, CacheIsUsable, At
    <3> QED
      BY <3>4, <3>5, <3>7 DEF KnowsAges
  <2>2. CASE ~IsRunning(c)
    <3>1. call'[c] = call[c]
      BY <1>1, <2>2
    <3> QED
      BY <2>2, <3>1, ElsewhereKnows DEF IsRunning, Running, Refreshing
  <2> QED
    BY <2>1, <2>2
<1> QED
  BY <1>5, <1>6, <1>7 DEF TrustInv

LEMMA TrustStep == TypeOK /\ TrustInv /\ [Next]_vars => TrustInv'
<1> SUFFICES ASSUME TypeOK, TrustInv, [Next]_vars PROVE TrustInv'
  OBVIOUS
<1>1. ASSUME NEW c \in Callers, Step(c) PROVE TrustInv'
  BY <1>1, FetchTrust, ClearTrust, InstallTrust, StampTrust, OtherStepsTrust DEF Step
<1>2. ASSUME NEW c \in Callers, NEW t \in Tokens, Verify(c, t) PROVE TrustInv'
  BY <1>2, VerifyTrust
<1>3. CASE Restart
  <2>1. \A c \in Callers : call'[c].pc = "idle"
    BY <1>3 DEF Restart
  <2>2. \A c \in Callers : KnowsAges(c)'
    BY <2>1, ElsewhereKnows
  <2>3. PublishedIsNew' /\ DatedCache'
    BY <1>3 DEF Restart, TrustInv, PublishedIsNew, DatedCache
  <2> QED
    BY <2>2, <2>3 DEF TrustInv
<1>4. CASE UNCHANGED vars
  BY <1>4 DEF vars, TrustInv, PublishedIsNew, DatedCache, KnowsAges, FetchedIsRecent,
     CacheIsRecent, CacheIsUsable, At, Longest
<1> QED
  BY <1>1, <1>2, <1>3, <1>4, RotateTrust, TickTrust DEF Next

(* How old keys can be is known in every state.                               *)
THEOREM AgesAreBounded == Spec => []TrustInv
<1>1. Init => TrustInv
  BY InitTrust
<1> QED
  BY <1>1, TrustStep, TypeCorrect, PTL DEF Spec

(* A withdrawn key is trusted no longer than the refresh interval, the grace  *)
(* time where stale keys are used, and three times what a call may take.      *)
THEOREM TrustIsLimited == Spec => TrustEnds
<1> DEFINE Trusts(c) == At(c, "key") /\ At(c, "claims")'
           Recent(c) == withdrawn[call[c].token.kid] <= TrustedFor(policy)
<1>1. TypeOK /\ TrustInv /\ [Next]_vars => [\A c \in Callers : Trusts(c) => Recent(c)]_vars
  <2> SUFFICES ASSUME TypeOK, TrustInv, Next, NEW c \in Callers, Trusts(c) PROVE Recent(c)
    OBVIOUS
  <2>1. /\ IsRunning(c) /\ call[c] \in Calls /\ call[c].lag \in Nat
        /\ call[c].lag <= MaxCallTime /\ call[c].token.kid \in TokenKeyIds
    <3>1. IsRunning(c)
      BY DEF At, IsRunning, Running
    <3> QED
      BY <3>1, LagIsNumber DEF Calls, TokenKeyIds
  <2>2. CASE call[c].token.kid \in keys
    <3> DEFINE k == call[c].token.kid
    <3>1. age # Never /\ age - call[c].lag <= Longest(policy)
      BY DEF TrustInv, KnowsAges, CacheIsUsable
    <3>2. withdrawn[k] <= age + 2 * MaxCallTime
      BY <2>1, <2>2, <3>1 DEF TrustInv, DatedCache
    <3>3. /\ age \in Nat /\ withdrawn[k] \in Nat /\ MaxCallTime \in Nat
          /\ Longest(policy) \in Nat
          /\ TrustedFor(policy) = Longest(policy) + 3 * MaxCallTime
      BY <2>1, <3>1, AgesAreNumbers
    <3> HIDE DEF k
    <3>4. withdrawn[k] <= TrustedFor(policy)
      BY <2>1, <3>1, <3>2, <3>3
    <3> QED
      BY <3>4 DEF k
  <2>3. CASE call[c].token.kid \notin keys
    <3>1. ASSUME NEW d \in Callers \ {c}, Step(d) \/ \E t \in Tokens : Verify(d, t)
          PROVE  FALSE
      BY <3>1, OthersStay DEF At
    <3>2. ASSUME Step(c) PROVE Key(c)
      BY <3>2 DEF Step, FetchKeys, FetchFails, Clear, ClearIsDisturbed, Install, Stamp, Claims,
         Contains, Record, At
    <3>3. ~Key(c)
      <4>1. CASE call[c].retry
        BY <2>3, <4>1 DEF Key, Ends, TypeOK, At
      <4>2. CASE ~call[c].retry
        BY <2>1, <2>3, <4>2 DEF Key, GoesRefreshing, TypeOK, At, Calls
      <4> QED
        BY <4>1, <4>2
    <3>4. ~\E t \in Tokens : Verify(c, t)
      BY <2>1 DEF Verify
    <3>5. ~(Rotate \/ Tick)
      BY <2>1 DEF Rotate, Tick, Calls, At
    <3>6. ~Restart
      BY DEF Restart, At
    <3> QED
      BY <3>1, <3>2, <3>3, <3>4, <3>5, <3>6 DEF Next
  <2> QED
    BY <2>2, <2>3
<1> QED
  BY <1>1, AgesAreBounded, TypeCorrect, PTL DEF Spec, TrustEnds
=============================================================================

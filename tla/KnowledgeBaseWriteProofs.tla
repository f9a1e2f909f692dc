---------------------- MODULE KnowledgeBaseWriteProofs ----------------------
(***************************************************************************)
(* What holds of KnowledgeBaseWrite for any number of articles, proposals  *)
(* and requests.  The receipt is the lock of a version: a request that got *)
(* past AppendReceipt owns its version, no other request does, and the     *)
(* version is not executed yet.                                            *)
(***************************************************************************)
EXTENDS KnowledgeBaseWrite, TLAPS

Owns(c) == call[c].pc \in {"source", "apply", "store", "refresh"}
Unique(map) == \A a, b \in SameKey : Exists(a, map) /\ Exists(b, map) => a = b
Stored(map) == \A a \in Articles : map[a] \in Versions => map[a] \in sources \cap receipts
Fits(e, map) ==
    /\ map[e.article] = Expected(e)
    /\ Expected(e) = Missing => KeyFree(e.article, map)

Approved == \A c \in Callers :
    ~At(c, "idle") => ledger[call[c].proposal].state = "approved_for_write"
OwnedIsStored == \A c \in Callers : Owns(c) =>
    /\ Version(c) \in receipts
    /\ ~At(c, "source") => Version(c) \in sources
CopyIsSound == \A c \in Callers : At(c, "store") =>
    /\ backend = "memory"
    /\ Stored(call[c].seen) /\ Unique(call[c].seen) /\ Fits(EvidenceOf(c), call[c].seen)
OwnersDiffer == \A c, d \in Callers : Owns(c) /\ Owns(d) /\ c # d => Version(c) # Version(d)
ExecutedIsApproved == \A p \in Proposals : executed[p] > 0 =>
    /\ ledger[p].state = "approved_for_write"
    /\ ledger[p].version \in receipts
    /\ \A c \in Callers : Owns(c) => Version(c) # ledger[p].version

IInv ==
    /\ TypeOK /\ Approved /\ OwnedIsStored /\ CopyIsSound /\ OwnersDiffer
    /\ PublishedHasSource /\ UniqueKeys /\ ExecutedIsApproved /\ ExecutedOnce

-----------------------------------------------------------------------------
(* A request under way has a well-formed record, and so has an approved proposal. *)
LEMMA CallTyped ==
    ASSUME TypeOK, NEW c \in Callers, ~At(c, "idle")
    PROVE  call[c] \in Execution
BY DEF TypeOK, At, Idle

LEMMA EvidenceTyped ==
    ASSUME TypeOK, NEW p \in Proposals, ledger[p].state # "none"
    PROVE  ledger[p] \in Evidence
BY DEF TypeOK, NotProposed

(* What a write makes of an article map it fits: well-formed, with unique keys,   *)
(* and stored if the written version is.                                          *)
LEMMA WrittenIsSound ==
    ASSUME NEW e \in Evidence, NEW map \in ArticleMap, Unique(map), Fits(e, map)
    PROVE  Written(e, map) \in ArticleMap /\ Unique(Written(e, map))
<1> USE ConstantsAssumption
<1>1. e.article \in Articles /\ e.version \in Versions
  BY DEF Evidence
<1>2. Written(e, map) \in ArticleMap
  BY <1>1 DEF Written, ArticleMap
<1>3. \A a \in SameKey : Written(e, map)[a] = IF a = e.article THEN e.version ELSE map[a]
  BY <1>1 DEF Written, ArticleMap
<1>4. CASE Expected(e) = Missing
  BY <1>1, <1>3, <1>4, <1>2 DEF Unique, Fits, KeyFree, Exists
<1>5. CASE Expected(e) # Missing
  BY <1>1, <1>3, <1>5, <1>2 DEF Unique, Fits, Exists
<1> QED BY <1>2, <1>4, <1>5

LEMMA WrittenIsStored ==
    ASSUME NEW e \in Evidence, NEW map \in ArticleMap, Stored(map),
           e.version \in sources \cap receipts
    PROVE  Stored(Written(e, map))
BY DEF Evidence, ArticleMap, Stored, Written

(* The demo articles are no proposed versions and have keys of their own.         *)
LEMMA DemoIsSound == DemoArticles \in ArticleMap /\ Unique(DemoArticles) /\ Stored(DemoArticles)
BY ConstantsAssumption DEF DemoArticles, ArticleMap, Unique, Stored, Exists

LEMMA InitIInv == Init => IInv
<1> SUFFICES ASSUME Init PROVE IInv
  OBVIOUS
<1>1. \A c \in Callers : call[c].pc = "idle"
  BY DEF Init, Idle
<1>2. TypeOK
  BY DemoIsSound DEF Init, TypeOK
<1>3. Approved /\ OwnedIsStored /\ CopyIsSound /\ OwnersDiffer
  BY <1>1 DEF Approved, OwnedIsStored, CopyIsSound, OwnersDiffer, Owns, At
<1>4. PublishedHasSource /\ UniqueKeys
  BY DemoIsSound DEF Init, PublishedHasSource, UniqueKeys, Unique, Stored
<1>5. ExecutedIsApproved /\ ExecutedOnce
  BY DEF Init, ExecutedIsApproved, ExecutedOnce
<1> QED BY <1>2, <1>3, <1>4, <1>5 DEF IInv

-----------------------------------------------------------------------------
(* A request that ends, and changes nothing else, disturbs nothing.               *)
LEMMA ReturnKeepsIInv ==
    ASSUME IInv, NEW c \in Callers, Return(c),
           UNCHANGED <<backend, articles, sources, ledger, receipts, executed>>
    PROVE  IInv'
<1>1. call' \in [Callers -> {Idle} \cup Execution]
      /\ \A d \in Callers : call'[d] = IF d = c THEN Idle ELSE call[d]
  BY DEF IInv, TypeOK, Return
<1>2. \A d \in Callers : call'[d].pc # "idle" => call'[d] = call[d]
  BY <1>1 DEF Idle
<1>3. TypeOK'
  BY <1>1 DEF IInv, TypeOK
<1>4. Approved' /\ OwnedIsStored'
  BY <1>2 DEF IInv, Approved, OwnedIsStored, Owns, At, Version, EvidenceOf
<1>5. CopyIsSound'
  BY <1>2 DEF IInv, CopyIsSound, At, Stored, Unique, Fits, EvidenceOf, Expected
<1>6. OwnersDiffer'
  BY <1>2 DEF IInv, OwnersDiffer, Owns, Version, EvidenceOf
<1>7. ExecutedIsApproved'
  BY <1>2 DEF IInv, ExecutedIsApproved, Owns, Version, EvidenceOf
<1>8. PublishedHasSource' /\ UniqueKeys' /\ ExecutedOnce'
  BY DEF IInv, PublishedHasSource, UniqueKeys, ExecutedOnce
<1> QED BY <1>3, <1>4, <1>5, <1>6, <1>7, <1>8 DEF IInv

(* The ledger: a proposal is added or approved; no request runs it and none has   *)
(* executed it, for both need its approval.                                       *)
LEMMA LedgerKeepsIInv ==
    ASSUME IInv, NEW p \in Proposals, NEW e \in Evidence, ledger[p].state # "approved_for_write",
           ledger' = [ledger EXCEPT ![p] = e],
           UNCHANGED <<backend, articles, sources, receipts, call, executed>>
    PROVE  IInv'
<1>1. ledger' \in [Proposals -> {NotProposed} \cup Evidence]
      /\ \A q \in Proposals : q # p => ledger'[q] = ledger[q]
  BY DEF IInv, TypeOK
<1>2. \A c \in Callers : ~At(c, "idle") =>
        /\ call[c].proposal \in Proposals
        /\ ledger'[call[c].proposal] = ledger[call[c].proposal]
  BY CallTyped, <1>1 DEF IInv, Approved, Execution
<1>3. executed[p] = 0 /\ executed' = executed
  BY DEF IInv, TypeOK, ExecutedIsApproved
<1>4. TypeOK'
  BY <1>1 DEF IInv, TypeOK
<1>5. Approved' /\ OwnedIsStored'
  BY <1>2 DEF IInv, Approved, OwnedIsStored, Owns, At, Version, EvidenceOf
<1>6. CopyIsSound'
  BY <1>2 DEF IInv, CopyIsSound, At, Stored, Unique, Fits, EvidenceOf, Expected
<1>7. OwnersDiffer'
  BY <1>2 DEF IInv, OwnersDiffer, Owns, Version, EvidenceOf, At
<1>8. ExecutedIsApproved'
  BY <1>1, <1>2, <1>3 DEF IInv, ExecutedIsApproved, Owns, Version, EvidenceOf, At
<1>9. PublishedHasSource' /\ UniqueKeys'
  BY DEF IInv, PublishedHasSource, UniqueKeys
<1>10. ExecutedOnce'
  BY <1>1, <1>3 DEF IInv, ExecutedOnce
<1> QED BY <1>4, <1>5, <1>6, <1>7, <1>8, <1>9, <1>10 DEF IInv

(* The first steps of a request: the articles stay as they are.                   *)
LEMMA ExecuteKeepsIInv ==
    ASSUME IInv, NEW c \in Callers, NEW p \in Proposals, Execute(c, p)
    PROVE  IInv'
<1> DEFINE new == [pc |-> "receipt", proposal |-> p, seen |-> articles]
<1>1. new \in Execution
  BY DEF IInv, TypeOK, Execution
<1>2. call' \in [Callers -> {Idle} \cup Execution]
      /\ \A d \in Callers : call'[d] = IF d = c THEN new ELSE call[d]
  BY <1>1 DEF IInv, TypeOK, Execute
<1>3. UNCHANGED <<backend, articles, sources, ledger, receipts, executed>>
  BY DEF Execute
<1>4. TypeOK'
  BY <1>2, <1>3 DEF IInv, TypeOK
<1>5. \A d \in Callers : Owns(d)' => Owns(d) /\ call'[d] = call[d]
  BY <1>2 DEF Owns
<1>6. Approved'
  BY <1>2, <1>3 DEF IInv, Approved, At, Execute
<1>7. OwnedIsStored'
  BY <1>3, <1>5 DEF IInv, OwnedIsStored, At, Version, EvidenceOf
<1>8. CopyIsSound'
  BY <1>2, <1>3 DEF IInv, CopyIsSound, At, Stored, Unique, Fits, EvidenceOf, Expected
<1>9. OwnersDiffer'
  BY <1>3, <1>5 DEF IInv, OwnersDiffer, Version, EvidenceOf
<1>10. ExecutedIsApproved'
  BY <1>3, <1>5 DEF IInv, ExecutedIsApproved, Version, EvidenceOf
<1>11. PublishedHasSource' /\ UniqueKeys' /\ ExecutedOnce'
  BY <1>3 DEF IInv, PublishedHasSource, UniqueKeys, ExecutedOnce
<1> QED BY <1>4, <1>6, <1>7, <1>8, <1>9, <1>10, <1>11 DEF IInv

(* The receipt makes a request the owner of a version nobody owned.               *)
LEMMA AppendReceiptKeepsIInv ==
    ASSUME IInv, NEW c \in Callers, AppendReceipt(c)
    PROVE  IInv'
<1>1. CASE ReceiptTaken(Version(c))
  BY <1>1, ReturnKeepsIInv DEF AppendReceipt
<1>2. CASE ~ReceiptTaken(Version(c))
  <2> DEFINE new == [call[c] EXCEPT !.pc = "source"]
  <2>1. call[c] \in Execution /\ call[c].pc = "receipt"
    BY CallTyped DEF IInv, AppendReceipt, At
  <2>2. EvidenceOf(c) \in Evidence
    BY <2>1, EvidenceTyped DEF IInv, Approved, At, Execution, EvidenceOf
  <2>3. new \in Execution /\ new.proposal = call[c].proposal /\ new.pc = "source"
    BY <2>1 DEF Execution
  <2>4. call' = [call EXCEPT ![c] = new]
    BY <1>2 DEF AppendReceipt, GoTo, AfterReceipt
  <2> HIDE DEF new
  <2>5. call' \in [Callers -> {Idle} \cup Execution]
        /\ \A d \in Callers : call'[d] = IF d = c THEN new ELSE call[d]
    BY <2>3, <2>4 DEF IInv, TypeOK
  <2>6. /\ receipts' = receipts \cup {Version(c)}
        /\ Version(c) \notin receipts
        /\ UNCHANGED <<backend, articles, sources, ledger, executed>>
    BY <1>2 DEF AppendReceipt, ReceiptTaken
  <2>7. \A d \in Callers : Version(d)' = Version(d) /\ EvidenceOf(d)' = EvidenceOf(d)
    BY <2>3, <2>5, <2>6 DEF Version, EvidenceOf
  <2>8. \A d \in Callers : d # c => (Owns(d)' <=> Owns(d)) /\ call'[d] = call[d]
    BY <2>5 DEF Owns
  <2>9. TypeOK'
    BY <2>2, <2>5, <2>6 DEF IInv, TypeOK, Version, Evidence
  <2>10. Approved'
    BY <2>1, <2>3, <2>5, <2>6 DEF IInv, Approved, At
  <2>11. OwnedIsStored'
    BY <2>3, <2>5, <2>6, <2>7, <2>8 DEF IInv, OwnedIsStored, At
  <2>12. CopyIsSound'
    BY <2>3, <2>5, <2>6 DEF IInv, CopyIsSound, At, Stored, Unique, Fits, EvidenceOf, Expected
  <2>13. OwnersDiffer'
    BY <2>6, <2>7, <2>8 DEF IInv, OwnersDiffer, OwnedIsStored
  <2>14. ExecutedIsApproved'
    BY <2>6, <2>7, <2>8 DEF IInv, ExecutedIsApproved
  <2>15. PublishedHasSource'
    BY <2>6 DEF IInv, PublishedHasSource
  <2>16. UniqueKeys' /\ ExecutedOnce'
    BY <2>6 DEF IInv, UniqueKeys, ExecutedOnce
  <2> QED BY <2>9, <2>10, <2>11, <2>12, <2>13, <2>14, <2>15, <2>16 DEF IInv
<1> QED BY <1>1, <1>2

(* An owner of a version goes from one step to the next and stores more.          *)
LEMMA OwnerStepKeepsIInv ==
    ASSUME IInv, NEW c \in Callers, Owns(c),
           NEW new \in Execution, new.proposal = call[c].proposal,
           new.pc \in {"apply", "store", "refresh"}, call' = [call EXCEPT ![c] = new],
           articles' \in ArticleMap, Stored(articles)', Unique(articles)',
           sources' \in SUBSET Versions, sources \subseteq sources', Version(c) \in sources',
           new.pc = "store" => /\ backend = "memory"
                               /\ Stored(new.seen) /\ Unique(new.seen)
                               /\ Fits(EvidenceOf(c), new.seen),
           UNCHANGED <<backend, ledger, receipts, executed>>
    PROVE  IInv'
<1>1. call' \in [Callers -> {Idle} \cup Execution]
      /\ \A d \in Callers : call'[d] = IF d = c THEN new ELSE call[d]
  BY DEF IInv, TypeOK
<1>2. \A d \in Callers : Version(d)' = Version(d) /\ EvidenceOf(d)' = EvidenceOf(d)
  BY <1>1 DEF Version, EvidenceOf
<1>3. \A d \in Callers : Owns(d)' <=> Owns(d)
  BY <1>1 DEF Owns
<1>4. TypeOK'
  BY <1>1 DEF IInv, TypeOK
<1>5. Approved'
  BY <1>1 DEF IInv, Approved, At, Owns
<1>6. OwnedIsStored'
  BY <1>1, <1>2, <1>3 DEF IInv, OwnedIsStored, At
<1>7. CopyIsSound'
  <2>1. ASSUME NEW d \in Callers, call'[d].pc = "store"
        PROVE  /\ backend = "memory"
               /\ Stored(call'[d].seen) /\ Unique(call'[d].seen)
               /\ Fits(EvidenceOf(d), call'[d].seen)
    <3>1. CASE d = c
      BY <1>1, <2>1, <3>1
    <3>2. CASE d # c
      BY <1>1, <2>1, <3>2 DEF IInv, CopyIsSound, At
    <3> QED BY <3>1, <3>2
  <2> QED BY <1>2, <2>1 DEF CopyIsSound, At, Stored, Unique, Fits, Expected
<1>8. OwnersDiffer'
  BY <1>2, <1>3 DEF IInv, OwnersDiffer
<1>9. ExecutedIsApproved'
  BY <1>2, <1>3 DEF IInv, ExecutedIsApproved
<1>10. PublishedHasSource' /\ UniqueKeys'
  BY DEF PublishedHasSource, UniqueKeys, Stored, Unique
<1>11. ExecutedOnce'
  BY DEF IInv, ExecutedOnce
<1> QED BY <1>4, <1>5, <1>6, <1>7, <1>8, <1>9, <1>10, <1>11 DEF IInv

(* What is known of a request that owns its version.                              *)
LEMMA OwnerFacts ==
    ASSUME IInv, NEW c \in Callers, Owns(c)
    PROVE  /\ call[c] \in Execution /\ ~At(c, "idle")
           /\ EvidenceOf(c) \in Evidence /\ EvidenceOf(c).state = "approved_for_write"
           /\ Version(c) \in receipts /\ Version(c) \in Versions
<1>1. call[c] \in Execution /\ ~At(c, "idle")
  BY CallTyped DEF IInv, Owns, At
<1>2. EvidenceOf(c) \in Evidence /\ EvidenceOf(c).state = "approved_for_write"
  BY <1>1, EvidenceTyped DEF IInv, Approved, EvidenceOf, Execution
<1> QED BY <1>1, <1>2 DEF IInv, OwnedIsStored, Version, Evidence

(* The record of a request after one of its steps.                                *)
LEMMA RecordStep ==
    ASSUME NEW x \in Execution, NEW pc \in {"apply", "store", "refresh"}
    PROVE  /\ [x EXCEPT !.pc = pc] \in Execution
           /\ [x EXCEPT !.pc = pc].proposal = x.proposal
           /\ [x EXCEPT !.pc = pc].pc = pc
BY DEF Execution

LEMMA AddSourceKeepsIInv ==
    ASSUME IInv, NEW c \in Callers, AddSource(c)
    PROVE  IInv'
<1>1. CASE Version(c) \in sources
  BY <1>1, ReturnKeepsIInv DEF AddSource
<1>2. CASE Version(c) \notin sources
  <2> DEFINE new == [call[c] EXCEPT !.pc = "apply"]
  <2>1. Owns(c)
    BY DEF AddSource, At, Owns
  <2>2. new \in Execution /\ new.proposal = call[c].proposal /\ new.pc = "apply"
    BY <2>1, OwnerFacts, RecordStep
  <2>3. call' = [call EXCEPT ![c] = new]
    BY <1>2 DEF AddSource, GoTo
  <2> HIDE DEF new
  <2>4. /\ sources' = sources \cup {Version(c)}
        /\ UNCHANGED <<backend, articles, ledger, receipts, executed>>
    BY <1>2 DEF AddSource
  <2>5. articles' \in ArticleMap /\ Unique(articles)' /\ Stored(articles)'
    BY <2>4 DEF IInv, TypeOK, UniqueKeys, PublishedHasSource, Unique, Stored
  <2>6. sources' \in SUBSET Versions /\ sources \subseteq sources' /\ Version(c) \in sources'
    BY <2>1, <2>4, OwnerFacts DEF IInv, TypeOK
  <2> QED BY <2>1, <2>2, <2>3, <2>4, <2>5, <2>6, OwnerStepKeepsIInv
<1> QED BY <1>1, <1>2

(* A write by an owner, to the articles it fits, leaves them sound.                *)
LEMMA OwnerWrites ==
    ASSUME IInv, NEW c \in Callers, Owns(c), ~At(c, "source"),
           NEW map \in ArticleMap, Stored(map), Unique(map), Fits(EvidenceOf(c), map)
    PROVE  /\ Written(EvidenceOf(c), map) \in ArticleMap
           /\ Unique(Written(EvidenceOf(c), map))
           /\ Stored(Written(EvidenceOf(c), map))
<1>1. EvidenceOf(c) \in Evidence /\ EvidenceOf(c).version \in sources \cap receipts
  BY OwnerFacts DEF IInv, OwnedIsStored, Version
<1> QED BY <1>1, WrittenIsSound, WrittenIsStored

LEMMA ArticlesAreSound ==
    ASSUME IInv
    PROVE  articles \in ArticleMap /\ Stored(articles) /\ Unique(articles)
BY DEF IInv, TypeOK, PublishedHasSource, UniqueKeys, Stored, Unique

LEMMA ApplyInTransactionKeepsIInv ==
    ASSUME IInv, NEW c \in Callers, ApplyInTransaction(c)
    PROVE  IInv'
<1>1. CASE ~Applicable(EvidenceOf(c))
  BY <1>1, ReturnKeepsIInv DEF ApplyInTransaction
<1>2. CASE Applicable(EvidenceOf(c))
  <2> DEFINE new == [call[c] EXCEPT !.pc = "refresh"]
  <2>1. Owns(c) /\ ~At(c, "source")
    BY DEF ApplyInTransaction, At, Owns
  <2>2. new \in Execution /\ new.proposal = call[c].proposal /\ new.pc = "refresh"
    BY <2>1, OwnerFacts, RecordStep
  <2>3. call' = [call EXCEPT ![c] = new]
    BY <1>2 DEF ApplyInTransaction, GoTo
  <2> HIDE DEF new
  <2>4. /\ articles' = Written(EvidenceOf(c), articles)
        /\ UNCHANGED <<backend, sources, ledger, receipts, executed>>
    BY <1>2 DEF ApplyInTransaction
  <2>5. Fits(EvidenceOf(c), articles)
    BY <1>2 DEF Applicable, Fits
  <2>6. articles' \in ArticleMap /\ Unique(articles') /\ Stored(articles')
    BY <2>1, <2>4, <2>5, OwnerWrites, ArticlesAreSound
  <2>7. Unique(articles)' /\ Stored(articles)'
    BY <2>4, <2>6 DEF Unique, Stored
  <2>8. sources' \in SUBSET Versions /\ sources \subseteq sources' /\ Version(c) \in sources'
    BY <2>1, <2>4 DEF IInv, TypeOK, OwnedIsStored
  <2> QED BY <2>1, <2>2, <2>3, <2>4, <2>6, <2>7, <2>8, OwnerStepKeepsIInv
<1> QED BY <1>1, <1>2

LEMMA CopyArticlesKeepsIInv ==
    ASSUME IInv, NEW c \in Callers, CopyArticles(c)
    PROVE  IInv'
<1>1. CASE ~Applicable(EvidenceOf(c))
  BY <1>1, ReturnKeepsIInv DEF CopyArticles
<1>2. CASE Applicable(EvidenceOf(c))
  <2> DEFINE new == [call[c] EXCEPT !.seen = articles, !.pc = "store"]
  <2>1. Owns(c) /\ ~At(c, "source") /\ backend = "memory"
    BY DEF CopyArticles, At, Owns
  <2>2. /\ new \in Execution /\ new.proposal = call[c].proposal
        /\ new.pc = "store" /\ new.seen = articles
    <3>1. call[c] \in Execution /\ articles \in ArticleMap
      BY <2>1, OwnerFacts, ArticlesAreSound
    <3> QED BY <3>1 DEF Execution
  <2>3. call' = [call EXCEPT ![c] = new]
    <3>1. call' = [call EXCEPT ![c].seen = articles, ![c].pc = "store"]
      BY <1>2 DEF CopyArticles
    <3> QED BY <3>1 DEF IInv, TypeOK
  <2> HIDE DEF new
  <2>4. UNCHANGED <<backend, articles, sources, ledger, receipts, executed>>
    BY DEF CopyArticles
  <2>5. Fits(EvidenceOf(c), articles)
    BY <1>2 DEF Applicable, Fits
  <2>6. articles' \in ArticleMap /\ Unique(articles)' /\ Stored(articles)'
    BY <2>4, ArticlesAreSound DEF Unique, Stored
  <2>7. sources' \in SUBSET Versions /\ sources \subseteq sources' /\ Version(c) \in sources'
    BY <2>1, <2>4 DEF IInv, TypeOK, OwnedIsStored
  <2> QED BY <2>1, <2>2, <2>3, <2>4, <2>5, <2>6, <2>7, ArticlesAreSound, OwnerStepKeepsIInv
<1> QED BY <1>1, <1>2

LEMMA ReplaceArticlesKeepsIInv ==
    ASSUME IInv, NEW c \in Callers, ReplaceArticles(c)
    PROVE  IInv'
<1> DEFINE new == [call[c] EXCEPT !.pc = "refresh"]
<1>1. Owns(c) /\ ~At(c, "source")
  BY DEF ReplaceArticles, At, Owns
<1>2. new \in Execution /\ new.proposal = call[c].proposal /\ new.pc = "refresh"
  BY <1>1, OwnerFacts, RecordStep
<1>3. call' = [call EXCEPT ![c] = new]
  BY DEF ReplaceArticles, GoTo
<1> HIDE DEF new
<1>4. /\ articles' = Written(EvidenceOf(c), call[c].seen)
      /\ UNCHANGED <<backend, sources, ledger, receipts, executed>>
  BY DEF ReplaceArticles
<1>5. /\ call[c].seen \in ArticleMap /\ Stored(call[c].seen) /\ Unique(call[c].seen)
      /\ Fits(EvidenceOf(c), call[c].seen)
  BY <1>1, OwnerFacts DEF IInv, CopyIsSound, ReplaceArticles, Execution
<1>6. articles' \in ArticleMap /\ Unique(articles') /\ Stored(articles')
  BY <1>1, <1>4, <1>5, OwnerWrites
<1>7. Unique(articles)' /\ Stored(articles)'
  BY <1>4, <1>6 DEF Unique, Stored
<1>8. sources' \in SUBSET Versions /\ sources \subseteq sources' /\ Version(c) \in sources'
  BY <1>1, <1>4 DEF IInv, TypeOK, OwnedIsStored
<1> QED BY <1>1, <1>2, <1>3, <1>4, <1>6, <1>7, <1>8, OwnerStepKeepsIInv

(* The audited execution: its version was not executed before, and when the       *)
(* request ends it has no owner any more.                                         *)
LEMMA RefreshEvidenceKeepsIInv ==
    ASSUME IInv, NEW c \in Callers, RefreshEvidence(c)
    PROVE  IInv'
<1> DEFINE p == call[c].proposal
<1>1. Owns(c)
  BY DEF RefreshEvidence, At, Owns
<1>2. /\ p \in Proposals /\ ledger[p].state = "approved_for_write"
      /\ ledger[p].version \in receipts /\ Version(c) = ledger[p].version
  BY <1>1, OwnerFacts DEF Execution, EvidenceOf, Version
<1> HIDE DEF p
<1>3. CASE articles # Projected(EvidenceOf(c))
  <2>1. executed' = [executed EXCEPT ![call[c].proposal] = executed[call[c].proposal]]
    BY <1>3 DEF RefreshEvidence
  <2>2. UNCHANGED <<backend, articles, sources, ledger, receipts, executed>>
    BY <1>2, <2>1 DEF RefreshEvidence, IInv, TypeOK
  <2> QED BY <2>2, ReturnKeepsIInv DEF RefreshEvidence
<1>4. CASE articles = Projected(EvidenceOf(c))
  <2>1. /\ executed' = [executed EXCEPT ![p] = executed[p] + 1]
        /\ UNCHANGED <<backend, articles, sources, ledger, receipts>>
    BY <1>4 DEF RefreshEvidence, p
  <2>2. call' \in [Callers -> {Idle} \cup Execution]
        /\ \A d \in Callers : call'[d] = IF d = c THEN Idle ELSE call[d]
    BY DEF IInv, TypeOK, RefreshEvidence, Return
  <2>3. \A d \in Callers : call'[d].pc # "idle" => call'[d] = call[d] /\ d # c
    BY <2>2 DEF Idle
  <2>4. executed' \in [Proposals -> Nat]
        /\ \A q \in Proposals : executed'[q] = IF q = p THEN executed[q] + 1 ELSE executed[q]
    BY <1>2, <2>1 DEF IInv, TypeOK
  <2>5. TypeOK'
    BY <2>1, <2>2, <2>4 DEF IInv, TypeOK
  <2>6. Approved' /\ OwnedIsStored'
    BY <2>1, <2>3 DEF IInv, Approved, OwnedIsStored, Owns, At, Version, EvidenceOf
  <2>7. CopyIsSound'
    BY <2>1, <2>3 DEF IInv, CopyIsSound, At, Stored, Unique, Fits, EvidenceOf, Expected
  <2>8. OwnersDiffer'
    BY <2>1, <2>3 DEF IInv, OwnersDiffer, Owns, Version, EvidenceOf
  <2>9. \A d \in Callers : Owns(d)' => Owns(d) /\ d # c /\ Version(d)' = Version(d)
    BY <2>1, <2>3 DEF Owns, Version, EvidenceOf
  <2>10. ASSUME NEW q \in Proposals, executed'[q] > 0
         PROVE  /\ ledger[q].state = "approved_for_write" /\ ledger[q].version \in receipts
                /\ \A d \in Callers : Owns(d)' => Version(d)' # ledger[q].version
    <3>1. CASE q = p
      BY <1>1, <1>2, <2>9, <3>1 DEF IInv, OwnersDiffer
    <3>2. CASE q # p
      BY <2>4, <2>9, <2>10, <3>2 DEF IInv, ExecutedIsApproved
    <3> QED BY <3>1, <3>2
  <2>11. ExecutedIsApproved'
    BY <2>1, <2>10 DEF ExecutedIsApproved
  <2>12. \A q \in Proposals : executed[q] > 0 => ledger[q].version # ledger[p].version
    BY <1>1, <1>2 DEF IInv, ExecutedIsApproved
  <2>13. executed[p] = 0
    BY <1>2, <2>12 DEF IInv, TypeOK
  <2>14. ExecutedOnce'
    BY <2>1, <2>4, <2>12, <2>13 DEF IInv, ExecutedOnce
  <2>15. PublishedHasSource' /\ UniqueKeys'
    BY <2>1 DEF IInv, PublishedHasSource, UniqueKeys
  <2> QED BY <2>5, <2>6, <2>7, <2>8, <2>11, <2>14, <2>15 DEF IInv
<1> QED BY <1>3, <1>4

(* A restart ends every request; with the repositories in memory only the demo    *)
(* articles are left, while the receipts stay.                                    *)
LEMMA RestartKeepsIInv ==
    ASSUME IInv, Restart
    PROVE  IInv'
<1>1. \A c \in Callers : call'[c] = Idle /\ call'[c].pc = "idle"
  BY DEF Restart, Idle
<1>2. UNCHANGED <<backend, ledger, receipts, executed>>
  BY DEF Restart
<1>3. articles' \in ArticleMap /\ sources' \in SUBSET Versions
  BY DemoIsSound DEF Restart, IInv, TypeOK
<1>4. TypeOK'
  BY <1>2, <1>3 DEF IInv, TypeOK, Restart
<1>5. Approved' /\ OwnedIsStored' /\ CopyIsSound' /\ OwnersDiffer'
  BY <1>1 DEF Approved, OwnedIsStored, CopyIsSound, OwnersDiffer, Owns, At
<1>6. PublishedHasSource'
  <2>1. CASE backend = "memory"
    BY <2>1, ConstantsAssumption DEF Restart, DemoArticles, PublishedHasSource
  <2>2. CASE backend # "memory"
    BY <2>2 DEF IInv, Restart, PublishedHasSource
  <2> QED BY <2>1, <2>2
<1>7. UniqueKeys'
  BY DemoIsSound DEF IInv, Restart, UniqueKeys, Unique
<1>8. ExecutedIsApproved'
  BY <1>1, <1>2 DEF IInv, ExecutedIsApproved, Owns
<1>9. ExecutedOnce'
  BY <1>2 DEF IInv, ExecutedOnce
<1> QED BY <1>4, <1>5, <1>6, <1>7, <1>8, <1>9 DEF IInv

LEMMA NextIInv == IInv /\ [Next]_vars => IInv'
<1> SUFFICES ASSUME IInv, [Next]_vars PROVE IInv'
  OBVIOUS
<1>1. ASSUME NEW p \in Proposals, NEW a \in Articles, NEW v \in Versions, DryRun(p, a, v)
      PROVE  IInv'
  <2>1. DryRunEvidence(a, v) \in Evidence /\ ledger[p].state # "approved_for_write"
    BY <1>1 DEF DryRun, DryRunEvidence, Evidence, IInv, TypeOK, NotProposed
  <2> QED BY <1>1, <2>1, LedgerKeepsIInv DEF DryRun
<1>2. ASSUME NEW p \in Proposals, Approve(p)
      PROVE  IInv'
  <2> DEFINE e == [ledger[p] EXCEPT !.state = "approved_for_write"]
  <2>1. ledger[p] \in Evidence
    BY <1>2, EvidenceTyped DEF Approve, IInv
  <2>2. e \in Evidence
    BY <2>1 DEF Evidence
  <2>3. ledger' = [ledger EXCEPT ![p] = e] /\ ledger[p].state # "approved_for_write"
    BY <1>2 DEF Approve
  <2> HIDE DEF e
  <2> QED BY <1>2, <2>2, <2>3, LedgerKeepsIInv DEF Approve
<1>3. ASSUME NEW c \in Callers, Fail(c)
      PROVE  IInv'
  BY <1>3, ReturnKeepsIInv DEF Fail
<1>4. CASE UNCHANGED vars
  <2>1. \A c \in Callers : call'[c] = call[c]
    BY <1>4 DEF vars
  <2>2. TypeOK' /\ Approved' /\ OwnedIsStored'
    BY <1>4 DEF vars, IInv, TypeOK, Approved, OwnedIsStored, Owns, At, Version, EvidenceOf
  <2>3. CopyIsSound' /\ OwnersDiffer'
    BY <1>4 DEF vars, IInv, CopyIsSound, OwnersDiffer, Owns, At, Stored, Unique, Fits,
                Expected, Version, EvidenceOf
  <2>4. PublishedHasSource' /\ UniqueKeys' /\ ExecutedIsApproved' /\ ExecutedOnce'
    BY <1>4 DEF vars, IInv, PublishedHasSource, UniqueKeys, ExecutedIsApproved, ExecutedOnce,
                Owns, Version, EvidenceOf
  <2> QED BY <2>2, <2>3, <2>4 DEF IInv
<1> QED BY <1>1, <1>2, <1>3, <1>4, ExecuteKeepsIInv, AppendReceiptKeepsIInv,
           AddSourceKeepsIInv, ApplyInTransactionKeepsIInv, CopyArticlesKeepsIInv,
           ReplaceArticlesKeepsIInv, RefreshEvidenceKeepsIInv, RestartKeepsIInv DEF Next

LEMMA Invariance == Spec => []IInv
BY InitIInv, NextIInv, PTL DEF Spec

-----------------------------------------------------------------------------
(* Only known states of proposals and requests occur.                             *)
THEOREM TypeCorrectness == Spec => []TypeOK
<1>1. IInv => TypeOK
  BY DEF IInv
<1> QED BY <1>1, Invariance, PTL

(* A current version always has its stored source object and its receipt.         *)
THEOREM NothingPublishedWithoutSource == Spec => []PublishedHasSource
<1>1. IInv => PublishedHasSource
  BY DEF IInv
<1> QED BY <1>1, Invariance, PTL

(* A version is executed at most once, whatever is repeated or restarted.          *)
THEOREM EveryVersionExecutedOnce == Spec => []ExecutedOnce
<1>1. IInv => ExecutedOnce
  BY DEF IInv
<1> QED BY <1>1, Invariance, PTL

(* Articles never share a key.                                                     *)
THEOREM KeysStayUnique == Spec => []UniqueKeys
<1>1. IInv => UniqueKeys
  BY DEF IInv
<1> QED BY <1>1, Invariance, PTL

(* The PostgreSQL repository applies approved proposals only, each to the version  *)
(* it was approved for.                                                            *)
THEOREM TransactionsAreApproved == Spec => TransactionsApproved
<1>1. IInv /\ [Next]_vars => [backend = "postgres" => ApprovedChange]_vars
  <2> SUFFICES ASSUME IInv, Next, backend = "postgres",
                      NEW a \in Articles, articles'[a] # articles[a]
               PROVE  \E p \in Proposals :
                        /\ ledger[p].state = "approved_for_write"
                        /\ ledger[p].article = a /\ ledger[p].version = articles'[a]
                        /\ Expected(ledger[p]) = articles[a]
    BY DEF ApprovedChange
  <2>1. PICK c \in Callers : ApplyInTransaction(c)
    <3>1. ~Restart
      BY DEF Restart
    <3>2. \A c \in Callers : ~ReplaceArticles(c)
      BY DEF ReplaceArticles, IInv, CopyIsSound
    <3> QED BY <3>1, <3>2 DEF Next, DryRun, Approve, Execute, AppendReceipt, AddSource,
                             CopyArticles, RefreshEvidence, Fail
  <2>2. Applicable(EvidenceOf(c)) /\ articles' = Written(EvidenceOf(c), articles)
    BY <2>1 DEF ApplyInTransaction
  <2>3. Owns(c)
    BY <2>1 DEF ApplyInTransaction, At, Owns
  <2>4. /\ call[c].proposal \in Proposals
        /\ EvidenceOf(c) \in Evidence /\ EvidenceOf(c).state = "approved_for_write"
    BY <2>3, OwnerFacts DEF Execution
  <2>5. a = EvidenceOf(c).article /\ articles'[a] = EvidenceOf(c).version
    BY <2>2, <2>4, ArticlesAreSound DEF Written, ArticleMap
  <2>6. Expected(EvidenceOf(c)) = articles[a]
    BY <2>2, <2>5 DEF Applicable
  <2> QED BY <2>4, <2>5, <2>6 DEF EvidenceOf
<1> QED BY <1>1, Invariance, PTL DEF Spec, TransactionsApproved
=============================================================================

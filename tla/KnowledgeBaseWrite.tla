------------------------- MODULE KnowledgeBaseWrite -------------------------
(***************************************************************************)
(* KnowledgeBaseArticleService: the approval ledger, and execute_write,    *)
(* which carries an approved create or edit through four stores that       *)
(* share no transaction: the receipt store, the source object repository,  *)
(* the article repository and the audit log.  Requests of several          *)
(* administrators run in threads and interleave between these calls.       *)
(*                                                                         *)
(* The source-version evidence of an article is a function of its current  *)
(* version, and the restore evidence one of all articles; the article map  *)
(* stands for its hash.  Refresh preview and execution skeleton write      *)
(* nothing; the hashes they hand out are functions of the approved         *)
(* evidence and of the articles, which execute_write compares again.       *)
(***************************************************************************)
EXTENDS Integers

CONSTANTS
    Articles,       \* article object ids of one tenant
    Demo,           \* the articles of the demo repository
    SameKey,        \* articles that are proposed with one and the same article_key
    Versions,       \* proposed versions, each with its source object and source version
    Proposals,      \* rows of the approval ledger
    Callers,        \* execute requests that can be under way at the same time
    Backends,       \* article and source repositories a deployment can have
    Missing,        \* no article
    Original        \* the version a demo article starts with

ASSUME ConstantsAssumption ==
    /\ Demo \subseteq Articles
    /\ SameKey \subseteq Articles
    /\ \A a, b \in Demo \cap SameKey : a = b
    /\ Missing \notin Versions
    /\ Original \notin Versions \cup {Missing}
    /\ Backends \subseteq {"memory", "postgres"}

VARIABLES
    backend,        \* chosen when the service is deployed
    articles,       \* current version of each article
    sources,        \* proposed versions in the source object repository
    ledger,         \* write approval evidence
    receipts,       \* versions with a source object write receipt
    call,           \* the execute request of each caller
    executed        \* number of "executed" audit events of each proposal

vars == <<backend, articles, sources, ledger, receipts, call, executed>>

ArticleMap == [Articles -> Versions \cup {Missing, Original}]
NotProposed == [state |-> "none"]
Evidence ==
    [state: {"dry_run", "approved_for_write"}, article: Articles, version: Versions,
     restore: ArticleMap]       \* current_restore_evidence_hash
Idle == [pc |-> "idle"]
Execution ==
    [pc: {"receipt", "source", "apply", "store", "refresh"}, proposal: Proposals,
     seen: ArticleMap]

TypeOK ==
    /\ backend \in Backends
    /\ articles \in ArticleMap
    /\ sources \in SUBSET Versions
    /\ ledger \in [Proposals -> {NotProposed} \cup Evidence]
    /\ receipts \in SUBSET Versions
    /\ call \in [Callers -> {Idle} \cup Execution]
    /\ executed \in [Proposals -> Nat]

DemoArticles == [a \in Articles |-> IF a \in Demo THEN Original ELSE Missing]

Init ==
    /\ backend \in Backends
    /\ articles = DemoArticles
    /\ sources = {}
    /\ ledger = [p \in Proposals |-> NotProposed]
    /\ receipts = {}
    /\ call = [c \in Callers |-> Idle]
    /\ executed = [p \in Proposals |-> 0]

-----------------------------------------------------------------------------
Exists(a, map) == map[a] # Missing
KeyFree(a, map) == \A b \in SameKey \ {a} : a \in SameKey => ~Exists(b, map)

DryRunEvidence(a, v) ==
    [state |-> "dry_run", article |-> a, version |-> v, restore |-> articles]

\* An edit names the current version, a create a new article with a free key.  The
\* ledger row is appended after the articles were read: a row that is stale from the
\* start is one that became stale later.
DryRun(p, a, v) ==
    /\ ledger[p] = NotProposed
    /\ Exists(a, articles) \/ KeyFree(a, articles)
    /\ ledger' = [ledger EXCEPT ![p] = DryRunEvidence(a, v)]
    /\ UNCHANGED <<backend, articles, sources, receipts, call, executed>>

\* The expected current version is part of the articles that the evidence is bound to.
Expected(e) == e.restore[e.article]
Current(e) == e.restore = articles

\* Two approvals of one dry run that overlap append two rows; they say the same.
Approve(p) ==
    /\ ledger[p].state = "dry_run"
    /\ Current(ledger[p])
    /\ ledger' = [ledger EXCEPT ![p].state = "approved_for_write"]
    /\ UNCHANGED <<backend, articles, sources, receipts, call, executed>>

At(c, pc) == call[c].pc = pc
EvidenceOf(c) == ledger[call[c].proposal]
Version(c) == EvidenceOf(c).version
GoTo(c, pc) == call' = [call EXCEPT ![c].pc = pc]
Return(c) == call' = [call EXCEPT ![c] = Idle]

\* Everything execute_write verifies before its first write.
Execute(c, p) ==
    /\ At(c, "idle")
    /\ ledger[p].state = "approved_for_write"
    /\ Current(ledger[p])
    /\ ledger[p].version \notin sources
    /\ call' = [call EXCEPT ![c] = [pc |-> "receipt", proposal |-> p, seen |-> articles]]
    /\ UNCHANGED <<backend, articles, sources, ledger, receipts, executed>>

\* UNIQUE (tenant_id, object_id, version_id)
NeverTaken(v) == FALSE
ReceiptTaken(v) == v \in receipts
ApplyNext == "apply"
AfterReceipt == "source"

AppendReceipt(c) ==
    /\ At(c, "receipt")
    /\ IF ReceiptTaken(Version(c))
       THEN Return(c) /\ UNCHANGED receipts
       ELSE receipts' = receipts \cup {Version(c)} /\ GoTo(c, AfterReceipt)
    /\ UNCHANGED <<backend, articles, sources, ledger, executed>>

AddSource(c) ==
    /\ At(c, "source")
    /\ IF Version(c) \in sources
       THEN Return(c) /\ UNCHANGED sources
       ELSE sources' = sources \cup {Version(c)} /\ GoTo(c, "apply")
    /\ UNCHANGED <<backend, articles, ledger, receipts, executed>>

\* What apply_write requires of the articles it reads.
ApplicableToAnyVersion(e) ==
    Exists(e.article, articles) \/ (Expected(e) = Missing /\ KeyFree(e.article, articles))
ApplicableToAnyKey(e) == articles[e.article] = Expected(e)
Applicable(e) ==
    /\ articles[e.article] = Expected(e)
    /\ Expected(e) = Missing => KeyFree(e.article, articles)

Written(e, map) == [map EXCEPT ![e.article] = e.version]

\* One transaction; the articles are read FOR UPDATE, and a create that loses a race
\* fails at the unique key.
ApplyInTransaction(c) ==
    /\ At(c, "apply") /\ backend = "postgres"
    /\ IF Applicable(EvidenceOf(c))
       THEN articles' = Written(EvidenceOf(c), articles) /\ GoTo(c, "refresh")
       ELSE Return(c) /\ UNCHANGED articles
    /\ UNCHANGED <<backend, sources, ledger, receipts, executed>>

\* The repository in memory copies the tuple of articles, and later replaces it.
CopyArticles(c) ==
    /\ At(c, "apply") /\ backend = "memory"
    /\ IF Applicable(EvidenceOf(c))
       THEN call' = [call EXCEPT ![c].seen = articles, ![c].pc = "store"]
       ELSE Return(c)
    /\ UNCHANGED <<backend, articles, sources, ledger, receipts, executed>>

ReplaceArticles(c) ==
    /\ At(c, "store")
    /\ articles' = Written(EvidenceOf(c), call[c].seen)
    /\ GoTo(c, "refresh")
    /\ UNCHANGED <<backend, sources, ledger, receipts, executed>>

\* The evidence is built again and must be the projected one; then the execution is
\* audited.  Otherwise the request fails, with its writes in place.
Projected(e) == Written(e, e.restore)

RefreshEvidence(c) ==
    /\ At(c, "refresh")
    /\ executed' = [executed EXCEPT ![call[c].proposal] =
                        IF articles = Projected(EvidenceOf(c)) THEN @ + 1 ELSE @]
    /\ Return(c)
    /\ UNCHANGED <<backend, articles, sources, ledger, receipts>>

\* A store raises, or the request's thread is stopped.
Fail(c) ==
    /\ ~At(c, "idle")
    /\ Return(c)
    /\ UNCHANGED <<backend, articles, sources, ledger, receipts, executed>>

\* The ledger, the receipts and the audit log are in PostgreSQL in either case.
Restart ==
    /\ call' = [c \in Callers |-> Idle]
    /\ IF backend = "memory"
       THEN articles' = DemoArticles /\ sources' = {}
       ELSE UNCHANGED <<articles, sources>>
    /\ UNCHANGED <<backend, ledger, receipts, executed>>

Next ==
    \/ \E p \in Proposals :
        \/ \E a \in Articles, v \in Versions : DryRun(p, a, v)
        \/ Approve(p)
    \/ \E c \in Callers :
        \/ \E p \in Proposals : Execute(c, p)
        \/ AppendReceipt(c) \/ AddSource(c)
        \/ ApplyInTransaction(c) \/ CopyArticles(c) \/ ReplaceArticles(c)
        \/ RefreshEvidence(c) \/ Fail(c)
    \/ Restart

Spec == Init /\ [][Next]_vars
-----------------------------------------------------------------------------
(* Whatever a request or a process leaves undone, a version is current only when *)
(* its source object is stored and the receipt of that write exists.             *)
PublishedHasSource ==
    \A a \in Articles : articles[a] \in Versions => articles[a] \in sources \cap receipts

(* A version is executed at most once, by one proposal: neither a repeated       *)
(* request, nor a dry run approved twice, nor a second proposal of the same      *)
(* version, nor a restart that forgets the articles executes it again.           *)
ExecutedOnce ==
    \A p, q \in Proposals :
        /\ executed[p] <= 1
        /\ p # q /\ executed[p] > 0 /\ executed[q] > 0 =>
                ledger[p].version # ledger[q].version

(* Two articles never have the same key, although keys are not checked again     *)
(* when a proposal is approved.                                                  *)
UniqueKeys ==
    \A a, b \in SameKey : Exists(a, articles) /\ Exists(b, articles) => a = b

\* Every article that changes gets the version of an approved proposal that names it
\* and that expects the version it replaces.
ApprovedChange ==
    \A a \in Articles : articles'[a] # articles[a] =>
        \E p \in Proposals :
            /\ ledger[p].state = "approved_for_write"
            /\ ledger[p].article = a /\ ledger[p].version = articles'[a]
            /\ Expected(ledger[p]) = articles[a]

(* With the PostgreSQL repository an article is changed by approved proposals    *)
(* only, each applied to the version it was approved for.                        *)
TransactionsApproved == [][backend = "postgres" => ApprovedChange]_vars

(* The same of any repository, restarts aside.                                   *)
ChangesApproved == [][ApprovedChange \/ Restart]_vars

(* An execution whose version is the current one when it ends is audited.        *)
AppliedIsAudited ==
    [][\A c \in Callers :
        RefreshEvidence(c) /\ articles[EvidenceOf(c).article] = Version(c) =>
            executed'[call[c].proposal] > executed[call[c].proposal]]_vars
=============================================================================

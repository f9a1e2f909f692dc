---------------------------- MODULE MCKeyLifecycle ----------------------------
(* Working documents of one data class under two key versions, one that may be *)
(* shredded early, and a record that may never be.                             *)
EXTENDS KeyLifecycle, TLC

Symmetry == Permutations(Versions)
MCObject == [v \in Versions |-> "object"]

MCPolicies == {"rp-standard", "rp-early", "rp-legal-hold"}
Working(early) ==
    [classes |-> {"internal"}, types |-> {"document"}, lifecycles |-> {"working"},
     days |-> 1, holdAllowed |-> TRUE, worm |-> FALSE, lock |-> "none",
     bucket |-> "working-objects", early |-> early]
MCPolicy ==
    "rp-standard" :> Working(FALSE) @@ "rp-early" :> Working(TRUE)
    @@ "rp-legal-hold" :>
        [classes |-> {"gobd", "internal"}, types |-> {"document"},
         lifecycles |-> {"worm_evidence"}, days |-> 0, holdAllowed |-> TRUE, worm |-> TRUE,
         lock |-> "compliance", bucket |-> "evidence-records", early |-> FALSE]

MCBuckets == {"working-objects", "evidence-records"}
MCBucket ==
    "working-objects" :>
        [types |-> {"document"}, lifecycles |-> {"working"}, lock |-> "none",
         holdSupported |-> FALSE]
    @@ "evidence-records" :>
        [types |-> {"document"}, lifecycles |-> {"worm_evidence"}, lock |-> "compliance",
         holdSupported |-> TRUE]

Draft(class, lifecycle, policy, hold, version) ==
    [class |-> class, type |-> "document", lifecycle |-> lifecycle, policy |-> policy,
     hold |-> hold, key |-> [class |-> class, version |-> version], created |-> 0,
     canonical |-> TRUE, parented |-> FALSE, rfc822 |-> FALSE, chained |-> TRUE,
     content |-> "content", intact |-> TRUE]

MCDrafts ==
    {Draft("internal", "working", "rp-standard", FALSE, 1),
     Draft("internal", "working", "rp-standard", FALSE, 2),
     Draft("gobd", "worm_evidence", "rp-legal-hold", TRUE, 1)}
=============================================================================

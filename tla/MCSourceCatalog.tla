--------------------------- MODULE MCSourceCatalog ---------------------------
(* One object, policies and buckets of docs/retention_manifest_policy.json and *)
(* docs/storage_adapter_policy.json, and one record for each of their ways to  *)
(* accept or refuse a version, a hold or a release.                            *)
EXTENDS SourceCatalog, TLC

Symmetry == Permutations(Requests) \cup Permutations(Versions)
MCObject == [v \in Versions |-> "object"]

MCPolicies == {"rp-temporary-7d", "rp-standard", "rp-gobd-10y", "rp-legal-hold"}
MCPolicyIds == MCPolicies

MCPolicy ==
    "rp-temporary-7d" :>
        [classes |-> {"internal"}, types |-> {"document", "comment"}, lifecycles |-> {"working"},
         days |-> 1, holdAllowed |-> FALSE, worm |-> FALSE, lock |-> "none",
         bucket |-> "working-objects", early |-> FALSE]
    @@ "rp-standard" :>
        [classes |-> {"internal", "personal"}, types |-> {"document", "comment"},
         lifecycles |-> {"working", "restricted"},
         days |-> 2, holdAllowed |-> TRUE, worm |-> FALSE, lock |-> "none",
         bucket |-> "working-objects", early |-> FALSE]
    @@ "rp-gobd-10y" :>
        [classes |-> {"gobd"}, types |-> {"document"},
         lifecycles |-> {"business_record", "worm_evidence"},
         days |-> 3, holdAllowed |-> TRUE, worm |-> TRUE, lock |-> "compliance",
         bucket |-> "business-records", early |-> FALSE]
    @@ "rp-legal-hold" :>
        [classes |-> {"gobd", "personal"}, types |-> {"document"},
         lifecycles |-> {"business_record", "worm_evidence", "restricted"},
         days |-> 0, holdAllowed |-> TRUE, worm |-> TRUE, lock |-> "compliance",
         bucket |-> "evidence-records", early |-> FALSE]

MCBuckets == {"working-objects", "business-records", "evidence-records"}
MCBucket ==
    "working-objects" :>
        [types |-> {"document", "comment"}, lifecycles |-> {"working", "restricted"},
         lock |-> "none", holdSupported |-> FALSE]
    @@ "business-records" :>
        [types |-> {"document"}, lifecycles |-> {"business_record", "worm_evidence"},
         lock |-> "compliance", holdSupported |-> TRUE]
    @@ "evidence-records" :>
        [types |-> {"document", "comment"}, lifecycles |-> {"worm_evidence"},
         lock |-> "compliance", holdSupported |-> TRUE]

Draft(class, lifecycle, policy, hold, canonical) ==
    [class |-> class, type |-> "document", lifecycle |-> lifecycle, policy |-> policy,
     hold |-> hold, key |-> [class |-> class, version |-> 1], created |-> 0,
     canonical |-> canonical, parented |-> FALSE, rfc822 |-> FALSE, chained |-> TRUE,
     content |-> "content", intact |-> TRUE]

\* No hold allowed; hold allowed, written in another time form; evidence under hold, which
\* has no bucket that fits once it is released under its own policy.
MCDrafts ==
    {Draft("internal", "working", "rp-temporary-7d", FALSE, TRUE),
     Draft("internal", "working", "rp-standard", FALSE, FALSE),
     Draft("gobd", "worm_evidence", "rp-legal-hold", TRUE, TRUE)}
=============================================================================

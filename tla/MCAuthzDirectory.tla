--------------------------- MODULE MCAuthzDirectory ---------------------------
EXTENDS AuthzDirectory, TLC

MCEntries ==
    {[type |-> "user", id |-> "u2", object |-> "doc", permission |-> "read"],
     [type |-> "role", id |-> "security-admin", object |-> "doc", permission |-> "write"],
     [type |-> "group", id |-> "team", object |-> "doc", permission |-> "admin"]}

\* An administrator, and a member whose user can be given to another principal.  The
\* member has no role and the entry for the group is not there yet.
MCUserOf == [s \in {"admin", "member"} |-> IF s = "admin" THEN "u1" ELSE "u2"]
MCSeeded ==
    {<<"principal", "admin">>, <<"membership", "admin">>, <<"role", "security-admin">>,
     <<"role assignment", "admin", "security-admin">>,
     <<"principal", "member">>, <<"membership", "member">>, <<"group", "team">>,
     <<"group membership", "member", "team">>}
        \cup ({"acl"} \X {e \in MCEntries : e.type # "group"})
MCSymmetry == Permutations(Callers)
=============================================================================

CONSTANTS
    Callers = {c1, c2}
    Subjects = {"admin", "member"}
    Users = {"u1", "u2", "u3"}
    Roles = {"security-admin"}
    Groups = {"team"}
    Entries <- MCEntries
    Policies = {"p"}
    Seeded <- MCSeeded
    UserOf <- MCUserOf
    NoUser = NoUser
    NoRow = NoRow
    Refused = Refused
    MaxEvents = 2
SPECIFICATION Spec
SYMMETRY MCSymmetry
INVARIANT LogTellsTheTables
PROPERTY OneChangeIsASnapshot
PROPERTY RefusedForCause
PROPERTY ChangedByAdmins

\* One creation is enough to leave a user without a password.
CONSTANTS
    Users = {u1}
    Names = {n1}
    Sessions = {s1}
    Tokens = {t1}
    Requests = {r1}
    MaxStamp = 1
    Nil = Nil
SPECIFICATION Spec
INVARIANTS
    NoOrphanedUsers

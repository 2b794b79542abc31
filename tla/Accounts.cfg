\* Two users who may swap names, one session and one token id, and two
\* requests at a time, among them three changes of password.
CONSTANTS
    Users = {u1, u2}
    Names = {n1, n2}
    Sessions = {s1}
    Tokens = {t1}
    Requests = {r1, r2}
    MaxStamp = 3
    Nil = Nil
SPECIFICATION Spec
SYMMETRY Symmetry
INVARIANTS
    EnteredAsChecked
    NoOrphans
    PasswordSetUp
    ReplacedForGood
PROPERTIES
    RevokedForGood

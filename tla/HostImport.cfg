\* Two requests at a time, imports of two files among them.
CONSTANTS
    a1 = a1
    a2 = a2
    k1 = k1
    k2 = k2
    Hosts = {h1, h2}
    Methods = {m1, m2}
    Addresses = {a1, a2}
    Keys = {k1, k2}
    Files <- MCFiles
    Secrets <- MCSecrets
    Forms <- MCForms
    Requests = {r1, r2}
    Nil = Nil
SPECIFICATION Spec
SYMMETRY Symmetry
INVARIANTS
    ExportWhole
    CredentialsOfHost
    ImportedStored
    WholeUnlessCutOff
PROPERTIES
    SecretKept

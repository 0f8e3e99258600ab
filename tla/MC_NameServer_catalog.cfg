\* Placement and file counts: one user, three names, three storage servers.
CONSTANTS
    u1 = u1
    u2 = u2
    f1 = f1
    f2 = f2
    f3 = f3
    NoFile = NoFile
    Users <- MCOneUser
    Names <- MCThreeNames
    Socks <- MCOneSock
    Sentences <- MCNoSentence
    Perms <- MCWritePerm
    MaxSS = 3
    MaxLocks = 2
    MaxUsers = 1
SPECIFICATION Spec
SYMMETRY NameSymmetry
INVARIANTS
    TypeOK
    FileCountMatchesCatalog
    GrantsReferenceFiles

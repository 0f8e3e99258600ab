\* The coordinator restarts once; storage servers then register again.
CONSTANTS
    u1 = u1
    f1 = f1
    f2 = f2
    n1 = n1
    n2 = n2
    NoFile = NoFile
    NoNode = NoNode
    Users <- MCUsers
    Names <- MCNames
    Nodes <- MCNodes
    Socks <- MCSocks
    Sentences <- MCNoSentence
    Perms <- MCWritePerm
    MaxSS = 3
    MaxLocks = 1
    MaxUsers = 1
    MaxRestarts = 1
INIT RInit
NEXT RNext
SYMMETRY NameSymmetry
INVARIANTS
    PrimaryResolvesToPlacement

\* Grants, requests and sentence locks: two users, one name, two sockets.
CONSTANTS
    u1 = u1
    u2 = u2
    f1 = f1
    f2 = f2
    f3 = f3
    NoFile = NoFile
    Users <- MCTwoUsers
    Names <- MCOneName
    Socks <- MCTwoSocks
    Sentences <- MCOneSentence
    Perms <- MCPerms
    MaxSS = 1
    MaxLocks = 2
    MaxUsers = 2
SPECIFICATION Spec
SYMMETRY UserSymmetry
INVARIANTS
    LockExclusive

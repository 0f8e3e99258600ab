\* Two users' shells, one file name, one storage server: StorageMatchesCatalog.
CONSTANTS
    u1 = u1
    u2 = u2
    f1 = f1
    t0 = t0
    t1 = t1
    g1 = g1
    NoFile = NoFile
    Absent = Absent
    Users <- MCUsers
    Names <- MCNames
    Socks <- MCSocks
    Sentences <- MCSentences
    Perms <- MCPerms
    Texts <- MCTexts
    EditTexts <- MCNoEdits
    Tags <- MCTags
    SockOf <- MCSockOf
    Empty = t0
    MaxSS = 1
    MaxLocks = 1
    MaxUsers = 2
    MaxStamp = 1
    MaxRows = 2
INIT FInit
NEXT FNext
INVARIANT StorageMatchesCatalog

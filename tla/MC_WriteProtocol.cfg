\* Two clients of different users on a two-sentence file.
CONSTANTS
    u1 = u1
    u2 = u2
    f1 = f1
    c1 = c1
    c2 = c2
    w0 = w0
    NoFile = NoFile
    NoSock = NoSock
    Users <- MCUsers
    Names <- MCNames
    Socks <- MCSocks
    Sentences <- MCSentences
    Perms <- MCPerms
    Clients <- MCClients
    UserOf <- MCTwoUsers
    Grants <- MCGrants
    InitText <- MCInitText
    File = f1
    Owner = u1
    MaxSS = 1
    MaxLocks = 2
    MaxUsers = 2
    MaxAttempts = 2
SPECIFICATION PSpec
INVARIANTS
    PTypeOK
    
    LockHeldWhileEditing

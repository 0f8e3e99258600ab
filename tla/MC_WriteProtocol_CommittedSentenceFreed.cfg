\* Two clients of different users, one sentence, one WRITE each, under FairSpec.
CONSTANTS
    u1 = u1
    u2 = u2
    f1 = f1
    c1 = c1
    c2 = c2
    w0 = w0
    NoFile = NoFile
    NoSock = NoSock
    Users <- MCUsers
    Names <- MCNames
    Socks <- MCSocks
    Sentences <- MCOneSentence
    Perms <- MCPerms
    Clients <- MCClients
    UserOf <- MCTwoUsers
    Grants <- MCGrants
    InitText <- MCInitText
    File = f1
    Owner = u1
    MaxSS = 1
    MaxLocks = 2
    MaxUsers = 2
    MaxAttempts = 1
SPECIFICATION FairSpec
PROPERTY
    CommittedSentenceFreed

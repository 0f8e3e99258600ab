---------------------------- MODULE WriteProtocol ----------------------------
(***************************************************************************)
(* The two-phase sentence write of cmd_write (client_commands.c) composed  *)
(* with the naming server and the storage server that holds the file.     *)
(* A client, on its own connection to the naming server:                   *)
(*   idle   -- WRITE_LOCK n -->  read     (handle_write on the server)     *)
(*   read   -- READ from SS -->  edit     (ss handle_read, whole file)     *)
(*   edit   -- WRITE to SS  -->  commit   (ss handle_write, whole file)    *)
(*   commit -- ETIRW n      -->  idle     (release_lock on the server)     *)
(* Every error exit of cmd_write returns to idle without ETIRW.  A client  *)
(* process may exit at any point, which closes its connection.            *)
(* File content is the sequence of sentences parse_sentences yields; a     *)
(* sentence is an opaque token naming the write that produced it.          *)
(***************************************************************************)
EXTENDS NameServer, Sequences

CONSTANTS
    Clients,      \* client processes
    UserOf,       \* the user each client runs as
    File,         \* the file the clients edit
    Owner,        \* its owner
    Grants,       \* its access_control rows
    InitText,     \* its sentences when the clients start
    MaxAttempts,  \* WRITE commands each client issues
    NoSock        \* a client without a connection

ASSUME ClientAssumption ==
    /\ UserOf \in [Clients -> Users]
    /\ File \in Names /\ Owner \in Users
    /\ Grants \in [Users -> Perms \cup {NoGrant}]
    /\ MaxAttempts \in Nat
    /\ NoSock \notin Socks
    /\ 0 \in Sentences      \* target starts at sentence 0
    /\ MaxSS >= 1            \* storage server 1 holds File

VARIABLES
    pc,        \* the client's place in cmd_write
    conn,      \* client_state.nm_socket as the server numbers it
    target,    \* the sentence number the client asked to lock
    snap,      \* the content it read from the storage server
    attempts,  \* WRITE commands issued so far
    content    \* the storage server's copy of File

cvars == <<pc, conn, target, snap, attempts>>
allvars == <<vars, cvars, content>>

(* Sentences written by client c in its a-th WRITE. *)
Tok(c, a, k) == [by |-> c, attempt |-> a, part |-> k]

(* The new sentence sequence cmd_write rebuilds: sentence n (0-based) of   *)
(* the snapshot replaced by what the user typed, which parse_sentences     *)
(* reads back as no sentence, one, or two (a word carrying '.', '!' or '?' *)
(* splits it); a sentence typed without a final delimiter fuses with the   *)
(* next one.  Sentence 0 of an empty file is appended.                     *)
Rebuilt(c, n, s) ==
    LET a == attempts[c]
        pre == SubSeq(s, 1, n)
    IN  {pre \o r \o SubSeq(s, n + 2, Len(s)) :
            r \in {<<>>, <<Tok(c, a, 1)>>, <<Tok(c, a, 1), Tok(c, a, 2)>>}}
        \cup (IF n + 2 <= Len(s)
              THEN {pre \o <<Tok(c, a, 1)>> \o SubSeq(s, n + 3, Len(s))}
              ELSE {})

(* The range check of cmd_write (lines 151-154). *)
InRange(n, s) == ~(n > Len(s) \/ (n = Len(s) /\ n > 0))

(* Mutant: cmd_write going on after a LOCKED reply. *)
LockGrantedIgnoringLocked(r) == r \in {ERR_SUCCESS, ERR_LOCKED}

(* The reply codes on which cmd_write goes on. *)
LockGranted(r) == r = ERR_SUCCESS

-----------------------------------------------------------------------------
InitCatalog ==
    /\ ss_count = 1
    /\ file_count = [i \in SSIds |-> IF i = 1 THEN 1 ELSE 0]
    /\ users = {Owner} \cup {u \in Users : Grants[u] # NoGrant}
    /\ files = [f \in Names |-> IF f = File
                               THEN [owner |-> Owner, primary |-> 1,
                                     replica |-> NoSS, folder |-> FALSE]
                               ELSE NoFile]
    /\ access_control = [f \in Names |-> IF f = File THEN Grants
                                        ELSE [u \in Users |-> NoGrant]]
    /\ access_requests = {}
    /\ locks = {}
    /\ sockets = {}

PInit ==
    /\ InitCatalog
    /\ pc = [c \in Clients |-> "idle"]
    /\ conn = [c \in Clients |-> NoSock]
    /\ target = [c \in Clients |-> 0]
    /\ snap = [c \in Clients |-> <<>>]
    /\ attempts = [c \in Clients |-> 0]
    /\ content = InitText

(* client main: connect to the naming server (accept on its side). *)
Connect(c) ==
    /\ conn[c] = NoSock
    /\ Accept
    /\ conn' = [conn EXCEPT ![c] = LowestFree]
    /\ UNCHANGED <<pc, target, snap, attempts, content>>

(* The client process exits, at any point of cmd_write; the server's      *)
(* handle_client closes the descriptor.                                    *)
Exit(c) ==
    /\ conn[c] # NoSock
    /\ CloseSession(conn[c])
    /\ conn' = [conn EXCEPT ![c] = NoSock]
    /\ pc' = [pc EXCEPT ![c] = "idle"]
    /\ UNCHANGED <<target, snap, attempts, content>>

(* Mutant: WRITE_LOCK sent without a connection to the server. *)
RequestLockUnconnected(c, n) ==
    LET s == conn[c]
        r == WriteLockReply(s, UserOf[c], File, n)
    IN  /\ pc[c] = "idle"
        /\ attempts[c] < MaxAttempts
        /\ attempts' = [attempts EXCEPT ![c] = @ + 1]
        /\ target' = [target EXCEPT ![c] = n]
        /\ \/ handle_write(s, UserOf[c], File, n)
           \/ /\ ~(r \in {ERR_SUCCESS, ERR_SS_NOT_FOUND} /\ ~HeldBySelf(s, File, n))
              /\ UNCHANGED vars
        /\ pc' = [pc EXCEPT ![c] = IF LockGranted(r) THEN "read" ELSE "idle"]
        /\ UNCHANGED <<conn, snap, content>>

(* WRITE_LOCK (lines 102-123) and the server's handle_write. *)
RequestLock(c, n) ==
    LET s == conn[c]
        r == WriteLockReply(s, UserOf[c], File, n)
    IN  /\ pc[c] = "idle"
        /\ s # NoSock
        /\ attempts[c] < MaxAttempts
        /\ attempts' = [attempts EXCEPT ![c] = @ + 1]
        /\ target' = [target EXCEPT ![c] = n]
        /\ \/ handle_write(s, UserOf[c], File, n)
           \/ /\ ~(r \in {ERR_SUCCESS, ERR_SS_NOT_FOUND} /\ ~HeldBySelf(s, File, n))
              /\ UNCHANGED vars
        /\ pc' = [pc EXCEPT ![c] = IF LockGranted(r) THEN "read" ELSE "idle"]
        /\ UNCHANGED <<conn, snap, content>>

(* READ of the whole file from the storage server (lines 131-145); when   *)
(* the server cannot be reached cmd_write returns holding the lock.        *)
ReadContent(c) ==
    /\ pc[c] = "read"
    /\ \/ /\ snap' = [snap EXCEPT ![c] = content]
          /\ pc' = [pc EXCEPT ![c] = "edit"]
       \/ /\ pc' = [pc EXCEPT ![c] = "idle"]
          /\ UNCHANGED snap
    /\ UNCHANGED <<vars, conn, target, attempts, content>>

(* The local edit and the WRITE of the rebuilt whole file to the storage  *)
(* server (lines 147-218), whose handle_write saves it as sent.  A range  *)
(* error or an unreachable server returns holding the lock.               *)
WriteContent(c) ==
    LET n == target[c] IN
    /\ pc[c] = "edit"
    /\ \/ /\ InRange(n, snap[c])
          /\ \E new \in Rebuilt(c, n, snap[c]) : content' = new
          /\ pc' = [pc EXCEPT ![c] = "commit"]
       \/ /\ pc' = [pc EXCEPT ![c] = "idle"]
          /\ UNCHANGED content
    /\ UNCHANGED <<vars, conn, target, snap, attempts>>

(* ETIRW (lines 219-228): release_lock on the server, whose reply is       *)
(* SUCCESS whether or not a lock matched.                                  *)
Commit(c) ==
    LET s == conn[c]
        n == target[c]
    IN  /\ pc[c] = "commit"
        /\ \/ release_lock(s, UserOf[c], File, n)
           \/ /\ [file |-> File, sentence |-> n, user |-> UserOf[c], sock |-> s] \notin locks
              /\ UNCHANGED vars
        /\ pc' = [pc EXCEPT ![c] = "idle"]
        /\ UNCHANGED <<conn, target, snap, attempts, content>>

PNext ==
    \E c \in Clients :
        \/ Connect(c)
        \/ Exit(c)
        \/ \E n \in Sentences : RequestLock(c, n)
        \/ ReadContent(c)
        \/ WriteContent(c)
        \/ Commit(c)

PSpec == PInit /\ [][PNext]_allvars

(* Once WRITE_LOCK has succeeded, the rest of cmd_write runs without       *)
(* waiting for anyone: the READ and the WRITE are requests to the storage *)
(* server and ETIRW one to the naming server, each answered by a handler   *)
(* that takes the mutex for one step.  The edit loop waits for the user,   *)
(* and ends on ETIRW or at the end of stdin; the fairness on WriteContent  *)
(* assumes the user ends it.  Connecting, locking and exiting are the      *)
(* user's choice and get no fairness.                                      *)
FairSpec ==
    /\ PSpec
    /\ \A c \in Clients : /\ WF_allvars(ReadContent(c))
                          /\ WF_allvars(WriteContent(c))
                          /\ WF_allvars(Commit(c))

-----------------------------------------------------------------------------
Held(c) == pc[c] \in {"read", "edit", "commit"}

PTypeOK ==
    /\ TypeOK
    /\ pc \in [Clients -> {"idle", "read", "edit", "commit"}]
    /\ conn \in [Clients -> Socks \cup {NoSock}]
    /\ target \in [Clients -> Sentences]
    /\ attempts \in [Clients -> 0..MaxAttempts]

(* Two running clients are never between WRITE_LOCK and ETIRW on the same *)
(* sentence at once, whatever their users, however connections close and  *)
(* their descriptors are handed to new clients: the server's lock scan     *)
(* and the client's check of the reply code together make the edit phase  *)
(* exclusive.                                                              *)
WriteExclusion ==
    \A c1, c2 \in Clients :
        c1 # c2 /\ Held(c1) /\ Held(c2) => target[c1] # target[c2]

(* While a client is between WRITE_LOCK and ETIRW, the server's lock table *)
(* holds a lock on its sentence for its connection.                        *)
LockHeldWhileEditing ==
    \A c \in Clients :
        Held(c) => \E l \in locks : /\ l.file = File /\ l.sentence = target[c]
                                    /\ l.sock = conn[c]

(* spec 2 and 4.3: the sentence lock serializes concurrent writers, so a  *)
(* WRITE keeps every sentence another client wrote since this client read  *)
(* the file.  cmd_write sends the whole file rebuilt from its snapshot.    *)
ForeignSentencesPreserved ==
    [][\A c \in Clients :
          pc[c] = "edit" /\ pc'[c] = "commit" =>
             \A i \in 1..Len(content) :
                 (\A j \in 1..Len(snap[c]) : snap[c][j] # content[i]) =>
                     \E k \in 1..Len(content') : content'[k] = content[i]
      ]_allvars
(* spec 4.3 and 8: WRITE_LOCK then WRITE_COMMIT by one session leaves the  *)
(* lock table as it was, so the sentence a client commits is free again    *)
(* afterwards.  release_lock matches the user as well as the socket, and a *)
(* lock inherited through a reused descriptor stays for ever.              *)
CommittedSentenceFreed ==
    \A c \in Clients, n \in Sentences :
        pc[c] = "commit" /\ target[c] = n
            ~> ~\E l \in locks : l.file = File /\ l.sentence = n
=============================================================================

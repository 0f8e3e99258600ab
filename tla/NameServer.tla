----------------------------- MODULE NameServer -----------------------------
(***************************************************************************)
(* The NetworkDoc naming server (src/nameserver).  Every request handler   *)
(* runs under the single server_state.mutex, so each handler is one atomic *)
(* step here.  The state is the part of NameServerState and of the sqlite  *)
(* catalog that the handlers consult or change:                            *)
(*   ss_count, file_count    the storage-server registry (memory)          *)
(*   users                   the registered user names (memory)            *)
(*   files                   the files table, mirrored by the name trie    *)
(*   access_control          the access_control table                      *)
(*   access_requests         the access_requests table                     *)
(*   locks                   the sentence lock table (memory)              *)
(*   sockets                 the client connections the accept loop holds  *)
(* A session is the socket descriptor of its connection; the kernel hands  *)
(* out the lowest free descriptor, so a closed one is reused.              *)
(* Handlers that only answer (READ, VIEW, LIST, EXEC, UNDO, CHECKPOINT)    *)
(* change nothing here and are left out.                                   *)
(***************************************************************************)
EXTENDS Integers, FiniteSets, Common

CONSTANTS
    Users,      \* user names
    Names,      \* file and folder names
    Socks,      \* socket descriptors the server can hand out
    Sentences,  \* sentence numbers a client can ask to lock
    Perms,      \* permission values a client can send with ADDACCESS
    MaxSS,      \* MAX_STORAGE_SERVERS
    MaxLocks,   \* MAX_LOCKS
    MaxUsers,   \* MAX_USERS
    NoFile      \* the absence of a files row

ASSUME SockAssumption == Socks \subseteq Nat /\ Socks # {}
ASSUME BoundsAssumption == MaxSS \in Nat /\ MaxLocks \in Nat /\ MaxUsers \in Nat
ASSUME PermsAssumption == Perms \subseteq Nat
ASSUME SentenceAssumption == Sentences \subseteq Nat
ASSUME NamesAssumption == IsFiniteSet(Names)   \* the files table is finite
ASSUME NoFileAssumption ==
    NoFile \notin [owner : Users, primary : 1..MaxSS,
                   replica : 1..MaxSS \cup {0}, folder : BOOLEAN]

VARIABLES ss_count, file_count, users, files, access_control,
          access_requests, locks, sockets

vars == <<ss_count, file_count, users, files, access_control,
          access_requests, locks, sockets>>

(* Storage-server ids: next_ss_id starts at 1 and grows with ss_count, so   *)
(* the server in slot i has id i + 1; 0 stands for "no replica" (the -1 of *)
(* handle_create and the NULL column of a folder both read back as none).  *)
SSIds == 1..MaxSS
NoSS == 0

FileRec == [owner : Users, primary : SSIds, replica : SSIds \cup {NoSS},
            folder : BOOLEAN]
NoGrant == 0
LockRec == [file : Names, sentence : Sentences, user : Users, sock : Socks]
RequestRec == [file : Names, requester : Users, type : Perms]

Exists(f) == files[f] # NoFile

(* (perms & required) == required, for a single-bit required value *)
HasBits(p, r) == (p \div r) % 2 = 1

check_permission(u, f, r) ==
    \/ files[f].owner = u
    \/ access_control[f][u] # NoGrant /\ HasBits(access_control[f][u], r)

(* get_ss_by_id: a registered server with that id (is_alive is set on     *)
(* registration and never cleared)                                        *)
get_ss_by_id(id) == id \in 1..ss_count

(* The placement scan of handle_create and handle_createfolder: ss_idx     *)
(* starts at slot 0 and moves to slot i when server i holds strictly fewer *)
(* files than the current pick, so it ends on the first server with the   *)
(* fewest files.  Written by its result, the loop's starting value being   *)
(* the fallback.                                                           *)
FirstLeast(i) == /\ \A j \in 1..ss_count : file_count[i] <= file_count[j]
                 /\ \A j \in 1..(i - 1) : file_count[j] > file_count[i]
LeastLoaded ==
    IF \E i \in 1..ss_count : FirstLeast(i)
    THEN CHOOSE i \in 1..ss_count : FirstLeast(i)
    ELSE 1

(* The replica scan: the first registered server other than the primary. *)
ReplicaFor(p) ==
    IF \E i \in 1..ss_count : i # p
    THEN CHOOSE i \in 1..ss_count : i # p /\ \A j \in 1..(i - 1) : j = p
    ELSE NoSS

-----------------------------------------------------------------------------
Init ==
    /\ ss_count = 0
    /\ file_count = [i \in SSIds |-> 0]
    /\ users = {}
    /\ files = [f \in Names |-> NoFile]
    /\ access_control = [f \in Names |-> [u \in Users |-> NoGrant]]
    /\ access_requests = {}
    /\ locks = {}
    /\ sockets = {}

(* accept(): a new connection gets the lowest free descriptor (a free    *)
(* one, should Socks have no least free element).                         *)
IsLowestFree(s) == \A t \in Socks \ sockets : s <= t
LowestFree ==
    IF \E s \in Socks \ sockets : IsLowestFree(s)
    THEN CHOOSE s \in Socks \ sockets : IsLowestFree(s)
    ELSE CHOOSE s \in Socks \ sockets : TRUE

Accept ==
    /\ sockets # Socks
    /\ sockets' = sockets \cup {LowestFree}
    /\ UNCHANGED <<ss_count, file_count, users, files, access_control,
                   access_requests, locks>>

(* handle_client returns and closes the descriptor; its locks stay. *)
CloseSession(s) ==
    /\ s \in sockets
    /\ sockets' = sockets \ {s}
    /\ UNCHANGED <<ss_count, file_count, users, files, access_control,
                   access_requests, locks>>

(* Mutant: the MAX_STORAGE_SERVERS check dropped. *)
handle_register_ss_unbounded ==
    /\ ss_count' = ss_count + 1
    /\ file_count' = [file_count EXCEPT ![ss_count + 1] = 0]
    /\ UNCHANGED <<users, files, access_control, access_requests, locks, sockets>>

handle_register_ss ==
    /\ ss_count < MaxSS
    /\ ss_count' = ss_count + 1
    /\ file_count' = [file_count EXCEPT ![ss_count + 1] = 0]
    /\ UNCHANGED <<users, files, access_control, access_requests, locks, sockets>>

(* A new name is added while the table has room; the reply is SUCCESS    *)
(* whether or not it was added.                                          *)
handle_register_client(u) ==
    /\ u \notin users
    /\ Cardinality(users) < MaxUsers
    /\ users' = users \cup {u}
    /\ UNCHANGED <<ss_count, file_count, files, access_control,
                   access_requests, locks, sockets>>

CreateReply(f) ==
    IF Exists(f) THEN ERR_FILE_EXISTS
    ELSE IF ss_count = 0 THEN ERR_SS_NOT_FOUND
    ELSE ERR_SUCCESS

(* handle_create: the files row and trie entry, and one more file on the  *)
(* chosen primary.                                                        *)
handle_create(u, f) ==
    /\ CreateReply(f) = ERR_SUCCESS
    /\ files' = [files EXCEPT ![f] = [owner |-> u, primary |-> LeastLoaded,
                                      replica |-> ReplicaFor(LeastLoaded),
                                      folder |-> FALSE]]
    /\ file_count' = [file_count EXCEPT ![LeastLoaded] = @ + 1]
    /\ UNCHANGED <<ss_count, users, access_control, access_requests, locks,
                   sockets>>

(* Mutant: the folder is placed without ss->file_count++. *)
handle_createfolder_uncounted(u, f) ==
    /\ CreateReply(f) = ERR_SUCCESS
    /\ files' = [files EXCEPT ![f] = [owner |-> u, primary |-> LeastLoaded,
                                      replica |-> NoSS, folder |-> TRUE]]
    /\ UNCHANGED <<ss_count, file_count, users, access_control, access_requests,
                   locks, sockets>>

(* handle_createfolder: the same placement, no replica. *)
handle_createfolder(u, f) ==
    /\ CreateReply(f) = ERR_SUCCESS
    /\ files' = [files EXCEPT ![f] = [owner |-> u, primary |-> LeastLoaded,
                                      replica |-> NoSS, folder |-> TRUE]]
    /\ file_count' = [file_count EXCEPT ![LeastLoaded] = @ + 1]
    /\ UNCHANGED <<ss_count, users, access_control, access_requests, locks,
                   sockets>>

(* Mutant: the branch refusing a sentence locked by another socket dropped. *)
LockedByOtherDropped(s, f, n) == FALSE

(* Mutant: a lock of this socket on any sentence of the file taken as held. *)
HeldBySelfAnySentence(s, f, n) == \E l \in locks : l.file = f /\ l.sock = s

(* The lock scan of handle_write: a lock on the sentence held by another  *)
(* socket (whatever its user) refuses the request; one held by this       *)
(* socket is reused.                                                      *)
LockedByOther(s, f, n) == \E l \in locks : l.file = f /\ l.sentence = n /\ l.sock # s
HeldBySelf(s, f, n) == \E l \in locks : l.file = f /\ l.sentence = n /\ l.sock = s

WriteLockReply(s, u, f, n) ==
    IF ~Exists(f) THEN ERR_FILE_NOT_FOUND
    ELSE IF ~check_permission(u, f, ACCESS_WRITE) THEN ERR_PERMISSION_DENIED
    ELSE IF LockedByOther(s, f, n) THEN ERR_LOCKED
    ELSE IF ~HeldBySelf(s, f, n) /\ Cardinality(locks) >= MaxLocks
         THEN ERR_SERVER_ERROR
    ELSE IF get_ss_by_id(files[f].primary) THEN ERR_SUCCESS
    ELSE ERR_SS_NOT_FOUND

(* handle_write (WRITE_LOCK): appends the lock when it is not yet held.    *)
(* The lock stays even when the reply is SS_NOT_FOUND.                     *)
handle_write(s, u, f, n) ==
    /\ WriteLockReply(s, u, f, n) \in {ERR_SUCCESS, ERR_SS_NOT_FOUND}
    /\ ~HeldBySelf(s, f, n)
    /\ locks' = locks \cup {[file |-> f, sentence |-> n, user |-> u, sock |-> s]}
    /\ UNCHANGED <<ss_count, file_count, users, files, access_control,
                   access_requests, sockets>>

(* WRITE_COMMIT (ETIRW) in handle_client calling release_lock: removes the *)
(* lock matching file, sentence, user and socket, if there is one; the     *)
(* reply is SUCCESS in every case.                                         *)
release_lock(s, u, f, n) ==
    /\ [file |-> f, sentence |-> n, user |-> u, sock |-> s] \in locks
    /\ locks' = locks \ {[file |-> f, sentence |-> n, user |-> u, sock |-> s]}
    /\ UNCHANGED <<ss_count, file_count, users, files, access_control,
                   access_requests, sockets>>

DeleteReply(u, f) ==
    IF ~Exists(f) THEN ERR_FILE_NOT_FOUND
    ELSE IF files[f].owner # u THEN ERR_NOT_OWNER
    ELSE ERR_SUCCESS

(* Mutant: the DELETE FROM access_control statement left out. *)
handle_delete_keeps_grants(u, f) ==
    /\ DeleteReply(u, f) = ERR_SUCCESS
    /\ files' = [files EXCEPT ![f] = NoFile]
    /\ file_count' = IF files[f].primary \in 1..ss_count
                     THEN [file_count EXCEPT ![files[f].primary] = @ - 1]
                     ELSE file_count
    /\ UNCHANGED <<ss_count, users, access_control, access_requests, locks, sockets>>

(* handle_delete: drops the files row, the file's access_control rows and *)
(* the trie entry, and decrements the primary's count.  Locks, pending    *)
(* access requests and checkpoints of the file are left in place.         *)
handle_delete(u, f) ==
    /\ DeleteReply(u, f) = ERR_SUCCESS
    /\ files' = [files EXCEPT ![f] = NoFile]
    /\ access_control' = [access_control EXCEPT ![f] = [v \in Users |-> NoGrant]]
    /\ file_count' = IF files[f].primary \in 1..ss_count
                     THEN [file_count EXCEPT ![files[f].primary] = @ - 1]
                     ELSE file_count
    /\ UNCHANGED <<ss_count, users, access_requests, locks, sockets>>

AddAccessReply(u, f, t) ==
    IF ~Exists(f) THEN ERR_FILE_NOT_FOUND
    ELSE IF files[f].owner # u THEN ERR_NOT_OWNER
    ELSE IF t \notin users THEN ERR_USER_NOT_FOUND
    ELSE ERR_SUCCESS

(* handle_addaccess: INSERT OR REPLACE of the (file, target) row; the      *)
(* target may be the owner.                                               *)
handle_addaccess(u, f, t, p) ==
    /\ AddAccessReply(u, f, t) = ERR_SUCCESS
    /\ access_control' = [access_control EXCEPT ![f][t] = p]
    /\ UNCHANGED <<ss_count, file_count, users, files, access_requests, locks,
                   sockets>>

RemAccessReply(u, f) == DeleteReply(u, f)

(* handle_remaccess: deletes the (file, target) row. *)
handle_remaccess(u, f, t) ==
    /\ RemAccessReply(u, f) = ERR_SUCCESS
    /\ access_control[f][t] # NoGrant
    /\ access_control' = [access_control EXCEPT ![f][t] = NoGrant]
    /\ UNCHANGED <<ss_count, file_count, users, files, access_requests, locks,
                   sockets>>

(* handle_request_access REQUEST: inserts a pending request for an        *)
(* existing file; nothing ever removes one.                               *)
handle_request_access(u, f, p) ==
    /\ Exists(f)
    /\ access_requests' = access_requests \cup {[file |-> f, requester |-> u, type |-> p]}
    /\ UNCHANGED <<ss_count, file_count, users, files, access_control, locks,
                   sockets>>

-----------------------------------------------------------------------------
Next ==
    \/ Accept
    \/ \E s \in sockets : CloseSession(s)
    \/ handle_register_ss
    \/ \E u \in Users : handle_register_client(u)
    \/ \E u \in Users, f \in Names :
          \/ handle_create(u, f)
          \/ handle_createfolder(u, f)
          \/ handle_delete(u, f)
          \/ \E t \in Users, p \in Perms : handle_addaccess(u, f, t, p)
          \/ \E t \in Users : handle_remaccess(u, f, t)
          \/ \E p \in Perms : handle_request_access(u, f, p)
    \/ \E s \in sockets, u \in Users, f \in Names, n \in Sentences :
          \/ handle_write(s, u, f, n)
          \/ release_lock(s, u, f, n)

Spec == Init /\ [][Next]_vars

-----------------------------------------------------------------------------
TypeOK ==
    /\ ss_count \in 0..MaxSS
    /\ file_count \in [SSIds -> Int]
    /\ users \subseteq Users
    /\ files \in [Names -> FileRec \cup {NoFile}]
    /\ access_control \in [Names -> [Users -> Perms \cup {NoGrant}]]
    /\ access_requests \subseteq RequestRec
    /\ locks \subseteq LockRec
    /\ sockets \subseteq Socks

(* Every access_control row names a file of the catalog: handle_delete    *)
(* removes the file's rows together with its files row, and ADDACCESS     *)
(* only writes rows for an existing file, in whatever order deletes,      *)
(* re-creates and grants of several users interleave.                    *)
GrantsReferenceFiles ==
    \A f \in Names, u \in Users : access_control[f][u] # NoGrant => Exists(f)

(* At most one session holds a lock on a given sentence of a file: the    *)
(* lock scan of handle_write refuses a sentence held by another socket.   *)
LockExclusive ==
    \A l1, l2 \in locks : l1.file = l2.file /\ l1.sentence = l2.sentence => l1 = l2

(* The in-memory file_count of every registered server equals the number *)
(* of catalogued files and folders placed on it, and every file is placed *)
(* on a registered server: create, createfolder and delete keep the       *)
(* registry in step with the files table that placement reads.           *)
FileCountMatchesCatalog ==
    /\ \A f \in Names : Exists(f) => files[f].primary \in 1..ss_count
    /\ \A i \in 1..ss_count :
          file_count[i] = Cardinality({f \in Names : Exists(f) /\ files[f].primary = i})

=============================================================================

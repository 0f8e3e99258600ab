---------------------------- MODULE FileCommands ----------------------------
(***************************************************************************)
(* The client commands that go to the naming server for authorization and  *)
(* then to the storage server (client_commands.c): CREATE, DELETE, WRITE,  *)
(* UNDO, CHECKPOINT and REVERT, composed with the naming server's handlers *)
(* (module NameServer) and one storage server (module StorageServer) that  *)
(* is the primary of every file.  Each user runs one client shell, on its  *)
(* own connection SockOf[u]; a command is a naming-server step that ends   *)
(* with the endpoint in the client's hands (pending), then a storage-      *)
(* server step; WRITE ends with ETIRW.  Between the two steps any other    *)
(* client's steps can run: the naming server's answer is not rechecked.    *)
(* ADDACCESS and REMACCESS are one naming-server step.                     *)
(***************************************************************************)
EXTENDS NameServer

CONSTANTS Texts, EditTexts, Empty, Tags, MaxStamp, MaxRows, Absent,
          SockOf    \* the connection each user's client holds

VARIABLES data, undo, rows, next_id, blobs, now, reply, life,
          pending,  \* the command a client holds an endpoint for
          pfile,    \* its file
          ptag      \* its checkpoint tag

SS == INSTANCE StorageServer WITH Files <- Names

ASSUME CommandAssumption ==
    /\ SockOf \in [Users -> Socks]
    /\ \A u, v \in Users : u # v => SockOf[u] # SockOf[v]
    /\ 0 \in Sentences
    /\ MaxSS >= 1            \* the storage server is registered

(* The storage server's constants as this module gives them. *)
ASSUME FileStorageAssumption == SS!StorageAssumption

Ops == {"CREATE", "DELETE", "WRITE", "ETIRW", "UNDO", "CHECKPOINT", "REVERT"}
ssvars == <<data, undo, rows, next_id, blobs, now, reply, life>>
fvars == <<vars, ssvars, pending, pfile, ptag>>

(* One storage server registered; every user registered and connected. *)
FInit ==
    /\ ss_count = 1
    /\ file_count = [i \in SSIds |-> 0]
    /\ users = Users
    /\ files = [f \in Names |-> NoFile]
    /\ access_control = [f \in Names |-> [u \in Users |-> NoGrant]]
    /\ access_requests = {}
    /\ locks = {}
    /\ sockets = {SockOf[u] : u \in Users}
    /\ SS!SSInit
    /\ pending = [u \in Users |-> "none"]
    /\ pfile = [u \in Users |-> CHOOSE f \in Names : TRUE]
    /\ ptag = [u \in Users |-> CHOOSE t \in Tags : TRUE]

(* The naming server answered the client's command with the endpoint. *)
Hand(u, op, f, t) ==
    /\ pending' = [pending EXCEPT ![u] = op]
    /\ pfile' = [pfile EXCEPT ![u] = f]
    /\ ptag' = [ptag EXCEPT ![u] = t]

Done(u) ==
    /\ pending' = [pending EXCEPT ![u] = "none"]
    /\ UNCHANGED <<pfile, ptag>>

(* handle_undo on the naming server: the file, WRITE permission, a        *)
(* registered primary.                                                     *)
UndoReply(u, f) ==
    IF ~Exists(f) THEN ERR_FILE_NOT_FOUND
    ELSE IF ~check_permission(u, f, ACCESS_WRITE) THEN ERR_PERMISSION_DENIED
    ELSE IF ~get_ss_by_id(files[f].primary) THEN ERR_SS_NOT_FOUND
    ELSE ERR_SUCCESS

(* handle_checkpoint on the naming server, for every sub-command: the      *)
(* file, READ permission, a registered primary.                            *)
CheckpointReply(u, f) ==
    IF ~Exists(f) THEN ERR_FILE_NOT_FOUND
    ELSE IF ~check_permission(u, f, ACCESS_READ) THEN ERR_PERMISSION_DENIED
    ELSE IF ~get_ss_by_id(files[f].primary) THEN ERR_SS_NOT_FOUND
    ELSE ERR_SUCCESS

(* The bound MaxRows on checkpoint rows, applied where a CHECKPOINT is     *)
(* handed out so that no client is left waiting on it.                     *)
RowsLeft == next_id + Cardinality({v \in Users : pending[v] = "CHECKPOINT"}) <= MaxRows

(* The naming-server step of a command whose reply is SUCCESS; on any      *)
(* other reply the client prints the error and nothing changes.            *)
Ask(u, f) ==
    /\ pending[u] = "none"
    /\ \/ handle_create(u, f) /\ Hand(u, "CREATE", f, ptag[u])
       \/ handle_delete(u, f) /\ Hand(u, "DELETE", f, ptag[u])
       \/ /\ WriteLockReply(SockOf[u], u, f, 0) = ERR_SUCCESS
          /\ handle_write(SockOf[u], u, f, 0)
          /\ Hand(u, "WRITE", f, ptag[u])
       \/ /\ UndoReply(u, f) = ERR_SUCCESS
          /\ UNCHANGED vars
          /\ Hand(u, "UNDO", f, ptag[u])
       \/ /\ CheckpointReply(u, f) = ERR_SUCCESS
          /\ UNCHANGED vars
          /\ \E op \in {"CHECKPOINT", "REVERT"}, t \in Tags :
                /\ op = "CHECKPOINT" => RowsLeft
                /\ Hand(u, op, f, t)
    /\ UNCHANGED ssvars

(* ADDACCESS and REMACCESS, by the owner's client. *)
Grant(u, f) ==
    /\ pending[u] = "none"
    /\ \/ \E v \in Users, p \in Perms : handle_addaccess(u, f, v, p)
       \/ \E v \in Users : handle_remaccess(u, f, v)
    /\ UNCHANGED <<ssvars, pending, pfile, ptag>>

(* The storage-server step of the pending command, by the file name the   *)
(* client sent; cmd_write goes on to ETIRW only when the WRITE succeeded. *)
Serve(u) ==
    LET f == pfile[u] IN
    /\ \/ pending[u] = "CREATE" /\ SS!handle_create(f) /\ Done(u)
       \/ pending[u] = "DELETE" /\ SS!handle_delete(f) /\ Done(u)
       \/ pending[u] = "UNDO" /\ SS!handle_undo(f) /\ Done(u)
       \/ pending[u] = "CHECKPOINT" /\ SS!checkpoint_create(f, ptag[u]) /\ Done(u)
       \/ pending[u] = "REVERT" /\ SS!checkpoint_revert(f, ptag[u]) /\ Done(u)
       \/ /\ pending[u] = "WRITE"
          /\ \E p \in Texts : SS!handle_write(f, p)
          /\ pending' = [pending EXCEPT ![u] = "ETIRW"]
          /\ UNCHANGED <<pfile, ptag>>
    /\ UNCHANGED vars

(* ETIRW: release_lock, answered SUCCESS. *)
Commit(u) ==
    /\ pending[u] = "ETIRW"
    /\ \/ release_lock(SockOf[u], u, pfile[u], 0)
       \/ /\ [file |-> pfile[u], sentence |-> 0, user |-> u, sock |-> SockOf[u]] \notin locks
          /\ UNCHANGED vars
    /\ Done(u)
    /\ UNCHANGED ssvars

FNext ==
    \/ \E u \in Users :
          \/ \E f \in Names : Ask(u, f) \/ Grant(u, f)
          \/ Serve(u)
          \/ Commit(u)
    \/ SS!Tick /\ UNCHANGED <<vars, pending, pfile, ptag>>

FSpec == FInit /\ [][FNext]_fvars

-----------------------------------------------------------------------------
FTypeOK ==
    /\ TypeOK
    /\ SS!SSTypeOK
    /\ pending \in [Users -> Ops \cup {"none"}]

(* spec 4.5: the coordinator hands out the endpoint for UNDO and for     *)
(* REVERT, the two commands that put an older content back, only to a    *)
(* user with write permission.  handle_checkpoint checks read permission  *)
(* for every sub-command, REVERT included.                                *)
RestoreNeedsWrite ==
    [][\A u \in Users, f \in Names :
          Ask(u, f) /\ pending'[u] \in {"UNDO", "REVERT"}
             => check_permission(u, f, ACCESS_WRITE)]_fvars

(* spec 4.1: the storage bytes of a deleted file are removed, so once no  *)
(* command is half done, the storage server holds only catalogued files.  *)
(* A whole-file WRITE or a REVERT authorized before the owner's DELETE   *)
(* reaches the storage server after it and creates the file again (UNDO  *)
(* needs the file present and cannot).                                   *)
StorageMatchesCatalog ==
    (\A u \in Users : pending[u] = "none")
        => \A f \in Names : SS!Present(f) => Exists(f)
=============================================================================

------------------------- MODULE FileCommands_proofs -------------------------
(***************************************************************************)
(* Proofs about the client commands composed with the naming server and   *)
(* the storage server: the storage server's invariant survives every      *)
(* interleaving of the clients' two-step commands.                        *)
(***************************************************************************)
EXTENDS FileCommands, NameServer_proofs

(* The storage server's proofs, for the file names of this module. *)
SSP == INSTANCE StorageServer_proofs WITH Files <- Names

USE SockAssumption, BoundsAssumption, PermsAssumption, SentenceAssumption,
    NoFileAssumption, NamesAssumption, CommandAssumption
USE DEF ERR_SUCCESS, ERR_FILE_NOT_FOUND, ERR_FILE_EXISTS, ERR_PERMISSION_DENIED,
        ERR_LOCKED, ERR_SERVER_ERROR, ERR_NOT_OWNER, ERR_USER_NOT_FOUND,
        ERR_SS_NOT_FOUND, NoGrant, NoSS

(* What a client holds between its two steps: an endpoint for a named    *)
(* file, and for CHECKPOINT and REVERT a tag.                             *)
PendingOK ==
    /\ pending \in [Users -> Ops \cup {"none"}]
    /\ DOMAIN pfile = Users /\ DOMAIN ptag = Users
    /\ \A u \in Users : pending[u] # "none" => pfile[u] \in Names
    /\ \A u \in Users : pending[u] \in {"CHECKPOINT", "REVERT"} => ptag[u] \in Tags

(* The inductive invariant: the naming server's types, the clients'      *)
(* connections (no command opens or closes one), the pending commands,   *)
(* and the storage server's own inductive invariant.                     *)
FInv ==
    /\ TypeOK
    /\ sockets = {SockOf[u] : u \in Users}
    /\ PendingOK
    /\ SSP!SSInv
-----------------------------------------------------------------------------
(* SS (module FileCommands) and SSP name the same instance of the storage *)
(* server; their definitions agree once both are expanded.               *)
LEMMA SSBridge ==
    /\ SS!SSNext <=> SSP!SSNext
    /\ SS!SSInit <=> SSP!SSInit
    /\ SS!SSTypeOK <=> SSP!SSTypeOK
    /\ SS!UndoFromCurrentLife <=> SSP!UndoFromCurrentLife
    /\ SS!ssvars = SSP!ssvars
BY DEF SS!Payloads, SSP!Payloads, SS!Present, SSP!Present, 
       SS!save_file_content, SSP!save_file_content, SS!save_undo_if_present, 
       SSP!save_undo_if_present, SS!WordEdits, SSP!WordEdits, SS!Fail, 
       SSP!Fail, SS!handle_create, SSP!handle_create, SS!handle_write, 
       SSP!handle_write, SS!handle_delete, SSP!handle_delete, 
       SS!handle_undo, SSP!handle_undo, SS!handle_replicate, 
       SSP!handle_replicate, SS!checkpoint_create, SSP!checkpoint_create, 
       SS!FirstRow, SSP!FirstRow, SS!checkpoint_revert, 
       SSP!checkpoint_revert, SS!Tick, SSP!Tick, SS!SSNext, SSP!SSNext, 
       SS!Locators, SSP!Locators, SS!Stamps, SSP!Stamps, SS!RowRec, 
       SSP!RowRec, SS!Replies, SSP!Replies, SS!SSInit, SSP!SSInit, 
       SS!SSTypeOK, SSP!SSTypeOK, SS!UndoFromCurrentLife, 
       SSP!UndoFromCurrentLife, SS!ssvars, SSP!ssvars, SS!ERR_SUCCESS, 
       SSP!ERR_SUCCESS, SS!ERR_FILE_NOT_FOUND, SSP!ERR_FILE_NOT_FOUND, 
       SS!ERR_FILE_EXISTS, SSP!ERR_FILE_EXISTS, SS!ERR_INVALID_PARAM, 
       SSP!ERR_INVALID_PARAM, SS!ERR_CHECKPOINT_NOT_FOUND, 
       SSP!ERR_CHECKPOINT_NOT_FOUND

(* The storage server's assumption holds for the constants given here. *)
LEMMA SSAssume == SSP!StorageAssumption
BY FileStorageAssumption DEF SS!StorageAssumption, SSP!StorageAssumption,
                             SS!Payloads, SSP!Payloads

(* A storage-server step, or a step that leaves the storage server alone, *)
(* keeps its inductive invariant (lemma SSInvStep of StorageServer_proofs).*)
LEMMA SSInvKept == SSP!SSInv /\ [SS!SSNext]_ssvars => SSP!SSInv'
<1>1. SSP!SSInv /\ [SSP!SSNext]_(SSP!ssvars) => SSP!SSInv'
  BY SSP!SSInvStep, SSAssume
<1>. QED  BY <1>1, SSBridge DEF ssvars, SS!ssvars, SSP!ssvars

(* Every user's shell starts registered and connected, nothing pending,   *)
(* and the storage server empty.                                          *)
LEMMA FInvInit == FInit => FInv
<1> SUFFICES ASSUME FInit PROVE FInv
  OBVIOUS
<1>1. TypeOK
  BY DEF FInit, TypeOK, SSIds
<1>2. PendingOK
  BY DEF FInit, PendingOK, Ops
<1>3. SSP!SSInv
  BY SSP!SSInvInit, SSAssume, SSBridge DEF FInit
<1>. QED  BY <1>1, <1>2, <1>3 DEF FInit, FInv
(* Every command step is a naming-server handler on the client's own     *)
(* connection, or leaves the naming server alone.                        *)
LEMMA NSStepOf == FInv /\ [FNext]_fvars => [Next]_vars
<1> SUFFICES ASSUME FInv, [FNext]_fvars PROVE [Next]_vars
  OBVIOUS
<1>1. ASSUME NEW u \in Users, NEW f \in Names, Ask(u, f) PROVE [Next]_vars
  <2>1. SockOf[u] \in sockets
    BY DEF FInv
  <2>. QED  BY <1>1, <2>1 DEF Ask, Hand, Next
<1>2. ASSUME NEW u \in Users, NEW f \in Names, Grant(u, f) PROVE [Next]_vars
  BY <1>2 DEF Grant, Next
<1>3. ASSUME NEW u \in Users, Serve(u) PROVE [Next]_vars
  BY <1>3 DEF Serve
<1>4. ASSUME NEW u \in Users, Commit(u) PROVE [Next]_vars
  <2>1. SockOf[u] \in sockets /\ pfile[u] \in Names
    BY <1>4 DEF Commit, FInv, PendingOK
  <2>. QED  BY <1>4, <2>1 DEF Commit, Next
<1>5. CASE SS!Tick /\ UNCHANGED <<vars, pending, pfile, ptag>>
  BY <1>5
<1>6. CASE UNCHANGED fvars
  BY <1>6 DEF fvars
<1>. QED  BY <1>1, <1>2, <1>3, <1>4, <1>5, <1>6 DEF FNext

(* Every command step is a storage-server handler on the file the client *)
(* was handed, or leaves the storage server alone.                       *)
LEMMA SSStepOf == FInv /\ [FNext]_fvars => [SS!SSNext]_ssvars
<1> SUFFICES ASSUME FInv, [FNext]_fvars PROVE [SS!SSNext]_ssvars
  OBVIOUS
<1>1. ASSUME NEW u \in Users, NEW f \in Names, Ask(u, f) \/ Grant(u, f)
      PROVE  [SS!SSNext]_ssvars
  BY <1>1 DEF Ask, Grant
<1>2. ASSUME NEW u \in Users, Serve(u) PROVE [SS!SSNext]_ssvars
  <2>1. pfile[u] \in Names
    BY <1>2 DEF Serve, FInv, PendingOK
  <2>2. pending[u] \in {"CHECKPOINT", "REVERT"} => ptag[u] \in Tags
    BY DEF FInv, PendingOK
  <2>3. Texts \subseteq SS!Payloads
    BY DEF SS!Payloads
  <2>. QED  BY <1>2, <2>1, <2>2, <2>3 DEF Serve, SS!SSNext
<1>3. ASSUME NEW u \in Users, Commit(u) PROVE [SS!SSNext]_ssvars
  BY <1>3 DEF Commit
<1>4. CASE SS!Tick /\ UNCHANGED <<vars, pending, pfile, ptag>>
  BY <1>4 DEF SS!SSNext
<1>5. CASE UNCHANGED fvars
  BY <1>5 DEF fvars
<1>. QED  BY <1>1, <1>2, <1>3, <1>4, <1>5 DEF FNext

(* No command opens or closes a connection; Hand names a file and, for   *)
(* CHECKPOINT and REVERT, a tag; Done and the WRITE step keep them.      *)
LEMMA ClientPartKept ==
    ASSUME FInv, [FNext]_fvars
    PROVE  sockets' = sockets /\ PendingOK'
<1>1. ASSUME NEW u \in Users, NEW f \in Names, Ask(u, f)
      PROVE  sockets' = sockets /\ PendingOK'
  <2>1. sockets' = sockets
    BY <1>1 DEF Ask, handle_create, handle_delete, handle_write, vars
  <2>2. \E op \in Ops, t \in Tags \cup {ptag[u]} :
          /\ op \in {"CHECKPOINT", "REVERT"} => t \in Tags
          /\ Hand(u, op, f, t)
    BY <1>1 DEF Ask, Ops
  <2>3. PendingOK'
    BY <2>2 DEF Hand, FInv, PendingOK
  <2>. QED  BY <2>1, <2>3
<1>2. ASSUME NEW u \in Users, NEW f \in Names, Grant(u, f)
      PROVE  sockets' = sockets /\ PendingOK'
  BY <1>2 DEF Grant, handle_addaccess, handle_remaccess, FInv, PendingOK
<1>3. ASSUME NEW u \in Users, Serve(u) PROVE sockets' = sockets /\ PendingOK'
  BY <1>3 DEF Serve, Done, vars, FInv, PendingOK, Ops
<1>4. ASSUME NEW u \in Users, Commit(u) PROVE sockets' = sockets /\ PendingOK'
  BY <1>4 DEF Commit, Done, release_lock, vars, FInv, PendingOK, Ops
<1>5. CASE SS!Tick /\ UNCHANGED <<vars, pending, pfile, ptag>>
  BY <1>5 DEF vars, FInv, PendingOK
<1>6. CASE UNCHANGED fvars
  BY <1>6 DEF fvars, vars, FInv, PendingOK
<1>. QED  BY <1>1, <1>2, <1>3, <1>4, <1>5, <1>6 DEF FNext

LEMMA FInvStep == FInv /\ [FNext]_fvars => FInv'
<1> SUFFICES ASSUME FInv, [FNext]_fvars PROVE FInv'
  OBVIOUS
<1>1. TypeOK'
  BY NSStepOf, TypeOKStep DEF FInv
<1>2. SSP!SSInv'
  BY SSStepOf, SSInvKept DEF FInv
<1>3. sockets' = sockets /\ PendingOK'
  BY ClientPartKept
<1>4. {SockOf[u] : u \in Users}' = {SockOf[u] : u \in Users}
  OBVIOUS
<1>. QED  BY <1>1, <1>2, <1>3, <1>4 DEF FInv

(* The inductive invariant holds in every state of every run. *)
THEOREM CommandsInvariant == FSpec => []FInv
BY FInvInit, FInvStep, PTL DEF FSpec

(* Interleaved commands of several clients keep the naming server's and  *)
(* the storage server's state, and the clients' pending commands, within *)
(* their types.                                                          *)
THEOREM FTypeCorrect == FSpec => []FTypeOK
<1>1. FInv => FTypeOK
  <2> SUFFICES ASSUME FInv PROVE FTypeOK
    OBVIOUS
  <2>1. SSP!SSTypeOK
    BY DEF FInv, SSP!SSInv
  <2>. QED  BY <2>1, SSBridge DEF FInv, PendingOK, FTypeOK
<1>. QED  BY <1>1, CommandsInvariant, PTL

=============================================================================

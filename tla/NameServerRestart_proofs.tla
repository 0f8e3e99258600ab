----------------------- MODULE NameServerRestart_proofs -----------------------
(***************************************************************************)
(* Proofs about the naming server across storage-server and coordinator    *)
(* restarts: within one coordinator run, a file's primary id names the     *)
(* node the file was placed on, for any number of nodes, slots and         *)
(* restarts.                                                               *)
(***************************************************************************)
EXTENDS NameServerRestart, NameServer_proofs

USE SockAssumption, BoundsAssumption, PermsAssumption, SentenceAssumption,
    NoFileAssumption, RestartAssumption
USE DEF ERR_SUCCESS, ERR_FILE_NOT_FOUND, ERR_FILE_EXISTS, ERR_PERMISSION_DENIED,
        ERR_LOCKED, ERR_SERVER_ERROR, ERR_NOT_OWNER, ERR_USER_NOT_FOUND,
        ERR_SS_NOT_FOUND, NoGrant, NoSS

(* A file of the current run was placed on a registered slot, and that    *)
(* slot has not been written since: handle_register_ss only writes the     *)
(* slot after the last one.                                                *)
PlacedInRun ==
    \A f \in Names :
        Exists(f) /\ born[f] = restarts
            => /\ files[f].primary \in 1..ss_count
               /\ slot_node[files[f].primary] = placed[f]

(* The inductive invariant: every file was made in this run or an earlier *)
(* one, and the files of this run sit on the slots they were placed on.   *)
RInv ==
    /\ RTypeOK
    /\ \A f \in Names : born[f] <= restarts
    /\ PlacedInRun
-----------------------------------------------------------------------------
LEMMA RInvInit == RInit => RInv
BY DEF RInit, Init, RInv, RTypeOK, TypeOK, SSIds, PlacedInRun, Exists

(* A storage server's registration fills the slot after the last one and *)
(* leaves the slots of the files already placed alone.                   *)
LEMMA StartNodeKeeps ==
    ASSUME RInv, TypeOK', NEW nd \in Nodes, StartNode(nd)
    PROVE  RInv'
<1>1. ss_count + 1 \in SSIds /\ ss_count' = ss_count + 1
  BY DEF StartNode, handle_register_ss, RInv, RTypeOK, TypeOK, SSIds
<1>2. RTypeOK'
  BY <1>1 DEF StartNode, RInv, RTypeOK
<1>3. PlacedInRun'
  <2> SUFFICES ASSUME NEW f \in Names, Exists(f)', born'[f] = restarts'
               PROVE  /\ files'[f].primary \in 1..ss_count'
                      /\ slot_node'[files'[f].primary] = placed'[f]
    BY DEF PlacedInRun
  <2>1. files[f].primary \in 1..ss_count /\ slot_node[files[f].primary] = placed[f]
    BY DEF StartNode, handle_register_ss, Exists, RInv, PlacedInRun
  <2>. QED  BY <1>1, <2>1 DEF StartNode, handle_register_ss, RInv, RTypeOK, TypeOK
<1>. QED  BY <1>2, <1>3 DEF StartNode, RInv

(* CREATE places the new file on a registered server and records that    *)
(* server's address as the one handed to the client.                     *)
LEMMA CreateKeeps ==
    ASSUME RInv, TypeOK', NEW u \in Users, NEW f \in Names, Create(u, f)
    PROVE  RInv'
<1>1. ss_count \in 1..MaxSS
  BY DEF Create, handle_create, handle_createfolder, CreateReply, RInv, RTypeOK,
         TypeOK
<1>2. LeastLoaded \in 1..ss_count
  BY <1>1, LeastLoadedType
<1>3. /\ files'[f].primary = LeastLoaded
      /\ \A g \in Names \ {f} : files'[g] = files[g]
  BY DEF Create, handle_create, handle_createfolder, RInv, RTypeOK, TypeOK
<1>4. UNCHANGED <<ss_count, slot_node, restarts>>
  BY DEF Create, handle_create, handle_createfolder
<1>5. RTypeOK'
  BY <1>1, <1>2 DEF Create, RInv, RTypeOK, SSIds
<1>6. \A g \in Names : born'[g] <= restarts'
  BY DEF Create, RInv, RTypeOK
<1>7. PlacedInRun'
  <2> SUFFICES ASSUME NEW g \in Names, Exists(g)', born'[g] = restarts'
               PROVE  /\ files'[g].primary \in 1..ss_count'
                      /\ slot_node'[files'[g].primary] = placed'[g]
    BY DEF PlacedInRun
  <2>1. CASE g = f
    BY <1>2, <1>3, <1>4, <2>1 DEF Create, RInv, RTypeOK
  <2>2. CASE g # f
    BY <1>3, <1>4, <2>2 DEF Create, RInv, RTypeOK, PlacedInRun, Exists
  <2>. QED  BY <2>1, <2>2
<1>. QED  BY <1>5, <1>6, <1>7 DEF RInv

(* DELETE drops the files row; the placements of the others stay. *)
LEMMA DeleteKeeps ==
    ASSUME RInv, TypeOK', NEW u \in Users, NEW f \in Names, Delete(u, f)
    PROVE  RInv'
<1>1. RTypeOK' /\ \A g \in Names : born'[g] <= restarts'
  BY DEF Delete, RInv, RTypeOK
<1>2. PlacedInRun'
  BY DEF Delete, handle_delete, RInv, RTypeOK, TypeOK, PlacedInRun, Exists
<1>. QED  BY <1>1, <1>2 DEF RInv

(* A coordinator restart forgets the registry; every file in the catalog *)
(* is then from an earlier run.                                          *)
LEMMA RestartKeeps ==
    ASSUME RInv, NMRestart
    PROVE  RInv'
<1>1. RTypeOK'
  BY DEF NMRestart, RInv, RTypeOK, TypeOK, SSIds
<1>2. \A g \in Names : born'[g] < restarts'
  BY DEF NMRestart, RInv, RTypeOK
<1>. QED  BY <1>1, <1>2 DEF NMRestart, RInv, RTypeOK, PlacedInRun

LEMMA RInvStep == RInv /\ [RNext]_rvars => RInv'
<1> SUFFICES ASSUME RInv, [RNext]_rvars PROVE RInv'
  OBVIOUS
<1>1. ASSUME NEW nd \in Nodes, StartNode(nd) PROVE RInv'
  <2>1. TypeOK'  BY <1>1, TypeOKStep DEF StartNode, Next, RInv, RTypeOK
  <2>. QED  BY <1>1, <2>1, StartNodeKeeps
<1>2. ASSUME NEW u \in Users, NEW f \in Names, Create(u, f) PROVE RInv'
  <2>1. TypeOK'  BY <1>2, TypeOKStep DEF Create, Next, RInv, RTypeOK
  <2>. QED  BY <1>2, <2>1, CreateKeeps
<1>3. ASSUME NEW u \in Users, NEW f \in Names, Delete(u, f) PROVE RInv'
  <2>1. TypeOK'  BY <1>3, TypeOKStep DEF Delete, Next, RInv, RTypeOK
  <2>. QED  BY <1>3, <2>1, DeleteKeeps
<1>4. CASE NMRestart
  BY <1>4, RestartKeeps
<1>5. CASE UNCHANGED rvars
  BY <1>5 DEF rvars, vars, RInv, RTypeOK, TypeOK, PlacedInRun, Exists
<1>. QED  BY <1>1, <1>2, <1>3, <1>4, <1>5 DEF RNext

(* The inductive invariant holds in every state of every run. *)
THEOREM RestartInvariant == RSpec => []RInv
BY RInvInit, RInvStep, PTL DEF RSpec

(* Registrations, creates, deletes and coordinator restarts keep the     *)
(* registry, the slot addresses and the histories within their types.    *)
THEOREM RTypeCorrect == RSpec => []RTypeOK
BY RestartInvariant, PTL DEF RInv

(* Within one coordinator run a file's primary id, whenever it resolves  *)
(* to a registered server, resolves to the node CREATE sent the client  *)
(* to, however the storage servers restart and register again.           *)
THEOREM SameRunResolvesToPlacementHolds == RSpec => []SameRunResolvesToPlacement
<1>1. RInv => SameRunResolvesToPlacement
  BY DEF RInv, PlacedInRun, SameRunResolvesToPlacement
<1>. QED  BY <1>1, RestartInvariant, PTL
=============================================================================

-------------------------- MODULE NameServerRestart --------------------------
(***************************************************************************)
(* The naming server with storage-server processes that start and restart *)
(* and a coordinator that crashes and restarts.                           *)
(*   slot_node  the address (a storage-server process, by its port) that  *)
(*              handle_register_ss wrote into storage_servers[i - 1]      *)
(*   placed     (history) the node whose address CREATE handed the client *)
(*              for the file's primary                                    *)
(*   born       (history) the coordinator run in which the file was made  *)
(*   restarts   coordinator restarts so far                               *)
(* A storage server registers once, when its process starts (ss_main.c    *)
(* main); a restarted process keeps its port and data directory and       *)
(* registers again.  The coordinator process can die at any point         *)
(* (a signal, or a SIGPIPE from a send to a client that has gone: no       *)
(* handler ignores it); restarting it runs main() again, which keeps the  *)
(* sqlite catalog and loses everything held in memory.                    *)
(***************************************************************************)
EXTENDS NameServer

CONSTANTS
    Nodes,        \* storage-server processes, by their port
    NoNode,       \* an empty registry slot; a folder's missing replica
    MaxRestarts   \* coordinator restarts a run allows

ASSUME RestartAssumption == NoNode \notin Nodes /\ MaxRestarts \in Nat

VARIABLES slot_node, placed, born, restarts

rvars == <<vars, slot_node, placed, born, restarts>>

RInit ==
    /\ Init
    /\ slot_node = [i \in SSIds |-> NoNode]
    /\ placed = [f \in Names |-> NoNode]
    /\ born = [f \in Names |-> 0]
    /\ restarts = 0

(* Mutant: the id handed out is the count before the increment. *)
StartNodeIdFromCount(nd) ==
    /\ handle_register_ss
    /\ slot_node' = [slot_node EXCEPT ![ss_count] = nd]
    /\ UNCHANGED <<placed, born, restarts>>

(* A storage-server process starts: init_storage_server, then              *)
(* register_with_nameserver; the coordinator's handle_register_ss fills    *)
(* the next slot with the process's address.  When the registry is full   *)
(* the process exits, which changes nothing here.                         *)
StartNode(nd) ==
    /\ handle_register_ss
    /\ slot_node' = [slot_node EXCEPT ![ss_count + 1] = nd]
    /\ UNCHANGED <<placed, born, restarts>>

(* CREATE and CREATEFOLDER: the client is sent to the address of the      *)
(* chosen primary.                                                         *)
Create(u, f) ==
    /\ handle_create(u, f) \/ handle_createfolder(u, f)
    /\ placed' = [placed EXCEPT ![f] = slot_node[LeastLoaded]]
    /\ born' = [born EXCEPT ![f] = restarts]
    /\ UNCHANGED <<slot_node, restarts>>

Delete(u, f) ==
    /\ handle_delete(u, f)
    /\ placed' = [placed EXCEPT ![f] = NoNode]
    /\ UNCHANGED <<slot_node, born, restarts>>

(* The coordinator restarts: main() clears server_state (registry, users, *)
(* locks), sets next_ss_id back to 1 and reloads only the file names from *)
(* the catalog; every client connection is gone with the old process.     *)
NMRestart ==
    /\ restarts < MaxRestarts
    /\ restarts' = restarts + 1
    /\ ss_count' = 0
    /\ file_count' = [i \in SSIds |-> 0]
    /\ users' = {}
    /\ locks' = {}
    /\ sockets' = {}
    /\ slot_node' = [i \in SSIds |-> NoNode]
    /\ UNCHANGED <<files, access_control, access_requests, placed, born>>

RNext ==
    \/ \E nd \in Nodes : StartNode(nd)
    \/ \E u \in Users, f \in Names : Create(u, f) \/ Delete(u, f)
    \/ NMRestart

RSpec == RInit /\ [][RNext]_rvars

-----------------------------------------------------------------------------
RTypeOK ==
    /\ TypeOK
    /\ slot_node \in [SSIds -> Nodes \cup {NoNode}]
    /\ placed \in [Names -> Nodes \cup {NoNode}]
    /\ born \in [Names -> 0..MaxRestarts]
    /\ restarts \in 0..MaxRestarts

(* Within one run of the coordinator, a file's primary id, whenever it     *)
(* resolves to a registered server, resolves to the node the file was      *)
(* placed on: however the storage servers restart and register again, the  *)
(* id handed out is next_ss_id and the slot written is the next free one.  *)
SameRunResolvesToPlacement ==
    \A f \in Names :
        Exists(f) /\ born[f] = restarts /\ get_ss_by_id(files[f].primary)
            => slot_node[files[f].primary] = placed[f]

(* spec 3 and 4.2: a storage-server id is "assigned on registration, never *)
(* reused", and the catalog outlives the coordinator, so a file's primary  *)
(* id, whenever it resolves to a registered server, resolves to the node   *)
(* the file was placed on.  Storage servers restart and register again in  *)
(* any order; the coordinator's restart sets next_ss_id back to 1.         *)
PrimaryResolvesToPlacement ==
    \A f \in Names :
        Exists(f) /\ get_ss_by_id(files[f].primary)
            => slot_node[files[f].primary] = placed[f]
=============================================================================

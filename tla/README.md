# TLA+ models of NetworkDoc

NetworkDoc (`src/`) is a small distributed document store written in C. It has three programs:

- **The naming server** (`src/nameserver`) is the coordinator. It holds:
  - a sqlite catalog of files, access-control rows and access requests;
  - an in-memory registry of storage servers, users and the sentence lock table.

  It serves every client on its own thread, and each handler holds the single `server_state.mutex` for its whole run.
- **Storage servers** (`src/storageserver`) hold the bytes. A storage server keeps, under its data directory:
  - each file;
  - one undo snapshot per file;
  - a sqlite table of checkpoints, with a blob file per checkpoint.

  Every handler runs under `ss_state.mutex`. A storage server registers with the naming server once, when its process starts.
- **Clients** (`src/client`) are shells. For every command a client:
  1. asks the naming server, which checks the catalog and the permissions and answers with a storage server's address;
  2. then talks to that storage server directly.

  Nothing is rechecked between the two steps.

The sentence write (`cmd_write`, client_commands.c:93-237) runs in four steps:

1. `WRITE_LOCK n` to the naming server, which adds a lock `(file, sentence, user, socket)`.
2. `READ` of the whole file from the storage server.
3. A local edit, then `WRITE` of the whole rebuilt file to the storage server.
4. `ETIRW n` to the naming server, which releases the lock.

## Modules

Each handler is one action, named after its C function. It is one atomic step because its server's mutex is held for the whole handler. Its guard is the handler's early returns; error paths that change nothing are not actions. `*Reply` operators give the code a client sees, in the handler's order of checks.

- **`Common.tla`**: the error codes and access bits of `include/common.h`.
- **`NameServer.tla`**: the naming server.
  - The handlers `handle_register_ss`, `handle_register_client`, `handle_create`, `handle_createfolder`, `handle_write` (WRITE_LOCK), `release_lock` (ETIRW), `handle_delete`, `handle_addaccess`, `handle_remaccess` and `handle_request_access`.
  - `Accept` and `CloseSession`: the accept loop hands out the lowest free descriptor, and `handle_client` closes it without touching the lock table.
  - Placement: `LeastLoaded` and `ReplicaFor`.
- **`WriteProtocol.tla`**: NameServer (by EXTENDS) composed with clients running `cmd_write` and the storage server's copy of one file.
  - `pc` follows `idle → read → edit → commit → idle`. Every error exit returns to `idle` without ETIRW.
  - `Exit` ends the client process at any point.
  - `Rebuilt` is the file `cmd_write` sends.
- **`StorageServer.tla`**: one storage server.
  - State:
    - `data`: the files;
    - `undo`: the snapshots;
    - `rows`: the checkpoints table, with ids in rowid order;
    - `blobs`: the checkpoint files, keyed by the name `<file>_<tag>_<time(NULL)>`;
    - `now`: `time(NULL)`;
    - the history variable `life`: the contents a file has held since it last appeared.
  - Handlers: `handle_create`, `handle_write`, `handle_delete`, `handle_undo`, `handle_replicate`, `checkpoint_create` and `checkpoint_revert`. `Tick` is a second passing.
  - `handle_write` has both branches of its `sscanf`. A payload that parses as `<n>|<m>|<word>` is a word edit, which saves the snapshot before it checks the indices. Any other payload replaces the file.
- **`NameServerRestart.tla`** (EXTENDS NameServer): storage-server processes that start and restart, and a coordinator that dies (from a signal, or from SIGPIPE on a send to a client that has gone) and restarts.
  - `StartNode`: `register_with_nameserver` fills the next slot with the process's address.
  - `NMRestart`: `main()` runs again. The registry, users, locks and sessions are lost, `next_ss_id` is 1, and the catalog is kept.
  - The history variables `placed` and `born` record the node a file was placed on and the coordinator run that made it.
- **`FileCommands.tla`** composes NameServer (by EXTENDS) with StorageServer (`SS == INSTANCE StorageServer WITH Files <- Names`) and one client shell per user.
  - `Ask(u, f)`: the naming-server step of CREATE, DELETE, WRITE, UNDO, CHECKPOINT or REVERT. It uses the coordinator's handler for the first three, and `UndoReply` and `CheckpointReply` for the coordinator's `handle_undo` and `handle_checkpoint`. It leaves the command pending.
  - `Serve(u)`: the storage-server step.
  - `Commit(u)`: the ETIRW of a WRITE.
  - `Grant`: ADDACCESS and REMACCESS.

  Any other client's steps can run between `Ask` and `Serve`.
- **`NameServer_proofs.tla`** and **`StorageServer_proofs.tla`**: the TLAPS proofs.
- **`MC_*.tla`**: model values for TLC.

## Runs

| run | expect | what it shows |
|---|---|---|
| ns_catalog | pass | 3 servers, 3 names (symmetric), 1 user. `file_count` equals the number of files whose primary is that server, over creates, folder creates and deletes in any order (`FileCountMatchesCatalog`). Grants name existing files. |
| ns_access | pass | 2 users, 2 sockets with reuse, 1 name, one sentence. However WRITE_LOCK, ETIRW, session ends and descriptor reuse interleave, no two lock rows hold the same sentence (`LockExclusive`). |
| wp_exclusion | pass | 2 clients (owner and write grantee), sentences {0,1}, 2 WRITEs each. No two clients are ever between WRITE_LOCK and ETIRW on one sentence (`WriteExclusion`), and such a client holds a lock for its socket. About 2.4M states. |
| ss_pass | pass | One file, two tags, two seconds; create, full write, word edit, delete, undo, replicate, checkpoint, revert and ticks in any order. UNDO never restores a content from before the file's last delete (`UndoFromCurrentLife`). 14616 states. |
| ns_restart | pass | 2 nodes, 3 slots, 2 names, one coordinator restart. Within one coordinator run, a file's primary id resolves to the node it was placed on (`SameRunResolvesToPlacement`). 3282 states. |
| fc_pass | pass | 2 users with read/write grants, one file, one storage server. Commands interleave between their coordinator step and their storage-server step, and both servers' state stays well formed (`FTypeOK`). This run exercises every action of the composition; the questions are asked by the two violation runs on the same model. 151838 states. |
| wp_lost_update | violation | A WRITE drops a sentence another client wrote since the snapshot (`ForeignSentencesPreserved`). |
| wp_committed_sentence_freed | violation | A committed sentence stays locked for ever (`CommittedSentenceFreed`). See finding 2. |
| ns_restart_id_reuse | violation | After a coordinator restart, a file's primary id resolves to another node (`PrimaryResolvesToPlacement`). |
| fc_restore_needs_write | violation | The coordinator authorizes REVERT for a read-only grantee (`RestoreNeedsWrite`). |
| fc_storage_matches_catalog | violation | A WRITE authorized before the owner's DELETE re-creates the file on the storage server after it (`StorageMatchesCatalog`). |
| ss_checkpoint_overwrite | violation | A second CHECKPOINT of the same tag within one second overwrites the first one's blob (`CheckpointSnapshotsKept`, an action property). See finding 6. |

Each property of a passing run has a mutant in `PROJECT.json`: a plausible bug in a mapped definition that TLC catches under the run's cfg.

**Why the bounds are enough.**

- **Placement (ns_catalog):** three servers give ties and non-ties, and a replica other than the primary.
- **Descriptor reuse (ns_access, wp_exclusion):** two sockets let a session inherit another session's locks.
- **Writes (wp_exclusion):**
  - Two sentences let writers lock different sentences.
  - Two attempts let a client lock again after an error.
  - Two lock slots let leaked locks fill the table.
- **Checkpoints (ss_pass):** `MaxStamp` and `MaxRows` allow two checkpoints both within one second and across two. One file is enough: every handler touches one file, and the question is the order of that file's own steps.
- **Restart (ns_restart):** one restart with two nodes and three slots reaches the registry after the restart, in both registration orders.
- **Composition (fc_pass):** two users, with the owner deleting while the grantee holds an authorization, reach every order of the two-step commands.

## Fairness and liveness

`FairSpec` (WriteProtocol) assumes weak fairness only on the client's machine-driven steps: `ReadContent`, `WriteContent` and `Commit`.

- `ReadContent` and `Commit` follow each other without waiting for a person.
- `WriteContent` follows the user's edit loop, which ends on `ETIRW` or on EOF of stdin. Its fairness assumes the user ends the edit.
- `Connect`, `Exit` and `RequestLock` are the user's choices and get no fairness.

It is the specification of the run wp_committed_sentence_freed. Under this fairness `CommittedSentenceFreed` does not hold: a lock inherited through a reused descriptor from another user's session is never matched by `release_lock`. Liveness is checked only by TLC.

## Findings

1. **Lost updates.** `cmd_write` sends the whole file rebuilt from its own snapshot, so a concurrent writer of another sentence loses its edit (client_commands.c:197). This is a code bug: spec 4.3 presents the sentence lock as what serializes writers.
2. **Locks outlive their sessions and cannot be released.**
   - `handle_client` (nm_main.c:159) closes a socket and keeps its locks.
   - The next connection on that descriptor is then treated as the holder.
   - `release_lock` (nm_db.c:145) also matches the user, so the ETIRW of a later session of another user never frees the lock.

   Spec 4.3 and 5 say that closing a session releases its locks.
3. **Storage-server ids are reused.** `main()` sets `next_ss_id = 1` on every start (nm_main.c:18), while the catalog keeps primary ids. After a coordinator restart a file resolves to whichever node registers first. Spec 3 says ids are never reused.
4. **REVERT needs only read permission.** `handle_checkpoint` checks READ for every sub-command (nm_handlers2.c:357). Spec 4.5 requires write permission.
5. **A stale authorization re-creates a deleted file.**
   - The client goes to the storage server on an answer the coordinator gave before the owner's DELETE (client_commands.c:218).
   - `save_file_content` creates the missing file.
   - The storage server then holds a file the catalog does not.

   Spec 4.1 says deletion removes the file's storage. Only a whole-file WRITE and a REVERT can do this; UNDO needs the file present.
6. **A checkpoint can be overwritten.** CHECKPOINT CREATE names the blob `<file>_<tag>_<time(NULL)>`, opens it with `fopen "w"` and inserts a row whatever the tag (ss_handlers.c:453). Two checkpoints of one tag in one second share the blob, and REVERT, which reads the first row, restores the later content. Spec 3 and 9 describe a checkpoint as a snapshot of the file's bytes, with a tag unique per file.

TLC also showed these while modelling. They are listed as hazards in `PROJECT.json`, and no run keeps them:
- the delete path keeps locks, access requests and checkpoints (nm_handlers.c:370, ss_handlers.c:202);
- ADDACCESS makes the owner a grantee;
- a full write of a text that starts `<n>|<m>|` is taken as a word edit;
- a rejected word edit overwrites the undo snapshot.

## Proofs

Five modules hold proofs, and tlapm checks every step. Each proof module EXTENDS the module it is about and the naming server's proofs, so the naming-server lemmas (`TypeOKStep`, `IInvStep`, `LowestFreeType`, `LeastLoadedType`, `ReplicaForType`) are stated once and cited by name.

**`NameServer_proofs.tla`**, under the ASSUMEs of NameServer (descriptors and bounds are naturals, `Names` is finite, and `NoFile` is not a file record):

- `TypeCorrect`: `Spec => []TypeOK`.
- `GrantsAndLocksInvariant`: `Spec => []IInv`, with `IInv == TypeOK /\ GrantsReferenceFiles /\ LockExclusive`. Its step is lemma `IInvStep`. From it follow `GrantsReferenceFilesHolds` and `LockExclusiveHolds`.
  - `LockExclusive` alone is not inductive. `handle_write` keeps it only given the lock table's type, and `handle_addaccess` keeps grants on existing files only given the type of `files`.
- `FileCountMatchesCatalogHolds`: `Spec => []FileCountMatchesCatalog`, through `CInv == TypeOK /\ FileCountMatchesCatalog`.
  - `OnSS(i)` is the set of catalogued entries whose primary is server `i`.
  - Registration adds a server that no entry names, because every entry is on a registered server (the invariant's first conjunct). This is why that conjunct is needed.
  - Create adds one entry to `OnSS(LeastLoaded)`, and delete removes one from `OnSS(primary)`. `FS_AddElement` and `FS_RemoveElement` of FiniteSetTheorems give the cardinalities. They need `IsFiniteSet(Names)`, the one assumption added for this proof.

**`StorageServer_proofs.tla`**, under StorageServer's ASSUME (`Absent` is not a content, and the bounds are naturals):

- `SSTypeCorrect`: `SSSpec => []SSTypeOK`.
- `UndoFromCurrentLifeHolds`: `SSSpec => []UndoFromCurrentLife`.
- Both rest on the inductive invariant `SSInv`, which adds these conditions to the type:
  - a snapshot exists only for a present file;
  - the snapshot and the current content are in the file's `life`;
  - every checkpoint row's blob holds a content.
- Each condition is needed:
  - Without the first, a full WRITE that re-creates a deleted file could keep a stale snapshot.
  - Without the second, `handle_write`'s snapshot of the current content would not be known to lie in `life`.
  - Without the third, a REVERT could leave a snapshot beside a missing file.
- Lemma `FirstRowExists` shows that REVERT's row scan finds a least row. It uses `WFMin` with `NatLessThanWellFounded`, because row ids are naturals.

**`WriteProtocol_proofs.tla`**, under ClientAssumption (which also says sentence 0, where `target` starts, is a sentence, and that server 1, which holds `File`, is within `MaxSS`):

- `WriteExclusionHolds`, `LockHeldWhileEditingHolds` and `PTypeCorrect` follow from `WriteInvariant: PSpec => []WInv`.
- `WInv` is `PTypeOK /\ IInv /\ ConnsLive /\ ConnsDistinct /\ LockHeldWhileEditing`:
  - `ConnsLive`: a connected client's descriptor is open on the server;
  - `ConnsDistinct`: two clients never hold the same open descriptor.
- `WriteExclusion` is not inductive by itself. Its argument goes through `LockHeldWhileEditing`: two editing clients on one sentence would hold locks that `LockExclusive` makes equal. Their descriptors would then be equal, which `ConnsDistinct` forbids.
- `ConnsDistinct` holds even though descriptors are reused. `accept` (`LowestFree`) only hands out a descriptor that is not open, and `ConnsLive` says that every connected client's descriptor is open. A stale lock inherited through a reused descriptor is harmless to exclusion, because it names the new holder's descriptor.
- Lemma `ServerStep` shows that every client step is a naming-server step (`[Next]_vars`), so `IInvStep` is reused. `ClientStep` takes the clients' part one action at a time.

**`NameServerRestart_proofs.tla`**:

- `RTypeCorrect` and `SameRunResolvesToPlacementHolds` rest on `RInv`.
- `RInv` adds two conditions to the type:
  - every file's `born` is at most `restarts`;
  - `PlacedInRun`: a file made in the current run has its primary among the registered slots, and that slot still holds the node the file was placed on.
- Registration writes only slot `ss_count + 1`, so `PlacedInRun` survives it. A coordinator restart makes every file older than the run, because `born <= restarts < restarts'`.

**`FileCommands_proofs.tla`**, under CommandAssumption and `FileStorageAssumption` (StorageServer's assumption for the constants FileCommands gives it):

- `FTypeCorrect` follows from `CommandsInvariant: FSpec => []FInv`.
- `FInv` is made of four parts:
  - the naming server's type;
  - the fixed set of client connections;
  - `PendingOK`: a pending command names a file, and for CHECKPOINT and REVERT a tag;
  - the storage server's `SSInv`.
- Lemmas `NSStepOf` and `SSStepOf` show that every command step is a step of each server or leaves it alone. The two servers' step lemmas are then reused.
  - The storage server's lemmas are reached by instancing StorageServer_proofs (`SSP`).
  - `SSBridge` equates the definitions of that instance with FileCommands' own instance `SS`.

**Left to TLC.**

- All liveness (the liveness property the violation run wp_committed_sentence_freed refutes). TLAPS does not check liveness under fairness or `ENABLED`.
- Every invariant and action property of the passing runs is proved for all values of the constants. The runs remain as a quick check on small instances, and as the check of each inductive invariant before its proof. `WInv`, `RInv` and `FInv` were each checked by TLC as invariants of their run's configuration.
- The violation runs' properties are false, and their counterexamples are the findings.

## Not modelled

- Byte-level framing (`send_message`, `receive_message`), and the wording and layout of replies.
- sqlite failures. A failed statement is ignored by most handlers, for example the two DELETEs of `handle_delete`; this is listed as a hazard.
- VIEW, LIST, INFO, STREAM, READ and CHECKPOINT LIST, which only produce output.
- EXEC, which runs the file's text through `popen` on the client.
- The replica.
  - No code sends CREATE or WRITE to a replica, and REPLICATE exists only as a storage-server handler.
  - `contact_storage_server`'s fallback to the replica when the primary is down would need a second storage server in FileCommands. That doubles the state, and it is the next step.
- Malformed ETIRW payloads (nm_main.c:116). `cmd_write` always sends a well-formed number.

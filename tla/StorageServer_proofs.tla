------------------------ MODULE StorageServer_proofs ------------------------
(***************************************************************************)
(* Proofs about the storage server's handlers (module StorageServer): the  *)
(* type invariant, and that an undo snapshot is always a content the file  *)
(* has held since it last appeared.                                        *)
(***************************************************************************)
EXTENDS StorageServer, WellFoundedInduction, TLAPS

USE StorageAssumption

(* The rows matching a file and tag. *)
Matching(f, t) == {r \in rows : r.file = f /\ r.tag = t}

(* Row ids are naturals, so when a file has a row under a tag the scan of  *)
(* FirstRow finds one with the least id.                                   *)
LEMMA FirstRowExists ==
    ASSUME rows \subseteq RowRec, NEW f, NEW t, Matching(f, t) # {}
    PROVE  FirstRow(f, t) \in rows /\ FirstRow(f, t).file = f /\ FirstRow(f, t).tag = t
<1> DEFINE Ids == {r.id : r \in Matching(f, t)}
<1>1. Ids \subseteq Nat /\ Ids # {}
  BY DEF Matching, RowRec
<1>2. PICK x \in Ids : \A y \in Ids : ~(<<y, x>> \in OpToRel(<, Nat))
  BY <1>1, NatLessThanWellFounded, WFMin
<1>3. \A y \in Ids : x <= y
  <2> TAKE y \in Ids
  <2>1. x \in Nat /\ y \in Nat  BY <1>1
  <2>2. ~(y < x)  BY <1>2, <2>1, Zenon DEF OpToRel
  <2>. QED  BY <2>1, <2>2
<1>4. PICK r \in Matching(f, t) : r.id = x
  OBVIOUS
<1>5. \E q \in rows : /\ q.file = f /\ q.tag = t
                      /\ \A q2 \in rows : q2.file = f /\ q2.tag = t => q.id <= q2.id
  BY <1>3, <1>4 DEF Matching
<1>. QED  BY <1>5 DEF FirstRow

(* The invariant behind both theorems.  A snapshot exists only for a       *)
(* present file, and it and the current content are among the contents of  *)
(* the file's current life: without the first, a WRITE that re-creates a   *)
(* deleted file would keep the old file's snapshot; without the last,      *)
(* handle_write's snapshot of the current content would not lie in the     *)
(* life.  Every row's blob holds a content, so REVERT never leaves a       *)
(* snapshot beside a missing file.                                         *)
SSInv ==
    /\ SSTypeOK
    /\ DOMAIN life = Files
    /\ \A r \in rows : blobs[r.blob] # Absent
    /\ \A f \in Files :
          /\ undo[f] # Absent => Present(f) /\ undo[f] \in life[f]
          /\ Present(f) => data[f] \in life[f]

LEMMA SSInvInit == SSInit => SSInv
BY DEF SSInit, SSInv, SSTypeOK, Present, Replies, Stamps, Locators

(* save_file_content keeps the file present with its new content in its   *)
(* life, and the life only grows while the file is present.               *)
LEMMA SaveKeepsLife ==
    ASSUME SSInv, NEW f \in Files, NEW t \in Payloads, save_file_content(f, t)
    PROVE  /\ data' \in [Files -> Payloads \cup {Absent}] /\ DOMAIN life' = Files
           /\ data'[f] = t /\ t \in life'[f] /\ t # Absent
           /\ Present(f) => life[f] \subseteq life'[f]
           /\ \A g \in Files \ {f} : data'[g] = data[g] /\ life'[g] = life[g]
BY DEF save_file_content, SSInv, SSTypeOK, Present

LEMMA SSInvStep == SSInv /\ [SSNext]_ssvars => SSInv'
<1> SUFFICES ASSUME SSInv, [SSNext]_ssvars PROVE SSInv'
  OBVIOUS
<1>1. CASE Tick
  BY <1>1 DEF Tick, SSInv, SSTypeOK, Present, Stamps
<1>2. ASSUME NEW f \in Files, handle_create(f) PROVE SSInv'
  <2>1. CASE Present(f) /\ Fail(ERR_FILE_EXISTS)
    BY <2>1 DEF Fail, SSInv, SSTypeOK, Replies, Present
  <2>2. CASE ~Present(f) /\ save_file_content(f, Empty) /\ reply' = ERR_SUCCESS
             /\ UNCHANGED <<undo, rows, next_id, blobs, now>>
    <3>1. undo[f] = Absent /\ Empty \in Payloads  BY <2>2 DEF SSInv, Payloads
    <3>. QED  BY <2>2, <3>1, SaveKeepsLife DEF SSInv, SSTypeOK, Replies, Present
  <2>. QED  BY <1>2, <2>1, <2>2 DEF handle_create
<1>3. ASSUME NEW f \in Files, NEW p \in Payloads, handle_write(f, p) PROVE SSInv'
  <2>1. CASE p \in EditTexts /\ ~Present(f) /\ Fail(ERR_FILE_NOT_FOUND)
    BY <2>1 DEF Fail, SSInv, SSTypeOK, Replies, Present
  <2>2. CASE /\ p \in EditTexts /\ Present(f)
             /\ undo' = [undo EXCEPT ![f] = data[f]] /\ reply' = ERR_INVALID_PARAM
             /\ UNCHANGED <<data, rows, next_id, blobs, now, life>>
    BY <2>2 DEF SSInv, SSTypeOK, Replies, Present
  <2>3. CASE /\ p \in EditTexts /\ Present(f)
             /\ undo' = [undo EXCEPT ![f] = data[f]]
             /\ \E t \in WordEdits(data[f]) : save_file_content(f, t)
             /\ reply' = ERR_SUCCESS
             /\ UNCHANGED <<rows, next_id, blobs, now>>
    <3>1. PICK t \in WordEdits(data[f]) : save_file_content(f, t)  BY <2>3
    <3>2. t \in Payloads  BY <3>1 DEF WordEdits
    <3>. QED  BY <2>3, <3>1, <3>2, SaveKeepsLife DEF SSInv, SSTypeOK, Replies, Present
  <2>4. CASE /\ p \notin EditTexts /\ save_undo_if_present(f) /\ save_file_content(f, p)
             /\ reply' = ERR_SUCCESS
             /\ UNCHANGED <<rows, next_id, blobs, now>>
    BY <2>4, SaveKeepsLife DEF save_undo_if_present, SSInv, SSTypeOK, Replies, Present
  <2>. QED  BY <1>3, <2>1, <2>2, <2>3, <2>4 DEF handle_write
<1>4. ASSUME NEW f \in Files, handle_delete(f) PROVE SSInv'
  BY <1>4 DEF handle_delete, Fail, SSInv, SSTypeOK, Replies, Present
<1>5. ASSUME NEW f \in Files, handle_undo(f) PROVE SSInv'
  <2>1. CASE (undo[f] = Absent \/ ~Present(f)) /\ Fail(ERR_FILE_NOT_FOUND)
    BY <2>1 DEF Fail, SSInv, SSTypeOK, Replies, Present
  <2>2. CASE /\ undo[f] # Absent /\ Present(f)
             /\ save_file_content(f, undo[f]) /\ reply' = ERR_SUCCESS
             /\ UNCHANGED <<undo, rows, next_id, blobs, now>>
    <3>1. undo[f] \in Payloads  BY <2>2 DEF SSInv, SSTypeOK
    <3>. QED  BY <2>2, <3>1, SaveKeepsLife DEF SSInv, SSTypeOK, Replies, Present
  <2>. QED  BY <1>5, <2>1, <2>2 DEF handle_undo
<1>6. ASSUME NEW f \in Files, NEW p \in Payloads, handle_replicate(f, p) PROVE SSInv'
  <2>1. Present(f) \/ undo[f] = Absent  BY DEF SSInv
  <2>. QED  BY <1>6, <2>1, SaveKeepsLife DEF handle_replicate, SSInv, SSTypeOK, Replies, Present
<1>7. ASSUME NEW f \in Files, NEW t \in Tags, checkpoint_create(f, t) PROVE SSInv'
  <2>1. CASE ~Present(f) /\ Fail(ERR_FILE_NOT_FOUND)
    BY <2>1 DEF Fail, SSInv, SSTypeOK, Replies, Present
  <2>2. CASE /\ Present(f) /\ next_id <= MaxRows
             /\ blobs' = [blobs EXCEPT ![<<f, t, now>>] = data[f]]
             /\ rows' = rows \cup {[id |-> next_id, file |-> f, tag |-> t,
                                    blob |-> <<f, t, now>>]}
             /\ next_id' = next_id + 1 /\ reply' = ERR_SUCCESS
             /\ UNCHANGED <<data, undo, now, life>>
    <3>1. <<f, t, now>> \in Locators  BY DEF SSInv, SSTypeOK, Locators
    <3>2. SSTypeOK'  BY <2>2, <3>1 DEF SSInv, SSTypeOK, Replies, Present, RowRec
    <3>3. \A r \in rows' : blobs'[r.blob] # Absent
      BY <2>2, <3>1 DEF SSInv, SSTypeOK, Present, RowRec
    <3>. QED  BY <2>2, <3>2, <3>3 DEF SSInv, Present
  <2>. QED  BY <1>7, <2>1, <2>2 DEF checkpoint_create
<1>8. ASSUME NEW f \in Files, NEW t \in Tags, checkpoint_revert(f, t) PROVE SSInv'
  <2>1. CASE ~(\E r \in rows : r.file = f /\ r.tag = t) /\ Fail(ERR_CHECKPOINT_NOT_FOUND)
    BY <2>1 DEF Fail, SSInv, SSTypeOK, Replies, Present
  <2>2. CASE /\ \E r \in rows : r.file = f /\ r.tag = t
             /\ save_undo_if_present(f)
             /\ save_file_content(f, blobs[FirstRow(f, t).blob])
             /\ reply' = ERR_SUCCESS
             /\ UNCHANGED <<rows, next_id, blobs, now>>
    <3>1. FirstRow(f, t) \in rows
      BY <2>2, FirstRowExists DEF SSInv, SSTypeOK, Matching
    <3>2. blobs[FirstRow(f, t).blob] \in Payloads
      BY <3>1 DEF SSInv, SSTypeOK, RowRec
    <3>. QED  BY <2>2, <3>2, SaveKeepsLife
              DEF save_undo_if_present, SSInv, SSTypeOK, Replies, Present
  <2>. QED  BY <1>8, <2>1, <2>2 DEF checkpoint_revert
<1>9. CASE UNCHANGED ssvars
  BY <1>9 DEF ssvars, SSInv, SSTypeOK, Present
<1>. QED  BY <1>1, <1>2, <1>3, <1>4, <1>5, <1>6, <1>7, <1>8, <1>9 DEF SSNext

(* Every handler keeps the storage server's state well typed, for every    *)
(* set of file names, contents and tags; in particular REVERT always finds *)
(* a row to restore from when it finds one to match.                       *)
THEOREM SSTypeCorrect == SSSpec => []SSTypeOK
BY SSInvInit, SSInvStep, PTL DEF SSSpec, SSInv

(* UNDO never restores a content from before the file was deleted, for    *)
(* every set of file names, contents and tags: handle_delete unlinks the  *)
(* snapshot with the file, and every handler that writes the snapshot     *)
(* copies the current content.                                             *)
THEOREM UndoFromCurrentLifeHolds == SSSpec => []UndoFromCurrentLife
<1>1. SSInv => UndoFromCurrentLife
  BY DEF SSInv, UndoFromCurrentLife
<1>. QED  BY <1>1, SSInvInit, SSInvStep, PTL DEF SSSpec
=============================================================================

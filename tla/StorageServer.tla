--------------------------- MODULE StorageServer ---------------------------
(***************************************************************************)
(* One storage server (src/storageserver).  Every handler runs under       *)
(* ss_state.mutex, so each is one atomic step.  The state is what the      *)
(* handlers keep on disk for each file name:                               *)
(*   data     the file under data_dir (Absent: no such file)               *)
(*   undo     the snapshot under data_dir/undo (Absent: none)              *)
(*   rows     the rows of the checkpoints table, in rowid order by id      *)
(*   blobs    the files under data_dir/checkpoints, keyed by the name      *)
(*            "<file>_<tag>_<time(NULL)>" the code gives them              *)
(* Contents are opaque: Texts are what cmd_write builds from sentences;    *)
(* EditTexts are payloads whose text happens to start "<n>|<m>|", which    *)
(* sscanf("%d|%d|%[^\n]") in handle_write reads as a word edit.            *)
(* The file_metadata counters follow the content on every save and are     *)
(* left out; handle_read, INFO, STREAM and LIST only answer.               *)
(***************************************************************************)
EXTENDS Naturals, FiniteSets, Common

CONSTANTS
    Files,      \* file names the server is asked about
    Texts,      \* ordinary contents
    EditTexts,  \* contents that parse as "<n>|<m>|<word>"
    Empty,      \* the empty file handle_create makes
    Tags,       \* checkpoint tags
    MaxStamp,   \* the seconds of time(NULL) a run spans
    MaxRows,    \* checkpoint rows a run inserts
    Absent      \* no file, no snapshot, no blob

Payloads == Texts \cup EditTexts

ASSUME StorageAssumption ==
    /\ Empty \in Texts /\ Texts \cap EditTexts = {}
    /\ Absent \notin Payloads
    /\ MaxStamp \in Nat /\ MaxRows \in Nat

VARIABLES
    data, undo, rows, next_id, blobs,
    now,     \* time(NULL)
    reply,   \* the code of the last response sent
    life     \* (history) contents the file has held since it last appeared

ssvars == <<data, undo, rows, next_id, blobs, now, reply, life>>

Stamps == 0..MaxStamp
Locators == Files \X Tags \X Stamps
RowRec == [id : Nat, file : Files, tag : Tags, blob : Locators]
Replies == {ERR_SUCCESS, ERR_FILE_NOT_FOUND, ERR_FILE_EXISTS,
            ERR_INVALID_PARAM, ERR_CHECKPOINT_NOT_FOUND}

Present(f) == data[f] # Absent

SSInit ==
    /\ data = [f \in Files |-> Absent]
    /\ undo = [f \in Files |-> Absent]
    /\ rows = {}
    /\ next_id = 1
    /\ blobs = [l \in Locators |-> Absent]
    /\ now = 0
    /\ reply = ERR_SUCCESS
    /\ life = [f \in Files |-> {}]

(* save_file_content: fopen "w" creates the file if it is missing. *)
save_file_content(f, t) ==
    /\ data' = [data EXCEPT ![f] = t]
    /\ life' = [life EXCEPT ![f] = IF Present(f) THEN @ \cup {t} ELSE {t}]

(* The current content saved as the undo snapshot, when there is a file. *)
save_undo_if_present(f) ==
    undo' = IF Present(f) THEN [undo EXCEPT ![f] = data[f]] ELSE undo

(* The contents a word edit can rebuild: a file with no sentence has no    *)
(* word to replace.                                                        *)
WordEdits(t) == IF t = Empty THEN {} ELSE Payloads \ {Empty}

Fail(code) ==
    /\ reply' = code
    /\ UNCHANGED <<data, undo, rows, next_id, blobs, now, life>>

handle_create(f) ==
    \/ /\ Present(f)
       /\ Fail(ERR_FILE_EXISTS)
    \/ /\ ~Present(f)
       /\ save_file_content(f, Empty)
       /\ reply' = ERR_SUCCESS
       /\ UNCHANGED <<undo, rows, next_id, blobs, now>>

(* handle_write: a payload that parses as a word edit loads the file,      *)
(* saves the undo snapshot, and only then checks the sentence and word     *)
(* numbers; any other payload replaces the whole file.                     *)
handle_write(f, p) ==
    \/ /\ p \in EditTexts
       /\ ~Present(f)
       /\ Fail(ERR_FILE_NOT_FOUND)
    \/ /\ p \in EditTexts
       /\ Present(f)
       /\ undo' = [undo EXCEPT ![f] = data[f]]
       /\ reply' = ERR_INVALID_PARAM
       /\ UNCHANGED <<data, rows, next_id, blobs, now, life>>
    \/ /\ p \in EditTexts
       /\ Present(f)
       /\ undo' = [undo EXCEPT ![f] = data[f]]
       /\ \E t \in WordEdits(data[f]) : save_file_content(f, t)
       /\ reply' = ERR_SUCCESS
       /\ UNCHANGED <<rows, next_id, blobs, now>>
    \/ /\ p \notin EditTexts
       /\ save_undo_if_present(f)
       /\ save_file_content(f, p)
       /\ reply' = ERR_SUCCESS
       /\ UNCHANGED <<rows, next_id, blobs, now>>

(* Mutant: handle_delete that leaves the undo snapshot behind. *)
handle_delete_keeps_undo(f) ==
    \/ /\ ~Present(f)
       /\ Fail(ERR_FILE_NOT_FOUND)
    \/ /\ Present(f)
       /\ data' = [data EXCEPT ![f] = Absent]
       /\ life' = [life EXCEPT ![f] = {}]
       /\ reply' = ERR_SUCCESS
       /\ UNCHANGED <<undo, rows, next_id, blobs, now>>

(* handle_delete unlinks the file and its undo snapshot; the checkpoint   *)
(* rows and blobs stay.                                                    *)
handle_delete(f) ==
    \/ /\ ~Present(f)
       /\ Fail(ERR_FILE_NOT_FOUND)
    \/ /\ Present(f)
       /\ data' = [data EXCEPT ![f] = Absent]
       /\ undo' = [undo EXCEPT ![f] = Absent]
       /\ life' = [life EXCEPT ![f] = {}]
       /\ reply' = ERR_SUCCESS
       /\ UNCHANGED <<rows, next_id, blobs, now>>

(* handle_undo restores the snapshot and leaves it in place. *)
handle_undo(f) ==
    \/ /\ undo[f] = Absent \/ ~Present(f)
       /\ Fail(ERR_FILE_NOT_FOUND)
    \/ /\ undo[f] # Absent /\ Present(f)
       /\ save_file_content(f, undo[f])
       /\ reply' = ERR_SUCCESS
       /\ UNCHANGED <<undo, rows, next_id, blobs, now>>

(* handle_replicate saves what it is sent, with no snapshot. *)
handle_replicate(f, p) ==
    /\ save_file_content(f, p)
    /\ reply' = ERR_SUCCESS
    /\ UNCHANGED <<undo, rows, next_id, blobs, now>>

(* Mutant: the blob named "<file>_<tag>" without the time. *)
checkpoint_create_untimed(f, t) ==
    \/ /\ ~Present(f)
       /\ Fail(ERR_FILE_NOT_FOUND)
    \/ /\ Present(f)
       /\ next_id <= MaxRows
       /\ rows' = rows \cup {[id |-> next_id, file |-> f, tag |-> t,
                              blob |-> <<f, t>>]}
       /\ next_id' = next_id + 1
       /\ reply' = ERR_SUCCESS
       /\ UNCHANGED <<data, undo, blobs, now, life>>

(* handle_checkpoint_ops, CREATE|tag: the blob is named by file, tag and  *)
(* the current second, and a row is inserted whatever the tag.            *)
checkpoint_create(f, t) ==
    \/ /\ ~Present(f)
       /\ Fail(ERR_FILE_NOT_FOUND)
    \/ /\ Present(f)
       /\ next_id <= MaxRows
       /\ blobs' = [blobs EXCEPT ![<<f, t, now>>] = data[f]]
       /\ rows' = rows \cup {[id |-> next_id, file |-> f, tag |-> t,
                              blob |-> <<f, t, now>>]}
       /\ next_id' = next_id + 1
       /\ reply' = ERR_SUCCESS
       /\ UNCHANGED <<data, undo, now, life>>

(* The row "SELECT ... WHERE filename = ? AND tag = ?" steps to first: a  *)
(* table scan, in rowid order.                                             *)
FirstRow(f, t) ==
    CHOOSE r \in rows : /\ r.file = f /\ r.tag = t
                        /\ \A q \in rows : q.file = f /\ q.tag = t => r.id <= q.id

(* handle_checkpoint_ops, REVERT|tag. *)
checkpoint_revert(f, t) ==
    \/ /\ ~\E r \in rows : r.file = f /\ r.tag = t
       /\ Fail(ERR_CHECKPOINT_NOT_FOUND)
    \/ /\ \E r \in rows : r.file = f /\ r.tag = t
       /\ save_undo_if_present(f)
       /\ save_file_content(f, blobs[FirstRow(f, t).blob])
       /\ reply' = ERR_SUCCESS
       /\ UNCHANGED <<rows, next_id, blobs, now>>

(* A second of time(NULL) passes. *)
Tick ==
    /\ now < MaxStamp
    /\ now' = now + 1
    /\ UNCHANGED <<data, undo, rows, next_id, blobs, reply, life>>

SSNext ==
    \/ Tick
    \/ \E f \in Files :
          \/ handle_create(f)
          \/ handle_delete(f)
          \/ handle_undo(f)
          \/ \E p \in Payloads : handle_write(f, p) \/ handle_replicate(f, p)
          \/ \E t \in Tags : checkpoint_create(f, t) \/ checkpoint_revert(f, t)

SSSpec == SSInit /\ [][SSNext]_ssvars

-----------------------------------------------------------------------------
SSTypeOK ==
    /\ data \in [Files -> Payloads \cup {Absent}]
    /\ undo \in [Files -> Payloads \cup {Absent}]
    /\ rows \subseteq RowRec
    /\ next_id \in 1..MaxRows + 1
    /\ blobs \in [Locators -> Payloads \cup {Absent}]
    /\ now \in Stamps
    /\ reply \in Replies

(* UNDO never brings back a content from before the file was deleted:     *)
(* the snapshot handle_undo would restore is one the file has held since  *)
(* it last appeared (handle_delete unlinks the snapshot with the file).   *)
UndoFromCurrentLife ==
    \A f \in Files : undo[f] # Absent => undo[f] \in life[f]

(* spec 3 and 9: a checkpoint is a snapshot of the file's bytes, so once  *)
(* a checkpoints row names a blob, no later step changes what that blob   *)
(* holds.  handle_checkpoint_ops CREATE names the blob                    *)
(* "<file>_<tag>_<time(NULL)>" and opens it with fopen "w", so a second   *)
(* CHECKPOINT of the same tag within the same second overwrites the first *)
(* snapshot, and REVERT, which reads the first row, restores the second.  *)
CheckpointSnapshotsKept ==
    [][\A r \in rows : blobs'[r.blob] = blobs[r.blob]]_ssvars

=============================================================================

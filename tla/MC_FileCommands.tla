------------------------- MODULE MC_FileCommands -------------------------
(* The owner and one other user, one file name, one storage server. *)
EXTENDS FileCommands, TLC

CONSTANTS u1, u2, f1, t0, t1, g1

MCUsers == {u1, u2}
MCNames == {f1}
MCSocks == {4, 5}
MCSentences == {0}
MCPerms == {ACCESS_READ, ACCESS_WRITE}
MCTexts == {t0, t1}
MCNoEdits == {}
MCTags == {g1}
MCSockOf == (u1 :> 4) @@ (u2 :> 5)
=============================================================================

--------------------------- MODULE MC_NameServer ---------------------------
(* Small instances of the naming server for TLC.                          *)
(*  catalog: one user, three names, three servers, no lock requests:      *)
(*           placement and the file counts over create/createfolder/delete *)
(*           orders.                                                       *)
(*  access:  two users, one name, one server, two sockets, one sentence:   *)
(*           grants, requests, locks and descriptor reuse.                 *)
EXTENDS NameServer, TLC

CONSTANTS u1, u2, f1, f2, f3

MCOneUser == {u1}
MCTwoUsers == {u1, u2}
MCOneName == {f1}
MCTwoNames == {f1, f2}
MCThreeNames == {f1, f2, f3}
MCOneSock == {4}
MCTwoSocks == {4, 5}
MCNoSentence == {}
MCOneSentence == {0}
MCWritePerm == {ACCESS_WRITE}
MCPerms == {ACCESS_READ, ACCESS_WRITE}

NameSymmetry == Permutations(MCThreeNames)
UserSymmetry == Permutations(MCTwoUsers)
=============================================================================

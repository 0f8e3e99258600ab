----------------------- MODULE MC_NameServerRestart -----------------------
(* Two storage-server processes, three registry slots (so one process can *)
(* restart and register again), two names, one user.                      *)
EXTENDS NameServerRestart, TLC

CONSTANTS u1, f1, f2, n1, n2

MCUsers == {u1}
MCNames == {f1, f2}
MCNodes == {n1, n2}
MCSocks == {4}
MCNoSentence == {}
MCWritePerm == {ACCESS_WRITE}

NameSymmetry == Permutations(MCNames)
=============================================================================

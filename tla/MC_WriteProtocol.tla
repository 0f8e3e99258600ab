-------------------------- MODULE MC_WriteProtocol --------------------------
(* Two clients writing sentences of one two-sentence file. *)
EXTENDS WriteProtocol, TLC

CONSTANTS u1, u2, f1, c1, c2, w0

MCUsers == {u1, u2}
MCNames == {f1}
MCSocks == {4, 5}
MCSentences == {0, 1}
MCOneSentence == {0}
MCPerms == {ACCESS_READ, ACCESS_WRITE}
MCClients == {c1, c2}
\* c2 runs as the owner too: two sessions of one user are distinct holders
MCSameUser == [c \in MCClients |-> u1]
\* c2 runs as u2, who holds a write grant
MCTwoUsers == (c1 :> u1) @@ (c2 :> u2)
MCGrants == (u1 :> NoGrant) @@ (u2 :> ACCESS_WRITE)
MCInitText == <<[by |-> w0, attempt |-> 0, part |-> 1],
                [by |-> w0, attempt |-> 0, part |-> 2]>>
=============================================================================

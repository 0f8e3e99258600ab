------------------------- MODULE WriteProtocol_proofs -------------------------
(***************************************************************************)
(* Proofs about the sentence write of cmd_write: the edit phase is         *)
(* exclusive for every number of clients, sockets and sentences.           *)
(***************************************************************************)
EXTENDS WriteProtocol, NameServer_proofs

USE SockAssumption, BoundsAssumption, PermsAssumption, SentenceAssumption,
    NoFileAssumption, ClientAssumption
USE DEF ERR_SUCCESS, ERR_FILE_NOT_FOUND, ERR_FILE_EXISTS, ERR_PERMISSION_DENIED,
        ERR_LOCKED, ERR_SERVER_ERROR, ERR_NOT_OWNER, ERR_USER_NOT_FOUND,
        ERR_SS_NOT_FOUND, NoGrant, NoSS

(* A connected client's descriptor is open on the server: only Exit,     *)
(* which forgets the connection, closes it.                              *)
ConnsLive ==
    \A c \in Clients : conn[c] # NoSock => conn[c] \in sockets

(* accept() hands a descriptor to one connection at a time: two clients  *)
(* never hold the same open descriptor.                                  *)
ConnsDistinct ==
    \A c1, c2 \in Clients : c1 # c2 /\ conn[c1] # NoSock => conn[c1] # conn[c2]

(* The inductive invariant: the naming server's invariant, the clients'  *)
(* connections, and the lock each editing client holds.                  *)
WInv ==
    /\ PTypeOK
    /\ IInv
    /\ ConnsLive
    /\ ConnsDistinct
    /\ LockHeldWhileEditing
-----------------------------------------------------------------------------
(* The catalog a run starts from: File on storage server 1, its grants,  *)
(* no lock and no connection.                                            *)
LEMMA WInvInit == PInit => WInv
<1> SUFFICES ASSUME PInit PROVE WInv
  OBVIOUS
<1>1. [owner |-> Owner, primary |-> 1, replica |-> NoSS, folder |-> FALSE]
        \in [owner : Users, primary : 1..MaxSS, replica : 1..MaxSS \cup {0},
             folder : BOOLEAN]
  OBVIOUS
<1>2. files[File] # NoFile
  BY <1>1, NoFileAssumption DEF PInit, InitCatalog
<1>3. TypeOK
  BY <1>1 DEF PInit, InitCatalog, TypeOK, SSIds, FileRec
<1>4. GrantsReferenceFiles
  BY <1>2 DEF PInit, InitCatalog, GrantsReferenceFiles, Exists
<1>5. PTypeOK /\ LockExclusive /\ ConnsLive /\ ConnsDistinct /\ LockHeldWhileEditing
  BY <1>3 DEF PInit, InitCatalog, PTypeOK, LockExclusive, ConnsLive,
              ConnsDistinct, LockHeldWhileEditing, Held
<1>. QED  BY <1>3, <1>4, <1>5 DEF WInv, IInv

(* A client whose pc is past WRITE_LOCK has an open connection. *)
LEMMA HeldConnected ==
    ASSUME WInv, NEW c \in Clients, Held(c)
    PROVE  conn[c] \in sockets /\ conn[c] \in Socks
<1>1. PICK l \in locks : l.sock = conn[c]
  BY DEF WInv, LockHeldWhileEditing
<1>2. conn[c] \in Socks
  BY <1>1 DEF WInv, PTypeOK, TypeOK, LockRec
<1>. QED  BY <1>2, ClientAssumption DEF WInv, ConnsLive

(* Every client step is a step of the naming server (an accept, a close, *)
(* a WRITE_LOCK or an ETIRW on an open descriptor) or leaves it alone.   *)
LEMMA ServerStep == WInv /\ [PNext]_allvars => [Next]_vars
<1> SUFFICES ASSUME WInv, [PNext]_allvars PROVE [Next]_vars
  OBVIOUS
<1>1. ASSUME NEW c \in Clients, Connect(c) PROVE [Next]_vars
  BY <1>1 DEF Connect, Next
<1>2. ASSUME NEW c \in Clients, Exit(c) PROVE [Next]_vars
  BY <1>2 DEF Exit, CloseSession, Next
<1>3. ASSUME NEW c \in Clients, NEW n \in Sentences, RequestLock(c, n)
      PROVE  [Next]_vars
  <2>1. conn[c] \in sockets
    BY <1>3 DEF RequestLock, WInv, ConnsLive
  <2>2. UserOf[c] \in Users /\ File \in Names
    OBVIOUS
  <2>. QED  BY <1>3, <2>1, <2>2 DEF RequestLock, Next
<1>4. ASSUME NEW c \in Clients, ReadContent(c) \/ WriteContent(c)
      PROVE  [Next]_vars
  BY <1>4 DEF ReadContent, WriteContent
<1>5. ASSUME NEW c \in Clients, Commit(c) PROVE [Next]_vars
  <2>1. Held(c)
    BY <1>5 DEF Commit, Held
  <2>2. conn[c] \in sockets /\ target[c] \in Sentences /\ UserOf[c] \in Users
    BY <2>1, HeldConnected DEF WInv, PTypeOK
  <2>. QED  BY <1>5, <2>2 DEF Commit, Next
<1>6. CASE UNCHANGED allvars
  BY <1>6 DEF allvars
<1>. QED  BY <1>1, <1>2, <1>3, <1>4, <1>5, <1>6 DEF PNext
(* The clients' part of the invariant is kept by every step: a new        *)
(* connection gets a descriptor nobody holds, Exit and ETIRW touch only   *)
(* the client's own descriptor and lock, and WRITE_LOCK answers SUCCESS   *)
(* only with a lock on the sentence for the asking descriptor.            *)
LEMMA ClientStep ==
    ASSUME WInv, [PNext]_allvars, TypeOK'
    PROVE  PTypeOK' /\ ConnsLive' /\ ConnsDistinct' /\ LockHeldWhileEditing'
<1>1. ASSUME NEW c \in Clients, Connect(c)
      PROVE  PTypeOK' /\ ConnsLive' /\ ConnsDistinct' /\ LockHeldWhileEditing'
  <2>1. LowestFree \in Socks \ sockets
    BY <1>1, LowestFreeType DEF Connect, Accept, WInv, PTypeOK, TypeOK
  <2>2. ~Held(c)
    BY <1>1, HeldConnected DEF Connect
  <2>3. PTypeOK'
    BY <1>1, <2>1 DEF Connect, WInv, PTypeOK
  <2>4. ConnsLive' /\ ConnsDistinct'
    BY <1>1, <2>1 DEF Connect, Accept, WInv, PTypeOK, ConnsLive, ConnsDistinct
  <2>5. LockHeldWhileEditing'
    BY <1>1, <2>2 DEF Connect, Accept, WInv, PTypeOK, LockHeldWhileEditing, Held
  <2>. QED  BY <2>3, <2>4, <2>5
<1>2. ASSUME NEW c \in Clients, Exit(c)
      PROVE  PTypeOK' /\ ConnsLive' /\ ConnsDistinct' /\ LockHeldWhileEditing'
  <2>1. PTypeOK'
    BY <1>2 DEF Exit, WInv, PTypeOK
  <2>2. ConnsLive' /\ ConnsDistinct'
    BY <1>2 DEF Exit, CloseSession, WInv, PTypeOK, ConnsLive, ConnsDistinct
  <2>3. LockHeldWhileEditing'
    BY <1>2 DEF Exit, CloseSession, WInv, PTypeOK, LockHeldWhileEditing, Held
  <2>. QED  BY <2>1, <2>2, <2>3
<1>3. ASSUME NEW c \in Clients, NEW n \in Sentences, RequestLock(c, n)
      PROVE  PTypeOK' /\ ConnsLive' /\ ConnsDistinct' /\ LockHeldWhileEditing'
  <2> DEFINE s == conn[c]
             r == WriteLockReply(s, UserOf[c], File, n)
             rec == [file |-> File, sentence |-> n, user |-> UserOf[c], sock |-> s]
  <2>1. locks \subseteq locks'
    BY <1>3 DEF RequestLock, handle_write, vars
  <2>2. r = ERR_SUCCESS => \E l \in locks' : l.file = File /\ l.sentence = n /\ l.sock = s
    <3>1. CASE handle_write(s, UserOf[c], File, n)
      <4>1. rec \in locks'  BY <3>1 DEF handle_write
      <4>. QED  BY <4>1
    <3>2. CASE ~(r \in {ERR_SUCCESS, ERR_SS_NOT_FOUND} /\ ~HeldBySelf(s, File, n))
                 /\ UNCHANGED vars
      BY <3>2 DEF HeldBySelf, vars
    <3>. QED  BY <1>3, <3>1, <3>2 DEF RequestLock
  <2>3. ~Held(c)
    BY <1>3 DEF RequestLock, Held
  <2>4. PTypeOK'
    BY <1>3 DEF RequestLock, WInv, PTypeOK
  <2>5. ConnsLive' /\ ConnsDistinct'
    BY <1>3 DEF RequestLock, handle_write, vars, WInv, ConnsLive, ConnsDistinct
  <2>6. LockHeldWhileEditing'
    <3> SUFFICES ASSUME NEW d \in Clients, Held(d)'
                 PROVE  \E l \in locks' : /\ l.file = File /\ l.sentence = target'[d]
                                          /\ l.sock = conn'[d]
      BY DEF LockHeldWhileEditing
    <3>1. CASE d = c
      <4>1. r = ERR_SUCCESS
        BY <1>3, <3>1 DEF RequestLock, Held, LockGranted, WInv, PTypeOK
      <4>. QED  BY <1>3, <2>2, <3>1, <4>1 DEF RequestLock, WInv, PTypeOK
    <3>2. CASE d # c
      <4>1. Held(d) /\ target'[d] = target[d] /\ conn'[d] = conn[d]
        BY <1>3, <3>2 DEF RequestLock, Held, WInv, PTypeOK
      <4>. QED  BY <4>1, <2>1 DEF WInv, LockHeldWhileEditing
    <3>. QED  BY <3>1, <3>2
  <2>. QED  BY <2>4, <2>5, <2>6
<1>4. ASSUME NEW c \in Clients, ReadContent(c) \/ WriteContent(c)
      PROVE  PTypeOK' /\ ConnsLive' /\ ConnsDistinct' /\ LockHeldWhileEditing'
  <2>1. PTypeOK'
    BY <1>4 DEF ReadContent, WriteContent, WInv, PTypeOK
  <2>2. ConnsLive' /\ ConnsDistinct'
    BY <1>4 DEF ReadContent, WriteContent, vars, WInv, ConnsLive, ConnsDistinct
  <2>3. \A d \in Clients : Held(d)' => Held(d)
    BY <1>4 DEF ReadContent, WriteContent, Held, WInv, PTypeOK
  <2>4. LockHeldWhileEditing'
    BY <1>4, <2>3 DEF ReadContent, WriteContent, vars, WInv, LockHeldWhileEditing
  <2>. QED  BY <2>1, <2>2, <2>4
<1>5. ASSUME NEW c \in Clients, Commit(c)
      PROVE  PTypeOK' /\ ConnsLive' /\ ConnsDistinct' /\ LockHeldWhileEditing'
  <2> DEFINE rec == [file |-> File, sentence |-> target[c], user |-> UserOf[c],
                     sock |-> conn[c]]
  <2>1. locks' = locks \/ locks' = locks \ {rec}
    BY <1>5 DEF Commit, release_lock, vars
  <2>2. conn[c] # NoSock
    BY <1>5, HeldConnected DEF Commit, Held
  <2>3. PTypeOK'
    BY <1>5 DEF Commit, WInv, PTypeOK
  <2>4. ConnsLive' /\ ConnsDistinct'
    BY <1>5 DEF Commit, release_lock, vars, WInv, ConnsLive, ConnsDistinct
  <2>5. LockHeldWhileEditing'
    <3> SUFFICES ASSUME NEW d \in Clients, Held(d)'
                 PROVE  \E l \in locks' : /\ l.file = File /\ l.sentence = target'[d]
                                          /\ l.sock = conn'[d]
      BY DEF LockHeldWhileEditing
    <3>1. d # c /\ Held(d) /\ target'[d] = target[d] /\ conn'[d] = conn[d]
      BY <1>5 DEF Commit, Held, WInv, PTypeOK
    <3>2. conn[d] # conn[c]
      BY <3>1, <2>2 DEF WInv, ConnsDistinct
    <3>3. PICK l \in locks : l.file = File /\ l.sentence = target[d] /\ l.sock = conn[d]
      BY <3>1 DEF WInv, LockHeldWhileEditing
    <3>. QED  BY <3>1, <3>2, <3>3, <2>1
  <2>. QED  BY <2>3, <2>4, <2>5
<1>6. CASE UNCHANGED allvars
  BY <1>6 DEF allvars, vars, cvars, WInv, PTypeOK, ConnsLive, ConnsDistinct,
              LockHeldWhileEditing, Held
<1>. QED  BY <1>1, <1>2, <1>3, <1>4, <1>5, <1>6 DEF PNext
LEMMA WInvStep == WInv /\ [PNext]_allvars => WInv'
<1> SUFFICES ASSUME WInv, [PNext]_allvars PROVE WInv'
  OBVIOUS
<1>1. IInv'
  BY ServerStep, IInvStep DEF WInv
<1>2. PTypeOK' /\ ConnsLive' /\ ConnsDistinct' /\ LockHeldWhileEditing'
  BY <1>1, ClientStep DEF IInv
<1>. QED  BY <1>1, <1>2 DEF WInv

(* Two clients' locks on one sentence are one lock (LockExclusive), so    *)
(* they would share a descriptor, which accept() never hands out twice.   *)
LEMMA WInvExclusion == WInv => WriteExclusion
<1> SUFFICES ASSUME WInv, NEW c1 \in Clients, NEW c2 \in Clients, c1 # c2,
                    Held(c1), Held(c2), target[c1] = target[c2]
             PROVE  FALSE
  BY DEF WriteExclusion
<1>1. PICK l1 \in locks : l1.file = File /\ l1.sentence = target[c1] /\ l1.sock = conn[c1]
  BY DEF WInv, LockHeldWhileEditing
<1>2. PICK l2 \in locks : l2.file = File /\ l2.sentence = target[c2] /\ l2.sock = conn[c2]
  BY DEF WInv, LockHeldWhileEditing
<1>3. l1 = l2
  BY <1>1, <1>2 DEF WInv, IInv, LockExclusive
<1>4. conn[c1] # NoSock
  BY HeldConnected
<1>. QED  BY <1>1, <1>2, <1>3, <1>4 DEF WInv, ConnsDistinct

(* The inductive invariant holds in every state of every run. *)
THEOREM WriteInvariant == PSpec => []WInv
BY WInvInit, WInvStep, PTL DEF PSpec

(* The client state of cmd_write and the naming server's tables stay     *)
(* within their types for any number of clients, sockets and sentences.  *)
THEOREM PTypeCorrect == PSpec => []PTypeOK
BY WriteInvariant, PTL DEF WInv

(* Between a successful WRITE_LOCK and ETIRW the naming server holds a   *)
(* lock on the client's sentence for the client's descriptor, even after *)
(* other clients exit and their descriptors are reused.                  *)
THEOREM LockHeldWhileEditingHolds == PSpec => []LockHeldWhileEditing
BY WriteInvariant, PTL DEF WInv

(* No two clients are ever between WRITE_LOCK and ETIRW on one sentence  *)
(* at once: handle_write's lock scan and cmd_write's reply check make the *)
(* edit phase of cmd_write exclusive.                                    *)
THEOREM WriteExclusionHolds == PSpec => []WriteExclusion
BY WriteInvariant, WInvExclusion, PTL
=============================================================================

-------------------------- MODULE NameServer_proofs --------------------------
(* Proofs about the naming server model, for every value of the constants. *)
EXTENDS NameServer, FiniteSetTheorems, TLAPS

USE SockAssumption, BoundsAssumption, PermsAssumption, SentenceAssumption,
    NoFileAssumption, NamesAssumption

(* The reply codes are distinct numerals. *)
USE DEF ERR_SUCCESS, ERR_FILE_NOT_FOUND, ERR_FILE_EXISTS, ERR_PERMISSION_DENIED,
        ERR_LOCKED, ERR_SERVER_ERROR, ERR_NOT_OWNER, ERR_USER_NOT_FOUND,
        ERR_SS_NOT_FOUND, NoGrant, NoSS

(* accept() hands out a descriptor that is not in use. *)
LEMMA LowestFreeType ==
    ASSUME sockets \subseteq Socks, sockets # Socks
    PROVE  LowestFree \in Socks \ sockets
<1>1. \E s \in Socks \ sockets : TRUE
  OBVIOUS
<1>. QED  BY <1>1 DEF LowestFree

(* The placement scan picks a registered server. *)
LEMMA LeastLoadedType ==
    ASSUME ss_count \in 1..MaxSS
    PROVE  LeastLoaded \in 1..ss_count
BY DEF LeastLoaded

(* The replica scan picks a registered server other than the primary, or none. *)
LEMMA ReplicaForType ==
    ASSUME ss_count \in 1..MaxSS, NEW p \in 1..ss_count
    PROVE  ReplicaFor(p) \in (1..ss_count \ {p}) \cup {NoSS}
<1>1. CASE \E i \in 1..ss_count : i # p
  <2>1. \E i \in 1..ss_count : i # p /\ \A j \in 1..(i - 1) : j = p
    <3>1. CASE p = 1
      BY <1>1, <3>1
    <3>2. CASE p # 1
      BY <3>2
    <3>. QED  BY <3>1, <3>2
  <2>. QED  BY <1>1, <2>1 DEF ReplicaFor
<1>2. CASE ~\E i \in 1..ss_count : i # p
  BY <1>2 DEF ReplicaFor
<1>. QED  BY <1>1, <1>2

(* No handler takes a variable out of its type. *)
LEMMA TypeOKStep == TypeOK /\ [Next]_vars => TypeOK'
  <2> SUFFICES ASSUME TypeOK, [Next]_vars PROVE TypeOK'
    OBVIOUS
  <2>1. CASE Accept
    BY <2>1, LowestFreeType DEF Accept, TypeOK
  <2>2. CASE \E s \in sockets : CloseSession(s)
    BY <2>2 DEF CloseSession, TypeOK
  <2>3. CASE handle_register_ss
    BY <2>3 DEF handle_register_ss, TypeOK, SSIds
  <2>4. CASE \E u \in Users : handle_register_client(u)
    BY <2>4 DEF handle_register_client, TypeOK
  <2>5. ASSUME NEW u \in Users, NEW f \in Names, handle_create(u, f)
        PROVE  TypeOK'
    <3>1. ss_count \in 1..MaxSS
      BY <2>5 DEF handle_create, CreateReply, TypeOK
    <3>2. LeastLoaded \in 1..ss_count /\ ReplicaFor(LeastLoaded) \in SSIds \cup {NoSS}
      BY <3>1, LeastLoadedType, ReplicaForType DEF SSIds
    <3>. QED  BY <2>5, <3>1, <3>2 DEF handle_create, TypeOK, FileRec, SSIds
  <2>6. ASSUME NEW u \in Users, NEW f \in Names, handle_createfolder(u, f)
        PROVE  TypeOK'
    <3>1. ss_count \in 1..MaxSS
      BY <2>6 DEF handle_createfolder, CreateReply, TypeOK
    <3>2. LeastLoaded \in 1..ss_count
      BY <3>1, LeastLoadedType
    <3>. QED  BY <2>6, <3>1, <3>2 DEF handle_createfolder, TypeOK, FileRec, SSIds
  <2>7. ASSUME NEW u \in Users, NEW f \in Names, handle_delete(u, f)
        PROVE  TypeOK'
    <3>1. files[f] \in FileRec
      BY <2>7 DEF handle_delete, DeleteReply, Exists, TypeOK
    <3>. QED  BY <2>7, <3>1 DEF handle_delete, TypeOK, FileRec, SSIds
  <2>8. ASSUME NEW u \in Users, NEW f \in Names, NEW t \in Users, NEW p \in Perms,
               handle_addaccess(u, f, t, p)
        PROVE  TypeOK'
    BY <2>8 DEF handle_addaccess, TypeOK
  <2>9. ASSUME NEW u \in Users, NEW f \in Names, NEW t \in Users,
               handle_remaccess(u, f, t)
        PROVE  TypeOK'
    BY <2>9 DEF handle_remaccess, TypeOK
  <2>10. ASSUME NEW u \in Users, NEW f \in Names, NEW p \in Perms,
                handle_request_access(u, f, p)
         PROVE  TypeOK'
    BY <2>10 DEF handle_request_access, TypeOK, RequestRec
  <2>11. ASSUME NEW s \in sockets, NEW u \in Users, NEW f \in Names,
                NEW n \in Sentences, handle_write(s, u, f, n)
         PROVE  TypeOK'
    BY <2>11 DEF handle_write, TypeOK, LockRec
  <2>12. ASSUME NEW s \in sockets, NEW u \in Users, NEW f \in Names,
                NEW n \in Sentences, release_lock(s, u, f, n)
         PROVE  TypeOK'
    BY <2>12 DEF release_lock, TypeOK
  <2>13. CASE UNCHANGED vars
    BY <2>13 DEF vars, TypeOK
  <2>. QED
    BY <2>1, <2>2, <2>3, <2>4, <2>5, <2>6, <2>7, <2>8, <2>9, <2>10, <2>11,
       <2>12, <2>13 DEF Next

(* Every handler keeps the registry, the catalog, the access tables, the  *)
(* lock table and the connection set within their types.                 *)
THEOREM TypeCorrect == Spec => []TypeOK
<1>1. Init => TypeOK
  BY DEF Init, TypeOK, SSIds
<1>. QED  BY <1>1, TypeOKStep, PTL DEF Spec

(* The access-control and lock invariants together with the types: each  *)
(* is inductive once the types are known.                                *)
IInv == TypeOK /\ GrantsReferenceFiles /\ LockExclusive

(* handle_write adds a lock only on a sentence no session holds. *)
LEMMA WriteLockKeepsExclusive ==
    ASSUME TypeOK, LockExclusive, NEW s, NEW u, NEW f, NEW n,
           handle_write(s, u, f, n)
    PROVE  LockExclusive'
<1>1. ~\E l \in locks : l.file = f /\ l.sentence = n
  BY DEF handle_write, WriteLockReply, LockedByOther, HeldBySelf
<1>2. locks' = locks \cup {[file |-> f, sentence |-> n, user |-> u, sock |-> s]}
  BY DEF handle_write
<1>. QED  BY <1>1, <1>2 DEF LockExclusive

(* One handler step keeps IInv. *)
LEMMA IInvStep == IInv /\ [Next]_vars => IInv'
<1> SUFFICES ASSUME IInv, [Next]_vars PROVE IInv'
  OBVIOUS
<1>0. TypeOK'
  BY TypeOKStep DEF IInv
<1>1. CASE Accept
  BY <1>1, <1>0 DEF Accept, IInv, GrantsReferenceFiles, LockExclusive, Exists
<1>2. CASE \E s \in sockets : CloseSession(s)
  BY <1>2, <1>0 DEF CloseSession, IInv, GrantsReferenceFiles, LockExclusive, Exists
<1>3. CASE handle_register_ss
  BY <1>3, <1>0 DEF handle_register_ss, IInv, GrantsReferenceFiles, LockExclusive, Exists
<1>4. CASE \E u \in Users : handle_register_client(u)
  BY <1>4, <1>0 DEF handle_register_client, IInv, GrantsReferenceFiles,
                    LockExclusive, Exists
<1>5. ASSUME NEW u \in Users, NEW f \in Names, handle_create(u, f)
      PROVE  IInv'
  <2>1. ss_count \in 1..MaxSS
    BY <1>5 DEF handle_create, CreateReply, IInv, TypeOK
  <2>2. LeastLoaded \in 1..ss_count /\ ReplicaFor(LeastLoaded) \in SSIds \cup {NoSS}
    BY <2>1, LeastLoadedType, ReplicaForType DEF SSIds
  <2> DEFINE new == [owner |-> u, primary |-> LeastLoaded,
                     replica |-> ReplicaFor(LeastLoaded), folder |-> FALSE]
  <2>4. files'[f] = new
    BY <1>5 DEF handle_create, IInv, TypeOK
  <2>5. new \in [owner : Users, primary : 1..MaxSS,
                 replica : 1..MaxSS \cup {0}, folder : BOOLEAN]
    BY <2>1, <2>2 DEF SSIds
  <2>3. files'[f] # NoFile
    BY <2>4, <2>5, NoFileAssumption
  <2>. QED  BY <1>5, <1>0, <2>3 DEF handle_create, IInv, GrantsReferenceFiles,
                                    LockExclusive, Exists, TypeOK
<1>6. ASSUME NEW u \in Users, NEW f \in Names, handle_createfolder(u, f)
      PROVE  IInv'
  <2>1. ss_count \in 1..MaxSS
    BY <1>6 DEF handle_createfolder, CreateReply, IInv, TypeOK
  <2>2. LeastLoaded \in 1..ss_count
    BY <2>1, LeastLoadedType
  <2> DEFINE new == [owner |-> u, primary |-> LeastLoaded,
                     replica |-> NoSS, folder |-> TRUE]
  <2>4. files'[f] = new
    BY <1>6 DEF handle_createfolder, IInv, TypeOK
  <2>5. new \in [owner : Users, primary : 1..MaxSS,
                 replica : 1..MaxSS \cup {0}, folder : BOOLEAN]
    BY <2>1, <2>2
  <2>3. files'[f] # NoFile
    BY <2>4, <2>5, NoFileAssumption
  <2>. QED  BY <1>6, <1>0, <2>3 DEF handle_createfolder, IInv, GrantsReferenceFiles,
                                    LockExclusive, Exists, TypeOK
<1>7. ASSUME NEW u \in Users, NEW f \in Names, handle_delete(u, f)
      PROVE  IInv'
  BY <1>7, <1>0 DEF handle_delete, IInv, GrantsReferenceFiles, LockExclusive,
                    Exists, TypeOK
<1>8. ASSUME NEW u \in Users, NEW f \in Names, NEW t \in Users, NEW p \in Perms,
             handle_addaccess(u, f, t, p)
      PROVE  IInv'
  BY <1>8, <1>0 DEF handle_addaccess, AddAccessReply, IInv, GrantsReferenceFiles,
                    LockExclusive, Exists, TypeOK
<1>9. ASSUME NEW u \in Users, NEW f \in Names, NEW t \in Users,
             handle_remaccess(u, f, t)
      PROVE  IInv'
  BY <1>9, <1>0 DEF handle_remaccess, IInv, GrantsReferenceFiles, LockExclusive,
                    Exists, TypeOK
<1>10. ASSUME NEW u \in Users, NEW f \in Names, NEW p \in Perms,
              handle_request_access(u, f, p)
       PROVE  IInv'
  BY <1>10, <1>0 DEF handle_request_access, IInv, GrantsReferenceFiles,
                     LockExclusive, Exists
<1>11. ASSUME NEW s \in sockets, NEW u \in Users, NEW f \in Names,
              NEW n \in Sentences, handle_write(s, u, f, n)
       PROVE  IInv'
  <2>1. LockExclusive'
    BY <1>11, WriteLockKeepsExclusive DEF IInv
  <2>. QED  BY <1>11, <1>0, <2>1 DEF handle_write, IInv, GrantsReferenceFiles, Exists
<1>12. ASSUME NEW s \in sockets, NEW u \in Users, NEW f \in Names,
              NEW n \in Sentences, release_lock(s, u, f, n)
       PROVE  IInv'
  BY <1>12, <1>0 DEF release_lock, IInv, GrantsReferenceFiles, LockExclusive, Exists
<1>13. CASE UNCHANGED vars
  BY <1>13, <1>0 DEF vars, IInv, GrantsReferenceFiles, LockExclusive, Exists
<1>. QED
  BY <1>1, <1>2, <1>3, <1>4, <1>5, <1>6, <1>7, <1>8, <1>9, <1>10, <1>11,
     <1>12, <1>13 DEF Next

(* Deletes, grants and lock requests keep access rows on existing files  *)
(* and locks exclusive.                                                  *)
THEOREM GrantsAndLocksInvariant == Spec => []IInv
<1>1. Init => IInv
  BY DEF Init, IInv, TypeOK, SSIds, GrantsReferenceFiles, LockExclusive
<1>2. IInv /\ [Next]_vars => IInv'
  BY IInvStep
<1>. QED  BY <1>1, <1>2, PTL DEF Spec

(* Access rows only name catalogued files: handle_delete clears them with *)
(* the files row and handle_addaccess refuses a missing file.             *)
THEOREM GrantsReferenceFilesHolds == Spec => []GrantsReferenceFiles
BY GrantsAndLocksInvariant, PTL DEF IInv

(* handle_write never gives two sessions a lock on the same sentence. *)
THEOREM LockExclusiveHolds == Spec => []LockExclusive
BY GrantsAndLocksInvariant, PTL DEF IInv

-----------------------------------------------------------------------------
(* file_count against the catalog (FileCountMatchesCatalog).               *)

(* The catalogued files and folders whose primary is server i. *)
OnSS(i) == {f \in Names : Exists(f) /\ files[f].primary = i}

CInv == TypeOK /\ FileCountMatchesCatalog

LEMMA OnSSFinite == ASSUME NEW i PROVE IsFiniteSet(OnSS(i))
BY FS_Subset DEF OnSS

(* Handlers other than registration, create and delete leave the registry *)
(* and the files table alone.                                             *)
LEMMA CatalogUntouched ==
    ASSUME CInv, TypeOK', UNCHANGED <<ss_count, file_count, files>>
    PROVE  CInv'
BY DEF CInv, FileCountMatchesCatalog, Exists

(* handle_register_ss: the new server starts with no file, and no file    *)
(* names its id, since every file is on a server registered before.       *)
LEMMA RegisterKeepsCount ==
    ASSUME CInv, TypeOK', handle_register_ss
    PROVE  CInv'
<1>0. PICK k \in Nat : k = ss_count + 1
  BY DEF CInv, TypeOK
<1> USE <1>0
<1>1. k \in SSIds /\ ss_count' = k
  BY DEF handle_register_ss, CInv, TypeOK, SSIds
<1>2. OnSS(k) = {}
  BY DEF OnSS, CInv, TypeOK, FileCountMatchesCatalog
<1>3. OnSS(k)' = {}
  BY <1>2 DEF handle_register_ss, OnSS, Exists
<1>4. file_count'[k] = Cardinality(OnSS(k)')
  BY <1>1, <1>3, FS_EmptySet DEF handle_register_ss, CInv, TypeOK
<1>5. ASSUME NEW i \in 1..ss_count
      PROVE  file_count'[i] = Cardinality(OnSS(i)')
  <2>1. file_count'[i] = file_count[i] /\ OnSS(i)' = OnSS(i)
    BY <1>1 DEF handle_register_ss, CInv, TypeOK, SSIds, OnSS, Exists
  <2>. QED  BY <2>1 DEF CInv, FileCountMatchesCatalog, OnSS
<1>6. \A f \in Names : Exists(f)' => files'[f].primary \in 1..ss_count'
  BY <1>1 DEF handle_register_ss, CInv, TypeOK, FileCountMatchesCatalog, Exists
<1>7. \A i \in 1..ss_count' : file_count'[i] = Cardinality(OnSS(i)')
  <2> SUFFICES ASSUME NEW i \in 1..ss_count' PROVE file_count'[i] = Cardinality(OnSS(i)')
    OBVIOUS
  <2>1. i \in 1..ss_count \/ i = k
    BY <1>1 DEF CInv, TypeOK
  <2>. QED  BY <2>1, <1>4, <1>5
<1>. QED  BY <1>6, <1>7 DEF CInv, FileCountMatchesCatalog, OnSS

(* handle_create and handle_createfolder: the new entry is on the least   *)
(* loaded server, whose count goes up by one.                             *)
LEMMA CreateKeepsCount ==
    ASSUME CInv, TypeOK', NEW u \in Users, NEW f \in Names, NEW fo \in BOOLEAN,
           NEW rp \in SSIds \cup {NoSS},
           CreateReply(f) = ERR_SUCCESS,
           files' = [files EXCEPT ![f] = [owner |-> u, primary |-> LeastLoaded,
                                           replica |-> rp, folder |-> fo]],
           file_count' = [file_count EXCEPT ![LeastLoaded] = @ + 1],
           ss_count' = ss_count
    PROVE  CInv'
<1>1. ss_count \in 1..MaxSS /\ ~Exists(f)
  BY DEF CreateReply, CInv, TypeOK
<1>2. PICK p \in 1..ss_count : p = LeastLoaded
  BY <1>1, LeastLoadedType
<1> USE <1>2
<1>3. /\ files'[f] = [owner |-> u, primary |-> p, replica |-> rp, folder |-> fo]
      /\ \A g \in Names \ {f} : files'[g] = files[g]
  BY DEF CInv, TypeOK
<1>4. [owner |-> u, primary |-> p, replica |-> rp, folder |-> fo]
        \in [owner : Users, primary : 1..MaxSS, replica : 1..MaxSS \cup {0},
             folder : BOOLEAN]
  BY <1>1 DEF SSIds
<1>5. files'[f].primary = p /\ Exists(f)'
  BY <1>3, <1>4, NoFileAssumption DEF Exists
<1>10. OnSS(p)' = OnSS(p) \cup {f} /\ f \notin OnSS(p)
  BY <1>1, <1>3, <1>5 DEF OnSS, Exists
<1>11. \A i \in 1..ss_count \ {p} : OnSS(i)' = OnSS(i)
  BY <1>1, <1>3, <1>5 DEF OnSS, Exists
<1>6. Cardinality(OnSS(p)') = Cardinality(OnSS(p)) + 1
  <2>1. IsFiniteSet(OnSS(p))  BY OnSSFinite
  <2>2. Cardinality(OnSS(p) \cup {f}) = Cardinality(OnSS(p)) + 1
    BY <1>10, <2>1, FS_AddElement
  <2>. QED  BY <1>10, <2>2
<1>7. file_count'[p] = file_count[p] + 1
      /\ \A i \in 1..ss_count \ {p} : file_count'[i] = file_count[i]
  BY <1>1 DEF CInv, TypeOK, SSIds
<1>8. \A i \in 1..ss_count : file_count'[i] = Cardinality(OnSS(i)')
  <2> SUFFICES ASSUME NEW i \in 1..ss_count PROVE file_count'[i] = Cardinality(OnSS(i)')
    OBVIOUS
  <2>0. file_count[i] = Cardinality(OnSS(i))
    BY DEF CInv, FileCountMatchesCatalog, OnSS
  <2>1. CASE i = p  BY <2>0, <2>1, <1>6, <1>7
  <2>2. CASE i # p  BY <2>0, <2>2, <1>11, <1>7
  <2>. QED  BY <2>1, <2>2
<1>9. \A g \in Names : Exists(g)' => files'[g].primary \in 1..ss_count'
  BY <1>3, <1>5 DEF CInv, FileCountMatchesCatalog, Exists
<1>. QED  BY <1>8, <1>9 DEF CInv, FileCountMatchesCatalog, OnSS

(* handle_delete: the entry leaves the catalog and its primary's count    *)
(* goes down by one; the primary is registered, so the decrement happens. *)
LEMMA DeleteKeepsCount ==
    ASSUME CInv, TypeOK', NEW u, NEW f \in Names, handle_delete(u, f)
    PROVE  CInv'
<1>0. PICK p \in 1..ss_count : p = files[f].primary
  BY DEF handle_delete, DeleteReply, CInv, FileCountMatchesCatalog
<1> USE <1>0
<1>1. Exists(f)
  BY DEF handle_delete, DeleteReply
<1>2. ~Exists(f)' /\ \A g \in Names \ {f} : files'[g] = files[g]
  BY DEF handle_delete, CInv, TypeOK, Exists
<1>3. OnSS(p)' = OnSS(p) \ {f} /\ f \in OnSS(p)
  BY <1>1, <1>2 DEF OnSS, Exists
<1>4. \A i \in 1..ss_count \ {p} : OnSS(i)' = OnSS(i)
  BY <1>2 DEF OnSS, Exists
<1>5. Cardinality(OnSS(p)') = Cardinality(OnSS(p)) - 1
  <2>1. IsFiniteSet(OnSS(p))  BY OnSSFinite
  <2>2. Cardinality(OnSS(p) \ {f}) = Cardinality(OnSS(p)) - 1
    BY <1>3, <2>1, FS_RemoveElement
  <2>. QED  BY <1>3, <2>2
<1>6. file_count'[p] = file_count[p] - 1
      /\ \A i \in 1..ss_count \ {p} : file_count'[i] = file_count[i]
  BY <1>1 DEF handle_delete, CInv, TypeOK, SSIds
<1>7. ss_count' = ss_count
  BY DEF handle_delete
<1>8. \A i \in 1..ss_count : file_count'[i] = Cardinality(OnSS(i)')
  <2> SUFFICES ASSUME NEW i \in 1..ss_count PROVE file_count'[i] = Cardinality(OnSS(i)')
    OBVIOUS
  <2>0. file_count[i] = Cardinality(OnSS(i))
    BY DEF CInv, FileCountMatchesCatalog, OnSS
  <2>1. CASE i = p  BY <2>0, <2>1, <1>5, <1>6
  <2>2. CASE i # p  BY <2>0, <2>2, <1>4, <1>6
  <2>. QED  BY <2>1, <2>2
<1>9. \A g \in Names : Exists(g)' => files'[g].primary \in 1..ss_count'
  BY <1>2, <1>7 DEF CInv, FileCountMatchesCatalog, Exists
<1>. QED  BY <1>7, <1>8, <1>9 DEF CInv, FileCountMatchesCatalog, OnSS
LEMMA CInvStep == CInv /\ [Next]_vars => CInv'
<1> SUFFICES ASSUME CInv, [Next]_vars PROVE CInv'
  OBVIOUS
<1>0. TypeOK'
  BY TypeOKStep DEF CInv
<1>1. CASE Accept \/ \E s \in sockets : CloseSession(s)
  BY <1>0, <1>1, CatalogUntouched DEF Accept, CloseSession
<1>2. CASE handle_register_ss
  BY <1>0, <1>2, RegisterKeepsCount
<1>3. CASE \E u \in Users : handle_register_client(u)
  BY <1>0, <1>3, CatalogUntouched DEF handle_register_client
<1>4. ASSUME NEW u \in Users, NEW f \in Names, handle_create(u, f) PROVE CInv'
  <2>1. ss_count \in 1..MaxSS
    BY <1>4 DEF handle_create, CreateReply, CInv, TypeOK
  <2>2. ReplicaFor(LeastLoaded) \in SSIds \cup {NoSS}
    BY <2>1, LeastLoadedType, ReplicaForType DEF SSIds
  <2>. QED  BY <1>0, <1>4, <2>2, CreateKeepsCount DEF handle_create
<1>5. ASSUME NEW u \in Users, NEW f \in Names, handle_createfolder(u, f) PROVE CInv'
  BY <1>0, <1>5, CreateKeepsCount DEF handle_createfolder
<1>6. ASSUME NEW u \in Users, NEW f \in Names, handle_delete(u, f) PROVE CInv'
  BY <1>0, <1>6, DeleteKeepsCount
<1>7. CASE \E u \in Users, f \in Names :
             \/ \E t \in Users, p \in Perms : handle_addaccess(u, f, t, p)
             \/ \E t \in Users : handle_remaccess(u, f, t)
             \/ \E p \in Perms : handle_request_access(u, f, p)
  BY <1>0, <1>7, CatalogUntouched DEF handle_addaccess, handle_remaccess,
                                      handle_request_access
<1>8. CASE \E s \in sockets, u \in Users, f \in Names, n \in Sentences :
             handle_write(s, u, f, n) \/ release_lock(s, u, f, n)
  BY <1>0, <1>8, CatalogUntouched DEF handle_write, release_lock
<1>9. CASE UNCHANGED vars
  BY <1>0, <1>9, CatalogUntouched DEF vars
<1>. QED  BY <1>1, <1>2, <1>3, <1>4, <1>5, <1>6, <1>7, <1>8, <1>9 DEF Next

(* Registration, create, createfolder and delete keep every registered   *)
(* server's in-memory file_count equal to the number of catalog entries  *)
(* placed on it, and every entry on a registered server, for any number  *)
(* of names and servers.                                                  *)
THEOREM FileCountMatchesCatalogHolds == Spec => []FileCountMatchesCatalog
<1>1. Init => CInv
  <2> SUFFICES ASSUME Init PROVE CInv
    OBVIOUS
  <2>1. \A i \in 1..ss_count : OnSS(i) = {}
    BY DEF Init, OnSS, Exists
  <2>. QED  BY <2>1, FS_EmptySet DEF Init, CInv, TypeOK, SSIds,
                                     FileCountMatchesCatalog, OnSS, Exists
<1>. QED  BY <1>1, CInvStep, PTL DEF Spec, CInv
=============================================================================

---------------------- MODULE SieveBytecodeCacheProofs ----------------------
(***************************************************************************)
(* Proofs about sieve_script_load and sieve_script_unload for every set of *)
(* names and inodes and every bound on the handle's list: no descriptor is *)
(* left open that the handle does not own, and a failed first load frees   *)
(* the handle it allocated.                                                *)
(***************************************************************************)
EXTENDS SieveBytecodeCache, SequenceTheorems, TLAPS

(***************************************************************************)
(* The inductive invariant.  FdsOwned alone is not inductive: LoadMapped   *)
(* needs a free descriptor, which exists only because the list is shorter *)
(* than MaxBlobs while a load is between stat() and open(), and it needs  *)
(* the descriptor open() returns to be one the list does not hold yet.    *)
(* Since open() returns the lowest free descriptor and unload closes them *)
(* all, the list holds 1 .. Len(bcList), newest (highest) first.           *)
(***************************************************************************)
FdLayout ==
    /\ bcList \in Seq(Blob) /\ Len(bcList) <= MaxBlobs
    /\ \A i \in 1 .. Len(bcList) : bcList[i].fd = Len(bcList) + 1 - i
    /\ openFds = 1 .. Len(bcList)
    /\ pc = "open" => Len(bcList) < MaxBlobs

\* an ex this call allocated is still pending only between stat() and open()
ExOwnership ==
    /\ pc = "idle" => ~pendingEx
    /\ pc = "open" => pendingEx = dofree

CInv == TypeOK /\ FdLayout /\ ExOwnership
(***************************************************************************)
(* Lemmas about the operators.                                             *)
(***************************************************************************)
\* with descriptors 1 .. n open, open() returns n + 1
LEMMA LowestFreeFdIs ==
    ASSUME NEW n \in 0 .. MaxBlobs - 1, openFds = 1 .. n, CacheAssumption
    PROVE  LowestFreeFd = n + 1
<1>1. /\ n + 1 \in Fds \ openFds
      /\ \A g \in Fds \ openFds : n + 1 <= g
  BY DEF Fds
<1>2. /\ LowestFreeFd \in Fds \ openFds
      /\ \A g \in Fds \ openFds : LowestFreeFd <= g
  BY <1>1 DEF LowestFreeFd
<1>3. QED
  BY <1>1, <1>2 DEF Fds

\* prepending a record to the list, as LoadMapped does
LEMMA PrependProperties ==
    ASSUME NEW S, NEW s \in Seq(S), NEW r \in S
    PROVE  /\ <<r>> \o s \in Seq(S)
           /\ Len(<<r>> \o s) = Len(s) + 1
           /\ (<<r>> \o s)[1] = r
           /\ \A i \in 2 .. Len(s) + 1 : (<<r>> \o s)[i] = s[i - 1]
<1>1. <<r>> \in Seq(S) /\ Len(<<r>>) = 1
  OBVIOUS
<1>2. QED
  BY <1>1, ConcatProperties

\* a sequence within the bound has the shape TypeOK gives bcList
LEMMA BoundedSeq ==
    ASSUME NEW S, NEW m \in Nat, NEW s \in Seq(S), Len(s) <= m
    PROVE  s \in UNION {[1 .. k -> S] : k \in 0 .. m}
<1>1. s \in [1 .. Len(s) -> S] /\ Len(s) \in 0 .. m
  BY LenProperties
<1>2. QED
  BY <1>1

(***************************************************************************)
(* Each step keeps CInv.                                                   *)
(***************************************************************************)
LEMMA InitCInv == Init => CInv
<1> SUFFICES ASSUME Init PROVE CInv
  OBVIOUS
<1>1. <<>> \in Seq(Blob) /\ Len(<<>>) = 0
  BY EmptySeq
<1>2. TypeOK
  <2>1. bcList \in UNION {[1 .. k -> Blob] : k \in 0 .. MaxBlobs}
    <3>1. MaxBlobs \in Nat /\ 0 <= MaxBlobs
      BY CacheAssumption
    <3>2. <<>> \in UNION {[1 .. k -> Blob] : k \in 0 .. MaxBlobs}
      BY <1>1, <3>1, BoundedSeq
    <3>3. QED
      BY <3>2 DEF Init
  <2>2. cur \in Fds \cup {0} /\ openFds \in SUBSET Fds
    BY DEF Init
  <2>3. QED
    BY <2>1, <2>2, Zenon DEF Init, TypeOK
<1>3. FdLayout
  BY <1>1, CacheAssumption DEF Init, FdLayout
<1>4. QED
  BY <1>2, <1>3 DEF Init, CInv, ExOwnership

\* the steps that leave the list and the descriptors alone
LEMMA KeepsLayout ==
    ASSUME CInv, UNCHANGED <<bcList, openFds>>, pc' = "open" => pc = "open"
    PROVE  FdLayout'
BY DEF CInv, FdLayout

LEMMA LoadStatFailedCInv ==
    ASSUME CInv, NEW p \in Paths, LoadStatFailed(p) PROVE CInv'
BY KeepsLayout DEF LoadStatFailed, CInv, TypeOK, ExOwnership

LEMMA LoadReloadedCInv ==
    ASSUME CInv, NEW p \in Paths, LoadReloaded(p) PROVE CInv'
<1>1. cur' \in Fds \cup {0}
  <2>1. PICK i \in DOMAIN bcList : cur' = bcList[i].fd
    BY DEF LoadReloaded
  <2>2. bcList[i] \in Blob
    BY ElementOfSeq DEF CInv, FdLayout
  <2>3. QED
    BY <2>1, <2>2 DEF Blob
<1>2. QED
  BY <1>1, KeepsLayout DEF LoadReloaded, CInv, TypeOK, ExOwnership

\* the new ex, when allocated, is owned by the call until open() decides
LEMMA LoadStatNewCInv ==
    ASSUME CInv, NEW p \in Paths, LoadStatNew(p) PROVE CInv'
<1>1. TypeOK' /\ ExOwnership'
  BY DEF LoadStatNew, CInv, TypeOK, ExOwnership
<1>2. FdLayout'
  BY DEF LoadStatNew, CInv, FdLayout
<1>3. QED
  BY <1>1, <1>2 DEF CInv

\* a failed open() frees the ex it was handed only if this call made it
LEMMA LoadOpenFailedCInv == CInv /\ LoadOpenFailed => CInv'
<1> SUFFICES ASSUME CInv, LoadOpenFailed PROVE CInv'
  OBVIOUS
<1>1. ~pendingEx'
  BY DEF LoadOpenFailed, CInv, ExOwnership
<1>2. QED
  BY <1>1, KeepsLayout DEF LoadOpenFailed, CInv, TypeOK, ExOwnership

\* a failed fstat() closes the descriptor it opened: openFds is unchanged
LEMMA LoadFstatFailedCInv == CInv /\ LoadFstatFailed => CInv'
<1> SUFFICES ASSUME CInv, LoadFstatFailed PROVE CInv'
  OBVIOUS
<1>1. ~pendingEx'
  BY DEF LoadFstatFailed, CInv, ExOwnership
<1>2. QED
  BY <1>1, KeepsLayout DEF LoadFstatFailed, CInv, TypeOK, ExOwnership
\* the list's descriptors are exactly 1 .. Len(bcList)
LEMMA LayoutFds == FdLayout => ListFds = 1 .. Len(bcList)
<1> SUFFICES ASSUME FdLayout PROVE ListFds = 1 .. Len(bcList)
  OBVIOUS
<1>1. DOMAIN bcList = 1 .. Len(bcList) /\ Len(bcList) \in Nat
  BY LenProperties DEF FdLayout
<1>2. ListFds \subseteq 1 .. Len(bcList)
  BY <1>1 DEF ListFds, FdLayout
<1>3. ASSUME NEW f \in 1 .. Len(bcList) PROVE f \in ListFds
  <2>1. Len(bcList) + 1 - f \in DOMAIN bcList
    BY <1>1
  <2>2. bcList[Len(bcList) + 1 - f].fd = f
    BY <1>1, <2>1 DEF FdLayout
  <2>3. QED
    BY <2>1, <2>2 DEF ListFds
<1>4. QED
  BY <1>2, <1>3

\* the mapped file takes descriptor Len(bcList) + 1 and goes to the head
LEMMA LoadMappedCInv == CInv /\ LoadMapped => CInv'
<1> SUFFICES ASSUME CInv, LoadMapped PROVE CInv'
  OBVIOUS
<1> DEFINE n == Len(bcList)
           r == [ino |-> fs[path], fd |-> n + 1]
<1>1. /\ pc = "open" /\ n \in 0 .. MaxBlobs - 1 /\ openFds = 1 .. n
      /\ bcList \in Seq(Blob) /\ MaxBlobs \in Nat
  BY LenProperties, CacheAssumption DEF LoadMapped, CInv, FdLayout
<1>2. LowestFreeFd = n + 1
  BY <1>1, LowestFreeFdIs, CacheAssumption
<1>3. /\ openFds' = 1 .. n + 1 /\ cur' = n + 1
      /\ bcList' = <<r>> \o bcList
  BY <1>1, <1>2 DEF LoadMapped
<1>4. r \in Blob
  BY <1>1 DEF LoadMapped, CInv, TypeOK, Blob, Fds
<1>5. /\ bcList' \in Seq(Blob) /\ Len(bcList') = n + 1
      /\ bcList'[1] = r
      /\ \A i \in 2 .. n + 1 : bcList'[i] = bcList[i - 1]
  BY <1>3, <1>4, <1>1, PrependProperties
<1>6. FdLayout'
  <2>1. \A i \in 1 .. n + 1 : bcList'[i].fd = n + 2 - i
    <3>1. ASSUME NEW i \in 2 .. n + 1 PROVE bcList'[i].fd = n + 2 - i
      <4>1. i - 1 \in 1 .. n /\ bcList'[i] = bcList[i - 1]
        BY <1>1, <1>5
      <4>2. bcList[i - 1].fd = n + 1 - (i - 1)
        BY <4>1 DEF CInv, FdLayout
      <4>3. QED
        BY <4>1, <4>2, <1>1
    <3>2. QED
      BY <1>5, <3>1
  <2>2. QED
    BY <1>1, <1>3, <1>5, <2>1 DEF LoadMapped, FdLayout
<1>7. TypeOK'
  <2>1. bcList' \in UNION {[1 .. k -> Blob] : k \in 0 .. MaxBlobs}
    BY <1>1, <1>5, BoundedSeq
  <2>2. cur' \in Fds \cup {0} /\ openFds' \subseteq Fds
    BY <1>1, <1>3 DEF Fds
  <2>3. QED
    BY <2>1, <2>2 DEF LoadMapped, CInv, TypeOK
<1>8. ExOwnership'
  BY DEF LoadMapped, ExOwnership
<1>9. QED
  BY <1>6, <1>7, <1>8 DEF CInv

\* unload closes every descriptor of the list, which are all it opened
LEMMA UnloadCInv == CInv /\ Unload => CInv'
<1> SUFFICES ASSUME CInv, Unload PROVE CInv'
  OBVIOUS
<1>1. CASE handle
  <2>1. ListFds = openFds
    BY LayoutFds DEF CInv, FdLayout
  <2>2. /\ openFds' = {} /\ bcList' = <<>> /\ cur' = 0 /\ handle' = FALSE
        /\ UNCHANGED <<pc, pendingEx, dofree, fs, path>> /\ lastRet' = "OK"
    BY <1>1, <2>1 DEF Unload
  <2>3. <<>> \in Seq(Blob) /\ Len(<<>>) = 0
    BY EmptySeq
  <2>4. <<>> \in UNION {[1 .. k -> Blob] : k \in 0 .. MaxBlobs}
    <3>1. MaxBlobs \in Nat /\ Len(<<>>) <= MaxBlobs
      BY <2>3, CacheAssumption
    <3>2. QED
      BY <2>3, <3>1, BoundedSeq
  <2>5. TypeOK'
    BY <2>2, <2>4, Zenon DEF CInv, TypeOK, Fds
  <2>6. FdLayout'
    BY <2>2, <2>3, CacheAssumption DEF CInv, FdLayout
  <2>7. ExOwnership'
    BY <2>2 DEF CInv, ExOwnership
  <2>8. QED
    BY <2>5, <2>6, <2>7 DEF CInv
<1>2. CASE ~handle
  BY <1>2, KeepsLayout DEF Unload, CInv, TypeOK, ExOwnership
<1>3. QED
  BY <1>1, <1>2

\* the other process touches only the names
LEMMA FsCInv ==
    ASSUME CInv, NEW p \in Paths, NEW q \in Paths,
           FsRename(p, q) \/ FsInstall(p) \/ FsRemove(p)
    PROVE  CInv'
<1>1. fs' \in [Paths -> Inodes \cup {Missing}]
  BY DEF FsRename, FsInstall, FsRemove, CInv, TypeOK
<1>2. UNCHANGED <<handle, bcList, cur, openFds, pc, path, dofree, pendingEx,
                  lastRet>>
  BY DEF FsRename, FsInstall, FsRemove
<1>3. QED
  BY <1>1, <1>2, KeepsLayout DEF CInv, TypeOK, ExOwnership

LEMMA NextCInv == CInv /\ [Next]_vars => CInv'
<1> SUFFICES ASSUME CInv, [Next]_vars PROVE CInv'
  OBVIOUS
<1>1. ASSUME NEW p \in Paths,
             LoadStatFailed(p) \/ LoadReloaded(p) \/ LoadStatNew(p)
      PROVE  CInv'
  BY <1>1, LoadStatFailedCInv, LoadReloadedCInv, LoadStatNewCInv
<1>2. ASSUME NEW p \in Paths, NEW q \in Paths, FsRename(p, q) PROVE CInv'
  BY <1>2, FsCInv
<1>3. ASSUME NEW p \in Paths, FsInstall(p) \/ FsRemove(p) PROVE CInv'
  BY <1>3, FsCInv
<1>4. CASE UNCHANGED vars
  BY <1>4 DEF vars, CInv, TypeOK, FdLayout, ExOwnership
<1>5. QED
  BY <1>1, <1>2, <1>3, <1>4, LoadOpenFailedCInv, LoadFstatFailedCInv,
     LoadMappedCInv, UnloadCInv DEF Next

LEMMA AlwaysCInv == Spec => []CInv
BY InitCInv, NextCInv, PTL DEF Spec

(***************************************************************************)
(* The theorems.                                                           *)
(***************************************************************************)
\* Type correctness of the loader: the handle's list stays within
\* MaxBlobs records of an inode and a descriptor, and bc_cur names one.
THEOREM CacheTypeCorrect == Spec => []TypeOK
<1>1. CInv => TypeOK
  BY DEF CInv
<1>2. QED
  BY <1>1, AlwaysCInv, PTL

\* Whatever the names, inodes and bound, and whatever the other process
\* does to the names, every descriptor sieve_script_load opened belongs to
\* a mapped file of the handle: the fstat() failure path closes what it
\* opened, and sieve_script_unload closes them all.
THEOREM DescriptorsOwned == Spec => []FdsOwned
<1>1. CInv => FdsOwned
  BY LayoutFds DEF CInv, FdLayout, FdsOwned
<1>2. QED
  BY <1>1, AlwaysCInv, PTL

\* Between calls, no execute handle allocated by a failed first load is
\* left behind: lines 552 and 559 free it when dofree is set.
THEOREM NoLeakedHandle == Spec => []NoHandleLeak
<1>1. CInv => NoHandleLeak
  BY DEF CInv, ExOwnership, NoHandleLeak
<1>2. QED
  BY <1>1, AlwaysCInv, PTL
====

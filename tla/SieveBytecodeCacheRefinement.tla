-------------------- MODULE SieveBytecodeCacheRefinement --------------------
(***************************************************************************)
(* sieve_script_load and sieve_script_unload implement SieveScriptCache    *)
(* under the mapping of SieveBytecodeCache: the list read backwards is the *)
(* sequence of mappings, and a descriptor is the position of its file in   *)
(* it.  The proof rests on CInv (SieveBytecodeCacheProofs), whose layout   *)
(* of descriptors makes bc_cur a position; the cursor invariant of the     *)
(* promise then holds of the code.                                         *)
(***************************************************************************)
EXTENDS SieveBytecodeCacheProofs

AbsVars == ScriptCache!avars

\* the promise with its proofs, under the same mapping
ScriptCacheProofs == INSTANCE SieveScriptCacheProofs WITH mapped <- MappedInodes

(***************************************************************************)
(* Lemmas about the mapping.                                               *)
(***************************************************************************)
\* a list of records read backwards is a sequence of their inodes
LEMMA BackwardsInodes ==
    ASSUME NEW s \in Seq(Blob)
    PROVE  LET m == [k \in 1 .. Len(s) |-> s[Len(s) + 1 - k].ino]
           IN  /\ m \in Seq(Inodes) /\ Len(m) = Len(s)
               /\ \A k \in 1 .. Len(s) : m[k] = s[Len(s) + 1 - k].ino
<1> DEFINE m == [k \in 1 .. Len(s) |-> s[Len(s) + 1 - k].ino]
<1>1. Len(s) \in Nat /\ DOMAIN s = 1 .. Len(s)
  BY LenProperties
<1>2. \A k \in 1 .. Len(s) : Len(s) + 1 - k \in 1 .. Len(s)
  BY <1>1
<1>3. ASSUME NEW k \in 1 .. Len(s) PROVE m[k] \in Inodes
  <2>1. s[Len(s) + 1 - k] \in Blob
    BY <1>2, ElementOfSeq
  <2>2. QED
    BY <2>1 DEF Blob
<1>4. m \in [1 .. Len(s) -> Inodes]
  BY <1>3
<1>5. m \in Seq(Inodes) /\ Len(m) = Len(s)
  <2>1. m \in Seq(Inodes)
    BY <1>1, <1>4, SeqDef
  <2>2. QED
    BY <2>1, <1>1, LenProperties
<1>6. QED
  BY <1>5

\* the mapped inodes under CInv, in the current state
LEMMA MappedShape ==
    ASSUME CInv
    PROVE  /\ MappedInodes \in Seq(Inodes)
           /\ Len(MappedInodes) = Len(bcList)
           /\ \A k \in 1 .. Len(bcList) :
                 MappedInodes[k] = bcList[Len(bcList) + 1 - k].ino
<1>1. bcList \in Seq(Blob)
  BY DEF CInv, FdLayout
<1>2. QED
  BY <1>1, BackwardsInodes DEF MappedInodes

\* the inodes in use are the same seen from either side
LEMMA InUseMapped == CInv => InUse = ScriptCache!AInUse
<1> SUFFICES ASSUME CInv PROVE InUse = ScriptCache!AInUse
  OBVIOUS
<1> DEFINE n == Len(bcList)
<1>1. n \in Nat /\ DOMAIN bcList = 1 .. n /\ DOMAIN MappedInodes = 1 .. n
  BY MappedShape, LenProperties DEF CInv, FdLayout
<1>2. \A k \in 1 .. n : n + 1 - k \in 1 .. n
  BY <1>1
<1>3. {bcList[i].ino : i \in DOMAIN bcList}
        = {MappedInodes[k] : k \in DOMAIN MappedInodes}
  <2>1. ASSUME NEW i \in 1 .. n
        PROVE  bcList[i].ino = MappedInodes[n + 1 - i] /\ n + 1 - i \in 1 .. n
    BY <1>1, <1>2, MappedShape
  <2>2. ASSUME NEW k \in 1 .. n
        PROVE  MappedInodes[k] = bcList[n + 1 - k].ino
    BY MappedShape
  <2>3. QED
    BY <1>1, <1>2, <2>1, <2>2
<1>4. QED
  BY <1>3 DEF InUse, ScriptCache!AInUse

\* an empty list maps to no mappings
LEMMA NoMappings == bcList = <<>> => MappedInodes = <<>>
<1> SUFFICES ASSUME bcList = <<>> PROVE MappedInodes = <<>>
  OBVIOUS
<1>1. <<>> \in Seq(Blob) /\ <<>> \in Seq(Inodes) /\ Len(<<>>) = 0
  BY EmptySeq
<1>2. MappedInodes \in Seq(Inodes) /\ Len(MappedInodes) = 0
  BY <1>1, BackwardsInodes DEF MappedInodes
<1>3. QED
  BY <1>1, <1>2, SeqEqual

(***************************************************************************)
(* Each step of the code is a step of the promise or a stutter of it.     *)
(***************************************************************************)
LEMMA InitRefines == Init => ScriptCache!AInit
BY NoMappings DEF Init, ScriptCache!AInit

\* a failing step of a load leaves the list, the cursor and the handle
LEMMA FailRefines ==
    ASSUME UNCHANGED <<fs, handle, bcList, cur>>, lastRet' = "FAIL"
    PROVE  ScriptCache!AFail
BY DEF ScriptCache!AFail, MappedInodes

\* the lookup finds the newest mapping of the inode: the head of the list
\* is the end of the sequence, and bc_cur is its position
LEMMA LoadReloadedRefines ==
    ASSUME CInv, NEW p \in Paths, LoadReloaded(p)
    PROVE  ScriptCache!AReload(p)
<1> DEFINE n == Len(bcList)
<1>1. PICK i \in DOMAIN bcList :
          /\ bcList[i].ino = fs[p]
          /\ \A j \in 1 .. i - 1 : bcList[j].ino # fs[p]
          /\ cur' = bcList[i].fd
  BY DEF LoadReloaded
<1>2. /\ n \in Nat /\ DOMAIN bcList = 1 .. n /\ i \in 1 .. n
      /\ DOMAIN MappedInodes = 1 .. n /\ Len(MappedInodes) = n
  BY <1>1, MappedShape, LenProperties DEF CInv, FdLayout
<1> DEFINE k == n + 1 - i
<1>3. k \in DOMAIN MappedInodes /\ MappedInodes[k] = fs[p]
  BY <1>1, <1>2, MappedShape
<1>4. ASSUME NEW j \in k + 1 .. Len(MappedInodes) PROVE MappedInodes[j] # fs[p]
  <2>1. n + 1 - j \in 1 .. i - 1 /\ j \in 1 .. n
    BY <1>2
  <2>2. MappedInodes[j] = bcList[n + 1 - j].ino
    BY <2>1, MappedShape
  <2>3. QED
    BY <1>1, <2>1, <2>2
<1>5. cur' = k
  BY <1>1, <1>2 DEF CInv, FdLayout
<1>6. UNCHANGED <<fs, handle, MappedInodes>> /\ lastRet' = "RELOADED"
      /\ fs[p] # Missing
  BY DEF LoadReloaded, MappedInodes
<1>7. \E kk \in DOMAIN MappedInodes :
          /\ MappedInodes[kk] = fs[p]
          /\ \A j \in kk + 1 .. Len(MappedInodes) : MappedInodes[j] # fs[p]
          /\ cur' = kk
  BY <1>3, <1>4, <1>5
<1>8. QED
  BY <1>6, <1>7 DEF ScriptCache!AReload

\* between stat() and open() nothing the caller sees has changed yet
LEMMA LoadStatNewRefines ==
    ASSUME NEW p \in Paths, LoadStatNew(p) PROVE UNCHANGED AbsVars
BY DEF LoadStatNew, AbsVars, ScriptCache!avars, MappedInodes

\* the file the name denotes at open() is mapped: prepended to the list,
\* appended to the sequence, on descriptor Len(bcList) + 1
LEMMA LoadMappedRefines ==
    ASSUME CInv, LoadMapped PROVE ScriptCache!AMap(path)
<1> DEFINE n == Len(bcList)
           r == [ino |-> fs[path], fd |-> n + 1]
           app == Append(MappedInodes, fs[path])
<1>1. /\ n \in 0 .. MaxBlobs - 1 /\ openFds = 1 .. n /\ MaxBlobs \in Nat
      /\ bcList \in Seq(Blob) /\ path \in Paths /\ fs[path] \in Inodes
  BY LenProperties, CacheAssumption DEF LoadMapped, CInv, FdLayout, TypeOK
<1>2. LowestFreeFd = n + 1
  BY <1>1, LowestFreeFdIs, CacheAssumption
<1>3. bcList' = <<r>> \o bcList /\ cur' = n + 1
  BY <1>2 DEF LoadMapped
<1>4. /\ bcList' \in Seq(Blob) /\ Len(bcList') = n + 1 /\ bcList'[1] = r
      /\ \A i \in 2 .. n + 1 : bcList'[i] = bcList[i - 1]
  <2>1. r \in Blob
    BY <1>1 DEF Blob, Fds
  <2>2. QED
    BY <1>1, <1>3, <2>1, PrependProperties
<1>5. /\ MappedInodes' \in Seq(Inodes) /\ Len(MappedInodes') = n + 1
      /\ \A k \in 1 .. n + 1 : MappedInodes'[k] = bcList'[n + 2 - k].ino
  BY <1>4, BackwardsInodes DEF MappedInodes
<1>6. /\ MappedInodes \in Seq(Inodes) /\ Len(MappedInodes) = n
      /\ \A k \in 1 .. n : MappedInodes[k] = bcList[n + 1 - k].ino
  BY MappedShape
<1>7. /\ app \in Seq(Inodes) /\ Len(app) = n + 1
      /\ \A k \in 1 .. n : app[k] = MappedInodes[k]
      /\ app[n + 1] = fs[path]
  BY <1>1, <1>6, AppendProperties
<1>8. ASSUME NEW k \in 1 .. n + 1 PROVE MappedInodes'[k] = app[k]
  <2>0. n \in Nat /\ (k = n + 1 \/ k \in 1 .. n)
    BY <1>1
  <2>1. CASE k = n + 1
    BY <2>1, <1>4, <1>5, <1>7
  <2>2. CASE k \in 1 .. n
    <3>1. n + 2 - k \in 2 .. n + 1 /\ n + 2 - k - 1 = n + 1 - k
      BY <2>0, <2>2
    <3>2. MappedInodes'[k] = bcList'[n + 2 - k].ino
      BY <1>5
    <3>3. bcList'[n + 2 - k] = bcList[n + 1 - k]
      BY <3>1, <1>4
    <3>4. QED
      BY <2>2, <3>2, <3>3, <1>6, <1>7
  <2>3. QED
    BY <2>0, <2>1, <2>2
<1>9. MappedInodes' = app
  BY <1>5, <1>7, <1>8, SeqEqual
<1>10. QED
  BY <1>1, <1>3, <1>6, <1>9 DEF LoadMapped, ScriptCache!AMap

\* unload drops every mapping with the handle
LEMMA UnloadRefines == Unload => ScriptCache!AUnload
<1> SUFFICES ASSUME Unload PROVE ScriptCache!AUnload
  OBVIOUS
<1>1. CASE handle
  <2>1. bcList' = <<>> /\ cur' = 0 /\ handle' = FALSE /\ lastRet' = "OK"
        /\ fs' = fs
    BY <1>1 DEF Unload
  <2>2. MappedInodes' = <<>>
    BY <2>1, NoMappings DEF MappedInodes
  <2>3. QED
    BY <1>1, <2>1, <2>2 DEF ScriptCache!AUnload
<1>2. CASE ~handle
  BY <1>2 DEF Unload, ScriptCache!AUnload, MappedInodes
<1>3. QED
  BY <1>1, <1>2

\* the other process changes the names alike on both sides
LEMMA FsRefines ==
    ASSUME CInv, NEW p \in Paths, NEW q \in Paths,
           FsRename(p, q) \/ FsInstall(p) \/ FsRemove(p)
    PROVE  ScriptCache!AFsChange
<1>1. UNCHANGED <<handle, MappedInodes, cur, lastRet>>
  BY DEF FsRename, FsInstall, FsRemove, MappedInodes
<1>2. CASE FsInstall(p)
  BY <1>1, <1>2, InUseMapped DEF FsInstall, ScriptCache!AFsChange
<1>3. QED
  BY <1>1, <1>2 DEF FsRename, FsRemove, ScriptCache!AFsChange

LEMMA NextRefines == CInv /\ [Next]_vars => [ScriptCache!ANext]_AbsVars
<1> SUFFICES ASSUME CInv, [Next]_vars PROVE [ScriptCache!ANext]_AbsVars
  OBVIOUS
<1>1. ASSUME NEW p \in Paths, LoadStatFailed(p) PROVE ScriptCache!ANext
  BY <1>1, FailRefines DEF LoadStatFailed, ScriptCache!ANext
<1>2. ASSUME NEW p \in Paths, LoadReloaded(p) PROVE ScriptCache!ANext
  BY <1>2, LoadReloadedRefines DEF ScriptCache!ANext
<1>3. ASSUME NEW p \in Paths, LoadStatNew(p) PROVE UNCHANGED AbsVars
  BY <1>3, LoadStatNewRefines
<1>4. ASSUME LoadOpenFailed \/ LoadFstatFailed PROVE ScriptCache!ANext
  BY <1>4, FailRefines DEF LoadOpenFailed, LoadFstatFailed, ScriptCache!ANext
<1>5. ASSUME LoadMapped PROVE ScriptCache!ANext
  <2>1. path \in Paths
    BY DEF CInv, TypeOK
  <2>2. QED
    BY <1>5, <2>1, LoadMappedRefines DEF ScriptCache!ANext
<1>6. ASSUME Unload PROVE ScriptCache!ANext
  BY <1>6, UnloadRefines DEF ScriptCache!ANext
<1>7. ASSUME NEW p \in Paths, NEW q \in Paths,
             FsRename(p, q) \/ FsInstall(p) \/ FsRemove(p)
      PROVE  ScriptCache!ANext
  BY <1>7, FsRefines DEF ScriptCache!ANext
<1>8. CASE UNCHANGED vars
  BY <1>8 DEF vars, AbsVars, ScriptCache!avars, MappedInodes
<1>9. QED
  BY <1>1, <1>2, <1>3, <1>4, <1>5, <1>6, <1>7, <1>8 DEF Next

(***************************************************************************)
(* The theorems.                                                           *)
(***************************************************************************)
\* For any names, inodes and bound, and whatever the other process does to
\* the names, sieve_script_load and sieve_script_unload implement
\* SieveScriptCache: the stat() and open() halves of a load are one call
\* that maps what the name denotes at open() time, and a lookup that finds
\* the inode makes its newest mapping current.
THEOREM CacheRefinesScriptCache == Spec => ImplementsScriptCache
<1>1. Spec => Init /\ []CInv /\ [][Next]_vars
  BY AlwaysCInv, PTL DEF Spec
<1>2. []CInv /\ [][Next]_vars => [][ScriptCache!ANext]_AbsVars
  BY NextRefines, PTL
<1>3. Init /\ [][ScriptCache!ANext]_AbsVars => ScriptCache!ASpec
  BY InitRefines DEF ScriptCache!ASpec, AbsVars
<1>4. QED
  BY <1>1, <1>2, <1>3 DEF ImplementsScriptCache

\* Spec section 4.2, "the current cursor always points to a blob present in
\* the list": while the caller holds a handle, bc_cur is the descriptor of
\* one of its mapped files, and after unload nothing is left.  It holds of
\* the promise (ACursorAlwaysValid) and so of the code.
THEOREM CursorValid == Spec => []CursorInList
<1>1. Spec => []ScriptCache!ACursorValid
  <2>a. ScriptCache!ACursorValid <=> ScriptCacheProofs!ACursorValid
    BY DEF ScriptCache!ACursorValid, ScriptCacheProofs!ACursorValid
  <2>b. ScriptCache!AInit <=> ScriptCacheProofs!AInit
    BY DEF ScriptCache!AInit, ScriptCacheProofs!AInit
  <2>c. [ScriptCache!ANext]_AbsVars
          <=> [ScriptCacheProofs!ANext]_ScriptCacheProofs!avars
    BY DEF ScriptCache!ANext, ScriptCacheProofs!ANext, AbsVars,
           ScriptCache!avars, ScriptCacheProofs!avars,
           ScriptCache!AFail, ScriptCacheProofs!AFail,
           ScriptCache!AReload, ScriptCacheProofs!AReload,
           ScriptCache!AMap, ScriptCacheProofs!AMap,
           ScriptCache!AUnload, ScriptCacheProofs!AUnload,
           ScriptCache!AFsChange, ScriptCacheProofs!AFsChange,
           ScriptCache!AInUse, ScriptCacheProofs!AInUse
  <2>1. ScriptCache!ASpec => []ScriptCache!ACursorValid
    BY <2>a, <2>b, <2>c, ScriptCacheProofs!ACursorAlwaysValid, PTL
       DEF ScriptCache!ASpec, ScriptCacheProofs!ASpec, AbsVars
  <2>2. QED
    BY <2>1, CacheRefinesScriptCache DEF ImplementsScriptCache
<1>2. CInv /\ ScriptCache!ACursorValid => CursorInList
  <2> SUFFICES ASSUME CInv, ScriptCache!ACursorValid PROVE CursorInList
    OBVIOUS
  <2> DEFINE n == Len(bcList)
  <2>1. n \in Nat /\ DOMAIN bcList = 1 .. n /\ Len(MappedInodes) = n
    BY MappedShape, LenProperties DEF CInv, FdLayout
  <2>2. ASSUME handle PROVE \E i \in DOMAIN bcList : bcList[i].fd = cur
    <3>1. cur \in 1 .. n
      BY <2>1, <2>2 DEF ScriptCache!ACursorValid
    <3>2. n + 1 - cur \in DOMAIN bcList
      BY <2>1, <3>1
    <3>3. bcList[n + 1 - cur].fd = cur
      BY <2>1, <3>1, <3>2 DEF CInv, FdLayout
    <3>4. QED
      BY <3>2, <3>3
  <2>3. ASSUME ~handle PROVE bcList = <<>> /\ cur = 0
    <3>1. MappedInodes = <<>> /\ cur = 0
      BY <2>3 DEF ScriptCache!ACursorValid
    <3>2. n = 0
      BY <2>1, <3>1
    <3>3. bcList = <<>>
      BY <3>2, EmptySeq DEF CInv, FdLayout
    <3>4. QED
      BY <3>1, <3>3
  <2>4. QED
    BY <2>2, <2>3 DEF CursorInList
<1>3. QED
  BY <1>1, <1>2, AlwaysCInv, PTL
====

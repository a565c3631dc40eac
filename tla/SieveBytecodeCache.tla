------------------------ MODULE SieveBytecodeCache ------------------------
(***************************************************************************)
(* sieve_script_load and sieve_script_unload (src/sieve/script.c): the     *)
(* execute handle keeps a list of memory-mapped bytecode files, one per    *)
(* inode, newest first, and a cursor bc_cur on the one being executed.     *)
(*                                                                         *)
(* The caller loads and unloads one handle; concurrently another process   *)
(* (a script installer) renames, replaces and removes the files.  A load   *)
(* first stat()s the name and looks its inode up in the list, then, for a  *)
(* new inode, open()s the name again and fstat()s the descriptor: between *)
(* the two the name may come to denote another file.                      *)
(***************************************************************************)
EXTENDS Naturals, Sequences, FiniteSets

CONSTANTS
    Paths,      \* file names of compiled scripts
    Inodes,     \* inode numbers
    Missing,    \* the name does not exist
    MaxBlobs    \* bound on the length of the handle's list

ASSUME CacheAssumption ==
    /\ Missing \notin Inodes
    /\ MaxBlobs \in Nat \ {0}

\* descriptor numbers; one per mapped file is enough
Fds == 1 .. MaxBlobs

VARIABLES
    fs,         \* what each name denotes now
    handle,     \* *ret != NULL: the caller holds an execute handle
    bcList,     \* ex->bc_list, head first: records [ino, fd]
    cur,        \* the fd of ex->bc_cur, 0 when there is none
    openFds,    \* descriptors open in the process
    pc,         \* "idle", or "open" between stat() and open()
    path,       \* the name being loaded
    dofree,     \* the dofree local: ex was allocated by this call
    pendingEx,  \* an ex allocated by this call and not handed to the caller
    lastRet     \* what the last call returned

vars == <<fs, handle, bcList, cur, openFds, pc, path, dofree, pendingEx,
          lastRet>>

Blob == [ino : Inodes, fd : Fds]

TypeOK ==
    /\ fs \in [Paths -> Inodes \cup {Missing}]
    /\ handle \in BOOLEAN
    /\ bcList \in UNION {[1 .. k -> Blob] : k \in 0 .. MaxBlobs}
    /\ cur \in Fds \cup {0}
    /\ openFds \in SUBSET Fds
    /\ pc \in {"idle", "open"}
    /\ path \in Paths
    /\ dofree \in BOOLEAN
    /\ pendingEx \in BOOLEAN
    /\ lastRet \in {"OK", "RELOADED", "FAIL"}

ListFds == {bcList[i].fd : i \in DOMAIN bcList}

\* an inode stays allocated while a name or an open descriptor refers to it
InUse == {fs[p] : p \in Paths} \cup {bcList[i].ino : i \in DOMAIN bcList}

\* open() returns the lowest free descriptor
LowestFreeFd == CHOOSE f \in Fds \ openFds : \A g \in Fds \ openFds : f <= g

(***************************************************************************)
(* sieve_script_load(fname, &handle), lines 508-584.                       *)
(***************************************************************************)
\* stat() fails: SIEVE_FAIL before anything is allocated (lines 517-526)
LoadStatFailed(p) ==
    /\ pc = "idle"
    /\ fs[p] = Missing
    /\ lastRet' = "FAIL"
    /\ UNCHANGED <<fs, handle, bcList, cur, openFds, pc, path, dofree,
                   pendingEx>>

\* mutant: the lookup loop does not break at the first match
LoadReloadedNoBreak(p) ==
    /\ pc = "idle"
    /\ fs[p] # Missing
    /\ \E i \in DOMAIN bcList :
          /\ bcList[i].ino = fs[p]
          /\ \A j \in i + 1 .. Len(bcList) : bcList[j].ino # fs[p]
          /\ cur' = bcList[i].fd
    /\ lastRet' = "RELOADED"
    /\ UNCHANGED <<fs, handle, bcList, openFds, pc, path, dofree, pendingEx>>

\* the stat()ed inode is already in the list: it becomes current and the
\* call returns SIEVE_SCRIPT_RELOADED (lines 537-542, 578-583)
LoadReloaded(p) ==
    /\ pc = "idle"
    /\ fs[p] # Missing
    /\ \E i \in DOMAIN bcList :
          /\ bcList[i].ino = fs[p]
          /\ \A j \in 1 .. i - 1 : bcList[j].ino # fs[p]
          /\ cur' = bcList[i].fd
    /\ lastRet' = "RELOADED"
    /\ UNCHANGED <<fs, handle, bcList, openFds, pc, path, dofree, pendingEx>>

\* a new inode: allocate ex when the caller has none (lines 528-535) and go
\* on to open the name (line 548); the guard on MaxBlobs bounds the model
LoadStatNew(p) ==
    /\ pc = "idle"
    /\ fs[p] # Missing
    /\ \A i \in DOMAIN bcList : bcList[i].ino # fs[p]
    /\ Len(bcList) < MaxBlobs
    /\ pc' = "open"
    /\ path' = p
    /\ dofree' = ~handle
    /\ pendingEx' = ~handle
    /\ UNCHANGED <<fs, handle, bcList, cur, openFds, lastRet>>

\* mutant: the fresh ex is not freed when open() fails
LoadOpenFailedNoFree ==
    /\ pc = "open"
    /\ fs[path] = Missing
    /\ pc' = "idle"
    /\ lastRet' = "FAIL"
    /\ UNCHANGED <<fs, handle, bcList, cur, openFds, path, dofree, pendingEx>>

\* open() fails: free a fresh ex and return SIEVE_FAIL (lines 549-554)
LoadOpenFailed ==
    /\ pc = "open"
    /\ fs[path] = Missing
    /\ pendingEx' = (pendingEx /\ ~dofree)
    /\ pc' = "idle"
    /\ lastRet' = "FAIL"
    /\ UNCHANGED <<fs, handle, bcList, cur, openFds, path, dofree>>

\* mutant: the descriptor is not closed when fstat() fails
LoadFstatFailedNoClose ==
    /\ pc = "open"
    /\ fs[path] # Missing
    /\ openFds' = openFds \cup {LowestFreeFd}
    /\ pendingEx' = (pendingEx /\ ~dofree)
    /\ pc' = "idle"
    /\ lastRet' = "FAIL"
    /\ UNCHANGED <<fs, handle, bcList, cur, path, dofree>>

\* fstat() on the new descriptor fails: close it, free a fresh ex and
\* return SIEVE_FAIL (lines 555-561)
LoadFstatFailed ==
    /\ pc = "open"
    /\ fs[path] # Missing
    /\ pendingEx' = (pendingEx /\ ~dofree)
    /\ pc' = "idle"
    /\ lastRet' = "FAIL"
    /\ UNCHANGED <<fs, handle, bcList, cur, openFds, path, dofree>>

\* mutant: ex->bc_cur is not set to the new file
LoadMappedNoCursor ==
    /\ pc = "open"
    /\ fs[path] # Missing
    /\ LET fd == LowestFreeFd IN
          /\ openFds' = openFds \cup {fd}
          /\ bcList' = <<[ino |-> fs[path], fd |-> fd]>> \o bcList
    /\ handle' = TRUE
    /\ pendingEx' = FALSE
    /\ pc' = "idle"
    /\ lastRet' = "OK"
    /\ UNCHANGED <<fs, cur, path, dofree>>

\* map the file and prepend it to the list, recording the inode fstat()
\* reports for the opened file, which is what the name denotes at open()
\* time (lines 563-577)
LoadMapped ==
    /\ pc = "open"
    /\ fs[path] # Missing
    /\ LET fd == LowestFreeFd IN
          /\ openFds' = openFds \cup {fd}
          /\ bcList' = <<[ino |-> fs[path], fd |-> fd]>> \o bcList
          /\ cur' = fd
    /\ handle' = TRUE
    /\ pendingEx' = FALSE
    /\ pc' = "idle"
    /\ lastRet' = "OK"
    /\ UNCHANGED <<fs, path, dofree>>

(***************************************************************************)
(* sieve_script_unload(&handle), lines 588-609: unmap and close every      *)
(* file, free the handle; SIEVE_FAIL for a NULL handle.                    *)
(***************************************************************************)
Unload ==
    /\ pc = "idle"
    /\ IF handle
         THEN /\ openFds' = openFds \ ListFds
              /\ bcList' = <<>>
              /\ cur' = 0
              /\ handle' = FALSE
              /\ lastRet' = "OK"
         ELSE /\ lastRet' = "FAIL"
              /\ UNCHANGED <<openFds, bcList, cur, handle>>
    /\ UNCHANGED <<fs, pc, path, dofree, pendingEx>>

(***************************************************************************)
(* The other process: rename(2) one name over another, install a new file  *)
(* under a name, remove a name.                                            *)
(***************************************************************************)
FsRename(p, q) ==
    /\ p # q
    /\ fs[p] # Missing
    /\ fs' = [fs EXCEPT ![q] = fs[p], ![p] = Missing]
    /\ UNCHANGED <<handle, bcList, cur, openFds, pc, path, dofree, pendingEx,
                   lastRet>>

FsInstall(p) ==
    /\ \E n \in Inodes \ InUse : fs' = [fs EXCEPT ![p] = n]
    /\ UNCHANGED <<handle, bcList, cur, openFds, pc, path, dofree, pendingEx,
                   lastRet>>

FsRemove(p) ==
    /\ fs[p] # Missing
    /\ fs' = [fs EXCEPT ![p] = Missing]
    /\ UNCHANGED <<handle, bcList, cur, openFds, pc, path, dofree, pendingEx,
                   lastRet>>

Init ==
    /\ fs \in [Paths -> Inodes \cup {Missing}]
    /\ handle = FALSE
    /\ bcList = <<>>
    /\ cur = 0
    /\ openFds = {}
    /\ pc = "idle"
    /\ path \in Paths
    /\ dofree = FALSE
    /\ pendingEx = FALSE
    /\ lastRet = "OK"

Next ==
    \/ \E p \in Paths : LoadStatFailed(p) \/ LoadReloaded(p) \/ LoadStatNew(p)
    \/ LoadOpenFailed
    \/ LoadFstatFailed
    \/ LoadMapped
    \/ Unload
    \/ \E p, q \in Paths : FsRename(p, q)
    \/ \E p \in Paths : FsInstall(p) \/ FsRemove(p)

Spec == Init /\ [][Next]_vars

(***************************************************************************)
(* Properties.                                                             *)
(***************************************************************************)
\* Every descriptor the loader opened belongs to a mapped file of the
\* handle, so unload closes it: the fstat() failure path closes what it
\* opened (line 558) and a load never leaves a stray descriptor behind.
FdsOwned == openFds = ListFds

\* A failed first load frees the execute handle it allocated (lines 552,
\* 559): between calls no allocation is left that the caller does not hold.
NoHandleLeak == pc = "idle" => ~pendingEx

\* Spec section 4.2: "the current cursor always points to a blob present
\* in the list": while the caller holds a handle, bc_cur is one of its
\* mapped files (set at lines 575 and 580), and unload leaves nothing.
CursorInList ==
    /\ handle => \E i \in DOMAIN bcList : bcList[i].fd = cur
    /\ ~handle => bcList = <<>> /\ cur = 0

(***************************************************************************)
(* Refinement of SieveScriptCache, one step per call.  The list, newest    *)
(* first, is the abstract sequence of mappings read backwards; a           *)
(* descriptor is the position of its file in that sequence.               *)
(***************************************************************************)
MappedInodes == [k \in 1 .. Len(bcList) |-> bcList[Len(bcList) + 1 - k].ino]

ScriptCache == INSTANCE SieveScriptCache WITH mapped <- MappedInodes

\* sieve_script_load and sieve_script_unload implement SieveScriptCache:
\* the two halves of a load around open() are one call that maps what the
\* name denotes at open() time, and a lookup that finds the inode makes
\* its newest mapping current.
ImplementsScriptCache == ScriptCache!ASpec

\* Spec section 4.2: "while a handle is alive, inode uniqueness holds": at
\* most one mapped file per inode.
InodeUnique ==
    \A i, j \in DOMAIN bcList : i # j => bcList[i].ino # bcList[j].ino
=============================================================================

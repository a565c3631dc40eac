-------------------------- MODULE SieveScriptCache --------------------------
(***************************************************************************)
(* What sieve_script_load and sieve_script_unload promise their caller,    *)
(* one step per call.  A handle holds the files it mapped, in the order    *)
(* they were mapped, and a cursor on the current one; a load                *)
(*   - fails and leaves the handle as it was,                              *)
(*   - or makes the newest mapping of the inode the name denotes current   *)
(*     and returns RELOADED,                                               *)
(*   - or maps the file the name denotes at that moment, makes it current  *)
(*     and returns OK, creating the handle if there was none;              *)
(* unload drops every mapping and the handle, or fails without a handle.   *)
(* Another process renames, installs and removes names at any time.        *)
(*                                                                         *)
(* The promise leaves out inode uniqueness (spec section 4.2): the code    *)
(* does not keep it when a name is replaced between stat() and open()      *)
(* (run cache_inode_unique), so a load may map an inode already mapped.   *)
(***************************************************************************)
EXTENDS Naturals, Sequences

CONSTANTS Paths, Inodes, Missing, MaxBlobs

VARIABLES
    fs,         \* what each name denotes now
    handle,     \* the caller holds a handle
    mapped,     \* the inodes of the mapped files, oldest first
    cur,        \* the position in mapped of the current file, 0 for none
    lastRet     \* what the last call returned

avars == <<fs, handle, mapped, cur, lastRet>>

\* an inode stays allocated while a name or a mapping refers to it
AInUse == {fs[p] : p \in Paths} \cup {mapped[k] : k \in DOMAIN mapped}

AInit ==
    /\ fs \in [Paths -> Inodes \cup {Missing}]
    /\ handle = FALSE /\ mapped = <<>> /\ cur = 0 /\ lastRet = "OK"

\* sieve_script_load fails (lines 517-526, 549-561)
AFail ==
    /\ lastRet' = "FAIL"
    /\ UNCHANGED <<fs, handle, mapped, cur>>

\* the inode the name denotes is mapped: the newest mapping of it becomes
\* current (lines 537-542, 578-583)
AReload(p) ==
    /\ fs[p] # Missing
    /\ \E k \in DOMAIN mapped :
          /\ mapped[k] = fs[p]
          /\ \A j \in k + 1 .. Len(mapped) : mapped[j] # fs[p]
          /\ cur' = k
    /\ lastRet' = "RELOADED"
    /\ UNCHANGED <<fs, handle, mapped>>

\* the file the name denotes is mapped and becomes current (lines 548-577)
AMap(p) ==
    /\ fs[p] # Missing
    /\ Len(mapped) < MaxBlobs
    /\ mapped' = Append(mapped, fs[p])
    /\ cur' = Len(mapped) + 1
    /\ handle' = TRUE
    /\ lastRet' = "OK"
    /\ UNCHANGED fs

\* sieve_script_unload (lines 588-609)
AUnload ==
    /\ IF handle
         THEN /\ mapped' = <<>> /\ cur' = 0 /\ handle' = FALSE
              /\ lastRet' = "OK"
         ELSE /\ lastRet' = "FAIL"
              /\ UNCHANGED <<mapped, cur, handle>>
    /\ UNCHANGED fs

\* the other process: rename(2), install a new file, remove a name
AFsChange ==
    /\ \/ \E p, q \in Paths :
             /\ p # q /\ fs[p] # Missing
             /\ fs' = [fs EXCEPT ![q] = fs[p], ![p] = Missing]
       \/ \E p \in Paths, n \in Inodes \ AInUse : fs' = [fs EXCEPT ![p] = n]
       \/ \E p \in Paths :
             /\ fs[p] # Missing
             /\ fs' = [fs EXCEPT ![p] = Missing]
    /\ UNCHANGED <<handle, mapped, cur, lastRet>>

ANext ==
    \/ AFail
    \/ \E p \in Paths : AReload(p) \/ AMap(p)
    \/ AUnload
    \/ AFsChange

\* every call is one of the promised steps
ASpec == AInit /\ [][ANext]_avars

(***************************************************************************)
(* Spec section 4.2: "the current cursor always points to a blob present   *)
(* in the list" while a handle is alive, and a handle that is gone holds   *)
(* nothing.                                                                *)
(***************************************************************************)
ACursorValid ==
    /\ handle => cur \in 1 .. Len(mapped)
    /\ ~handle => mapped = <<>> /\ cur = 0
=============================================================================

----------------------- MODULE SieveScriptCacheProofs -----------------------
(***************************************************************************)
(* The promise of sieve_script_load and sieve_script_unload keeps the      *)
(* cursor on a mapped file: proved here on the one-step-per-call           *)
(* specification, and carried to the code by the refinement proved in     *)
(* SieveBytecodeCacheRefinement.                                          *)
(***************************************************************************)
EXTENDS SieveScriptCache, SequenceTheorems, TLAPS

ATypeOK ==
    /\ fs \in [Paths -> Inodes \cup {Missing}]
    /\ handle \in BOOLEAN
    /\ mapped \in Seq(Inodes)
    /\ cur \in Nat
    /\ lastRet \in {"OK", "RELOADED", "FAIL"}

\* ACursorValid is inductive once the types are known
AInv == ATypeOK /\ ACursorValid

LEMMA AInitInv == AInit => AInv
<1> SUFFICES ASSUME AInit PROVE AInv
  OBVIOUS
<1>1. <<>> \in Seq(Inodes) /\ Len(<<>>) = 0
  BY EmptySeq
<1>2. QED
  BY <1>1 DEF AInit, AInv, ATypeOK, ACursorValid

LEMMA AFailInv == AInv /\ AFail => AInv'
BY DEF AFail, AInv, ATypeOK, ACursorValid

\* a mapping of the inode exists only while the handle does
LEMMA AReloadInv ==
    ASSUME AInv, NEW p \in Paths, AReload(p) PROVE AInv'
<1>1. PICK k \in DOMAIN mapped : cur' = k
  BY DEF AReload
<1>2. DOMAIN mapped = 1 .. Len(mapped) /\ mapped # <<>>
  BY <1>1, LenProperties, EmptySeq DEF AInv, ATypeOK
<1>3. handle /\ cur' \in 1 .. Len(mapped) /\ cur' \in Nat
  BY <1>1, <1>2 DEF AInv, ACursorValid
<1>4. QED
  BY <1>3 DEF AReload, AInv, ATypeOK, ACursorValid

\* the new mapping is the last of the sequence and becomes current
LEMMA AMapInv ==
    ASSUME AInv, NEW p \in Paths, AMap(p) PROVE AInv'
<1>1. fs[p] \in Inodes /\ mapped \in Seq(Inodes)
  BY DEF AMap, AInv, ATypeOK
<1>2. mapped' \in Seq(Inodes) /\ Len(mapped') = Len(mapped) + 1
  BY <1>1, AppendProperties DEF AMap
<1>3. cur' \in 1 .. Len(mapped') /\ cur' \in Nat
  BY <1>1, <1>2, LenProperties DEF AMap
<1>4. QED
  BY <1>2, <1>3 DEF AMap, AInv, ATypeOK, ACursorValid

LEMMA AUnloadInv == AInv /\ AUnload => AInv'
<1> SUFFICES ASSUME AInv, AUnload PROVE AInv'
  OBVIOUS
<1>1. <<>> \in Seq(Inodes)
  BY EmptySeq
<1>2. CASE handle
  <2>1. mapped' = <<>> /\ cur' = 0 /\ handle' = FALSE /\ lastRet' = "OK"
        /\ fs' = fs
    BY <1>2 DEF AUnload
  <2>2. QED
    BY <1>1, <2>1, Zenon DEF AInv, ATypeOK, ACursorValid
<1>3. CASE ~handle
  BY <1>3 DEF AUnload, AInv, ATypeOK, ACursorValid
<1>4. QED
  BY <1>2, <1>3

LEMMA AFsChangeInv == AInv /\ AFsChange => AInv'
<1> SUFFICES ASSUME AInv, AFsChange PROVE AInv'
  OBVIOUS
<1>1. fs' \in [Paths -> Inodes \cup {Missing}]
  BY DEF AFsChange, AInv, ATypeOK
<1>2. QED
  BY <1>1 DEF AFsChange, AInv, ATypeOK, ACursorValid

LEMMA ANextInv == AInv /\ [ANext]_avars => AInv'
<1> SUFFICES ASSUME AInv, [ANext]_avars PROVE AInv'
  OBVIOUS
<1>1. ASSUME NEW p \in Paths, AReload(p) \/ AMap(p) PROVE AInv'
  BY <1>1, AReloadInv, AMapInv
<1>2. CASE UNCHANGED avars
  BY <1>2 DEF avars, AInv, ATypeOK, ACursorValid
<1>3. QED
  BY <1>1, <1>2, AFailInv, AUnloadInv, AFsChangeInv DEF ANext

(***************************************************************************)
(* Spec section 4.2: whatever the caller's loads and unloads and whatever  *)
(* the other process does to the names, while a handle is alive its        *)
(* cursor is on one of its mapped files, and without a handle nothing is   *)
(* mapped.                                                                 *)
(***************************************************************************)
THEOREM ACursorAlwaysValid == ASpec => []ACursorValid
<1>1. AInv => ACursorValid
  BY DEF AInv
<1>2. QED
  BY <1>1, AInitInv, ANextInv, PTL DEF ASpec
====

------------------------ MODULE SieveFrontEndProofs ------------------------
(***************************************************************************)
(* Proofs that the parse entry points of src/sieve/script.c neither leak   *)
(* nor double-free, for every number of calls.                             *)
(***************************************************************************)
EXTENDS SieveFrontEnd, TLAPS

\* allocations the call in progress may still make: interpreter, script and
\* error text before the build, script and error text once in the body
Rem == CASE pc = "build" -> 3 [] pc = "body" -> 2 [] OTHER -> 0

(***************************************************************************)
(* The inductive invariant.  OwnershipAtReturn alone is not inductive: a   *)
(* call frees its interpreter and myscript only if they are the objects    *)
(* it allocated, distinct from the caller's, and frees them in the same    *)
(* step as it may hand out an error string.  FEInv records the kind of     *)
(* every object each party holds, that the caller holds no error string    *)
(* while a call is before its body, and that the heap is exactly the       *)
(* caller's objects plus CallOwned at every step.                          *)
(***************************************************************************)
Owners ==
    /\ live \subseteq 1 .. fresh - 1
    /\ cScripts \subseteq live /\ \A o \in cScripts : kind[o] = "script"
    /\ cErrors \in Objs => cErrors \in 1 .. fresh - 1
    /\ cErrors \in live => kind[cErrors] = "errtext"
    /\ interpOwn # Null => /\ pc = "body" /\ interpOwn \in live
                           /\ kind[interpOwn] = "interp"
    /\ myscript # Null => /\ pc = "tail" /\ api = "parse_string"
                          /\ myscript \in live
                          /\ kind[myscript] = "script" /\ myscript \notin cScripts
    /\ pc \in {"build", "body"} => cErrors \notin live
    /\ live = cScripts \cup ({cErrors} \cap live) \cup CallOwned

FEInv ==
    /\ TypeOK
    /\ fresh + Rem <= 3 * calls + 1
    /\ Owners

LEMMA InitFEInv == Init => FEInv
<1> SUFFICES ASSUME Init PROVE FEInv
  OBVIOUS
<1>1. TypeOK
  <2>1. kind \in [Objs -> {"none", "interp", "script", "errtext"}]
    BY DEF Init
  <2>2. fresh \in 1 .. MaxObjs + 1 /\ calls \in 0 .. MaxCalls
    BY FrontEndAssumption DEF Init, MaxObjs
  <2>3. /\ interpOwn \in Objs \cup {Null} /\ myscript \in Objs \cup {Null}
        /\ stored \in Objs \cup {Null} /\ cErrors \in Objs \cup {Null, Uninit}
    BY DEF Init
  <2>4. QED
    BY <2>1, <2>2, <2>3, Zenon DEF Init, TypeOK, Results
<1>2. fresh + Rem <= 3 * calls + 1
  BY DEF Init, Rem
<1>3. Owners
  BY FrontEndAssumption DEF Init, Owners, CallOwned, MyInterp, Objs, MaxObjs
<1>4. QED
  BY <1>1, <1>2, <1>3 DEF FEInv

LEMMA NextFEInv == FEInv /\ [Next]_vars => FEInv'
<1> SUFFICES ASSUME FEInv, [Next]_vars PROVE FEInv'
  OBVIOUS
<1> USE FrontEndAssumption DEF FEInv, TypeOK, Owners, Rem, CallOwned, Results,
                               MyInterp, MaxObjs, Objs
<1>1. CASE CallerReady /\ CallParseOnly
  <2>1. TypeOK'
    <3>1. calls' \in 0 .. MaxCalls /\ fresh' \in 1 .. MaxObjs + 1
      BY <1>1 DEF CallerReady, CallParseOnly
    <3>2. /\ pc' \in {"idle", "build", "body", "tail"}
          /\ outGiven' \in BOOLEAN /\ written' \in BOOLEAN
      BY <1>1 DEF CallerReady, CallParseOnly
    <3>3. QED
      BY <1>1, <3>1, <3>2, Zenon DEF CallerReady, CallParseOnly
  <2>2. fresh' + Rem' <= 3 * calls' + 1
    BY <1>1 DEF CallerReady, CallParseOnly
  <2>3. Owners'
    BY <1>1 DEF CallerReady, CallParseOnly
  <2>4. QED
    BY <2>1, <2>2, <2>3 DEF FEInv
<1>2. CASE CallerReady /\ CallParseString
  <2>1. TypeOK'
    <3>1. calls' \in 0 .. MaxCalls /\ fresh' \in 1 .. MaxObjs + 1
      BY <1>2 DEF CallerReady, CallParseString
    <3>2. /\ pc' \in {"idle", "build", "body", "tail"}
          /\ outGiven' \in BOOLEAN /\ written' \in BOOLEAN
      BY <1>2 DEF CallerReady, CallParseString
    <3>3. QED
      BY <1>2, <3>1, <3>2, Zenon DEF CallerReady, CallParseString
  <2>2. fresh' + Rem' <= 3 * calls' + 1
    BY <1>2 DEF CallerReady, CallParseString
  <2>3. Owners'
    BY <1>2 DEF CallerReady, CallParseString
  <2>4. QED
    BY <2>1, <2>2, <2>3 DEF FEInv
<1>3. CASE BuildInterp
  <2>1. TypeOK'
    BY <1>3 DEF BuildInterp, Alloc
  <2>2. fresh' + Rem' <= 3 * calls' + 1
    BY <1>3 DEF BuildInterp, Alloc
  <2>3. Owners'
    BY <1>3 DEF BuildInterp, Alloc
  <2>4. QED
    BY <2>1, <2>2, <2>3 DEF FEInv
<1>4. CASE BuildFailed
  BY <1>4 DEF BuildFailed
<1>5. CASE BodyParsedOk
  <2>0. fresh \in Nat /\ fresh + 2 <= 3 * MaxCalls + 1
    BY <1>5 DEF BodyParsedOk
  <2>1. TypeOK'
    BY <1>5, <2>0 DEF BodyParsedOk, ToCaller, ToMyscript
  <2>2. fresh' + Rem' <= 3 * calls' + 1
    BY <1>5 DEF BodyParsedOk, ToCaller, ToMyscript
  <2>3. Owners'
    <3>1. CASE ToCaller
      BY <1>5, <2>0, <3>1 DEF BodyParsedOk, ToCaller, ToMyscript
    <3>2. CASE ToMyscript
      BY <1>5, <2>0, <3>2 DEF BodyParsedOk, ToCaller, ToMyscript
    <3>3. CASE ~ToCaller /\ ~ToMyscript
      BY <1>5, <2>0, <3>3 DEF BodyParsedOk, ToCaller, ToMyscript
    <3>4. QED
      BY <3>1, <3>2, <3>3
  <2>4. QED
    BY <2>1, <2>2, <2>3 DEF FEInv
<1>6. CASE BodyParseErrors
  <2>0. fresh \in Nat /\ fresh + 2 <= 3 * MaxCalls + 1
    BY <1>6 DEF BodyParseErrors
  <2>1. TypeOK'
    <3>1. fresh \in 1 .. 3 * MaxCalls /\ fresh + 1 \in 1 .. 3 * MaxCalls
      BY <2>0
    <3>2. kind' \in [1 .. 3 * MaxCalls -> {"none", "interp", "script", "errtext"}]
      BY <1>6, <3>1 DEF BodyParseErrors
    <3>3. live' \subseteq 1 .. 3 * MaxCalls /\ freed' \subseteq 1 .. 3 * MaxCalls
      BY <1>6, <3>1 DEF BodyParseErrors
    <3>4. fresh' \in 1 .. 3 * MaxCalls + 1 /\ cErrors' \in 1 .. 3 * MaxCalls
      BY <1>6, <2>0 DEF BodyParseErrors
    <3>5. QED
      BY <1>6, <3>2, <3>3, <3>4 DEF BodyParseErrors
  <2>2. fresh' + Rem' <= 3 * calls' + 1
    BY <1>6 DEF BodyParseErrors
  <2>3. Owners'
    BY <1>6, <2>0 DEF BodyParseErrors
  <2>4. QED
    BY <2>1, <2>2, <2>3 DEF FEInv
<1>7. CASE BodyVerifyFailed
  <2>1. TypeOK'
    <3>1. PICK e \in {fresh, Null} :
                /\ cErrors' = e
                /\ live' = live \cup ({e} \cap 1 .. 3 * MaxCalls)
                /\ kind' = IF e = Null THEN kind
                                       ELSE [kind EXCEPT ![e] = "errtext"]
                /\ fresh' = IF e = Null THEN fresh ELSE fresh + 1
      BY <1>7 DEF BodyVerifyFailed
    <3>2. fresh' \in 1 .. 3 * MaxCalls + 1 /\ cErrors' \in 1 .. 3 * MaxCalls \cup {Null, Uninit}
      BY <1>7, <3>1 DEF BodyVerifyFailed
    <3>3. kind' \in [1 .. 3 * MaxCalls -> {"none", "interp", "script", "errtext"}]
      BY <3>1
    <3>4. QED
      BY <1>7, <3>1, <3>2, <3>3 DEF BodyVerifyFailed
  <2>2. fresh' + Rem' <= 3 * calls' + 1
    BY <1>7 DEF BodyVerifyFailed
  <2>3. Owners'
    BY <1>7 DEF BodyVerifyFailed
  <2>4. QED
    BY <2>1, <2>2, <2>3 DEF FEInv
<1>8. CASE TailParseOnly
  <2>1. TypeOK'
    BY <1>8 DEF TailParseOnly
  <2>2. fresh' + Rem' <= 3 * calls' + 1
    BY <1>8 DEF TailParseOnly
  <2>3. Owners'
    BY <1>8 DEF TailParseOnly
  <2>4. QED
    BY <2>1, <2>2, <2>3 DEF FEInv
<1>9. CASE TailParseString
  <2>1. TypeOK'
    BY <1>9 DEF TailParseString
  <2>2. fresh' + Rem' <= 3 * calls' + 1
    BY <1>9 DEF TailParseString
  <2>3. Owners'
    BY <1>9 DEF TailParseString
  <2>4. QED
    BY <2>1, <2>2, <2>3 DEF FEInv
<1>10. CASE CallerFreeScript
  BY <1>10 DEF CallerFreeScript
<1>11. CASE CallerFreeErrors
  BY <1>11 DEF CallerFreeErrors
<1>12. CASE UNCHANGED vars
  BY <1>12 DEF vars
<1>13. QED
  BY <1>1, <1>2, <1>3, <1>4, <1>5, <1>6, <1>7, <1>8, <1>9, <1>10, <1>11,
     <1>12 DEF Next

\* the objects a step frees
FreesAllocated == freed' \subseteq live \cup (fresh .. fresh' - 1)

LEMMA StepFreesAllocated == FEInv /\ [Next]_vars => [FreesAllocated]_vars
<1> SUFFICES ASSUME FEInv, [Next]_vars PROVE [FreesAllocated]_vars
  OBVIOUS
<1> USE DEF FEInv, Owners, FreesAllocated
<1>1. CASE CallerReady /\ (CallParseOnly \/ CallParseString)
  BY <1>1 DEF CallParseOnly, CallParseString
<1>2. CASE BuildInterp \/ BuildFailed \/ TailParseOnly
  BY <1>2 DEF BuildInterp, BuildFailed, TailParseOnly
<1>3. CASE BodyParsedOk
  BY <1>3, FrontEndAssumption DEF BodyParsedOk, MyInterp, TypeOK, Objs, MaxObjs
<1>4. CASE BodyParseErrors
  BY <1>4, FrontEndAssumption DEF BodyParseErrors, MyInterp, TypeOK, Objs, MaxObjs
<1>5. CASE BodyVerifyFailed
  BY <1>5 DEF BodyVerifyFailed
<1>6. CASE TailParseString
  BY <1>6 DEF TailParseString
<1>7. CASE CallerFreeScript \/ CallerFreeErrors
  BY <1>7 DEF CallerFreeScript, CallerFreeErrors
<1>8. CASE UNCHANGED vars
  BY <1>8
<1>9. QED
  BY <1>1, <1>2, <1>3, <1>4, <1>5, <1>6, <1>7, <1>8 DEF Next

\* FEInv holds in every reachable state
LEMMA AlwaysFEInv == Spec => []FEInv
BY InitFEInv, NextFEInv, PTL DEF Spec

\* Whatever the number of calls, whenever no call of sieve_script_parse_only
\* or sieve_script_parse_string is in progress, the heap holds exactly the
\* scripts and the error string the caller was handed: every interpreter,
\* discarded script and myscript was freed on every path.
THEOREM FrontEndOwnership == Spec => []OwnershipAtReturn
<1>1. FEInv => OwnershipAtReturn
  BY DEF FEInv, Owners, OwnershipAtReturn, CallOwned, MyInterp
<1>2. QED
  BY AlwaysFEInv, <1>1, PTL

\* Whatever the number of calls, no step of the parse paths or of the
\* caller's sieve_script_free and free(errors) frees an object that was
\* already freed.
THEOREM FrontEndNoDoubleFree == Spec => NoDoubleFree
<1>1. FEInv /\ [Next]_vars => [FreesAllocated]_vars
  BY StepFreesAllocated
<1>2. Spec => [][Next]_vars
  BY DEF Spec
<1>3. QED
  BY AlwaysFEInv, <1>1, <1>2, PTL DEF NoDoubleFree, FreesAllocated

\* Type correctness of the parse paths: object ids stay below the
\* 3 * MaxCalls allocations the calls can make, and each holder's pointer
\* is an object, NULL, or (for the caller's error pointer) uninitialized.
THEOREM FrontEndTypeCorrect == Spec => []TypeOK
<1>1. FEInv => TypeOK
  BY DEF FEInv
<1>2. QED
  BY <1>1, AlwaysFEInv, PTL
====

---------------------- MODULE SieveFrontEndRefinement ----------------------
(***************************************************************************)
(* sieve_script_parse_only and sieve_script_parse_string implement         *)
(* SieveParseApi under the mapping of SieveFrontEnd: the call's own        *)
(* objects are off the abstract heap, and a call counts once its body (or  *)
(* the failed build) has run.  The proof rests on FEInv                    *)
(* (SieveFrontEndProofs): outside the objects the call owns, the heap is   *)
(* exactly what the caller holds, and the ids the call allocates are fresh.*)
(***************************************************************************)
EXTENDS SieveFrontEndProofs

AbsCalls == IF pc \in {"build", "body"} THEN calls - 1 ELSE calls

PVars == ParseApi!pvars

\* the abstract heap: the live objects the call in progress does not own
Heap == live \ CallOwned

\* a step that leaves what the caller sees alone
HiddenStep ==
    AbsCalls' = AbsCalls /\ Heap' = Heap /\ UNCHANGED <<cScripts, cErrors, res>>

LEMMA HiddenStepStutters == HiddenStep => UNCHANGED PVars
BY DEF HiddenStep, PVars, ParseApi!pvars, AbsCalls, Heap

(***************************************************************************)
(* The start of a call, the build of its interpreter and the wrappers'    *)
(* tails change nothing the caller sees.                                   *)
(***************************************************************************)
LEMMA InitRefines == Init => ParseApi!PInit
BY DEF Init, ParseApi!PInit, CallOwned, MyInterp

\* what FEInv says of the call's own objects at each point of the call
LEMMA CallOwnedAt ==
    ASSUME FEInv
    PROVE  /\ pc \in {"idle", "build"} => CallOwned = {}
           /\ pc = "body" => CallOwned = MyInterp
           /\ pc = "tail" => CallOwned = {myscript} \ {Null}
           /\ CallOwned \subseteq live
BY DEF FEInv, Owners, CallOwned, MyInterp

LEMMA CallStartRefines ==
    ASSUME FEInv, CallerReady, CallParseOnly \/ CallParseString
    PROVE  HiddenStep
<1>1. pc = "idle" /\ pc' \in {"build", "body"} /\ calls' = calls + 1
  BY DEF CallParseOnly, CallParseString
<1>2. calls \in Nat
  BY DEF FEInv, TypeOK
<1>3. AbsCalls' = AbsCalls
  BY <1>1, <1>2 DEF AbsCalls
<1>4. CallOwned = {} /\ interpOwn' = Null /\ myscript' = Null
  BY <1>1, CallOwnedAt DEF CallParseOnly, CallParseString, FEInv, Owners
<1>5. Heap' = Heap
  BY <1>4 DEF Heap, CallOwned, MyInterp, CallParseOnly, CallParseString
<1>6. QED
  BY <1>3, <1>5 DEF HiddenStep, CallParseOnly, CallParseString

\* the new interpreter is the call's own
LEMMA BuildInterpRefines == FEInv /\ BuildInterp => HiddenStep
<1> SUFFICES ASSUME FEInv, BuildInterp PROVE HiddenStep
  OBVIOUS
<1>1. CallOwned = {} /\ fresh \notin live
  BY CallOwnedAt DEF BuildInterp, FEInv, Owners, TypeOK
<1>2. CallOwned' = {fresh}
  <2>1. myscript' = Null /\ interpOwn' = fresh /\ fresh # Null
    BY FrontEndAssumption DEF BuildInterp, FEInv, Owners, TypeOK
  <2>2. QED
    BY <2>1 DEF CallOwned, MyInterp
<1>3. Heap' = Heap
  BY <1>1, <1>2 DEF Heap, BuildInterp, Alloc
<1>4. AbsCalls' = AbsCalls
  BY DEF AbsCalls, BuildInterp
<1>5. QED
  BY <1>3, <1>4 DEF HiddenStep, BuildInterp

\* parse_only's tail rewrites the error string in place
LEMMA TailParseOnlyRefines == FEInv /\ TailParseOnly => HiddenStep
<1> SUFFICES ASSUME FEInv, TailParseOnly PROVE HiddenStep
  OBVIOUS
<1>1. CallOwned = {} /\ CallOwned' = {}
  BY CallOwnedAt DEF TailParseOnly, FEInv, Owners, CallOwned, MyInterp
<1>2. QED
  BY <1>1 DEF HiddenStep, TailParseOnly, Heap, AbsCalls

\* parse_string's tail frees myscript, which the caller never held
LEMMA TailParseStringRefines == FEInv /\ TailParseString => HiddenStep
<1> SUFFICES ASSUME FEInv, TailParseString PROVE HiddenStep
  OBVIOUS
<1>1. CallOwned = {myscript} \ {Null} /\ CallOwned' = {}
  BY CallOwnedAt DEF TailParseString, FEInv, Owners, CallOwned, MyInterp
<1>2. Heap' = Heap
  BY <1>1 DEF TailParseString, Heap
<1>3. QED
  BY <1>2 DEF HiddenStep, TailParseString, AbsCalls

(***************************************************************************)
(* The steps where a call's outcome is decided are the abstract call.      *)
(***************************************************************************)
\* a call in its build or body was counted by the caller but not yet by
\* the promise, and the caller holds no error string during it
LEMMA CallCounts ==
    ASSUME FEInv, pc \in {"build", "body"}, pc' = "tail", calls' = calls
    PROVE  /\ AbsCalls < MaxCalls /\ AbsCalls' = AbsCalls + 1
           /\ cErrors \notin Heap
<1>1. calls \in 1 .. MaxCalls
  <2>1. calls \in 0 .. MaxCalls /\ fresh \in 1 .. MaxObjs + 1
        /\ fresh + Rem <= 3 * calls + 1 /\ Rem \in {2, 3}
    BY DEF FEInv, TypeOK, Rem
  <2>2. QED
    BY <2>1, FrontEndAssumption DEF MaxObjs
<1>2. cErrors \notin Heap
  <2>1. cErrors \notin live
    BY DEF FEInv, Owners
  <2>2. QED
    BY <2>1 DEF Heap
<1>3. AbsCalls = calls - 1 /\ AbsCalls' = calls
  BY DEF AbsCalls
<1>4. QED
  BY <1>1, <1>2, <1>3, FrontEndAssumption

\* the fresh ids a body step takes are objects and not live
LEMMA BodyFresh ==
    ASSUME FEInv, pc = "body"
    PROVE  /\ fresh \in Objs /\ fresh + 1 \in Objs
           /\ fresh \notin live /\ fresh + 1 \notin live
           /\ fresh # Null /\ fresh + 1 # Null
           /\ CallOwned = MyInterp /\ MyInterp \subseteq 1 .. fresh - 1
<1>1. /\ fresh \in 1 .. MaxObjs + 1 /\ fresh + 2 <= 3 * calls + 1
      /\ calls \in 0 .. MaxCalls /\ live \subseteq 1 .. fresh - 1
  BY DEF FEInv, TypeOK, Rem, Owners
<1>2. fresh \in Objs /\ fresh + 1 \in Objs
  BY <1>1, FrontEndAssumption DEF Objs, MaxObjs
<1>3. MyInterp \subseteq 1 .. fresh - 1
  BY <1>1 DEF FEInv, Owners, MyInterp
<1>4. fresh \in Nat /\ fresh + 1 \in Nat /\ fresh \notin live /\ fresh + 1 \notin live
  BY <1>1
<1>5. fresh # Null /\ fresh + 1 # Null
  BY <1>4, FrontEndAssumption
<1>6. CallOwned = MyInterp
  BY CallOwnedAt
<1>7. QED
  BY <1>2, <1>3, <1>4, <1>5, <1>6

\* sieve_build_nonexec_interp fails: FAIL, nothing handed out
LEMMA BuildFailedRefines == FEInv /\ BuildFailed => ParseApi!PCall
<1> SUFFICES ASSUME FEInv, BuildFailed PROVE ParseApi!PCall
  OBVIOUS
<1>1. /\ AbsCalls < MaxCalls /\ AbsCalls' = AbsCalls + 1
      /\ cErrors \notin Heap
  BY CallCounts DEF BuildFailed
<1>2. CallOwned = {} /\ CallOwned' = {}
  BY CallOwnedAt DEF BuildFailed, CallOwned, MyInterp, FEInv, Owners
<1>3. Heap' = Heap
  BY <1>2 DEF BuildFailed, Heap
<1>4. QED
  BY <1>1, <1>3 DEF BuildFailed, ParseApi!PCall, AbsCalls, Heap

\* a clean parse: the script goes to the caller, to myscript (still the
\* call's) or is freed; the interpreter is freed; *out_errors = NULL
LEMMA BodyParsedOkRefines == FEInv /\ BodyParsedOk => ParseApi!PCall
<1> SUFFICES ASSUME FEInv, BodyParsedOk PROVE ParseApi!PCall
  OBVIOUS
<1> DEFINE s == fresh
<1>1. /\ AbsCalls < MaxCalls /\ AbsCalls' = AbsCalls + 1
      /\ cErrors \notin Heap
  BY CallCounts DEF BodyParsedOk
<1>2. /\ s \in Objs /\ s \notin live /\ s # Null
      /\ CallOwned = MyInterp /\ MyInterp \subseteq 1 .. s - 1
  BY BodyFresh DEF BodyParsedOk
<1>9. s \in Nat
  BY <1>2, FrontEndAssumption DEF Objs, MaxObjs
<1>3. CallOwned' = IF ToMyscript THEN {s} ELSE {}
  <2>1. myscript = Null
    BY DEF BodyParsedOk, FEInv, Owners
  <2>2. QED
    BY <1>2, <2>1 DEF BodyParsedOk, CallOwned, MyInterp
<1>4. s \notin MyInterp
  BY <1>2, <1>9
<1>5. Heap = live \ MyInterp
  BY <1>2 DEF Heap
<1>6. CASE ToCaller
  <2>1. ~ToMyscript /\ Heap' = Heap \cup {s}
    BY <1>6, <1>3, <1>4, <1>5 DEF ToMyscript, ToCaller, BodyParsedOk, Heap
  <2>2. cScripts' = cScripts \cup {s} /\ cErrors' = Null /\ res' = "OK"
    BY <1>6 DEF BodyParsedOk
  <2>3. QED
    BY <1>1, <1>2, <2>1, <2>2 DEF ParseApi!PCall, AbsCalls, Heap
<1>7. CASE ~ToCaller
  <2>1. Heap' = Heap
    <3>1. CASE ToMyscript
      <4>1. live' = (live \cup {s}) \ MyInterp /\ CallOwned' = {s}
        BY <1>7, <3>1, <1>3 DEF ToCaller, BodyParsedOk
      <4>2. QED
        BY <4>1, <1>2, <1>5 DEF Heap
    <3>2. CASE ~ToMyscript
      <4>1. live' = (live \cup {s}) \ ({s} \cup MyInterp) /\ CallOwned' = {}
        BY <1>7, <3>2, <1>3 DEF ToCaller, BodyParsedOk
      <4>2. QED
        BY <4>1, <1>2, <1>5 DEF Heap
    <3>3. QED
      BY <3>1, <3>2
  <2>2. cScripts' = cScripts /\ cErrors' = Null /\ res' = "OK"
    BY <1>7 DEF BodyParsedOk
  <2>3. QED
    BY <1>1, <1>2, <2>1, <2>2 DEF ParseApi!PCall, AbsCalls, Heap
<1>8. QED
  BY <1>6, <1>7

\* errors reported by sieveparse: the script is freed inside the call and
\* the buffer's text goes to the caller
LEMMA BodyParseErrorsRefines == FEInv /\ BodyParseErrors => ParseApi!PCall
<1> SUFFICES ASSUME FEInv, BodyParseErrors PROVE ParseApi!PCall
  OBVIOUS
<1> DEFINE e == fresh + 1
<1>1. /\ AbsCalls < MaxCalls /\ AbsCalls' = AbsCalls + 1
      /\ cErrors \notin Heap
  BY CallCounts DEF BodyParseErrors
<1>2. /\ e \in Objs /\ e \notin live /\ fresh \in Objs
      /\ CallOwned = MyInterp /\ MyInterp \subseteq 1 .. fresh - 1
  BY BodyFresh DEF BodyParseErrors
<1>3. e \notin MyInterp
  BY <1>2, FrontEndAssumption DEF Objs, MaxObjs
<1>4. CallOwned' = {}
  <2>1. myscript = Null
    BY DEF BodyParseErrors, FEInv, Owners
  <2>2. QED
    BY <2>1 DEF BodyParseErrors, CallOwned, MyInterp
<1>5. Heap' = Heap \cup {e}
  BY <1>2, <1>3, <1>4 DEF BodyParseErrors, Heap
<1>6. cErrors' = e /\ res' = "PARSE_ERROR" /\ UNCHANGED cScripts
  BY DEF BodyParseErrors
<1>7. e \in Objs \ Heap
  BY <1>2 DEF Heap
<1>8. QED
  BY <1>1, <1>5, <1>6, <1>7 DEF ParseApi!PCall, AbsCalls, Heap

\* interp_verify rejects the caller's interpreter: the empty buffer goes
\* to the caller as a string or as NULL
LEMMA BodyVerifyFailedRefines == FEInv /\ BodyVerifyFailed => ParseApi!PCall
<1> SUFFICES ASSUME FEInv, BodyVerifyFailed PROVE ParseApi!PCall
  OBVIOUS
<1>1. /\ AbsCalls < MaxCalls /\ AbsCalls' = AbsCalls + 1
      /\ cErrors \notin Heap
  BY CallCounts DEF BodyVerifyFailed
<1>2. fresh \in Objs /\ fresh \notin live /\ Null \notin Objs
  BY BodyFresh, FrontEndAssumption DEF BodyVerifyFailed, Objs
<1>3. CallOwned = {} /\ CallOwned' = {}
  <2>1. myscript = Null /\ interpOwn = Null
    BY DEF BodyVerifyFailed, FEInv, Owners
  <2>2. QED
    BY <2>1 DEF BodyVerifyFailed, CallOwned, MyInterp
<1>4. res' = "VERIFY_ERROR" /\ UNCHANGED cScripts
  BY DEF BodyVerifyFailed
<1>5. \/ cErrors' = fresh /\ Heap' = Heap \cup {fresh}
      \/ cErrors' = Null /\ Heap' = Heap
  BY <1>2, <1>3 DEF BodyVerifyFailed, Heap
<1>6. fresh \in Objs \ Heap
  BY <1>2 DEF Heap
<1>7. QED
  BY <1>1, <1>4, <1>5, <1>6 DEF ParseApi!PCall, AbsCalls, Heap

(***************************************************************************)
(* The caller's frees are the promise's.                                   *)
(***************************************************************************)
LEMMA CallerFreeScriptRefines ==
    FEInv /\ CallerFreeScript => ParseApi!PFreeScript
<1> SUFFICES ASSUME FEInv, CallerFreeScript PROVE ParseApi!PFreeScript
  OBVIOUS
<1>1. CallOwned = {} /\ CallOwned' = {}
  BY CallOwnedAt DEF CallerFreeScript, CallOwned, MyInterp, FEInv, Owners
<1>2. PICK s \in cScripts : live' = live \ {s} /\ cScripts' = cScripts \ {s}
  BY DEF CallerFreeScript
<1>3. Heap' = Heap \ {s} /\ AbsCalls' = AbsCalls
  BY <1>1, <1>2 DEF Heap, AbsCalls, CallerFreeScript
<1>4. QED
  BY <1>2, <1>3 DEF CallerFreeScript, ParseApi!PFreeScript, Heap, AbsCalls

LEMMA CallerFreeErrorsRefines ==
    FEInv /\ CallerFreeErrors => ParseApi!PFreeErrors
<1> SUFFICES ASSUME FEInv, CallerFreeErrors PROVE ParseApi!PFreeErrors
  OBVIOUS
<1>1. CallOwned = {} /\ CallOwned' = {}
  BY CallOwnedAt DEF CallerFreeErrors, CallOwned, MyInterp, FEInv, Owners
<1>2. cErrors \in Heap /\ Heap' = Heap \ {cErrors} /\ AbsCalls' = AbsCalls
  BY <1>1 DEF Heap, AbsCalls, CallerFreeErrors
<1>3. QED
  BY <1>2 DEF CallerFreeErrors, ParseApi!PFreeErrors, Heap, AbsCalls

LEMMA NextRefines == FEInv /\ [Next]_vars => [ParseApi!PNext]_PVars
<1> SUFFICES ASSUME FEInv, [Next]_vars PROVE [ParseApi!PNext]_PVars
  OBVIOUS
<1>1. ASSUME HiddenStep PROVE [ParseApi!PNext]_PVars
  BY <1>1, HiddenStepStutters
<1>2. ASSUME ParseApi!PCall \/ ParseApi!PFreeScript \/ ParseApi!PFreeErrors
      PROVE  [ParseApi!PNext]_PVars
  BY <1>2 DEF ParseApi!PNext
<1>3. CASE UNCHANGED vars
  <2>1. HiddenStep
    BY <1>3 DEF vars, HiddenStep, AbsCalls, Heap, CallOwned, MyInterp
  <2>2. QED
    BY <2>1, <1>1
<1>4. QED
  BY <1>1, <1>2, <1>3, CallStartRefines, BuildInterpRefines,
     TailParseOnlyRefines, TailParseStringRefines, BuildFailedRefines,
     BodyParsedOkRefines, BodyParseErrorsRefines, BodyVerifyFailedRefines,
     CallerFreeScriptRefines, CallerFreeErrorsRefines DEF Next

(***************************************************************************)
(* The theorem.                                                            *)
(***************************************************************************)
\* For any number of calls, sieve_script_parse_only and
\* sieve_script_parse_string implement SieveParseApi: each call hands its
\* caller a fresh script, a fresh error string, or nothing, with the result
\* the promise pairs it with (*out_errors = NULL on success), and none of
\* the interpreter, a rejected script or myscript outlives the call.
THEOREM FrontEndRefinesParseApi == Spec => ImplementsParseApi
<1>1. Spec => Init /\ []FEInv /\ [][Next]_vars
  BY AlwaysFEInv, PTL DEF Spec
<1>2. []FEInv /\ [][Next]_vars => [][ParseApi!PNext]_PVars
  BY NextRefines, PTL
<1>3. Init /\ [][ParseApi!PNext]_PVars => ParseApi!PSpec
  BY InitRefines DEF ParseApi!PSpec, PVars
<1>4. QED
  BY <1>1, <1>2, <1>3 DEF ImplementsParseApi
====

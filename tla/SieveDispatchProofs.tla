------------------------ MODULE SieveDispatchProofs ------------------------
(***************************************************************************)
(* Proofs about SieveDispatch for every value of the constants: the type   *)
(* invariant, and that the implicit keep never follows an action that      *)
(* cancels it.                                                             *)
(***************************************************************************)
EXTENDS SieveDispatch, SequenceTheorems, TLAPS

(***************************************************************************)
(* The inductive invariant.  TypeOK alone is not inductive: appending to   *)
(* executed needs its length bounded by the action list, which needs the   *)
(* cursor idx tied to executed while do_action_list runs.                  *)
(***************************************************************************)
Bounds ==
    /\ phase = "start" => actions = <<>> /\ executed = <<>>
    /\ Len(executed) <= Len(actions)
    /\ phase = "actions" => idx = Len(executed) + 1 /\ idx <= Len(actions) + 1
    /\ phase = "notify" => idx <= Len(notes) + 1

\* implicit_keep is set only while no dispatched action cancelled it, and
\* no implicit keep happens before do_sieve_error is entered.
KeepInv ==
    /\ implicitKeep => NoCancelExecuted
    /\ implicitKeeps > 0 => NoCancelExecuted
    /\ phase \in {"start", "actions"} => implicitKeeps = 0

IInv == TypeOK /\ Bounds /\ KeepInv

(***************************************************************************)
(* Lemmas about the operators the model is built from.                     *)
(***************************************************************************)
LEMMA RetOrType ==
    ASSUME NEW a \in Codes, NEW b \in Codes
    PROVE  RetOr(a, b) \in Codes
BY DEF RetOr, Codes

LEMMA ListsOfSeq ==
    ASSUME NEW S, NEW n \in Nat, NEW l \in ListsOf(S, n)
    PROVE  l \in Seq(S) /\ Len(l) <= n
<1>1. PICK k \in 0 .. n : l \in [1 .. k -> S]
  BY DEF ListsOf
<1>2. l \in Seq(S)
  BY <1>1, SeqDef
<1>3. Len(l) = k
  BY <1>1, <1>2, LenProperties
<1>4. QED
  BY <1>2, <1>3

LEMMA IncType ==
    ASSUME NEW n \in 0 .. CountCap
    PROVE  Inc(n) \in 0 .. CountCap /\ Inc(n) > 0
BY DEF Inc, CountCap

(***************************************************************************)
(* The initial state.                                                      *)
(***************************************************************************)
LEMMA InitIInv == Init => IInv
<1> SUFFICES ASSUME Init PROVE IInv
  OBVIOUS
<1>1. TypeOK
  <2>1. <<>> \in Seq(Entries) /\ <<>> \in Seq(BOOLEAN) /\ <<>> \in Seq(ExecRecords)
    BY EmptySeq
  <2>2. sent \in [1 .. Len(notes) -> 0 .. CountCap]
    <3>1. 1 .. Len(notes) = {}
      BY DEF Init
    <3>2. QED
      BY <3>1 DEF Init
  <2>3. idx \in 1 .. (MaxActions + MaxNotify + 1)
    BY DispatchAssumption DEF Init
  <2>4. /\ reg \in RegChoices /\ lastitem \in Items \cup {NoItem}
        /\ phase \in Phases
        /\ ret \in Codes /\ lastaction \in LastActions /\ notifyRet \in Codes
    BY DEF Init, Phases, Codes, LastActions
  <2>5. /\ implicitKeeps \in 0 .. CountCap /\ reportCount \in 0 .. CountCap
        /\ reported \in SUBSET [action : LastActions, item : Items \cup {NoItem}]
        /\ Len(actions) <= MaxActions /\ Len(notes) <= MaxNotify
        /\ Len(dups) <= MaxDup /\ Len(executed) <= MaxActions
    BY DispatchAssumption DEF Init, CountCap
  <2>6. /\ implicitKeep \in BOOLEAN /\ notifyPending \in BOOLEAN
        /\ keepOk \in BOOLEAN /\ tracked \in BOOLEAN
    BY DEF Init
  <2>7. QED
    BY <2>1, <2>2, <2>3, <2>4, <2>5, <2>6 DEF Init, TypeOK
<1>2. Bounds
  BY DEF Init, Bounds
<1>3. KeepInv
  BY DEF Init, KeepInv, NoCancelExecuted
<1>4. QED
  BY <1>1, <1>2, <1>3 DEF IInv

(***************************************************************************)
(* Entering do_sieve_error sets the locals to values of their types.       *)
(***************************************************************************)
LEMMA EnterErrorType ==
    ASSUME TypeOK, NEW r \in Codes, NEW la \in LastActions,
           NEW ik \in BOOLEAN, NEW pending \in BOOLEAN,
           EnterError(r, la, ik, pending)
    PROVE  /\ ret' \in Codes /\ lastaction' \in LastActions
           /\ implicitKeep' = ik /\ notifyPending' \in BOOLEAN
           /\ phase' \in {"notify", "report"} /\ idx' = 1
           /\ notifyRet' \in Codes
BY DEF EnterError, Codes

\* the index range of TypeOK contains 1
LEMMA IdxOne == TypeOK => 1 \in 1 .. (MaxActions + MaxNotify + 1)
BY DispatchAssumption

(***************************************************************************)
(* sieve_execute_bytecode: the evaluator's lists.                          *)
(***************************************************************************)
LEMMA ExecuteBytecodeIInv == IInv /\ ExecuteBytecode => IInv'
<1> SUFFICES ASSUME IInv, ExecuteBytecode PROVE IInv'
  OBVIOUS
<1>1. PICK al \in ActionLists, nl \in ListsOf(BOOLEAN, MaxNotify),
           dl \in ListsOf(BOOLEAN, MaxDup) : EvalResult(al, nl, dl)
  BY DEF ExecuteBytecode
<1>2. /\ al \in Seq(Entries) /\ Len(al) <= MaxActions
      /\ nl \in Seq(BOOLEAN) /\ Len(nl) <= MaxNotify
      /\ dl \in Seq(BOOLEAN) /\ Len(dl) <= MaxDup
  BY ListsOfSeq, DispatchAssumption DEF ActionLists
<1>3. sent' \in [1 .. Len(notes') -> 0 .. CountCap]
  BY <1>1 DEF EvalResult, CountCap
<1>4. TypeOK'
  <2>1. idx' \in 1 .. (MaxActions + MaxNotify + 1)
    BY IdxOne DEF ExecuteBytecode, IInv
  <2>2. QED
    BY <1>1, <1>2, <1>3, <2>1 DEF IInv, TypeOK, ExecuteBytecode, EvalResult,
       Phases, Codes, LastActions
<1>5. Bounds'
  BY <1>1, <1>2 DEF IInv, Bounds, ExecuteBytecode, EvalResult
<1>6. KeepInv'
  BY DEF IInv, Bounds, KeepInv, ExecuteBytecode, NoCancelExecuted
<1>7. QED
  BY <1>4, <1>5, <1>6 DEF IInv

LEMMA EvalFailedIInv == IInv /\ EvalFailed => IInv'
<1> SUFFICES ASSUME IInv, EvalFailed PROVE IInv'
  OBVIOUS
<1>1. PICK al \in ActionLists, nl \in ListsOf(BOOLEAN, MaxNotify),
           dl \in ListsOf(BOOLEAN, MaxDup) : EvalResult(al, nl, dl)
  BY DEF EvalFailed
<1>2. /\ al \in Seq(Entries) /\ Len(al) <= MaxActions
      /\ nl \in Seq(BOOLEAN) /\ Len(nl) <= MaxNotify
      /\ dl \in Seq(BOOLEAN) /\ Len(dl) <= MaxDup
  BY ListsOfSeq, DispatchAssumption DEF ActionLists
<1>3. sent' \in [1 .. Len(notes') -> 0 .. CountCap]
  BY <1>1 DEF EvalResult, CountCap
<1>4. /\ ret' \in Codes /\ lastaction' \in LastActions
      /\ implicitKeep' = FALSE /\ notifyPending' \in BOOLEAN
      /\ phase' \in {"notify", "report"} /\ idx' = 1 /\ notifyRet' \in Codes
  <2>1. EnterError("RUN_ERROR", Never, FALSE, "notify" \in reg)
    BY DEF EvalFailed
  <2>2. "RUN_ERROR" \in Codes /\ Never \in LastActions
    BY DEF Codes, LastActions
  <2>3. QED
    BY <2>1, <2>2 DEF EnterError, Codes
<1>5. TypeOK'
  BY <1>1, <1>2, <1>3, <1>4, IdxOne DEF IInv, TypeOK, EvalFailed, EvalResult,
     Phases
<1>6. Bounds'
  BY <1>1, <1>2, <1>4 DEF IInv, Bounds, EvalFailed, EvalResult
<1>7. KeepInv'
  BY <1>4 DEF IInv, Bounds, KeepInv, EvalFailed, NoCancelExecuted
<1>8. QED
  BY <1>5, <1>6, <1>7 DEF IInv

(***************************************************************************)
(* do_action_list.                                                         *)
(***************************************************************************)
LEMMA DoActionIInv == IInv /\ DoAction => IInv'
<1> SUFFICES ASSUME IInv, DoAction PROVE IInv'
  OBVIOUS
<1> DEFINE e == actions[idx]
           rec(r) == [a |-> e.a, cancel_keep |-> e.cancel_keep, ok |-> r = "OK"]
<1>1. /\ phase = "actions" /\ idx <= Len(actions)
      /\ idx = Len(executed) + 1
  BY DEF DoAction, IInv, Bounds
<1>2. e \in Entries
  BY <1>1, ElementOfSeq DEF IInv, TypeOK
<1>3. PICK r \in Results(e.a) :
        /\ lastitem' = ItemAfter(e)
        /\ executed' = Append(executed, rec(r))
        /\ IF r = "OK"
             THEN /\ ret' = "OK"
                  /\ lastaction' = e.a
                  /\ implicitKeep' = KeepAfterAction(implicitKeep, e)
                  /\ idx' = idx + 1
                  /\ UNCHANGED <<phase, notifyRet, notifyPending>>
             ELSE EnterError(r, e.a, FALSE, notifyPending)
  BY DEF DoAction
<1>4. r \in Codes
  BY DEF Results, CallResults, VacationRet, Codes
<1>5. rec(r) \in ExecRecords
  BY <1>2 DEF Entries, ExecRecords
<1>6. /\ executed' \in Seq(ExecRecords)
      /\ Len(executed') = Len(executed) + 1
      /\ \A i \in 1 .. Len(executed) : executed'[i] = executed[i]
      /\ executed'[Len(executed) + 1] = rec(r)
  BY <1>3, <1>5, AppendProperties DEF IInv, TypeOK
<1>7. /\ e.a \in LastActions /\ ItemAfter(e) \in Items \cup {NoItem}
  BY <1>2 DEF Entries, LastActions, ItemAfter, IInv, TypeOK
<1>11. Len(executed') <= MaxActions
  <2>1. Len(actions) \in Nat /\ Len(executed) \in Nat
    BY LenProperties DEF IInv, TypeOK
  <2>2. QED
    BY <1>1, <1>6, <2>1, DispatchAssumption DEF IInv, TypeOK
<1>8. UNCHANGED <<reg, actions, notes, dups, implicitKeeps, keepOk, sent,
                  reportCount, reported, tracked>>
  BY DEF DoAction
<1>9. CASE r = "OK"
  <2>1. TypeOK'
    <3>1. idx' \in 1 .. (MaxActions + MaxNotify + 1)
      BY <1>1, <1>3, <1>9, DispatchAssumption DEF IInv, TypeOK
    <3>2. /\ ret' \in Codes /\ lastaction' \in LastActions
          /\ implicitKeep' \in BOOLEAN
          /\ UNCHANGED <<phase, notifyRet, notifyPending>>
      BY <1>3, <1>7, <1>9 DEF KeepAfterAction, Codes
    <3>3. lastitem' \in Items \cup {NoItem}
      BY <1>3, <1>7
    <3>4. QED
      BY <1>6, <1>8, <1>11, <3>1, <3>2, <3>3 DEF IInv, TypeOK
  <2>2. Bounds'
    BY <1>1, <1>3, <1>6, <1>8, <1>9 DEF IInv, TypeOK, Bounds
  <2>3. KeepInv'
    <3>1. ASSUME implicitKeep' PROVE NoCancelExecuted'
      <4>1. implicitKeep /\ ~e.cancel_keep
        BY <3>1, <1>3, <1>9 DEF KeepAfterAction
      <4>2. \A i \in 1 .. Len(executed) : ~executed[i].cancel_keep
        BY <4>1, LenProperties DEF IInv, KeepInv, NoCancelExecuted, TypeOK
      <4>3. DOMAIN executed' = 1 .. Len(executed) + 1
        BY <1>6, LenProperties DEF IInv, TypeOK
      <4>4. QED
        BY <4>1, <4>2, <4>3, <1>6 DEF NoCancelExecuted
    <3>2. QED
      BY <3>1, <1>1, <1>3, <1>8, <1>9 DEF IInv, KeepInv
  <2>4. QED
    BY <2>1, <2>2, <2>3 DEF IInv
<1>10. CASE r # "OK"
  <2>1. /\ ret' \in Codes /\ lastaction' \in LastActions
        /\ implicitKeep' = FALSE /\ notifyPending' \in BOOLEAN
        /\ phase' \in {"notify", "report"} /\ idx' = 1 /\ notifyRet' \in Codes
    <3>1. EnterError(r, e.a, FALSE, notifyPending)
      BY <1>3, <1>10
    <3>2. QED
      BY <3>1, <1>4, <1>7 DEF EnterError, Codes, IInv, TypeOK
  <2>2. TypeOK'
    <3>1. /\ idx' \in 1 .. (MaxActions + MaxNotify + 1)
          /\ phase' \in Phases
          /\ lastitem' \in Items \cup {NoItem}
      BY <1>3, <1>7, <2>1, IdxOne DEF IInv, Phases
    <3>2. QED
      BY <1>6, <1>8, <1>11, <2>1, <3>1 DEF IInv, TypeOK
  <2>3. Bounds'
    BY <1>1, <1>6, <1>8, <2>1 DEF IInv, TypeOK, Bounds
  <2>4. KeepInv'
    BY <1>1, <1>8, <2>1 DEF IInv, KeepInv
  <2>5. QED
    BY <2>2, <2>3, <2>4 DEF IInv
<1>12. QED
  BY <1>9, <1>10

LEMMA DoActionInternalErrorIInv == IInv /\ DoActionInternalError => IInv'
<1> SUFFICES ASSUME IInv, DoActionInternalError PROVE IInv'
  OBVIOUS
<1>1. actions[idx] \in Entries
  BY ElementOfSeq DEF DoActionInternalError, IInv, TypeOK
<1>2. /\ ret' \in Codes /\ lastaction' \in LastActions
      /\ implicitKeep' \in BOOLEAN /\ phase' \in Phases
  BY <1>1 DEF DoActionInternalError, KeepAfterAction, Codes, LastActions,
     Entries, Phases
<1>3. TypeOK'
  BY <1>2 DEF DoActionInternalError, IInv, TypeOK
<1>4. Bounds'
  BY DEF DoActionInternalError, IInv, Bounds
<1>5. KeepInv'
  BY DEF DoActionInternalError, IInv, KeepInv, KeepAfterAction,
     NoCancelExecuted
<1>6. QED
  BY <1>3, <1>4, <1>5 DEF IInv

LEMMA ActionsEndIInv == IInv /\ ActionsEnd => IInv'
<1> SUFFICES ASSUME IInv, ActionsEnd PROVE IInv'
  OBVIOUS
<1>1. /\ ret' \in Codes /\ lastaction' \in LastActions
      /\ implicitKeep' = implicitKeep /\ notifyPending' \in BOOLEAN
      /\ phase' \in {"notify", "report"} /\ idx' = 1 /\ notifyRet' \in Codes
  BY DEF ActionsEnd, EnterError, IInv, TypeOK, Codes
<1>2. TypeOK'
  BY <1>1, IdxOne DEF ActionsEnd, IInv, TypeOK, Phases
<1>3. Bounds'
  BY <1>1 DEF ActionsEnd, IInv, Bounds
<1>4. KeepInv'
  BY <1>1 DEF ActionsEnd, IInv, KeepInv, NoCancelExecuted
<1>5. QED
  BY <1>2, <1>3, <1>4 DEF IInv

LEMMA NotifySendIInv == IInv /\ NotifySend => IInv'
<1> SUFFICES ASSUME IInv, NotifySend PROVE IInv'
  OBVIOUS
<1>1. /\ ret' \in Codes /\ notifyRet' \in Codes
      /\ lastaction' \in LastActions
  BY RetOrType DEF NotifySend, NotifyResults, Codes, LastActions, IInv, TypeOK
<1>2. idx \in 1 .. Len(notes) /\ Len(notes) \in Nat
  BY LenProperties DEF NotifySend, IInv, TypeOK
<1>3. sent' \in [1 .. Len(notes') -> 0 .. CountCap]
  <2>1. sent[idx] \in 0 .. CountCap
    BY <1>2 DEF IInv, TypeOK
  <2>2. QED
    BY <1>2, <2>1, IncType DEF NotifySend, IInv, TypeOK
<1>4. idx' \in 1 .. (MaxActions + MaxNotify + 1)
  BY <1>2, DispatchAssumption DEF NotifySend, IInv, TypeOK
<1>5. TypeOK'
  BY <1>1, <1>3, <1>4 DEF NotifySend, IInv, TypeOK
<1>6. Bounds'
  BY <1>2 DEF NotifySend, IInv, Bounds
<1>7. KeepInv'
  BY DEF NotifySend, IInv, KeepInv, NoCancelExecuted
<1>8. QED
  BY <1>5, <1>6, <1>7 DEF IInv

LEMMA NotifySkipIInv == IInv /\ NotifySkip => IInv'
<1> SUFFICES ASSUME IInv, NotifySkip PROVE IInv'
  OBVIOUS
<1>1. idx' \in 1 .. (MaxActions + MaxNotify + 1)
  BY LenProperties, DispatchAssumption DEF NotifySkip, IInv, TypeOK
<1>2. TypeOK'
  BY <1>1 DEF NotifySkip, IInv, TypeOK
<1>3. Bounds'
  BY LenProperties DEF NotifySkip, IInv, Bounds, TypeOK
<1>4. KeepInv'
  BY DEF NotifySkip, IInv, KeepInv, NoCancelExecuted
<1>5. QED
  BY <1>2, <1>3, <1>4 DEF IInv

LEMMA NotifyEndIInv == IInv /\ NotifyEnd => IInv'
<1> SUFFICES ASSUME IInv, NotifyEnd PROVE IInv'
  OBVIOUS
<1>1. /\ ret' \in Codes /\ lastaction' \in LastActions
      /\ implicitKeep' = implicitKeep /\ notifyPending' \in BOOLEAN
      /\ phase' \in {"notify", "report"} /\ notifyRet' \in Codes
      /\ idx' \in 1 .. (MaxActions + MaxNotify + 1)
      /\ phase' = "notify" => idx' = 1
  BY IdxOne DEF NotifyEnd, EnterError, IInv, TypeOK, Codes
<1>2. TypeOK'
  BY <1>1 DEF NotifyEnd, IInv, TypeOK, Phases
<1>3. Bounds'
  BY <1>1 DEF NotifyEnd, IInv, Bounds
<1>4. KeepInv'
  BY <1>1 DEF NotifyEnd, IInv, KeepInv, NoCancelExecuted
<1>5. QED
  BY <1>2, <1>3, <1>4 DEF IInv

LEMMA ReportErrorIInv == IInv /\ ReportError => IInv'
<1> SUFFICES ASSUME IInv, ReportError PROVE IInv'
  OBVIOUS
<1>1. ret' \in Codes
  BY RetOrType DEF ReportError, CallResults, Codes, IInv, TypeOK
<1>2. reportCount' \in 0 .. CountCap
  BY IncType DEF ReportError, IInv, TypeOK
<1>3. reported' \in SUBSET [action : LastActions, item : Items \cup {NoItem}]
  BY DEF ReportError, IInv, TypeOK
<1>4. TypeOK'
  BY <1>1, <1>2, <1>3 DEF ReportError, IInv, TypeOK, Phases
<1>5. Bounds'
  BY DEF ReportError, IInv, Bounds
<1>6. KeepInv'
  BY DEF ReportError, IInv, KeepInv, NoCancelExecuted
<1>7. QED
  BY <1>4, <1>5, <1>6 DEF IInv

LEMMA ReportSkipIInv == IInv /\ ReportSkip => IInv'
BY DEF ReportSkip, IInv, TypeOK, Phases, Bounds, KeepInv, NoCancelExecuted

LEMMA ImplicitKeepOkIInv == IInv /\ ImplicitKeepOk => IInv'
<1> SUFFICES ASSUME IInv, ImplicitKeepOk PROVE IInv'
  OBVIOUS
<1>1. implicitKeeps' \in 0 .. CountCap
  BY IncType DEF ImplicitKeepOk, IInv, TypeOK
<1>2. TypeOK'
  BY <1>1 DEF ImplicitKeepOk, IInv, TypeOK, Phases, LastActions, ActionKinds
<1>3. Bounds'
  BY DEF ImplicitKeepOk, IInv, Bounds
<1>4. KeepInv'
  BY DEF ImplicitKeepOk, IInv, KeepInv, NoCancelExecuted
<1>5. QED
  BY <1>2, <1>3, <1>4 DEF IInv

\* the heart of CancelKeepHonoured: the implicit keep runs only while
\* implicit_keep is set, and that flag is cleared by every cancelling action
LEMMA ImplicitKeepFailedIInv == IInv /\ ImplicitKeepFailed => IInv'
<1> SUFFICES ASSUME IInv, ImplicitKeepFailed PROVE IInv'
  OBVIOUS
<1>1. implicitKeeps' \in 0 .. CountCap
  BY IncType DEF ImplicitKeepFailed, IInv, TypeOK
<1>2. /\ ret' \in Codes /\ lastaction' \in LastActions
      /\ implicitKeep' = FALSE /\ notifyPending' \in BOOLEAN
      /\ phase' \in {"notify", "report"} /\ notifyRet' \in Codes
      /\ idx' = 1
  <2>1. RetOr(ret, "FAIL") \in Codes
    BY RetOrType DEF Codes, IInv, TypeOK
  <2>2. QED
    BY <2>1 DEF ImplicitKeepFailed, EnterError, IInv, TypeOK, Codes,
       LastActions, ActionKinds
<1>3. TypeOK'
  BY <1>1, <1>2, IdxOne DEF ImplicitKeepFailed, IInv, TypeOK, Phases
<1>4. Bounds'
  BY <1>2 DEF ImplicitKeepFailed, IInv, Bounds
<1>5. KeepInv'
  BY <1>2 DEF ImplicitKeepFailed, IInv, KeepInv, NoCancelExecuted
<1>6. QED
  BY <1>3, <1>4, <1>5 DEF IInv

LEMMA NoImplicitKeepIInv == IInv /\ NoImplicitKeep => IInv'
BY DEF NoImplicitKeep, IInv, TypeOK, Phases, Bounds, KeepInv, NoCancelExecuted

LEMMA TrackDuplicatesIInv == IInv /\ TrackDuplicates => IInv'
BY DEF TrackDuplicates, IInv, TypeOK, Phases, Bounds, KeepInv,
   NoCancelExecuted

LEMMA StutterIInv == IInv /\ UNCHANGED vars => IInv'
BY DEF vars, IInv, TypeOK, Bounds, KeepInv, NoCancelExecuted

LEMMA NextIInv == IInv /\ [Next]_vars => IInv'
BY ExecuteBytecodeIInv, EvalFailedIInv, DoActionIInv,
   DoActionInternalErrorIInv, ActionsEndIInv, NotifySendIInv, NotifySkipIInv,
   NotifyEndIInv, ReportErrorIInv, ReportSkipIInv, ImplicitKeepOkIInv,
   ImplicitKeepFailedIInv, NoImplicitKeepIInv, TrackDuplicatesIInv,
   StutterIInv DEF Next

(***************************************************************************)
(* The theorems.                                                           *)
(***************************************************************************)
\* Type correctness of the dispatcher: every variable of sieve_execute_bytecode,
\* do_action_list and do_sieve_error keeps a value of its type in every
\* reachable state, whatever the constants.
THEOREM TypeCorrect == Spec => []TypeOK
<1>1. IInv => TypeOK
  BY DEF IInv
<1>2. QED
  BY InitIInv, NextIInv, <1>1, PTL DEF Spec

\* The implicit keep (do_sieve_error, line 697) never runs for a message on
\* which do_action_list dispatched an action with cancel_keep set: the
\* implicit_keep flag cleared at line 752 is never set again.
THEOREM CancelKeepSafe == Spec => []CancelKeepHonoured
<1>1. IInv => CancelKeepHonoured
  BY DEF IInv, KeepInv, CancelKeepHonoured
<1>2. QED
  BY InitIInv, NextIInv, <1>1, PTL DEF Spec
=============================================================================

---------------------- MODULE SieveDispatchRefinement ----------------------
(***************************************************************************)
(* Proof that sieve_execute_bytecode, do_action_list and do_sieve_error    *)
(* keep the promise SieveExecution makes for one call, for every value of  *)
(* the constants: every step of SieveDispatch is a step of SieveExecution  *)
(* under the mapping Execution, or changes nothing the host sees.          *)
(***************************************************************************)
EXTENDS SieveDispatchProofs, FiniteSetTheorems

(***************************************************************************)
(* The invariants the refinement needs beyond IInv.                        *)
(***************************************************************************)
\* ret is assigned, not ORed, by each action (lines 755-886), and the loop
\* breaks at the first failure; after that, ret only collects errors by OR,
\* so an OK ret means the implicit keep is still due or the message went
\* somewhere.
RetInv ==
    /\ phase = "actions" => /\ ret = "OK"
                            /\ \A i \in DOMAIN executed : executed[i].ok
    /\ phase # "start" /\ ret = "OK" => implicitKeep \/ Disposed
    /\ phase \in {"track", "done"} /\ ret = "OK" => Disposed
    /\ tracked => Disposed

\* one implicit keep: after it the flag is cleared (failure, line 715) or
\* the call is returning (success)
KeepsInv ==
    /\ implicitKeeps \in {0, 1}
    /\ implicitKeeps = 1 => ~implicitKeep \/ phase \in {"track", "done"}

\* the notify loop runs once: the entries it has not reached are unsent, and
\* once it has run the list is gone (notify_list = NULL, line 662)
NoteInv ==
    /\ \A i \in DOMAIN sent : sent[i] \in {0, 1}
    /\ phase = "notify" => /\ notifyPending
                           /\ \A i \in idx .. Len(notes) : sent[i] = 0
    /\ phase # "notify" /\ notifyPending => \A i \in DOMAIN sent : sent[i] = 0

\* do_action_list dispatches the evaluator's list in order: each record
\* is the entry at its index, and the list is one the evaluator produces
PrefixInv ==
    /\ actions \in ActionLists
    /\ \A i \in DOMAIN executed : /\ executed[i].a = actions[i].a
                                 /\ executed[i].cancel_keep = actions[i].cancel_keep

XInv == RetInv /\ KeepsInv /\ NoteInv

RInv == IInv /\ XInv

(***************************************************************************)
(* Lemmas about the operators.                                             *)
(***************************************************************************)
\* ret |= r is zero only when both are: an error, once in ret, stays there
LEMMA RetOrOk ==
    ASSUME NEW a \in Codes, NEW b \in Codes, RetOr(a, b) = "OK"
    PROVE  a = "OK" /\ b = "OK"
BY DEF RetOr, Codes

\* a dispatched action is never undone: appending keeps a disposition
LEMMA AppendKeepsDisposed ==
    ASSUME NEW S, NEW x, executed \in Seq(S), executed' = Append(executed, x),
           keepOk' = keepOk, Disposed
    PROVE  Disposed'
<1>1. \A i \in DOMAIN executed : i \in DOMAIN executed' /\ executed'[i] = executed[i]
  BY AppendProperties
<1>2. QED
  BY <1>1 DEF Disposed

(***************************************************************************)
(* Each step keeps XInv.                                                   *)
(***************************************************************************)
LEMMA InitXInv == Init => XInv
BY DEF Init, XInv, RetInv, KeepsInv, NoteInv, Disposed

LEMMA ExecuteBytecodeXInv == IInv /\ XInv /\ ExecuteBytecode => XInv'
<1> SUFFICES ASSUME IInv, XInv, ExecuteBytecode PROVE XInv'
  OBVIOUS
<1>1. executed = <<>> /\ implicitKeeps = 0
  BY DEF ExecuteBytecode, IInv, Bounds, KeepInv
<1>2. PICK al \in ActionLists, nl \in ListsOf(BOOLEAN, MaxNotify),
           dl \in ListsOf(BOOLEAN, MaxDup) : EvalResult(al, nl, dl)
  BY DEF ExecuteBytecode
<1>3. \A i \in DOMAIN sent' : sent'[i] = 0
  BY <1>2 DEF EvalResult
<1>4. RetInv'
  BY <1>1 DEF ExecuteBytecode, XInv, RetInv, Disposed
<1>5. KeepsInv'
  BY <1>1 DEF ExecuteBytecode, KeepsInv
<1>6. NoteInv'
  BY <1>3 DEF ExecuteBytecode, NoteInv
<1>7. QED
  BY <1>4, <1>5, <1>6 DEF XInv

LEMMA EvalFailedXInv == IInv /\ XInv /\ EvalFailed => XInv'
<1> SUFFICES ASSUME IInv, XInv, EvalFailed PROVE XInv'
  OBVIOUS
<1>1. executed = <<>> /\ implicitKeeps = 0
  BY DEF EvalFailed, IInv, Bounds, KeepInv
<1>2. PICK al \in ActionLists, nl \in ListsOf(BOOLEAN, MaxNotify),
           dl \in ListsOf(BOOLEAN, MaxDup) : EvalResult(al, nl, dl)
  BY DEF EvalFailed
<1>3. \A i \in DOMAIN sent' : sent'[i] = 0
  BY <1>2 DEF EvalResult
<1>4. /\ ret' = "RUN_ERROR" /\ implicitKeep' = FALSE
      /\ phase' \in {"notify", "report"}
      /\ phase' = "notify" => notifyPending'
      /\ idx' = 1
  BY DEF EvalFailed, EnterError
<1>5. RetInv'
  BY <1>1, <1>4 DEF EvalFailed, XInv, RetInv, Disposed
<1>6. KeepsInv'
  BY <1>1, <1>4 DEF EvalFailed, KeepsInv
<1>7. NoteInv'
  <2>1. DOMAIN sent' = 1 .. Len(notes')
    BY <1>2 DEF EvalResult
  <2>2. QED
    BY <1>3, <1>4, <2>1 DEF NoteInv
<1>8. QED
  BY <1>5, <1>6, <1>7 DEF XInv
\* the heart of OkMeansDisposed: an action that cancels the implicit keep
\* clears implicit_keep (line 752) in the same step as it succeeds, and a
\* failing one ends the loop with ret set to its error
LEMMA DoActionXInv == IInv /\ XInv /\ DoAction => XInv'
<1> SUFFICES ASSUME IInv, XInv, DoAction PROVE XInv'
  OBVIOUS
<1> DEFINE e == actions[idx]
           rec(r) == [a |-> e.a, cancel_keep |-> e.cancel_keep, ok |-> r = "OK"]
<1>1. /\ phase = "actions" /\ idx = Len(executed) + 1 /\ idx <= Len(actions)
      /\ ret = "OK" /\ implicitKeeps = 0
      /\ \A i \in DOMAIN executed : executed[i].ok
  BY DEF DoAction, IInv, Bounds, KeepInv, XInv, RetInv
<1>2. PICK r \in Results(e.a) :
        /\ executed' = Append(executed, rec(r))
        /\ IF r = "OK"
             THEN /\ ret' = "OK"
                  /\ implicitKeep' = KeepAfterAction(implicitKeep, e)
                  /\ UNCHANGED <<phase, notifyPending>>
             ELSE EnterError(r, e.a, FALSE, notifyPending)
  BY DEF DoAction
<1>3. /\ executed \in Seq(ExecRecords)
      /\ DOMAIN executed = 1 .. Len(executed)
      /\ DOMAIN executed' = 1 .. Len(executed) + 1
      /\ \A i \in DOMAIN executed : executed'[i] = executed[i]
      /\ executed'[Len(executed) + 1] = rec(r)
  BY <1>2, AppendProperties DEF IInv, TypeOK
<1>4. UNCHANGED <<implicitKeeps, keepOk, sent, tracked, notes>>
  BY DEF DoAction
<1>5. Disposed => Disposed'
  BY <1>2, <1>3, <1>4, AppendKeepsDisposed
<1>6. NoteInv'
  <2>1. phase' = "notify" => notifyPending' /\ idx' = 1
    BY <1>1, <1>2 DEF EnterError
  <2>2. notifyPending' = notifyPending
    BY <1>2 DEF EnterError
  <2>3. DOMAIN sent = 1 .. Len(notes)
    BY DEF IInv, TypeOK
  <2>4. QED
    BY <1>1, <1>4, <2>1, <2>2, <2>3 DEF XInv, NoteInv
<1>7. KeepsInv'
  BY <1>1, <1>4 DEF KeepsInv
<1>8. CASE r = "OK"
  <2>0. /\ ret' = "OK" /\ phase' = "actions"
        /\ implicitKeep' = KeepAfterAction(implicitKeep, e)
    BY <1>1, <1>2, <1>8
  <2>1. \A i \in DOMAIN executed' : executed'[i].ok
    <3>1. rec(r).ok
      BY <1>8
    <3>2. QED
      BY <1>1, <1>3, <3>1
  <2>2. implicitKeep' \/ Disposed'
    <3>1. CASE implicitKeep /\ ~e.cancel_keep
      BY <3>1, <2>0 DEF KeepAfterAction
    <3>2. CASE e.cancel_keep
      <4>1. rec(r).cancel_keep /\ rec(r).ok
        BY <3>2, <1>8
      <4>2. Len(executed) + 1 \in DOMAIN executed'
        BY <1>3, LenProperties
      <4>3. QED
        BY <4>1, <4>2, <1>3, <1>4 DEF Disposed
    <3>3. CASE ~implicitKeep
      BY <3>3, <1>1, <1>5 DEF XInv, RetInv
    <3>4. QED
      BY <3>1, <3>2, <3>3
  <2>3. RetInv'
    BY <1>4, <1>5, <2>0, <2>1, <2>2 DEF XInv, RetInv
  <2>4. QED
    BY <1>6, <1>7, <2>3 DEF XInv
<1>9. CASE r # "OK"
  <2>1. ret' # "OK" /\ phase' \in {"notify", "report"}
    BY <1>2, <1>9 DEF EnterError
  <2>2. RetInv'
    BY <1>4, <1>5, <2>1 DEF XInv, RetInv
  <2>3. QED
    BY <1>6, <1>7, <2>2 DEF XInv
<1>10. QED
  BY <1>8, <1>9

LEMMA DoActionInternalErrorXInv == IInv /\ XInv /\ DoActionInternalError => XInv'
<1> SUFFICES ASSUME IInv, XInv, DoActionInternalError PROVE XInv'
  OBVIOUS
<1>1. implicitKeeps = 0
  BY DEF DoActionInternalError, IInv, KeepInv
<1>2. RetInv'
  BY DEF DoActionInternalError, XInv, RetInv, Disposed
<1>3. KeepsInv'
  BY <1>1 DEF DoActionInternalError, KeepsInv
<1>4. NoteInv'
  BY DEF DoActionInternalError, XInv, NoteInv
<1>5. QED
  BY <1>2, <1>3, <1>4 DEF XInv

LEMMA ActionsEndXInv == IInv /\ XInv /\ ActionsEnd => XInv'
<1> SUFFICES ASSUME IInv, XInv, ActionsEnd PROVE XInv'
  OBVIOUS
<1>1. implicitKeeps = 0 /\ ret = "OK"
  BY DEF ActionsEnd, IInv, KeepInv, XInv, RetInv
<1>2. /\ ret' = ret /\ implicitKeep' = implicitKeep
      /\ notifyPending' = notifyPending /\ phase' \in {"notify", "report"}
      /\ phase' = "notify" => notifyPending' /\ idx' = 1
  BY DEF ActionsEnd, EnterError
<1>3. RetInv'
  BY <1>1, <1>2 DEF ActionsEnd, XInv, RetInv, Disposed
<1>4. KeepsInv'
  BY <1>1, <1>2 DEF ActionsEnd, KeepsInv
<1>5. NoteInv'
  BY <1>2 DEF ActionsEnd, XInv, NoteInv, IInv, TypeOK
<1>6. QED
  BY <1>3, <1>4, <1>5 DEF XInv
\* a notification is sent only from the part of the list not yet reached
LEMMA NotifySendXInv == IInv /\ XInv /\ NotifySend => XInv'
<1> SUFFICES ASSUME IInv, XInv, NotifySend PROVE XInv'
  OBVIOUS
<1>1. /\ phase = "notify" /\ idx \in 1 .. Len(notes) /\ notifyPending
      /\ DOMAIN sent = 1 .. Len(notes) /\ sent[idx] = 0
  BY LenProperties DEF NotifySend, IInv, TypeOK, XInv, NoteInv
<1>2. /\ sent' = [sent EXCEPT ![idx] = 1] /\ idx' = idx + 1
      /\ UNCHANGED <<phase, notes, notifyPending, implicitKeep, implicitKeeps>>
  BY <1>1 DEF NotifySend, Inc, CountCap
<1>3. PICK r \in NotifyResults : ret' = RetOr(ret, r)
  BY DEF NotifySend
<1>4. ret' = "OK" => ret = "OK"
  BY <1>3, RetOrOk DEF NotifyResults, Codes, IInv, TypeOK
<1>5. RetInv'
  BY <1>1, <1>2, <1>4 DEF NotifySend, XInv, RetInv, Disposed
<1>6. KeepsInv'
  BY <1>2 DEF XInv, KeepsInv
<1>7. NoteInv'
  BY <1>1, <1>2 DEF XInv, NoteInv
<1>8. QED
  BY <1>5, <1>6, <1>7 DEF XInv

LEMMA NotifySkipXInv == IInv /\ XInv /\ NotifySkip => XInv'
<1> SUFFICES ASSUME IInv, XInv, NotifySkip PROVE XInv'
  OBVIOUS
<1>1. /\ idx' = idx + 1 /\ idx \in Nat
      /\ UNCHANGED <<phase, notes, sent, notifyPending, implicitKeep,
                     implicitKeeps, ret, executed, keepOk, tracked>>
  BY DEF NotifySkip, IInv, TypeOK
<1>2. RetInv' /\ KeepsInv'
  BY <1>1 DEF XInv, RetInv, KeepsInv, Disposed
<1>3. NoteInv'
  BY <1>1 DEF XInv, NoteInv
<1>4. QED
  BY <1>2, <1>3 DEF XInv

\* after the loop notify_list is NULL (line 662), so a re-entry of
\* do_sieve_error does not send again
LEMMA NotifyEndXInv == IInv /\ XInv /\ NotifyEnd => XInv'
<1> SUFFICES ASSUME IInv, XInv, NotifyEnd PROVE XInv'
  OBVIOUS
<1>1. /\ notifyPending' = FALSE /\ phase' = "report"
      /\ UNCHANGED <<ret, implicitKeep>>
  BY DEF NotifyEnd, EnterError
<1>2. QED
  BY <1>1 DEF NotifyEnd, XInv, RetInv, KeepsInv, NoteInv, Disposed

LEMMA ReportErrorXInv == IInv /\ XInv /\ ReportError => XInv'
<1> SUFFICES ASSUME IInv, XInv, ReportError PROVE XInv'
  OBVIOUS
<1>1. ret' # "OK"
  <2>1. PICK r \in CallResults : ret' = RetOr(ret, r)
    BY DEF ReportError
  <2>2. QED
    BY <2>1, RetOrOk DEF ReportError, MustReport, CallResults, Codes, IInv, TypeOK
<1>2. QED
  BY <1>1 DEF ReportError, XInv, RetInv, KeepsInv, NoteInv, Disposed

LEMMA ReportSkipXInv == IInv /\ XInv /\ ReportSkip => XInv'
BY DEF ReportSkip, XInv, RetInv, KeepsInv, NoteInv, Disposed

\* the implicit keep is made once: it finds implicitKeeps at 0
LEMMA ImplicitKeepOkXInv == IInv /\ XInv /\ ImplicitKeepOk => XInv'
<1> SUFFICES ASSUME IInv, XInv, ImplicitKeepOk PROVE XInv'
  OBVIOUS
<1>1. implicitKeeps = 0
  BY DEF ImplicitKeepOk, XInv, KeepsInv
<1>2. implicitKeeps' = 1 /\ keepOk' /\ phase' = "track"
  BY <1>1 DEF ImplicitKeepOk, Inc, CountCap
<1>3. QED
  BY <1>2 DEF ImplicitKeepOk, XInv, RetInv, KeepsInv, NoteInv, Disposed

LEMMA ImplicitKeepFailedXInv == IInv /\ XInv /\ ImplicitKeepFailed => XInv'
<1> SUFFICES ASSUME IInv, XInv, ImplicitKeepFailed PROVE XInv'
  OBVIOUS
<1>1. implicitKeeps = 0
  BY DEF ImplicitKeepFailed, XInv, KeepsInv
<1>2. /\ implicitKeeps' = 1 /\ implicitKeep' = FALSE
      /\ ret' = RetOr(ret, "FAIL") /\ phase' \in {"notify", "report"}
      /\ notifyPending' = notifyPending
      /\ phase' = "notify" => notifyPending' /\ idx' = 1
  BY <1>1 DEF ImplicitKeepFailed, EnterError, Inc, CountCap
<1>3. ret' # "OK"
  BY <1>2, RetOrOk DEF Codes, IInv, TypeOK
<1>4. DOMAIN sent = 1 .. Len(notes)
  BY DEF IInv, TypeOK
<1>5. QED
  BY <1>2, <1>3, <1>4 DEF ImplicitKeepFailed, XInv, RetInv, KeepsInv, NoteInv,
     Disposed

\* an OK ret without the implicit keep: an action disposed of the message
LEMMA NoImplicitKeepXInv == IInv /\ XInv /\ NoImplicitKeep => XInv'
BY DEF NoImplicitKeep, XInv, RetInv, KeepsInv, NoteInv, Disposed

\* duplicate->track is called only for an OK ret
LEMMA TrackDuplicatesXInv == IInv /\ XInv /\ TrackDuplicates => XInv'
<1> SUFFICES ASSUME IInv, XInv, TrackDuplicates PROVE XInv'
  OBVIOUS
<1>1. /\ (tracked' => ret = "OK") /\ phase = "track" /\ phase' = "done"
      /\ UNCHANGED <<notes, sent, notifyPending, implicitKeep, implicitKeeps,
                     ret, executed, keepOk>>
  BY Zenon DEF TrackDuplicates
<1>2. Disposed' = Disposed
  BY <1>1 DEF Disposed
<1>3. RetInv'
  BY <1>1, <1>2 DEF XInv, RetInv
<1>4. KeepsInv' /\ NoteInv'
  BY <1>1 DEF XInv, KeepsInv, NoteInv
<1>5. QED
  BY <1>3, <1>4 DEF XInv

LEMMA NextXInv == IInv /\ XInv /\ [Next]_vars => XInv'
<1> SUFFICES ASSUME IInv, XInv, [Next]_vars PROVE XInv'
  OBVIOUS
<1>1. CASE UNCHANGED vars
  BY <1>1 DEF vars, XInv, RetInv, KeepsInv, NoteInv, Disposed
<1>2. QED
  BY <1>1, ExecuteBytecodeXInv, EvalFailedXInv, DoActionXInv,
     DoActionInternalErrorXInv, ActionsEndXInv, NotifySendXInv,
     NotifySkipXInv, NotifyEndXInv, ReportErrorXInv, ReportSkipXInv,
     ImplicitKeepOkXInv, ImplicitKeepFailedXInv, NoImplicitKeepXInv,
     TrackDuplicatesXInv DEF Next

LEMMA AlwaysRInv == Spec => []RInv
<1>1. Init => RInv
  BY InitIInv, InitXInv DEF RInv
<1>2. RInv /\ [Next]_vars => RInv'
  BY NextIInv, NextXInv DEF RInv
<1>3. QED
  BY <1>1, <1>2, PTL DEF Spec
(***************************************************************************)
(* Each step of the code maps to a step of SieveExecution or to a stutter. *)
(***************************************************************************)
AbsVars == Execution!avars

LEMMA InitRefines == Init => Execution!AInit
BY DEF Init, Execution!AInit, AbsPhase, Execution!NoResult

\* the evaluator's lists, as SieveExecution chooses them
LEMMA EvalRefines ==
    ASSUME IInv, ExecuteBytecode \/ EvalFailed
    PROVE  Execution!Evaluate
<1>1. PICK al \in ActionLists, nl \in ListsOf(BOOLEAN, MaxNotify),
           dl \in ListsOf(BOOLEAN, MaxDup) : EvalResult(al, nl, dl)
  BY DEF ExecuteBytecode, EvalFailed
<1>2. DOMAIN nl = 1 .. Len(nl)
  <2>1. nl \in Seq(BOOLEAN)
    BY ListsOfSeq, DispatchAssumption
  <2>2. QED
    BY <2>1
<1>3. sent' = [i \in DOMAIN nl |-> 0]
  BY <1>1, <1>2 DEF EvalResult
<1>4. /\ phase = "start" /\ phase' \in {"actions", "notify", "report"}
      /\ UNCHANGED <<executed, implicitKeeps, keepOk, tracked>>
  BY DEF ExecuteBytecode, EvalFailed, EnterError
<1>5. QED
  BY <1>1, <1>3, <1>4 DEF Execution!Evaluate, AbsPhase, EvalResult

\* do_action_list dispatches actions[idx], and idx is the next one
LEMMA DoActionRefines == RInv /\ DoAction => Execution!Dispatch
<1> SUFFICES ASSUME RInv, DoAction PROVE Execution!Dispatch
  OBVIOUS
<1>1. /\ phase = "actions" /\ idx = Len(executed) + 1 /\ idx <= Len(actions)
      /\ \A i \in DOMAIN executed : executed[i].ok
      /\ Len(executed) \in Nat
  BY LenProperties DEF DoAction, RInv, IInv, TypeOK, Bounds, XInv, RetInv
<1>2. PICK r \in Results(actions[idx].a) :
        /\ executed' = Append(executed, [a |-> actions[idx].a,
                                         cancel_keep |-> actions[idx].cancel_keep,
                                         ok |-> r = "OK"])
        /\ IF r = "OK"
             THEN UNCHANGED phase
             ELSE EnterError(r, actions[idx].a, FALSE, notifyPending)
  BY DEF DoAction
<1>3. AbsPhase' = IF r = "OK" THEN "dispatching" ELSE "finishing"
  BY <1>1, <1>2 DEF EnterError, AbsPhase
<1>4. /\ UNCHANGED <<actions, notes, dups, implicitKeeps, keepOk, sent, tracked>>
      /\ phase' # "done"
  BY <1>1, <1>2 DEF DoAction, EnterError
<1>5. \E ok \in BOOLEAN :
        LET e == actions[Len(executed) + 1] IN
        /\ executed' = Append(executed, [a |-> e.a, cancel_keep |-> e.cancel_keep,
                                         ok |-> ok])
        /\ AbsPhase' = IF ok THEN "dispatching" ELSE "finishing"
  <2>1. (r = "OK") \in BOOLEAN
    OBVIOUS
  <2>2. QED
    BY <1>1, <1>2, <1>3, <2>1
<1>6. /\ AbsPhase = "dispatching" /\ Len(executed) < Len(actions)
      /\ (IF phase' = "done" THEN ret' ELSE "none") = "none"
      /\ (IF phase = "done" THEN ret ELSE "none") = "none"
  BY <1>1, <1>4 DEF AbsPhase
<1>7. QED
  BY <1>1, <1>4, <1>5, <1>6 DEF Execution!Dispatch

LEMMA EndDispatchRefines ==
    ASSUME DoActionInternalError \/ ActionsEnd
    PROVE  Execution!EndDispatch
<1>1. /\ phase = "actions" /\ phase' \in {"track", "notify", "report"}
      /\ UNCHANGED <<actions, notes, dups, executed, implicitKeeps, keepOk, sent,
                     tracked>>
  BY DEF DoActionInternalError, ActionsEnd, EnterError
<1>2. QED
  BY <1>1 DEF Execution!EndDispatch, AbsPhase

\* send_notify_callback is called for an active entry still unsent
LEMMA NotifySendRefines == RInv /\ NotifySend => Execution!Notify
<1> SUFFICES ASSUME RInv, NotifySend PROVE Execution!Notify
  OBVIOUS
<1>1. /\ phase = "notify" /\ idx \in DOMAIN notes /\ notes[idx]
      /\ sent[idx] = 0
  BY LenProperties DEF NotifySend, RInv, IInv, TypeOK, XInv, NoteInv
<1>2. /\ sent' = [sent EXCEPT ![idx] = 1]
      /\ UNCHANGED <<phase, actions, notes, dups, executed, implicitKeeps,
                     keepOk, tracked>>
  <2>1. Inc(sent[idx]) = 1
    BY <1>1 DEF Inc, CountCap
  <2>2. sent' = [sent EXCEPT ![idx] = Inc(sent[idx])]
    BY DEF NotifySend
  <2>3. sent' = [sent EXCEPT ![idx] = 1]
    BY <2>1, <2>2, Zenon
  <2>4. UNCHANGED <<phase, actions, notes, dups, executed, implicitKeeps,
                    keepOk, tracked>>
    BY DEF NotifySend
  <2>5. QED
    BY <2>3, <2>4
<1>3. QED
  BY <1>1, <1>2 DEF Execution!Notify, AbsPhase

\* the implicit keep runs with implicit_keep set, hence first and uncancelled
LEMMA ImplicitKeepRefines ==
    ASSUME RInv, ImplicitKeepOk \/ ImplicitKeepFailed
    PROVE  Execution!ImplicitKeep
<1>1. /\ phase = "keep" /\ implicitKeep /\ implicitKeeps = 0
      /\ NoCancelExecuted
  BY DEF ImplicitKeepOk, ImplicitKeepFailed, RInv, XInv, KeepsInv, IInv, KeepInv
<1>2. /\ implicitKeeps' = 1 /\ keepOk' \in BOOLEAN
      /\ phase' \in {"track", "notify", "report"}
      /\ UNCHANGED <<actions, notes, dups, executed, sent, tracked>>
  <2>1. Inc(0) = 1
    BY DEF Inc, CountCap
  <2>2. CASE ImplicitKeepOk
    BY <1>1, <2>1, <2>2 DEF ImplicitKeepOk
  <2>3. CASE ImplicitKeepFailed
    BY <1>1, <2>1, <2>3 DEF ImplicitKeepFailed, EnterError, RInv, IInv, TypeOK
  <2>4. QED
    BY <2>2, <2>3
<1>3. QED
  BY <1>1, <1>2 DEF Execution!ImplicitKeep, Execution!NoCancel,
     NoCancelExecuted, AbsPhase

\* sieve_execute_bytecode returns ret, and OK only for a disposed message
LEMMA TrackDuplicatesRefines == RInv /\ TrackDuplicates => Execution!Return
<1> SUFFICES ASSUME RInv, TrackDuplicates PROVE Execution!Return
  OBVIOUS
<1>1. /\ phase = "track" /\ phase' = "done" /\ ret \in Codes
      /\ ret = "OK" => Disposed
  BY DEF TrackDuplicates, RInv, IInv, TypeOK, XInv, RetInv
<1>2. tracked' \in IF ret = "OK" /\ \E i \in DOMAIN dups : dups[i]
                   THEN BOOLEAN ELSE {FALSE}
  BY DEF TrackDuplicates
<1>3. UNCHANGED <<actions, notes, dups, executed, implicitKeeps, keepOk, sent,
                  ret>>
  BY DEF TrackDuplicates
<1>4. QED
  BY <1>1, <1>2, <1>3 DEF Execution!Return, Execution!Disposed, Disposed,
     AbsPhase

\* the steps SieveExecution leaves free: the end of the notify loop,
\* execute_err, and return without implicit keep
LEMMA StutterRefines ==
    ASSUME NotifySkip \/ NotifyEnd \/ ReportError \/ ReportSkip \/ NoImplicitKeep
           \/ UNCHANGED vars
    PROVE  UNCHANGED AbsVars
<1>1. /\ phase \in {"notify", "report", "keep"} \/ UNCHANGED vars
      /\ phase' \in {"notify", "report", "keep", "track"} \/ UNCHANGED vars
  BY DEF NotifySkip, NotifyEnd, ReportError, ReportSkip, NoImplicitKeep,
     EnterError
<1>2. UNCHANGED <<actions, notes, dups, executed, implicitKeeps, keepOk, sent,
                  tracked>>
  BY DEF NotifySkip, NotifyEnd, ReportError, ReportSkip, NoImplicitKeep, vars
<1>3. QED
  BY <1>1, <1>2 DEF AbsVars, Execution!avars, AbsPhase, vars

LEMMA NextRefines == RInv /\ [Next]_vars => [Execution!ANext]_AbsVars
<1> SUFFICES ASSUME RInv, [Next]_vars PROVE [Execution!ANext]_AbsVars
  OBVIOUS
<1>1. CASE ExecuteBytecode \/ EvalFailed
  BY <1>1, EvalRefines DEF RInv, Execution!ANext
<1>2. CASE DoAction
  BY <1>2, DoActionRefines DEF Execution!ANext
<1>3. CASE DoActionInternalError \/ ActionsEnd
  BY <1>3, EndDispatchRefines DEF Execution!ANext
<1>4. CASE NotifySend
  BY <1>4, NotifySendRefines DEF Execution!ANext
<1>5. CASE ImplicitKeepOk \/ ImplicitKeepFailed
  BY <1>5, ImplicitKeepRefines DEF Execution!ANext
<1>6. CASE TrackDuplicates
  BY <1>6, TrackDuplicatesRefines DEF Execution!ANext
<1>7. CASE NotifySkip \/ NotifyEnd \/ ReportError \/ ReportSkip \/ NoImplicitKeep
           \/ UNCHANGED vars
  BY <1>7, StutterRefines
<1>8. QED
  BY <1>1, <1>2, <1>3, <1>4, <1>5, <1>6, <1>7 DEF Next
(***************************************************************************)
(* The theorems.                                                           *)
(***************************************************************************)
\* For every value of the constants, one call of sieve_execute_bytecode
\* with do_action_list and do_sieve_error takes only steps SieveExecution
\* allows: actions in order and none after a failure, each active
\* notification at most once, at most one implicit keep and none after a
\* cancelling action, OK only for a disposed message, duplicate records only
\* for OK.  That the call returns is ASpec's fairness, checked by TLC.
THEOREM DispatchRefinesExecution == Spec => Execution!ASafety
<1>1. Spec => Init /\ []RInv /\ [][Next]_vars
  BY AlwaysRInv, PTL DEF Spec
<1>2. []RInv /\ [][Next]_vars => [][Execution!ANext]_AbsVars
  BY NextRefines, PTL
<1>3. Init /\ [][Execution!ANext]_AbsVars => Execution!ASafety
  BY InitRefines DEF Execution!ASafety, AbsVars
<1>4. QED
  BY <1>1, <1>2, <1>3

\* sieve_execute_bytecode returns SIEVE_OK only for a message that an action
\* or the implicit keep disposed of, whatever the lists and the callbacks'
\* results: the caller does not fall back to INBOX (comment at line 900).
THEOREM OkDisposed == Spec => []OkMeansDisposed
<1>1. RInv => OkMeansDisposed
  BY DEF RInv, XInv, RetInv, OkMeansDisposed
<1>2. QED
  BY <1>1, AlwaysRInv, PTL

\* duplicate->track (line 1002) never records a message that was not
\* disposed of.
THEOREM TrackedDisposed == Spec => []TrackedOnlyIfDisposed
<1>1. RInv => TrackedOnlyIfDisposed
  BY DEF RInv, XInv, RetInv, TrackedOnlyIfDisposed
<1>2. QED
  BY <1>1, AlwaysRInv, PTL

\* No notification is sent twice, though do_sieve_error re-enters itself
\* after a failed notification or implicit keep (lines 663-671).
THEOREM NotifyOnce == Spec => []NotifyAtMostOnce
<1>1. RInv => NotifyAtMostOnce
  BY DEF RInv, XInv, NoteInv, NotifyAtMostOnce
<1>2. QED
  BY <1>1, AlwaysRInv, PTL
(***************************************************************************)
(* The keep callback runs at most once.                                    *)
(***************************************************************************)
LEMMA InitPrefix == Init => PrefixInv
<1> SUFFICES ASSUME Init PROVE PrefixInv
  OBVIOUS
<1>1. <<>> \in ListsOf(Entries, MaxActions)
  <2>1. <<>> \in [1 .. 0 -> Entries] /\ 0 \in 0 .. MaxActions
    BY DispatchAssumption
  <2>2. QED
    BY <2>1 DEF ListsOf
<1>2. QED
  BY <1>1 DEF Init, PrefixInv, ActionLists

LEMMA NextPrefix == IInv /\ PrefixInv /\ [Next]_vars => PrefixInv'
<1> SUFFICES ASSUME IInv, PrefixInv, [Next]_vars PROVE PrefixInv'
  OBVIOUS
<1>1. CASE ExecuteBytecode \/ EvalFailed
  <2>1. executed = <<>> /\ executed' = <<>>
    BY <1>1 DEF ExecuteBytecode, EvalFailed, IInv, Bounds
  <2>2. actions' \in ActionLists
    BY <1>1 DEF ExecuteBytecode, EvalFailed, EvalResult
  <2>3. QED
    BY <2>1, <2>2 DEF PrefixInv
<1>2. CASE DoAction
  <2>1. /\ idx = Len(executed) + 1 /\ executed \in Seq(ExecRecords)
        /\ actions' = actions
    BY <1>2 DEF DoAction, IInv, Bounds, TypeOK
  <2>2. PICK r \in Results(actions[idx].a) :
          executed' = Append(executed, [a |-> actions[idx].a,
                                        cancel_keep |-> actions[idx].cancel_keep,
                                        ok |-> r = "OK"])
    BY <1>2 DEF DoAction
  <2>3. /\ DOMAIN executed' = 1 .. Len(executed) + 1
        /\ DOMAIN executed = 1 .. Len(executed)
        /\ \A i \in 1 .. Len(executed) : executed'[i] = executed[i]
        /\ executed'[Len(executed) + 1].a = actions[idx].a
        /\ executed'[Len(executed) + 1].cancel_keep = actions[idx].cancel_keep
    BY <2>1, <2>2, AppendProperties
  <2>4. QED
    BY <2>1, <2>3 DEF PrefixInv
<1>3. CASE \/ DoActionInternalError \/ ActionsEnd \/ NotifySend \/ NotifySkip
           \/ NotifyEnd \/ ReportError \/ ReportSkip \/ ImplicitKeepOk
           \/ ImplicitKeepFailed \/ NoImplicitKeep \/ TrackDuplicates
           \/ UNCHANGED vars
  <2>1. UNCHANGED <<actions, executed>>
    BY <1>3 DEF DoActionInternalError, ActionsEnd, NotifySend, NotifySkip,
       NotifyEnd, ReportError, ReportSkip, ImplicitKeepOk, ImplicitKeepFailed,
       NoImplicitKeep, TrackDuplicates, vars
  <2>2. QED
    BY <2>1 DEF PrefixInv
<1>4. QED
  BY <1>1, <1>2, <1>3 DEF Next

LEMMA AlwaysPrefix == Spec => [](RInv /\ PrefixInv)
<1>1. Init => RInv /\ PrefixInv
  BY InitIInv, InitXInv, InitPrefix DEF RInv
<1>2. RInv /\ PrefixInv /\ [Next]_vars => (RInv /\ PrefixInv)'
  BY NextIInv, NextXInv, NextPrefix DEF RInv
<1>3. QED
  BY <1>1, <1>2, PTL DEF Spec

\* The keep callback runs at most once per message, whatever the lists and
\* the callbacks' results: the evaluator records at most one explicit keep,
\* an explicit keep cancels the implicit one (line 752), and a failed
\* implicit keep is not retried when do_sieve_error re-enters itself
\* (line 715).
THEOREM KeepOnce == Spec => []KeepAtMostOnce
<1>1. RInv /\ PrefixInv => KeepAtMostOnce
  <2> SUFFICES ASSUME RInv, PrefixInv PROVE KeepAtMostOnce
    OBVIOUS
  <2> DEFINE K == {i \in DOMAIN executed : executed[i].a = "Keep"}
  <2>1. implicitKeeps \in {0, 1}
    BY DEF RInv, XInv, KeepsInv
  <2>2. /\ executed \in Seq(ExecRecords) /\ actions \in Seq(Entries)
        /\ Len(executed) <= Len(actions)
    BY DEF RInv, IInv, TypeOK, Bounds
  <2>3. DOMAIN executed \subseteq DOMAIN actions
    BY <2>2, LenProperties
  <2>4. CASE K = {}
    <3>1. Cardinality(K) = 0
      BY <2>4, FS_EmptySet
    <3>2. QED
      BY <2>1, <3>1 DEF KeepAtMostOnce, KeepCalls
  <2>5. CASE K # {}
    <3>1. PICK i \in K : TRUE
      BY <2>5
    <3>2. K = {i}
      <4>1. ASSUME NEW j \in K PROVE j = i
        <5>1. actions[i].a = "Keep" /\ actions[j].a = "Keep"
          BY DEF PrefixInv
        <5>2. QED
          BY <5>1, <2>3 DEF PrefixInv, ActionLists
      <4>2. QED
        BY <4>1
    <3>3. Cardinality(K) = 1
      BY <3>2, FS_Singleton
    <3>4. executed[i].cancel_keep
      <4>1. actions[i] \in Entries
        BY <2>2, <2>3, ElementOfSeq
      <4>2. actions[i].cancel_keep \in CancelKeepOf("Keep")
        BY <4>1 DEF PrefixInv, Entries
      <4>3. QED
        BY <4>2 DEF PrefixInv, CancelKeepOf
    <3>5. implicitKeeps = 0
      BY <3>4, <2>1 DEF RInv, IInv, KeepInv, NoCancelExecuted
    <3>6. QED
      BY <3>3, <3>5 DEF KeepAtMostOnce, KeepCalls
  <2>6. QED
    BY <2>4, <2>5
<1>2. QED
  BY <1>1, AlwaysPrefix, PTL
====

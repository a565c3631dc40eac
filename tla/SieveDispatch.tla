--------------------------- MODULE SieveDispatch ---------------------------
(***************************************************************************)
(* The post-evaluation half of sieve_execute_bytecode (src/sieve/script.c): *)
(* do_action_list walks the action list produced by the evaluator and      *)
(* calls the host callbacks, do_sieve_error sends the pending              *)
(* notifications, reports a failure through execute_err, performs the      *)
(* implicit keep and re-enters itself when a notification or the implicit  *)
(* keep fails, and sieve_execute_bytecode finally writes the duplicate-    *)
(* tracking records when the outcome is SIEVE_OK.                          *)
(*                                                                         *)
(* One behaviour is one call of sieve_execute_bytecode.  Every host        *)
(* callback is a nondeterministic choice of its return code; the lists the *)
(* evaluator (sieve_eval_bc, not in this file) hands back are chosen from  *)
(* small sets.  The recursion of do_sieve_error is a jump back to its      *)
(* entry (phase "notify" or "report"); the operator trace is left out.     *)
(***************************************************************************)
EXTENDS Naturals, Sequences, FiniteSets

CONSTANTS
    Items,        \* payloads: mailbox names, redirect addresses, reject texts
    NoItem,       \* interp->lastitem == NULL
    RegChoices,   \* the sets of callbacks a host may have registered
    MaxActions,   \* bound on the length of the action list
    MaxNotify,    \* bound on the length of the notify list
    MaxDup        \* bound on the length of the duplicate-tracking list

Callbacks == {"reject", "fileinto", "snooze", "keep", "redirect", "discard",
              "vacation", "notify", "execute_err", "duplicate"}

ASSUME DispatchAssumption ==
    /\ NoItem \notin Items
    /\ RegChoices \subseteq SUBSET Callbacks
    \* interp_verify refuses an interpreter without keep (spec 4.1)
    /\ \A r \in RegChoices : "keep" \in r
    /\ MaxActions \in Nat /\ MaxNotify \in Nat /\ MaxDup \in Nat

\* Calls counted by the observation counters saturate here.
CountCap == 2

(***************************************************************************)
(* Values.                                                                 *)
(***************************************************************************)
\* action_t values that reach do_action_list (action_to_string names);
\* ACTION_EREJECT takes the ACTION_REJECT branch and is folded into it.
ActionKinds == {"Reject", "Fileinto", "Snooze", "Keep", "Redirect",
                "Discard", "Vacation", "None"}
\* the branches that leave an xstrdup'ed lastitem behind
ItemKinds == {"Reject", "Fileinto", "Redirect"}
\* lastaction == -1: no action was executed
Never == "Never"
LastActions == ActionKinds \cup {"Notify", Never}

\* return codes; "MIXED" stands for the bitwise OR of two different error
\* codes, which is again non-zero
Codes == {"OK", "FAIL", "RUN_ERROR", "INTERNAL_ERROR", "MIXED"}
CallResults == {"OK", "FAIL"}

\* ret |= r
RetOr(a, b) == IF a = "OK" THEN b
               ELSE IF b = "OK" \/ b = a THEN a
               ELSE "MIXED"

\* the callback a kind needs; discard is optional (line 837) and ACTION_NONE
\* calls nothing
CallbackOf(k) == CASE k = "Reject"   -> "reject"
                   [] k = "Fileinto" -> "fileinto"
                   [] k = "Snooze"   -> "snooze"
                   [] k = "Keep"     -> "keep"
                   [] k = "Redirect" -> "redirect"
                   [] k = "Vacation" -> "vacation"
                   [] OTHER          -> "none"

\* the cancel_keep flag the evaluator gives each kind (spec 4.3): fileinto
\* and redirect keep the implicit keep with :copy, ACTION_NONE never cancels
CancelKeepOf(k) == CASE k \in {"Fileinto", "Redirect"} -> BOOLEAN
                     [] k = "None"                      -> {FALSE}
                     [] OTHER                           -> {TRUE}

Entries == {e \in [a : ActionKinds, cancel_keep : BOOLEAN,
                   item : Items \cup {NoItem}] :
              /\ (e.item # NoItem) <=> (e.a \in ItemKinds)
              /\ e.cancel_keep \in CancelKeepOf(e.a)}

ListsOf(S, n) == UNION {[1 .. k -> S] : k \in 0 .. n}

\* the evaluator records at most one explicit keep
ActionLists == {l \in ListsOf(Entries, MaxActions) :
                  \A i, j \in DOMAIN l :
                     l[i].a = "Keep" /\ l[j].a = "Keep" => i = j}

\* outcome of the two-phase vacation branch (lines 850-886)
VacationOutcomes == {"sent", "suppressed", "autorespond_failed", "send_failed"}

Phases == {"start", "actions", "notify", "report", "keep", "track", "done"}

(***************************************************************************)
(* State.                                                                  *)
(***************************************************************************)
VARIABLES
    reg,            \* the callbacks registered in the interpreter
    lastitem,       \* interp->lastitem: survives from call to call
    phase,          \* where the single thread of control is
    actions,        \* the action list (sequence of Entries)
    notes,          \* the notify list: isactive flag of each entry
    dups,           \* the duptrack list: whether each entry has an id
    idx,            \* cursor into actions, then into notes
    implicitKeep,   \* the implicit_keep local
    ret,            \* the ret local
    lastaction,     \* the lastaction local
    notifyRet,      \* the notify_ret local of the notify loop
    notifyPending,  \* notify_list is not NULL
    executed,       \* observation: actions whose callback ran, with result
    implicitKeeps,  \* observation: implicit-keep calls (saturating)
    keepOk,         \* observation: an implicit keep succeeded
    sent,           \* observation: notify callbacks per notify entry
    reportCount,    \* observation: execute_err calls (saturating)
    reported,       \* observation: the <<lastaction, lastitem>> reported
    tracked         \* observation: duplicate->track was called

vars == <<reg, lastitem, phase, actions, notes, dups, idx, implicitKeep, ret,
          lastaction, notifyRet, notifyPending, executed, implicitKeeps,
          keepOk, sent, reportCount, reported, tracked>>

Inc(n) == IF n < CountCap THEN n + 1 ELSE n

\* what do_action_list records of a dispatched action
ExecRecords == [a : ActionKinds, cancel_keep : BOOLEAN, ok : BOOLEAN]

TypeOK ==
    /\ reg \in RegChoices
    /\ lastitem \in Items \cup {NoItem}
    /\ phase \in Phases
    /\ actions \in Seq(Entries) /\ Len(actions) <= MaxActions
    /\ notes \in Seq(BOOLEAN) /\ Len(notes) <= MaxNotify
    /\ dups \in Seq(BOOLEAN) /\ Len(dups) <= MaxDup
    /\ idx \in 1 .. (MaxActions + MaxNotify + 1)
    /\ implicitKeep \in BOOLEAN
    /\ ret \in Codes
    /\ lastaction \in LastActions
    /\ notifyRet \in Codes
    /\ notifyPending \in BOOLEAN
    /\ executed \in Seq(ExecRecords) /\ Len(executed) <= MaxActions
    /\ implicitKeeps \in 0 .. CountCap
    /\ keepOk \in BOOLEAN
    /\ sent \in [1 .. Len(notes) -> 0 .. CountCap]
    /\ reportCount \in 0 .. CountCap
    /\ reported \in SUBSET [action : LastActions, item : Items \cup {NoItem}]
    /\ tracked \in BOOLEAN

(***************************************************************************)
(* Entering do_sieve_error(r, ..., lastaction = la, implicit_keep = ik):   *)
(* the notify loop runs when notify is registered and notify_list is not   *)
(* NULL (pending), otherwise control goes straight to the error report.    *)
(* The line appended to actions_string when r # SIEVE_OK is not modelled.  *)
(***************************************************************************)
EnterError(r, la, ik, pending) ==
    /\ ret' = r
    /\ lastaction' = la
    /\ implicitKeep' = ik
    /\ notifyPending' = pending
    /\ phase' = IF "notify" \in reg /\ pending THEN "notify" ELSE "report"
    /\ idx' = 1
    /\ notifyRet' = "OK"

\* What sieve_eval_bc hands back: the three lists, the notify list and the
\* duptrack list allocated only when the matching capability is registered.
EvalResult(al, nl, dl) ==
    /\ "notify" \notin reg => nl = <<>>
    /\ "duplicate" \notin reg => dl = <<>>
    /\ actions' = al
    /\ notes' = nl
    /\ dups' = dl
    /\ sent' = [i \in 1 .. Len(nl) |-> 0]

\* sieve_execute_bytecode: evaluation succeeded, do_action_list starts with
\* implicit_keep = 1, ret = 0 and lastaction = -1.
ExecuteBytecode ==
    /\ phase = "start"
    /\ \E al \in ActionLists, nl \in ListsOf(BOOLEAN, MaxNotify),
          dl \in ListsOf(BOOLEAN, MaxDup) : EvalResult(al, nl, dl)
    /\ phase' = "actions"
    /\ idx' = 1
    /\ implicitKeep' = TRUE
    /\ ret' = "OK"
    /\ lastaction' = Never
    /\ notifyPending' = ("notify" \in reg)
    /\ notifyRet' = "OK"
    /\ UNCHANGED <<reg, lastitem, executed, implicitKeeps, keepOk,
                   reportCount, reported, tracked>>

\* sieve_execute_bytecode: sieve_eval_bc returned < 0; whatever it had
\* appended is handed to do_sieve_error(SIEVE_RUN_ERROR) with implicit_keep 0.
EvalFailed ==
    /\ phase = "start"
    /\ \E al \in ActionLists, nl \in ListsOf(BOOLEAN, MaxNotify),
          dl \in ListsOf(BOOLEAN, MaxDup) : EvalResult(al, nl, dl)
    /\ EnterError("RUN_ERROR", Never, FALSE, "notify" \in reg)
    /\ UNCHANGED <<reg, lastitem, executed, implicitKeeps, keepOk,
                   reportCount, reported, tracked>>

\* mutant: cancel_keep is not consulted
KeepAfterActionIgnoringCancel(ik, e) == ik

\* implicit_keep = implicit_keep && !a->cancel_keep, before the callback
KeepAfterAction(ik, e) == ik /\ ~e.cancel_keep

\* the value of ret after the branch of the switch for kind k
VacationRet(v) == IF v \in {"sent", "suppressed"} THEN "OK" ELSE "FAIL"
Results(k) ==
    CASE k = "None"                          -> {"OK"}
      [] k = "Discard" /\ "discard" \notin reg -> {"OK"}
      [] k = "Vacation"                      -> {VacationRet(v) : v \in VacationOutcomes}
      [] OTHER                               -> CallResults

\* the branch of a kind whose mandatory callback is not registered:
\* do_action_list returns SIEVE_INTERNAL_ERROR at once, without
\* do_sieve_error (no notification, no report, no implicit keep)
MissingCallback(e) == e.a \notin {"Discard", "None"} /\ CallbackOf(e.a) \notin reg

\* lastitem after the branch: xstrdup of the payload, NULL, or untouched
ItemAfter(e) == IF e.a = "None" THEN lastitem ELSE e.item

DoActionInternalError ==
    /\ phase = "actions"
    /\ idx <= Len(actions)
    /\ MissingCallback(actions[idx])
    /\ ret' = "INTERNAL_ERROR"
    /\ lastaction' = actions[idx].a
    /\ implicitKeep' = KeepAfterAction(implicitKeep, actions[idx])
    /\ phase' = "track"
    /\ UNCHANGED <<reg, lastitem, actions, notes, dups, idx, notifyRet,
                   notifyPending, executed, implicitKeeps, keepOk, sent,
                   reportCount, reported, tracked>>

\* mutant: a failed callback does not break out of the loop
DoActionNoBreak ==
    /\ phase = "actions"
    /\ idx <= Len(actions)
    /\ ~MissingCallback(actions[idx])
    /\ \E r \in Results(actions[idx].a) :
          LET e == actions[idx] IN
          /\ lastitem' = ItemAfter(e)
          /\ executed' = Append(executed, [a |-> e.a, cancel_keep |-> e.cancel_keep,
                                           ok |-> r = "OK"])
          /\ ret' = IF r = "OK" THEN "OK" ELSE r
          /\ lastaction' = e.a
          /\ implicitKeep' = (r = "OK" /\ KeepAfterAction(implicitKeep, e))
          /\ idx' = idx + 1
          /\ UNCHANGED <<phase, notifyRet, notifyPending>>
    /\ UNCHANGED <<reg, actions, notes, dups, implicitKeeps, keepOk, sent,
                   reportCount, reported, tracked>>

\* one iteration of the loop of do_action_list: the callback runs, lastitem
\* is replaced; on success the loop goes on, on failure it breaks with
\* implicit_keep = 0 into do_sieve_error(ret, ..., lastaction, ...)
DoAction ==
    /\ phase = "actions"
    /\ idx <= Len(actions)
    /\ ~MissingCallback(actions[idx])
    /\ \E r \in Results(actions[idx].a) :
          LET e == actions[idx] IN
          /\ lastitem' = ItemAfter(e)
          /\ executed' = Append(executed, [a |-> e.a, cancel_keep |-> e.cancel_keep,
                                           ok |-> r = "OK"])
          /\ IF r = "OK"
               THEN /\ ret' = "OK"
                    /\ lastaction' = e.a
                    /\ implicitKeep' = KeepAfterAction(implicitKeep, e)
                    /\ idx' = idx + 1
                    /\ UNCHANGED <<phase, notifyRet, notifyPending>>
               ELSE EnterError(r, e.a, FALSE, notifyPending)
    /\ UNCHANGED <<reg, actions, notes, dups, implicitKeeps, keepOk, sent,
                   reportCount, reported, tracked>>

\* mutant: do_sieve_error is entered with implicit_keep = 1
ActionsEndKeepForced ==
    /\ phase = "actions"
    /\ idx > Len(actions)
    /\ EnterError(ret, lastaction, TRUE, notifyPending)
    /\ UNCHANGED <<reg, lastitem, actions, notes, dups, executed,
                   implicitKeeps, keepOk, sent, reportCount, reported, tracked>>

\* the loop of do_action_list ran off the end of the list
ActionsEnd ==
    /\ phase = "actions"
    /\ idx > Len(actions)
    /\ EnterError(ret, lastaction, implicitKeep, notifyPending)
    /\ UNCHANGED <<reg, lastitem, actions, notes, dups, executed,
                   implicitKeeps, keepOk, sent, reportCount, reported, tracked>>

(***************************************************************************)
(* do_sieve_error, lines 643-673: every active entry of the notify list is *)
(* sent through send_notify_callback; ret collects the results by OR and   *)
(* notify_ret keeps only the last one.                                     *)
(***************************************************************************)
\* send_notify_callback: SIEVE_RUN_ERROR for an incomplete entry (lines
\* 419-421), otherwise whatever interp->notify returns
NotifyResults == {"OK", "FAIL", "RUN_ERROR"}

NotifySend ==
    /\ phase = "notify"
    /\ idx <= Len(notes)
    /\ notes[idx]
    /\ \E r \in NotifyResults :
          /\ lastaction' = "Notify"
          /\ ret' = RetOr(ret, r)
          /\ notifyRet' = r
    /\ sent' = [sent EXCEPT ![idx] = Inc(@)]
    /\ idx' = idx + 1
    /\ UNCHANGED <<reg, lastitem, phase, actions, notes, dups, implicitKeep,
                   notifyPending, executed, implicitKeeps, keepOk,
                   reportCount, reported, tracked>>

NotifySkip ==
    /\ phase = "notify"
    /\ idx <= Len(notes)
    /\ ~notes[idx]
    /\ idx' = idx + 1
    /\ UNCHANGED <<reg, lastitem, phase, actions, notes, dups, implicitKeep,
                   ret, lastaction, notifyRet, notifyPending, executed,
                   implicitKeeps, keepOk, sent, reportCount, reported, tracked>>

\* mutant: the recursive call is handed the notify list again
NotifyEndKeepingList ==
    /\ phase = "notify"
    /\ idx > Len(notes)
    /\ IF notifyRet # "OK"
         THEN EnterError(ret, lastaction, implicitKeep, TRUE)
         ELSE /\ notifyPending' = FALSE
              /\ phase' = "report"
              /\ UNCHANGED <<idx, ret, lastaction, implicitKeep, notifyRet>>
    /\ UNCHANGED <<reg, lastitem, actions, notes, dups, executed,
                   implicitKeeps, keepOk, sent, reportCount, reported, tracked>>

\* after the loop the list is freed and notify_list = NULL; when the last
\* notification failed, do_sieve_error re-enters itself with that NULL list
NotifyEnd ==
    /\ phase = "notify"
    /\ idx > Len(notes)
    /\ IF notifyRet # "OK"
         THEN EnterError(ret, lastaction, implicitKeep, FALSE)
         ELSE /\ notifyPending' = FALSE
              /\ phase' = "report"
              /\ UNCHANGED <<idx, ret, lastaction, implicitKeep, notifyRet>>
    /\ UNCHANGED <<reg, lastitem, actions, notes, dups, executed,
                   implicitKeeps, keepOk, sent, reportCount, reported, tracked>>

(***************************************************************************)
(* do_sieve_error, lines 675-695: a non-OK ret is reported to execute_err  *)
(* as "<lastaction> (<lastitem>): <reason>", or "<reason>" when no action  *)
(* ran; the callback's own result is ORed into ret.                        *)
(***************************************************************************)
MustReport == ret # "OK" /\ "execute_err" \in reg

ReportError ==
    /\ phase = "report"
    /\ MustReport
    /\ \E r \in CallResults : ret' = RetOr(ret, r)
    /\ reported' = reported \cup
                   {[action |-> lastaction,
                     item   |-> IF lastaction = Never THEN NoItem ELSE lastitem]}
    /\ reportCount' = Inc(reportCount)
    /\ phase' = "keep"
    /\ UNCHANGED <<reg, lastitem, actions, notes, dups, idx, implicitKeep,
                   lastaction, notifyRet, notifyPending, executed,
                   implicitKeeps, keepOk, sent, tracked>>

ReportSkip ==
    /\ phase = "report"
    /\ ~MustReport
    /\ phase' = "keep"
    /\ UNCHANGED <<reg, lastitem, actions, notes, dups, idx, implicitKeep, ret,
                   lastaction, notifyRet, notifyPending, executed,
                   implicitKeeps, keepOk, sent, reportCount, reported, tracked>>

(***************************************************************************)
(* do_sieve_error, lines 697-726: the implicit keep.  On failure           *)
(* implicit_keep is cleared and do_sieve_error re-enters itself.           *)
(***************************************************************************)
ImplicitKeepOk ==
    /\ phase = "keep"
    /\ implicitKeep
    /\ lastaction' = "Keep"
    /\ implicitKeeps' = Inc(implicitKeeps)
    /\ keepOk' = TRUE
    /\ phase' = "track"
    /\ UNCHANGED <<reg, lastitem, actions, notes, dups, idx, implicitKeep, ret,
                   notifyRet, notifyPending, executed, sent, reportCount,
                   reported, tracked>>

\* mutant: implicit_keep is not cleared before the recursive call
ImplicitKeepFailedRetrying ==
    /\ phase = "keep"
    /\ implicitKeep
    /\ implicitKeeps' = Inc(implicitKeeps)
    /\ EnterError(RetOr(ret, "FAIL"), "Keep", TRUE, notifyPending)
    /\ UNCHANGED <<reg, lastitem, actions, notes, dups, executed, keepOk, sent,
                   reportCount, reported, tracked>>

\* mutant: keep_ret is not ORed into ret
ImplicitKeepFailedUnrecorded ==
    /\ phase = "keep"
    /\ implicitKeep
    /\ implicitKeeps' = Inc(implicitKeeps)
    /\ EnterError(ret, "Keep", FALSE, notifyPending)
    /\ UNCHANGED <<reg, lastitem, actions, notes, dups, executed, keepOk, sent,
                   reportCount, reported, tracked>>

ImplicitKeepFailed ==
    /\ phase = "keep"
    /\ implicitKeep
    /\ implicitKeeps' = Inc(implicitKeeps)
    /\ EnterError(RetOr(ret, "FAIL"), "Keep", FALSE, notifyPending)
    /\ UNCHANGED <<reg, lastitem, actions, notes, dups, executed, keepOk, sent,
                   reportCount, reported, tracked>>

\* no implicit keep: free the action list and return ret
NoImplicitKeep ==
    /\ phase = "keep"
    /\ ~implicitKeep
    /\ phase' = "track"
    /\ UNCHANGED <<reg, lastitem, actions, notes, dups, idx, implicitKeep, ret,
                   lastaction, notifyRet, notifyPending, executed,
                   implicitKeeps, keepOk, sent, reportCount, reported, tracked>>

(***************************************************************************)
(* sieve_execute_bytecode, lines 992-1011: duplicate->track for every      *)
(* record that has an id, only when the interpreter has duplicate support  *)
(* and ret == SIEVE_OK.  track's result is ignored.                        *)
(***************************************************************************)
\* mutant: the records are written whatever ret is
TrackDuplicatesAlways ==
    /\ phase = "track"
    /\ tracked' = ("duplicate" \in reg /\ \E i \in DOMAIN dups : dups[i])
    /\ phase' = "done"
    /\ UNCHANGED <<reg, lastitem, actions, notes, dups, idx, implicitKeep, ret,
                   lastaction, notifyRet, notifyPending, executed,
                   implicitKeeps, keepOk, sent, reportCount, reported>>

TrackDuplicates ==
    /\ phase = "track"
    /\ tracked' = ("duplicate" \in reg /\ ret = "OK" /\ \E i \in DOMAIN dups : dups[i])
    /\ phase' = "done"
    /\ UNCHANGED <<reg, lastitem, actions, notes, dups, idx, implicitKeep, ret,
                   lastaction, notifyRet, notifyPending, executed,
                   implicitKeeps, keepOk, sent, reportCount, reported>>

(***************************************************************************)
(* The specification.                                                      *)
(***************************************************************************)
\* A fresh call: the interpreter's lastitem is whatever an earlier call on
\* the same interpreter left behind.
Init ==
    /\ reg \in RegChoices
    /\ lastitem \in Items \cup {NoItem}
    /\ phase = "start"
    /\ actions = <<>>
    /\ notes = <<>>
    /\ dups = <<>>
    /\ idx = 1
    /\ implicitKeep = FALSE
    /\ ret = "OK"
    /\ lastaction = Never
    /\ notifyRet = "OK"
    /\ notifyPending = FALSE
    /\ executed = <<>>
    /\ implicitKeeps = 0
    /\ keepOk = FALSE
    /\ sent = <<>>
    /\ reportCount = 0
    /\ reported = {}
    /\ tracked = FALSE

Next ==
    \/ ExecuteBytecode
    \/ EvalFailed
    \/ DoAction
    \/ DoActionInternalError
    \/ ActionsEnd
    \/ NotifySend
    \/ NotifySkip
    \/ NotifyEnd
    \/ ReportError
    \/ ReportSkip
    \/ ImplicitKeepOk
    \/ ImplicitKeepFailed
    \/ NoImplicitKeep
    \/ TrackDuplicates

\* The engine is one synchronous thread: while the call has not returned,
\* its next step is always enabled and is taken (spec section 5).
Spec == Init /\ [][Next]_vars /\ WF_vars(Next)

(***************************************************************************)
(* Properties.                                                             *)
(***************************************************************************)
NoCancelExecuted == \A i \in DOMAIN executed : ~executed[i].cancel_keep

\* The message went somewhere: an action that replaces delivery succeeded,
\* or the implicit keep did.
Disposed ==
    \/ keepOk
    \/ \E i \in DOMAIN executed : executed[i].cancel_keep /\ executed[i].ok

\* Calls of the keep callback: explicit keep actions and implicit keeps.
KeepCalls == implicitKeeps + Cardinality({i \in DOMAIN executed :
                                             executed[i].a = "Keep"})

\* The implicit keep of do_sieve_error never runs once an action whose
\* cancel_keep is set has been dispatched by do_action_list, whether that
\* action succeeded or failed (line 752 clears implicit_keep before the
\* callback, line 902 on failure).
CancelKeepHonoured == implicitKeeps > 0 => NoCancelExecuted

\* The keep callback runs at most once per message: an explicit keep
\* suppresses the implicit one, and a failed implicit keep is not retried
\* when do_sieve_error re-enters itself (line 715).
KeepAtMostOnce == KeepCalls <= 1

\* sieve_execute_bytecode returns SIEVE_OK only when the message was
\* disposed of; on any other result the caller falls back to delivering it
\* (comment at line 900), so an OK without a disposition loses the message.
OkMeansDisposed == phase = "done" /\ ret = "OK" => Disposed

\* duplicate->track records a message as handled only when it was disposed
\* of; a record for a lost message would suppress its redelivery.
TrackedOnlyIfDisposed == tracked => Disposed

\* No notification is sent twice, although do_sieve_error re-enters itself
\* after a failed notification or a failed implicit keep (lines 663-671).
NotifyAtMostOnce == \A i \in DOMAIN sent : sent[i] <= 1

(***************************************************************************)
(* Refinement of SieveExecution, what one call promises its host.  The     *)
(* phases of the code map to the abstract ones: the loop of do_action_list *)
(* is the dispatch, do_sieve_error and the duplicate tracking before the   *)
(* return are the finishing phase; ret becomes the result on return.       *)
(***************************************************************************)
AbsPhase == CASE phase = "start"   -> "start"
              [] phase = "actions" -> "dispatching"
              [] phase = "done"    -> "done"
              [] OTHER             -> "finishing"

Execution == INSTANCE SieveExecution
                WITH aphase      <- AbsPhase,
                     result      <- IF phase = "done" THEN ret ELSE "none",
                     NoteLists   <- ListsOf(BOOLEAN, MaxNotify),
                     DupLists    <- ListsOf(BOOLEAN, MaxDup),
                     OK          <- "OK"

\* sieve_execute_bytecode with do_action_list and do_sieve_error implements
\* SieveExecution: every step of the code is a step of the promise or
\* leaves the host-visible state alone, and the call returns.
ImplementsExecution == Execution!ASpec

(***************************************************************************)
(* What the spec and the comments say, checked against the code.           *)
(***************************************************************************)
\* Spec section 7: internal errors are "reported with the name of the last
\* attempted action": a failed call reaches execute_err when one is
\* registered.
FailureReported ==
    phase = "done" /\ ret # "OK" /\ "execute_err" \in reg => reportCount > 0

\* Spec section 4.4: the report reads "<lastaction> (<lastitem>)"; the item
\* shown belongs to the action shown.
ReportNamesItsItem ==
    \A r \in reported : r.item # NoItem => r.action \in ItemKinds

\* Spec section 8: "for any action list A with no cancel_keep entries,
\* implicit keep is invoked exactly once".
ImplicitKeepUnlessCancelled ==
    (phase = "done" /\ \A i \in DOMAIN actions : ~actions[i].cancel_keep)
        => implicitKeeps = 1

\* Comment at line 900: after a failure the caller delivers to INBOX itself,
\* so a call that returns an error has not also kept the message.
FailureNotAlsoKept == phase = "done" /\ ret # "OK" => ~keepOk
=============================================================================

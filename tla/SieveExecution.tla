--------------------------- MODULE SieveExecution ---------------------------
(***************************************************************************)
(* What one call of sieve_execute_bytecode promises its host, at the level *)
(* of the host callbacks it makes (spec sections 4.3, 4.4 and 8):           *)
(*   - the actions of the list are dispatched in order, each once, and     *)
(*     none after one has failed;                                          *)
(*   - notifications are sent after the dispatch, only the active ones,    *)
(*     each at most once;                                                  *)
(*   - the implicit keep runs at most once, and never once an action that  *)
(*     cancels it has been dispatched;                                     *)
(*   - the call returns, and returns OK only for a message that was kept   *)
(*     or disposed of by a successful action; duplicate records are        *)
(*     written only for such a result.                                     *)
(* Reports through execute_err and the order of notifications among        *)
(* themselves are left free.                                               *)
(***************************************************************************)
EXTENDS Naturals, Sequences

CONSTANTS
    ActionLists,  \* the action lists the evaluator may produce
    NoteLists,    \* notify lists: the isactive flag of each entry
    DupLists,     \* duptrack lists: whether each entry has an id
    Codes,        \* the result codes
    OK            \* SIEVE_OK

NoResult == "none"

VARIABLES
    aphase,         \* "start", "dispatching", "finishing" or "done"
    actions,        \* the action list
    notes,          \* the notify list
    dups,           \* the duptrack list
    executed,       \* the dispatched actions, with their outcome
    implicitKeeps,  \* implicit keeps made
    keepOk,         \* an implicit keep succeeded
    sent,           \* notifications sent per notify entry
    result,         \* the returned code, NoResult before the return
    tracked         \* duplicate records were written

avars == <<aphase, actions, notes, dups, executed, implicitKeeps, keepOk,
           sent, result, tracked>>

NoCancel == \A i \in DOMAIN executed : ~executed[i].cancel_keep

Disposed ==
    \/ keepOk
    \/ \E i \in DOMAIN executed : executed[i].cancel_keep /\ executed[i].ok

AInit ==
    /\ aphase = "start"
    /\ actions = <<>> /\ notes = <<>> /\ dups = <<>> /\ executed = <<>>
    /\ implicitKeeps = 0 /\ keepOk = FALSE /\ sent = <<>>
    /\ result = NoResult /\ tracked = FALSE

\* the evaluator runs; when it fails nothing is dispatched
Evaluate ==
    /\ aphase = "start"
    /\ actions' \in ActionLists /\ notes' \in NoteLists /\ dups' \in DupLists
    /\ sent' = [i \in DOMAIN notes' |-> 0]
    /\ aphase' \in {"dispatching", "finishing"}
    /\ UNCHANGED <<executed, implicitKeeps, keepOk, result, tracked>>

\* the next action of the list, while all before it succeeded
Dispatch ==
    /\ aphase = "dispatching"
    /\ Len(executed) < Len(actions)
    /\ \A i \in DOMAIN executed : executed[i].ok
    /\ \E ok \in BOOLEAN :
          LET e == actions[Len(executed) + 1] IN
          /\ executed' = Append(executed, [a |-> e.a, cancel_keep |-> e.cancel_keep,
                                           ok |-> ok])
          /\ aphase' = IF ok THEN "dispatching" ELSE "finishing"
    /\ UNCHANGED <<actions, notes, dups, implicitKeeps, keepOk, sent, result,
                   tracked>>

\* the dispatch ends: the list is done, or an error cut it short
EndDispatch ==
    /\ aphase = "dispatching"
    /\ aphase' = "finishing"
    /\ UNCHANGED <<actions, notes, dups, executed, implicitKeeps, keepOk, sent,
                   result, tracked>>

\* an active notification not sent yet
Notify ==
    /\ aphase = "finishing"
    /\ \E i \in DOMAIN notes :
          /\ notes[i] /\ sent[i] = 0
          /\ sent' = [sent EXCEPT ![i] = 1]
    /\ UNCHANGED <<aphase, actions, notes, dups, executed, implicitKeeps,
                   keepOk, result, tracked>>

\* the implicit keep, once, and only when nothing cancelled it
ImplicitKeep ==
    /\ aphase = "finishing"
    /\ implicitKeeps = 0 /\ NoCancel
    /\ implicitKeeps' = 1
    /\ keepOk' \in BOOLEAN
    /\ UNCHANGED <<aphase, actions, notes, dups, executed, sent, result,
                   tracked>>

\* the call returns its code and may write the duplicate records
Return ==
    /\ aphase = "finishing"
    /\ \E r \in Codes :
          /\ r = OK => Disposed
          /\ result' = r
          /\ tracked' \in IF r = OK /\ \E i \in DOMAIN dups : dups[i]
                          THEN BOOLEAN ELSE {FALSE}
    /\ aphase' = "done"
    /\ UNCHANGED <<actions, notes, dups, executed, implicitKeeps, keepOk, sent>>

ANext == Evaluate \/ Dispatch \/ EndDispatch \/ Notify \/ ImplicitKeep \/ Return

\* every step the call takes is one of the promised steps
ASafety == AInit /\ [][ANext]_avars

\* the call runs on one thread and returns
ASpec == ASafety /\ WF_avars(ANext)
====

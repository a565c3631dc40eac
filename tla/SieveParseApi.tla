---------------------------- MODULE SieveParseApi ----------------------------
(***************************************************************************)
(* What sieve_script_parse_only and sieve_script_parse_string promise      *)
(* their caller about the memory they hand out, one step per call.  The    *)
(* caller holds scripts and one error pointer; the heap holds the objects  *)
(* no call in progress owns.  A call made once the caller has freed its    *)
(* error string                                                            *)
(*   - returns OK with *out_errors = NULL and hands a new script to the    *)
(*     caller, or nothing when it passed no script pointer;                *)
(*   - returns PARSE_ERROR and hands a new error string;                   *)
(*   - returns VERIFY_ERROR and hands a new error string or NULL;          *)
(*   - or returns FAIL and leaves the error pointer as it was.             *)
(* The interpreter, a rejected script and parse_string's own script never *)
(* outlive the call.  The caller frees its scripts and its error string.   *)
(***************************************************************************)
EXTENDS Naturals

CONSTANTS MaxCalls, Null, Uninit, Objects

VARIABLES
    calls,      \* calls made so far
    heap,       \* allocated objects that no call in progress owns
    cScripts,   \* the scripts the caller holds
    cErrors,    \* the caller's error pointer: Uninit, Null or an object
    res         \* the result of the last call

pvars == <<calls, heap, cScripts, cErrors, res>>

PInit ==
    /\ calls = 0 /\ heap = {} /\ cScripts = {} /\ res = "OK"
    /\ cErrors \in {Null, Uninit}

\* one call, from its start to its return (lines 239-306)
PCall ==
    /\ calls < MaxCalls /\ cErrors \notin heap
    /\ calls' = calls + 1
    /\ \/ \E o \in Objects \ heap :
             /\ res' = "OK" /\ cErrors' = Null
             /\ \/ heap' = heap \cup {o} /\ cScripts' = cScripts \cup {o}
                \/ UNCHANGED <<heap, cScripts>>
       \/ \E e \in Objects \ heap :
             /\ res' = "PARSE_ERROR" /\ cErrors' = e
             /\ heap' = heap \cup {e} /\ UNCHANGED cScripts
       \/ /\ res' = "VERIFY_ERROR"
          /\ \/ \E e \in Objects \ heap :
                   cErrors' = e /\ heap' = heap \cup {e}
             \/ cErrors' = Null /\ UNCHANGED heap
          /\ UNCHANGED cScripts
       \/ /\ res' = "FAIL"
          /\ UNCHANGED <<heap, cScripts, cErrors>>

\* sieve_script_free on a script the caller holds (lines 310-319)
PFreeScript ==
    /\ \E s \in cScripts :
          /\ heap' = heap \ {s} /\ cScripts' = cScripts \ {s}
    /\ UNCHANGED <<calls, cErrors, res>>

\* free(errors), then NULL or the pointer left dangling
PFreeErrors ==
    /\ cErrors \in heap
    /\ heap' = heap \ {cErrors}
    /\ cErrors' \in {Null, cErrors}
    /\ UNCHANGED <<calls, cScripts, res>>

PNext == PCall \/ PFreeScript \/ PFreeErrors

\* every step is a whole call or one of the caller's frees
PSpec == PInit /\ [][PNext]_pvars

=============================================================================

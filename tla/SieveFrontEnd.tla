--------------------------- MODULE SieveFrontEnd ---------------------------
(***************************************************************************)
(* The parse entry points of src/sieve/script.c and who owns what they     *)
(* allocate: sieve_script_parse_only (272-291) and                         *)
(* sieve_script_parse_string (293-306) over _sieve_script_parse_only       *)
(* (239-270), _sieve_script_parse (91-121), sieve_build_nonexec_interp     *)
(* (163-235) and sieve_script_free (310-319).                              *)
(*                                                                         *)
(* A caller makes a bounded number of calls, keeps the scripts and error   *)
(* strings it is handed and frees them.  The heap is a set of live object  *)
(* ids; every allocation takes a fresh id.  The parser (sieveparse) and    *)
(* interp_verify are outside this file: their outcomes are chosen.         *)
(***************************************************************************)
EXTENDS Naturals, FiniteSets

CONSTANTS
    MaxCalls,   \* calls the caller makes
    Null,       \* NULL
    Uninit      \* the caller's error pointer before anything is stored in it

ASSUME FrontEndAssumption ==
    /\ MaxCalls \in Nat \ {0}
    /\ Null # Uninit /\ {Null, Uninit} \cap Nat = {}

\* at most three objects per call: interpreter, script, error text
MaxObjs == 3 * MaxCalls
Objs == 1 .. MaxObjs

\* what a parse of the stream can end in (sieveparse, outside this file):
\* no error, or errors reported through parse_error (s->err > 0)
ParseOutcomes == {"clean", "errors"}

Results == {"OK", "FAIL", "PARSE_ERROR", "VERIFY_ERROR"}

VARIABLES
    pc,         \* "idle", or the step of the call in progress
    api,        \* "parse_only" or "parse_string"
    calls,      \* calls made so far
    live,       \* allocated, not yet freed objects
    kind,       \* what each allocated object is
    fresh,      \* the next id to allocate
    freed,      \* the objects the last step freed
    interpOwn,  \* myinterp: an id, or Null when the caller's interp is used
    outGiven,   \* the caller passed a script pointer (out_script != NULL)
    res,        \* the result of the call
    myscript,   \* parse_string's local myscript
    written,    \* *out_errors was stored by this call
    badRead,    \* a non-NULL *out_errors was read before this call stored it
    stored,     \* what this call stored through out_script, or Null
    cScripts,   \* the scripts the caller holds
    cErrors     \* the caller's char *errors: Uninit, Null or an id

vars == <<pc, api, calls, live, kind, fresh, freed, interpOwn, outGiven, res,
          myscript, written, badRead, stored, cScripts, cErrors>>

TypeOK ==
    /\ pc \in {"idle", "build", "body", "tail"}
    /\ api \in {"parse_only", "parse_string"}
    /\ calls \in 0 .. MaxCalls
    /\ live \subseteq Objs /\ freed \subseteq Objs
    /\ kind \in [Objs -> {"none", "interp", "script", "errtext"}]
    /\ fresh \in 1 .. MaxObjs + 1
    /\ interpOwn \in Objs \cup {Null}
    /\ outGiven \in BOOLEAN /\ written \in BOOLEAN /\ badRead \in BOOLEAN
    /\ res \in Results
    /\ myscript \in Objs \cup {Null} /\ stored \in Objs \cup {Null}
    /\ cScripts \subseteq Objs
    /\ cErrors \in Objs \cup {Null, Uninit}

\* allocate the next fresh object of kind k
Alloc(k) == /\ live' = live \cup {fresh}
            /\ kind' = [kind EXCEPT ![fresh] = k]
            /\ fresh' = fresh + 1

(***************************************************************************)
(* The caller starts a call.                                               *)
(***************************************************************************)
\* sieve_script_parse_only(stream, &errors, out_script): rewind, restart the
\* lexer and go on with a NULL interp, so a nonexec interp is built
CallParseOnly ==
    /\ pc = "idle" /\ calls < MaxCalls
    /\ \E o \in BOOLEAN : outGiven' = o
    /\ pc' = "build" /\ api' = "parse_only" /\ calls' = calls + 1
    /\ written' = FALSE /\ freed' = {} /\ stored' = Null
    /\ UNCHANGED <<live, kind, fresh, interpOwn, res, myscript, badRead,
                   cScripts, cErrors>>

\* sieve_script_parse_string(interp, s, &errors, script): with the
\* caller's interp or none; without a script pointer the local myscript
\* receives the result
CallParseString ==
    /\ pc = "idle" /\ calls < MaxCalls
    /\ \E o \in BOOLEAN : outGiven' = o
    /\ \E given \in BOOLEAN : pc' = IF given THEN "body" ELSE "build"
    /\ api' = "parse_string" /\ calls' = calls + 1
    /\ interpOwn' = Null /\ myscript' = Null
    /\ written' = FALSE /\ freed' = {} /\ stored' = Null
    /\ UNCHANGED <<live, kind, fresh, res, badRead, cScripts, cErrors>>

(***************************************************************************)
(* _sieve_script_parse_only, lines 239-270.                                *)
(***************************************************************************)
\* sieve_build_nonexec_interp succeeds (line 247)
BuildInterp ==
    /\ pc = "build"
    /\ Alloc("interp")
    /\ interpOwn' = fresh
    /\ pc' = "body" /\ freed' = {}
    /\ UNCHANGED <<api, calls, outGiven, res, myscript, written, badRead,
                   stored, cScripts, cErrors>>

\* sieve_register_vacation or _duplicate fails: the interp is freed inside
\* sieve_build_nonexec_interp and SIEVE_FAIL is returned at line 249, before
\* *out_errors = NULL
BuildFailed ==
    /\ pc = "build"
    /\ res' = "FAIL"
    /\ pc' = "tail" /\ freed' = {}
    /\ UNCHANGED <<api, calls, live, kind, fresh, interpOwn, outGiven,
                   myscript, written, badRead, stored, cScripts, cErrors>>


\* the interpreter this call built, freed at line 267
MyInterp == IF interpOwn = Null THEN {} ELSE {interpOwn}

\* the script pointer _sieve_script_parse_only stores through: the caller's,
\* or parse_string's &myscript when the caller passed none
ToCaller == outGiven
ToMyscript == api = "parse_string" /\ ~outGiven

\* mutant: the script is not freed when the caller passed no out_script
BodyParsedOkNoFree ==
    /\ pc = "body"
    /\ LET s == fresh
       IN  /\ live' = (live \cup {s}) \ MyInterp
           /\ kind' = [kind EXCEPT ![s] = "script"]
           /\ freed' = MyInterp
           /\ cScripts' = IF ToCaller THEN cScripts \cup {s} ELSE cScripts
           /\ stored' = IF ToCaller THEN s ELSE Null
           /\ myscript' = IF ToMyscript THEN s ELSE myscript
    /\ fresh' = fresh + 1
    /\ cErrors' = Null /\ written' = TRUE
    /\ res' = "OK" /\ interpOwn' = Null /\ pc' = "tail"
    /\ UNCHANGED <<api, calls, outGiven, badRead>>

\* mutant: *out_errors = NULL is dropped, the caller's pointer is left
BodyParsedOkErrorsKept ==
    /\ pc = "body"
    /\ LET s    == fresh
           gone == (IF ToCaller \/ ToMyscript THEN {} ELSE {s}) \cup MyInterp
       IN  /\ live' = (live \cup {s}) \ gone
           /\ kind' = [kind EXCEPT ![s] = "script"]
           /\ freed' = gone
           /\ cScripts' = IF ToCaller THEN cScripts \cup {s} ELSE cScripts
           /\ stored' = IF ToCaller THEN s ELSE Null
           /\ myscript' = IF ToMyscript THEN s ELSE myscript
    /\ fresh' = fresh + 1
    /\ written' = TRUE
    /\ res' = "OK" /\ interpOwn' = Null /\ pc' = "tail"
    /\ UNCHANGED <<api, calls, outGiven, badRead, cErrors>>

\* interp_verify passes and sieveparse reports no error: *out_errors = NULL,
\* the script goes to *out_script or is freed (lines 256-263), the interp
\* is freed (267); the empty error buffer holds nothing (268)
BodyParsedOk ==
    /\ pc = "body"
    /\ LET s    == fresh
           gone == (IF ToCaller \/ ToMyscript THEN {} ELSE {s}) \cup MyInterp
       IN  /\ live' = (live \cup {s}) \ gone
           /\ kind' = [kind EXCEPT ![s] = "script"]
           /\ freed' = gone
           /\ cScripts' = IF ToCaller THEN cScripts \cup {s} ELSE cScripts
           /\ stored' = IF ToCaller THEN s ELSE Null
           /\ myscript' = IF ToMyscript THEN s ELSE myscript
    /\ fresh' = fresh + 1
    /\ cErrors' = Null /\ written' = TRUE
    /\ res' = "OK" /\ interpOwn' = Null /\ pc' = "tail"
    /\ UNCHANGED <<api, calls, outGiven, badRead>>

\* sieveparse reports errors through stub_parse_error into the buffer: the
\* script is allocated and freed in _sieve_script_parse (108, 119-122), the
\* buffer's text is released to *out_errors (265-266), the interp freed
BodyParseErrors ==
    /\ pc = "body"
    /\ LET s == fresh
           e == fresh + 1
       IN  /\ live' = (live \cup {e}) \ MyInterp
           /\ kind' = [kind EXCEPT ![s] = "script", ![e] = "errtext"]
           /\ freed' = {s} \cup MyInterp
           /\ cErrors' = e
    /\ fresh' = fresh + 2
    /\ written' = TRUE /\ res' = "PARSE_ERROR" /\ interpOwn' = Null
    /\ pc' = "tail" /\ stored' = Null
    /\ UNCHANGED <<api, calls, outGiven, myscript, badRead, cScripts>>

\* interp_verify rejects the caller's interpreter (lines 94-97; the nonexec
\* interp registers all it demands): no script; the empty buffer is
\* released to *out_errors, as a string or as NULL (buf_release is outside
\* this file)
BodyVerifyFailed ==
    /\ pc = "body" /\ interpOwn = Null
    /\ \E e \in {fresh, Null} :
          /\ cErrors' = e
          /\ live' = live \cup ({e} \cap Objs)
          /\ kind' = IF e = Null THEN kind ELSE [kind EXCEPT ![e] = "errtext"]
          /\ fresh' = IF e = Null THEN fresh ELSE fresh + 1
    /\ written' = TRUE /\ res' = "VERIFY_ERROR" /\ freed' = {}
    /\ pc' = "tail" /\ stored' = Null
    /\ UNCHANGED <<api, calls, interpOwn, outGiven, myscript, badRead,
                   cScripts>>

(***************************************************************************)
(* The wrappers' tails.                                                    *)
(***************************************************************************)
\* sieve_script_parse_only, line 281: on failure *out_errors is read and,
\* when not NULL, taken over by a buffer and given a prefix (the string
\* moves; its owner does not change).  A read this call did not store is
\* harmful only when the caller's pointer is not NULL: uninitialized, or
\* left dangling by an earlier free.
TailParseOnly ==
    /\ pc = "tail" /\ api = "parse_only"
    /\ badRead' = (badRead \/ (res # "OK" /\ ~written /\ cErrors # Null))
    /\ pc' = "idle" /\ freed' = {}
    /\ UNCHANGED <<api, calls, live, kind, fresh, interpOwn, outGiven, res,
                   myscript, written, stored, cScripts, cErrors>>

\* mutant: sieve_script_free(script) in place of sieve_script_free(&myscript)
TailParseStringFreesCaller ==
    /\ pc = "tail" /\ api = "parse_string"
    /\ LET target == IF outGiven THEN stored ELSE myscript
       IN  /\ freed' = IF target = Null THEN {} ELSE {target}
           /\ live' = live \ freed'
    /\ myscript' = Null /\ pc' = "idle"
    /\ UNCHANGED <<api, calls, kind, fresh, interpOwn, outGiven, res,
                   written, badRead, stored, cScripts, cErrors>>

\* sieve_script_parse_string, lines 302-305: myscript is freed
TailParseString ==
    /\ pc = "tail" /\ api = "parse_string"
    /\ freed' = IF myscript = Null THEN {} ELSE {myscript}
    /\ live' = live \ freed'
    /\ myscript' = Null /\ pc' = "idle"
    /\ UNCHANGED <<api, calls, kind, fresh, interpOwn, outGiven, res,
                   written, badRead, stored, cScripts, cErrors>>

(***************************************************************************)
(* The caller between calls.                                               *)
(***************************************************************************)
\* sieve_script_free(&script) on a script it holds (lines 310-319)
CallerFreeScript ==
    /\ pc = "idle"
    /\ \E s \in cScripts :
          /\ freed' = {s} /\ live' = live \ {s}
          /\ cScripts' = cScripts \ {s}
    /\ UNCHANGED <<pc, api, calls, kind, fresh, interpOwn, outGiven, res,
                   myscript, written, badRead, stored, cErrors>>

\* free(errors), once, then either errors = NULL or the pointer is left
\* dangling for the next call to overwrite
CallerFreeErrors ==
    /\ pc = "idle" /\ cErrors \in live
    /\ freed' = {cErrors} /\ live' = live \ {cErrors}
    /\ cErrors' \in {Null, cErrors}
    /\ UNCHANGED <<pc, api, calls, kind, fresh, interpOwn, outGiven, res,
                   myscript, written, badRead, stored, cScripts>>

Init ==
    /\ pc = "idle" /\ api = "parse_only" /\ calls = 0
    /\ live = {} /\ kind = [o \in Objs |-> "none"] /\ fresh = 1
    /\ freed = {} /\ interpOwn = Null /\ outGiven = FALSE /\ res = "OK"
    /\ myscript = Null /\ written = FALSE /\ badRead = FALSE
    /\ stored = Null /\ cScripts = {}
    /\ cErrors \in {Null, Uninit}

\* a call starts once the caller has freed the error text it was handed
CallerReady == cErrors \notin live

Next ==
    \/ CallerReady /\ (CallParseOnly \/ CallParseString)
    \/ BuildInterp \/ BuildFailed
    \/ BodyParsedOk \/ BodyParseErrors \/ BodyVerifyFailed
    \/ TailParseOnly \/ TailParseString
    \/ CallerFreeScript \/ CallerFreeErrors

Spec == Init /\ [][Next]_vars

(***************************************************************************)
(* Refinement of SieveParseApi, one step per call.  The objects the call   *)
(* in progress owns (its interpreter and parse_string's myscript) are not  *)
(* on the abstract heap; a call counts once its body has run, or once the  *)
(* build of its interpreter has failed.                                    *)
(***************************************************************************)
\* what the call in progress owns besides what it handed to the caller
CallOwned == MyInterp \cup ({myscript} \ {Null})

ParseApi == INSTANCE SieveParseApi
              WITH calls   <- IF pc \in {"build", "body"} THEN calls - 1
                                                         ELSE calls,
                   heap    <- live \ CallOwned,
                   Objects <- Objs

\* sieve_script_parse_only and sieve_script_parse_string implement
\* SieveParseApi: what a call hands out, and the result it returns, is
\* one of the promised outcomes, and nothing else it allocated survives.
ImplementsParseApi == ParseApi!PSpec

(***************************************************************************)
(* Properties.                                                             *)
(***************************************************************************)
\* Whenever no call is in progress, every live object is one the caller
\* holds: a script handed out through out_script or its error string; the
\* interpreter, the scripts of failed or output-less parses and parse_string's
\* myscript have all been freed by _sieve_script_parse_only and its wrappers.
OwnershipAtReturn ==
    pc = "idle" => live = cScripts \cup ({cErrors} \cap live)

\* No step frees an object that was already freed: neither the caller's
\* sieve_script_free after a call nor the frees inside the parse paths.
NoDoubleFree ==
    [][freed' \subseteq live \cup (fresh .. fresh' - 1)]_vars

\* sieve_script_parse_only takes over a non-NULL *out_errors at line 281
\* only after this call has stored it (line 256 or 266): it never takes
\* over the caller's uninitialized or dangling pointer.
ErrorsWrittenBeforeRead == ~badRead
====

# Verification of the Sieve script runtime (`src/sieve/script.c`)

This directory holds TLA+ models of `src/sieve/script.c`, the TLC configurations
that model-check them, and TLAPS proofs. The file is the glue between the host
mail-delivery agent and the Sieve engine. It parses scripts, loads compiled
bytecode, runs the evaluator and then executes the actions the evaluator returns.

## 1. Inventory of the code

| Part | Functions (lines) | State it changes |
|---|---|---|
| Script front end | `script_require` (81), `_sieve_script_parse` (91-121), `sieve_script_parse` (123), `_sieve_script_parse_only` (239-270), `sieve_script_parse_only` (272-291), `sieve_script_parse_string` (293-306), `sieve_script_free` (310-319) | a script object, its support bits, the caller's error buffer |
| Non-executing interpreter | `sieve_build_nonexec_interp` (163-235) | a fresh interpreter with stub callbacks |
| Notification builder | `add_header`, `build_notify_message` (321-405) | an output buffer |
| Notification sender | `send_notify_callback` (407-458) | calls the host's `notify` |
| Bytecode cache | `sieve_script_load` (508-584), `sieve_script_unload` (588-609) | the execute handle: list of mapped files (`bc_list`), the current one (`bc_cur`), open descriptors |
| Action dispatch | `do_action_list` (730-911) | `implicit_keep`, `ret`, `lastaction`, `interp->lastitem`; calls the host callbacks |
| Error handling | `do_sieve_error` (614-727) | notifications, the `execute_err` report, the implicit keep; re-enters itself |
| Execution driver | `sieve_execute_bytecode` (920-1011) | allocates the lists, runs `sieve_eval_bc`, dispatches, writes the duplicate-tracking records |

The parts interact in two ways.
- **Execution.** The host loads a handle with `sieve_script_load` and runs it with `sieve_execute_bytecode`. That function calls the evaluator (not in this file), then `do_action_list`, which ends in `do_sieve_error`.
- **Cache.** A script installer in another process may rename, replace or remove the bytecode files while a handle is being loaded.

The behaviours that make this code hard to test:
- the recursion of `do_sieve_error` after a failed notification or a failed implicit keep;
- combinations of callback failures at every position of the action and notify lists;
- the `implicit_keep` flag being cleared by one action and read much later;
- `interp->lastitem` surviving from message to message;
- the window between `stat()` and `open()` in `sieve_script_load`, in which another process can change what the name denotes.

## 2. Modules

### `SieveDispatch`: `sieve_execute_bytecode`, `do_action_list`, `do_sieve_error`

One behaviour is one call of `sieve_execute_bytecode`. The variable `phase` says
where control is: start, actions (the loop of `do_action_list`), notify, report,
keep (the three sections of `do_sieve_error`), track (duplicate tracking) and done.

The locals `ret`, `lastaction`, `implicitKeep` and `notifyRet` and the list cursor
`idx` are variables. `lastitem` is `interp->lastitem`, and Init lets it hold what
an earlier call left behind.

Modelling choices:
- Each host callback is a nondeterministic choice of its return code.
- `ret |= r` is `RetOr`, where "MIXED" stands for the OR of two different error codes.
- The recursion of `do_sieve_error` is a jump back to its entry (`EnterError`). The recursive calls are tail calls, so this is exact.
- The variables `executed`, `implicitKeeps`, `keepOk`, `sent`, `reportCount`, `reported` and `tracked` only observe which callbacks ran.
- The evaluator is outside this file. The action list it returns (`Entries`, `ActionLists`, `CancelKeepOf`) is modelled from the spec: which kinds carry an item, which cancel the implicit keep, and at most one explicit keep.

Actions:

| Action | Code |
|---|---|
| `ExecuteBytecode` | evaluation succeeded, lines 920-987 |
| `EvalFailed` | `ret < 0`, line 972 |
| `DoAction` | one iteration of the loop, lines 748-904 |
| `DoActionInternalError` | a missing callback returns `SIEVE_INTERNAL_ERROR` |
| `ActionsEnd` | line 907 |
| `NotifySend`, `NotifySkip`, `NotifyEnd` | lines 643-671 |
| `ReportError`, `ReportSkip` | lines 674-695 |
| `ImplicitKeepOk`, `ImplicitKeepFailed`, `NoImplicitKeep` | lines 697-726 |
| `TrackDuplicates` | lines 989-1011 |

### `SieveExecution`: what one call promises its host

This module is an abstract specification, written from the spec (sections 4.3, 4.4
and 8). It is not written from the code. Its state is only what the host sees:
- the lists the evaluator produced;
- the dispatched actions with their outcome;
- the implicit keeps;
- the notifications sent per entry;
- the result code;
- whether duplicate records were written.

Its phases are start, dispatching, finishing and done. Its actions are:
- `Evaluate`;
- `Dispatch`: the next action, only while all earlier ones succeeded;
- `EndDispatch`;
- `Notify`: an active entry not yet sent;
- `ImplicitKeep`: once, and only if nothing dispatched cancelled it;
- `Return`: OK only for a disposed message, and records only for OK.

`ASafety` is `AInit /\ [][ANext]_avars`. `ASpec` adds weak fairness, so the call
returns.

`SieveDispatch` instantiates it as `Execution` with this refinement mapping:
- `aphase <- AbsPhase`: start stays start, actions maps to dispatching, done stays done, and the sections of `do_sieve_error` and the tracking step map to finishing;
- `result <- IF phase = "done" THEN ret ELSE "none"`.

The other variables are the observation variables of the same names. The property
`ImplementsExecution == Execution!ASpec` is checked by the `dispatch_safety` run.
The steps that `SieveExecution` leaves free are stutters: skipping an inactive
notification, the end of the notify loop, the `execute_err` report, and returning
without an implicit keep.

### `SieveBytecodeCache`: `sieve_script_load`, `sieve_script_unload`

The state:
- `fs` is what each name denotes.
- `bcList` is the handle's list, head first, as records of inode and descriptor.
- `cur` is `bc_cur`.
- `openFds` is the set of open descriptors.
- `handle` says whether `*ret` is set.
- `pendingEx` marks an execute handle allocated by the current call and not yet handed out.

A load is split at the `stat()`/`open()` window: `LoadStatNew` goes to pc "open", and one of `LoadOpenFailed`, `LoadFstatFailed` or `LoadMapped` follows. The other process acts through `FsRename`, `FsInstall` and `FsRemove`. The `MaxBlobs` guard on `LoadStatNew` bounds the model, not the code.

### `SieveNotifyBuilder`: `build_notify_message`, `add_header`

One behaviour is one call of `build_notify_message` on a template `tmpl`, a
sequence of characters. `c` is the cursor and `out` the buffer. `getbody`
says whether the interpreter registered a body accessor, `hasText` whether the
message has a text part, and `hdrs` which headers it has. There is one action per
branch of the loop at line 352:

| Action | Code |
|---|---|
| `ExpandFrom`, `ExpandEnvFrom`, `ExpandSubject` (through `ExpandHeader` and `Header`) | lines 354-365 and `add_header` (321-338) |
| `ExpandTextWhole` | `$text$`, lines 366-394 with `n = 0` |
| `ExpandTextLimited` | `$text[...`, the digit loop of 374, `c += 2` of 375, the truncation of 383 |
| `ExpandTextUnclosed` | no `]` before the terminator: the loop of 374 reads past the NUL, and the model stops there |
| `CopyPlain` | lines 395-400 |

The code's guards are the operators `IsFrom`, `IsEnvFrom`, `IsSubject` and
`IsText`, tried in the code's order. `size_t n` is four 16-bit limbs (`MulAdd`,
`Number`), so `n * 10 + (ch - '0')` wraps modulo 2^64 as it does in the code.
Modelling choices:
- A decoded header is the token of its name.
- The body is `BodyLen` opaque octets.
- Templates are lower case, so the case-insensitive `strncasecmp` is not exercised.

`Expected` is the reference: the expansion that the table in the spec
(section 4.5) gives for the template.

### `SieveFrontEnd`: the parse entry points and the non-executing interpreter

The model covers a caller that makes up to `MaxCalls` calls of
`sieve_script_parse_only` or `sieve_script_parse_string`. Between calls, the caller
frees the scripts and error strings it holds. The heap is `live`, a set of object
ids, and every allocation takes the id `fresh`.
- `kind` says what each object is.
- `freed` is what the last step freed.
- The locals `myinterp`, `myscript` and `res` are `interpOwn`, `myscript` and `res`.
- The caller's `char *errors` is `cErrors`. It starts `Uninit` or `Null`, and after `free` it is either reset or left dangling.

| Action | Code |
|---|---|
| `CallParseOnly`, `CallParseString` | lines 272-277 and 293-300 |
| `BuildInterp`, `BuildFailed` | `sieve_build_nonexec_interp` (163-235), called at 246-248 |
| `BodyParsedOk`, `BodyParseErrors`, `BodyVerifyFailed` | the rest of `_sieve_script_parse_only` (250-270) with `_sieve_script_parse` (91-121), one action per outcome |
| `TailParseOnly` | lines 279-290, the read of `*out_errors` |
| `TailParseString` | lines 302-305, `sieve_script_free(&myscript)` |
| `CallerFreeScript`, `CallerFreeErrors` | the caller: `sieve_script_free` (310-319) and `free(errors)` |

The outcomes of `sieveparse` and `interp_verify` (not in this file) are chosen:
- a clean parse, or errors reported through `stub_parse_error`;
- a verifier failure, which is possible only for the caller's interpreter.

`BuildFailed` stands for a failing `sieve_register_vacation` or
`sieve_register_duplicate`.

### `SieveScriptCache`: what a load and an unload promise

This is the abstract specification of the handle cache. It has one step per call of `sieve_script_load` or `sieve_script_unload`, plus the other process's changes to names. `mapped` holds the inodes of the mapped files, oldest first, and `cur` is a position in it (0 for none). A load either fails (`AFail`), makes the newest mapping of the named inode current (`AReload`, "RELOADED"), or maps the named file and makes it current (`AMap`, "OK"). `ACursorValid` is the spec's section 4.2 cursor invariant. The specification leaves out inode uniqueness, because the code does not keep it (run `cache_inode_unique`).

`SieveBytecodeCache` implements it through `ScriptCache == INSTANCE SieveScriptCache WITH mapped <- MappedInodes`. `MappedInodes` reverses the head-first `bcList` into oldest-first order. The descriptors are `1 .. Len(bcList)` (see `FdLayout`), and descriptor k is the k-th mapping, so `cur` is also the position. The `stat()`/`open()` window (`LoadStatNew`) is a stutter.

### `SieveParseApi`: what the parse entry points promise

This is the abstract specification of the front end's ownership protocol. It has one step per call (`PCall`) and one per free by the caller. `heap` is the set of live objects that no call in progress owns. A call either:
- returns OK, sets `*out_errors` to NULL and possibly hands out a new script;
- returns PARSE_ERROR with a new error string;
- returns VERIFY_ERROR with a new error string or NULL;
- returns FAIL, leaving the error pointer unchanged.

A call may be made only when the caller's error pointer is not a live object. The interpreter and the internal scripts never outlive the call.

`SieveFrontEnd` implements it through `ParseApi == INSTANCE SieveParseApi WITH calls <- ..., heap <- live \ CallOwned`. The whole call maps to `PCall` at the step that decides its outcome, which is `BuildFailed` or one of the body actions. The abstract call counter moves at that step. The call's other steps (its start, `BuildInterp` and the tails) are stutters.

### `SieveDispatchProofs`, `SieveDispatchRefinement`, `SieveBytecodeCacheProofs`, `SieveFrontEndProofs`, `SieveScriptCacheProofs`, `SieveBytecodeCacheRefinement`, `SieveFrontEndRefinement`

These modules hold the TLAPS proofs (section 4).

## 3. Runs

| Run | Checks | Result |
|---|---|---|
| `dispatch_safety` (`MC_SieveDispatch.cfg`) | `CancelKeepHonoured`, `KeepAtMostOnce`, `OkMeansDisposed`, `TrackedOnlyIfDisposed`, `NotifyAtMostOnce`, `ImplementsExecution` | pass, about 1.4 million distinct states |
| `dispatch_failure_reported` | `FailureReported` | violated: an internal error is never reported |
| `dispatch_report_item` | `ReportNamesItsItem` | violated: a stale `lastitem` is reported with Notify or Keep |
| `dispatch_implicit_keep` | `ImplicitKeepUnlessCancelled` | violated: no implicit keep after an evaluation error, an action failure or an internal error |
| `dispatch_failure_not_kept` | `FailureNotAlsoKept` | violated: an error is returned for a message that was kept |
| `cache_resources` (`MC_SieveBytecodeCache.cfg`) | `FdsOwned`, `NoHandleLeak`, `CursorInList`, `ImplementsScriptCache` | pass, about 430 distinct states |
| `cache_inode_unique` | `InodeUnique` | violated: a rename between `stat()` and `open()` maps one inode twice |
| `builder_expansion` (`MC_SieveNotifyBuilder.cfg`) | `ExpandsAsSpecified` | pass, about 422,000 distinct states |
| `builder_text_defects` | `ExpandsExactly` | violated: `$text[0]$` gives the whole body, N = 2^64+2 gives 2 octets, and an unclosed `$text[` runs past the NUL |
| `frontend_ownership` (`MC_SieveFrontEnd.cfg`) | `OwnershipAtReturn`, `NoDoubleFree`, `ImplementsParseApi` | pass, about 7,000 distinct states |
| `frontend_errors_read` | `ErrorsWrittenBeforeRead` | violated: when the interpreter cannot be built, line 281 takes over a non-NULL `*out_errors` this call never stored (the caller's uninitialized or dangling pointer); a NULL one is harmless and is not counted |

`PROJECT.json` lists the findings each violation establishes.

**Bounds.** The dispatcher instance has:
- one payload;
- action lists of up to two entries, which is enough for an explicit keep and a cancelling action, or for a successful action followed by a failing one;
- two notify entries, so that a failure can come before or after a success;
- one duplicate record;
- every interpreter that lacks at most one optional callback.

Every bug the violation runs find needs at most two actions and two notifications.

The builder instance takes every template of up to four pieces:
- `$`, `x`, `from`, `env-`, `subject`, `text`, `[2`, `]$`;
- each `$text[` is followed only by digits, so the spec's table defines the result.

These templates cover every token next to every other, tokens cut short, a lone
`$`, `$text[2]$` against a body of 3 octets, and unclosed brackets. They are combined
with every choice of body accessor, text part and headers. The defect run uses one
hand-written template. It has a state constraint that keeps the text part present,
so that the truncations show.

The front-end instance makes three calls. That is enough to hand out a script, to
free an error string while leaving the pointer dangling, and then to call again.

The cache instance has two names and three inodes, which is enough for one name to be replaced while two files are mapped. The handle holds up to three files. Symmetry over names and inodes is sound because the model only compares them for equality.

**Fairness.**
- `SieveNotifyBuilder` assumes weak fairness of `Next`: one call, no blocking.
- `SieveFrontEnd` checks only safety.
- `SieveDispatch` assumes weak fairness of `Next`. A call of `sieve_execute_bytecode` runs on one thread and never blocks on anything the model leaves out: each host callback is a return value. `SieveBytecodeCache` assumes no fairness and checks only safety.

**Mutants.** Each property of a passing run has a mutant: a plausible bug in the mapped code that TLC finds. They are listed in `PROJECT.json`.
- `ActionsEndKeepForced`: `implicit_keep` is not carried into `do_sieve_error`.
- `KeepAfterActionIgnoringCancel`: `cancel_keep` is not consulted.
- `ImplicitKeepFailedUnrecorded`: `keep_ret` is not ORed into `ret`.
- `TrackDuplicatesAlways`: records are written whatever `ret` is.
- `NotifyEndKeepingList`: the notify list is not cleared before the recursion.
- `ImplicitKeepFailedRetrying`: `implicit_keep` is not cleared before the recursion.
- `LoadFstatFailedNoClose`: the descriptor is not closed when `fstat()` fails.
- `LoadOpenFailedNoFree`: the fresh handle is not freed when `open()` fails.
- `ExpandTextLimitedNoSkip`: the cursor steps over `]` only.
- `BodyParsedOkNoFree`: the script is kept when there is no `out_script`.
- `TailParseStringFreesCaller`: `sieve_script_free(script)` in place of `&myscript`.
- `DoActionNoBreak`: the loop of `do_action_list` goes on after a failed callback. This breaks `ImplementsExecution`, because an action is dispatched after a failure.
- `LoadMappedNoCursor`: a new mapping does not become current. This breaks `CursorInList`.
- `LoadReloadedNoBreak`: the reload loop takes the oldest matching blob instead of the newest. This breaks `ImplementsScriptCache`.
- `BodyParsedOkErrorsKept`: a successful parse leaves `*out_errors` unchanged instead of setting it to NULL. This breaks `ImplementsParseApi`.

## 4. Proofs (checked by `tlapm`)

### `SieveDispatchProofs`

- `TypeCorrect`: `Spec => []TypeOK`.
- `CancelKeepSafe`: `Spec => []CancelKeepHonoured`. Whatever the constants, the implicit keep never runs once an action with `cancel_keep` has been dispatched.

Both rest on the inductive invariant `IInv == TypeOK /\ Bounds /\ KeepInv`.
- **Why `Bounds` is needed.** `TypeOK` alone is not inductive: appending to `executed` needs `Len(executed) <= MaxActions`. `Bounds` ties the cursor `idx` to `executed` and the action list while the loop runs, and to the notify list in the notify phase.
- **Why `KeepInv` is needed.** `CancelKeepHonoured` alone is not inductive either. `KeepInv` adds three facts:
  - while `implicitKeep` is set, no cancelling action has been dispatched (line 752 clears it, and nothing sets it again);
  - the same holds once an implicit keep has run;
  - no implicit keep happens before `do_sieve_error` is entered.
- **How the proof is laid out.** There is one lemma per action: Init establishes `IInv` (`InitIInv`), and every action and the stutter step preserve it (`NextIInv`). The theorems follow by PTL.
- **Assumption used.** The only assumption is `DispatchAssumption`: the bounds are natural numbers, and every interpreter registers keep, as `interp_verify` demands.

### `SieveDispatchRefinement`

- `DispatchRefinesExecution`: `Spec => Execution!ASafety`, for every value of the constants. This is the safety part of `ImplementsExecution`.
- `OkDisposed`: `Spec => []OkMeansDisposed`.
- `TrackedDisposed`: `Spec => []TrackedOnlyIfDisposed`.
- `NotifyOnce`: `Spec => []NotifyAtMostOnce`.
- `KeepOnce`: `Spec => []KeepAtMostOnce`. The keep callback runs at most once per message, counting explicit and implicit keeps.

All five rest on `RInv == IInv /\ RetInv /\ KeepsInv /\ NoteInv`. TLC checks `RInv` as an invariant of the dispatcher instance.
- **`RetInv`.** Each action assigns `ret` rather than ORing into it, and the loop breaks at the first failure. So while the loop runs, `ret` is OK and every dispatched action succeeded. Once the call is past the start, an OK `ret` means that `implicitKeep` is still set or the message was disposed of. From the tracking step on, it means the message was disposed of. `RetOrOk` supplies the key fact: `ret |= r` is OK only when both operands are. So an error, once in `ret`, stays there.
- **`KeepsInv`.** At most one implicit keep happens. After it, `implicitKeep` is clear (failure, line 715), or the call is returning (success).
- **`NoteInv`.** In the notify phase, the entries from `idx` on are unsent. Outside it, a pending notify list is entirely unsent. This holds because `notify_list = NULL` (line 662) clears the pending flag before any re-entry of `do_sieve_error`.
- **How the proof is laid out.** There is one lemma per action for `XInv == RetInv /\ KeepsInv /\ NoteInv`. One lemma per group of actions maps the step to an action of `SieveExecution` or to a stutter (`NextRefines`). The theorem follows by PTL from `AlwaysRInv`, `InitRefines` and `NextRefines`.
- **`KeepOnce` needs one more invariant, `PrefixInv`.** The action list is one the evaluator can produce (`ActionLists`: at most one explicit keep), and each dispatched record is the entry at its index. TLC checks `PrefixInv` on the dispatcher instance. The argument then runs as follows:
  - two dispatched explicit keeps would be two keeps in the list, so there is at most one;
  - an explicit keep carries `cancel_keep` (`CancelKeepOf`), so by `KeepInv` no implicit keep follows it;
  - `KeepsInv` bounds the implicit keeps by one.

  The count is a `Cardinality`, so the proof cites `FS_EmptySet` and `FS_Singleton` of `FiniteSetTheorems`.

### `SieveBytecodeCacheProofs`

- `DescriptorsOwned`: `Spec => []FdsOwned`, for any names, inodes and `MaxBlobs`, whatever the other process does to the names.
- `NoLeakedHandle`: `Spec => []NoHandleLeak`.
- `CacheTypeCorrect`: `Spec => []TypeOK`.

All three rest on `CInv == TypeOK /\ FdLayout /\ ExOwnership`. TLC checks `CInv` on the cache instance.
- **Why `FdsOwned` is not inductive.** `LoadMapped` needs a free descriptor, and it needs the one `open()` returns to be one the list does not hold yet. `FdLayout` supplies both:
  - while a load is between `stat()` and `open()`, the list is shorter than `MaxBlobs`;
  - since `open()` returns the lowest free descriptor and unload closes them all, the list holds exactly the descriptors `1 .. Len(bcList)`, with the newest (highest) at the head.
- **Operator lemmas.**
  - `LowestFreeFdIs`: with `1 .. n` open, `LowestFreeFd = n + 1`. This resolves the CHOOSE.
  - `PrependProperties`: what `<<r>> \o s` is, via `ConcatProperties`.
  - `LayoutFds`: the list's descriptors are `1 .. Len(bcList)`.
  - `BoundedSeq`: a bounded sequence has the shape `TypeOK` gives `bcList`.
- **Why `ExOwnership` is needed.** Between `stat()` and `open()`, `pendingEx = dofree`. So the failure paths, which free `ex` only when `dofree` is set, leave nothing pending.
- **Assumption used.** `CacheAssumption`: `MaxBlobs` is a positive natural, and `Missing` is not an inode.

### `SieveFrontEndProofs`

- `FrontEndOwnership`: `Spec => []OwnershipAtReturn`, for any `MaxCalls`.
- `FrontEndNoDoubleFree`: `Spec => NoDoubleFree`, an action property.
- `FrontEndTypeCorrect`: `Spec => []TypeOK`.

Both rest on the inductive invariant `FEInv == TypeOK /\ fresh + Rem <= 3 * calls + 1 /\ Owners`.
- **Why `OwnershipAtReturn` is not inductive.** It says nothing about the state inside a call. `Owners` says that at every step the heap is exactly:
  - the caller's scripts and error string;
  - `CallOwned`, the interpreter and `myscript` of the call in progress.

  It also says:
  - each holder's objects have the right kind, so they are distinct;
  - ids below `fresh` are the only ones ever used, and a dangling error pointer is among them;
  - no error string is held while a call is before its body.
- **The `Rem` bound.** It bounds the allocations still to come, which keeps `fresh` within the ids of `TypeOK`.
- **How the proof is laid out.** `NextFEInv` has one case per action, each split into type, bound and ownership. `StepFreesAllocated` shows that every step frees only objects that are live or made in that step.
- **Assumption used.** `FrontEndAssumption`: `MaxCalls` is a positive natural, and `Null` and `Uninit` are distinct non-numbers.

### `SieveScriptCacheProofs`

- `ACursorAlwaysValid`: `ASpec => []ACursorValid` on the abstract cache.

`ACursorValid` is inductive once `ATypeOK` is added. There is one lemma per step (`AInitInv`, `AFailInv`, `AReloadInv`, `AMapInv`, `AUnloadInv`, `AFsChangeInv`). Two steps need facts about sequences from `SequenceTheorems`: `AppendProperties` for a new mapping, and `EmptySeq` for an unload.

### `SieveBytecodeCacheRefinement`

- `CacheRefinesScriptCache`: `Spec => ImplementsScriptCache`. For every set of names and inodes and every `MaxBlobs`, the cache, with its `stat()`/`open()` window and the other process acting inside it, implements the one-step-per-call promise.
- `CursorValid`: `Spec => []CursorInList`. This is the section 4.2 cursor invariant on the code's own state.

The mapping works because of `CInv`, the invariant of `SieveBytecodeCacheProofs`.
- **Why `CInv` is needed.** `FdLayout` says that the descriptors are `1 .. Len(bcList)`, head highest. So the blob the reload loop (lines 578-583) finds first from the head is the newest mapping of the inode. Its descriptor is its position in `MappedInodes` (`BackwardsInodes`, `MappedShape`). `LoadMapped` prepends the descriptor `Len(bcList) + 1`, which is `Append` on the reversed list (`SeqEqual`).
- **How the proof is laid out.** There is one lemma per action of the cache, and the `stat()` step and the failures map to stutters or `AFail`. `NextRefines` collects them, and the theorem follows by PTL from `AlwaysCInv`.
- **How `CursorValid` is proved.** It is the abstract `ACursorAlwaysValid`, used through `INSTANCE SieveScriptCacheProofs WITH mapped <- MappedInodes`. The prover treats the operators of the two instances as different symbols, so explicit `<=>` steps bridge `AInit`, `[ANext]_avars` and `ACursorValid`. Then `CInv` turns a valid position into a descriptor that is in the list.

### `SieveFrontEndRefinement`

- `FrontEndRefinesParseApi`: `Spec => ImplementsParseApi`, for any `MaxCalls`.

The mapping works because of `FEInv`, the invariant of `SieveFrontEndProofs`.
- **Why `FEInv` is needed.** `Owners` says that the heap is exactly what the caller holds plus `CallOwned`. So `live \ CallOwned` changes only when a call returns or the caller frees something. `BodyFresh` shows that the object a body step allocates is not yet in the abstract heap. `CallCounts` shows that the call counter moves by one at the step that maps to `PCall`.
- **How the proof is laid out.** There is one lemma per action. Steps inside a call satisfy `HiddenStep`, and the lemma `HiddenStepStutters` proves once that such a step leaves the abstract variables unchanged. The body outcomes map to the four outcomes of `PCall`. The theorem follows by PTL.

**Left to TLC:**
- `ExpandsAsSpecified`: the reference `Expected` is a RECURSIVE operator, and the 64-bit limb arithmetic is a recursive function over the digits;
- the liveness half of `ImplementsExecution` (the weak fairness of `ASpec`: the call returns);
- the properties the violation runs refute (they do not hold).

The prover cannot handle liveness or ENABLED. It also cannot prove by induction what a recursive definition computes.

## 5. Not modelled

- `sieve_script_parse` (123-160) and `script_require` (81-89). The first restarts the lexer on a `FILE` and calls `_sieve_script_parse`; the second ORs capability bits. Neither changes who owns what, and no property tells their results apart.
- The case-insensitivity of `strncasecmp` in the builder, and `charset_parse_mimeheader`, which is outside this file.
- `send_notify_callback` (407-458), beyond the return codes `SieveDispatch` chooses for it.

- The evaluator `sieve_eval_bc` and the parser `sieveparse`: not in this file.
- The text of the trace (`actions_string`) and of the error buffer. `snprintf` bounds them, and no property depends on their wording.
- The `SIEVE_NOMEM` branches of `sieve_execute_bytecode`. They are dead code, because the list constructors use `xzmalloc`, which never returns NULL.
- `if (!interp) return SIEVE_FAIL`, and the argument checks of `sieve_script_load`.
- The contents of mapped files (`map_refresh`). The cache is modelled at the level of inodes and descriptors.

## 6. Plan for later work

1. **Composition.** Combine the front end with the cache: a script compiled by the parse path, installed by the other process, then loaded.

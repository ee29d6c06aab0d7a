# TLA+ models of the Compass (Zhouyi AIPU) extension of Apache TVM

This directory holds TLA+ models of the Python parts of the repository under
`src/`, with TLC configurations that check them and TLAPS proofs about them.
Each module models a handler or a function from its source lines. `PROJECT.json`
maps each definition to the lines it models.

## 1. The system and its parts

The repository's Python code has three groups.

* **Tool glue**, `python/tvm/aipu/utils.py`:
  * `check_call_aipu_tool` (lines 24-74) runs an AIPUBuilder tool (aipugsim,
    aipuopt, ...) as a subprocess inside a work directory. It `chdir`s the
    *process* there, writes the tool's output to a log, scans the log for
    `Total errors: N`, restores the directory and raises `RuntimeError` on
    failure.
  * `get_rpc_session` (lines 106-159) resolves the RPC key, tracker host, port
    and priority from its arguments and the environment with Python's `or`,
    asserts them, and requests a session from the RPC tracker.
    `check_remote` (162-173) runs it in a one-worker pool with a 10 second
    timeout and returns False on `TimeoutError`, True otherwise.
* **The Optimizer forward engine**, `engine/opt_forward_engine.py`:
  * `pre_build` generates the Compass IR of a Relay function. It then runs
    aipugsim (if `use_gsim_float`) and aipuopt (if quantized), each through
    `check_call_aipu_tool`, reads the last IR back and embeds it as function
    attributes.
  * `create_func_data` takes the attribute text after the Relay
    printer/parser round trip and undoes the escapes with `unicode_escape`.
    It writes the IR back to disk and loads it into an `OptForward` executor.
  * `run` calls the executor, and dumps the data when the runtime `dump`
    option is on.
* **Helpers used by passes and tests**, also in `utils.py`:
  * `vec_type`, `double_elem_width` and `half_elem_width` are vector type
    arithmetic against the 256-bit native width.
  * `rand` draws test data in `[low, high)` with the corner values forced
    in, under a module-global NumPy seed.

They interact as follows:
* `pre_build` calls `check_call_aipu_tool` once per tool, and compilation tasks
  of different functions may call it concurrently (spec.md section 5).
* `create_func_data` depends on `pre_build`'s attribute surviving the Relay
  text round trip.
* The TIR passes use the vector helpers.
* The tests use `rand`.

The TIR pass pipeline of spec.md section 4 (pass manager, stride generation, DMA,
width split/pad, events) is not under `src/`. Only the import list
`tir/transform/__init__.py` is.

## 2. Inventory

| Component | State | Operations | Hard behaviour |
|---|---|---|---|
| check_call_aipu_tool | process cwd (shared); per call: work_dir, old_cwd, ret_code, log | call, chdir, run, scan+restore+raise | threads sharing cwd; run() raising between chdir and restore; first positive count |
| AIPUOptForwardEngine | IR files per function and kind, attributes, executor, forward history | pre_build, create_func_data, run | stale files; tool failures mid-handler; path choice by two flags; escape round trip |
| vector helpers | a vector type (bits, lanes) | widen, narrow | odd lanes, 64-bit, the native width |
| rand | global seed; a call's arguments and result | rand | float16 resolution, corner placement off-by-one |
| RPC helpers | environment, arguments, pool worker, request | check_remote, get_rpc_session in the worker, tracker answer, pool timeout, result() | falsy values, precedence, the timer racing the tracker, exceptions other than TimeoutError |

## 3. Modules

* **`AipuTool`** models `check_call_aipu_tool` for a set `Threads` of
  compilation tasks in one process.
  * State:
    * `cwd` is `os.getcwd()`.
    * Per thread: `pc`, the locals `wdir` (work_dir), `oldCwd`, `ret` and
      `log`, the directory `spawnedIn` its tool ran in, the `outcome` of its
      last call, and `calls`.
  * Actions: `Call` (lines 24-27), `ChangeDir` (28-30), `RunTool` (32-51,
    including `run()` raising) and `Finish` (53-74: scan, restore, raise).
    The scheduling points between them are the places where another thread
    may run.
  * The log is a sequence of lines, and each line is the list of numbers the
    regex finds on it. `LineErrors`/`CountErrors` are the two loops.
  * `MCAipuTool` gives the return codes and log lines.
* **`OptForwardEngine`** models the three handlers for a set `Funcs`.
  * State: `disk[f][k]` for `k` in compass / gsim_float / quant, which starts
    as nothing or a stale IR from an earlier build. Also `attr`, `exec`,
    `forwards`, `dumped`, `phase`, and `genTxt`, the text the code generator
    produced.
  * An IR is a record with `stage`, the tools applied, and `txt`, the text as
    characters.
  * `PreBuild` is the whole handler. It has three outcomes: success, gsim
    raising, or opt raising.
  * `CreateFuncData` applies `Unescape(RelayRoundTrip(txt))`, built from
    `EncodeUtf8`, the printer's `EscapeByte` and a byte-level `UnicodeEscape`
    (a recursive function over the position in the bytes, not a RECURSIVE
    operator, so that the module stays usable by the prover).
  * `Run` is the run handler.
  * Tool calls are single steps: `AipuTool` proves what such a call returns.
  * `isQuant` is the engine's `_is_quant`, fixed by `__init__` (17-19); one
    run covers both modes.
* **`CompassBuild`** is the abstract promise of the engine for each function:
  `pending`, then `built` with an executor on the IR of its pipeline of tools
  (aipugsim when `use_gsim_float`, aipuopt when quantized) carrying the
  generated text, or `failed`; only a built function runs, in the engine's
  mode. `OptForwardEngine` instantiates it with the refinement mapping
  `BuildState` (`new`/`prebuilt` → pending, `created` → built, `failed` →
  failed); files, attributes and the dump are hidden. A `pre_build` step maps
  to `Generate`, a
  `create_func_data` step to `Build`, a `run` step to `Run`.
* **`RpcSession`** models `check_remote` for a bounded number of calls.
  * State: `env` (the five environment variables, each set, unset or empty),
    the caller's `pc`, the call's `args`, the pool `worker`, the request `req`
    the worker made, the `result` of the last call.
  * `Resolve`, `Asserted` and `Request` translate lines 139-159: `Or` is
    Python's `or`, `Truthy` its truthiness (an int priority 0 is falsy, the
    text "0" is not), `KeyAllowed` the valid-key list.
  * Actions: `CheckRemote` (164-170), `ResolveSettings` (the worker runs lines
    139-155 and may fail an assert), `Grant` and `Refuse` (the tracker's
    answer to line 157), `Timeout` (the pool kills a running worker; 171-172
    return False), `Collect` (`result()` returns True or re-raises the
    worker's exception). A tracker that keeps the request waiting takes no
    step.
* **`VectorTypes`** has one variable `v`, the type a chain of lowering steps
  has reached. `Widen` and `Narrow` apply `DoubleElemWidth` and
  `HalfElemWidth`. `Init` is any native or narrower vector.
* **`Rand`**: one `Rand(a)` action is a whole call. It covers the seed
  (256-260), bool (263-265), the bounds, the equal-bounds case, the assert,
  the draws and the corner placement at distinct indices (285-294). Values
  are integers in units of `max_eps`. A dtype has a quantum `q`, and `Cast`
  rounds to it: float16 has `q > 1` at that scale.

Each component's proofs are kept in a module of their own that extends it:
`AipuToolProofs`, `OptForwardEngineProofs` (with
`OptForwardEngineRefinement`, which extends it), `VectorTypesProofs`,
`RandProofs` and `RpcSessionProofs`.

## 4. Runs

| Run | Checks | Result |
|---|---|---|
| tool_seq | TypeOK, OutcomeMatchesTool, ToolRunsInWorkDir: 1 thread, 2 calls, 2 dirs, logs of ≤ 2 lines, run() may raise | pass (943 states) |
| tool_cwd_leak | CwdRestoredWhenIdle | violation: run() raises after chdir |
| tool_cwd_race | ToolRunsInWorkDir with 2 threads | violation: a thread's tool runs in the other's directory |
| tool_cwd_restore_race | CwdRestoredWhenIdle with 2 threads, run() never raising | violation: a thread restores the `old_cwd` it read while the other was in its call |
| engine_build | TypeOK, ExecutorLoadsPipelineIR, IrTextRoundTrip, and BuildSpec (the refinement): both modes, 2 functions (one gsim), stale files, failing tools, ASCII texts with `\`, newline and `\n`-like characters | pass (2176 states) |
| engine_nonascii | IrTextRoundTrip on a text with `é` | violation: mojibake |
| vector_types | TypeOK, FitsNative from 8/16/32-bit, lanes 1..32, up to 64-bit | pass (108 states) |
| vector_widen_odd_lanes | WidenKeepsAllLanes | violation: u8x17 → u16x8 |
| rand | TypeOK, InHalfOpenRange, CornersIncluded: int, float32 and bool, sizes 1, 2, 4, lows None/-2/1, highs None/2 | pass (2380 states) |
| rand_float16_high | InHalfOpenRange for float16 | violation: a draw near `high - 1e-5` rounds to `high` |
| rpc | TrueOnlyForAllowedSession, CheckRemoteReturns (under FairSpec): 2 keys, 1 host, 1 port, env priorities "0"/"5", every environment, 2 calls | pass (22644 states) |
| rpc_check_remote | CheckRemoteAnswers | violation: a failed assert raises out of check_remote |

The findings these violations show are listed in `PROJECT.json`.

Why the bounds are enough:
* **tool_seq** uses two calls with two directories. That is enough for a
  call whose work directory equals the current one (no chdir) and for one
  that differs, for restoring after success, RuntimeError and OSError, and
  for a log whose first number is 0 but whose second is positive. A
  one-line log cannot show the last case.
* **The engine runs** cover, in one run: stale files, a function with and
  one without gsim, every tool failure, and texts with a backslash, a
  newline and the letters `n`/`x` after a backslash.
* **The vector run**: lanes 1..32 include odd counts and the native 32-lane
  u8 type.
* **The rand run**: size 4 exceeds the 3 corners of a range that contains 0,
  and size 2 does not. Its float32 dtype is exact at `max_eps` steps (a copy
  of the integer one), which float32 is only for bounds small enough that
  `1e-5` is representable near them; larger bounds behave like float16.
* **The rpc run**: two keys make a key the valid-key list refuses possible
  next to one it allows; the environment ranges over every mix of set,
  unset and empty variables (valid keys: unset, none listed, one, both), so
  each `or` takes both branches; two calls show a call after a timed-out one.

Every passing property has a mutant: a plausible bug in a mapped definition,
which TLC must catch. Examples are the log opened in append mode, the first
number taken without the `> 0` test, and a dropped `chdir`, halving, redraw
loop or `max_eps`.

Fairness is assumed only in `RpcSession` (`FairSpec`): weak fairness of
`Timeout` and of `Collect`. The pool's timer fires once 10 seconds have
passed while the worker is still running, and `result()` returns as soon as
the worker has finished; both are guaranteed by `PopenPoolExecutor`, not by
the network. The tracker (`Grant`, `Refuse`, an error answer) and the worker's progress are
not assumed fair: `CheckRemoteReturns` holds even when the tracker never
answers. The other runs check safety only; every handler there runs to
completion in one step, or its steps have no waits. Compilation ends, so runs
disable the deadlock check (`CHECK_DEADLOCK FALSE`, commented in each cfg).

## 5. What is proved

`AipuToolProofs` proves two theorems for all constants satisfying
`ConstAssumption`.

* `TypeCorrect`: `Spec => []TypeOK`. The proof rests on `TypeStep`, with
  one step per action.
* `OutcomeCorrect`: `Spec => []OutcomeMatchesTool`.
  * `OutcomeMatchesTool` alone is not inductive. `RunTool` writes a new
    return code and log while `outcome` still holds the previous call's
    result.
  * The inductive invariant `IInv` adds that a thread inside a call has
    outcome "none": `Call` resets it, and only `Finish` or a raising
    `RunTool` sets it.
  * The proof has three parts: `IInvInit`, `IInvNext` (one step per
    action), and `IInv => OutcomeMatchesTool`.
  * The `Finish` step rests on `CountErrorsCorrect`: the two loops return a
    non-zero count exactly when some line holds a positive number. That
    lemma rests on `LineErrorsCorrect` and `LeastIsLeast`. `LeastIsLeast`,
    that `Least` is the least element of a non-empty set of naturals, is
    proved from the well-foundedness of `<` on `Nat`.

`VectorTypesProofs` proves, for all `ElemBits`, `LaneCounts` and
`MaxElemBits` satisfying `VectorAssumption`:
* `FitsNativeCorrect`: `Spec => []FitsNative`. `FitsNative` alone is not
  inductive (a product of non-numbers says nothing), so the invariant is
  `FitInv`, adding that the type is a record of naturals. `InputsFit`
  covers `Init`; `WidenFits` and `NarrowFits` cover the two actions. They
  rest on `DoubleHalvesFit` (`2b * (l div 2) <= b * l`) and `HalfDoublesFit`
  (`(b div 2) * 2l <= b * l`).

`AipuToolProofs` also proves `ToolRunsInWorkDirCorrect`: under the hypothesis
`SingleThread` (one thread calls the function), `Spec => []ToolRunsInWorkDir`.
The property is not inductive alone, since the directory a tool is spawned
in is fixed two steps before the spawn. `WorkDirInv` adds that a thread
between lines 27 and 30 finds the process still in its `old_cwd`, and that
a thread about to call `subprocess.run` finds it in its `work_dir`. With a
second thread both facts fail, and run `tool_cwd_race` shows the violation.

`VectorTypesProofs` also proves `TypeCorrect` under the hypothesis
`MaxElemBits <= 128`: `Spec => []TypeOK` via `TypeInv == TypeOK /\
FitsNative`. `WidenPositive` and `NarrowPositive` show that lanes stay
positive: a type that fits and has at most 128-bit elements has an even
lane count whenever it has more than one lane. The hypothesis is needed:
TLC with `MaxElemBits = 512` widens `u256x1` to 512 bits and 0 lanes. The
AIPU's widest element is 64 bits.

`RandProofs` proves, for all constants satisfying `RandAssumption` (dtypes
with integer bounds and a positive quantum, integer or None bounds, positive
sizes):
* `TypeCorrect`: `Spec => []TypeOK`. `OutInt` shows that every branch of a
  call returns a sequence of integers. The draw branch rests on `CastInt`,
  `BoundsInt` and `CornersInt`.
* `CornersIncludedCorrect`: `Spec => []CornersIncluded`. No strengthening is
  needed, because each call decides the property afresh (`CornersStep`).
  * When the bounds meet, every corner is that value (`CornersRange`).
  * Otherwise the placement `p` is injective, so at position `p[k]` the
    `CHOOSE` picks `k`, and the k-th corner stands there.
* `InHalfOpenRangeCorrect`: under the hypothesis that every dtype has
  quantum 1 (exact at `max_eps` steps), `Spec => []InHalfOpenRange`.
  * `CastExact` makes the cast the identity.
  * `RangeStep` shows every draw and every corner in `[minv, maxv]`.
  * `MaxV` subtracts `max_eps` from `high`.
  * Run `rand_float16_high` shows that a dtype of quantum 4 breaks the
    property.

`RpcSessionProofs` proves, for all constants satisfying `RpcAssumption`:
* `TypeCorrect`: `Spec => []TypeOK`. `RequestPriority` shows that the
  priority sent to the tracker is a natural in both cases of line 158's
  `or`.
* `TrueOnlyForAllowedSessionCorrect`: `Spec => []TrueOnlyForAllowedSession`.
  The property is not inductive alone, since it speaks of the request only
  once `result()` has returned True, two steps after the request was made.
  * `IInv` adds that a requesting or granted worker passed the asserts and
    requested exactly the resolved `Settings`.
  * `IInv` also says that True is returned only to the granted worker of
    the current call.
  * `AssertedRequest` turns the asserts into the property's conclusion.

`OptForwardEngineProofs` proves `ExecutorLoadsPipelineIRCorrect`: `Spec =>
[]ExecutorLoadsPipelineIR` for every set of functions, gsim configurations
and engine modes.
* The invariant `PipelineInv` adds that a prebuilt function's attributes
  hold the IR of its pipeline, and it keeps the shape of the state (domains
  of `disk`, `attr` and `exec`).
* `PreBuildStage` computes the stage of the IR that `pre_build` reads back,
  whatever stale file was on disk. It covers the three cases: quantized,
  gsim only, and neither.
* `create_func_data` then copies that stage into the executor.
* The texts are left out of the invariant. They are the subject of
  `IrTextRoundTrip`, below.

`OptForwardEngineRefinement` proves the engine's other properties, for
every set of functions, gsim configurations, engine modes and texts, under
one hypothesis:

    TextsRoundTrip == \A t \in Texts : Unescape(RelayRoundTrip(t)) = t

that is, line 93 gives back every text the code generator may produce.
* The hypothesis is about the bytes of each text. It holds for the ASCII
  texts of run `engine_build`, and it fails for the non-ASCII text of run
  `engine_nonascii`. So it is satisfiable, and it is not vacuous.
* `EngineAssumption` also says that a generated text is a non-empty
  sequence of characters: `gen2file` always writes the model header, and
  the empty sequence stands for "not generated".
* The theorems are `TypeCorrect` (`Spec => []TypeOK`),
  `IrTextRoundTripCorrect` (`Spec => []IrTextRoundTrip`) and
  `BuildSpecCorrect` (`Spec => BuildSpec`, the refinement of
  `CompassBuild`).
* They rest on one inductive invariant, `EngineInv`. TLC checked it on the
  `engine_build` instance before it was proved. It adds to `TypeOK` that:
  * a function has a text exactly when `pre_build` ran for it;
  * a prebuilt function's attributes hold `PipelineIR(f)`, the IR of its
    pipeline with the generated text;
  * only a created function has an executor, and it loads `PipelineIR(f)`.
  The last clause is needed because `pre_build` changes `genTxt[f]`: it
  must not be the text of an executor that already exists.
* Two lemmas summarise the handlers:
  * `PreBuildStep` says what one `pre_build` writes. It rests on
    `PreBuildFiles` (the files stay typed and keep the text) and on
    `PreBuildStage`.
  * `CreateFuncDataStep` uses the hypothesis to show that the executor
    loads `PipelineIR(f)`.
* The refinement maps phases to build states: new and prebuilt to
  pending, created to built, failed to failed.
  * `RefineInit`: initial states map to initial states.
  * `RefineNext`: `pre_build` is a `Generate` step (pending, or failed).
    `create_func_data` is a `Build` step on the pipeline's IR with the
    generated text. `run` is a `Run` step. Stutters map to stutters.
  * `BuildStatesExcept` lifts a one-function phase change to the mapped
    state.

Only model-checked, and why:
* `TextsRoundTrip` itself, and with it the three engine theorems without
  the hypothesis.
  * The hypothesis says what `Unescape(RelayRoundTrip(t))` computes. That
    needs induction over the bytes of the text, through the recursive
    function `UnicodeEscape`.
  * The provers cannot instantiate the library's induction theorems, so
    they cannot unfold the recursive function.
  * TLC checks `IrTextRoundTrip` for the ASCII texts of `engine_build`.
    Run `engine_nonascii` shows the property fails for non-ASCII texts.
* The liveness property `CheckRemoteReturns`: TLAPS cannot reason about
  fairness or `ENABLED`.
* `ToolRunsInWorkDir` with several threads: it is false there (run
  `tool_cwd_race`).

## 6. Not modelled

* Path, product and target helpers (`abspath`, `prod_const`,
  `canonicalize_target`, `get_range`): string manipulation over TVM objects,
  with no state and no interaction.
* Relay pass wrappers: two one-line FFI calls; the passes are C++ outside
  this repository.
* The TIR pass pipeline (pass manager, stride, DMA, width split/pad, events):
  only the import list `tir/transform/__init__.py` is under `src/`. A model
  written from spec.md alone could not be compared with any code here.
* Package inits and test drivers: imports and calls of the modelled helpers.
* In `check_call_aipu_tool`, the import-time default `work_dir` (line 24) and
  the table lookup of line 72: every caller in `src/` passes a work directory
  and calls a tool the table lists, so neither is reached.
* In `get_rpc_session`, the priority argument: `check_remote` always passes
  100, so a zero priority can only come from the environment as a truthy
  text; `int()` of a non-numeric port is outside the model's data.

Further work: `TextsRoundTrip` for every ASCII text, as a theorem. This
would discharge the hypothesis of the engine theorems for ASCII models. It
needs an induction over the bytes that the installed provers cannot carry
out.

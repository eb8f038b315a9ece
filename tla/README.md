# A TLA+ development of leancpsat

leancpsat is a Lean 4 binding of the CP-SAT solver of OR-Tools. A Lean program
builds a model as pure data, encodes it as protobuf bytes, and hands the bytes to
a C++ shim that calls CP-SAT. A solve is blocking, stoppable, or *streaming*:
CP-SAT then runs on a background thread and the caller pulls its improving
solutions one by one.

All paths below are relative to the repository (`src/` is its root); those that
begin with `sat/` or `util/`, and file names of CP-SAT, are under `or-tools/ortools/`.

## 1. Inventory

| component | where | state | operations |
|---|---|---|---|
| Model builder | `Cpsat/Model.lean` | `ModelState`: variable domains, constraints, objective, assumptions, hint | `newIntVar`, `add*`, `onlyEnforceIf`, `minimize`/`maximize`, `markAssumption(s)`, `add(Bool)SolutionHint`; arithmetic on `LinearExpr` |
| Wire encoding | `Cpsat/Proto.lean`, `Cpsat/Basic.lean` | none | `modelStateToProto` and its parts, `responseFromProto` |
| Streaming solve, Lean side | `Cpsat/Solver.lean` 57-124 | where the call is; what it delivered | `nextUpdate`, `pullUpdates`, `solveWithResultCallback`, `solveWithSolutionCallback` |
| Streaming solve, shim | `native/cpsat_shim.cpp` 95-201, 258-313 | `StreamState` (mutex, condition variable, queue, `finished`), `StreamHandle` (thread, reference on the token), the solve's `Model` with its `ModelSharedTimeLimit` | `cpsat_solve_stream_start`, `RunStream` and its observer, `cpsat_solve_stream_next`, the handle's finalizer |
| StopToken | `native/cpsat_shim.cpp` 59-93, 223-239 | `LeanStopToken`: mutex, `stopped`, `active_stream_limit`, `legacy_cenv`; a Lean reference count | `cpsat_new_stop_token`, `cpsat_stop_token_stop`, its finalizer |
| Plain and interruptible solve | `native/cpsat_shim.cpp` 205-256, OR-Tools' `c_api/cp_solver_c.cc`, `sat/cp_model_solver.cc` (`SolveCpModel`) | a `CpSatEnv` that outlives a solve when it belongs to a token: stop flag, response manager, solution pool, postprocessors | `cpsat_solve`, `cpsat_solve_interruptible`; validation, presolve, search, `GetResponse` |
| Response manager (CP-SAT) | `sat/synchronization.cc`, `sat/cp_model_solver_helpers.cc` (what workers import and export) | objective bounds, status, best solution, solution pool, callbacks, under one mutex; a synchronized copy of bounds and status that workers are handed | `NewSolution`, `UpdateInnerObjectiveBounds`, `NotifyThatImprovingProblemIsInfeasible`, `Synchronize`, `GetResponse` |
| Subsolver loop (CP-SAT) | `sat/subsolver.cc`, `sat/cp_model_solver.cc` (`FullProblemSolver`, `LnsSolver`), `sat/shaving_solver.cc` | subsolvers, tasks in flight (counted under one mutex), the thread pool | `NonDeterministicLoop`, `SynchronizeAll`, `ClearSubsolversThatAreDone`, `NextSubsolverToSchedule`, `GenerateTask` |
| Field-number check | `native/cpsat_field_numbers_check.cpp` | none | `static_assert`s |
| Build script | `lakefile.lean` | files of the OR-Tools build | `findOrToolsBuild`, link flags |
| Tests | `Test/Main.lean` | none | read as documentation |

How they interact. The caller's Lean task builds a `ModelState`, which
`Cpsat.Proto` encodes; the bytes cross the FFI. For a streaming solve
`cpsat_solve_stream_start` takes a reference on the `StopToken` and starts
`RunStream` on a `std::thread`. The two threads then share the `StreamState`
(queue and `finished`, under `StreamState::mu`, with one condition variable)
and the `LeanStopToken` (under `LeanStopToken::mu`). CP-SAT calls the observer
with each improving solution, from whichever of its threads found it but always
holding `SharedResponseManager::mutex_`, so observer calls do not overlap. When
the Lean handle is dropped, its finalizer, which runs on whichever Lean thread drops it,
may stop the token and joins the background thread.

A plain or interruptible solve has no thread of the shim's own: the Lean task
runs `SolveCpModel` on a `CpSatEnv`, its own or its token's. With more than one
worker the thread inside `SolveCpModel` runs the subsolver loop: it hands tasks to a pool,
and the tasks meet in the response manager, where they leave solutions and
bounds and fetch each other's. The response manager calls the observers, and
`GetResponse` makes the response of what it holds.

OR-Tools is most of the repository by size. Only its parts that a call of the
binding runs through and whose state several threads share, or that outlives a call,
are worth a model here; the numerical and combinatorial algorithms (presolve,
propagators, LNS, cuts) and its other solvers are not this program's logic.

What is hard here:

* *interleaving*: caller, background thread, stopping tasks and finalizers of
  several streams meet in one `LeanStopToken` that has room for one stream's
  limit;
* *lifetime*: the token points into a `Model` on `RunStream`'s stack, the
  background thread uses a token that Lean may finalize, the finalizer joins a
  thread that wants the lock the finalizer takes;
* *wakeups*: `notify_one` after the lock is released, a wait in a loop, a
  terminal item that only one puller gets;
* *reuse*: a token's environment keeps the state of the last solve;
* *shared bounds*: workers prove things from bounds that are old by the time
  they report them, and the first to finish sets a status that others may not undo;
* *stops and limits*: a stop, a ^C or the time limit comes at any point of a solve,
  a stop also before it, and must end it with a response that is true;
* *failure*: the callback throws, or a response does not decode, with the
  search still running;
* *numbers*: `Int64` arithmetic that wraps in the builder and clamps in the
  encoder, and goes through doubles in the objective, between a caller who means
  integers and a solver with limits of its own.

Every hazard, with its line and the properties that cover it, is listed under
`hazards` in `PROJECT.json`.

What makes each component correct:

* *streaming solve*: each improving solution reaches `onSolution` once, in
  order, and before the call returns the search's own final response; a failing call leaves a
  prefix delivered; the call returns only when its thread has gone; no wakeup is
  lost;
* *StopToken*: a stop reaches the search that runs on the token, makes its call
  return, and itself returns; nothing uses the token or the limit after its
  life; draining a stream leaves the token usable;
* *plain and interruptible solve*: the response is true of the problem asked,
  carries the best solution found, is inconclusive only after a stop, a ^C or the
  time limit, and a stop ends the call;
* *response manager*: bounds stay valid, the status is true and only
  evolves, and observers see strictly better solutions, the last of which is the response's;
* *subsolver loop*: no task uses a subsolver that was deleted, the loop leaves no task
  and no result behind, and it ends;
* *builder and encoding*: the encoded model has exactly the solutions the
  caller's statements have, the answer decoded from CP-SAT's response answers
  the caller's question, and a model that keeps within half of the `Int64`
  range is not turned into another one.

## 2. Plan

The modules, in the order in which they are worth writing. Those marked *done*
exist.

1. **Streaming solve** (most of what can go wrong is here), *done*: `StreamSolve`, its
   inductive invariant `StreamSolveInv`, what it promises `SolutionStream`, the
   proofs `StreamSolve_proofs` and `StreamRefinement_proofs`.
2. **Builder and encoding**, *done*: `LinearModel` (the arithmetic and CP-SAT's reading
   of it), `LinearModel_proofs`, `ModelBuilder` (the calls and the answer),
   `ModelBuilder_proofs`.
3. **StreamQueue**, *done*: `StreamState` alone, with several tasks pulling from one
   handle, and the channel `UpdateChannel` it implements. `StreamSolve` has one
   puller per handle, as the Lean API has; the raw binding allows more.
4. **ResponseManager**, *done*: the bounds, the status and the reports of
   `SharedResponseManager` between workers, and `ImprovingSearch`, which is what
   `Observe` and `SearchEnd` of `StreamSolve` take for granted.
5. **InterruptibleSolve**, *done*: `cpsat_solve` and `cpsat_solve_interruptible`
   through `SolveCpModel`, with the environment a token keeps.
6. **SubsolverLoop**, *done*: `NonDeterministicLoop` and its tasks.
7. **SharedToken**: 1 and 5 composed on one `LeanStopToken`. They meet in
   `stopped` and in `legacy_cenv`'s stop flag only, both of which
   `StopToken.stop` sets for good; a streaming solve beside an interruptible one on the
   same token adds an early drop that sets `stopped` and not the flag, and
   nothing in an interruptible solve reads `stopped`.
8. **TokenRefcount**: Lean's single- and multi-threaded reference counts with
   the no-op `foreach` of the external classes. It needs the Lean runtime, which
   is not in the repository.

Abstract specifications: `SolutionStream` (for 1), `UpdateChannel` (for 3),
`ImprovingSearch` (for 4). Every safety property the passing runs check has its
theorem in section 7. Worth proving beyond them: that `ProductEnds` encloses the
products an assignment can make, and the streaming theorems over again for a
composition with 7.

## 3. Modules and code

| module | models |
|---|---|
| `StreamSolve` | `RunStream`, `cpsat_solve_stream_start/next`, the handle's finalizer, `StopToken.stop` (`native/cpsat_shim.cpp`); `pullUpdates` and `solveWithResultCallback` (`Cpsat/Solver.lean`); of CP-SAT, the order in which solutions are reported |
| `StreamSolveInv` | the inductive invariant `IInv` |
| `SolutionStream` | the promise of `solveWithResultCallback`, without thread, queue or token |
| `MCStreamSolve` | instances |
| `StreamSolve_proofs`, `StreamRefinement_proofs` | theorems |
| `LinearModel` | domains, linear expressions, literals and constraint kinds (`Cpsat/Model.lean`), their encoding (`Cpsat/Proto.lean`), their validation and meaning (`cp_model_checker.cc`) |
| `ModelBuilder` | `ModelState` and every call of `CpModelM`, `modelStateToProto`, validation of a whole model, the answer |
| `MCModelBuilder` | instances |
| `LinearModel_proofs`, `ModelBuilder_proofs` | theorems |
| `StreamQueue` | one `StreamState` between `RunStream` and several tasks in `cpsat_solve_stream_next` |
| `UpdateChannel` | the promise of `cpsat_solve_stream_next` to them, without mutex, queue or waiting |
| `MCStreamQueue`, `StreamQueue_proofs` | instances, theorems |
| `ResponseManager` | `SharedResponseManager` (`synchronization.cc`) and the callbacks through which workers import and export bounds (`cp_model_solver_helpers.cc`) |
| `ImprovingSearch` | what it promises those who observe the search |
| `MCResponseManager`, `ResponseManager_proofs` | instances, theorems |
| `InterruptibleSolve` | `cpsat_solve`, `cpsat_solve_interruptible`, `cpsat_stop_token_stop` (`native/cpsat_shim.cpp`), `CpSatEnv` (`cp_solver_c.cc`), `SolveCpModel` (`cp_model_solver.cc`), the merge of responses (`synchronization.cc`) |
| `MCInterruptibleSolve`, `InterruptibleSolve_proofs` | instances, theorems |
| `SubsolverLoop` | `NonDeterministicLoop` and its helpers (`subsolver.cc`), when the subsolvers have tasks and are done (`cp_model_solver.cc`, `shaving_solver.cc`) |
| `MCSubsolverLoop`, `SubsolverLoop_proofs` | instances, theorems |

**StreamSolve.** A stream `s` is one call of `solveWithResultCallback` together
with its Lean task (`pc[s]`), its handle (`queue[s]`, `finished[s]`) and its
background thread (`wpc[s]`, with the solve's stop flag `limit[s]`). All streams
share one `LeanStopToken` (`stopped`, `active_stream_limit`, `token_mu`,
`legacy_stopped` for the `SolveCpStopSearch` on the token's own environment), and the
reference counts are the sets of their holders, `taskRefs` and `handleRefs`.
The names of actions follow the code from top to bottom: `StreamStart`;
`NextWait`, `NextImproving`, `NextDone`, `NextError` for the branches of
`cpsat_solve_stream_next`; `Register`, `Observe`, `ObserverNotify`, `SearchEnd`,
`Unregister`, `Publish`, `NotifyDone`, `Exit` for `RunStream`; `StopCall`,
`StopLock`, `StopBody` for a stop; `FinalizeCheck`, `FinalizeLock`,
`FinalizeBody`, `FinalizeJoin` for the finalizer.

*Grain.* An action is one critical section or one stretch between two points
where another thread can look. The sections under `StreamState::mu` take no
other lock and do not block, so each is one action, except that `notify_one`,
which the code calls after the lock is released, is an action of its own: this is
where a wakeup could be lost. The sections of `StopToken.stop` and of the
finalizer under `LeanStopToken::mu` take two actions, because a thread holding
that lock blocks others; `Register` and `Unregister` take it for two assignments
and are one action, enabled when the lock is free. `NextUndecodable` is a pull
and the decoding that fails; nothing shared lies between the two.

*CP-SAT.* What `RunStream` sees of the search is `Observe` and `SearchEnd`. The
observer runs under `SharedResponseManager::mutex_`
(`synchronization.cc` 776-819), so calls do not overlap; with an objective each
solution is strictly better than the last (`Improves`), and the final response
is the best of them (`BestOf`). Without an objective every solution found is
reported, and the final response is one of them. The extra thread that could
report solutions in another way is off by default (`sat_parameters.proto` 516).
For a model with an objective this is not only read off the code: it is what
`ResponseManager` is shown to implement (`KeepsSearch`, below).

**SolutionStream.** The refinement mapping is the identity on `found`,
`final_response`, `delivered`, `outcome` and `result`; `phase` is `Phase(s)`:
"idle" before the call, "returned" after it and "running" between. A step of the
threads is a step of the promise or a stutter; `FinalizeJoin` is `Return`.

**LinearModel** is pure. `Int64` is an interval of integers symmetric but for
its least value, of a width given by `MaxInt`: builder arithmetic goes through
`Wrap`, the encoder's through `clampToInt64`, CP-SAT's limits are at `Half`. An
assignment is a function from variable indices to integers, and
`ConstraintIsFeasible` is what `ConstraintChecker` computes for it.

**ModelBuilder** keeps the `ModelState` and, next to it, what the caller *said*:
`stated[i]` is the relation and the literals the caller gave for constraint `i`
(with the unencoded expressions), `hinted` the literals it hinted. `Solve` encodes the
model, validates it and chooses any answer that CP-SAT's semantics allows for
the *encoded* model; what the properties compare it with is the *stated* model.
Every `add` function is an action; those that hand their arguments on unchanged
(`allDifferent`, `element`, `intDiv`, `intMod`, `intProd`, `inverse` and the
Boolean kinds) share `addGiven`.

*Doubles.* The constant of an objective is sent as `Float.ofInt` of it
(`objectiveToProto`, `Proto.lean` 220 and 223), and CP-SAT computes and reports the
objective value in doubles (`ScaleObjectiveValue`, `cp_model_utils.h` 195). `Double`, a
constant of the module, is the first of these conversions; all that is assumed of it is that an
`Int64` comes out as an integer that is off by at most a `Precision`-th. The reported value
is any number within `Rounding` of the exact one, where `Rounding` is a `Precision`-th of
the offset and of the width of the terms: the presolve moves parts of the terms
into the offset (`presolve_context.cc` 2193) and divides it by the gcd of the
coefficients (2089), so that not even a small value comes back as the same double
(`49 * x + 1` can be a little less than it should be); the model's value stands
for the integer nearest to the reported one. The gap limits are tested on the same doubles
(`TestGapLimitsIfNeeded`, `synchronization.cc` 374), so `GapIsClosed` lets "optimal" be
answered with a solution that doubles do not tell from a better one: where they are
more than the absolute gap limit of 1e-4 apart this cannot happen, beyond 2^53 it can,
although `sat_parameters.proto` calls a gap below 1 optimal for integers. A double has 53 bits; a `Precision` of about
2^50 leaves room for the few roundings a value goes through.

**StreamQueue.** `sent`, `queue` and `finished` are the `StreamState`, with
updates numbered as pushed; `pc[p]` says whether task `p` is outside, on its way
to the lock or in `cv.wait`. `NextTake`, `NextWait` and `NextError` are the three
ways through `cpsat_solve_stream_next` once it has the lock; `Observe` and
`Publish` push, and `Notify` is the `notify_one` that follows each push outside the lock
and wakes any one waiter, or nobody. Under `Channel`, what is asked for is what
tasks in the lock or the wait ask for, and `taken` is `sent` less what is queued.

**ResponseManager** is for a model with an objective, in the inner, minimised
form. Its variables are the fields of the class, `reported` is what the solution
callbacks were called with, and `feasible` the objective values the model has.
Each action is one section under `mutex_`. A worker's `ImportLb` and `ImportUb`
are the two getters of `cp_model_solver_helpers.cc`, each with a lock of its
own, so that the pair may be one that never was; `Deduce` is any sound
tightening of the worker's own bounds; `Export` is the level-zero bound
callback, with the `Synchronize` that follows it in a section of its own
(`SynchronizeExport`). `SetStatus` is the test for crossed bounds and for the
gap limits that ends every update.

**ImprovingSearch.** The mapping is the identity on `feasible` and `reported`,
and `answer` keeps its status and solution. `Report` of the manager is a
step when the solution improves and a stutter when it does not; `GetResponse` is
`Answer`.

**InterruptibleSolve.** `env` has the `Model` of the token's `CpSatEnv` and of a
plain solve's own, the latter fresh with each `Call`. The places of `pc` are the stages of
`SolveCpModel`: `validate`, `presolve`, `share` (creation of `SharedClasses` and
`StopAfterPresolve`), `load`, `start` (the test of the limit before the search), `search`, and
`closed` or `ended` for the two ways to `GetResponse`, which first merges the
front of `subsolver_responses_` into what the manager says. `stop`, `Expire`
(the time limit) and `Interrupt` (^C) are possible at every place of a call. Lean cannot
unset `catch_sigint_signal`, so `AddSigintHandler` registers its handler in every
call, before the model is validated. `sigints` is the handler's `num_calls_`, one per
`Model`, so that a token's goes on counting in its next solve: the first ^C stops the
limit as a stop does, the second does nothing, the third is `exit` (`exited`).
`StopRequested` is what the properties mean by a stop: one of the token by
`StopToken.stop`, or a ^C. A solution is identified with its
objective value. A second solve on a token meets the postprocessors of the
first, which refer to a destroyed object: `GetResponse` then answers or aborts.

**SubsolverLoop.** `pc` and `turn` walk through `NonDeterministicLoop`, one
subsolver per step in each of its three passes over them: `SynchronizeAll`
without the lock, `ClearSubsolversThatAreDone` and `NextSubsolverToSchedule`
under it (`TaskEnd`, which needs the lock, waits meanwhile). A task is in
`running` from `pool.Schedule`, in `returned` when its work is done and its
closure still has to count it out. `Kind` gives the subsolvers; the four kinds
differ in when they have a task, when they are done and what a task leaves
behind. `SearchIsDone()` stops the limit as a side effect of being asked, hence
`AskSearchIsDone`. Which of the available subsolvers has the best score is open.
A task that ends after the last `SynchronizeAll` can leave a subsolver that is
deleted before it has taken in the results; `LoopEndsSynchronized` is about
those that are not, and what is lost belongs to a search that is over.

## 4. Runs

| run | bounds | shows |
|---|---|---|
| `stream_shared` | 2 streams on one token, 1 solution each, raw pullers, symmetric streams | `IInv`; no use of the token after it is finalized, no dangling limit, only a stop or an early drop stops the token |
| `stream_call` | 1 stream, 1 stopping task, up to 3 solutions of 3 values, a raw puller | delivery in order, the final response last and best, nothing after done, and that `StreamSolve` implements `SolutionStream` |
| `stream_exclusive` | 2 streams one after the other, 1 stopping task, no objective, fairness | a stop reaches the search; stops, drops and calls return; no lost wakeup |
| `stream_stop_lost` | 2 streams at the same time, 1 stopping task | a stop that misses a search (finding) |
| `queue_shared` | 3 tasks on one handle, 4 updates, fairness | `IInv`; enough tasks awake, each update once and in order, and that `StreamQueue` implements `UpdateChannel` with its fairness |
| `builder_numbers` | five-bit `Int64`, 1 variable, 2 calls, constants at every edge | linear statements are encoded exactly, modest ones are accepted, accepted divisions are defined |
| `builder_calls` | 2 variables, 5 calls of every kind, then a solve; two objectives, and doubles of three bits that hold the constant of one (3) and not of the other (-15) | the answer answers the caller, exactly or up to rounding; hints set the literals named |
| `builder_unbounded` | as `builder_numbers`, no divisions | an unbounded end that becomes a bound (finding) |
| `manager` | 2 symmetric workers, every set of objective values in a domain of 3, an absolute gap limit of 1 | `IInv`; valid bounds, true status, `NewSolution`'s assertions, one consistent response, and that `ResponseManager` implements `ImprovingSearch` |
| `solve_once` | 8 problems with up to 3 solutions, plain or on a fresh token, one or many workers, up to three ^C, fairness | `IInv`; the response is true of the problem, unsolved only with a cause, with the best found, and a stop or ^C ends the call |
| `solve_reused` | 3 problems, a token that may be used again | an answer left over from the last solve (finding) |
| `loop` | 4 subsolvers, one of each kind, 2 threads, 4 tasks, fairness | no task of a deleted subsolver, nothing left when the loop ends, and it ends |

Why the bounds are enough. *Streams:* the shared state between streams is one
pointer, one flag and one lock; two streams give every pair of critical sections,
and a third could only do to either of them what the other does. `MaxFound`
bounds the solutions of a search: one is enough for every ordering of a push, a
notification and the end, three for order and comparison. Each stopping task
stops once, and a callback stops at most once per run: a further stop finds
`stopped` already set and sets what is set. A raw puller asks at most once for
an update after the done one. *Builder:* validation, clamping and wrapping only
compare with `MinInt`, `MaxInt` and `Half`, so five bits (-16..15, `Half` 7)
have the same cases as sixty-four; the constants used are those edges, one
to either side of them, and 0. `MaxCalls` bounds a model's calls; two suffice
for one variable with one statement, five for an objective over two variables
with a constraint, an enforcement literal or an assumption, and a hint.
`minimize` and `maximize` are not counted: they only replace the objective.
Doubles of three bits (`RoundToEven`, `Precision` 8) are to five bits what 53 are to
64: some constants come out as they are, others as a neighbour.

*Queue:* with three tasks one can wait, one hold the lock's place and one be
woken in vain, and four updates are more than there are tasks.
*Manager:* two workers give every pair of an old view and a new fact; a domain
of three has a value to be improved, one between and one proved; a gap limit of
1 closes some gaps and not others. `NegInf` and `PosInf` only have to lie outside. *Interruptible
solve:* bounds and solutions come from three values, every stage meets every stop. *Loop:* two threads let the
loop find the pool full, busy and empty; with four tasks a subsolver of each kind
can run, return and be synchronized, or one run again. `MaxTasks` is the
only cap: `GenerateTask` numbers its tasks without end.

Inputs left out of the runs: the offset `Int64.minValue` of an expression other than a linear
constraint's (CP-SAT takes its absolute value, which is undefined) and a
non-fixed divisor whose first coefficient is 0 (a `CHECK` ends the process).
`DivisionIsDefined` is about divisors of one variable: of a longer one that is
not fixed CP-SAT only looks at the first term.

## 5. Fairness

`FairSpec` of `StreamSolve` assumes, with weak fairness: a thread that can run
does (`Register`, `Unregister`, `Publish`, notifications, `PullNext`, the
finalizer, the stop); `onSolution` returns or throws; and CP-SAT ends a search
whose limit is stopped. The last is `WF(limit[s] /\ SearchEnd(s))`: CP-SAT polls
the limit, and since `MaxFound` bounds how often a search alternates with its
notifications, the action is enabled for good once the limit is set. Nothing
says that a search nobody stops ends, that anybody calls `StopToken.stop`, or
that a spurious wakeup occurs. A mutex is weakly fair here: its holders release
it in their next step, and there are finitely many steps that take it.

`FairSpec` of `StreamQueue`: the search ends (`WF(Publish)`, which the code
only reaches when CP-SAT returns), every push is followed by its notification, and a task
that can go on under the lock does. Nothing says that a task asks or that
anybody is woken spuriously.

`FairSpec` of `InterruptibleSolve` is `WF(SolveNext)`: the thread in
`SolveCpModel` goes on, and a search whose limit is stopped or whose problem is
solved returns. A ^C is one more way for the limit to be stopped. How soon it finds or
proves anything stays open, and so does whether anybody stops the call.

`FairSpec` of `SubsolverLoop`: the loop runs (`WF(LoopNext)`), a task that may
return does (`WF` on `Return`), and a task whose work is done gets the lock to be
counted out. The last is strong fairness: the loop takes the lock again and
again, but between two of its turns it sleeps or waits without it. When a task
may return is `MayReturn`: one that searches the whole problem when the search
is done (its bounds cross once it imports the shared ones, `cp_model_solver_helpers.cc`
1614), the others under limits of their own.

## 6. Findings

1. *Stops can miss a stream* (`stream_stop_lost`). `cpsat_shim.cpp` 73-74 and
   `Solver.lean` 104 say the token cancels whichever solve is using it. With two
   streams in progress the second registration replaces the first
   (`cpsat_shim.cpp` 165) and the first end clears the pointer for both (190).
   With one stream at a time (`stream_exclusive`) the property holds. The same
   sharing lets a finalizer stop another stream's limit, or nobody's, and then
   join a search that nobody stopped (128-132), which is why `DropReturns` is
   checked with one stream at a time.
2. *An unbounded end can become a bound* (`builder_unbounded`). `shiftDomain`
   keeps `Int64.minValue`/`maxValue` in place when the constant pushes them
   outwards, not when it pulls them inwards. It shows only with constants beyond
   half of `Int64`; below that the moved end lies outside anything CP-SAT
   accepts, which is the content of `LinearIsEncoded`.
3. *A token used twice can answer for the first problem* (`solve_reused`).
   `solveInterruptible` is documented as "like `solve`". The environment of a token keeps its
   response manager, so after an infeasible problem the next one on the
   same token is answered with what the first appended (`synchronization.cc`
   674). A token used once (`solve_once`) has no such history.

## 7. Proofs

All theorems hold for every value of the constants that the named assumptions
admit: `ConstantsAssumption` (streams and stopping tasks are different, the
marks `None` and `NoSolution` are no values), `MaxIntAssumption` (`MaxInt` is
odd and natural, as 2^w - 1 is), `BuilderAssumption` (what the caller uses
has the builder's types; a `Double` is off by at most a `Precision`-th), `QueueAssumption` (finitely many tasks, at least the
done update), `ManagerAssumption` and `SolveAssumption` (the objective's domain
is not empty and lies within the infinities; the marks are no values) and
`LoopAssumption` (at least one subsolver, more than one thread: with one
`SequentialLoop` runs instead).

**Streaming** (`StreamSolve_proofs`): `Invariance` proves `IInv`, from which
follow `TypeCorrect`, `TokenNotUsedAfterFree`, `LimitNeverDangles`,
`TokenStoppedWithCause`, `SolutionsDeliveredInOrder`, `FinalResponseIsBest` and
`NothingPulledAfterDone`; none of those properties is inductive alone. `IInv`
adds where the handle's reference and its thread live (`LifeInv`, needed because
the token is alive through the handle), that the registered limit belongs to a
worker between `Register` and `Unregister` (`LimitInv`), which places go with
which outcome (`OutcomeInv`), what the worker has done at each of its places
(`WorkerInv`), that found solutions improve (`ImprovingInv`), and the
conservation law of the queue (`QueueInv`): what is delivered, what is queued
and what was found are one sequence, followed by the final response.
`StopIsNeverLost` proves `StopReachesSearch` for callers that run one stream at a
time (`OneAtATime`; run `stream_stop_lost` shows that with two a stop can miss a
search). Its part of `IInv` is `ExclusiveInv`: at most one stream runs, the token
points at a search's limit as long as that search is registered, and a search on a stopped
token has been told.
`StreamRefinement_proofs` proves `Refinement`, that every behaviour implements
`SolutionStream`: the initial states map, and under `IInv` each action is a
step of the promise or a stutter.

**Linear expressions** (`LinearModel_proofs`): what CP-SAT's arithmetic checks are
worth, for every width of `Int64` and any number of terms. A sum is the
community modules' `SumFunctionOnSet`, a fold by a recursive function over a
`CHOOSE`n order. The induction theorems that take an operator are out of the provers'
reach, a least counterexample is not: `WFMin` gives a smallest set, or number,
for which a fact fails, and one element taken from it leads to a smaller one. So
proved are that the recursion has one solution (`SumUnique`, `SumExists`), that any
element may be added first (`SumElement`), and from there monotony, negation and
concatenation of sums. `FitsBoundsSum`: what `PossibleIntegerOverflow` lets pass stays
within half of `Int64` under every assignment; `FitsInAnyOrder`: in whatever order the
terms are added; `FitsNegated`: its opposite passes too (the two promises of
`AddTerm`'s comments). `EndsBoundValue`: an expression's value lies between
`MinOfExpression` and `MaxOfExpression`. `DivisorIsNotZero`: a divisor of at most one
variable that passes `ValidateIntDivConstraint` is never zero.

**Builder** (`ModelBuilder_proofs`): `ShiftKeepsMeaning` is the equivalence that
`shiftDomain`'s comment claims, for every domain and every constant and sum
within half of `Int64`, and `ShiftKeepsApart` says such a shift keeps a modest domain
well formed. The invariant of `ModelBuilder` is its `IInv`: `TypeOK`, that each
constraint is the one its statement stands for, with the statement's literals and of
variables the model has (`BuiltAsStated`), that each hinted literal is in the
hint (`HintedIsHint`), and that a response answers the model it is held beside
(`ResponseAnswers`). From it follow

* `TypeCorrect`, `HintedLiterals`, and `LinearEncoded`: a linear constraint admits
  exactly the sums its statement admits. `DifferenceWraps` is the lemma behind it:
  two wrapped operations give the difference of two constants whenever that
  difference fits;
* `StatementsAreEncoded`: in an accepted model each constraint, of every kind,
  admits exactly the assignments its statement admits. The overflow check
  bounds the sum (`FitsBoundsSum`), so the linear kinds are `LinearEncoded`; the
  minimum and the absolute value by way of a maximum need that an accepted negation is one
  without `Int64.minValue` in it (`OppositeValue`);
* `AnswersAreTheCallers`: solution, objective value, optimality and core answer the
  caller's question, as solutions are those of the statements (`SolutionsMeant`)
  and the score is the objective up to sign and constant (`ObjectiveScore`). Value and
  optimality are exact while the objective's constant and the width of its terms
  stay together below `Precision`; beyond, the theorem gives them within
  `Inexactness`, the rounding of the constant and that of the value
  (`RoundingFacts`; `SpreadOpposite`, that negated terms are as wide, is what makes
  it hold of a maximised objective);
* `ModestStatementsAreAccepted`: no statement within half of `Int64` is refused
  because of what the builder makes of it (`ShiftKeepsApart`, `FitsNegated`; the
  domain of `addNotEqual` needs an argument of its own, `ShiftComparison`);
* `DivisionsAreDefined`: the check of divisors and moduli leaves out every
  assignment that would divide by zero.

**Queue** (`StreamQueue_proofs`): `Invariance` gives `NobodySleepsThrough`. The
argument is a count: while somebody waits, each update in the queue has a task on its
way to the lock or a notification to come. A push adds one of each, a
wakeup turns a pending notification into a task, a task takes an update with it
when it leaves, and one only starts to wait when the queue is empty.
`EachUpdateOnce` adds that what tasks got and what is queued are different
updates, `Refinement` that each action is one of `UpdateChannel` or a stutter;
it proves `KeepsChannel`, the safety part of the checked `KeepsFairChannel`.

**Response manager** (`ResponseManager_proofs`): `BoundsAreValid` is not inductive
alone. It needs that what workers hold is what is left to search
(`WorkersAreValid`), which holds of old bounds because an upper bound only has
to keep the solutions better than the *present* best; that the lower bound
never passes the best solution (`BestIsKnown`, where `CappedBound` matters); and
that status, pool and reports agree (`PoolHasBest`). `StatusOnlyEvolves` is the
action property under the assumption that there is no relative gap limit, as
there is none by default and Lean cannot set one. `Refinement` proves
`KeepsSearch`: those who observe the manager see an improving search.

**Interruptible solve** (`InterruptibleSolve_proofs`): the theorems assume `~Reuse`,
that a token serves one solve; `solve_reused` shows that they need it.
`UnusedIsFresh` says what a call finds in its environment, `SearchIsSound` that
pool, bounds and status are about this call's problem at every place, and
`EndIsSound` that what was appended on the way to `GetResponse` does not
contradict them. `UnsolvedWithCause` says that only `StopToken.stop`, a ^C and the
call's own time limit leave a problem unsolved.

**Subsolver loop** (`SubsolverLoop_proofs`): `CountsTasks` says that the two counters
are the numbers of tasks in flight, in total and of each subsolver, which makes a
subsolver with count zero safe to delete (`NoTaskOutlivesItsSubsolver`).
`QuietSince` carries what `all_done` meant when it was read through the three
passes that follow: no task was in flight then, none can be scheduled before the
loop waits again, and each subsolver synchronized since has nothing
outstanding (`NothingLeftBehind`).

**Only model-checked:** the liveness properties (`StopWindsDown`, `SearchEndReturns`,
`DropReturns`, `StopCallReturns`, `StopEndsCall`, `DoneEndsLoop`) and the fairness in
`KeepsFairChannel`: the prover has no rule for fairness. Every invariant and action
property of the passing runs is proved.

## 8. Not modelled

* What CP-SAT's algorithms compute (presolve, propagation, LNS, cuts): where a
  search appears it is any sound deduction, and in `ModelBuilder` a choice among the
  answers CP-SAT's checker allows. `AnswersTheQuestion` is
  therefore about the encoding, given a correct solver. By size this is nearly all
  of the repository, with OR-Tools' other solvers, its other language bindings, examples
  and generated documentation; the binding reaches none of the latter.
* `SequentialLoop` (one worker: no concurrency) and `DeterministicLoop`
  (needs `interleave_search`, and `SolverParameters` in Lean only has the time limit, the number
  of workers, the random seed and logging). `Interleave` is a constant of
  `ResponseManager` all the same: its proofs cover both values.
* ^C beyond the first one's effect on a call and the third's on the program: between two
  calls, or delivered to a thread other than the solve's. `handler_` is thread-local, so a
  ^C that reaches a thread without a handler calls an empty function, which ends the
  program; and a token keeps its handler after the call, bound to a `CpModelSolver`
  that is gone. In `StreamSolve` and `SubsolverLoop` a ^C is one more reason for what they
  allow anyway, a search that ends at any moment.
* Doubles bit by bit: the infinities of `ScaleObjectiveValue`, the order in which roundings
  happen, and a presolve that moves into the offset more than the objective's own
  terms amount to. `ResponseManager` tests its gap limits on integers, which is what
  doubles below 2^53 do.
* The feasibility pump and local search subsolvers, bound and log callbacks,
  statistics, the model without objective in `ResponseManager`, and the arithmetic of the
  relative gap limit in `InterruptibleSolve`.
* A token used by a streaming and an interruptible solve at the same time
  (section 2), and two interruptible solves at once on one token, which share a
  `Model` that nothing guards.
* Protobuf bytes, `Int32` narrowing of indices, parameters, names, times.
* Lean's reference-count operations: they need the Lean runtime, which is not in
  the repository.
* The build script and `cpsat_field_numbers_check.cpp`: file look-ups, linker
  flags and compile-time assertions, without state of the program's own.

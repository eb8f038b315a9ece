---------------------------- MODULE StreamSolve ----------------------------
(***************************************************************************)
(* Streaming solves that share one StopToken (native/cpsat_shim.cpp,       *)
(* Cpsat/Solver.lean).  A stream s stands for one call of                  *)
(* solveWithResultCallback and, at the same time, for the Lean task that   *)
(* makes it, for the StreamHandle it pulls from and for the background     *)
(* thread that runs RunStream for it.  Stoppers are Lean tasks that only   *)
(* call StopToken.stop.                                                    *)
(*                                                                         *)
(* Every action is one critical section, or one stretch of code between    *)
(* two points where another thread can be seen.  The sections under        *)
(* StreamState::mu take no other lock and are one action each.  The        *)
(* sections of StopToken.stop and of the handle's finalizer under          *)
(* LeanStopToken::mu are taken and left in two actions, so that a thread   *)
(* can be seen holding that lock.                                          *)
(***************************************************************************)
EXTENDS Integers, Sequences

CONSTANTS
  Streams,     \* streaming solves started with the token
  Stoppers,    \* other Lean tasks that hold the token and call StopToken.stop once
  RawPullers,  \* the streams whose caller drives cpsatSolveStreamNext itself
  Values,      \* what tells solutions apart; the inner objective, lower is better
  HasObjective,\* whether the models have an objective
  OneAtATime,  \* whether callers run one stream at a time on the token
  MaxFound,    \* bound: solutions CP-SAT reports in one solve
  NoSolution,  \* the final response of a search that found nothing
  None         \* no thread, no registered limit, no response yet

Tasks == Streams \cup Stoppers

ASSUME ConstantsAssumption ==
  /\ Streams \cap Stoppers = {}
  /\ RawPullers \subseteq Streams
  /\ Values \subseteq Int
  /\ HasObjective \in BOOLEAN
  /\ OneAtATime \in BOOLEAN
  /\ MaxFound \in Nat
  /\ None \notin Tasks \cup Values
  /\ NoSolution \notin Values \cup {None}

VARIABLES
  pc,          \* where each Lean task is
  delivered,   \* the solutions each call has pulled, in order
  outcome,     \* how each call ended, "pending" until it does
  result,      \* the final response each call returns
  wpc,         \* where each background thread is
  limit,       \* the stop flag of each solve's ModelSharedTimeLimit
  found,       \* the solutions CP-SAT reported to each observer, in order
  final_response, \* what SolveCpModel returned to each background thread
  queue,       \* StreamState::queue of each handle
  finished,    \* StreamState::finished of each handle
  stopped,     \* LeanStopToken::stopped
  legacy_stopped, \* whether SolveCpStopSearch was called on legacy_cenv
  active_stream_limit, \* whose limit LeanStopToken::active_stream_limit points at
  token_mu,    \* the task that holds LeanStopToken::mu
  taskRefs,    \* Lean tasks that hold a reference on the StopToken
  handleRefs   \* handles that hold a reference on the StopToken

callVars == <<pc, delivered, outcome, result>>
searchVars == <<wpc, limit, found, final_response>>
streamVars == <<queue, finished>>
stopVars == <<stopped, legacy_stopped, active_stream_limit, token_mu>>
refVars == <<taskRefs, handleRefs>>
vars == <<callVars, searchVars, streamVars, stopVars, refVars>>

Update(is_done, v) == [is_done |-> is_done, value |-> v]
Updates == [is_done : BOOLEAN, value : Values \cup {NoSolution}]

TaskStates == {"idle", "next", "waiting", "callback", "after_stop", "stop_lock",
               "stop_body", "drop", "fin_lock", "fin_body", "join", "returned"}
WorkerStates == {"none", "register", "search", "notify", "unregister", "publish",
                 "notify_done", "exit", "exited"}
Outcomes == {"pending", "final", "finished_error", "undecodable", "thrown"}

TypeOK ==
  /\ pc \in [Tasks -> TaskStates]
  /\ delivered \in [Streams -> Seq(Values)]
  /\ outcome \in [Streams -> Outcomes]
  /\ result \in [Streams -> Values \cup {NoSolution, None}]
  /\ wpc \in [Streams -> WorkerStates]
  /\ limit \in [Streams -> BOOLEAN]
  /\ found \in [Streams -> Seq(Values)]
  /\ final_response \in [Streams -> Values \cup {NoSolution, None}]
  /\ queue \in [Streams -> Seq(Updates)]
  /\ finished \in [Streams -> BOOLEAN]
  /\ stopped \in BOOLEAN
  /\ legacy_stopped \in BOOLEAN
  /\ active_stream_limit \in Streams \cup {None}
  /\ token_mu \in Tasks \cup {None}
  /\ taskRefs \subseteq Tasks
  /\ handleRefs \subseteq Streams

Init ==
  /\ pc = [t \in Tasks |-> "idle"]
  /\ delivered = [s \in Streams |-> <<>>]
  /\ outcome = [s \in Streams |-> "pending"]
  /\ result = [s \in Streams |-> None]
  /\ wpc = [s \in Streams |-> "none"]
  /\ limit = [s \in Streams |-> FALSE]
  /\ found = [s \in Streams |-> <<>>]
  /\ final_response = [s \in Streams |-> None]
  /\ queue = [s \in Streams |-> <<>>]
  /\ finished = [s \in Streams |-> FALSE]
  /\ stopped = FALSE
  /\ legacy_stopped = FALSE
  /\ active_stream_limit = None
  /\ token_mu = None
  /\ taskRefs = Tasks
  /\ handleRefs = {}

Goto(t, label) == pc' = [pc EXCEPT ![t] = label]
WorkerGoto(s, label) == wpc' = [wpc EXCEPT ![s] = label]

(* lean_external_class finalizes the token when its last reference goes. *)
TokenAlive == taskRefs # {} \/ handleRefs # {}

-----------------------------------------------------------------------------
(* The call: starting the stream, then pulling from it. *)

StreamStart(s) ==
  /\ pc[s] = "idle"
  /\ s \in taskRefs
  /\ OneAtATime => \A r \in Streams : pc[r] \in {"idle", "returned"}
  /\ handleRefs' = handleRefs \cup {s}
  /\ WorkerGoto(s, "register")
  /\ Goto(s, "next")
  /\ UNCHANGED <<delivered, outcome, result, limit, found, final_response, streamVars,
                 stopVars, taskRefs>>

NextWait(s) ==
  /\ pc[s] = "next"
  /\ queue[s] = <<>>
  /\ ~finished[s]
  /\ Goto(s, "waiting")
  /\ UNCHANGED <<delivered, outcome, result, searchVars, streamVars, stopVars, refVars>>

(* std::condition_variable::wait may return with no notification. *)
SpuriousWakeup(s) ==
  /\ pc[s] = "waiting"
  /\ Goto(s, "next")
  /\ UNCHANGED <<delivered, outcome, result, searchVars, streamVars, stopVars, refVars>>

NextImproving(s) ==
  /\ pc[s] = "next"
  /\ queue[s] # <<>>
  /\ ~Head(queue[s]).is_done
  /\ queue' = [queue EXCEPT ![s] = Tail(@)]
  /\ delivered' = [delivered EXCEPT ![s] = Append(@, Head(queue[s]).value)]
  /\ Goto(s, "callback")
  /\ UNCHANGED <<outcome, result, searchVars, finished, stopVars, refVars>>

NextDone(s) ==
  /\ pc[s] = "next"
  /\ queue[s] # <<>>
  /\ Head(queue[s]).is_done
  /\ queue' = [queue EXCEPT ![s] = Tail(@)]
  /\ outcome' = [outcome EXCEPT ![s] = "final"]
  /\ result' = [result EXCEPT ![s] = Head(queue[s]).value]
  /\ Goto(s, "drop")
  /\ UNCHANGED <<delivered, searchVars, finished, stopVars, refVars>>

(* decodeResponse throws on the bytes of the update just pulled. *)
NextUndecodable(s) ==
  /\ pc[s] = "next"
  /\ queue[s] # <<>>
  /\ queue' = [queue EXCEPT ![s] = Tail(@)]
  /\ outcome' = [outcome EXCEPT ![s] = "undecodable"]
  /\ Goto(s, "drop")
  /\ UNCHANGED <<delivered, result, searchVars, finished, stopVars, refVars>>

(* "Cpsat: solution stream already finished" *)
NextError(s) ==
  /\ pc[s] = "next"
  /\ queue[s] = <<>>
  /\ finished[s]
  /\ outcome' = [outcome EXCEPT ![s] = "finished_error"]
  /\ Goto(s, "drop")
  /\ UNCHANGED <<delivered, result, searchVars, streamVars, stopVars, refVars>>

CallbackReturn(s) ==
  /\ pc[s] \in {"callback", "after_stop"}
  /\ Goto(s, "next")
  /\ UNCHANGED <<delivered, outcome, result, searchVars, streamVars, stopVars, refVars>>

(* onSolution throws, or a raw puller lets go of the handle. *)
CallbackThrow(s) ==
  /\ \/ pc[s] \in {"callback", "after_stop"}
     \/ s \in RawPullers /\ pc[s] = "next" /\ outcome[s] = "pending"
  /\ outcome' = [outcome EXCEPT ![s] = "thrown"]
  /\ Goto(s, "drop")
  /\ UNCHANGED <<delivered, result, searchVars, streamVars, stopVars, refVars>>

(* A raw puller asks for one more update after the done one. *)
PullAgain(s) ==
  /\ s \in RawPullers
  /\ pc[s] = "drop"
  /\ outcome[s] = "final"
  /\ Goto(s, "next")
  /\ UNCHANGED <<delivered, outcome, result, searchVars, streamVars, stopVars, refVars>>

-----------------------------------------------------------------------------
(* RunStream, on the background thread, with CP-SAT's part of it. *)

(* Mutant: a token already stopped is not looked at. *)
RegisterUnstopped(s) ==
  /\ wpc[s] = "register"
  /\ token_mu = None
  /\ active_stream_limit' = s
  /\ WorkerGoto(s, "search")
  /\ UNCHANGED <<callVars, limit, found, final_response, streamVars, stopped,
                 legacy_stopped, token_mu, refVars>>

Register(s) ==
  /\ wpc[s] = "register"
  /\ token_mu = None
  /\ active_stream_limit' = s
  /\ limit' = [limit EXCEPT ![s] = stopped]
  /\ WorkerGoto(s, "search")
  /\ UNCHANGED <<callVars, found, final_response, streamVars, stopped, legacy_stopped,
                 token_mu, refVars>>

(* Mutant: a solution as good as the best one gets through. *)
ImprovesWeakly(s, v) ==
  HasObjective /\ found[s] # <<>> => v <= found[s][Len(found[s])]

(* SharedResponseManager::NewSolution drops what does not strictly improve on  *)
(* the objective; the observer then pushes the response.                       *)
Improves(s, v) == HasObjective /\ found[s] # <<>> => v < found[s][Len(found[s])]

Observe(s, v) ==
  /\ wpc[s] = "search"
  /\ Len(found[s]) < MaxFound
  /\ Improves(s, v)
  /\ found' = [found EXCEPT ![s] = Append(@, v)]
  /\ queue' = [queue EXCEPT ![s] = Append(@, Update(FALSE, v))]
  /\ WorkerGoto(s, "notify")
  /\ UNCHANGED <<callVars, limit, final_response, finished, stopVars, refVars>>

(* notify_one: the handle has one puller, so at most one thread waits. *)
NotifyOne(s) == pc' = [pc EXCEPT ![s] = IF @ = "waiting" THEN "next" ELSE @]

ObserverNotify(s) ==
  /\ wpc[s] = "notify"
  /\ NotifyOne(s)
  /\ WorkerGoto(s, "search")
  /\ UNCHANGED <<delivered, outcome, result, limit, found, final_response, streamVars,
                 stopVars, refVars>>

(* Mutant: the first solution of the pool. *)
FirstOf(f) == IF f = <<>> THEN {NoSolution} ELSE {f[1]}

(* The best solution of the pool; without an objective, any solution of it. *)
BestOf(f) ==
  IF f = <<>> THEN {NoSolution}
  ELSE IF HasObjective THEN {f[Len(f)]}
  ELSE {f[i] : i \in 1..Len(f)}

SearchEnd(s) ==
  /\ wpc[s] = "search"
  /\ \E r \in BestOf(found[s]) : final_response' = [final_response EXCEPT ![s] = r]
  /\ WorkerGoto(s, "unregister")
  /\ UNCHANGED <<callVars, limit, found, streamVars, stopVars, refVars>>

(* Mutant: the registered limit stays behind. *)
UnregisterNothing(s) ==
  /\ wpc[s] = "unregister"
  /\ token_mu = None
  /\ WorkerGoto(s, "publish")
  /\ UNCHANGED <<callVars, limit, found, final_response, streamVars, stopVars, refVars>>

Unregister(s) ==
  /\ wpc[s] = "unregister"
  /\ token_mu = None
  /\ active_stream_limit' = None
  /\ WorkerGoto(s, "publish")
  /\ UNCHANGED <<callVars, limit, found, final_response, streamVars, stopped,
                 legacy_stopped, token_mu, refVars>>

(* Mutant: the final response overtakes what is still queued. *)
PublishFirst(s) ==
  /\ wpc[s] = "publish"
  /\ queue' = [queue EXCEPT ![s] = <<Update(TRUE, final_response[s])>> \o @]
  /\ finished' = [finished EXCEPT ![s] = TRUE]
  /\ WorkerGoto(s, "notify_done")
  /\ UNCHANGED <<callVars, limit, found, final_response, stopVars, refVars>>

(* Mutant: finished is not set in the same critical section. *)
PublishUnfinished(s) ==
  /\ wpc[s] = "publish"
  /\ queue' = [queue EXCEPT ![s] = Append(@, Update(TRUE, final_response[s]))]
  /\ WorkerGoto(s, "notify_done")
  /\ UNCHANGED <<callVars, limit, found, final_response, finished, stopVars, refVars>>

Publish(s) ==
  /\ wpc[s] = "publish"
  /\ queue' = [queue EXCEPT ![s] = Append(@, Update(TRUE, final_response[s]))]
  /\ finished' = [finished EXCEPT ![s] = TRUE]
  /\ WorkerGoto(s, "notify_done")
  /\ UNCHANGED <<callVars, limit, found, final_response, stopVars, refVars>>

(* Mutant: the last notify_one is missing. *)
NotifyDoneSilently(s) ==
  /\ wpc[s] = "notify_done"
  /\ WorkerGoto(s, "exit")
  /\ UNCHANGED <<callVars, limit, found, final_response, streamVars, stopVars, refVars>>

NotifyDone(s) ==
  /\ wpc[s] = "notify_done"
  /\ NotifyOne(s)
  /\ WorkerGoto(s, "exit")
  /\ UNCHANGED <<delivered, outcome, result, limit, found, final_response, streamVars,
                 stopVars, refVars>>

(* `model` goes out of scope, its ModelSharedTimeLimit with it. *)
Exit(s) ==
  /\ wpc[s] = "exit"
  /\ WorkerGoto(s, "exited")
  /\ UNCHANGED <<callVars, limit, found, final_response, streamVars, stopVars, refVars>>

-----------------------------------------------------------------------------
(* StopToken.stop and the handle's finalizer. *)

(* Mutant: the flag is set and the running search is not told. *)
StopFlagOnly == stopped' = TRUE /\ UNCHANGED limit

(* The part the two have in common, under LeanStopToken::mu. *)
StopUnderLock ==
  /\ stopped' = TRUE
  /\ limit' = IF active_stream_limit = None THEN limit
              ELSE [limit EXCEPT ![active_stream_limit] = TRUE]

(* From another task, or once from within each onSolution. *)
StopCall(t) ==
  /\ t \in taskRefs
  /\ pc[t] = IF t \in Stoppers THEN "idle" ELSE "callback"
  /\ legacy_stopped' = TRUE
  /\ Goto(t, "stop_lock")
  /\ UNCHANGED <<delivered, outcome, result, searchVars, streamVars, stopped,
                 active_stream_limit, token_mu, refVars>>

StopLock(t) ==
  /\ pc[t] = "stop_lock"
  /\ token_mu = None
  /\ token_mu' = t
  /\ Goto(t, "stop_body")
  /\ UNCHANGED <<delivered, outcome, result, searchVars, streamVars, stopped,
                 legacy_stopped, active_stream_limit, refVars>>

StopBody(t) ==
  /\ pc[t] = "stop_body"
  /\ StopUnderLock
  /\ token_mu' = None
  /\ Goto(t, IF t \in Stoppers THEN "returned" ELSE "after_stop")
  /\ UNCHANGED <<delivered, outcome, result, wpc, found, final_response, streamVars,
                 legacy_stopped, active_stream_limit, refVars>>

FinalizeCheck(s) ==
  /\ pc[s] = "drop"
  /\ Goto(s, IF finished[s] THEN "join" ELSE "fin_lock")
  /\ UNCHANGED <<delivered, outcome, result, searchVars, streamVars, stopVars, refVars>>

FinalizeLock(s) ==
  /\ pc[s] = "fin_lock"
  /\ token_mu = None
  /\ token_mu' = s
  /\ Goto(s, "fin_body")
  /\ UNCHANGED <<delivered, outcome, result, searchVars, streamVars, stopped,
                 legacy_stopped, active_stream_limit, refVars>>

(* Mutant: the lock is held until the background thread is joined. *)
FinalizeBodyKeepsLock(s) ==
  /\ pc[s] = "fin_body"
  /\ StopUnderLock
  /\ Goto(s, "join")
  /\ UNCHANGED <<delivered, outcome, result, wpc, found, final_response, streamVars,
                 legacy_stopped, active_stream_limit, token_mu, refVars>>

(* Mutant: the reference on the token goes before the join. *)
FinalizeBodyDecRef(s) ==
  /\ pc[s] = "fin_body"
  /\ StopUnderLock
  /\ token_mu' = None
  /\ handleRefs' = handleRefs \ {s}
  /\ Goto(s, "join")
  /\ UNCHANGED <<delivered, outcome, result, wpc, found, final_response, streamVars,
                 legacy_stopped, active_stream_limit, taskRefs>>

(* The guard's scope ends with the `if`: the lock is not held across join. *)
FinalizeBody(s) ==
  /\ pc[s] = "fin_body"
  /\ StopUnderLock
  /\ token_mu' = None
  /\ Goto(s, "join")
  /\ UNCHANGED <<delivered, outcome, result, wpc, found, final_response, streamVars,
                 legacy_stopped, active_stream_limit, refVars>>

(* Mutant: the background thread is detached. *)
FinalizeDetach(s) ==
  /\ pc[s] = "join"
  /\ handleRefs' = handleRefs \ {s}
  /\ Goto(s, "returned")
  /\ UNCHANGED <<delivered, outcome, result, searchVars, streamVars, stopVars, taskRefs>>

FinalizeJoin(s) ==
  /\ pc[s] = "join"
  /\ wpc[s] = "exited"
  /\ handleRefs' = handleRefs \ {s}
  /\ Goto(s, "returned")
  /\ UNCHANGED <<delivered, outcome, result, searchVars, streamVars, stopVars, taskRefs>>

(* A task lets go of its StopToken: it neither starts nor stops afterwards. *)
ReleaseToken(t) ==
  /\ t \in taskRefs
  /\ pc[t] \notin {"stop_lock", "stop_body"}
  /\ taskRefs' = taskRefs \ {t}
  /\ UNCHANGED <<callVars, searchVars, streamVars, stopVars, handleRefs>>

Terminated ==
  /\ \A t \in Tasks : pc[t] \in {"idle", "returned"}
  /\ taskRefs = {}
  /\ UNCHANGED vars

-----------------------------------------------------------------------------
WorkerNext(s) ==
  \/ Register(s)
  \/ \E v \in Values : Observe(s, v)
  \/ ObserverNotify(s)
  \/ SearchEnd(s)
  \/ Unregister(s)
  \/ Publish(s)
  \/ NotifyDone(s)
  \/ Exit(s)

PullNext(s) ==
  \/ NextWait(s)
  \/ NextImproving(s)
  \/ NextDone(s)
  \/ NextUndecodable(s)
  \/ NextError(s)

FinalizeNext(s) ==
  \/ FinalizeCheck(s)
  \/ FinalizeLock(s)
  \/ FinalizeBody(s)
  \/ FinalizeJoin(s)

CallNext(s) ==
  \/ StreamStart(s)
  \/ PullNext(s)
  \/ SpuriousWakeup(s)
  \/ CallbackReturn(s)
  \/ CallbackThrow(s)
  \/ PullAgain(s)
  \/ FinalizeNext(s)

TokenNext(t) ==
  \/ StopCall(t)
  \/ StopLock(t)
  \/ StopBody(t)
  \/ ReleaseToken(t)

Next ==
  \/ \E s \in Streams : WorkerNext(s) \/ CallNext(s)
  \/ \E t \in Tasks : TokenNext(t)
  \/ Terminated

Spec == Init /\ [][Next]_vars

(* The operating system runs every thread; onSolution returns or throws; and   *)
(* CP-SAT ends a solve whose limit is stopped.  A search nobody stops need     *)
(* not end, and nobody has to call StopToken.stop.                             *)
Fairness ==
  /\ \A s \in Streams :
       /\ WF_vars(Register(s))
       /\ WF_vars(ObserverNotify(s))
       /\ WF_vars(limit[s] /\ SearchEnd(s))
       /\ WF_vars(Unregister(s))
       /\ WF_vars(Publish(s) \/ NotifyDone(s) \/ Exit(s))
       /\ WF_vars(PullNext(s))
       /\ WF_vars(CallbackReturn(s) \/ CallbackThrow(s))
       /\ WF_vars(FinalizeNext(s))
  /\ \A t \in Tasks : WF_vars(StopLock(t) \/ StopBody(t))

FairSpec == Spec /\ Fairness

-----------------------------------------------------------------------------
(* Safety. *)

(* RunStream and the finalizer only touch the LeanStopToken while some         *)
(* reference keeps it from being finalized (cpsat_stop_token_finalize).        *)
NoUseAfterFree ==
  /\ \A s \in Streams :
       wpc[s] \in {"register", "search", "notify", "unregister"} => TokenAlive
  /\ \A t \in Tasks :
       pc[t] \in {"stop_lock", "stop_body", "fin_lock", "fin_body"} => TokenAlive

(* active_stream_limit never points into a Model that RunStream has already    *)
(* destroyed, however many streams overwrite it ("so cpsat_stop_token_stop/    *)
(* the finalizer above never call Stop() on a pointer that's about to be       *)
(* dangling").                                                                 *)
NoDanglingLimit ==
  active_stream_limit # None => wpc[active_stream_limit] \notin {"none", "exited"}

(* A stream that is pulled to its end leaves the token usable: stopped is set  *)
(* only by StopToken.stop or by a handle dropped before its search was done.   *)
OnlyEarlyDropStops ==
  stopped => \/ legacy_stopped
             \/ \E s \in Streams : outcome[s] \in {"thrown", "undecodable"}

(* onSolution sees the solutions the observer was given, each once, in the     *)
(* order CP-SAT reported them; with an objective each improves on the last.    *)
DeliveredInOrder ==
  \A s \in Streams :
    /\ Len(delivered[s]) <= Len(found[s])
    /\ \A i \in 1..Len(delivered[s]) : delivered[s][i] = found[s][i]
    /\ HasObjective =>
         \A i, j \in 1..Len(delivered[s]) : i < j => delivered[s][j] < delivered[s][i]

(* A call returns its search's own final response, after every solution was    *)
(* delivered, and nothing delivered is better than it.                         *)
FinalIsLastAndBest ==
  \A s \in Streams : outcome[s] \in {"final", "finished_error"} =>
    /\ final_response[s] # None
    /\ result[s] = final_response[s]
    /\ delivered[s] = found[s]
    /\ HasObjective => \A i \in 1..Len(delivered[s]) : result[s] <= delivered[s][i]

(* StopToken.stop cancels whichever solve is using the token: once stopped is  *)
(* set, every search running on the token has been told to stop.               *)
StopReachesSearch ==
  stopped => \A s \in Streams : wpc[s] \in {"search", "notify"} => limit[s]

(* What a step leaves alone of the calls that pulled their done update.        *)
DoneIsLast ==
  \A s \in Streams : outcome[s] = "final" =>
    /\ outcome'[s] \in {"final", "finished_error"}
    /\ <<delivered'[s], result'[s]>> = <<delivered[s], result[s]>>

(* Once the done update was pulled, no further pull hands out an update        *)
(* (cpsat_solve_stream_next throws "solution stream already finished").        *)
NothingAfterDone == [][DoneIsLast]_vars

-----------------------------------------------------------------------------
(* The abstract specification this one implements. *)

Phase(s) == CASE pc[s] = "idle" -> "idle"
              [] pc[s] = "returned" -> "returned"
              [] OTHER -> "running"

Promise == INSTANCE SolutionStream WITH phase <- [s \in Streams |-> Phase(s)]

(* Threads, queue, lock and token together keep solveWithResultCallback's      *)
(* promise.                                                                    *)
KeepsPromise == Promise!Spec

-----------------------------------------------------------------------------
(* Liveness. *)

(* A stop, from another task or from within onSolution, makes every call in    *)
(* progress on the token return.                                               *)
StopWindsDown ==
  \A s \in Streams : (stopped /\ pc[s] # "idle") ~> pc[s] = "returned"

(* Once SolveCpModel has returned, its call returns too: no wakeup is lost and *)
(* the join does not block.                                                    *)
SearchEndReturns ==
  \A s \in Streams : (final_response[s] # None) ~> pc[s] = "returned"

(* A handle dropped early forces its search to wind down instead of letting it *)
(* run to completion.                                                          *)
DropReturns ==
  \A s \in Streams : (pc[s] = "drop") ~> pc[s] = "returned"

(* StopToken.stop itself returns: no one keeps LeanStopToken::mu.              *)
StopCallReturns ==
  \A t \in Tasks : (pc[t] = "stop_lock") ~> pc[t] \in {"after_stop", "returned"}

=============================================================================

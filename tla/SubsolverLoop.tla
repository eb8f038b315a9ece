---------------------------- MODULE SubsolverLoop ---------------------------
(***************************************************************************)
(* NonDeterministicLoop (or-tools/ortools/sat/subsolver.cc): with more     *)
(* than one worker, the thread that called SolveCpModel hands tasks of the *)
(* subsolvers to a pool of threads until the search is done, and deletes   *)
(* the subsolvers.  They are numbered in the order of their creation.      *)
(* Those that never have a task, like the synchronization points, are left *)
(* out; the score by which the next one is chosen is any.                  *)
(***************************************************************************)
EXTENDS Integers, Sequences, FiniteSets

CONSTANTS
  Kind,        \* the kind of each subsolver: see Kinds
  NumThreads,  \* num_workers
  MaxTasks,    \* the number of tasks a behaviour generates
  None         \* no subsolver: best = -1

(* FullProblemSolver, the same with stop_at_first_solution,                *)
(* ObjectiveShavingSolver and LnsSolver.                                   *)
Kinds == {"full", "first", "shaving", "lns"}

Subsolvers == DOMAIN Kind

ASSUME LoopAssumption ==
  /\ Kind \in Seq(Kinds) /\ Kind # <<>>
  /\ NumThreads \in Nat /\ NumThreads > 1
  /\ MaxTasks \in Nat
  /\ None \notin Int

VARIABLES
  pc,            \* where the loop is; it holds `mutex` at "clear" and "choose"
  turn,          \* the subsolver it has got to there
  all_done,
  best,
  deleted,       \* the subsolvers that were reset to nullptr
  num_in_flight, num_in_flight_per_subsolvers, \* guarded by `mutex`
  task_id,
  running,       \* tasks in the pool, waiting for a thread or on one
  returned,      \* tasks that have run, but not yet taken `mutex`
  completed,     \* previous_task_is_completed_, ~task_in_flight_
  first_chunk,   \* solving_first_chunk_
  unsynced,      \* results of tasks that Synchronize() has yet to take in
  solved,        \* ProblemIsSolved()
  has_solution,  \* first_solution_solvers_should_stop; a hint may be one
  limit          \* the time limit is reached or stopped

loopVars == <<turn, all_done, best>>
countVars == <<num_in_flight, num_in_flight_per_subsolvers>>
taskVars == <<task_id, running, returned>>
solverVars == <<completed, first_chunk>>
sharedVars == <<solved, has_solution, limit>>
vars == <<pc, loopVars, deleted, countVars, taskVars, solverVars, unsynced, sharedVars>>

Init ==
  /\ pc = "wait" /\ turn = 1 /\ all_done = FALSE /\ best = None
  /\ deleted = {}
  /\ num_in_flight = 0
  /\ num_in_flight_per_subsolvers = [s \in Subsolvers |-> 0]
  /\ task_id = 0 /\ running = {} /\ returned = {}
  /\ completed = [s \in Subsolvers |-> TRUE]
  /\ first_chunk = [s \in Subsolvers |-> TRUE]
  /\ unsynced = [s \in Subsolvers |-> FALSE]
  /\ solved = FALSE /\ has_solution \in BOOLEAN /\ limit = FALSE

Tasks == running \cup returned

(* SharedClasses::SearchIsDone(), which stops the limit of a solved problem. *)
SearchIsDone == solved \/ limit
AskSearchIsDone == limit' = (limit \/ solved)
DoNotAsk == UNCHANGED limit

HasIsDone(s) == Kind[s] \in {"full", "first"}
IsDone(s) == HasIsDone(s) /\ (SearchIsDone \/ (Kind[s] = "first" /\ has_solution))

TaskIsAvailable(s) ==
  /\ ~SearchIsDone /\ ~IsDone(s)
  /\ HasIsDone(s) => completed[s] /\ first_chunk[s]
  /\ Kind[s] = "shaving" => completed[s]
  /\ Kind[s] = "lns" => has_solution
  /\ task_id < MaxTasks
-----------------------------------------------------------------------------
(* The loop.                                                                   *)

(* The next subsolver, or the step after the last. *)
Advance(to) ==
  IF turn = Len(Kind) THEN pc' = to /\ turn' = 1 ELSE turn' = turn + 1 /\ UNCHANGED pc

(* LockWhenWithTimeout, and on a timeout the loop only synchronizes. *)
Wait ==
  /\ pc = "wait"
  /\ IF num_in_flight < NumThreads
     THEN /\ pc' = "synchronize"
          /\ all_done' = (num_in_flight = 0)
     ELSE /\ pc' = "timeout"
          /\ UNCHANGED all_done
  /\ UNCHANGED <<turn, best, deleted, countVars, taskVars, solverVars, unsynced, sharedVars>>

(* One step of SynchronizeAll: no lock is held.  With a task in flight that was *)
(* not told to stop, a shaving solver asks whether it should go on.             *)
Synchronize ==
  /\ \/ pc = "synchronize" /\ Advance("clear")
     \/ pc = "timeout" /\ Advance("wait")
  /\ unsynced' = IF turn \in deleted THEN unsynced ELSE [unsynced EXCEPT ![turn] = FALSE]
  /\ \/ DoNotAsk
     \/ turn \notin deleted /\ Kind[turn] = "shaving" /\ ~completed[turn] /\ AskSearchIsDone
  /\ UNCHANGED <<all_done, best, deleted, countVars, taskVars, solverVars, solved, has_solution>>

(* Mutant: a subsolver is deleted as soon as it is done. *)
IdleAlways(s) == TRUE

Idle(s) == num_in_flight_per_subsolvers[s] = 0

(* One step of ClearSubsolversThatAreDone. *)
Clear ==
  LET asks == turn \notin deleted /\ Idle(turn)
  IN /\ pc = "clear"
     /\ Advance("choose")
     /\ deleted' = IF asks /\ IsDone(turn) THEN deleted \cup {turn} ELSE deleted
     /\ IF asks /\ HasIsDone(turn) THEN AskSearchIsDone ELSE DoNotAsk
     /\ best' = None
     /\ UNCHANGED <<all_done, countVars, taskVars, solverVars, unsynced, solved, has_solution>>

(* One step of NextSubsolverToSchedule. *)
Choose ==
  /\ pc = "choose"
  /\ Advance("decide")
  /\ best' \in IF turn \notin deleted /\ TaskIsAvailable(turn)
               THEN {turn, IF best = None THEN turn ELSE best} ELSE {best}
  /\ IF turn \notin deleted THEN AskSearchIsDone ELSE DoNotAsk
  /\ UNCHANGED <<all_done, deleted, countVars, taskVars, solverVars, unsynced, solved, has_solution>>

(* Mutant: whether all is done is looked up when it is needed. *)
NoneInFlightNow == num_in_flight = 0

AllDone == all_done

Decide ==
  /\ pc = "decide"
  /\ pc' = IF best # None /\ ~limit THEN "schedule" ELSE IF AllDone THEN "left" ELSE "wait"
  /\ UNCHANGED <<loopVars, deleted, countVars, taskVars, solverVars, unsynced, sharedVars>>

(* The counters under `mutex`, GenerateTask and pool.Schedule. *)
Schedule ==
  /\ pc = "schedule"
  /\ pc' = "wait"
  /\ task_id' = task_id + 1
  /\ running' = running \cup {[id |-> task_id, of |-> best]}
  /\ num_in_flight' = num_in_flight + 1
  /\ num_in_flight_per_subsolvers' = [num_in_flight_per_subsolvers EXCEPT ![best] = @ + 1]
  /\ completed' = [completed EXCEPT ![best] = Kind[best] = "lns"]
  /\ UNCHANGED <<loopVars, deleted, returned, first_chunk, unsynced, sharedVars>>

(* LaunchSubsolvers deletes what is left. *)
Finish ==
  /\ pc = "left"
  /\ pc' = "done"
  /\ deleted' = Subsolvers
  /\ UNCHANGED <<loopVars, countVars, taskVars, solverVars, unsynced, sharedVars>>
-----------------------------------------------------------------------------
(* The tasks, and whoever stops the search.                                    *)

FindSolution ==
  /\ running # {}
  /\ has_solution' = TRUE
  /\ UNCHANGED <<pc, loopVars, deleted, countVars, taskVars, solverVars, unsynced, solved, limit>>

(* The bounds cross, or a task proves that nothing better exists, which stops  *)
(* the limit too.                                                              *)
Solve ==
  /\ running # {}
  /\ solved' = TRUE
  /\ limit' \in {limit, TRUE}
  /\ UNCHANGED <<pc, loopVars, deleted, countVars, taskVars, solverVars, unsynced, has_solution>>

StopLimit ==
  /\ pc # "done"
  /\ limit' = TRUE
  /\ UNCHANGED <<pc, loopVars, deleted, countVars, taskVars, solverVars, unsynced, solved,
                 has_solution>>

(* A full search only ends with the whole search, or at the first solution; the *)
(* others work under limits of their own.                                       *)
MayReturn(s) ==
  HasIsDone(s) => SearchIsDone \/ (Kind[s] = "first" /\ has_solution)

Returning(t) ==
  /\ running' = running \ {t}
  /\ returned' = returned \cup {t}
  /\ UNCHANGED <<pc, loopVars, deleted, countVars, task_id, solved, has_solution>>

Return(t) ==
  /\ MayReturn(t.of)
  /\ Returning(t)
  /\ completed' = [completed EXCEPT ![t.of] = TRUE]
  /\ first_chunk' = [first_chunk EXCEPT ![t.of] = @ /\ ~HasIsDone(t.of)]
  /\ unsynced' = [unsynced EXCEPT ![t.of] = @ \/ Kind[t.of] # "shaving"]
  /\ DoNotAsk

(* A task of an LnsSolver first asks whether the search is done. *)
ReturnAtOnce(t) ==
  /\ Kind[t.of] = "lns" /\ SearchIsDone
  /\ Returning(t)
  /\ AskSearchIsDone
  /\ UNCHANGED <<solverVars, unsynced>>

(* Mutant: a task that ends after the limit is not counted out. *)
OneLessInTime == IF limit THEN num_in_flight ELSE num_in_flight - 1

OneLess == num_in_flight - 1

(* The end of the closure given to pool.Schedule, under `mutex`. *)
TaskEnd(t) ==
  /\ pc \notin {"clear", "choose"}
  /\ returned' = returned \ {t}
  /\ num_in_flight' = OneLess
  /\ num_in_flight_per_subsolvers' = [num_in_flight_per_subsolvers EXCEPT ![t.of] = @ - 1]
  /\ UNCHANGED <<pc, loopVars, deleted, task_id, running, solverVars, unsynced, sharedVars>>

LoopNext == Wait \/ Synchronize \/ Clear \/ Choose \/ Decide \/ Schedule \/ Finish

Next ==
  \/ LoopNext
  \/ \E t \in running : Return(t) \/ ReturnAtOnce(t)
  \/ \E t \in returned : TaskEnd(t)
  \/ FindSolution \/ Solve \/ StopLimit

Spec == Init /\ [][Next]_vars

(* The loop runs, and so do tasks once nothing keeps them.  Between two of its *)
(* turns the loop sleeps or waits without the lock, so a task that wants it     *)
(* again and again gets it.                                                     *)
FairSpec ==
  /\ Spec
  /\ WF_vars(LoopNext)
  /\ WF_vars(\E t \in running : Return(t))
  /\ SF_vars(\E t \in returned : TaskEnd(t))
-----------------------------------------------------------------------------
TypeOK ==
  /\ pc \in {"wait", "timeout", "synchronize", "clear", "choose", "decide", "schedule",
             "left", "done"}
  /\ turn \in Subsolvers
  /\ all_done \in BOOLEAN
  /\ best \in Subsolvers \cup {None}
  /\ deleted \subseteq Subsolvers
  /\ num_in_flight \in Int
  /\ num_in_flight_per_subsolvers \in [Subsolvers -> Int]
  /\ task_id \in Nat
  /\ running \subseteq [id : Nat, of : Subsolvers]
  /\ returned \subseteq [id : Nat, of : Subsolvers]
  /\ completed \in [Subsolvers -> BOOLEAN]
  /\ first_chunk \in [Subsolvers -> BOOLEAN]
  /\ unsynced \in [Subsolvers -> BOOLEAN]
  /\ solved \in BOOLEAN /\ has_solution \in BOOLEAN /\ limit \in BOOLEAN

(* "Once this is true, the subsolver in question will be deleted and never     *)
(* used again": no task that is still to run or to be counted out belongs to a *)
(* subsolver that is gone, and none is scheduled for one.                      *)
DeletedIsIdle ==
  /\ \A t \in Tasks : t.of \notin deleted
  /\ pc = "schedule" => best \notin deleted

(* "we do not have anything else to generate once all the task are done and    *)
(* synchronized": no task outlives the loop, and what it found is taken in by  *)
(* every subsolver that does.                                                  *)
LoopEndsSynchronized ==
  pc = "left" =>
    /\ Tasks = {}
    /\ \A s \in Subsolvers \ deleted : ~unsynced[s]

(* A search that is solved or stopped comes to an end.                         *)
DoneEndsLoop == SearchIsDone ~> pc = "done"
-----------------------------------------------------------------------------
(* Why.                                                                        *)

Of(s) == {t \in Tasks : t.of = s}

(* The counters count. *)
CountsTasks ==
  /\ IsFiniteSet(running) /\ IsFiniteSet(returned) /\ running \cap returned = {}
  /\ \A t \in Tasks : t.id < task_id
  /\ num_in_flight = Cardinality(Tasks)
  /\ \A s \in Subsolvers : num_in_flight_per_subsolvers[s] = Cardinality(Of(s))

BestIsThere == pc \in {"choose", "decide", "schedule"} /\ best # None => best \notin deleted

ScheduleHasBest == pc = "schedule" => best # None

TurnsBegin == pc \notin {"timeout", "synchronize", "clear", "choose"} => turn = 1

(* all_done was true when the loop began to synchronize, and nothing ran since. *)
QuietSince ==
  all_done /\ pc \in {"synchronize", "clear", "choose", "decide", "left", "done"} =>
    /\ Tasks = {}
    /\ \A s \in Subsolvers \ deleted : (pc = "synchronize" => s < turn) => ~unsynced[s]

LeftAllDone == pc \in {"left", "done"} => all_done

IInv ==
  /\ TypeOK
  /\ CountsTasks
  /\ DeletedIsIdle /\ BestIsThere /\ ScheduleHasBest
  /\ TurnsBegin /\ QuietSince /\ LeftAllDone

=============================================================================

------------------------ MODULE SubsolverLoop_proofs ------------------------
(***************************************************************************)
(* Proofs about SubsolverLoop, for any subsolvers and any number of        *)
(* threads and tasks: the counters count, no task outlives its subsolver,  *)
(* and the loop ends with everything done and synchronized.                *)
(***************************************************************************)
EXTENDS SubsolverLoop, FiniteSetTheorems, TLAPS

-----------------------------------------------------------------------------
(* The subsolvers and their tasks.                                             *)

LEMMA SubsolversAre ==
  /\ Len(Kind) \in Nat /\ Len(Kind) >= 1
  /\ Subsolvers = 1..Len(Kind)
  /\ None \notin Subsolvers
BY LoopAssumption DEF Subsolvers

LEMMA TasksAreFinite ==
  ASSUME CountsTasks
  PROVE  /\ IsFiniteSet(Tasks)
         /\ num_in_flight = 0 <=> Tasks = {}
         /\ \A s \in Subsolvers :
              /\ IsFiniteSet(Of(s))
              /\ num_in_flight_per_subsolvers[s] = 0 <=> Of(s) = {}
<1>1. IsFiniteSet(Tasks)
  BY FS_Union DEF CountsTasks, Tasks
<1>2. \A s \in Subsolvers : IsFiniteSet(Of(s))
  BY <1>1, FS_Subset DEF Of
<1> QED BY <1>1, <1>2, FS_EmptySet DEF CountsTasks

(* The tasks in flight are the same ones. *)
LEMMA CountsUnchanged ==
  ASSUME CountsTasks, UNCHANGED <<countVars, taskVars>>
  PROVE  CountsTasks' /\ Tasks' = Tasks /\ \A s \in Subsolvers : Of(s)' = Of(s)
BY DEF CountsTasks, countVars, taskVars, Tasks, Of

LEMMA CountsReturned ==
  ASSUME CountsTasks, UNCHANGED <<countVars, task_id>>, NEW t \in running,
         running' = running \ {t}, returned' = returned \cup {t}
  PROVE  CountsTasks' /\ Tasks' = Tasks /\ \A s \in Subsolvers : Of(s)' = Of(s)
<1>1. IsFiniteSet(running') /\ IsFiniteSet(returned')
  BY FS_AddElement, FS_RemoveElement DEF CountsTasks
<1>2. Tasks' = Tasks
  BY DEF Tasks
<1>3. \A s \in Subsolvers : Of(s)' = Of(s)
  BY <1>2 DEF Of
<1>4. running' \cap returned' = {}
  BY DEF CountsTasks
<1> QED BY <1>1, <1>2, <1>3, <1>4 DEF CountsTasks, countVars

LEMMA CountsScheduled ==
  ASSUME CountsTasks, NEW s \in Subsolvers, task_id \in Nat,
         num_in_flight_per_subsolvers \in [Subsolvers -> Int],
         running' = running \cup {[id |-> task_id, of |-> s]}, returned' = returned,
         task_id' = task_id + 1, num_in_flight' = num_in_flight + 1,
         num_in_flight_per_subsolvers' = [num_in_flight_per_subsolvers EXCEPT ![s] = @ + 1],
         \A t \in Tasks : t.id \in Nat
  PROVE  CountsTasks'
<1> DEFINE t == [id |-> task_id, of |-> s]
<1>1. t \notin Tasks /\ t.of = s /\ t.id = task_id
  BY DEF CountsTasks
<1>2. Tasks' = Tasks \cup {t} /\ running' = running \cup {t}
  BY DEF Tasks
<1> HIDE DEF t
<1>3. IsFiniteSet(running') /\ IsFiniteSet(returned') /\ running' \cap returned' = {}
  BY <1>1, <1>2, FS_AddElement DEF CountsTasks, Tasks
<1>4. Cardinality(Tasks') = Cardinality(Tasks) + 1
  BY <1>1, <1>2, TasksAreFinite, FS_AddElement
<1>5. \A x \in Tasks' : x.id < task_id'
  BY <1>1, <1>2 DEF CountsTasks
<1>6. \A r \in Subsolvers : Cardinality(Of(r)') = num_in_flight_per_subsolvers'[r]
  <2> TAKE r \in Subsolvers
  <2>1. CASE r = s
    <3>1. Of(r)' = Of(r) \cup {t} /\ t \notin Of(r)
      BY <1>1, <1>2, <2>1 DEF Of
    <3>2. IsFiniteSet(Of(r))
      BY TasksAreFinite
    <3>3. Cardinality(Of(r) \cup {t}) = Cardinality(Of(r)) + 1
      BY <3>1, <3>2, FS_AddElement
    <3> QED BY <2>1, <3>1, <3>3 DEF CountsTasks
  <2>2. CASE r # s
    <3>1. Of(r)' = Of(r)
      BY <1>1, <1>2, <2>2 DEF Of
    <3> QED BY <2>2, <3>1 DEF CountsTasks
  <2> QED BY <2>1, <2>2
<1> QED BY <1>3, <1>4, <1>5, <1>6 DEF CountsTasks

LEMMA CountsEnded ==
  ASSUME CountsTasks, NEW t \in returned, t.of \in Subsolvers,
         num_in_flight_per_subsolvers \in [Subsolvers -> Int], num_in_flight \in Int,
         UNCHANGED <<task_id, running>>, returned' = returned \ {t},
         num_in_flight' = num_in_flight - 1,
         num_in_flight_per_subsolvers' = [num_in_flight_per_subsolvers EXCEPT ![t.of] = @ - 1]
  PROVE  CountsTasks' /\ Tasks' = Tasks \ {t}
<1>1. t \in Tasks /\ t \notin running
  BY DEF CountsTasks, Tasks
<1>2. Tasks' = Tasks \ {t}
  BY <1>1 DEF Tasks
<1>3. IsFiniteSet(running') /\ IsFiniteSet(returned') /\ running' \cap returned' = {}
  BY FS_RemoveElement DEF CountsTasks
<1>4. Cardinality(Tasks') = Cardinality(Tasks) - 1
  BY <1>1, <1>2, TasksAreFinite, FS_RemoveElement
<1>5. \A r \in Subsolvers : Cardinality(Of(r)') = num_in_flight_per_subsolvers'[r]
  <2> TAKE r \in Subsolvers
  <2>1. CASE r = t.of
    <3>1. Of(r)' = Of(r) \ {t} /\ t \in Of(r)
      BY <1>1, <1>2, <2>1 DEF Of
    <3>2. Cardinality(Of(r)') = Cardinality(Of(r)) - 1
      BY <3>1, TasksAreFinite, FS_RemoveElement
    <3> QED BY <2>1, <3>2 DEF CountsTasks
  <2>2. CASE r # t.of
    <3>1. Of(r)' = Of(r)
      BY <1>2, <2>2 DEF Of
    <3> QED BY <2>2, <3>1 DEF CountsTasks
  <2> QED BY <2>1, <2>2
<1>6. \A x \in Tasks' : x.id < task_id'
  BY <1>2 DEF CountsTasks
<1> QED BY <1>2, <1>3, <1>4, <1>5, <1>6 DEF CountsTasks

-----------------------------------------------------------------------------
(* Steps that leave the tasks alone, and do not touch what the loop decided.   *)

LEMMA BestAndTurn ==
  ASSUME TypeOK
  PROVE  /\ turn \in 1..Len(Kind) /\ turn \in Int
         /\ best = None \/ best \in Subsolvers
BY SubsolversAre DEF TypeOK

LEMMA AdvanceGoes ==
  ASSUME TypeOK, NEW to, Advance(to)
  PROVE  /\ turn' \in Subsolvers
         /\ \/ turn = Len(Kind) /\ pc' = to /\ turn' = 1
            \/ turn < Len(Kind) /\ pc' = pc /\ turn' = turn + 1
BY SubsolversAre DEF Advance, TypeOK

LEMMA AsksAreBoolean ==
  ASSUME TypeOK, AskSearchIsDone \/ DoNotAsk
  PROVE  limit' \in BOOLEAN
BY DEF TypeOK, AskSearchIsDone, DoNotAsk

LEMMA WaitKeeps ==
  ASSUME IInv, Wait
  PROVE  IInv'
<1>1. turn = 1
  BY DEF IInv, TurnsBegin, Wait
<1>2. TypeOK'
  BY DEF IInv, TypeOK, Wait, countVars, taskVars, solverVars, sharedVars
<1>3. CountsTasks' /\ Tasks' = Tasks
  BY CountsUnchanged DEF IInv, Wait
<1>4. DeletedIsIdle' /\ BestIsThere' /\ ScheduleHasBest' /\ TurnsBegin' /\ LeftAllDone'
  BY <1>1, <1>3 DEF IInv, DeletedIsIdle, BestIsThere, ScheduleHasBest, TurnsBegin, LeftAllDone,
     Wait
<1>5. QuietSince'
  <2>1. CASE num_in_flight < NumThreads
    <3>1. pc' = "synchronize" /\ turn' = 1 /\ (all_done' => Tasks = {})
      BY <1>1, <2>1, TasksAreFinite DEF IInv, Wait
    <3>2. \A s \in Subsolvers : ~(s < 1)
      BY SubsolversAre
    <3> QED BY <1>3, <3>1, <3>2 DEF QuietSince
  <2>2. CASE ~(num_in_flight < NumThreads)
    BY <2>2 DEF QuietSince, Wait
  <2> QED BY <2>1, <2>2
<1> QED BY <1>2, <1>3, <1>4, <1>5 DEF IInv

LEMMA SynchronizeKeeps ==
  ASSUME IInv, Synchronize
  PROVE  IInv'
<1>1. /\ turn' \in Subsolvers
      /\ \/ turn = Len(Kind) /\ pc' = (IF pc = "timeout" THEN "wait" ELSE "clear") /\ turn' = 1
         \/ turn < Len(Kind) /\ pc' = pc /\ turn' = turn + 1
  BY AdvanceGoes DEF IInv, Synchronize
<1>2. pc \in {"synchronize", "timeout"}
  BY DEF Synchronize
<1>3. /\ unsynced' \in [Subsolvers -> BOOLEAN]
      /\ \A s \in Subsolvers \ deleted : unsynced'[s] = (unsynced[s] /\ s # turn)
  BY DEF IInv, TypeOK, Synchronize
<1>4. limit' \in BOOLEAN
  BY AsksAreBoolean DEF IInv, Synchronize
<1>5. TypeOK'
  BY <1>1, <1>2, <1>3, <1>4
  DEF IInv, TypeOK, Synchronize, countVars, taskVars, solverVars
<1>6. CountsTasks' /\ Tasks' = Tasks
  BY CountsUnchanged DEF IInv, Synchronize
<1>7. DeletedIsIdle' /\ BestIsThere' /\ ScheduleHasBest' /\ TurnsBegin' /\ LeftAllDone'
  BY <1>1, <1>2, <1>6
  DEF IInv, DeletedIsIdle, BestIsThere, ScheduleHasBest, TurnsBegin, LeftAllDone, Synchronize
<1>8. QuietSince'
  <2>1. all_done' = all_done /\ deleted' = deleted
    BY DEF Synchronize
  <2>2. \A s \in Subsolvers : s < turn + 1 \/ turn = Len(Kind) => s < turn \/ s = turn
    BY BestAndTurn, SubsolversAre DEF IInv
  <2>3. SUFFICES ASSUME all_done, pc = "synchronize"
                 PROVE  /\ Tasks = {}
                        /\ \A s \in Subsolvers \ deleted :
                             (pc' = "synchronize" => s < turn') => ~unsynced'[s]
    BY <1>1, <1>2, <1>6, <2>1 DEF QuietSince
  <2>4. Tasks = {} /\ \A s \in Subsolvers \ deleted : s < turn => ~unsynced[s]
    BY <2>3 DEF IInv, QuietSince
  <2> QED BY <1>1, <1>3, <2>2, <2>3, <2>4
<1> QED BY <1>5, <1>6, <1>7, <1>8 DEF IInv

LEMMA ClearKeeps ==
  ASSUME IInv, Clear
  PROVE  IInv'
<1>1. /\ turn' \in Subsolvers
      /\ \/ turn = Len(Kind) /\ pc' = "choose" /\ turn' = 1
         \/ turn < Len(Kind) /\ pc' = pc /\ turn' = turn + 1
  BY AdvanceGoes DEF IInv, Clear
<1>2. pc = "clear" /\ best' = None /\ all_done' = all_done /\ unsynced' = unsynced
  BY DEF Clear
<1>3. limit' \in BOOLEAN
  BY AsksAreBoolean DEF IInv, Clear
<1>4. /\ deleted \subseteq deleted'
      /\ deleted' \subseteq deleted \cup {turn}
      /\ turn \in deleted' => turn \in deleted \/ Idle(turn)
  BY DEF Clear
<1>5. turn \in Subsolvers
  BY DEF IInv, TypeOK
<1>6. TypeOK'
  BY <1>1, <1>2, <1>3, <1>4, <1>5
  DEF IInv, TypeOK, Clear, countVars, taskVars, solverVars
<1>7. CountsTasks' /\ Tasks' = Tasks
  BY CountsUnchanged DEF IInv, Clear
<1>8. DeletedIsIdle'
  <2>1. Idle(turn) => Of(turn) = {}
    BY <1>5, TasksAreFinite DEF IInv, Idle
  <2> QED BY <1>1, <1>2, <1>4, <1>7, <2>1 DEF IInv, DeletedIsIdle, Of
<1>9. BestIsThere' /\ ScheduleHasBest' /\ TurnsBegin' /\ LeftAllDone'
  BY <1>1, <1>2 DEF BestIsThere, ScheduleHasBest, TurnsBegin, LeftAllDone
<1>10. QuietSince'
  BY <1>1, <1>2, <1>4, <1>7 DEF IInv, QuietSince
<1> QED BY <1>6, <1>7, <1>8, <1>9, <1>10 DEF IInv

LEMMA ChooseKeeps ==
  ASSUME IInv, Choose
  PROVE  IInv'
<1>1. /\ turn' \in Subsolvers
      /\ \/ turn = Len(Kind) /\ pc' = "decide" /\ turn' = 1
         \/ turn < Len(Kind) /\ pc' = pc /\ turn' = turn + 1
  BY AdvanceGoes DEF IInv, Choose
<1>2. /\ pc = "choose" /\ all_done' = all_done /\ unsynced' = unsynced /\ deleted' = deleted
      /\ best' = best \/ (best' = turn /\ turn \notin deleted)
  BY DEF Choose
<1>3. limit' \in BOOLEAN
  BY AsksAreBoolean DEF IInv, Choose
<1>4. TypeOK'
  BY <1>1, <1>2, <1>3
  DEF IInv, TypeOK, Choose, countVars, taskVars, solverVars
<1>5. CountsTasks' /\ Tasks' = Tasks
  BY CountsUnchanged DEF IInv, Choose
<1>6. DeletedIsIdle' /\ BestIsThere' /\ ScheduleHasBest' /\ TurnsBegin' /\ LeftAllDone'
  BY <1>1, <1>2, <1>5
  DEF IInv, DeletedIsIdle, BestIsThere, ScheduleHasBest, TurnsBegin, LeftAllDone
<1>7. QuietSince'
  BY <1>1, <1>2, <1>5 DEF IInv, QuietSince
<1> QED BY <1>4, <1>5, <1>6, <1>7 DEF IInv

LEMMA DecideKeeps ==
  ASSUME IInv, Decide
  PROVE  IInv'
<1>1. /\ pc = "decide" /\ turn' = turn /\ all_done' = all_done /\ best' = best
      /\ unsynced' = unsynced /\ deleted' = deleted
      /\ \/ pc' = "schedule" /\ best # None
         \/ pc' = "left" /\ all_done
         \/ pc' = "wait"
  BY DEF Decide, AllDone, loopVars
<1>2. TypeOK'
  BY <1>1 DEF IInv, TypeOK, Decide, countVars, taskVars, solverVars, sharedVars
<1>3. CountsTasks' /\ Tasks' = Tasks
  BY CountsUnchanged DEF IInv, Decide
<1>4. DeletedIsIdle' /\ BestIsThere' /\ ScheduleHasBest' /\ TurnsBegin' /\ LeftAllDone'
  BY <1>1, <1>3
  DEF IInv, DeletedIsIdle, BestIsThere, ScheduleHasBest, TurnsBegin, LeftAllDone
<1>5. QuietSince'
  BY <1>1, <1>3 DEF IInv, QuietSince
<1> QED BY <1>2, <1>3, <1>4, <1>5 DEF IInv

LEMMA ScheduleKeeps ==
  ASSUME IInv, Schedule
  PROVE  IInv'
<1>1. /\ pc = "schedule" /\ pc' = "wait" /\ turn' = turn /\ all_done' = all_done /\ best' = best
      /\ unsynced' = unsynced /\ deleted' = deleted
  BY DEF Schedule, loopVars
<1>2. best \in Subsolvers /\ best \notin deleted
  BY <1>1, BestAndTurn DEF IInv, ScheduleHasBest, DeletedIsIdle
<1> DEFINE t == [id |-> task_id, of |-> best]
<1>3. t \in [id : Nat, of : Subsolvers] /\ t.of = best
  BY <1>2 DEF IInv, TypeOK
<1>4. running' = running \cup {t} /\ returned' = returned
  BY DEF Schedule
<1>5. TypeOK'
  <2>1. num_in_flight_per_subsolvers' \in [Subsolvers -> Int]
    BY <1>2 DEF IInv, TypeOK, Schedule
  <2>2. completed' \in [Subsolvers -> BOOLEAN]
    <3> DEFINE c == Kind[best] = "lns"
    <3>1. c \in BOOLEAN
      OBVIOUS
    <3>2. completed' = [completed EXCEPT ![best] = c]
      BY DEF Schedule
    <3> HIDE DEF c
    <3> QED BY <3>1, <3>2 DEF IInv, TypeOK
  <2> HIDE DEF t
  <2>3. running' \subseteq [id : Nat, of : Subsolvers]
    BY <1>3, <1>4 DEF IInv, TypeOK
  <2> QED BY <1>1, <1>4, <2>1, <2>2, <2>3 DEF IInv, TypeOK, Schedule, sharedVars
<1>6. CountsTasks'
  <2>1. \A x \in Tasks : x.id \in Nat
    BY DEF IInv, TypeOK, Tasks
  <2> QED BY <1>2, <2>1, CountsScheduled DEF IInv, TypeOK, Schedule
<1> HIDE DEF t
<1>7. Tasks' = Tasks \cup {t}
  BY <1>4 DEF Tasks
<1>8. DeletedIsIdle'
  BY <1>1, <1>2, <1>3, <1>7 DEF IInv, DeletedIsIdle
<1>9. BestIsThere' /\ ScheduleHasBest' /\ TurnsBegin' /\ LeftAllDone' /\ QuietSince'
  BY <1>1 DEF IInv, BestIsThere, ScheduleHasBest, TurnsBegin, LeftAllDone, QuietSince
<1> QED BY <1>5, <1>6, <1>8, <1>9 DEF IInv

LEMMA FinishKeeps ==
  ASSUME IInv, Finish
  PROVE  IInv'
<1>1. /\ pc = "left" /\ pc' = "done" /\ turn' = turn /\ all_done' = all_done /\ best' = best
      /\ unsynced' = unsynced /\ deleted' = Subsolvers
  BY DEF Finish, loopVars
<1>2. TypeOK'
  BY <1>1 DEF IInv, TypeOK, Finish, countVars, taskVars, solverVars, sharedVars
<1>3. CountsTasks' /\ Tasks' = Tasks
  BY CountsUnchanged DEF IInv, Finish
<1>4. Tasks = {}
  BY <1>1 DEF IInv, LeftAllDone, QuietSince
<1>5. DeletedIsIdle' /\ BestIsThere' /\ ScheduleHasBest' /\ TurnsBegin' /\ LeftAllDone'
  BY <1>1, <1>3, <1>4
  DEF IInv, DeletedIsIdle, BestIsThere, ScheduleHasBest, TurnsBegin, LeftAllDone
<1>6. QuietSince'
  BY <1>1, <1>3, <1>4 DEF QuietSince
<1> QED BY <1>2, <1>3, <1>5, <1>6 DEF IInv

-----------------------------------------------------------------------------
(* The tasks.  While one is there, what all_done promises is not asked for.    *)

LEMMA TaskIsThere ==
  ASSUME IInv, NEW t \in Tasks
  PROVE  ~(all_done /\ pc \in {"synchronize", "clear", "choose", "decide", "left", "done"})
BY DEF IInv, QuietSince

LEMMA SharedKeeps ==
  ASSUME IInv, FindSolution \/ Solve \/ StopLimit \/ UNCHANGED vars
  PROVE  IInv'
<1>1. /\ UNCHANGED <<pc, turn, all_done, best, deleted, unsynced>>
      /\ UNCHANGED countVars /\ UNCHANGED taskVars /\ UNCHANGED solverVars
  BY DEF FindSolution, Solve, StopLimit, vars, loopVars
<1>2. solved' \in BOOLEAN /\ has_solution' \in BOOLEAN /\ limit' \in BOOLEAN
  BY DEF IInv, TypeOK, FindSolution, Solve, StopLimit, vars, sharedVars
<1>3. TypeOK'
  BY <1>1, <1>2 DEF IInv, TypeOK, countVars, taskVars, solverVars
<1>4. CountsTasks' /\ Tasks' = Tasks
  BY <1>1, CountsUnchanged DEF IInv
<1>5. DeletedIsIdle' /\ BestIsThere' /\ ScheduleHasBest' /\ TurnsBegin' /\ LeftAllDone' /\ QuietSince'
  BY <1>1, <1>4
  DEF IInv, DeletedIsIdle, BestIsThere, ScheduleHasBest, TurnsBegin, LeftAllDone, QuietSince
<1> QED BY <1>3, <1>4, <1>5 DEF IInv

LEMMA ReturnKeeps ==
  ASSUME IInv, NEW t \in running, Return(t) \/ ReturnAtOnce(t)
  PROVE  IInv'
<1>1. /\ UNCHANGED <<pc, turn, all_done, best, deleted, task_id, solved, has_solution>>
      /\ UNCHANGED countVars
      /\ running' = running \ {t} /\ returned' = returned \cup {t}
  BY DEF Return, ReturnAtOnce, Returning, loopVars
<1>2. t.of \in Subsolvers
  BY DEF IInv, TypeOK
<1>3. limit' \in BOOLEAN
  BY AsksAreBoolean DEF IInv, Return, ReturnAtOnce
<1>4. /\ completed' \in [Subsolvers -> BOOLEAN] /\ first_chunk' \in [Subsolvers -> BOOLEAN]
      /\ unsynced' \in [Subsolvers -> BOOLEAN]
  <2>1. CASE Return(t)
    BY <1>2, <2>1 DEF IInv, TypeOK, Return
  <2>2. CASE ReturnAtOnce(t)
    BY <2>2 DEF IInv, TypeOK, ReturnAtOnce, solverVars
  <2> QED BY <2>1, <2>2
<1>5. TypeOK'
  BY <1>1, <1>3, <1>4 DEF IInv, TypeOK, countVars
<1>6. CountsTasks' /\ Tasks' = Tasks
  BY <1>1, CountsReturned DEF IInv
<1>7. DeletedIsIdle' /\ BestIsThere' /\ ScheduleHasBest' /\ TurnsBegin' /\ LeftAllDone'
  BY <1>1, <1>6
  DEF IInv, DeletedIsIdle, BestIsThere, ScheduleHasBest, TurnsBegin, LeftAllDone
<1>8. QuietSince'
  BY <1>1, TaskIsThere DEF QuietSince, Tasks
<1> QED BY <1>5, <1>6, <1>7, <1>8 DEF IInv

LEMMA TaskEndKeeps ==
  ASSUME IInv, NEW t \in returned, TaskEnd(t)
  PROVE  IInv'
<1>1. /\ UNCHANGED <<pc, turn, all_done, best, deleted, task_id, running, unsynced>>
      /\ UNCHANGED solverVars /\ UNCHANGED sharedVars
      /\ returned' = returned \ {t}
  BY DEF TaskEnd, loopVars
<1>2. t.of \in Subsolvers
  BY DEF IInv, TypeOK
<1>3. /\ num_in_flight' = num_in_flight - 1
      /\ num_in_flight_per_subsolvers' = [num_in_flight_per_subsolvers EXCEPT ![t.of] = @ - 1]
  BY DEF TaskEnd, OneLess
<1>4. TypeOK'
  BY <1>1, <1>2, <1>3 DEF IInv, TypeOK, solverVars, sharedVars
<1>5. CountsTasks' /\ Tasks' = Tasks \ {t}
  BY <1>1, <1>2, <1>3, CountsEnded DEF IInv, TypeOK
<1>6. DeletedIsIdle' /\ BestIsThere' /\ ScheduleHasBest' /\ TurnsBegin' /\ LeftAllDone'
  BY <1>1, <1>5
  DEF IInv, DeletedIsIdle, BestIsThere, ScheduleHasBest, TurnsBegin, LeftAllDone
<1>7. QuietSince'
  BY <1>1, TaskIsThere DEF QuietSince, Tasks
<1> QED BY <1>4, <1>5, <1>6, <1>7 DEF IInv

LEMMA InitSatisfies == Init => IInv
<1> SUFFICES ASSUME Init PROVE IInv
  OBVIOUS
<1>1. TypeOK
  <2>1. 1 \in Subsolvers
    BY SubsolversAre
  <2>2. /\ num_in_flight_per_subsolvers \in [Subsolvers -> Int]
        /\ completed \in [Subsolvers -> BOOLEAN] /\ first_chunk \in [Subsolvers -> BOOLEAN]
        /\ unsynced \in [Subsolvers -> BOOLEAN]
    BY DEF Init
  <2> QED BY <2>1, <2>2 DEF Init, TypeOK
<1>2. Tasks = {} /\ \A s \in Subsolvers : Of(s) = {}
  BY DEF Init, Tasks, Of
<1>3. CountsTasks
  BY <1>2, FS_EmptySet DEF Init, CountsTasks
<1> QED BY <1>1, <1>2, <1>3
        DEF Init, IInv, DeletedIsIdle, BestIsThere, ScheduleHasBest, TurnsBegin, QuietSince,
            LeftAllDone

LEMMA NextKeeps == IInv /\ [Next]_vars => IInv'
<1>1. ASSUME IInv, LoopNext PROVE IInv'
  BY <1>1, WaitKeeps, SynchronizeKeeps, ClearKeeps, ChooseKeeps, DecideKeeps, ScheduleKeeps,
     FinishKeeps DEF LoopNext
<1> QED BY <1>1, ReturnKeeps, TaskEndKeeps, SharedKeeps DEF Next
-----------------------------------------------------------------------------
(* What holds in every state of the loop: the counters count, and what         *)
(* all_done promises lasts from the moment it is read until the loop ends.     *)
THEOREM Invariance == Spec => []IInv
BY InitSatisfies, NextKeeps, PTL DEF Spec

(* No task that is still to run or to be counted out belongs to a subsolver    *)
(* that ClearSubsolversThatAreDone reset, and none is generated from one.      *)
THEOREM NoTaskOutlivesItsSubsolver == Spec => []DeletedIsIdle
<1>1. IInv => DeletedIsIdle
  BY DEF IInv
<1> QED BY <1>1, Invariance, PTL

(* NonDeterministicLoop only ends with no task in flight and every subsolver   *)
(* synchronized with what its tasks found.                                     *)
THEOREM NothingLeftBehind == Spec => []LoopEndsSynchronized
<1>1. IInv => LoopEndsSynchronized
  BY DEF IInv, LeftAllDone, QuietSince, LoopEndsSynchronized
<1> QED BY <1>1, Invariance, PTL

=============================================================================

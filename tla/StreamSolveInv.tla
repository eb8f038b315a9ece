--------------------------- MODULE StreamSolveInv ---------------------------
(***************************************************************************)
(* The inductive invariant of StreamSolve: what its safety properties rest *)
(* on.  MCStreamSolve checks it, StreamSolve_proofs proves it.             *)
(***************************************************************************)
EXTENDS StreamSolve

Pulling == {"next", "waiting", "callback", "after_stop", "stop_lock", "stop_body"}
Dropping == {"drop", "fin_lock", "fin_body", "join"}
Searching == {"register", "search", "notify"}
Ended == {"unregister", "publish", "notify_done", "exit", "exited"}
Published == {"notify_done", "exit", "exited"}

(* A handle holds its reference from the start of the stream to the end of its *)
(* finalizer, and its thread lives within that time.                           *)
StreamLife(s) ==
  /\ wpc[s] = "none" <=> pc[s] = "idle"
  /\ s \in handleRefs <=> pc[s] \notin {"idle", "returned"}
  /\ pc[s] = "returned" => wpc[s] = "exited"

StopCallLife(t) ==
  /\ t \in Stoppers => pc[t] \in {"idle", "stop_lock", "stop_body", "returned"}
  /\ pc[t] \in {"stop_lock", "stop_body"} => t \in taskRefs /\ legacy_stopped

LifeInv ==
  /\ \A s \in Streams : StreamLife(s)
  /\ \A t \in Tasks : StopCallLife(t)

(* Whose limit is registered is still between Register and Unregister. *)
LimitInv ==
  active_stream_limit # None =>
    wpc[active_stream_limit] \in {"search", "notify", "unregister"}

(* How a call ended, and where it is. *)
OutcomeAt(s) ==
  /\ outcome[s] = "pending" => pc[s] \in {"idle"} \cup Pulling
  /\ outcome[s] = "final" => pc[s] \in {"next", "drop", "join", "returned"}
  /\ outcome[s] = "finished_error" => pc[s] \in {"drop", "join", "returned"}
  /\ outcome[s] \in {"thrown", "undecodable"} => pc[s] \in Dropping \cup {"returned"}

OutcomeInv == \A s \in Streams : OutcomeAt(s)

(* What RunStream has done by each point of its body. *)
WorkerAt(s) ==
  /\ finished[s] <=> wpc[s] \in Published
  /\ final_response[s] # None <=> wpc[s] \in Ended
  /\ wpc[s] = "none" => found[s] = <<>>

WorkerInv == \A s \in Streams : WorkerAt(s)

(* With an objective each reported solution is better than those before it, *)
(* so the last one is the best.                                             *)
Improving(s) ==
  /\ HasObjective =>
       \A i, j \in 1..Len(found[s]) : i < j => found[s][j] < found[s][i]
  /\ final_response[s] # None => final_response[s] \in BestOf(found[s])

ImprovingInv == \A s \in Streams : Improving(s)

(* What was delivered is the first part of what was found. *)
DeliveredPrefix(s) ==
  /\ Len(delivered[s]) <= Len(found[s])
  /\ \A i \in 1..Len(delivered[s]) : delivered[s][i] = found[s][i]

(* The queue holds the rest of it, then the final response. *)
Undelivered(s) == Len(found[s]) - Len(delivered[s])

QueueHoldsRest(s) ==
  /\ Len(queue[s]) = IF finished[s] THEN Undelivered(s) + 1 ELSE Undelivered(s)
  /\ \A i \in 1..Undelivered(s) :
       queue[s][i] = Update(FALSE, found[s][Len(delivered[s]) + i])
  /\ finished[s] => queue[s][Undelivered(s) + 1] = Update(TRUE, final_response[s])

(* Nothing is left of it. *)
AllDelivered(s) ==
  /\ finished[s]
  /\ queue[s] = <<>>
  /\ delivered[s] = found[s]
  /\ result[s] = final_response[s]

QueueAt(s) ==
  /\ DeliveredPrefix(s)
  /\ outcome[s] = "pending" => QueueHoldsRest(s)
  /\ outcome[s] \in {"final", "finished_error"} => AllDelivered(s)

QueueInv == \A s \in Streams : QueueAt(s)

(* While callers run one stream at a time, a search that runs is the one whose *)
(* limit is registered: no other stream's Register or Unregister took its      *)
(* place, so a stop reaches it.                                                *)
Running(s) == pc[s] \notin {"idle", "returned"}

Alone == \A r, s \in Streams : Running(r) /\ Running(s) => r = s

SearchIsRegistered(s) ==
  wpc[s] \in {"search", "notify", "unregister"} => active_stream_limit = s
SearchIsTold(s) == stopped /\ wpc[s] \in {"search", "notify"} => limit[s]

ExclusiveInv ==
  OneAtATime => Alone /\ \A s \in Streams : SearchIsRegistered(s) /\ SearchIsTold(s)

(* The conjunction that every step preserves. *)
IInv ==
  /\ TypeOK
  /\ LifeInv
  /\ LimitInv
  /\ OutcomeInv
  /\ WorkerInv
  /\ ImprovingInv
  /\ QueueInv
  /\ OnlyEarlyDropStops
  /\ ExclusiveInv

=============================================================================

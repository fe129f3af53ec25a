----------------------------- MODULE MCIdleLoop -----------------------------
(***************************************************************************)
(* Sleeping, waking and stopping on small instances.                       *)
(***************************************************************************)
EXTENDS IdleLoop

(* A fiber or callback is executed that has not registered its next wait.    *)
Executing(t) == pc[t] \in {"exec", "tickle", "call"}

(* What stopping() asks about accounts for every fiber that was scheduled    *)
(* and has not ended, while timers and events hand it over from one part to  *)
(* another and possibly before it has left its stack (iomanager.cpp:123-129, *)
(* 456-457): it is in m_fibers, or a timer is listed for it, or its event is *)
(* registered and counted as pending, or a thread that executes it is        *)
(* counted as active.  The one gap is a batch of expired timers, and the     *)
(* thread that has it counts as idle and is not done with idle().            *)
SeenByStopping ==
  TypeOK /\ \A j \in submitted \ finished :
    \/ j \in queue \cup calls \cup timers
    \/ j \in fdEvents /\ pending > 0
    \/ \E t \in Threads :
         /\ j \in job[t]
         /\ \/ Executing(t) /\ active > 0
            \/ pc[t] = "batch" /\ idle > 0 /\ ~idleTerm[t]

(* stopping() reads timers, events and queue one after the other while jobs  *)
(* move between them, so threads may leave too early; but all have left only *)
(* when nothing is queued, executed or collected (iomanager.cpp:123-129).    *)
LastLeavesNoneRunnable ==
  (\A t \in Threads : idleTerm[t])
    => NoEntry /\ \A t \in Threads : pc[t] \in {"settle", "pop", "exited"}

(* An idle fiber that is TERM means that all the tasks are complete (the     *)
(* comment at scheduler.cpp:270): with the last one, nothing waits either.   *)
LastLeavesNothing ==
  (\A t \in Threads : idleTerm[t]) => NoEntry /\ timers = {} /\ fdEvents = {}

(* A queued fiber or callback is executed, whatever tickles were lost.       *)
QueueIsServed ==
  \A j \in Jobs : (j \in queue ~> j \notin queue) /\ (j \in calls ~> j \notin calls)

(* After stop(), once nothing is left to wait for, every thread leaves.      *)
StopEnds == (stopping /\ timers = {} /\ fdEvents = {}) ~>
              (AllExited \/ timers # {} \/ fdEvents # {})
=============================================================================

----------------------------- MODULE MCScheduler -----------------------------
(***************************************************************************)
(* The scheduler on small instances, and what is asked of it.              *)
(***************************************************************************)
EXTENDS Scheduler

(* Threads between taking an entry and giving up their place in the count.   *)
Holding == {t \in Threads : pc[t] \in {"dispatch", "body", "hold", "yield", "back"}}

(* m_activeThreadCount and m_idleThreadCount never drift from the number of  *)
(* threads that hold an entry or idle: stopping() and tickle() decide on     *)
(* these counters alone (scheduler.cpp:207-281).                             *)
CountersExact ==
  /\ active = Cardinality(Holding)
  /\ idle = Cardinality({t \in Threads : pc[t] = "idle"})

(* The entry that run() takes never names a fiber some thread is still       *)
(* executing (the comment at scheduler.cpp:199), so that swapIn() continues  *)
(* it from the point where it stopped and not from an older one.             *)
ResumesStoppedFiber ==
  \A t \in Threads :
    LET f == ft[t].fiber IN
    pc[t] = "dispatch" /\ f # None /\ ~Finished(f) => fiber[f].saved

(* The assertion of swapIn() (fiber.cpp:138), its precondition in fiber.h:73.*)
SwapInAssertion ==
  \A t \in Threads :
    pc[t] = "dispatch" /\ ft[t].fiber # None => fiber[ft[t].fiber].state # "EXEC"

(* run() resets cb_fiber for the next callback only while nobody uses it:    *)
(* the precondition of Fiber::reset (fiber.h:66, fiber.cpp:116).             *)
ResetsUnusedFiber ==
  \A t \in Threads :
    pc[t] = "dispatch" /\ ft[t].cb # None /\ cbFiber[t] # None
      => fiber[cbFiber[t]].state \in {"INIT", "TERM", "EXCEPT"}

(* Somebody is left who will continue the fiber: an entry of the queue, a    *)
(* thread that handles it, or its waker.                                     *)
Continued(f) ==
  \/ \E i \in 1..Len(queue) : queue[i].fiber = f
  \/ \E t \in Threads : /\ pc[t] \in {"dispatch", "body", "hold", "yield"}
                        /\ Handled(t) = f
  \/ \E t \in Threads : /\ pc[t] \in {"back", "settle"} /\ Handled(t) = f
                        /\ fiber[f].state = "READY"
  \/ f \in waiting

(* A callback given to schedule() is never dropped before it has ended.      *)
NoJobLost ==
  \A j \in submitted \ done :
    \/ \E i \in 1..Len(queue) : queue[i].cb = j
    \/ \E t \in Threads : ft[t].cb = j
    \/ \E f \in Fibers : fiber[f].cb = j /\ Continued(f)

(* stop() returns only when every callback given to the scheduler has ended. *)
StopIsClean == main = "stopped" => done = submitted /\ queue = <<>>

(* A callback that ended is not executed again.                              *)
NoReexecution ==
  \A t \in Threads : pc[t] = "body" => fiber[cur[t]].cb \notin done

(* stop() returns once it has been called.                                   *)
StopReturns == main = "root" ~> main = "stopped"

(* Every callback given to a started scheduler is executed to its end, also  *)
(* when it is bound to a worker that must take it from behind entries of     *)
(* others.  (One bound to the caller has to wait for stop(): no other call   *)
(* brings the caller thread into run().)                                     *)
EveryJobEnds == \A j \in Jobs : (j \in submitted /\ main # "new") ~> j \in done
=============================================================================

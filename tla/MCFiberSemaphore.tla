-------------------------- MODULE MCFiberSemaphore --------------------------
(* The scheduler and a semaphore on a small instance.                       *)
EXTENDS FiberSemaphore, MCScheduler

(* FiberSemaphore (mutex.cpp:47-89): a permit is in m_concurrency or with    *)
(* one fiber whose callback has not ended, also while it is handed to a      *)
(* fiber that has not run since, and none is left in m_concurrency while     *)
(* somebody waits for it, although a waiter queues itself and yields in two  *)
(* steps and another thread may notify it, resume it and write its state in  *)
(* between.                                                                  *)
PermitsConserved ==
  /\ SemTypeOK
  /\ concurrency + Cardinality(holders) = Permits
  /\ waiters # <<>> => concurrency = 0
  /\ \A i \in 1..Len(waiters) : waiters[i] \in waiting \ holders
  /\ \A f \in holders : fiber[f].cb \in Users \ done

(* A callback that waits for a permit other fibers of the pool hold gets it  *)
(* and ends, also when stop() is called meanwhile: stopping() does not count *)
(* the waiters, but cannot hold before the holder has scheduled them.  The   *)
(* exception: on two threads the late write of HOLD (scheduler.cpp:229) may  *)
(* reach a fiber that is a cb_fiber again, and the assertion of reset stops  *)
(* that thread (three callbacks in cb_fibers are needed for it).             *)
EveryUserEnds ==
  \A j \in Users : (j \in submitted /\ main # "new") ~> (j \in done \/ ~ResetsUnusedFiber)
=============================================================================

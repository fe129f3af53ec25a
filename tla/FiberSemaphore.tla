--------------------------- MODULE FiberSemaphore ---------------------------
(***************************************************************************)
(* FiberSemaphore of sylar_server/mutex.{h,cpp} on the scheduler whose     *)
(* fibers it parks and schedules again.                                    *)
(*                                                                         *)
(* Callbacks in Users take a permit and give it back before they end; the  *)
(* others may wait for outside wakers.  wait() has no loop around its      *)
(* yield: it takes whoever schedules the fiber for the notifier.  So here  *)
(* nothing but a waker schedules a fiber again: a callback that schedules  *)
(* itself or yields with READY can leave a second entry of its fiber (the  *)
(* late write of HOLD in run() lets two threads queue it), and that entry  *)
(* resumes a waiter, or the next callback in a cb_fiber, without a permit. *)
(***************************************************************************)
EXTENDS Scheduler

CONSTANTS
  Users,        (* those of Jobs that use the semaphore                     *)
  Permits       (* initial_concurrency                                      *)

ASSUME SemaphoreAssumption == Users \subseteq Jobs /\ Permits \in Nat

VARIABLES
  concurrency,  (* m_concurrency                                            *)
  waiters,      (* m_waiters: the fibers, all of this scheduler             *)
  holders       (* fibers that were granted a permit and have not notified  *)

semVars == <<concurrency, waiters, holders>>
schedulerVars == vars

SemTypeOK ==
  /\ TypeOK
  /\ concurrency \in 0..Permits
  /\ waiters \in Seq(Fibers) /\ holders \subseteq Fibers

SemInit == Init /\ concurrency = Permits /\ waiters = <<>> /\ holders = {}

IsUser(t) == pc[t] = "body" /\ fiber[cur[t]].cb \in Users

Granted(f) == holders' = holders \cup {f}

(* wait() and tryWait() with a permit left.                                  *)
Acquire(t) ==
  /\ InBody(t, "wait") /\ UseOp /\ IsUser(t) /\ cur[t] \notin holders
  /\ concurrency > 0 /\ concurrency' = concurrency - 1
  /\ Granted(cur[t])
  /\ UNCHANGED <<queue, fiberVars, pc, localVars, countVars, stopVars, submitted, done,
                 waiting, waiters>>

(* wait() without: the fiber is queued under the lock and yields after it.   *)
Enqueue(t) ==
  /\ Wait(t) /\ IsUser(t) /\ cur[t] \notin holders
  /\ concurrency = 0
  /\ waiters' = Append(waiters, cur[t])
  /\ UNCHANGED <<concurrency, holders>>

(* Mutant: the permit is counted also when it is handed over.                *)
HandOverCounted(t) ==
  /\ InBody(t, "wait") /\ cur[t] \in holders
  /\ waiters # <<>> /\ waiters' = Tail(waiters)
  /\ Wake(Head(waiters))
  /\ holders' = (holders \ {cur[t]}) \cup {Head(waiters)}
  /\ concurrency' = concurrency + 1

(* notify(): the first waiter gets the permit and is scheduled ...           *)
HandOver(t) ==
  /\ InBody(t, "wait") /\ cur[t] \in holders
  /\ waiters # <<>> /\ waiters' = Tail(waiters)
  /\ Wake(Head(waiters))
  /\ holders' = (holders \ {cur[t]}) \cup {Head(waiters)}
  /\ UNCHANGED concurrency

(* Mutant: the waiters are not asked.                                        *)
PutBackFirst(t) ==
  /\ InBody(t, "wait") /\ cur[t] \in holders
  /\ concurrency' = concurrency + 1 /\ holders' = holders \ {cur[t]}
  /\ UNCHANGED <<schedulerVars, waiters>>

(* ... or, without one, the permit is left for the next wait().              *)
PutBack(t) ==
  /\ InBody(t, "wait") /\ cur[t] \in holders
  /\ waiters = <<>>
  /\ concurrency' = concurrency + 1 /\ holders' = holders \ {cur[t]}
  /\ UNCHANGED <<schedulerVars, waiters>>

(* The steps of a callback that do not touch the semaphore.                  *)
OtherBody(t) ==
  /\ \/ \E j \in Jobs, p \in SpawnPins : Spawn(t, j, p)
     \/ ~IsUser(t) /\ Wait(t)
     \/ YieldToHold(t) \/ SwapOut(t)
     \/ cur[t] \notin holders /\ (Return(t) \/ Throw(t))
  /\ UNCHANGED semVars

SemBody(t) == OtherBody(t) \/ Acquire(t) \/ Enqueue(t) \/ HandOver(t) \/ PutBack(t)

SemNext ==
  \/ (Main \/ \E j \in Jobs, p \in Pins : Schedule(j, p)) /\ UNCHANGED semVars
  \/ \E t \in Threads : (Run(t) /\ UNCHANGED semVars) \/ SemBody(t)
  \/ \E f \in Fibers \ {waiters[i] : i \in 1..Len(waiters)} : Wake(f) /\ UNCHANGED semVars
  \/ Terminated /\ UNCHANGED semVars

semSpecVars == <<vars, semVars>>

SemSpec == SemInit /\ [][SemNext]_semSpecVars

(* As for the scheduler; a callback ends, so it notifies before.             *)
SemFairSpec ==
  /\ SemSpec
  /\ WF_semSpecVars((StopRoot \/ Join) /\ UNCHANGED semVars)
  /\ \A t \in Threads :
       /\ WF_semSpecVars(Run(t) /\ UNCHANGED semVars)
       /\ WF_semSpecVars(SemBody(t))
=============================================================================

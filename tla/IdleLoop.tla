------------------------------ MODULE IdleLoop ------------------------------
(***************************************************************************)
(* When threads of an IOManager sleep, wake and stop: run() of             *)
(* sylar_server/scheduler.cpp around IOManager::idle, tickle and stopping  *)
(* of sylar_server/iomanager.cpp.                                          *)
(*                                                                         *)
(* Jobs stand for fibers: one is queued, executed, and may then wait for a *)
(* timer or for an fd event before it is queued again, by another thread   *)
(* and possibly before it has left the stack of the first.  What becomes   *)
(* of its context then is in module Scheduler, the details of timers are   *)
(* in TimerManager and those of events in IOManager; here the subject is   *)
(* the sleep in epoll_wait, the tickle pipe and the reads of stopping().   *)
(***************************************************************************)
EXTENDS Naturals, FiniteSets

CONSTANTS
  Threads,      (* the pool                                                 *)
  Jobs,         (* fibers                                                   *)
  MaxWaits      (* bound: how often the jobs wait, in all                   *)

ASSUME IdleAssumption ==
  /\ IsFiniteSet(Threads) /\ Threads # {}
  /\ MaxWaits \in Nat

VARIABLES
  queue,        (* jobs whose fiber is in m_fibers                          *)
  calls,        (* jobs whose timer's callback is in m_fibers               *)
  timers,       (* jobs a timer will call back for: m_timers                *)
  fdEvents,     (* jobs an fd event will schedule                           *)
  pending,      (* m_pendingEventCount                                      *)
  submitted,    (* jobs that were ever scheduled                            *)
  finished,     (* jobs that ended: TERM                                    *)
  exec,         (* jobs whose m_state is EXEC                               *)
  waitsLeft,    (* what is left of MaxWaits                                 *)
  pc,           (* where each thread is                                     *)
  job,          (* the jobs a thread has in hand: that of the fiber or      *)
                (* callback it executes, or of its local cbs                *)
  idleTerm,     (* the thread's idle fiber is TERM                          *)
  active,       (* m_activeThreadCount                                      *)
  idle,         (* m_idleThreadCount                                        *)
  stopping,     (* m_stopping and m_autoStop, both set by stop()            *)
  pipe,         (* bytes are in the tickle pipe                             *)
  edge,         (* kernel: the pipe is due to be reported to one thread     *)
  tickled       (* per thread: its epoll_wait returned the pipe             *)

entries == <<queue, calls>>
waitVars == <<timers, fdEvents, pending, waitsLeft>>
stateVars == <<submitted, finished, exec>>
counters == <<active, idle, stopping>>
pipeVars == <<pipe, edge, tickled>>
vars == <<entries, waitVars, stateVars, pc, job, idleTerm, counters, pipeVars>>

PCs == {"pop", "exec", "tickle", "call", "inserted", "hold", "swap", "settle",
        "goidle", "timers?", "events?", "queue?", "wait", "collect", "batch", "drain",
        "count", "exited"}

TypeOK ==
  /\ queue \subseteq Jobs /\ calls \subseteq Jobs
  /\ timers \subseteq Jobs /\ fdEvents \subseteq Jobs
  /\ pending \in Nat /\ waitsLeft \in Nat
  /\ submitted \subseteq Jobs /\ finished \subseteq Jobs /\ exec \subseteq Jobs
  /\ pc \in [Threads -> PCs]
  /\ job \in [Threads -> SUBSET Jobs]
  /\ idleTerm \in [Threads -> BOOLEAN]
  /\ active \in Nat /\ idle \in Nat
  /\ stopping \in BOOLEAN /\ pipe \in BOOLEAN /\ edge \in BOOLEAN
  /\ tickled \in [Threads -> BOOLEAN]

Init ==
  /\ queue = {} /\ calls = {} /\ timers = {} /\ fdEvents = {} /\ pending = 0
  /\ submitted = {} /\ finished = {} /\ exec = {}
  /\ waitsLeft = MaxWaits
  /\ pc = [t \in Threads |-> "pop"]
  /\ job = [t \in Threads |-> {}]
  /\ idleTerm = [t \in Threads |-> FALSE]
  /\ active = 0 /\ idle = 0
  /\ stopping = FALSE /\ pipe = FALSE /\ edge = FALSE
  /\ tickled = [t \in Threads |-> FALSE]

GoTo(t, from, to) == pc[t] = from /\ pc' = [pc EXCEPT ![t] = to]

NoEntry == queue = {} /\ calls = {}

(* IOManager::tickle(): a byte for the pipe, if any thread idles.            *)
Tickle ==
  /\ pipe' = (pipe \/ idle > 0)
  /\ edge' = (edge \/ idle > 0)
  /\ UNCHANGED tickled

(* schedule(): a list that was empty needs a tickle.                         *)
TickleIfEmpty == IF NoEntry THEN Tickle ELSE UNCHANGED pipeVars
-----------------------------------------------------------------------------
(* schedule() of a fiber, under m_mutex.                                     *)
Enqueue(js) == queue' = queue \cup js /\ UNCHANGED calls

(* A fiber that was never scheduled before is.                               *)
Submit(j) ==
  /\ j \in Jobs \ submitted /\ submitted' = submitted \cup {j}
  /\ Enqueue({j})
  /\ UNCHANGED <<finished, exec>>

(* schedule() by a thread outside the pool, and its tickle.                  *)
OwnerSchedules(j) ==
  /\ ~stopping
  /\ Submit(j)
  /\ TickleIfEmpty
  /\ UNCHANGED <<waitVars, pc, job, idleTerm, counters>>

(* stop(): the flags, then a tickle for each thread; they coalesce.          *)
Stop ==
  /\ ~stopping /\ stopping' = TRUE
  /\ Tickle
  /\ UNCHANGED <<entries, waitVars, stateVars, pc, job, idleTerm, active, idle>>
-----------------------------------------------------------------------------
(* run(): a queued fiber that is not EXEC is taken and swapped in, ...       *)
Take(t, j) ==
  /\ GoTo(t, "pop", "exec")
  /\ j \in queue \ exec /\ queue' = queue \ {j}
  /\ exec' = exec \cup {j}
  /\ job' = [job EXCEPT ![t] = {j}]
  /\ active' = active + 1
  /\ UNCHANGED <<calls, waitVars, submitted, finished, idleTerm, idle, stopping, pipeVars>>

(* ... or a timer's callback, for which there is cb_fiber, ...               *)
TakeCall(t, j) ==
  /\ GoTo(t, "pop", "call")
  /\ j \in calls /\ calls' = calls \ {j}
  /\ job' = [job EXCEPT ![t] = {j}]
  /\ active' = active + 1
  /\ UNCHANGED <<queue, waitVars, stateVars, idleTerm, idle, stopping, pipeVars>>

(* ... or there is none; with the idle fiber TERM the loop is left ...       *)
FindNothing(t) ==
  /\ GoTo(t, "pop", IF idleTerm[t] THEN "exited" ELSE "goidle")
  /\ queue \subseteq exec /\ calls = {}
  /\ UNCHANGED <<entries, waitVars, stateVars, job, idleTerm, counters, pipeVars>>

(* ... and otherwise, without the lock, the thread counts itself as idle.    *)
EnterIdle(t) ==
  /\ GoTo(t, "goidle", "timers?")
  /\ idle' = idle + 1
  /\ UNCHANGED <<entries, waitVars, stateVars, job, idleTerm, active, stopping, pipeVars>>

(* The fiber schedules another one: the entry first, the tickle later.       *)
Spawn(t, j) ==
  /\ GoTo(t, "exec", IF NoEntry THEN "tickle" ELSE "exec")
  /\ Submit(j)
  /\ UNCHANGED <<waitVars, job, idleTerm, counters, pipeVars>>

(* The callback of a fiber's timer schedules the fiber and ends.             *)
CallSchedules(t) ==
  /\ GoTo(t, "call", IF NoEntry THEN "tickle" ELSE "swap")
  /\ Enqueue(job[t])
  /\ job' = [job EXCEPT ![t] = {}]
  /\ UNCHANGED <<waitVars, stateVars, idleTerm, counters, pipeVars>>

LateTickle(t) ==
  /\ GoTo(t, "tickle", IF job[t] = {} THEN "swap" ELSE "exec")
  /\ Tickle
  /\ UNCHANGED <<entries, waitVars, stateVars, job, idleTerm, counters>>

(* addTimer(), with onTimerInsetedAtFront() to come if it is the first one:  *)
(* from here on the fiber may be queued, though it has not left its stack.   *)
WaitForTimer(t) ==
  /\ waitsLeft > 0 /\ waitsLeft' = waitsLeft - 1
  /\ \E to \in {"inserted", "hold"} : GoTo(t, "exec", to)
  /\ timers' = timers \cup job[t]
  /\ UNCHANGED <<entries, fdEvents, pending, stateVars, job, idleTerm, counters, pipeVars>>

FrontTickle(t) ==
  /\ GoTo(t, "inserted", "hold")
  /\ Tickle
  /\ UNCHANGED <<entries, waitVars, stateVars, job, idleTerm, counters>>

(* addEvent(), under the mutex of the fd's context.                          *)
WaitForEvent(t) ==
  /\ waitsLeft > 0 /\ waitsLeft' = waitsLeft - 1
  /\ GoTo(t, "exec", "hold")
  /\ fdEvents' = fdEvents \cup job[t] /\ pending' = pending + 1
  /\ UNCHANGED <<entries, timers, stateVars, job, idleTerm, counters, pipeVars>>

(* YieldToHold: the state changes, then the fiber leaves its stack.          *)
Hold(t) ==
  /\ GoTo(t, "hold", "swap")
  /\ exec' = exec \ job[t]
  /\ UNCHANGED <<entries, waitVars, submitted, finished, job, idleTerm, counters, pipeVars>>

(* The fiber's function returns.                                             *)
Finish(t) ==
  /\ GoTo(t, "exec", "swap")
  /\ finished' = finished \cup job[t] /\ exec' = exec \ job[t]
  /\ UNCHANGED <<entries, waitVars, submitted, job, idleTerm, counters, pipeVars>>

(* Mutant: m_activeThreadCount stays as it was.                              *)
PutAwayUncounted(t) ==
  /\ GoTo(t, "swap", "settle")
  /\ UNCHANGED <<entries, waitVars, stateVars, job, idleTerm, counters, pipeVars>>

(* swapOut(): swapIn() returns in run(), and the thread gives up its place   *)
(* in m_activeThreadCount ...                                                *)
PutAway(t) ==
  /\ GoTo(t, "swap", "settle")
  /\ active' = active - 1
  /\ UNCHANGED <<entries, waitVars, stateVars, job, idleTerm, idle, stopping, pipeVars>>

(* ... before it writes HOLD, over whatever another thread wrote meanwhile.  *)
Settle(t) ==
  /\ GoTo(t, "settle", "pop")
  /\ exec' = exec \ job[t]
  /\ job' = [job EXCEPT ![t] = {}]
  /\ UNCHANGED <<entries, waitVars, submitted, finished, idleTerm, counters, pipeVars>>
-----------------------------------------------------------------------------
(* stopping() reads the timers, the pending events and, under m_mutex, the   *)
(* state of the scheduler, one after the other; what it read first may have  *)
(* changed when it reads the last.                                           *)
ReadTimers(t) ==
  /\ GoTo(t, "timers?", IF timers = {} THEN "events?" ELSE "wait")
  /\ UNCHANGED <<entries, waitVars, stateVars, job, idleTerm, counters, pipeVars>>

ReadEvents(t) ==
  /\ GoTo(t, "events?", IF pending = 0 THEN "queue?" ELSE "wait")
  /\ UNCHANGED <<entries, waitVars, stateVars, job, idleTerm, counters, pipeVars>>

(* Mutant: m_activeThreadCount is not asked.                                 *)
StoppingWhileActive == stopping /\ NoEntry

(* Scheduler::stopping().                                                    *)
SchedulerStopping == stopping /\ NoEntry /\ active = 0

Sleep(t) ==
  /\ ~SchedulerStopping
  /\ GoTo(t, "queue?", "wait")
  /\ UNCHANGED <<entries, waitVars, stateVars, job, idleTerm, counters, pipeVars>>

(* idle() returns, and run() is back at its top.                             *)
LeaveIdleForGood(t) ==
  /\ SchedulerStopping
  /\ GoTo(t, "queue?", "pop")
  /\ idleTerm' = [idleTerm EXCEPT ![t] = TRUE]
  /\ idle' = idle - 1
  /\ UNCHANGED <<entries, waitVars, stateVars, job, active, stopping, pipeVars>>

(* epoll_wait returns the tickle pipe to one thread ...                      *)
WakeByTickle(t) ==
  /\ GoTo(t, "wait", "collect")
  /\ edge /\ edge' = FALSE
  /\ tickled' = [tickled EXCEPT ![t] = TRUE]
  /\ UNCHANGED <<entries, waitVars, stateVars, job, idleTerm, counters, pipe>>

(* Mutant: epoll_wait without a timeout.                                     *)
WakeByEventOnly(t) ==
  /\ fdEvents # {}
  /\ GoTo(t, "wait", "collect")
  /\ UNCHANGED <<entries, waitVars, stateVars, job, idleTerm, counters, pipeVars>>

(* ... or an fd, or nothing after at most MAX_TIMEOUT.                       *)
WakeByEventOrTimeout(t) ==
  /\ GoTo(t, "wait", "collect")
  /\ UNCHANGED <<entries, waitVars, stateVars, job, idleTerm, counters, pipeVars>>

(* listExpiredCb: the timers that are due.                                   *)
CollectTimers(t, due) ==
  /\ GoTo(t, "collect", "batch")
  /\ timers' = timers \ due
  /\ job' = [job EXCEPT ![t] = due]
  /\ UNCHANGED <<entries, fdEvents, pending, waitsLeft, stateVars, idleTerm, counters, pipeVars>>

(* schedule(begin, end) of the callbacks, with one tickle.                   *)
ScheduleBatch(t) ==
  /\ GoTo(t, "batch", "drain")
  /\ calls' = calls \cup job[t]
  /\ job' = [job EXCEPT ![t] = {}]
  /\ IF job[t] # {} THEN TickleIfEmpty ELSE UNCHANGED pipeVars
  /\ UNCHANGED <<queue, waitVars, stateVars, idleTerm, counters>>

(* The array of epoll_wait is handled: the pipe is read until it is empty,   *)
DrainPipe(t) ==
  /\ pc[t] = "drain" /\ tickled[t]
  /\ tickled' = [tickled EXCEPT ![t] = FALSE]
  /\ pipe' = FALSE /\ edge' = FALSE
  /\ UNCHANGED <<entries, waitVars, stateVars, pc, job, idleTerm, counters>>

(* Mutant: m_pendingEventCount drops before the waiter is scheduled.         *)
CountedDownFirst(t, j) ==
  /\ GoTo(t, "drain", "count")
  /\ j \in fdEvents /\ pending' = pending - 1
  /\ UNCHANGED <<entries, timers, fdEvents, waitsLeft, stateVars, job, idleTerm, counters,
                 pipeVars>>

(* triggerEvent: a ready fd's waiter is scheduled, ...                       *)
TriggerEvent(t, j) ==
  /\ GoTo(t, "drain", "count")
  /\ j \in fdEvents /\ fdEvents' = fdEvents \ {j}
  /\ Enqueue({j})
  /\ TickleIfEmpty
  /\ UNCHANGED <<timers, pending, waitsLeft, stateVars, job, idleTerm, counters>>

(* ... and only then m_pendingEventCount drops.                              *)
CountDown(t) ==
  /\ GoTo(t, "count", "drain")
  /\ pending' = pending - 1
  /\ UNCHANGED <<entries, timers, fdEvents, waitsLeft, stateVars, job, idleTerm, counters,
                 pipeVars>>

(* swapOut() of the idle fiber.                                              *)
LeaveIdle(t) ==
  /\ GoTo(t, "drain", "pop")
  /\ ~tickled[t]
  /\ idle' = idle - 1
  /\ UNCHANGED <<entries, waitVars, stateVars, job, idleTerm, active, stopping, pipeVars>>
-----------------------------------------------------------------------------
(* run() and the fiber or callback it executes, ...                          *)
Runs(t) ==
  \/ \E j \in Jobs : Take(t, j) \/ TakeCall(t, j) \/ Spawn(t, j)
  \/ FindNothing(t) \/ CallSchedules(t) \/ LateTickle(t)
  \/ WaitForTimer(t) \/ FrontTickle(t) \/ WaitForEvent(t)
  \/ Hold(t) \/ Finish(t) \/ PutAway(t) \/ Settle(t)

(* ... and the idle fiber.                                                   *)
Idles(t) ==
  \/ EnterIdle(t) \/ ReadTimers(t) \/ ReadEvents(t) \/ Sleep(t) \/ LeaveIdleForGood(t)
  \/ WakeByTickle(t) \/ WakeByEventOrTimeout(t)
  \/ \E due \in SUBSET timers : CollectTimers(t, due)
  \/ ScheduleBatch(t) \/ DrainPipe(t) \/ LeaveIdle(t)
  \/ (\E j \in Jobs : TriggerEvent(t, j)) \/ CountDown(t)

Step(t) == Runs(t) \/ Idles(t)

AllExited == \A t \in Threads : pc[t] = "exited"

Terminated == AllExited /\ UNCHANGED vars

Next ==
  \/ Stop
  \/ \E j \in Jobs : OwnerSchedules(j)
  \/ \E t \in Threads : Step(t)
  \/ Terminated

Spec == Init /\ [][Next]_vars

(* The kernel runs every thread, and epoll_wait returns at the latest after  *)
(* MAX_TIMEOUT; timers and events need not come.                             *)
FairSpec == Spec /\ \A t \in Threads : WF_vars(Step(t))
=============================================================================

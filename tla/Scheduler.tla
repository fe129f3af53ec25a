------------------------------ MODULE Scheduler ------------------------------
(***************************************************************************)
(* The N-M fiber scheduler: sylar_server/scheduler.{h,cpp} together with   *)
(* the context switches of sylar_server/fiber.cpp it is built on.          *)
(*                                                                         *)
(* Every thread of the pool runs Scheduler::run: it takes the first entry  *)
(* of m_fibers it may execute, switches to the fiber (a callback gets the  *)
(* thread's own cb_fiber), and puts away the fiber when it comes back.     *)
(* With nothing to take it runs the idle fiber, which ends once stopping() *)
(* holds.  The steps of run, of a yield and of stop are separate actions   *)
(* wherever another thread can act between them.                           *)
(***************************************************************************)
EXTENDS Naturals, FiniteSets, SequencesExt

CONSTANTS
  Workers,      (* threads that start() creates                             *)
  Caller,       (* the constructing thread under use_caller, or None        *)
  Fibers,       (* fiber objects, reused when nothing refers to them        *)
  Jobs,         (* callbacks given to the scheduler, each submitted once    *)
  FiberJobs,    (* those of Jobs submitted inside a user-made Fiber         *)
  Pins,         (* thread arguments given to schedule(); None is -1         *)
  SpawnPins,    (* those of Pins that callbacks give                        *)
  Ops,          (* what the callbacks do: a subset of OpNames               *)
  MaxOps,       (* bound: calls that yield or reschedule, over all jobs     *)
  None          (* a null pointer, or thread -1                             *)

OpNames == {"spawn", "ready", "wait", "switch", "again", "throw"}

Threads == Workers \cup ({Caller} \ {None})

ASSUME SchedulerAssumption ==
  /\ Threads # {}
  /\ IsFiniteSet(Threads)
  /\ Caller \notin Workers
  /\ None \notin Workers \cup Fibers \cup Jobs
  /\ FiberJobs \subseteq Jobs
  /\ Pins \subseteq Threads \cup {None}
  /\ SpawnPins \subseteq Pins
  /\ Ops \subseteq OpNames
  /\ MaxOps \in Nat

VARIABLES
  queue,        (* m_fibers                                                 *)
  fiber,        (* of each Fiber: m_state, m_cb, and whether m_ctx is the   *)
                (* point at which the fiber last stopped                    *)
  pc,           (* where each thread is in run()                            *)
  ft,           (* the local ft of run(), reset once it is dealt with       *)
  cbFiber,      (* the local cb_fiber of run()                              *)
  cur,          (* the fiber whose stack the thread is on, None in run()    *)
  idleTerm,     (* the thread's idle fiber is TERM                          *)
  active,       (* m_activeThreadCount                                      *)
  idle,         (* m_idleThreadCount                                        *)
  autoStop,     (* m_autoStop                                               *)
  stopping,     (* m_stopping                                               *)
  main,         (* where the owner of the scheduler is: start, stop, join   *)
  submitted,    (* jobs given to schedule() so far                          *)
  done,         (* jobs whose callback returned or threw                    *)
  waiting,      (* fibers some event, timer or semaphore will schedule      *)
  opsLeft       (* what is left of MaxOps                                   *)

fiberVars == <<fiber, cur>>
localVars == <<ft, cbFiber, idleTerm>>
countVars == <<active, idle>>
stopVars  == <<autoStop, stopping, main>>
jobVars   == <<submitted, done, waiting, opsLeft>>
vars == <<queue, fiberVars, pc, localVars, countVars, stopVars, jobVars>>

States  == {"INIT", "EXEC", "READY", "HOLD", "TERM", "EXCEPT"}
Entry   == [fiber : Fibers \cup {None}, cb : Jobs \cup {None},
            thread : Threads \cup {None}]
PCs     == {"off", "pop", "dispatch", "body", "hold", "yield", "back",
            "settle", "sethold", "idle", "exited"}

NoEntry == [fiber |-> None, cb |-> None, thread |-> None]
FiberEntry(f, p) == [fiber |-> f, cb |-> None, thread |-> p]
CbEntry(j, p)    == [fiber |-> None, cb |-> j, thread |-> p]

Finished(f) == fiber[f].state \in {"TERM", "EXCEPT"}

(* No shared_ptr to the fiber is left: a fiber that yielded keeps itself     *)
(* alive from its own stack, so only the others can be reused.               *)
FreeFibers ==
  {f \in Fibers : /\ fiber[f].state \in {"INIT", "TERM", "EXCEPT"}
                  /\ f \notin waiting
                  /\ \A i \in 1..Len(queue) : queue[i].fiber # f
                  /\ \A t \in Threads : f \notin {ft[t].fiber, cbFiber[t], cur[t]}}

NewFiber == CHOOSE f \in FreeFibers : TRUE

(* The fiber run() is busy with: ft.fiber, or cb_fiber for a callback.       *)
Handled(t) == IF ft[t].fiber # None THEN ft[t].fiber ELSE cbFiber[t]

GoTo(t, from, to) == pc[t] = from /\ pc' = [pc EXCEPT ![t] = to]

TypeOK ==
  /\ queue \in Seq(Entry)
  /\ fiber \in [Fibers -> [state : States, cb : Jobs \cup {None}, saved : BOOLEAN]]
  /\ pc \in [Threads -> PCs]
  /\ ft \in [Threads -> Entry]
  /\ cbFiber \in [Threads -> Fibers \cup {None}]
  /\ cur \in [Threads -> Fibers \cup {None}]
  /\ idleTerm \in [Threads -> BOOLEAN]
  /\ active \in Nat /\ idle \in Nat
  /\ autoStop \in BOOLEAN /\ stopping \in BOOLEAN
  /\ main \in {"new", "running", "root", "join", "stopped"}
  /\ submitted \subseteq Jobs /\ done \subseteq Jobs
  /\ waiting \subseteq Fibers
  /\ opsLeft \in Nat

Init ==
  /\ queue = <<>>
  /\ fiber = [f \in Fibers |-> [state |-> "INIT", cb |-> None, saved |-> TRUE]]
  /\ pc = [t \in Threads |-> "off"]
  /\ ft = [t \in Threads |-> NoEntry]
  /\ cbFiber = [t \in Threads |-> None]
  /\ cur = [t \in Threads |-> None]
  /\ idleTerm = [t \in Threads |-> FALSE]
  /\ active = 0 /\ idle = 0
  /\ autoStop = FALSE /\ stopping = TRUE /\ main = "new"
  /\ submitted = {} /\ done = {} /\ waiting = {}
  /\ opsLeft = MaxOps
-----------------------------------------------------------------------------
(* schedule(): a callback, or a user-made Fiber around it, enters m_fibers.  *)
Submit(j, p) ==
  /\ j \notin submitted
  /\ submitted' = submitted \cup {j}
  /\ IF j \in FiberJobs
     THEN /\ FreeFibers # {}
          /\ fiber' = [fiber EXCEPT ![NewFiber] =
                         [state |-> "INIT", cb |-> j, saved |-> TRUE]]
          /\ queue' = Append(queue, FiberEntry(NewFiber, p))
     ELSE /\ queue' = Append(queue, CbEntry(j, p))
          /\ UNCHANGED fiber

(* schedule() by the owner, from outside the pool, until it calls stop().    *)
Schedule(j, p) ==
  /\ main \in {"new", "running"}
  /\ Submit(j, p)
  /\ UNCHANGED <<cur, pc, localVars, countVars, stopVars, done, waiting, opsLeft>>

(* start(): the pool is created, each thread at the top of run().            *)
Start ==
  /\ main = "new" /\ main' = "running"
  /\ stopping' = FALSE
  /\ pc' = [t \in Threads |-> IF t \in Workers THEN "pop" ELSE pc[t]]
  /\ UNCHANGED <<queue, fiberVars, localVars, countVars, autoStop, jobVars>>

(* Scheduler::stopping(), evaluated under m_mutex.                           *)
Stopping == autoStop /\ stopping /\ queue = <<>> /\ active = 0

(* stop(), up to the tickles.                                                *)
Stop ==
  /\ main = "running" /\ main' = "root"
  /\ autoStop' = TRUE /\ stopping' = TRUE
  /\ UNCHANGED <<queue, fiberVars, pc, localVars, countVars, jobVars>>

(* stop(): the caller thread runs run() in m_rootFiber unless stopping().    *)
StopRoot ==
  /\ main = "root" /\ main' = "join"
  /\ pc' = IF Caller # None /\ ~Stopping THEN [pc EXCEPT ![Caller] = "pop"] ELSE pc
  /\ UNCHANGED <<queue, fiberVars, localVars, countVars, autoStop, stopping, jobVars>>

(* Mutant: one of the threads is not joined.                                 *)
JoinAllButOne ==
  /\ main = "join" /\ main' = "stopped"
  /\ \E u \in Threads : \A t \in Threads \ {u} :
       pc[t] = "exited" \/ (t = Caller /\ pc[t] = "off")
  /\ UNCHANGED <<queue, fiberVars, pc, localVars, countVars, autoStop, stopping, jobVars>>

(* stop(): back from m_rootFiber and every thread of the pool joined.        *)
Join ==
  /\ main = "join" /\ main' = "stopped"
  /\ \A t \in Threads : pc[t] = "exited" \/ (t = Caller /\ pc[t] = "off")
  /\ UNCHANGED <<queue, fiberVars, pc, localVars, countVars, autoStop, stopping, jobVars>>
-----------------------------------------------------------------------------
(* Mutant: an entry bound to a thread is stepped over by that thread, too.   *)
TakableUnbound(t, e) ==
  /\ e.thread = None
  /\ e.fiber # None => fiber[e.fiber].state # "EXEC"

(* run(): which entries the scan of m_fibers does not step over.             *)
Takable(t, e) ==
  /\ e.thread \in {None, t}
  /\ e.fiber # None => fiber[e.fiber].state # "EXEC"

(* Mutant: the entry stays in m_fibers.                                      *)
TakeKept(t) ==
  /\ GoTo(t, "pop", "dispatch")
  /\ \E i \in 1..Len(queue) :
       /\ Takable(t, queue[i])
       /\ \A k \in 1..(i-1) : ~Takable(t, queue[k])
       /\ ft' = [ft EXCEPT ![t] = queue[i]]
  /\ active' = active + 1
  /\ UNCHANGED <<queue, fiberVars, cbFiber, idleTerm, idle, stopVars, jobVars>>

(* run(): the first entry this thread may execute leaves the queue.          *)
Take(t) ==
  /\ GoTo(t, "pop", "dispatch")
  /\ \E i \in 1..Len(queue) :
       /\ Takable(t, queue[i])
       /\ \A k \in 1..(i-1) : ~Takable(t, queue[k])
       /\ ft' = [ft EXCEPT ![t] = queue[i]]
       /\ queue' = RemoveAt(queue, i)
  /\ active' = active + 1
  /\ UNCHANGED <<fiberVars, cbFiber, idleTerm, idle, stopVars, jobVars>>

NothingToTake(t) == \A i \in 1..Len(queue) : ~Takable(t, queue[i])

(* Mutant: the idle thread is not counted.                                   *)
EnterIdleUncounted(t) ==
  /\ GoTo(t, "pop", "idle")
  /\ NothingToTake(t) /\ ~idleTerm[t]
  /\ UNCHANGED <<queue, fiberVars, localVars, countVars, stopVars, jobVars>>

(* run(): nothing to take, so the idle fiber is switched to ...              *)
EnterIdle(t) ==
  /\ GoTo(t, "pop", "idle")
  /\ NothingToTake(t) /\ ~idleTerm[t]
  /\ idle' = idle + 1
  /\ UNCHANGED <<queue, fiberVars, localVars, active, stopVars, jobVars>>

(* ... or, once it is TERM, the loop is left.                                *)
Exit(t) ==
  /\ GoTo(t, "pop", "exited")
  /\ NothingToTake(t) /\ idleTerm[t]
  /\ UNCHANGED <<queue, fiberVars, localVars, countVars, stopVars, jobVars>>

(* Mutant: the thread that leaves its idle fiber still counts as idle.       *)
IdleStepCounted(t) ==
  /\ GoTo(t, "idle", "pop")
  /\ idleTerm' = [idleTerm EXCEPT ![t] = Stopping]
  /\ UNCHANGED <<queue, fiberVars, ft, cbFiber, countVars, stopVars, jobVars>>

(* Scheduler::idle(): one test of stopping(), then YieldToHold or return.    *)
IdleStep(t) ==
  /\ GoTo(t, "idle", "pop")
  /\ idleTerm' = [idleTerm EXCEPT ![t] = Stopping]
  /\ idle' = idle - 1
  /\ UNCHANGED <<queue, fiberVars, ft, cbFiber, active, stopVars, jobVars>>

(* run(): swapIn() of the fiber taken; its assertion is state # EXEC.        *)
ResumeFiber(t) ==
  LET f == ft[t].fiber IN
  /\ GoTo(t, "dispatch", "body")
  /\ f # None /\ ~Finished(f) /\ fiber[f].state # "EXEC"
  /\ fiber' = [fiber EXCEPT ![f].state = "EXEC", ![f].saved = FALSE]
  /\ cur' = [cur EXCEPT ![t] = f]
  /\ UNCHANGED <<queue, localVars, countVars, stopVars, jobVars>>

(* run(): a fiber that already ended was still in the queue.                 *)
DropFinished(t) ==
  /\ GoTo(t, "dispatch", "pop")
  /\ ft[t].fiber # None /\ Finished(ft[t].fiber)
  /\ ft' = [ft EXCEPT ![t] = NoEntry]
  /\ active' = active - 1
  /\ UNCHANGED <<queue, fiberVars, cbFiber, idleTerm, idle, stopVars, jobVars>>

(* run(): a callback gets cb_fiber, reset() or new, which is switched to.    *)
(* reset() asserts that the fiber is not in use.                             *)
RunCallback(t) ==
  LET f == IF cbFiber[t] # None THEN cbFiber[t] ELSE NewFiber IN
  /\ GoTo(t, "dispatch", "body")
  /\ ft[t].cb # None
  /\ IF cbFiber[t] = None THEN FreeFibers # {}
     ELSE fiber[f].state \in {"INIT", "TERM", "EXCEPT"}
  /\ fiber' = [fiber EXCEPT ![f] = [state |-> "EXEC", cb |-> ft[t].cb, saved |-> FALSE]]
  /\ cbFiber' = [cbFiber EXCEPT ![t] = f]
  /\ cur' = [cur EXCEPT ![t] = f]
  /\ ft' = [ft EXCEPT ![t] = NoEntry]
  /\ UNCHANGED <<queue, idleTerm, countVars, stopVars, jobVars>>
-----------------------------------------------------------------------------
(* What a callback does while its thread is on the fiber's stack.            *)
InBody(t, op) ==
  /\ pc[t] = "body" /\ op \in Ops
  /\ fiber[cur[t]].cb # None

UseOp == opsLeft > 0 /\ opsLeft' = opsLeft - 1

(* schedule(callback), from inside the pool.                                 *)
Spawn(t, j, p) ==
  /\ InBody(t, "spawn")
  /\ Submit(j, p)
  /\ UNCHANGED <<cur, pc, localVars, countVars, stopVars, done, waiting, opsLeft>>

(* schedule(Fiber::GetThis()) without a yield.                               *)
ScheduleSelf(t) ==
  /\ InBody(t, "again") /\ UseOp
  /\ queue' = Append(queue, FiberEntry(cur[t], None))
  /\ UNCHANGED <<fiberVars, pc, localVars, countVars, stopVars, submitted, done, waiting>>

(* Mutant: the fiber enters the queue itself, before it is switched out.     *)
YieldToReadyQueued(t) ==
  /\ InBody(t, "ready") /\ UseOp
  /\ GoTo(t, "body", "yield")
  /\ fiber' = [fiber EXCEPT ![cur[t]].state = "READY"]
  /\ queue' = Append(queue, FiberEntry(cur[t], None))
  /\ UNCHANGED <<cur, localVars, countVars, stopVars, submitted, done, waiting>>

(* YieldToReady(), as far as swapOut().                                      *)
YieldToReady(t) ==
  /\ InBody(t, "ready") /\ UseOp
  /\ GoTo(t, "body", "yield")
  /\ fiber' = [fiber EXCEPT ![cur[t]].state = "READY"]
  /\ UNCHANGED <<queue, cur, localVars, countVars, stopVars, submitted, done, waiting>>

(* The fiber leaves itself with a waker (an fd event, a timer, a semaphore)  *)
(* and is about to call YieldToHold().                                       *)
Wait(t) ==
  /\ InBody(t, "wait") /\ UseOp
  /\ GoTo(t, "body", "hold")
  /\ waiting' = waiting \cup {cur[t]}
  /\ UNCHANGED <<queue, fiberVars, localVars, countVars, stopVars, submitted, done>>

(* Mutant: only the yield of switchTo.                                       *)
SwitchToUnscheduled(t, p) ==
  /\ InBody(t, "switch") /\ UseOp
  /\ p \notin {None, t}
  /\ GoTo(t, "body", "hold")
  /\ UNCHANGED <<queue, fiberVars, localVars, countVars, stopVars, submitted, done, waiting>>

(* switchTo(p): schedule the running fiber for thread p, then YieldToHold(). *)
SwitchTo(t, p) ==
  /\ InBody(t, "switch") /\ UseOp
  /\ p \notin {None, t}
  /\ GoTo(t, "body", "hold")
  /\ queue' = Append(queue, FiberEntry(cur[t], p))
  /\ UNCHANGED <<fiberVars, localVars, countVars, stopVars, submitted, done, waiting>>

(* YieldToHold(), as far as swapOut().                                       *)
YieldToHold(t) ==
  /\ GoTo(t, "hold", "yield")
  /\ fiber' = [fiber EXCEPT ![cur[t]].state = "HOLD"]
  /\ UNCHANGED <<queue, cur, localVars, countVars, stopVars, jobVars>>

(* MainFunc(): the callback returned.                                        *)
Return(t) ==
  /\ GoTo(t, "body", "yield")
  /\ fiber[cur[t]].cb # None
  /\ done' = done \cup {fiber[cur[t]].cb}
  /\ fiber' = [fiber EXCEPT ![cur[t]].state = "TERM", ![cur[t]].cb = None]
  /\ UNCHANGED <<queue, cur, localVars, countVars, stopVars, submitted, waiting, opsLeft>>

(* MainFunc(): the callback threw, or there was none to call.                *)
Throw(t) ==
  /\ GoTo(t, "body", "yield")
  /\ "throw" \in Ops \/ fiber[cur[t]].cb = None
  /\ done' = done \cup ({fiber[cur[t]].cb} \ {None})
  /\ fiber' = [fiber EXCEPT ![cur[t]].state = "EXCEPT"]
  /\ UNCHANGED <<queue, cur, localVars, countVars, stopVars, submitted, waiting, opsLeft>>

(* swapOut(): the context is saved and the thread is back in run().          *)
SwapOut(t) ==
  /\ GoTo(t, "yield", "back")
  /\ fiber' = [fiber EXCEPT ![cur[t]].saved = TRUE]
  /\ cur' = [cur EXCEPT ![t] = None]
  /\ UNCHANGED <<queue, localVars, countVars, stopVars, jobVars>>

(* The waker calls schedule(fiber).                                          *)
Wake(f) ==
  /\ f \in waiting
  /\ waiting' = waiting \ {f}
  /\ queue' = Append(queue, FiberEntry(f, None))
  /\ UNCHANGED <<fiberVars, pc, localVars, countVars, stopVars, submitted, done, opsLeft>>
-----------------------------------------------------------------------------
(* Mutant: the thread that put its fiber away still counts as active.        *)
DeactivateCounted(t) ==
  /\ GoTo(t, "back", "settle")
  /\ UNCHANGED <<queue, fiberVars, localVars, countVars, stopVars, jobVars>>

(* run(), after swapIn() returned: the thread no longer counts as active.    *)
Deactivate(t) ==
  /\ GoTo(t, "back", "settle")
  /\ active' = active - 1
  /\ UNCHANGED <<queue, fiberVars, localVars, idle, stopVars, jobVars>>

(* run(): what becomes of the locals once the fiber is put away; a cb_fiber  *)
(* that will be resumed later is given up.                                   *)
Release(t, keep) ==
  /\ ft' = [ft EXCEPT ![t] = NoEntry]
  /\ cbFiber' = IF ft[t].fiber = None /\ ~keep
                THEN [cbFiber EXCEPT ![t] = None] ELSE cbFiber
  /\ UNCHANGED idleTerm

(* run(): the fiber is READY and goes back to the queue, for any thread.     *)
Reschedule(t) ==
  /\ GoTo(t, "settle", "pop")
  /\ fiber[Handled(t)].state = "READY"
  /\ queue' = Append(queue, FiberEntry(Handled(t), None))
  /\ Release(t, FALSE)
  /\ UNCHANGED <<fiberVars, countVars, stopVars, jobVars>>

(* run(): the fiber ended; a cb_fiber is emptied for the next callback.      *)
Retire(t) ==
  /\ GoTo(t, "settle", "pop")
  /\ Finished(Handled(t))
  /\ fiber' = IF ft[t].fiber # None THEN fiber
              ELSE [fiber EXCEPT ![Handled(t)] =
                     [state |-> "INIT", cb |-> None, saved |-> TRUE]]
  /\ Release(t, TRUE)
  /\ UNCHANGED <<queue, cur, countVars, stopVars, jobVars>>

(* run(): any other state was read, and HOLD is about to be written ...      *)
Suspend(t) ==
  /\ GoTo(t, "settle", "sethold")
  /\ fiber[Handled(t)].state # "READY" /\ ~Finished(Handled(t))
  /\ UNCHANGED <<queue, fiberVars, localVars, countVars, stopVars, jobVars>>

(* ... whatever happened to the fiber since.                                 *)
SetHold(t) ==
  /\ GoTo(t, "sethold", "pop")
  /\ fiber' = [fiber EXCEPT ![Handled(t)].state = "HOLD"]
  /\ Release(t, FALSE)
  /\ UNCHANGED <<queue, cur, countVars, stopVars, jobVars>>
-----------------------------------------------------------------------------
Main == Start \/ Stop \/ StopRoot \/ Join

Run(t) ==
  \/ Take(t) \/ EnterIdle(t) \/ Exit(t) \/ IdleStep(t)
  \/ ResumeFiber(t) \/ DropFinished(t) \/ RunCallback(t)
  \/ Deactivate(t) \/ Reschedule(t) \/ Retire(t) \/ Suspend(t) \/ SetHold(t)

Body(t) ==
  \/ \E j \in Jobs, p \in SpawnPins : Spawn(t, j, p)
  \/ ScheduleSelf(t) \/ YieldToReady(t) \/ Wait(t)
  \/ \E p \in Pins : SwitchTo(t, p)
  \/ YieldToHold(t) \/ Return(t) \/ Throw(t) \/ SwapOut(t)

(* The owner has stopped the scheduler and returned from stop().             *)
Terminated == main = "stopped" /\ UNCHANGED vars

Next ==
  \/ Main
  \/ \E j \in Jobs, p \in Pins : Schedule(j, p)
  \/ \E t \in Threads : Run(t) \/ Body(t)
  \/ \E f \in Fibers : Wake(f)
  \/ Terminated

Spec == Init /\ [][Next]_vars

(* The kernel runs every thread, a callback ends or yields, wakers wake; the *)
(* owner need not call stop(), but finishes the call it made.                *)
Fairness ==
  /\ WF_vars(StopRoot) /\ WF_vars(Join)
  /\ \A t \in Threads : WF_vars(Run(t)) /\ WF_vars(Body(t))
  /\ \A f \in Fibers : WF_vars(Wake(f))

FairSpec == Spec /\ Fairness
=============================================================================

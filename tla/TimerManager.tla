---------------------------- MODULE TimerManager ----------------------------
(***************************************************************************)
(* Timers: sylar_server/timer.{h,cpp}, and the part of IOManager::idle     *)
(* that sleeps until the first of them is due and collects the expired     *)
(* ones.                                                                   *)
(*                                                                         *)
(* Any thread adds, cancels, refreshes and resets timers, each under the   *)
(* write lock of the manager.  The collectors (threads in their idle       *)
(* fiber) compute a timeout, sleep in epoll_wait, and call listExpiredCb,  *)
(* which takes the read lock and the write lock one after the other.       *)
(***************************************************************************)
EXTENDS Integers, FiniteSets

CONSTANTS
  Timers,       (* Timer objects, numbered in the order of their addresses  *)
  Periods,      (* values of the ms arguments                               *)
  Collectors,   (* threads of the IOManager                                 *)
  MaxTimeout,   (* IOManager::idle's MAX_TIMEOUT (3000 ms)                  *)
  RolloverGap,  (* the hour of detectClockRollover                          *)
  MaxTime,      (* bound: the clock stops there                             *)
  MaxSetBacks   (* bound: how often the clock is set back                   *)

ASSUME TimerAssumption ==
  /\ Timers \subseteq Nat
  /\ Periods \subseteq Nat
  /\ MaxTimeout \in Nat /\ RolloverGap \in Nat
  /\ MaxTime \in Nat /\ MaxSetBacks \in Nat
  /\ Collectors # {}

VARIABLES
  now,          (* sylar::GetCurrentMS()                                    *)
  setBacks,     (* how often the clock was set back                         *)
  timer,        (* of each Timer: m_ms, m_next, m_recurring, whether m_cb   *)
                (* is set                                                   *)
  made,         (* timers constructed by addTimer but not inserted yet      *)
  timers,       (* m_timers                                                 *)
  tickled,      (* m_tickled                                                *)
  previous,     (* m_previouseTime                                          *)
  pipe,         (* a byte is in the tickle pipe, epoll_wait returns         *)
  pc,           (* where each collector is in idle()                        *)
  nowMs,        (* its local now_ms of listExpiredCb, 0 outside of it       *)
  deadline,     (* when its epoll_wait times out, 0 outside of it           *)
  cbs,          (* its local cbs: timers whose callbacks it collected       *)
  over          (* timers cancelled, or collected and not recurring         *)

clockVars == <<now, setBacks>>
collectorVars == <<pc, nowMs, deadline, cbs>>
vars == <<clockVars, timer, made, timers, tickled, previous, pipe,
          collectorVars, over>>

PCs == {"busy", "wait", "woken", "check", "collect", "schedule", "crashed"}

TypeOK ==
  /\ now \in Nat /\ setBacks \in Nat
  /\ timer \in [Timers -> [ms : Nat, next : Nat, recurring : BOOLEAN,
                           cb : BOOLEAN]]
  /\ made \subseteq Timers /\ timers \subseteq Timers
  /\ tickled \in BOOLEAN /\ pipe \in BOOLEAN
  /\ previous \in Nat
  /\ pc \in [Collectors -> PCs]
  /\ nowMs \in [Collectors -> Nat]
  /\ deadline \in [Collectors -> Int]
  /\ cbs \in [Collectors -> SUBSET Timers]
  /\ over \subseteq Timers

Init ==
  /\ now = 0 /\ setBacks = 0
  /\ timer = [x \in Timers |-> [ms |-> 0, next |-> 0, recurring |-> FALSE,
                                cb |-> FALSE]]
  /\ made = {} /\ timers = {} /\ over = {}
  /\ tickled = FALSE /\ pipe = FALSE
  /\ previous = now
  /\ pc = [c \in Collectors |-> "busy"]
  /\ nowMs = [c \in Collectors |-> 0]
  /\ deadline = [c \in Collectors |-> 0]
  /\ cbs = [c \in Collectors |-> {}]

GoTo(c, from, to) == pc[c] = from /\ pc' = [pc EXCEPT ![c] = to]

(* The process still runs: no collector has died of an invalid iterator.     *)
Alive == \A c \in Collectors : pc[c] # "crashed"
-----------------------------------------------------------------------------
(* Timer::Comparator: by m_next, then by address.                            *)
Before(tm, x, y) ==
  tm[x].next < tm[y].next \/ (tm[x].next = tm[y].next /\ x < y)

IsFirst(tm, set, x) == \A y \in set \ {x} : Before(tm, x, y)

(* addTimer under the write lock: insert and, if the timer became the first  *)
(* and nobody was told since the last getNextTimer, tickle.  The tickle is   *)
(* dropped when no thread idles.                                             *)
InsertWith(tm, set, x) ==
  LET atFront == IsFirst(tm, set, x) /\ ~tickled IN
  /\ timer' = tm
  /\ timers' = set \cup {x}
  /\ tickled' = (tickled \/ atFront)
  /\ pipe' = (pipe \/ (atFront /\ \E c \in Collectors : pc[c] # "busy"))

(* addTimer: the Timer constructor reads the clock before the lock is taken. *)
MakeTimer(x, ms, recurring) ==
  /\ ~timer[x].cb /\ x \notin over
  /\ timer' = [timer EXCEPT ![x] = [ms |-> ms, next |-> now + ms,
                 recurring |-> recurring, cb |-> TRUE]]
  /\ made' = made \cup {x}
  /\ UNCHANGED <<clockVars, timers, tickled, previous, pipe, collectorVars, over>>

AddTimer(x) ==
  /\ x \in made /\ made' = made \ {x}
  /\ InsertWith(timer, timers, x)
  /\ UNCHANGED <<clockVars, previous, collectorVars, over>>

(* The caller of addTimer has the Timer::ptr, so it can call its methods.    *)
Known(x) == timer[x].cb /\ x \notin made

(* Mutant: the cancelled timer stays in m_timers.                            *)
CancelKeepsListed(x) ==
  /\ Known(x)
  /\ timer' = [timer EXCEPT ![x].cb = FALSE]
  /\ over' = over \cup {x}
  /\ UNCHANGED <<clockVars, made, timers, tickled, previous, pipe, collectorVars>>

(* Timer::cancel.                                                            *)
Cancel(x) ==
  /\ Known(x)
  /\ timer' = [timer EXCEPT ![x].cb = FALSE]
  /\ timers' = timers \ {x}
  /\ over' = over \cup {x}
  /\ UNCHANGED <<clockVars, made, tickled, previous, pipe, collectorVars>>

(* Mutant: the period is taken off the clock instead of added.               *)
RefreshBackwards(x) ==
  /\ Known(x) /\ x \in timers
  /\ timer' = [timer EXCEPT ![x].next = now - timer[x].ms]
  /\ UNCHANGED <<clockVars, made, timers, tickled, previous, pipe,
                 collectorVars, over>>

(* Timer::refresh: the period starts again now; nobody is tickled.           *)
Refresh(x) ==
  /\ Known(x) /\ x \in timers
  /\ timer' = [timer EXCEPT ![x].next = now + timer[x].ms]
  /\ UNCHANGED <<clockVars, made, timers, tickled, previous, pipe,
                 collectorVars, over>>

(* Timer::reset: a new period, counted from now or from the old beginning.   *)
Reset(x, ms, fromNow) ==
  LET start == IF fromNow THEN now ELSE timer[x].next - timer[x].ms IN
  /\ Known(x) /\ x \in timers
  /\ ms # timer[x].ms \/ fromNow
  /\ InsertWith([timer EXCEPT ![x].ms = ms, ![x].next = start + ms],
                timers \ {x}, x)
  /\ UNCHANGED <<clockVars, made, previous, collectorVars, over>>
-----------------------------------------------------------------------------
(* Mutant: m_tickled is not reset, so no later timer tickles.                *)
GetNextTimerTickled(c) ==
  /\ GoTo(c, "busy", "wait")
  /\ \E d \in now..(now + MaxTimeout) :
       /\ \A x \in timers : d <= timer[x].next \/ d = now
       /\ d = now + MaxTimeout \/ \E x \in timers : timer[x].next <= d
       /\ deadline' = [deadline EXCEPT ![c] = d]
  /\ UNCHANGED <<clockVars, timer, made, timers, tickled, previous, pipe, nowMs,
                 cbs, over>>

(* getNextTimer, from idle(): forget the last tickle, sleep until the first  *)
(* timer is due and for MAX_TIMEOUT at most.                                 *)
GetNextTimer(c) ==
  /\ GoTo(c, "busy", "wait")
  /\ tickled' = FALSE
  /\ \E d \in now..(now + MaxTimeout) :
       /\ \A x \in timers : d <= timer[x].next \/ d = now
       /\ d = now + MaxTimeout \/ \E x \in timers : timer[x].next <= d
       /\ deadline' = [deadline EXCEPT ![c] = d]
  /\ UNCHANGED <<clockVars, timer, made, timers, previous, pipe, nowMs, cbs, over>>

(* getNextTimer, from stopping() as stop() calls it: no sleep follows.       *)
StopCheck ==
  /\ tickled' = FALSE
  /\ UNCHANGED <<clockVars, timer, made, timers, previous, pipe, collectorVars, over>>

(* epoll_wait returns: the tickle pipe or another fd is ready, or timeout.   *)
WaitReturns(c) ==
  /\ GoTo(c, "wait", "woken")
  /\ deadline' = [deadline EXCEPT ![c] = 0]
  /\ UNCHANGED <<clockVars, timer, made, timers, tickled, previous, pipe, nowMs,
                 cbs, over>>

(* listExpiredCb: the clock is read before any lock is taken ...             *)
ReadClock(c) ==
  /\ GoTo(c, "woken", "check")
  /\ nowMs' = [nowMs EXCEPT ![c] = now]
  /\ UNCHANGED <<clockVars, timer, made, timers, tickled, previous, pipe, deadline,
                 cbs, over>>

(* ... m_timers is tested under the read lock, which is released ...         *)
CheckEmpty(c) ==
  /\ GoTo(c, "check", IF timers = {} THEN "schedule" ELSE "collect")
  /\ UNCHANGED <<clockVars, timer, made, timers, tickled, previous, pipe, nowMs,
                 deadline, cbs, over>>

(* detectClockRollover                                                       *)
Rollover(t) == t < previous /\ t < previous - RolloverGap

(* Mutant: what becomes due during the next sleep counts as expired.         *)
ExpiredAhead(t) ==
  IF Rollover(t) THEN timers ELSE {x \in timers : timer[x].next <= t + MaxTimeout}

Expired(t) ==
  IF Rollover(t) THEN timers ELSE {x \in timers : timer[x].next <= t}

(* Mutant: recurring timers are not inserted again.                          *)
CollectExpiredOnce(c) ==
  LET t == nowMs[c]
      expired == Expired(t)
      once == {x \in expired : ~timer[x].recurring} IN
  /\ GoTo(c, "collect", "schedule")
  /\ previous' = t
  /\ timer' = [x \in Timers |->
       IF x \notin expired THEN timer[x]
       ELSE IF x \in once THEN [timer[x] EXCEPT !.cb = FALSE]
       ELSE [timer[x] EXCEPT !.next = t + timer[x].ms]]
  /\ timers' = timers \ expired
  /\ cbs' = [cbs EXCEPT ![c] = expired]
  /\ over' = over \cup once
  /\ UNCHANGED <<clockVars, made, tickled, pipe, nowMs, deadline>>

(* ... and the write lock taken to collect what expired: recurring timers    *)
(* start again at now_ms, the others lose their callback.                    *)
CollectExpired(c) ==
  LET t == nowMs[c]
      expired == Expired(t)
      once == {x \in expired : ~timer[x].recurring} IN
  /\ GoTo(c, "collect", "schedule")
  /\ previous' = t
  /\ timer' = [x \in Timers |->
       IF x \notin expired THEN timer[x]
       ELSE IF x \in once THEN [timer[x] EXCEPT !.cb = FALSE]
       ELSE [timer[x] EXCEPT !.next = t + timer[x].ms]]
  /\ timers' = timers \ once
  /\ cbs' = [cbs EXCEPT ![c] = expired]
  /\ over' = over \cup once
  /\ UNCHANGED <<clockVars, made, tickled, pipe, nowMs, deadline>>

(* The same, when m_timers was emptied in between: *m_timers.begin() reads   *)
(* past the last element, which may end the process.                         *)
CollectFromEmpty(c) ==
  /\ timers = {} /\ ~Rollover(nowMs[c])
  /\ GoTo(c, "collect", "crashed")
  /\ previous' = nowMs[c]
  /\ UNCHANGED <<clockVars, timer, made, timers, tickled, pipe, nowMs, deadline,
                 cbs, over>>

(* idle(): the callbacks are scheduled, the pipe is drained if epoll_wait    *)
(* had returned it to this thread, and the thread is back in run().          *)
ScheduleCallbacks(c) ==
  /\ GoTo(c, "schedule", "busy")
  /\ cbs' = [cbs EXCEPT ![c] = {}]
  /\ nowMs' = [nowMs EXCEPT ![c] = 0]
  /\ pipe' \in {pipe, FALSE}
  /\ UNCHANGED <<clockVars, timer, made, timers, tickled, previous, deadline, over>>
-----------------------------------------------------------------------------
(* Time passes.                                                              *)
Tick ==
  /\ now < MaxTime /\ now' = now + 1
  /\ UNCHANGED <<setBacks, timer, made, timers, tickled, previous, pipe,
                 collectorVars, over>>

(* The clock is set back by d.  epoll_wait counts on a clock of its own, so  *)
(* its time-outs move with it.                                               *)
SetBack(d) ==
  /\ setBacks < MaxSetBacks /\ setBacks' = setBacks + 1
  /\ now' = now - d
  /\ deadline' = [c \in Collectors |->
                   IF pc[c] = "wait" THEN deadline[c] - d ELSE deadline[c]]
  /\ UNCHANGED <<timer, made, timers, tickled, previous, pipe, pc, nowMs, cbs, over>>

User ==
  \/ \E x \in Timers, ms \in Periods, r \in BOOLEAN : MakeTimer(x, ms, r)
  \/ \E x \in Timers : AddTimer(x) \/ Cancel(x) \/ Refresh(x)
  \/ \E x \in Timers, ms \in Periods, fromNow \in BOOLEAN : Reset(x, ms, fromNow)
  \/ StopCheck

Collector(c) ==
  \/ GetNextTimer(c) \/ WaitReturns(c) \/ ReadClock(c) \/ CheckEmpty(c)
  \/ CollectExpired(c) \/ CollectFromEmpty(c) \/ ScheduleCallbacks(c)

Clock == Tick \/ \E d \in 1..now : SetBack(d)

Next == Alive /\ (User \/ (\E c \in Collectors : Collector(c)) \/ Clock)

Spec == Init /\ [][Next]_vars
=============================================================================

------------------------- MODULE TimerManager_proofs -------------------------
(***************************************************************************)
(* Proofs about the timers, for every set of timers and collectors and     *)
(* every value of the bounds.                                              *)
(***************************************************************************)
EXTENDS MCTimerManager, TLAPS

TimerRecord == [ms : Nat, next : Nat, recurring : BOOLEAN, cb : BOOLEAN]

Retimed(r, m, n) == [r EXCEPT !.ms = m, !.next = n]

ResetTimers(x, m, n) == [timer EXCEPT ![x].ms = m, ![x].next = n]

(* A timer is due one period after some moment: reset() can count back.      *)
TimesOK == \A x \in Timers : timer[x].ms <= timer[x].next

(* Where a timer can be: made, listed, or over; it has a callback in the     *)
(* first two and only there.                                                 *)
PlacesOK ==
  /\ \A x \in made : timer[x].cb /\ x \notin timers /\ x \notin over
  /\ ArmedIffListed
  /\ \A x \in timers : x \notin over

Inv == TypeOK /\ TimesOK /\ PlacesOK

(* As long as the clock only goes forward, no collector has read a later     *)
(* time, and no timer is due later than a refresh() now would make it.       *)
Forward ==
  setBacks = 0 =>
    /\ \A c \in Collectors : nowMs[c] <= now
    /\ \A x \in Timers : timer[x].next <= now + timer[x].ms

AllWait == \A c \in Collectors : pc[c] = "wait"

(* Somebody was told of a new first timer and nobody has woken up since.     *)
ToldInTime == tickled /\ AllWait => pipe

WakeInv == Forward /\ ToldInTime /\ WakeupNotLost
-----------------------------------------------------------------------------
(* What a new period and a new due time leave of a timer.                    *)
LEMMA RetimedFields ==
  ASSUME NEW r \in TimerRecord, NEW m \in Nat, NEW n \in Nat
  PROVE  /\ Retimed(r, m, n) \in TimerRecord
         /\ Retimed(r, m, n).ms = m /\ Retimed(r, m, n).next = n
         /\ Retimed(r, m, n).cb = r.cb
BY DEF TimerRecord, Retimed

(* What Timer::reset writes, for the timers as a whole.                      *)
LEMMA ResetFields ==
  ASSUME timer \in [Timers -> TimerRecord],
         NEW x \in Timers, NEW m \in Nat, NEW n \in Nat
  PROVE  LET tm == ResetTimers(x, m, n) IN
         /\ tm \in [Timers -> TimerRecord]
         /\ tm[x].ms = m /\ tm[x].next = n
         /\ \A y \in Timers : tm[y].cb = timer[y].cb
         /\ \A y \in Timers \ {x} : tm[y] = timer[y]
<1> DEFINE tm == ResetTimers(x, m, n)
<1>1. tm[x] = Retimed(timer[x], m, n)
  BY DEF Retimed, ResetTimers
<1>2. tm \in [Timers -> {tm[y] : y \in Timers}] /\ \A y \in Timers \ {x} : tm[y] = timer[y]
  BY DEF ResetTimers
<1>3. timer[x] \in TimerRecord
  OBVIOUS
<1> HIDE DEF tm
<1>4. tm[x] \in TimerRecord
  BY <1>1, <1>3, RetimedFields
<1>5. tm[x].ms = m /\ tm[x].next = n /\ tm[x].cb = timer[x].cb
  <2> DEFINE new == Retimed(timer[x], m, n)
  <2>1. new.ms = m /\ new.next = n /\ new.cb = timer[x].cb
    BY <1>3, RetimedFields
  <2> HIDE DEF new
  <2>2. tm[x] = new
    BY <1>1 DEF new
  <2> QED BY <2>1, <2>2, Zenon
<1>6. tm \in [Timers -> TimerRecord]
  BY <1>2, <1>4
<1> QED BY <1>2, <1>5, <1>6 DEF tm

LEMMA InitInv == Init => Inv
<1> SUFFICES ASSUME Init PROVE Inv
  OBVIOUS
<1> USE DEF Init
<1>1. timer \in [Timers -> TimerRecord] /\ \A x \in Timers : timer[x].cb = FALSE
  BY DEF TimerRecord
<1>2. TypeOK
  <2>1. pc \in [Collectors -> PCs]
    BY DEF PCs
  <2>2. cbs \in [Collectors -> SUBSET Timers]
    OBVIOUS
  <2>3. nowMs \in [Collectors -> Nat] /\ deadline \in [Collectors -> Int]
    OBVIOUS
  <2> QED BY <1>1, <2>1, <2>2, <2>3 DEF TypeOK, TimerRecord
<1>3. TimesOK
  BY DEF TimesOK
<1>4. PlacesOK
  BY <1>1 DEF PlacesOK, ArmedIffListed
<1> QED BY <1>2, <1>3, <1>4 DEF Inv

(* What every addTimer under the lock keeps, given what it is called with.   *)
LEMMA InsertWithType ==
  ASSUME TypeOK, NEW tm, NEW set \in SUBSET Timers, NEW x \in Timers,
         InsertWith(tm, set, x)
  PROVE  /\ timer' = tm /\ timers' = set \cup {x}
         /\ timers' \subseteq Timers
         /\ tickled' \in BOOLEAN /\ pipe' \in BOOLEAN
BY DEF TypeOK, InsertWith

(* Every step of the user, of a collector and of the clock keeps Inv.        *)
LEMMA UserInv == ASSUME Inv, User PROVE Inv'
<1> USE TimerAssumption DEF Inv
<1>1. ASSUME NEW x \in Timers, NEW ms \in Periods, NEW r \in BOOLEAN,
             MakeTimer(x, ms, r)
      PROVE  Inv'
  <2>1. ms \in Nat OBVIOUS
  <2> QED BY <1>1, <2>1 DEF MakeTimer, TypeOK, TimesOK, PlacesOK, ArmedIffListed,
             clockVars, collectorVars
<1>2. ASSUME NEW x \in Timers, AddTimer(x) PROVE Inv'
  <2>1. timers \in SUBSET Timers /\ InsertWith(timer, timers, x)
    BY <1>2 DEF AddTimer, TypeOK
  <2>2. /\ timer' = timer /\ timers' = timers \cup {x}
        /\ tickled' \in BOOLEAN /\ pipe' \in BOOLEAN
    BY <2>1, InsertWithType
  <2> QED BY <1>2, <2>2 DEF AddTimer, TypeOK, TimesOK, PlacesOK, ArmedIffListed,
             clockVars, collectorVars
<1>3. ASSUME NEW x \in Timers, Cancel(x) PROVE Inv'
  BY <1>3 DEF Cancel, Known, TypeOK, TimesOK, PlacesOK, ArmedIffListed,
     clockVars, collectorVars
<1>4. ASSUME NEW x \in Timers, Refresh(x) PROVE Inv'
  BY <1>4 DEF Refresh, Known, TypeOK, TimesOK, PlacesOK, ArmedIffListed,
     clockVars, collectorVars
<1>5. ASSUME NEW x \in Timers, NEW ms \in Periods, NEW fromNow \in BOOLEAN,
             Reset(x, ms, fromNow)
      PROVE  Inv'
  <2>1. ms \in Nat
    OBVIOUS
  <2>2. PICK next \in Nat :
          ms <= next /\ InsertWith(ResetTimers(x, ms, next), timers \ {x}, x)
    <3>1. CASE fromNow
      <4>1. now \in Nat /\ now + ms \in Nat /\ ms <= now + ms
        BY <2>1 DEF TypeOK
      <4> QED BY <1>5, <3>1, <4>1 DEF Reset, ResetTimers
    <3>2. CASE ~fromNow
      <4> DEFINE start == timer[x].next - timer[x].ms
      <4>1. start \in Nat
        BY DEF TypeOK, TimesOK
      <4>2. start + ms \in Nat /\ ms <= start + ms
        BY <2>1, <4>1
      <4>3. InsertWith(ResetTimers(x, ms, start + ms), timers \ {x}, x)
        BY <1>5, <3>2 DEF Reset, ResetTimers
      <4> QED BY <4>2, <4>3
    <3> QED BY <3>1, <3>2
  <2> DEFINE tm == ResetTimers(x, ms, next)
  <2>3. /\ tm \in [Timers -> TimerRecord]
        /\ tm[x].ms = ms /\ tm[x].next = next
        /\ \A y \in Timers : tm[y].cb = timer[y].cb
        /\ \A y \in Timers \ {x} : tm[y] = timer[y]
    <3>1. timer \in [Timers -> TimerRecord]
      BY DEF TypeOK, TimerRecord
    <3> QED BY <2>1, <3>1, ResetFields
  <2>4. x \in timers /\ timers \ {x} \in SUBSET Timers
    BY <1>5 DEF Reset, TypeOK
  <2> HIDE DEF tm
  <2>5. /\ timer' = tm /\ timers' = timers
        /\ tickled' \in BOOLEAN /\ pipe' \in BOOLEAN
    BY <2>2, <2>4, InsertWithType DEF tm
  <2>6. \A y \in Timers : tm[y].ms <= tm[y].next
    BY <2>2, <2>3 DEF TimesOK
  <2> QED BY <1>5, <2>3, <2>5, <2>6 DEF Reset, TimerRecord, TypeOK, TimesOK, PlacesOK,
             ArmedIffListed, clockVars, collectorVars
<1>6. CASE StopCheck
  BY <1>6 DEF StopCheck, TypeOK, TimesOK, PlacesOK, ArmedIffListed,
     clockVars, collectorVars
<1> QED BY <1>1, <1>2, <1>3, <1>4, <1>5, <1>6 DEF User

LEMMA CollectorInv == ASSUME Inv, NEW c \in Collectors, Collector(c) PROVE Inv'
<1> USE TimerAssumption DEF Inv
<1>1. CASE GetNextTimer(c)
  <2>1. PICK d \in now..(now + MaxTimeout) : deadline' = [deadline EXCEPT ![c] = d]
    BY <1>1 DEF GetNextTimer
  <2>2. deadline' \in [Collectors -> Int]
    BY <2>1 DEF TypeOK
  <2> QED BY <1>1, <2>2 DEF GetNextTimer, GoTo, TypeOK, PCs, TimesOK, PlacesOK,
             ArmedIffListed, clockVars
<1>2. CASE WaitReturns(c)
  BY <1>2 DEF WaitReturns, GoTo, TypeOK, PCs, TimesOK, PlacesOK, ArmedIffListed,
     clockVars
<1>3. CASE ReadClock(c)
  BY <1>3 DEF ReadClock, GoTo, TypeOK, PCs, TimesOK, PlacesOK, ArmedIffListed,
     clockVars
<1>4. CASE CheckEmpty(c)
  BY <1>4 DEF CheckEmpty, GoTo, TypeOK, PCs, TimesOK, PlacesOK, ArmedIffListed,
     clockVars
<1>5. CASE CollectExpired(c)
  <2> DEFINE expired == Expired(nowMs[c])
             once == {x \in expired : ~timer[x].recurring}
  <2>1. nowMs[c] \in Nat /\ expired \subseteq timers
    BY DEF TypeOK, Expired
  <2> HIDE DEF expired
  <2>2. timer' = [x \in Timers |->
          IF x \notin expired THEN timer[x]
          ELSE IF x \in once THEN [timer[x] EXCEPT !.cb = FALSE]
          ELSE [timer[x] EXCEPT !.next = nowMs[c] + timer[x].ms]]
    BY <1>5 DEF CollectExpired, expired
  <2>3. timer' \in [Timers -> TimerRecord]
    <3>1. timer \in [Timers -> TimerRecord] BY DEF TypeOK, TimerRecord
    <3>2. ASSUME NEW x \in Timers PROVE timer'[x] \in TimerRecord
      <4>1. timer[x] \in TimerRecord /\ timer[x].ms \in Nat
        BY <3>1 DEF TimerRecord
      <4>2. nowMs[c] + timer[x].ms \in Nat
        BY <2>1, <4>1
      <4>3. [timer[x] EXCEPT !.next = nowMs[c] + timer[x].ms] \in TimerRecord
        BY <4>1, <4>2 DEF TimerRecord
      <4>4. [timer[x] EXCEPT !.cb = FALSE] \in TimerRecord
        BY <4>1 DEF TimerRecord
      <4> QED BY <2>2, <4>1, <4>3, <4>4
    <3> QED BY <2>2, <3>2
  <2>4. /\ timers' = timers \ once /\ over' = over \cup once
        /\ cbs' = [cbs EXCEPT ![c] = expired]
    BY <1>5 DEF CollectExpired, expired
  <2>5. TypeOK'
    BY <1>5, <2>1, <2>3, <2>4 DEF CollectExpired, TimerRecord, GoTo, TypeOK, PCs, clockVars
  <2>6. TimesOK'
    BY <2>1, <2>2 DEF TypeOK, TimesOK
  <2>7. PlacesOK'
    <3>1. made' = made BY <1>5 DEF CollectExpired
    <3>2. \A x \in Timers : timer'[x].cb = (timer[x].cb /\ x \notin once)
      BY <2>2 DEF TypeOK
    <3> QED BY <2>1, <2>4, <3>1, <3>2 DEF TypeOK, PlacesOK, ArmedIffListed
  <2> QED BY <2>5, <2>6, <2>7
<1>6. CASE CollectFromEmpty(c)
  BY <1>6 DEF CollectFromEmpty, GoTo, TypeOK, PCs, TimesOK, PlacesOK, ArmedIffListed,
     clockVars
<1>7. CASE ScheduleCallbacks(c)
  BY <1>7 DEF ScheduleCallbacks, GoTo, TypeOK, PCs, TimesOK, PlacesOK, ArmedIffListed,
     clockVars
<1> QED BY <1>1, <1>2, <1>3, <1>4, <1>5, <1>6, <1>7 DEF Collector

LEMMA ClockInv == ASSUME Inv, Clock PROVE Inv'
<1> USE TimerAssumption DEF Inv
<1>1. CASE Tick
  BY <1>1 DEF Tick, TypeOK, TimesOK, PlacesOK, ArmedIffListed, collectorVars
<1>2. ASSUME NEW d \in 1..now, SetBack(d) PROVE Inv'
  BY <1>2 DEF SetBack, TypeOK, TimesOK, PlacesOK, ArmedIffListed
<1> QED BY <1>1, <1>2 DEF Clock

LEMMA NextInv == ASSUME Inv, [Next]_vars PROVE Inv'
<1>1. CASE Next
  BY <1>1, UserInv, CollectorInv, ClockInv DEF Next
<1>2. CASE UNCHANGED vars
  BY <1>2 DEF vars, clockVars, collectorVars, Inv, TypeOK, TimesOK, PlacesOK,
     ArmedIffListed
<1> QED BY <1>1, <1>2

LEMMA SpecInv == Spec => []Inv
BY InitInv, NextInv, PTL DEF Spec

(* Every variable keeps its type.                                            *)
THEOREM TypeCorrect == Spec => []TypeOK
BY SpecInv, PTL DEF Inv

(* Timer.m_cb and membership in m_timers agree, whoever adds, cancels,       *)
(* refreshes, resets and collects timers (timer.cpp:44-125, 164-210).        *)
THEOREM ArmedCorrect == Spec => []ArmedIffListed
BY SpecInv, PTL DEF Inv, PlacesOK
-----------------------------------------------------------------------------
(* A timer that is over is never collected again: what listExpiredCb takes   *)
(* comes from m_timers as it is under the write lock.                        *)
LEMMA OverStep ==
  ASSUME Inv, [Next]_vars
  PROVE  [\A c \in Collectors : Collected(c) \cap over = {}]_vars
<1> SUFFICES ASSUME Next, NEW c \in Collectors PROVE Collected(c) \cap over = {}
  OBVIOUS
<1>1. CASE cbs' = cbs
  BY <1>1 DEF Collected
<1>2. ASSUME NEW d \in Collectors, CollectExpired(d)
      PROVE  Collected(c) \cap over = {}
  <2>1. cbs' = [cbs EXCEPT ![d] = Expired(nowMs[d])]
    BY <1>2 DEF CollectExpired
  <2>2. Expired(nowMs[d]) \cap over = {}
    BY DEF Expired, Inv, TypeOK, PlacesOK
  <2> QED BY <2>1, <2>2 DEF Collected, Inv, TypeOK
<1>3. ASSUME NEW d \in Collectors, ScheduleCallbacks(d)
      PROVE  Collected(c) \cap over = {}
  BY <1>3 DEF ScheduleCallbacks, Collected, Inv, TypeOK
<1>4. CASE User
  <2>1. cbs' = cbs
    BY <1>4 DEF User, MakeTimer, AddTimer, Cancel, Refresh, Reset, StopCheck,
       collectorVars
  <2> QED BY <1>1, <2>1
<1>5. CASE Clock
  BY <1>1, <1>5 DEF Clock, Tick, SetBack, collectorVars
<1>6. ASSUME NEW d \in Collectors, Collector(d) PROVE Collected(c) \cap over = {}
  BY <1>1, <1>2, <1>3, <1>6 DEF Collector, GetNextTimer, WaitReturns, ReadClock,
     CheckEmpty, CollectFromEmpty
<1> QED BY <1>4, <1>5, <1>6 DEF Next

(* No cancelled timer and no timer that fired its one time is collected.     *)
THEOREM OverCorrect == Spec => OverIsFinal
BY SpecInv, OverStep, PTL DEF Spec, OverIsFinal
-----------------------------------------------------------------------------
LEMMA InitWake == Init => WakeInv
BY TimerAssumption DEF Init, WakeInv, Forward, ToldInTime, WakeupNotLost, AllWait

(* Forward: nothing writes a time later than now plus the period.            *)
LEMMA ForwardStep == ASSUME Inv, Forward, [Next]_vars PROVE Forward'
<1> USE TimerAssumption DEF Inv
<1> SUFFICES ASSUME setBacks' = 0
             PROVE  /\ \A c \in Collectors : nowMs'[c] <= now'
                    /\ \A x \in Timers : timer'[x].next <= now' + timer'[x].ms
  BY DEF Forward
<1> DEFINE Goal == /\ \A c \in Collectors : nowMs'[c] <= now'
                   /\ \A x \in Timers : timer'[x].next <= now' + timer'[x].ms
<1>1. TypeOK /\ TimesOK
  OBVIOUS
<1>2. CASE setBacks = 0
  <2>1. /\ \A c \in Collectors : nowMs[c] <= now
        /\ \A x \in Timers : timer[x].next <= now + timer[x].ms
    BY <1>2 DEF Forward
  <2>2. ASSUME NEW x \in Timers, NEW ms \in Periods, NEW r \in BOOLEAN,
               MakeTimer(x, ms, r)
        PROVE  Goal
    <3>1. ms \in Nat OBVIOUS
    <3> QED BY <2>1, <2>2, <3>1 DEF MakeTimer, TypeOK, clockVars, collectorVars
  <2>3. ASSUME NEW x \in Timers, AddTimer(x) PROVE Goal
    BY <2>1, <2>3 DEF AddTimer, InsertWith, clockVars, collectorVars
  <2>4. ASSUME NEW x \in Timers, Cancel(x) PROVE Goal
    BY <2>1, <2>4 DEF Cancel, TypeOK, clockVars, collectorVars
  <2>5. ASSUME NEW x \in Timers, Refresh(x) PROVE Goal
    BY <2>1, <2>5 DEF Refresh, TypeOK, clockVars, collectorVars
  <2>6. ASSUME NEW x \in Timers, NEW ms \in Periods, NEW fromNow \in BOOLEAN,
               Reset(x, ms, fromNow)
        PROVE  Goal
    <3>1. ms \in Nat
      OBVIOUS
    <3>2. PICK next \in Nat : timer' = ResetTimers(x, ms, next) /\ next <= now + ms
      <4>1. CASE fromNow
        <5> DEFINE next == now + ms
        <5>1. next \in Nat /\ next <= now + ms
          BY <3>1 DEF TypeOK
        <5>2. timer' = ResetTimers(x, ms, next)
          BY <2>6, <4>1 DEF Reset, InsertWith, ResetTimers
        <5> QED BY <5>1, <5>2
      <4>2. CASE ~fromNow
        <5> DEFINE next == timer[x].next - timer[x].ms + ms
        <5>1. next \in Nat /\ next <= now + ms
          BY <1>1, <2>1, <3>1 DEF TypeOK, TimesOK
        <5>2. timer' = ResetTimers(x, ms, next)
          BY <2>6, <4>2 DEF Reset, InsertWith, ResetTimers
        <5> QED BY <5>1, <5>2
      <4> QED BY <4>1, <4>2
    <3>3. /\ timer'[x].ms = ms /\ timer'[x].next = next
          /\ \A y \in Timers \ {x} : timer'[y] = timer[y]
      <4>1. timer \in [Timers -> TimerRecord]
        BY DEF TypeOK, TimerRecord
      <4> QED BY <3>1, <3>2, <4>1, ResetFields
    <3> QED BY <2>1, <2>6, <3>2, <3>3 DEF Reset, clockVars, collectorVars
  <2>7. CASE StopCheck
    BY <2>1, <2>7 DEF StopCheck, clockVars, collectorVars
  <2>8. ASSUME NEW c \in Collectors, CollectExpired(c) PROVE Goal
    <3> DEFINE expired == Expired(nowMs[c])
               once == {x \in expired : ~timer[x].recurring}
    <3>1. /\ now' = now /\ nowMs' = nowMs
          /\ timer' = [x \in Timers |->
               IF x \notin expired THEN timer[x]
               ELSE IF x \in once THEN [timer[x] EXCEPT !.cb = FALSE]
               ELSE [timer[x] EXCEPT !.next = nowMs[c] + timer[x].ms]]
      BY <2>8 DEF CollectExpired, clockVars
    <3> HIDE DEF expired
    <3>2. ASSUME NEW x \in Timers PROVE timer'[x].next <= now + timer'[x].ms
      <4>1. CASE x \in expired /\ x \notin once
        BY <2>1, <3>1, <4>1 DEF TypeOK
      <4>2. CASE ~(x \in expired /\ x \notin once)
        BY <2>1, <3>1, <4>2 DEF TypeOK
      <4> QED BY <4>1, <4>2
    <3> QED BY <2>1, <3>1, <3>2
  <2>9. ASSUME NEW c \in Collectors, Collector(c) PROVE Goal
    <3>1. CASE UNCHANGED <<now, timer, nowMs>>
      BY <2>1, <3>1
    <3>2. CASE ReadClock(c)
      BY <2>1, <3>2 DEF ReadClock, clockVars, TypeOK
    <3>3. CASE ScheduleCallbacks(c)
      BY <2>1, <3>3 DEF ScheduleCallbacks, clockVars, TypeOK
    <3>4. CASE GetNextTimer(c) \/ WaitReturns(c) \/ CheckEmpty(c)
               \/ CollectFromEmpty(c)
      BY <3>1, <3>4 DEF GetNextTimer, WaitReturns, CheckEmpty, CollectFromEmpty,
         clockVars
    <3> QED BY <2>8, <2>9, <3>2, <3>3, <3>4 DEF Collector
  <2>10. CASE Tick
    BY <2>1, <2>10 DEF Tick, TypeOK, collectorVars
  <2>11. ASSUME NEW d \in 1..now, SetBack(d) PROVE Goal
    BY <1>2, <2>11 DEF SetBack
  <2>12. CASE UNCHANGED vars
    BY <2>1, <2>12 DEF vars, clockVars, collectorVars
  <2> QED BY <2>2, <2>3, <2>4, <2>5, <2>6, <2>7, <2>9, <2>10, <2>11, <2>12
          DEF Next, User, Clock
<1>3. CASE setBacks # 0
  <2>1. setBacks' = setBacks \/ setBacks' = setBacks + 1
    BY DEF Next, User, Collector, Clock, MakeTimer, AddTimer, Cancel, Refresh, Reset,
       StopCheck, GetNextTimer, WaitReturns, ReadClock, CheckEmpty, CollectExpired,
       CollectFromEmpty, ScheduleCallbacks, Tick, SetBack, vars, clockVars
  <2> QED BY <1>3, <2>1 DEF TypeOK
<1> QED BY <1>2, <1>3

(* An insertion keeps the promise: either x became the first timer and a     *)
(* sleeper was told, or what covers the timer before it covers x too.        *)
LEMMA InsertWake ==
  ASSUME Inv, WakeInv, NEW x \in Timers, NEW tm \in [Timers -> TimerRecord],
         \A y \in Timers \ {x} : tm[y] = timer[y],
         InsertWith(tm, timers \ {x}, x),
         UNCHANGED <<pc, deadline, now, setBacks>>
  PROVE  ToldInTime' /\ WakeupNotLost'
<1> DEFINE set == timers \ {x}
<1>1. /\ timer' = tm /\ timers' = set \cup {x}
      /\ tickled' = (tickled \/ (IsFirst(tm, set, x) /\ ~tickled))
      /\ pipe' = (pipe \/ (IsFirst(tm, set, x) /\ ~tickled
                           /\ \E c \in Collectors : pc[c] # "busy"))
  BY DEF InsertWith
<1>2. AllWait' = AllWait
  BY DEF AllWait
<1>3. SUFFICES ASSUME AllWait, ~pipe'
               PROVE  /\ ~tickled'
                      /\ setBacks = 0 => \E c \in Collectors : \A y \in timers' :
                           deadline[c] <= timer'[y].next \/ deadline[c] <= now
  BY <1>2 DEF ToldInTime, WakeupNotLost, AllWait
<1>4. ~pipe /\ ~tickled
  BY <1>1, <1>3 DEF WakeInv, ToldInTime
<1>5. ~IsFirst(tm, set, x)
  <2>1. \E c \in Collectors : pc[c] # "busy"
    BY <1>3, TimerAssumption DEF AllWait
  <2> QED BY <1>1, <1>3, <1>4, <2>1
<1>6. ~tickled'
  BY <1>1, <1>4, <1>5
<1>7. ASSUME setBacks = 0
      PROVE  \E c \in Collectors : \A y \in timers' :
               deadline[c] <= timer'[y].next \/ deadline[c] <= now
  <2>1. timers \subseteq Timers /\ now \in Nat /\ deadline \in [Collectors -> Int]
    BY DEF Inv, TypeOK
  <2>2. \A y \in Timers : tm[y].next \in Nat
    BY DEF TimerRecord
  <2>3. PICK first \in set : tm[first].next <= tm[x].next
    <3>1. PICK y \in set : ~Before(tm, x, y)
      BY <1>5 DEF IsFirst
    <3>2. y \in Timers
      BY <2>1, <3>1
    <3>3. tm[x].next \in Nat /\ tm[y].next \in Nat
      BY <2>2, <3>2
    <3>4. ~(tm[x].next < tm[y].next)
      BY <3>1 DEF Before
    <3> QED BY <3>1, <3>3, <3>4
  <2>4. PICK c \in Collectors : \A y \in timers :
          deadline[c] <= timer[y].next \/ deadline[c] <= now
    BY <1>3, <1>4, <1>7, <2>3 DEF WakeInv, WakeupNotLost, AllWait
  <2>5. \A y \in set : deadline[c] <= tm[y].next \/ deadline[c] <= now
    BY <2>1, <2>4
  <2>6. deadline[c] <= tm[x].next \/ deadline[c] <= now
    <3>1. deadline[c] <= tm[first].next \/ deadline[c] <= now
      BY <2>5
    <3>2. tm[first].next \in Nat /\ tm[x].next \in Nat /\ deadline[c] \in Int
      BY <2>1, <2>2, <2>3
    <3> QED BY <2>3, <3>1, <3>2
  <2>7. \A y \in timers' : deadline[c] <= timer'[y].next \/ deadline[c] <= now
    BY <1>1, <2>5, <2>6
  <2> QED BY <2>7
<1> QED BY <1>6, <1>7

(* The promise survives every step of the user ...                           *)
LEMMA UserWake ==
  ASSUME Inv, WakeInv, User PROVE ToldInTime' /\ WakeupNotLost'
<1> USE TimerAssumption
<1>1. /\ timers \subseteq Timers /\ now \in Nat /\ deadline \in [Collectors -> Int]
      /\ timer \in [Timers -> TimerRecord]
      /\ UNCHANGED <<pc, deadline, now, setBacks>>
  <2>1. UNCHANGED <<pc, deadline, now, setBacks>>
    BY DEF User, MakeTimer, AddTimer, Cancel, Refresh, Reset, StopCheck, clockVars,
       collectorVars
  <2> QED BY <2>1 DEF Inv, TypeOK, TimerRecord
<1>2. AllWait' = AllWait
  BY <1>1 DEF AllWait
<1>3. ASSUME NEW set, set = timers',
             set \subseteq timers,
             \A y \in set : timer[y].next <= timer'[y].next \/ setBacks # 0,
             \A y \in set : timer'[y].next \in Nat /\ timer[y].next \in Nat,
             pipe' = pipe, tickled' = tickled \/ tickled' = FALSE
      PROVE  ToldInTime' /\ WakeupNotLost'
  <2>1. ToldInTime'
    BY <1>2, <1>3 DEF WakeInv, ToldInTime
  <2>2. WakeupNotLost'
    <3> SUFFICES ASSUME setBacks = 0, set # {}, AllWait, ~pipe
                 PROVE  \E c \in Collectors : \A y \in set :
                          deadline[c] <= timer'[y].next \/ deadline[c] <= now
      BY <1>1, <1>3 DEF WakeupNotLost, AllWait
    <3>1. PICK c \in Collectors : \A y \in timers :
            deadline[c] <= timer[y].next \/ deadline[c] <= now
      BY <1>3 DEF WakeInv, WakeupNotLost, AllWait
    <3>2. deadline[c] \in Int
      BY <1>1
    <3>3. ASSUME NEW y \in set
          PROVE  deadline[c] <= timer'[y].next \/ deadline[c] <= now
      <4>1. /\ timer[y].next <= timer'[y].next
            /\ timer'[y].next \in Nat /\ timer[y].next \in Nat
        BY <1>3
      <4>2. deadline[c] <= timer[y].next \/ deadline[c] <= now
        BY <1>3, <3>1
      <4> QED BY <3>2, <4>1, <4>2
    <3> QED BY <3>3
  <2> QED BY <2>1, <2>2
<1>4. \A y \in Timers : timer[y].next \in Nat /\ timer[y].ms \in Nat
  BY <1>1 DEF TimerRecord
<1>5. ASSUME NEW x \in Timers, NEW ms \in Periods, NEW r \in BOOLEAN,
             MakeTimer(x, ms, r)
      PROVE  ToldInTime' /\ WakeupNotLost'
  <2>1. x \notin timers
    BY <1>5 DEF MakeTimer, Inv, PlacesOK, ArmedIffListed
  <2>2. timers' = timers /\ pipe' = pipe /\ tickled' = tickled
    BY <1>5 DEF MakeTimer
  <2>3. \A y \in timers : timer'[y] = timer[y]
    BY <1>1, <1>5, <2>1 DEF MakeTimer
  <2>4. \A y \in timers : timer'[y].next = timer[y].next /\ timer[y].next \in Nat
    BY <1>1, <1>4, <2>3
  <2> QED BY <1>3, <2>2, <2>4
<1>6. ASSUME NEW x \in Timers, AddTimer(x) PROVE ToldInTime' /\ WakeupNotLost'
  <2>1. timers = timers \ {x}
    BY <1>6 DEF AddTimer, Inv, PlacesOK
  <2>2. InsertWith(timer, timers \ {x}, x)
    BY <1>6, <2>1 DEF AddTimer
  <2> QED BY <1>1, <2>2, InsertWake
<1>7. ASSUME NEW x \in Timers, Cancel(x) PROVE ToldInTime' /\ WakeupNotLost'
  <2>1. timers' \subseteq timers /\ pipe' = pipe /\ tickled' = tickled
    BY <1>7 DEF Cancel
  <2>2. \A y \in timers' : timer'[y] = timer[y]
    BY <1>1, <1>7 DEF Cancel
  <2>3. \A y \in timers' : timer'[y].next = timer[y].next /\ timer[y].next \in Nat
    BY <1>1, <1>4, <2>1, <2>2
  <2> QED BY <1>3, <2>1, <2>3
<1>8. ASSUME NEW x \in Timers, Refresh(x) PROVE ToldInTime' /\ WakeupNotLost'
  <2>1. timers' = timers /\ pipe' = pipe /\ tickled' = tickled
    BY <1>8 DEF Refresh
  <2>2. timer'[x].next = now + timer[x].ms /\ \A y \in Timers \ {x} : timer'[y] = timer[y]
    BY <1>1, <1>8 DEF Refresh, TimerRecord
  <2>3. setBacks = 0 => timer[x].next <= timer'[x].next
    BY <2>2 DEF WakeInv, Forward
  <2>4. \A y \in timers : /\ timer[y].next <= timer'[y].next \/ setBacks # 0
                          /\ timer'[y].next \in Nat /\ timer[y].next \in Nat
    <3>1. timer'[x].next \in Nat
      BY <1>1, <1>4, <2>2
    <3> QED BY <1>1, <1>4, <2>2, <2>3, <3>1
  <2> QED BY <1>3, <2>1, <2>4
<1>9. ASSUME NEW x \in Timers, NEW ms \in Periods, NEW fromNow \in BOOLEAN,
             Reset(x, ms, fromNow)
      PROVE  ToldInTime' /\ WakeupNotLost'
  <2> DEFINE next == (IF fromNow THEN now ELSE timer[x].next - timer[x].ms) + ms
             tm == ResetTimers(x, ms, next)
  <2>1. next \in Nat /\ ms \in Nat
    <3>1. timer[x].ms <= timer[x].next
      BY DEF Inv, TimesOK
    <3> QED BY <1>1, <1>4, <3>1
  <2>2. InsertWith(tm, timers \ {x}, x)
    BY <1>9 DEF Reset, ResetTimers
  <2> HIDE DEF next
  <2>3. tm \in [Timers -> TimerRecord] /\ \A y \in Timers \ {x} : tm[y] = timer[y]
    BY <1>1, <2>1, ResetFields
  <2> HIDE DEF tm
  <2> QED BY <1>1, <2>2, <2>3, InsertWake
<1>10. CASE StopCheck
  <2>1. timers' = timers /\ timer' = timer /\ pipe' = pipe /\ tickled' = FALSE
    BY <1>10 DEF StopCheck
  <2>2. \A y \in timers' : timer[y].next <= timer'[y].next
    BY <1>1, <1>4, <2>1
  <2>3. \A y \in timers' : timer'[y].next \in Nat /\ timer[y].next \in Nat
    BY <1>1, <1>4, <2>1
  <2>4. timers' \subseteq timers /\ (tickled' = tickled \/ tickled' = FALSE)
    BY <2>1
  <2> QED BY <1>3, <2>1, <2>2, <2>3, <2>4
<1> QED BY <1>5, <1>6, <1>7, <1>8, <1>9, <1>10 DEF User

(* ... of a collector, which sleeps until the first timer is due ...         *)
LEMMA CollectorWake ==
  ASSUME Inv, NEW c \in Collectors, Collector(c)
  PROVE  ToldInTime' /\ WakeupNotLost'
<1> USE DEF Inv
<1>1. CASE GetNextTimer(c)
  <2>1. PICK d \in now..(now + MaxTimeout) :
          /\ \A x \in timers : d <= timer[x].next \/ d = now
          /\ deadline' = [deadline EXCEPT ![c] = d]
    BY <1>1 DEF GetNextTimer
  <2>2. ~tickled' /\ UNCHANGED <<now, timer, timers>>
    BY <1>1 DEF GetNextTimer, clockVars
  <2>3. deadline'[c] = d /\ d \in Int /\ now \in Nat
    BY <2>1 DEF TypeOK
  <2>4. \A x \in timers : deadline'[c] <= timer[x].next \/ deadline'[c] <= now
    <3> SUFFICES ASSUME NEW x \in timers
                 PROVE  deadline'[c] <= timer[x].next \/ deadline'[c] <= now
      OBVIOUS
    <3>1. CASE d <= timer[x].next
      BY <2>3, <3>1
    <3>2. CASE d = now
      BY <2>3, <3>2
    <3> QED BY <2>1, <3>1, <3>2
  <2> QED BY <2>2, <2>4 DEF ToldInTime, WakeupNotLost
<1>2. CASE ~GetNextTimer(c)
  <2>1. pc'[c] # "wait"
    BY <1>2 DEF Collector, WaitReturns, ReadClock, CheckEmpty, CollectExpired,
       CollectFromEmpty, ScheduleCallbacks, GoTo, TypeOK
  <2> QED BY <2>1 DEF ToldInTime, WakeupNotLost, AllWait
<1> QED BY <1>1, <1>2

(* ... and of the clock.                                                     *)
LEMMA ClockWake ==
  ASSUME Inv, WakeInv, Clock PROVE ToldInTime' /\ WakeupNotLost'
<1> USE DEF Inv
<1>1. CASE Tick
  <2>1. /\ UNCHANGED <<setBacks, timer, timers, tickled, pipe, pc, deadline>>
        /\ now' = now + 1
    BY <1>1 DEF Tick, collectorVars
  <2>2. now \in Nat /\ deadline \in [Collectors -> Int]
    BY DEF TypeOK
  <2>3. ToldInTime'
    BY <2>1 DEF WakeInv, ToldInTime, AllWait
  <2>4. WakeupNotLost'
    <3> SUFFICES ASSUME setBacks = 0, timers # {}, AllWait, ~pipe
                 PROVE  \E c \in Collectors : \A x \in timers :
                          deadline[c] <= timer[x].next \/ deadline[c] <= now + 1
      BY <2>1 DEF WakeupNotLost, AllWait
    <3>1. PICK c \in Collectors : \A x \in timers :
            deadline[c] <= timer[x].next \/ deadline[c] <= now
      BY DEF WakeInv, WakeupNotLost, AllWait
    <3>2. deadline[c] <= now => deadline[c] <= now + 1
      BY <2>2
    <3> QED BY <3>1, <3>2
  <2> QED BY <2>3, <2>4
<1>2. ASSUME NEW d \in 1..now, SetBack(d) PROVE ToldInTime' /\ WakeupNotLost'
  <2>1. setBacks' = setBacks + 1 /\ UNCHANGED <<tickled, pipe, pc>> /\ setBacks \in Nat
    BY <1>2 DEF SetBack, TypeOK
  <2>2. setBacks' # 0
    BY <2>1
  <2>3. ToldInTime'
    BY <2>1 DEF WakeInv, ToldInTime, AllWait
  <2> QED BY <2>2, <2>3 DEF WakeupNotLost
<1> QED BY <1>1, <1>2 DEF Clock

LEMMA WakeStep == ASSUME Inv, WakeInv, [Next]_vars PROVE WakeInv'
<1>1. Forward'
  BY ForwardStep DEF WakeInv
<1>2. CASE Next
  BY <1>1, <1>2, UserWake, CollectorWake, ClockWake DEF Next, WakeInv
<1>3. CASE UNCHANGED vars
  BY <1>1, <1>3 DEF vars, clockVars, collectorVars, WakeInv, ToldInTime,
     WakeupNotLost, AllWait
<1> QED BY <1>2, <1>3

(* A timer never becomes due while every thread sleeps past it: the tickle   *)
(* that addTimer leaves out (timer.cpp:221) is one nobody needed.            *)
THEOREM WakeupCorrect == Spec => []WakeupNotLost
<1>1. Inv /\ WakeInv /\ [Next]_vars => (Inv /\ WakeInv)'
  BY NextInv, WakeStep
<1> QED BY <1>1, InitInv, InitWake, PTL DEF Spec, WakeInv
-----------------------------------------------------------------------------
(* What a collector takes was due when the collector read the clock, and, as *)
(* long as the clock only goes forward, it is due now.                       *)
LEMMA EarlyStep ==
  ASSUME Inv, Forward, [Next]_vars
  PROVE  [\A c \in Collectors : \A x \in Collected(c) :
            \/ timer[x].next <= now
            \/ setBacks > 0 \/ nowMs[c] + RolloverGap < previous]_vars
<1> SUFFICES ASSUME Next, NEW c \in Collectors, NEW x \in Collected(c),
                    ~(setBacks > 0), ~(nowMs[c] + RolloverGap < previous)
             PROVE  timer[x].next <= now
  OBVIOUS
<1>1. CASE cbs' = cbs
  BY <1>1 DEF Collected
<1>2. ASSUME NEW d \in Collectors, CollectExpired(d)
      PROVE  timer[x].next <= now
  <2>1. cbs' = [cbs EXCEPT ![d] = Expired(nowMs[d])]
    BY <1>2 DEF CollectExpired
  <2>2. x \in Expired(nowMs[c])
    BY <2>1 DEF Collected, Inv, TypeOK
  <2>3. now \in Nat /\ setBacks \in Nat /\ previous \in Nat /\ nowMs[c] \in Nat
        /\ RolloverGap \in Nat
    BY TimerAssumption DEF Inv, TypeOK
  <2>4. ~Rollover(nowMs[c])
    BY <2>3 DEF Rollover
  <2>5. x \in timers /\ timer[x].next <= nowMs[c]
    BY <2>2, <2>4 DEF Expired
  <2>6. timer[x].next \in Nat
    BY <2>5 DEF Inv, TypeOK
  <2>7. nowMs[c] <= now
    BY <2>3 DEF Forward
  <2> QED BY <2>3, <2>5, <2>6, <2>7
<1>3. ASSUME NEW d \in Collectors, ScheduleCallbacks(d)
      PROVE  timer[x].next <= now
  BY <1>3 DEF ScheduleCallbacks, Collected, Inv, TypeOK
<1>4. CASE User
  <2>1. cbs' = cbs
    BY <1>4 DEF User, MakeTimer, AddTimer, Cancel, Refresh, Reset, StopCheck,
       collectorVars
  <2> QED BY <1>1, <2>1
<1>5. CASE Clock
  BY <1>1, <1>5 DEF Clock, Tick, SetBack, collectorVars
<1>6. ASSUME NEW d \in Collectors, Collector(d) PROVE timer[x].next <= now
  BY <1>1, <1>2, <1>3, <1>6 DEF Collector, GetNextTimer, WaitReturns, ReadClock,
     CheckEmpty, CollectFromEmpty
<1> QED BY <1>4, <1>5, <1>6 DEF Next

(* No callback runs before its time, whatever the users and the other        *)
(* collectors do between the two locks of listExpiredCb.                     *)
THEOREM NoEarlyCorrect == Spec => NoEarlyFire
<1>1. Inv /\ WakeInv /\ [Next]_vars => (Inv /\ WakeInv)'
  BY NextInv, WakeStep
<1>2. Inv /\ WakeInv /\ [Next]_vars
        => [\A c \in Collectors : \A x \in Collected(c) :
              \/ timer[x].next <= now
              \/ setBacks > 0 \/ nowMs[c] + RolloverGap < previous]_vars
  BY EarlyStep DEF WakeInv
<1> QED BY <1>1, <1>2, InitInv, InitWake, PTL DEF Spec, NoEarlyFire
=============================================================================

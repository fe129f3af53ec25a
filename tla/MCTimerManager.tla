--------------------------- MODULE MCTimerManager ---------------------------
(***************************************************************************)
(* The timers on small instances, and what is asked of them.               *)
(***************************************************************************)
EXTENDS TimerManager, TLC

CollectorSymmetry == Permutations(Collectors)

(* A timer has a callback exactly while it is in m_timers, whoever cancels,  *)
(* resets or collects it: cancel() erases what find() returns without a test *)
(* (timer.cpp:47-52), and a recurring timer must not fall out of the set.    *)
ArmedIffListed == \A x \in Timers \ made : timer[x].cb <=> x \in timers

(* The timers a step hands to a collector.                                   *)
Collected(c) == cbs'[c] \ cbs[c]

(* A timer that was cancelled, or fired once and does not recur, is not      *)
(* collected again, even if it was cancelled between two locks of            *)
(* listExpiredCb.  The callback of a timer that a collector has already      *)
(* taken is scheduled all the same (iomanager.cpp:398-400).                  *)
OverIsFinal == [][\A c \in Collectors : Collected(c) \cap over = {}]_vars

(* No callback is collected before its time, unless the clock was set back   *)
(* or, what detectClockRollover cannot tell from it, the collector has been  *)
(* overtaken by one that read the clock later by more than RolloverGap.      *)
NoEarlyFire ==
  [][\A c \in Collectors : \A x \in Collected(c) :
       \/ timer[x].next <= now
       \/ setBacks > 0 \/ nowMs[c] + RolloverGap < previous]_vars

(* While every thread of the manager sleeps, one of them wakes in time for   *)
(* the first timer: the tickle of addTimer is suppressed (m_tickled) only    *)
(* when somebody is going to call getNextTimer anyway.  After the clock was  *)
(* set back refresh() can make a timer the first one, and tells nobody.      *)
WakeupNotLost ==
  (setBacks = 0 /\ timers # {} /\ \A c \in Collectors : pc[c] = "wait") =>
    \/ pipe
    \/ \E c \in Collectors : \A x \in timers :
         deadline[c] <= timer[x].next \/ deadline[c] <= now
=============================================================================

-------------------------- MODULE IdleLoop_proofs --------------------------
(***************************************************************************)
(* What stopping() asks about accounts for every fiber, and the last       *)
(* thread to stop leaves none that could run, for every set of threads and *)
(* fibers and any number of waits.                                         *)
(***************************************************************************)
EXTENDS MCIdleLoop, FiniteSetTheorems, TLAPS

ActivePCs == {"exec", "tickle", "call", "inserted", "hold", "swap"}
IdlePCs == {"timers?", "events?", "queue?", "wait", "collect", "batch", "drain", "count"}
At(pcs) == {t \in Threads : pc[t] \in pcs}

(* The jobs a thread still has to do something for; what a thread that waits *)
(* to leave a stack has in hand was handed on already.                       *)
LivePCs == {"exec", "tickle", "call", "batch"}
Live(t) == IF pc[t] \in LivePCs THEN job[t] ELSE {}

(* A job that was scheduled is in one place, and in no two.                  *)
Apart ==
  /\ queue \cap calls = {} /\ queue \cap timers = {} /\ queue \cap fdEvents = {}
  /\ calls \cap timers = {} /\ calls \cap fdEvents = {} /\ timers \cap fdEvents = {}
  /\ finished \cap (queue \cup calls \cup timers \cup fdEvents) = {}
  /\ queue \cup calls \cup timers \cup fdEvents \cup finished \subseteq submitted
HandsApart ==
  \A t \in Threads :
    /\ Live(t) \subseteq submitted
    /\ Live(t) \cap (queue \cup calls \cup timers \cup fdEvents \cup finished) = {}
    /\ \A u \in Threads \ {t} : Live(t) \cap Live(u) = {}
Placed ==
  \A j \in submitted :
    \/ j \in queue \cup calls \cup timers \cup fdEvents \cup finished
    \/ \E t \in Threads : j \in Live(t)
PlacesOK == Apart /\ HandsApart /\ Placed

(* The two counters of threads count, and so does that of events, in which a *)
(* waiter that was scheduled stays for a moment.                             *)
CountsOK == active = Cardinality(At(ActivePCs)) /\ idle = Cardinality(At(IdlePCs))
PendingOK ==
  IsFiniteSet(fdEvents) /\ pending = Cardinality(fdEvents) + Cardinality(At({"count"}))

(* A thread executes one fiber or callback, and one that looks for work or   *)
(* idles has none in hand; when its idle fiber ended it does not idle again. *)
HandsOK ==
  \A t \in Threads :
    /\ pc[t] \in {"exec", "call"} => \E j \in Jobs : job[t] = {j}
    /\ pc[t] = "tickle" /\ job[t] # {} => \E j \in Jobs : job[t] = {j}
    /\ pc[t] \in {"pop", "goidle", "exited"} \cup (IdlePCs \ {"batch"}) => job[t] = {}
TermOK ==
  \A t \in Threads : idleTerm[t] => stopping /\ pc[t] \notin IdlePCs \cup {"goidle"}

(* When the last idle fiber ended, nothing was queued and nothing executed.  *)
LastOK == (\A t \in Threads : idleTerm[t]) => NoEntry /\ active = 0

IInv == TypeOK /\ PlacesOK /\ CountsOK /\ PendingOK /\ HandsOK /\ TermOK /\ LastOK
-----------------------------------------------------------------------------
(* A thread that moves changes a count by one, up or down, or not at all.    *)
LEMMA MovedCount ==
  ASSUME TypeOK, NEW t \in Threads, NEW to, pc' = [pc EXCEPT ![t] = to], NEW pcs
  PROVE  /\ Cardinality(At(pcs)) \in Nat
         /\ (pc[t] \in pcs <=> to \in pcs) => Cardinality(At(pcs)') = Cardinality(At(pcs))
         /\ pc[t] \notin pcs /\ to \in pcs => Cardinality(At(pcs)') = Cardinality(At(pcs)) + 1
         /\ pc[t] \in pcs /\ to \notin pcs => /\ Cardinality(At(pcs)') = Cardinality(At(pcs)) - 1
                                              /\ Cardinality(At(pcs)) # 0
<1>1. IsFiniteSet(At(pcs)) /\ Cardinality(At(pcs)) \in Nat
  <2>1. IsFiniteSet(At(pcs))
    BY IdleAssumption, FS_Subset DEF At
  <2> QED
    BY <2>1, FS_CardinalityType
<1>2. pc'[t] = to /\ \A u \in Threads \ {t} : pc'[u] = pc[u]
  BY DEF TypeOK
<1>3. CASE pc[t] \in pcs <=> to \in pcs
  <2>1. At(pcs)' = At(pcs)
    BY <1>2, <1>3 DEF At
  <2> QED
    BY <1>1, <1>3, <2>1
<1>4. CASE pc[t] \notin pcs /\ to \in pcs
  <2>1. At(pcs)' = At(pcs) \cup {t} /\ t \notin At(pcs)
    BY <1>2, <1>4 DEF At
  <2> QED
    BY <1>1, <1>4, <2>1, FS_AddElement
<1>5. CASE pc[t] \in pcs /\ to \notin pcs
  <2>1. At(pcs)' = At(pcs) \ {t} /\ t \in At(pcs)
    BY <1>2, <1>5 DEF At
  <2>2. Cardinality(At(pcs) \ {t}) = Cardinality(At(pcs)) - 1
    BY <1>1, <2>1, FS_RemoveElement
  <2>3. Cardinality(At(pcs)) # 0
    BY <1>1, <2>1, FS_EmptySet
  <2> QED
    BY <1>1, <1>5, <2>1, <2>2, <2>3
<1> QED
  BY <1>3, <1>4, <1>5

(* A thread is at a place the counts are about or not.                       *)
LEMMA CountSteps ==
  ASSUME TypeOK, CountsOK, NEW t \in Threads, NEW to \in PCs, pc' = [pc EXCEPT ![t] = to],
         active' = (active + IF to \in ActivePCs THEN 1 ELSE 0)
                     - IF pc[t] \in ActivePCs THEN 1 ELSE 0,
         idle' = (idle + IF to \in IdlePCs THEN 1 ELSE 0)
                     - IF pc[t] \in IdlePCs THEN 1 ELSE 0
  PROVE  CountsOK' /\ active' \in Nat /\ idle' \in Nat /\ pc' \in [Threads -> PCs]
<1>1. pc' \in [Threads -> PCs]
  BY DEF TypeOK
<1>2. active' = Cardinality(At(ActivePCs)') /\ active' \in Nat
  <2>1. /\ Cardinality(At(ActivePCs)) \in Nat
        /\ (pc[t] \in ActivePCs <=> to \in ActivePCs)
             => Cardinality(At(ActivePCs)') = Cardinality(At(ActivePCs))
        /\ pc[t] \notin ActivePCs /\ to \in ActivePCs
             => Cardinality(At(ActivePCs)') = Cardinality(At(ActivePCs)) + 1
        /\ pc[t] \in ActivePCs /\ to \notin ActivePCs
             => /\ Cardinality(At(ActivePCs)') = Cardinality(At(ActivePCs)) - 1
                /\ Cardinality(At(ActivePCs)) # 0
    BY MovedCount
  <2> QED
    BY <2>1 DEF CountsOK
<1>3. idle' = Cardinality(At(IdlePCs)') /\ idle' \in Nat
  <2>1. /\ Cardinality(At(IdlePCs)) \in Nat
        /\ (pc[t] \in IdlePCs <=> to \in IdlePCs)
             => Cardinality(At(IdlePCs)') = Cardinality(At(IdlePCs))
        /\ pc[t] \notin IdlePCs /\ to \in IdlePCs
             => Cardinality(At(IdlePCs)') = Cardinality(At(IdlePCs)) + 1
        /\ pc[t] \in IdlePCs /\ to \notin IdlePCs
             => /\ Cardinality(At(IdlePCs)') = Cardinality(At(IdlePCs)) - 1
                /\ Cardinality(At(IdlePCs)) # 0
    BY MovedCount
  <2> QED
    BY <2>1 DEF CountsOK
<1> QED
  BY <1>1, <1>2, <1>3 DEF CountsOK

(* No thread executes while m_activeThreadCount is 0.                        *)
LEMMA NobodyActive ==
  ASSUME CountsOK, active = 0
  PROVE  \A t \in Threads : pc[t] \notin ActivePCs
<1>1. IsFiniteSet(At(ActivePCs))
  BY IdleAssumption, FS_Subset DEF At
<1>2. At(ActivePCs) = {}
  BY <1>1, FS_EmptySet DEF CountsOK
<1> QED
  BY <1>2 DEF At
-----------------------------------------------------------------------------
LEMMA InitHolds == Init => IInv
<1> SUFFICES ASSUME Init PROVE IInv
  OBVIOUS
<1>1. TypeOK
  BY IdleAssumption DEF Init, TypeOK, PCs
<1>2. PlacesOK
  BY DEF Init, PlacesOK, Apart, HandsApart, Placed, Live, LivePCs
<1>3. At(ActivePCs) = {} /\ At(IdlePCs) = {} /\ At({"count"}) = {}
  BY DEF Init, At, ActivePCs, IdlePCs
<1>4. CountsOK /\ PendingOK
  BY <1>3, FS_EmptySet DEF Init, CountsOK, PendingOK
<1>5. HandsOK /\ TermOK /\ LastOK
  BY DEF Init, HandsOK, TermOK, LastOK, NoEntry
<1> QED
  BY <1>1, <1>2, <1>4, <1>5 DEF IInv

(* A tickle, or none.                                                        *)
TickleOrNot ==
  \/ Tickle \/ UNCHANGED pipeVars
  \/ pipe' \in BOOLEAN /\ edge' \in BOOLEAN /\ tickled' \in [Threads -> BOOLEAN]

LEMMA TickleType ==
  ASSUME TypeOK, TickleOrNot
  PROVE  pipe' \in BOOLEAN /\ edge' \in BOOLEAN /\ tickled' \in [Threads -> BOOLEAN]
  BY DEF TypeOK, TickleOrNot, Tickle, pipeVars

(* m_pendingEventCount follows the events and the threads that handle one.   *)
LEMMA PendingSteps ==
  ASSUME TypeOK, PendingOK, NEW t \in Threads, NEW to \in PCs, pc' = [pc EXCEPT ![t] = to],
         IsFiniteSet(fdEvents'), pending' \in Nat,
         pending' - pending = (Cardinality(fdEvents') - Cardinality(fdEvents))
                              + ((IF to = "count" THEN 1 ELSE 0)
                                   - (IF pc[t] = "count" THEN 1 ELSE 0))
  PROVE  PendingOK'
<1> DEFINE C == {"count"}
<1>1. /\ Cardinality(At(C)) \in Nat
      /\ (pc[t] \in C <=> to \in C) => Cardinality(At(C)') = Cardinality(At(C))
      /\ pc[t] \notin C /\ to \in C => Cardinality(At(C)') = Cardinality(At(C)) + 1
      /\ pc[t] \in C /\ to \notin C => Cardinality(At(C)') = Cardinality(At(C)) - 1
  <2> HIDE DEF C
  <2> QED
    BY MovedCount
<1>2. (pc[t] \in C <=> pc[t] = "count") /\ (to \in C <=> to = "count")
  OBVIOUS
<1>3. Cardinality(fdEvents) \in Nat /\ Cardinality(fdEvents') \in Nat
  BY FS_CardinalityType DEF PendingOK
<1>4. At(C)' = At({"count"})' /\ pending \in Nat
      /\ pending = Cardinality(fdEvents) + Cardinality(At(C))
  BY DEF PendingOK, TypeOK
<1>5. pending' = Cardinality(fdEvents') + Cardinality(At(C)')
  <2> HIDE DEF C
  <2> QED
    BY <1>1, <1>2, <1>3, <1>4
<1> QED
  BY <1>4, <1>5 DEF PendingOK

LEMMA PendingStays ==
  ASSUME TypeOK, PendingOK, NEW t \in Threads, NEW to \in PCs, pc' = [pc EXCEPT ![t] = to],
         UNCHANGED <<fdEvents, pending>>, to # "count", pc[t] # "count"
  PROVE  PendingOK'
<1>1. IsFiniteSet(fdEvents') /\ pending' \in Nat /\ Cardinality(fdEvents) \in Nat
  BY FS_CardinalityType DEF PendingOK, TypeOK
<1>2. pending' - pending = (Cardinality(fdEvents') - Cardinality(fdEvents))
                           + ((IF to = "count" THEN 1 ELSE 0)
                                - (IF pc[t] = "count" THEN 1 ELSE 0))
  BY <1>1 DEF TypeOK
<1> QED
  BY <1>1, <1>2, PendingSteps

(* A thread moves, and perhaps hands jobs on: what is left to show is where  *)
(* the jobs are.                                                             *)
LEMMA StepKeeps ==
  ASSUME IInv, NEW t \in Threads, NEW to \in PCs, GoTo(t, pc[t], to),
         active' = (active + IF to \in ActivePCs THEN 1 ELSE 0)
                     - IF pc[t] \in ActivePCs THEN 1 ELSE 0,
         idle' = (idle + IF to \in IdlePCs THEN 1 ELSE 0)
                     - IF pc[t] \in IdlePCs THEN 1 ELSE 0,
         submitted' \subseteq Jobs, exec' \subseteq Jobs, waitsLeft' \in Nat,
         PlacesOK', PendingOK', pending' \in Nat,
         job' \in [Threads -> SUBSET Jobs], \A u \in Threads \ {t} : job'[u] = job[u],
         to \in {"exec", "call"} => \E j \in Jobs : job'[t] = {j},
         to = "tickle" /\ job'[t] # {} => \E j \in Jobs : job'[t] = {j},
         to \in {"pop", "goidle", "exited"} \cup (IdlePCs \ {"batch"}) => job'[t] = {},
         TickleOrNot, UNCHANGED <<idleTerm, stopping>>,
         idleTerm[t] => to \notin IdlePCs \cup {"goidle"},
         (idleTerm[t] => LastOK')
  PROVE  IInv'
<1>1. TypeOK /\ CountsOK /\ HandsOK /\ TermOK /\ LastOK
  BY DEF IInv
<1>2. pc' = [pc EXCEPT ![t] = to]
  BY DEF GoTo
<1>3. CountsOK' /\ active' \in Nat /\ idle' \in Nat /\ pc' \in [Threads -> PCs]
  BY <1>1, <1>2, CountSteps
<1>4. pc'[t] = to /\ \A u \in Threads \ {t} : pc'[u] = pc[u]
  BY <1>1, <1>2 DEF TypeOK
<1>5. pipe' \in BOOLEAN /\ edge' \in BOOLEAN /\ tickled' \in [Threads -> BOOLEAN]
  BY <1>1, TickleType
<1>6. /\ queue' \subseteq Jobs /\ calls' \subseteq Jobs /\ timers' \subseteq Jobs
      /\ fdEvents' \subseteq Jobs /\ finished' \subseteq Jobs
  BY DEF PlacesOK, Apart
<1>7. TypeOK'
  BY <1>1, <1>3, <1>5, <1>6 DEF TypeOK
<1>8. HandsOK' /\ TermOK'
  BY <1>1, <1>4 DEF HandsOK, TermOK
<1>9. LastOK'
  BY DEF LastOK
<1> QED
  BY <1>3, <1>7, <1>8, <1>9 DEF IInv

(* What the other threads have to do is what it was.                         *)
LEMMA OthersLive ==
  ASSUME TypeOK, NEW t \in Threads, NEW to \in PCs, GoTo(t, pc[t], to),
         \A u \in Threads \ {t} : job'[u] = job[u]
  PROVE  /\ \A u \in Threads \ {t} : Live(u)' = Live(u)
         /\ Live(t)' = IF to \in LivePCs THEN job'[t] ELSE {}
  BY DEF TypeOK, GoTo, Live

(* The jobs stay where they are.                                             *)
LEMMA MoveKeeps ==
  ASSUME IInv, NEW t \in Threads, NEW to \in PCs, GoTo(t, pc[t], to),
         active' = (active + IF to \in ActivePCs THEN 1 ELSE 0)
                     - IF pc[t] \in ActivePCs THEN 1 ELSE 0,
         idle' = (idle + IF to \in IdlePCs THEN 1 ELSE 0)
                     - IF pc[t] \in IdlePCs THEN 1 ELSE 0,
         UNCHANGED <<entries, timers, fdEvents, waitsLeft, submitted, finished, idleTerm, stopping>>,
         exec' \subseteq Jobs,
         UNCHANGED job \/ (job' = [job EXCEPT ![t] = {}] /\ pc[t] \notin LivePCs),
         job'[t] = {} \/ (pc[t] \in LivePCs <=> to \in LivePCs),
         to \in {"exec", "call"} => \E j \in Jobs : job'[t] = {j},
         to # "tickle",
         to \in {"pop", "goidle", "exited"} \cup (IdlePCs \ {"batch"}) => job'[t] = {},
         UNCHANGED pending, pc[t] # "count", to # "count",
         TickleOrNot,
         idleTerm[t] => to \notin IdlePCs \cup {"goidle"},
         idleTerm[t] => active' = active \/ active # 0
  PROVE  IInv'
<1>1. TypeOK /\ PlacesOK /\ HandsOK /\ PendingOK
  BY DEF IInv
<1>2. UNCHANGED <<queue, calls, timers, fdEvents, submitted, finished>>
  BY DEF entries
<1>3. job' \in [Threads -> SUBSET Jobs] /\ \A u \in Threads \ {t} : job'[u] = job[u]
  BY <1>1 DEF TypeOK
<1>4. \A u \in Threads : Live(u)' = Live(u)
  <2>1. /\ \A u \in Threads \ {t} : Live(u)' = Live(u)
        /\ Live(t)' = IF to \in LivePCs THEN job'[t] ELSE {}
    BY <1>1, <1>3, OthersLive
  <2>2. Live(t)' = Live(t)
    BY <1>1, <2>1 DEF Live, TypeOK
  <2> QED
    BY <2>1, <2>2
<1>5. PlacesOK'
  BY <1>1, <1>2, <1>4 DEF PlacesOK, Apart, HandsApart, Placed
<1>6. idleTerm[t] => LastOK'
  BY <1>2 DEF IInv, LastOK, NoEntry
<1>7. submitted' \subseteq Jobs /\ waitsLeft' \in Nat /\ pending' \in Nat
  BY <1>1, <1>2 DEF TypeOK
<1>8. PendingOK'
  BY <1>1, <1>2, PendingStays DEF GoTo
<1> QED
  BY <1>3, <1>5, <1>6, <1>7, <1>8, StepKeeps

(* What else a step of run() or of idle() may change without moving a job.   *)
LEMMA StayingKeeps ==
  ASSUME IInv, NEW t \in Threads, NEW to \in PCs, GoTo(t, pc[t], to),
         UNCHANGED <<entries, waitVars, submitted, finished, job, idleTerm, stopping>>,
         exec' \subseteq Jobs, TickleOrNot,
         active' = (active + IF to \in ActivePCs THEN 1 ELSE 0)
                     - IF pc[t] \in ActivePCs THEN 1 ELSE 0,
         idle' = (idle + IF to \in IdlePCs THEN 1 ELSE 0)
                     - IF pc[t] \in IdlePCs THEN 1 ELSE 0,
         job[t] = {} \/ to \in {"exec", "hold", "swap", "settle"},
         job[t] = {} \/ (pc[t] \in LivePCs <=> to \in LivePCs),
         to = "exec" => \E j \in Jobs : job[t] = {j},
         to \notin {"call", "tickle", "count"}, pc[t] # "count",
         idleTerm[t] => to \notin IdlePCs \cup {"goidle"},
         active' # active => active # 0
  PROVE  IInv'
<1>1. UNCHANGED <<timers, fdEvents, pending, waitsLeft>> /\ job'[t] = job[t]
  BY DEF waitVars
<1>2. to \in {"pop", "goidle", "exited"} \cup (IdlePCs \ {"batch"}) => job'[t] = {}
  BY <1>1 DEF IdlePCs
<1> QED
  BY <1>1, <1>2, MoveKeeps

-----------------------------------------------------------------------------
(* run() finds no job, and the idle fiber is entered, asks stopping(),       *)
(* sleeps and is left.                                                       *)
LEMMA IdleKeeps ==
  ASSUME IInv, NEW t \in Threads,
         \/ FindNothing(t) \/ EnterIdle(t) \/ ReadTimers(t) \/ ReadEvents(t) \/ Sleep(t)
         \/ WakeByTickle(t) \/ WakeByEventOrTimeout(t) \/ LeaveIdle(t)
  PROVE  IInv'
<1>1. TypeOK /\ HandsOK /\ TermOK
  BY DEF IInv
<1>2. active \in Nat /\ idle \in Nat /\ exec \subseteq Jobs
  BY <1>1 DEF TypeOK
<1>3. /\ UNCHANGED <<entries, waitVars, stateVars, job, active, stopping, idleTerm>>
      /\ TickleOrNot
  BY <1>1 DEF FindNothing, EnterIdle, ReadTimers, ReadEvents, Sleep, WakeByTickle,
     WakeByEventOrTimeout, LeaveIdle, counters, TickleOrNot, TypeOK, pipeVars
<1>4. UNCHANGED <<submitted, finished, exec>>
  BY <1>3 DEF stateVars
<1>5. PICK to \in {"goidle", "exited", "timers?", "events?", "queue?", "wait", "collect", "pop"} :
        /\ GoTo(t, pc[t], to)
        /\ pc[t] \in {"pop", "goidle", "timers?", "events?", "queue?", "wait", "drain"}
        /\ pc[t] = "pop" => to \in {"goidle", "exited"} /\ (idleTerm[t] => to = "exited")
        /\ pc[t] # "pop" => to \notin {"goidle", "exited"}
        /\ pc[t] = "drain" <=> to = "pop"
        /\ idle' = (idle + IF pc[t] = "goidle" THEN 1 ELSE 0) - IF pc[t] = "drain" THEN 1 ELSE 0
  BY <1>2 DEF FindNothing, EnterIdle, ReadTimers, ReadEvents, Sleep, WakeByTickle,
     WakeByEventOrTimeout, LeaveIdle, counters, GoTo
<1>6. /\ job[t] = {} /\ to \in PCs
      /\ pc[t] \notin ActivePCs /\ to \notin ActivePCs
      /\ pc[t] \in IdlePCs <=> pc[t] \notin {"pop", "goidle"}
      /\ to \in IdlePCs <=> to \notin {"goidle", "exited", "pop"}
  BY <1>1, <1>5 DEF HandsOK, PCs, ActivePCs, IdlePCs
<1>7. idleTerm[t] => to \notin IdlePCs \cup {"goidle"}
  BY <1>1, <1>5, <1>6 DEF TermOK
<1>8. /\ active' = (active + IF to \in ActivePCs THEN 1 ELSE 0)
                     - IF pc[t] \in ActivePCs THEN 1 ELSE 0
      /\ idle' = (idle + IF to \in IdlePCs THEN 1 ELSE 0)
                     - IF pc[t] \in IdlePCs THEN 1 ELSE 0
  BY <1>2, <1>3, <1>5, <1>6
<1> QED
  BY <1>2, <1>3, <1>4, <1>5, <1>6, <1>7, <1>8, StayingKeeps

(* A fiber that registered its wait or ended its tickle goes on, and leaves  *)
(* its stack.                                                                *)
LEMMA RunKeeps ==
  ASSUME IInv, NEW t \in Threads, LateTickle(t) \/ FrontTickle(t) \/ Hold(t) \/ PutAway(t)
  PROVE  IInv'
<1>1. TypeOK /\ CountsOK /\ HandsOK /\ TermOK
  BY DEF IInv
<1>2. active \in Nat /\ idle \in Nat
  BY <1>1 DEF TypeOK
<1>3. /\ UNCHANGED <<entries, waitVars, submitted, finished, job, idle, stopping, idleTerm>>
      /\ TickleOrNot
  BY <1>1 DEF LateTickle, FrontTickle, Hold, PutAway, counters, stateVars, TickleOrNot
<1>4. PICK to \in {"exec", "hold", "swap", "settle"} :
        /\ GoTo(t, pc[t], to)
        /\ pc[t] \in {"tickle", "inserted", "hold", "swap"}
        /\ to = "exec" => pc[t] = "tickle" /\ job[t] # {}
        /\ pc[t] = "tickle" => to = "exec" \/ job[t] = {}
        /\ pc[t] = "swap" <=> to = "settle"
        /\ active' = active - IF pc[t] = "swap" THEN 1 ELSE 0
  BY <1>2 DEF LateTickle, FrontTickle, Hold, PutAway, GoTo, counters
<1>5. exec' \subseteq Jobs
  BY <1>1 DEF LateTickle, FrontTickle, Hold, PutAway, stateVars, TypeOK
<1>6. /\ to \in PCs /\ pc[t] \in ActivePCs /\ (to \in ActivePCs <=> to # "settle")
      /\ to \notin IdlePCs /\ pc[t] \notin IdlePCs
      /\ (pc[t] \in LivePCs <=> pc[t] = "tickle") /\ (to \in LivePCs <=> to = "exec")
  BY <1>4 DEF PCs, ActivePCs, IdlePCs, LivePCs
<1>7. /\ active' = (active + IF to \in ActivePCs THEN 1 ELSE 0)
                     - IF pc[t] \in ActivePCs THEN 1 ELSE 0
      /\ idle' = (idle + IF to \in IdlePCs THEN 1 ELSE 0)
                     - IF pc[t] \in IdlePCs THEN 1 ELSE 0
  BY <1>2, <1>3, <1>4, <1>6
<1>8. to = "exec" => \E j \in Jobs : job[t] = {j}
  BY <1>1, <1>4 DEF HandsOK
<1>9. active # 0
  BY <1>1, <1>6, NobodyActive
<1> QED
  BY <1>3, <1>4, <1>5, <1>6, <1>7, <1>8, <1>9, StayingKeeps

(* run() is done with the fiber.                                             *)
LEMMA SettleKeeps ==
  ASSUME IInv, NEW t \in Threads, Settle(t)
  PROVE  IInv'
<1>1. TypeOK /\ CountsOK
  BY DEF IInv
<1>2. /\ pc[t] = "settle" /\ GoTo(t, pc[t], "pop")
      /\ job' = [job EXCEPT ![t] = {}] /\ exec' \subseteq Jobs
      /\ UNCHANGED <<entries, timers, fdEvents, pending, waitsLeft, submitted, finished,
                     idleTerm, active, idle, stopping>>
      /\ TickleOrNot
  BY <1>1 DEF Settle, GoTo, TypeOK, waitVars, counters, TickleOrNot
<1>3. /\ "pop" \in PCs /\ "pop" \notin ActivePCs \cup IdlePCs
      /\ "settle" \notin ActivePCs \cup IdlePCs \cup LivePCs
  BY DEF PCs, ActivePCs, IdlePCs, LivePCs
<1>4. active \in Nat /\ idle \in Nat /\ job'[t] = {}
  BY <1>1, <1>2 DEF TypeOK
<1>5. /\ active' = (active + IF "pop" \in ActivePCs THEN 1 ELSE 0)
                     - IF pc[t] \in ActivePCs THEN 1 ELSE 0
      /\ idle' = (idle + IF "pop" \in IdlePCs THEN 1 ELSE 0)
                     - IF pc[t] \in IdlePCs THEN 1 ELSE 0
  BY <1>2, <1>3, <1>4
<1> QED
  BY <1>1, <1>2, <1>3, <1>4, <1>5, MoveKeeps

-----------------------------------------------------------------------------
(* A queued fiber, or the callback of a timer, is taken from m_fibers.       *)
LEMMA TakeKeeps ==
  ASSUME IInv, NEW t \in Threads, NEW j \in Jobs, Take(t, j) \/ TakeCall(t, j)
  PROVE  IInv'
<1>1. TypeOK /\ PlacesOK /\ PendingOK /\ HandsOK /\ TermOK /\ LastOK
  BY DEF IInv
<1>2. PICK to \in {"exec", "call"} : GoTo(t, pc[t], to)
  BY DEF Take, TakeCall, GoTo
<1>3. /\ pc[t] = "pop" /\ active' = active + 1 /\ job' = [job EXCEPT ![t] = {j}]
      /\ exec' \subseteq Jobs
      /\ UNCHANGED <<timers, fdEvents, pending, waitsLeft, submitted, finished, idleTerm, idle,
                     stopping>>
      /\ TickleOrNot
  BY <1>1 DEF Take, TakeCall, GoTo, stateVars, waitVars, TypeOK, TickleOrNot
<1>4. /\ queue' \subseteq queue /\ calls' \subseteq calls /\ j \in queue \cup calls
      /\ queue' \cup calls' = (queue \cup calls) \ {j}
  BY <1>1 DEF Take, TakeCall, PlacesOK, Apart
<1>5. /\ job' \in [Threads -> SUBSET Jobs] /\ job'[t] = {j}
      /\ \A u \in Threads \ {t} : job'[u] = job[u]
  BY <1>1, <1>3 DEF TypeOK
<1>6. /\ to \in PCs /\ to \in ActivePCs /\ to \notin IdlePCs /\ to \in LivePCs
      /\ pc[t] \notin ActivePCs \cup IdlePCs \cup LivePCs
  BY <1>2, <1>3 DEF PCs, ActivePCs, IdlePCs, LivePCs
<1>7. Live(t) = {} /\ Live(t)' = {j} /\ \A u \in Threads \ {t} : Live(u)' = Live(u)
  BY <1>1, <1>2, <1>5, <1>6, OthersLive DEF Live
<1>8. PlacesOK'
  <2>1. Apart' /\ j \in submitted
           /\ j \notin queue' \cup calls' \cup timers' \cup fdEvents' \cup finished'
    BY <1>1, <1>3, <1>4 DEF PlacesOK, Apart
  <2>2. \A u \in Threads : j \notin Live(u)
    BY <1>1, <1>4 DEF PlacesOK, HandsApart
  <2>3. HandsApart'
    BY <1>1, <1>3, <1>4, <1>7, <2>1, <2>2 DEF PlacesOK, HandsApart
  <2>4. Placed'
    BY <1>1, <1>3, <1>4, <1>7 DEF PlacesOK, Placed
  <2> QED
    BY <2>1, <2>3, <2>4 DEF PlacesOK
<1>9. /\ active' = (active + IF to \in ActivePCs THEN 1 ELSE 0)
                     - IF pc[t] \in ActivePCs THEN 1 ELSE 0
      /\ idle' = (idle + IF to \in IdlePCs THEN 1 ELSE 0)
                     - IF pc[t] \in IdlePCs THEN 1 ELSE 0
  BY <1>1, <1>3, <1>6 DEF TypeOK
<1>10. PendingOK'
  BY <1>1, <1>2, <1>3, <1>6, PendingStays DEF GoTo
<1>11. idleTerm[t] => LastOK'
  BY <1>1, <1>3, <1>4 DEF LastOK, NoEntry
<1>12. submitted' \subseteq Jobs /\ waitsLeft' \in Nat /\ pending' \in Nat
  BY <1>1, <1>3 DEF TypeOK
<1>13. to # "tickle" /\ to \notin {"pop", "goidle", "exited"} \cup IdlePCs
  BY <1>2, <1>6
<1> QED
  BY <1>2, <1>3, <1>5, <1>6, <1>8, <1>9, <1>10, <1>11, <1>12, <1>13, StepKeeps

(* A job that was never scheduled comes into the queue.                      *)
LEMMA SubmitPlaces ==
  ASSUME TypeOK, PlacesOK, NEW j \in Jobs, Submit(j), UNCHANGED <<timers, fdEvents>>,
         \A u \in Threads : Live(u)' = Live(u)
  PROVE  PlacesOK' /\ submitted' \subseteq Jobs
<1>1. /\ j \notin submitted /\ submitted' = submitted \cup {j} /\ queue' = queue \cup {j}
      /\ UNCHANGED <<calls, timers, fdEvents, finished>>
  BY DEF Submit, Enqueue
<1>2. Apart'
  BY <1>1 DEF PlacesOK, Apart
<1>3. HandsApart'
  BY <1>1 DEF PlacesOK, HandsApart
<1>4. Placed'
  BY <1>1 DEF PlacesOK, Placed
<1> QED
  BY <1>1, <1>2, <1>3, <1>4 DEF PlacesOK, TypeOK

(* A fiber that executes schedules a new one.                                *)
LEMMA SpawnKeeps ==
  ASSUME IInv, NEW t \in Threads, NEW j \in Jobs, Spawn(t, j)
  PROVE  IInv'
<1>1. TypeOK /\ PlacesOK /\ CountsOK /\ PendingOK /\ HandsOK /\ TermOK /\ LastOK
  BY DEF IInv
<1>2. PICK to \in {"exec", "tickle"} : GoTo(t, pc[t], to)
  BY DEF Spawn, GoTo
<1>3. /\ pc[t] = "exec" /\ Submit(j)
      /\ UNCHANGED <<timers, fdEvents, pending, waitsLeft, exec, job, idleTerm, active, idle,
                     stopping>>
      /\ TickleOrNot
  BY DEF Spawn, GoTo, waitVars, counters, Submit, TickleOrNot
<1>4. /\ to \in PCs /\ to \in ActivePCs /\ to \notin IdlePCs /\ to \in LivePCs
      /\ pc[t] \in ActivePCs /\ pc[t] \notin IdlePCs /\ pc[t] \in LivePCs
  BY <1>2, <1>3 DEF PCs, ActivePCs, IdlePCs, LivePCs
<1>5. \A u \in Threads : Live(u)' = Live(u)
  BY <1>1, <1>2, <1>3, <1>4, OthersLive DEF Live
<1>6. PlacesOK' /\ submitted' \subseteq Jobs
  BY <1>1, <1>3, <1>5, SubmitPlaces
<1>7. /\ active' = (active + IF to \in ActivePCs THEN 1 ELSE 0)
                     - IF pc[t] \in ActivePCs THEN 1 ELSE 0
      /\ idle' = (idle + IF to \in IdlePCs THEN 1 ELSE 0)
                     - IF pc[t] \in IdlePCs THEN 1 ELSE 0
  BY <1>1, <1>3, <1>4 DEF TypeOK
<1>8. PendingOK'
  BY <1>1, <1>2, <1>3, <1>4, PendingStays DEF GoTo
<1>9. active # 0 /\ (idleTerm[t] => LastOK')
  <2>1. active # 0
    BY <1>1, <1>4, NobodyActive
  <2> QED
    BY <1>1, <1>3, <2>1 DEF LastOK
<1>10. exec' \subseteq Jobs /\ waitsLeft' \in Nat /\ pending' \in Nat
       /\ job' \in [Threads -> SUBSET Jobs]
  BY <1>1, <1>3 DEF TypeOK
<1>11. (\E k \in Jobs : job'[t] = {k}) /\ \A u \in Threads \ {t} : job'[u] = job[u]
  BY <1>1, <1>3 DEF HandsOK
<1>12. to \notin {"pop", "goidle", "exited"} \cup IdlePCs
  BY <1>2, <1>4
<1> QED
  BY <1>2, <1>3, <1>4, <1>6, <1>7, <1>8, <1>9, <1>10, <1>11, <1>12, StepKeeps

(* A thread hands on the jobs it has in hand, all of them to one place.      *)
LEMMA HandOnPlaces ==
  ASSUME TypeOK, PlacesOK, NEW t \in Threads, NEW to \in PCs, GoTo(t, pc[t], to),
         pc[t] \in LivePCs, to \notin LivePCs \/ job'[t] = {},
         \A u \in Threads \ {t} : job'[u] = job[u],
         UNCHANGED submitted,
         \/ queue' = queue \cup job[t] /\ UNCHANGED <<calls, timers, fdEvents, finished>>
         \/ calls' = calls \cup job[t] /\ UNCHANGED <<queue, timers, fdEvents, finished>>
         \/ timers' = timers \cup job[t] /\ UNCHANGED <<queue, calls, fdEvents, finished>>
         \/ fdEvents' = fdEvents \cup job[t] /\ UNCHANGED <<queue, calls, timers, finished>>
         \/ finished' = finished \cup job[t] /\ UNCHANGED <<queue, calls, timers, fdEvents>>
  PROVE  PlacesOK'
<1>1. Live(t) = job[t] /\ Live(t)' = {} /\ \A u \in Threads \ {t} : Live(u)' = Live(u)
  BY OthersLive DEF Live
<1>2. /\ job[t] \subseteq submitted
      /\ job[t] \cap (queue \cup calls \cup timers \cup fdEvents \cup finished) = {}
      /\ \A u \in Threads \ {t} : job[t] \cap Live(u) = {}
  BY <1>1 DEF PlacesOK, HandsApart
<1>3. Apart'
  BY <1>2 DEF PlacesOK, Apart
<1>4. HandsApart'
  BY <1>1, <1>2 DEF PlacesOK, HandsApart
<1>5. Placed'
  BY <1>1 DEF PlacesOK, Placed
<1> QED
  BY <1>3, <1>4, <1>5 DEF PlacesOK

(* The fiber ends or registers its wait; a timer's callback schedules.       *)
LEMMA HandOnKeeps ==
  ASSUME IInv, NEW t \in Threads,
         Finish(t) \/ WaitForTimer(t) \/ WaitForEvent(t) \/ CallSchedules(t)
  PROVE  IInv'
<1>1. TypeOK /\ PlacesOK /\ CountsOK /\ PendingOK /\ HandsOK /\ TermOK /\ LastOK
  BY DEF IInv
<1>2. PICK to \in {"swap", "hold", "inserted", "tickle"} :
        GoTo(t, pc[t], to) /\ (to = "tickle" => CallSchedules(t))
  BY DEF Finish, WaitForTimer, WaitForEvent, CallSchedules, GoTo
<1>3. /\ pc[t] \in {"exec", "call"}
      /\ UNCHANGED <<submitted, idleTerm, active, idle, stopping>>
      /\ job' \in [Threads -> SUBSET Jobs] /\ \A u \in Threads \ {t} : job'[u] = job[u]
      /\ exec' \subseteq Jobs /\ waitsLeft' \in Nat
      /\ TickleOrNot
  BY <1>1 DEF Finish, WaitForTimer, WaitForEvent, CallSchedules, GoTo, stateVars, waitVars, counters,
     TypeOK, TickleOrNot
<1>4. CallSchedules(t) => job'[t] = {}
  BY <1>1 DEF CallSchedules, TypeOK
<1>5. /\ to \in PCs /\ to \in ActivePCs /\ to \notin IdlePCs
      /\ to \notin {"pop", "goidle", "exited", "exec", "call"}
      /\ to \in LivePCs => to = "tickle"
      /\ pc[t] \in ActivePCs /\ pc[t] \notin IdlePCs /\ pc[t] \in LivePCs
  BY <1>2, <1>3 DEF PCs, ActivePCs, IdlePCs, LivePCs
<1>6. \/ queue' = queue \cup job[t] /\ UNCHANGED <<calls, timers, fdEvents, finished>>
      \/ timers' = timers \cup job[t] /\ UNCHANGED <<queue, calls, fdEvents, finished>>
      \/ fdEvents' = fdEvents \cup job[t] /\ UNCHANGED <<queue, calls, timers, finished>>
      \/ finished' = finished \cup job[t] /\ UNCHANGED <<queue, calls, timers, fdEvents>>
  BY DEF Finish, WaitForTimer, WaitForEvent, CallSchedules, Enqueue, stateVars, waitVars, entries
<1>7. PlacesOK'
  BY <1>1, <1>2, <1>3, <1>4, <1>5, <1>6, HandOnPlaces
<1>8. /\ active' = (active + IF to \in ActivePCs THEN 1 ELSE 0)
                     - IF pc[t] \in ActivePCs THEN 1 ELSE 0
      /\ idle' = (idle + IF to \in IdlePCs THEN 1 ELSE 0)
                     - IF pc[t] \in IdlePCs THEN 1 ELSE 0
  BY <1>1, <1>3, <1>5 DEF TypeOK
<1>9. idleTerm[t] => LastOK'
  <2>1. active # 0
    BY <1>1, <1>5, NobodyActive
  <2> QED
    BY <1>1, <1>3, <2>1 DEF LastOK
<1>10. PendingOK' /\ pending' \in Nat
  <2>1. CASE WaitForEvent(t)
    <3>1. /\ pending' = pending + 1 /\ pending \in Nat /\ fdEvents' = fdEvents \cup job[t]
          /\ pc[t] = "exec"
      BY <1>1, <2>1 DEF WaitForEvent, GoTo, TypeOK
    <3>2. PICK j \in Jobs : job[t] = {j}
      BY <1>1, <3>1 DEF HandsOK
    <3>3. j \notin fdEvents
      BY <1>1, <1>5, <3>2 DEF PlacesOK, HandsApart, Live
    <3>4. /\ IsFiniteSet(fdEvents') /\ Cardinality(fdEvents') = Cardinality(fdEvents) + 1
          /\ Cardinality(fdEvents) \in Nat
      BY <1>1, <3>1, <3>2, <3>3, FS_AddElement, FS_CardinalityType DEF PendingOK
    <3>5. pending' - pending = (Cardinality(fdEvents') - Cardinality(fdEvents))
                               + ((IF to = "count" THEN 1 ELSE 0)
                                    - (IF pc[t] = "count" THEN 1 ELSE 0))
      BY <1>2, <3>1, <3>4
    <3>6. pending' \in Nat /\ pc' = [pc EXCEPT ![t] = to]
      BY <1>2, <3>1 DEF GoTo
    <3>7. PendingOK'
      BY <1>1, <1>5, <3>4, <3>5, <3>6, PendingSteps
    <3> QED
      BY <3>6, <3>7
  <2>2. CASE ~WaitForEvent(t)
    <3>1. UNCHANGED <<fdEvents, pending>>
      BY <2>2 DEF Finish, WaitForTimer, CallSchedules, waitVars
    <3> QED
      BY <1>1, <1>2, <1>3, <1>5, <3>1, PendingStays DEF GoTo, TypeOK
  <2> QED
    BY <2>1, <2>2
<1>11. submitted' \subseteq Jobs
  BY <1>1, <1>3 DEF TypeOK
<1> QED
  BY <1>2, <1>3, <1>4, <1>5, <1>7, <1>8, <1>9, <1>10, <1>11, StepKeeps

(* The expired timers are collected, and their callbacks scheduled at once.  *)
LEMMA BatchKeeps ==
  ASSUME IInv, NEW t \in Threads,
         (\E due \in SUBSET timers : CollectTimers(t, due)) \/ ScheduleBatch(t)
  PROVE  IInv'
<1>1. TypeOK /\ PlacesOK /\ PendingOK /\ HandsOK /\ TermOK
  BY DEF IInv
<1>2. PICK to \in {"batch", "drain"} :
        /\ pc[t] \in {"collect", "batch"} /\ GoTo(t, pc[t], to)
        /\ to = "drain" <=> pc[t] = "batch"
  BY DEF CollectTimers, ScheduleBatch, GoTo
<1>3. /\ UNCHANGED <<queue, fdEvents, pending, finished, waitsLeft, submitted, exec, idleTerm,
                     active, idle, stopping>>
      /\ TickleOrNot
  BY DEF CollectTimers, ScheduleBatch, waitVars, stateVars, counters, entries, TickleOrNot,
     TickleIfEmpty
<1>4. /\ to \in PCs /\ to \notin ActivePCs /\ to \in IdlePCs
      /\ pc[t] \notin ActivePCs /\ pc[t] \in IdlePCs
      /\ to \in LivePCs <=> to = "batch"
      /\ pc[t] \in LivePCs <=> pc[t] = "batch"
  BY <1>2 DEF PCs, ActivePCs, IdlePCs, LivePCs
<1>5. /\ active' = (active + IF to \in ActivePCs THEN 1 ELSE 0)
                     - IF pc[t] \in ActivePCs THEN 1 ELSE 0
      /\ idle' = (idle + IF to \in IdlePCs THEN 1 ELSE 0)
                     - IF pc[t] \in IdlePCs THEN 1 ELSE 0
  BY <1>1, <1>3, <1>4 DEF TypeOK
<1>6. ~idleTerm[t]
  BY <1>1, <1>4 DEF TermOK
<1>7. PendingOK'
  BY <1>1, <1>2, <1>3, <1>4, PendingStays DEF GoTo
<1>8. /\ submitted' \subseteq Jobs /\ exec' \subseteq Jobs /\ waitsLeft' \in Nat
      /\ pending' \in Nat
  BY <1>1, <1>3 DEF TypeOK
<1>9. job' \in [Threads -> SUBSET Jobs] /\ \A u \in Threads \ {t} : job'[u] = job[u]
  BY <1>1 DEF CollectTimers, ScheduleBatch, TypeOK
<1>10. to = "drain" => job'[t] = {}
  BY <1>1, <1>2 DEF CollectTimers, ScheduleBatch, GoTo, TypeOK
<1>11. PlacesOK'
  <2>1. CASE ScheduleBatch(t)
    <3>1. pc[t] = "batch" /\ calls' = calls \cup job[t] /\ UNCHANGED timers /\ to = "drain"
      BY <1>2, <2>1 DEF ScheduleBatch, GoTo, waitVars
    <3> QED
      BY <1>1, <1>2, <1>3, <1>4, <1>9, <1>10, <3>1, HandOnPlaces
  <2>2. ASSUME NEW due \in SUBSET timers, CollectTimers(t, due) PROVE PlacesOK'
    <3>1. /\ timers' = timers \ due /\ UNCHANGED calls /\ job' = [job EXCEPT ![t] = due]
          /\ pc[t] = "collect" /\ to = "batch"
      BY <1>2, <2>2 DEF CollectTimers, GoTo, entries
    <3>2. Live(t) = {} /\ Live(t)' = due /\ \A u \in Threads \ {t} : Live(u)' = Live(u)
      BY <1>1, <1>2, <1>4, <1>9, <3>1, OthersLive DEF Live, TypeOK
    <3>3. /\ Apart' /\ due \subseteq submitted'
          /\ due \cap (queue' \cup calls' \cup timers' \cup fdEvents' \cup finished') = {}
      BY <1>1, <1>3, <3>1 DEF PlacesOK, Apart
    <3>4. \A u \in Threads : due \cap Live(u) = {}
      BY <1>1 DEF PlacesOK, HandsApart
    <3>5. HandsApart'
      BY <1>1, <1>3, <3>1, <3>2, <3>3, <3>4 DEF PlacesOK, HandsApart
    <3>6. Placed'
      BY <1>1, <1>3, <3>1, <3>2 DEF PlacesOK, Placed
    <3> QED
      BY <3>3, <3>5, <3>6 DEF PlacesOK
  <2> QED
    BY <2>1, <2>2
<1> QED
  BY <1>2, <1>3, <1>4, <1>5, <1>6, <1>7, <1>8, <1>9, <1>10, <1>11, StepKeeps

(* The waiter of an event is scheduled, and then the count drops.            *)
LEMMA EventKeeps ==
  ASSUME IInv, NEW t \in Threads, (\E j \in Jobs : TriggerEvent(t, j)) \/ CountDown(t)
  PROVE  IInv'
<1>1. TypeOK /\ PlacesOK /\ PendingOK /\ HandsOK /\ TermOK
  BY DEF IInv
<1>2. PICK to \in {"count", "drain"} :
        /\ pc[t] \in {"count", "drain"} \ {to} /\ GoTo(t, pc[t], to)
        /\ to = "drain" => CountDown(t)
        /\ to = "count" => \E j \in Jobs : TriggerEvent(t, j)
  BY DEF TriggerEvent, CountDown, GoTo
<1>3. /\ UNCHANGED <<calls, timers, finished, waitsLeft, submitted, exec, job, idleTerm, active,
                     idle, stopping>>
      /\ TickleOrNot
  BY DEF TriggerEvent, CountDown, stateVars, counters, entries, Enqueue, TickleOrNot, TickleIfEmpty
<1>4. /\ to \in PCs /\ to \notin ActivePCs /\ to \in IdlePCs \ {"batch"}
      /\ pc[t] \notin ActivePCs /\ pc[t] \in IdlePCs \ {"batch"}
      /\ to \notin LivePCs /\ pc[t] \notin LivePCs
  BY <1>2 DEF PCs, ActivePCs, IdlePCs, LivePCs
<1>5. /\ active' = (active + IF to \in ActivePCs THEN 1 ELSE 0)
                     - IF pc[t] \in ActivePCs THEN 1 ELSE 0
      /\ idle' = (idle + IF to \in IdlePCs THEN 1 ELSE 0)
                     - IF pc[t] \in IdlePCs THEN 1 ELSE 0
  BY <1>1, <1>3, <1>4 DEF TypeOK
<1>6. ~idleTerm[t] /\ job[t] = {}
  BY <1>1, <1>4 DEF TermOK, HandsOK
<1>7. /\ submitted' \subseteq Jobs /\ exec' \subseteq Jobs /\ waitsLeft' \in Nat
      /\ job' \in [Threads -> SUBSET Jobs] /\ \A u \in Threads \ {t} : job'[u] = job[u]
  BY <1>1, <1>3 DEF TypeOK
<1>8. \A u \in Threads : Live(u)' = Live(u)
  BY <1>1, <1>2, <1>4, <1>7, OthersLive DEF Live
<1>9. pc' = [pc EXCEPT ![t] = to] /\ pending \in Nat
  BY <1>1, <1>2 DEF GoTo, TypeOK
<1>10. IsFiniteSet(fdEvents) /\ Cardinality(fdEvents) \in Nat
  BY <1>1, FS_CardinalityType DEF PendingOK
<1>11. PlacesOK' /\ PendingOK' /\ pending' \in Nat
  <2>1. CASE to = "count"
    <3>1. PICK j \in Jobs : TriggerEvent(t, j)
      BY <1>2, <2>1
    <3>2. /\ j \in fdEvents /\ fdEvents' = fdEvents \ {j} /\ queue' = queue \cup {j}
          /\ pending' = pending
      BY <3>1 DEF TriggerEvent, Enqueue
    <3>3. /\ IsFiniteSet(fdEvents') /\ Cardinality(fdEvents') = Cardinality(fdEvents) - 1
      BY <1>10, <3>2, FS_RemoveElement
    <3>4. pending' - pending = (Cardinality(fdEvents') - Cardinality(fdEvents))
                               + ((IF to = "count" THEN 1 ELSE 0)
                                    - (IF pc[t] = "count" THEN 1 ELSE 0))
      BY <1>2, <1>9, <1>10, <2>1, <3>2, <3>3
    <3>5. PendingOK'
      BY <1>1, <1>4, <1>9, <3>2, <3>3, <3>4, PendingSteps
    <3>6. Apart'
      BY <1>1, <1>3, <3>2 DEF PlacesOK, Apart
    <3>7. HandsApart'
      BY <1>1, <1>3, <1>8, <3>2 DEF PlacesOK, HandsApart
    <3>8. Placed'
      BY <1>1, <1>3, <1>8, <3>2 DEF PlacesOK, Placed
    <3> QED
      BY <1>9, <3>2, <3>5, <3>6, <3>7, <3>8 DEF PlacesOK
  <2>2. CASE to = "drain"
    <3>1. /\ UNCHANGED <<queue, fdEvents>> /\ pending' = pending - 1 /\ pc[t] = "count"
      BY <1>2, <2>2 DEF CountDown, entries, GoTo
    <3>2. PlacesOK'
      BY <1>1, <1>3, <1>8, <3>1 DEF PlacesOK, Apart, HandsApart, Placed
    <3>3. pending # 0
      <4>1. t \in At({"count"}) /\ IsFiniteSet(At({"count"}))
        BY <3>1, IdleAssumption, FS_Subset DEF At
      <4>2. Cardinality(At({"count"})) # 0 /\ Cardinality(At({"count"})) \in Nat
        BY <4>1, FS_EmptySet, FS_CardinalityType
      <4> QED
        BY <1>1, <1>10, <4>2 DEF PendingOK
    <3>4. pending' - pending = (Cardinality(fdEvents') - Cardinality(fdEvents))
                               + ((IF to = "count" THEN 1 ELSE 0)
                                    - (IF pc[t] = "count" THEN 1 ELSE 0))
      BY <1>9, <1>10, <2>2, <3>1
    <3>5. pending' \in Nat /\ IsFiniteSet(fdEvents')
      BY <1>9, <1>10, <3>1, <3>3
    <3>6. PendingOK'
      BY <1>1, <1>4, <1>9, <3>4, <3>5, PendingSteps
    <3> QED
      BY <3>2, <3>5, <3>6
  <2> QED
    BY <1>2, <2>1, <2>2
<1>12. /\ to \notin {"exec", "call", "tickle", "pop", "goidle", "exited"} /\ job'[t] = {}
  BY <1>2, <1>3, <1>6
<1> QED
  BY <1>2, <1>3, <1>4, <1>5, <1>6, <1>7, <1>11, <1>12, StepKeeps
-----------------------------------------------------------------------------
(* No thread moves: the pipe is drained, or a thread outside the pool        *)
(* schedules or stops.                                                       *)
LEMMA StayKeeps ==
  ASSUME IInv, PlacesOK', submitted' \subseteq Jobs, TickleOrNot,
         UNCHANGED <<fdEvents, pending, exec, waitsLeft, pc, job, idleTerm, active, idle>>,
         stopping' \in BOOLEAN, stopping => stopping',
         (queue' = queue /\ calls' = calls) \/ \E t \in Threads : ~idleTerm[t]
  PROVE  IInv'
<1>1. TypeOK /\ CountsOK /\ PendingOK /\ HandsOK /\ TermOK /\ LastOK
  BY DEF IInv
<1>2. pipe' \in BOOLEAN /\ edge' \in BOOLEAN /\ tickled' \in [Threads -> BOOLEAN]
  BY <1>1, TickleType
<1>3. TypeOK'
  BY <1>1, <1>2 DEF TypeOK, PlacesOK, Apart
<1>4. CountsOK' /\ PendingOK'
  <2>1. /\ At(ActivePCs)' = At(ActivePCs) /\ At(IdlePCs)' = At(IdlePCs)
        /\ At({"count"})' = At({"count"})
    BY DEF At
  <2> QED
    BY <1>1, <2>1 DEF CountsOK, PendingOK
<1>5. HandsOK' /\ TermOK' /\ LastOK'
  BY <1>1 DEF HandsOK, TermOK, LastOK, NoEntry
<1> QED
  BY <1>3, <1>4, <1>5 DEF IInv

LEMMA DrainKeeps ==
  ASSUME IInv, NEW t \in Threads, DrainPipe(t)
  PROVE  IInv'
<1>1. /\ UNCHANGED <<queue, calls, timers, fdEvents, pending, waitsLeft, submitted, finished,
                     exec, pc, job, idleTerm, active, idle, stopping>>
      /\ TickleOrNot /\ stopping' \in BOOLEAN
  BY DEF DrainPipe, entries, waitVars, stateVars, counters, TickleOrNot, IInv, TypeOK
<1>2. \A u \in Threads : Live(u)' = Live(u)
  BY <1>1 DEF Live
<1>3. PlacesOK'
  BY <1>1, <1>2 DEF IInv, PlacesOK, Apart, HandsApart, Placed
<1>4. submitted' \subseteq Jobs
  BY <1>1 DEF IInv, TypeOK
<1> QED
  BY <1>1, <1>3, <1>4, StayKeeps

LEMMA OwnerKeeps ==
  ASSUME IInv, Stop \/ \E j \in Jobs : OwnerSchedules(j)
  PROVE  IInv'
<1>1. TypeOK /\ PlacesOK /\ TermOK
  BY DEF IInv
<1>2. CASE Stop
  <2>1. /\ UNCHANGED <<queue, calls, timers, fdEvents, pending, waitsLeft, submitted, finished,
                       exec, pc, job, idleTerm, active, idle>>
        /\ stopping' = TRUE /\ TickleOrNot
    BY <1>2 DEF Stop, entries, waitVars, stateVars, TickleOrNot
  <2>2. \A u \in Threads : Live(u)' = Live(u)
    BY <2>1 DEF Live
  <2>3. PlacesOK' /\ submitted' \subseteq Jobs
    BY <1>1, <2>1, <2>2 DEF PlacesOK, Apart, HandsApart, Placed, TypeOK
  <2> QED
    BY <2>1, <2>3, StayKeeps
<1>3. ASSUME NEW j \in Jobs, OwnerSchedules(j) PROVE IInv'
  <2>1. /\ ~stopping /\ Submit(j) /\ TickleOrNot
        /\ UNCHANGED <<timers, fdEvents, pending, waitsLeft, exec, pc, job, idleTerm, active, idle,
                       stopping>>
    BY <1>3 DEF OwnerSchedules, waitVars, counters, Submit, TickleOrNot, TickleIfEmpty
  <2>2. \A u \in Threads : Live(u)' = Live(u)
    BY <2>1 DEF Live
  <2>3. PlacesOK' /\ submitted' \subseteq Jobs
    BY <1>1, <2>1, <2>2, SubmitPlaces
  <2>4. \E t \in Threads : ~idleTerm[t]
    BY <1>1, <2>1, IdleAssumption DEF TermOK
  <2>5. stopping' \in BOOLEAN
    BY <1>1, <2>1 DEF TypeOK
  <2> QED
    BY <2>1, <2>3, <2>4, <2>5, StayKeeps
<1> QED
  BY <1>2, <1>3

(* The idle fiber ends: stopping() saw, under m_mutex, an empty queue and    *)
(* nobody executing.                                                         *)
LEMMA LeaveForGoodKeeps ==
  ASSUME IInv, NEW t \in Threads, LeaveIdleForGood(t)
  PROVE  IInv'
<1>1. TypeOK /\ PlacesOK /\ CountsOK /\ PendingOK /\ HandsOK /\ TermOK
  BY DEF IInv
<1>2. /\ stopping /\ NoEntry /\ active = 0
      /\ pc[t] = "queue?" /\ GoTo(t, pc[t], "pop") /\ pc' = [pc EXCEPT ![t] = "pop"]
      /\ idleTerm' = [idleTerm EXCEPT ![t] = TRUE] /\ idle' = idle - 1
      /\ UNCHANGED <<queue, calls, timers, fdEvents, pending, waitsLeft, submitted, finished,
                     exec, job, active, stopping, pipe, edge, tickled>>
  BY DEF LeaveIdleForGood, SchedulerStopping, GoTo, entries, waitVars, stateVars, pipeVars
<1>3. /\ "pop" \in PCs /\ active \in Nat /\ idle \in Nat /\ job[t] = {}
      /\ "pop" \notin ActivePCs \cup IdlePCs \cup LivePCs /\ pc[t] \notin ActivePCs \cup LivePCs
      /\ pc[t] \in IdlePCs
  BY <1>1, <1>2 DEF TypeOK, PCs, ActivePCs, IdlePCs, LivePCs, HandsOK
<1>4. CountsOK' /\ active' \in Nat /\ idle' \in Nat /\ pc' \in [Threads -> PCs]
  <2>1. /\ active' = (active + IF "pop" \in ActivePCs THEN 1 ELSE 0)
                       - IF pc[t] \in ActivePCs THEN 1 ELSE 0
        /\ idle' = (idle + IF "pop" \in IdlePCs THEN 1 ELSE 0)
                       - IF pc[t] \in IdlePCs THEN 1 ELSE 0
    BY <1>2, <1>3
  <2> QED
    BY <1>1, <1>2, <1>3, <2>1, CountSteps
<1>5. /\ pc'[t] = "pop" /\ \A u \in Threads \ {t} : pc'[u] = pc[u]
      /\ \A u \in Threads \ {t} : idleTerm'[u] = idleTerm[u]
      /\ idleTerm' \in [Threads -> BOOLEAN]
  BY <1>1, <1>2 DEF TypeOK
<1>6. TypeOK'
  BY <1>1, <1>2, <1>4, <1>5 DEF TypeOK
<1>7. PlacesOK'
  <2>1. \A u \in Threads : Live(u)' = Live(u)
    BY <1>1, <1>2, <1>3, OthersLive DEF Live
  <2> QED
    BY <1>1, <1>2, <2>1 DEF PlacesOK, Apart, HandsApart, Placed
<1>8. PendingOK'
  BY <1>1, <1>2, <1>3, PendingStays
<1>9. HandsOK' /\ TermOK'
  BY <1>1, <1>2, <1>3, <1>5 DEF HandsOK, TermOK, IdlePCs
<1>10. LastOK'
  BY <1>2 DEF LastOK, NoEntry
<1> QED
  BY <1>4, <1>6, <1>7, <1>8, <1>9, <1>10 DEF IInv
-----------------------------------------------------------------------------
LEMMA NextKeeps == IInv /\ [Next]_vars => IInv'
<1> SUFFICES ASSUME IInv, [Next]_vars PROVE IInv'
  OBVIOUS
<1>1. ASSUME NEW t \in Threads, Runs(t) PROVE IInv'
  BY <1>1, TakeKeeps, SpawnKeeps, HandOnKeeps, IdleKeeps, RunKeeps, SettleKeeps DEF Runs
<1>2. ASSUME NEW t \in Threads, Idles(t) PROVE IInv'
  BY <1>2, IdleKeeps, BatchKeeps, EventKeeps, DrainKeeps, LeaveForGoodKeeps DEF Idles
<1>3. CASE Stop \/ \E j \in Jobs : OwnerSchedules(j)
  BY <1>3, OwnerKeeps
<1>4. CASE UNCHANGED vars
  <2>1. UNCHANGED <<queue, calls, timers, fdEvents, pending, submitted, finished, exec, waitsLeft,
                    pc, job, idleTerm, active, idle, stopping, pipe, edge, tickled>>
    BY <1>4 DEF vars, entries, waitVars, stateVars, counters, pipeVars
  <2>2. \A u \in Threads : Live(u)' = Live(u)
    BY <2>1 DEF Live
  <2>3. PlacesOK'
    BY <2>1, <2>2 DEF IInv, PlacesOK, Apart, HandsApart, Placed
  <2>4. TickleOrNot /\ submitted' \subseteq Jobs /\ stopping' \in BOOLEAN
    BY <2>1 DEF IInv, TypeOK, TickleOrNot, pipeVars
  <2> QED
    BY <2>1, <2>3, <2>4, StayKeeps
<1> QED
  BY <1>1, <1>2, <1>3, <1>4 DEF Next, Terminated, Step

LEMMA InvariantHolds == Spec => []IInv
<1>1. Init => IInv
  BY InitHolds
<1>2. IInv /\ [Next]_vars => IInv'
  BY NextKeeps
<1> QED
  BY <1>1, <1>2, PTL DEF Spec

(* A thread counts as long as it is somewhere the count is about.            *)
LEMMA Counted ==
  ASSUME NEW t \in Threads, NEW pcs, pc[t] \in pcs
  PROVE  Cardinality(At(pcs)) > 0
<1>1. IsFiniteSet(At(pcs)) /\ t \in At(pcs)
  BY IdleAssumption, FS_Subset DEF At
<1>2. Cardinality(At(pcs)) # 0 /\ Cardinality(At(pcs)) \in Nat
  BY <1>1, FS_EmptySet, FS_CardinalityType
<1> QED
  BY <1>2

(* Every fiber that was scheduled and has not ended is in m_fibers, listed   *)
(* for a timer, registered and counted as pending, executed by a thread that *)
(* is counted as active, or in a batch of a thread that is not done with     *)
(* idle() (iomanager.cpp:123-129, 396-464, scheduler.cpp:183-231).           *)
THEOREM SeenCorrect == Spec => []SeenByStopping
<1>1. IInv => SeenByStopping
  <2> SUFFICES ASSUME IInv, NEW j \in submitted \ finished
               PROVE  \/ j \in queue \cup calls \cup timers
                      \/ j \in fdEvents /\ pending > 0
                      \/ \E t \in Threads :
                           /\ j \in job[t]
                           /\ \/ Executing(t) /\ active > 0
                              \/ pc[t] = "batch" /\ idle > 0 /\ ~idleTerm[t]
    BY DEF SeenByStopping, IInv
  <2>1. CASE j \in fdEvents
    <3>1. IsFiniteSet(fdEvents) /\ IsFiniteSet(At({"count"}))
      BY IdleAssumption, FS_Subset DEF IInv, PendingOK, At
    <3>2. Cardinality(fdEvents) # 0 /\ Cardinality(fdEvents) \in Nat
          /\ Cardinality(At({"count"})) \in Nat
      BY <2>1, <3>1, FS_EmptySet, FS_CardinalityType
    <3> QED
      BY <2>1, <3>2 DEF IInv, PendingOK
  <2>2. ASSUME NEW t \in Threads, j \in Live(t)
        PROVE  /\ j \in job[t]
               /\ \/ Executing(t) /\ active > 0
                  \/ pc[t] = "batch" /\ idle > 0 /\ ~idleTerm[t]
    <3>1. pc[t] \in LivePCs /\ j \in job[t]
      BY <2>2 DEF Live
    <3>2. CASE pc[t] = "batch"
      BY <3>1, <3>2, Counted DEF IInv, CountsOK, TermOK, IdlePCs
    <3>3. CASE pc[t] # "batch"
      <4>1. pc[t] \in ActivePCs /\ Executing(t)
        BY <3>1, <3>3 DEF LivePCs, ActivePCs, Executing
      <4> QED
        BY <3>1, <4>1, Counted DEF IInv, CountsOK
    <3> QED
      BY <3>2, <3>3
  <2> QED
    BY <2>1, <2>2 DEF IInv, PlacesOK, Placed
<1> QED
  BY <1>1, InvariantHolds, PTL

(* All threads have left idle() for good only when nothing is queued,        *)
(* executed or collected (iomanager.cpp:123-129).                            *)
THEOREM LastCorrect == Spec => []LastLeavesNoneRunnable
<1>1. IInv => LastLeavesNoneRunnable
  <2> SUFFICES ASSUME IInv, \A t \in Threads : idleTerm[t], NEW t \in Threads
               PROVE  NoEntry /\ pc[t] \in {"settle", "pop", "exited"}
    BY IdleAssumption DEF LastLeavesNoneRunnable
  <2>1. NoEntry /\ active = 0
    BY DEF IInv, LastOK
  <2>2. pc[t] \notin ActivePCs
    BY <2>1, NobodyActive DEF IInv
  <2> QED
    BY <2>1, <2>2 DEF IInv, TermOK, TypeOK, PCs, ActivePCs, IdlePCs
<1> QED
  BY <1>1, InvariantHolds, PTL
=============================================================================

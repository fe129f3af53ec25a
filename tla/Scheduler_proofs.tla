-------------------------- MODULE Scheduler_proofs --------------------------
(***************************************************************************)
(* Proofs about the scheduler and the semaphore on it, for any number of   *)
(* threads, fibers and callbacks and every bound.  What the callbacks may  *)
(* do matters for most of it, and is a hypothesis of the theorem.          *)
(***************************************************************************)
EXTENDS MCFiberSemaphore, FiniteSetTheorems, SequenceTheorems, TLAPS

(* What is in a queue.                                                       *)
EntriesIn(q) == {q[i] : i \in 1..Len(q)}
FibersIn(q) == {q[i].fiber : i \in 1..Len(q)}
JobsIn(q) == {q[i].cb : i \in 1..Len(q)}
OnceFiber(q, f) == \A i, k \in 1..Len(q) : q[i].fiber = f /\ q[k].fiber = f => i = k
OnceJob(q, j) == \A i, k \in 1..Len(q) : q[i].cb = j /\ q[k].cb = j => i = k

LEMMA AppendQueue ==
  ASSUME NEW q \in Seq(Entry), NEW e \in Entry
  PROVE  /\ Append(q, e) \in Seq(Entry)
         /\ EntriesIn(Append(q, e)) = EntriesIn(q) \cup {e}
         /\ FibersIn(Append(q, e)) = FibersIn(q) \cup {e.fiber}
         /\ JobsIn(Append(q, e)) = JobsIn(q) \cup {e.cb}
         /\ \A f : OnceFiber(q, f) /\ (f # e.fiber \/ f \notin FibersIn(q))
                     => OnceFiber(Append(q, e), f)
         /\ \A j : OnceJob(q, j) /\ (j # e.cb \/ j \notin JobsIn(q))
                     => OnceJob(Append(q, e), j)
<1> DEFINE p == Append(q, e)
           n == Len(q)
<1>1. /\ p \in Seq(Entry) /\ n \in Nat /\ Len(p) = n + 1
      /\ \A i \in 1..n : p[i] = q[i]
      /\ p[n + 1] = e
  BY AppendProperties
<1>2. 1..(n + 1) = 1..n \cup {n + 1}
  BY <1>1
<1> HIDE DEF p, n
<1>3. EntriesIn(p) = EntriesIn(q) \cup {e}
  BY <1>1, <1>2 DEF EntriesIn, n
<1>4. FibersIn(p) = FibersIn(q) \cup {e.fiber} /\ JobsIn(p) = JobsIn(q) \cup {e.cb}
  BY <1>1, <1>2 DEF FibersIn, JobsIn, n
<1>5. ASSUME NEW f, OnceFiber(q, f), f # e.fiber \/ f \notin FibersIn(q)
      PROVE  OnceFiber(p, f)
  BY <1>1, <1>2, <1>5 DEF OnceFiber, FibersIn, n
<1>6. ASSUME NEW j, OnceJob(q, j), j # e.cb \/ j \notin JobsIn(q)
      PROVE  OnceJob(p, j)
  BY <1>1, <1>2, <1>6 DEF OnceJob, JobsIn, n
<1> QED
  BY <1>1, <1>3, <1>4, <1>5, <1>6 DEF p

LEMMA ReadQueue ==
  ASSUME NEW q \in Seq(Entry)
  PROVE  /\ FibersIn(q) \subseteq Fibers \cup {None} /\ JobsIn(q) \subseteq Jobs \cup {None}
         /\ \A i \in 1..Len(q) : /\ q[i] \in Entry /\ q[i] \in EntriesIn(q)
                                 /\ q[i].fiber \in FibersIn(q) /\ q[i].cb \in JobsIn(q)
<1>1. \A i \in 1..Len(q) : q[i] \in Entry
  OBVIOUS
<1>2. \A e \in Entry : e.fiber \in Fibers \cup {None} /\ e.cb \in Jobs \cup {None}
  BY DEF Entry
<1> QED
  BY <1>1, <1>2 DEF FibersIn, JobsIn, EntriesIn

LEMMA RemoveQueue ==
  ASSUME NEW q \in Seq(Entry), NEW i \in 1..Len(q)
  PROVE  /\ RemoveAt(q, i) \in Seq(Entry)
         /\ EntriesIn(RemoveAt(q, i)) \subseteq EntriesIn(q)
         /\ FibersIn(RemoveAt(q, i)) \subseteq FibersIn(q)
         /\ FibersIn(q) \subseteq FibersIn(RemoveAt(q, i)) \cup {q[i].fiber}
         /\ JobsIn(RemoveAt(q, i)) \subseteq JobsIn(q)
         /\ JobsIn(q) \subseteq JobsIn(RemoveAt(q, i)) \cup {q[i].cb}
         /\ \A f : OnceFiber(q, f) => /\ OnceFiber(RemoveAt(q, i), f)
                                      /\ f = q[i].fiber => f \notin FibersIn(RemoveAt(q, i))
         /\ \A j : OnceJob(q, j) => /\ OnceJob(RemoveAt(q, i), j)
                                    /\ j = q[i].cb => j \notin JobsIn(RemoveAt(q, i))
<1> DEFINE n == Len(q)
           a == SubSeq(q, 1, i - 1)
           b == SubSeq(q, i + 1, n)
           p == RemoveAt(q, i)
<1>1. n \in Nat /\ i \in 1..n
  BY LenProperties
<1>2. a \in Seq(Entry) /\ Len(a) = i - 1 /\ \A k \in 1..(i - 1) : a[k] = q[k]
  BY <1>1
<1>3. b \in Seq(Entry) /\ Len(b) = n - i /\ \A k \in 1..(n - i) : b[k] = q[k + i]
  BY <1>1
<1>4. p = a \o b
  BY DEF RemoveAt
<1> HIDE DEF a, b, p, n
<1>5. p \in Seq(Entry) /\ Len(p) = n - 1
  <2>1. p \in Seq(Entry) /\ Len(p) = Len(a) + Len(b)
    BY <1>2, <1>3, <1>4, ConcatProperties
  <2> QED
    BY <1>1, <1>2, <1>3, <2>1
<1>6. \A k \in 1..(n - 1) : p[k] = IF k < i THEN q[k] ELSE q[k + 1]
  <2>1. \A k \in 1..(n - 1) : p[k] = IF k <= i - 1 THEN a[k] ELSE b[k - (i - 1)]
    BY <1>1, <1>2, <1>3, <1>4, ConcatProperties
  <2>2. ASSUME NEW k \in 1..(n - 1), k < i
        PROVE  p[k] = q[k]
    <3>1. k \in 1..(i - 1)
      BY <1>1, <2>2
    <3> QED
      BY <1>1, <1>2, <2>1, <3>1
  <2>3. ASSUME NEW k \in 1..(n - 1), ~(k < i)
        PROVE  p[k] = q[k + 1]
    <3>1. /\ k - (i - 1) \in 1..(n - i) /\ ~(k <= i - 1)
          /\ (k - (i - 1)) + i = k + 1
      BY <1>1, <2>3
    <3>2. b[k - (i - 1)] = q[(k - (i - 1)) + i]
      BY <1>3, <3>1
    <3> QED
      BY <2>1, <3>1, <3>2
  <2> QED
    BY <2>2, <2>3
<1>7. \A k \in 1..n : k < i => k \in 1..(n - 1) /\ p[k] = q[k]
  BY <1>1, <1>6
<1>8. \A k \in 1..n : k > i => k - 1 \in 1..(n - 1) /\ p[k - 1] = q[k]
  BY <1>1, <1>6
<1>9. \A k \in 1..(n - 1) : \E m \in 1..n :
        /\ m # i /\ p[k] = q[m]
        /\ m = IF k < i THEN k ELSE k + 1
  BY <1>1, <1>6
<1>10. EntriesIn(p) \subseteq EntriesIn(q)
  BY <1>5, <1>9 DEF EntriesIn, n
<1>11. FibersIn(p) \subseteq FibersIn(q) /\ JobsIn(p) \subseteq JobsIn(q)
  BY <1>5, <1>9 DEF FibersIn, JobsIn, n
<1>12. ASSUME NEW m \in 1..n, m # i
       PROVE  \E k \in 1..Len(p) : p[k] = q[m]
  <2>1. m < i \/ m > i
    BY <1>1, <1>12
  <2> QED
    BY <1>5, <1>7, <1>8, <2>1
<1>13. /\ FibersIn(q) \subseteq FibersIn(p) \cup {q[i].fiber}
       /\ JobsIn(q) \subseteq JobsIn(p) \cup {q[i].cb}
  BY <1>12 DEF FibersIn, JobsIn, n
<1>14. ASSUME NEW f, OnceFiber(q, f)
       PROVE  /\ OnceFiber(p, f)
              /\ f = q[i].fiber => f \notin FibersIn(p)
  <2>1. \A k, m \in 1..n : q[k].fiber = f /\ q[m].fiber = f => k = m
    BY <1>14 DEF OnceFiber, n
  <2>2. f = q[i].fiber => f \notin FibersIn(p)
    <3>1. ASSUME f = q[i].fiber, NEW k \in 1..(n - 1), p[k].fiber = f
          PROVE  FALSE
      <4>1. PICK m \in 1..n : m # i /\ p[k] = q[m]
        BY <1>9
      <4> QED
        BY <1>1, <2>1, <3>1, <4>1
    <3> QED
      BY <1>5, <3>1 DEF FibersIn
  <2>3. ASSUME NEW k \in 1..(n - 1), NEW m \in 1..(n - 1), p[k].fiber = f, p[m].fiber = f
        PROVE  k = m
    <3>1. PICK k2 \in 1..n : p[k] = q[k2] /\ k2 = IF k < i THEN k ELSE k + 1
      BY <1>9
    <3>2. PICK m2 \in 1..n : p[m] = q[m2] /\ m2 = IF m < i THEN m ELSE m + 1
      BY <1>9
    <3>3. k2 = m2
      BY <2>1, <2>3, <3>1, <3>2
    <3> QED
      BY <1>1, <3>1, <3>2, <3>3
  <2> QED
    BY <1>5, <2>2, <2>3 DEF OnceFiber
<1>15. ASSUME NEW j, OnceJob(q, j)
       PROVE  /\ OnceJob(p, j)
              /\ j = q[i].cb => j \notin JobsIn(p)
  <2>1. \A k, m \in 1..n : q[k].cb = j /\ q[m].cb = j => k = m
    BY <1>15 DEF OnceJob, n
  <2>2. j = q[i].cb => j \notin JobsIn(p)
    <3>1. ASSUME j = q[i].cb, NEW k \in 1..(n - 1), p[k].cb = j
          PROVE  FALSE
      <4>1. PICK m \in 1..n : m # i /\ p[k] = q[m]
        BY <1>9
      <4> QED
        BY <1>1, <2>1, <3>1, <4>1
    <3> QED
      BY <1>5, <3>1 DEF JobsIn
  <2>3. ASSUME NEW k \in 1..(n - 1), NEW m \in 1..(n - 1), p[k].cb = j, p[m].cb = j
        PROVE  k = m
    <3>1. PICK k2 \in 1..n : p[k] = q[k2] /\ k2 = IF k < i THEN k ELSE k + 1
      BY <1>9
    <3>2. PICK m2 \in 1..n : p[m] = q[m2] /\ m2 = IF m < i THEN m ELSE m + 1
      BY <1>9
    <3>3. k2 = m2
      BY <2>1, <2>3, <3>1, <3>2
    <3> QED
      BY <1>1, <3>1, <3>2, <3>3
  <2> QED
    BY <1>5, <2>2, <2>3 DEF OnceJob
<1> QED
  BY <1>5, <1>10, <1>11, <1>13, <1>14, <1>15 DEF p
-----------------------------------------------------------------------------
(* The shape of every state: the locals of a thread fit its place, and the   *)
(* two counters count.                                                       *)
OnStack == {"body", "hold", "yield"}
InHand == OnStack \cup {"back", "settle", "sethold"}
ActivePCs == {"dispatch", "body", "hold", "yield", "back"}
At(pcs) == {t \in Threads : pc[t] \in pcs}

FiberRecord == [state : States, cb : Jobs \cup {None}, saved : BOOLEAN]

(* An entry is a fiber or a callback.                                        *)
EntryOK(e) == e.fiber = None <=> e.cb # None

LocalOK(t) ==
  /\ cur[t] # None <=> pc[t] \in OnStack
  /\ pc[t] \in OnStack => cur[t] = Handled(t)
  /\ pc[t] \in InHand => Handled(t) # None /\ ft[t].cb = None
  /\ pc[t] = "dispatch" => EntryOK(ft[t])
  /\ pc[t] \notin InHand \cup {"dispatch"} => ft[t] = NoEntry

StartOK ==
  /\ main = "new" => \A t \in Threads : pc[t] = "off"
  /\ main \in {"running", "root"} => \A t \in Threads : t = Caller => pc[t] = "off"

CountOK == active = Cardinality(At(ActivePCs)) /\ idle = Cardinality(At({"idle"}))

Shape ==
  /\ TypeOK
  /\ \A e \in EntriesIn(queue) : EntryOK(e)
  /\ \A t \in Threads : LocalOK(t)
  /\ StartOK /\ CountOK

(* Only thread t acts.                                                       *)
Alone(t) ==
  /\ \A u \in Threads \ {t} : pc'[u] = pc[u] /\ ft'[u] = ft[u] /\ cbFiber'[u] = cbFiber[u]
                              /\ cur'[u] = cur[u] /\ idleTerm'[u] = idleTerm[u]
  /\ UNCHANGED <<autoStop, stopping, main>>

LEMMA NoneIsNothing ==
  None \notin Threads /\ None \notin Fibers /\ None \notin Jobs /\ IsFiniteSet(Threads)
  BY SchedulerAssumption DEF Threads

LEMMA PinsGiven == SpawnPins \subseteq Pins
  BY SchedulerAssumption

(* A thread that moves changes a count by one, up or down, or not at all.    *)
LEMMA MovedCount ==
  ASSUME TypeOK, NEW t \in Threads, NEW to, pc' = [pc EXCEPT ![t] = to], NEW pcs
  PROVE  /\ Cardinality(At(pcs)) \in Nat /\ Cardinality(At(pcs)') \in Nat
         /\ Cardinality(At(pcs)') = (Cardinality(At(pcs)) + IF to \in pcs THEN 1 ELSE 0)
                                      - IF pc[t] \in pcs THEN 1 ELSE 0
<1>1. IsFiniteSet(At(pcs)) /\ Cardinality(At(pcs)) \in Nat
  <2>1. IsFiniteSet(At(pcs))
    BY NoneIsNothing, FS_Subset DEF At
  <2> QED
    BY <2>1, FS_CardinalityType
<1>2. pc'[t] = to /\ \A u \in Threads \ {t} : pc'[u] = pc[u]
  BY DEF TypeOK
<1>3. CASE pc[t] \in pcs <=> to \in pcs
  <2>1. At(pcs)' = At(pcs)
    BY <1>2, <1>3 DEF At
  <2> QED
    BY <1>1, <1>3, <2>1
<1>4. CASE pc[t] \notin pcs /\ to \in pcs
  <2>1. At(pcs)' = At(pcs) \cup {t} /\ t \notin At(pcs)
    BY <1>2, <1>4 DEF At
  <2>2. Cardinality(At(pcs) \cup {t}) = Cardinality(At(pcs)) + 1
    BY <1>1, <2>1, FS_AddElement
  <2> QED
    BY <1>1, <1>4, <2>1, <2>2
<1>5. CASE pc[t] \in pcs /\ to \notin pcs
  <2>1. At(pcs)' = At(pcs) \ {t} /\ t \in At(pcs)
    BY <1>2, <1>5 DEF At
  <2>2. Cardinality(At(pcs) \ {t}) = Cardinality(At(pcs)) - 1
    BY <1>1, <2>1, FS_RemoveElement
  <2>3. Cardinality(At(pcs)) # 0
    BY <1>1, <2>1, FS_EmptySet
  <2> QED
    BY <1>1, <1>5, <2>1, <2>2, <2>3
<1> QED
  BY <1>3, <1>4, <1>5

(* What is left to show of a step of one thread.                             *)
LEMMA ThreadKeeps ==
  ASSUME Shape, NEW t \in Threads, NEW to \in PCs, pc[t] # "off",
         pc' = [pc EXCEPT ![t] = to], Alone(t), LocalOK(t)',
         active' = (active + IF to \in ActivePCs THEN 1 ELSE 0)
                     - IF pc[t] \in ActivePCs THEN 1 ELSE 0,
         idle' = (idle + IF to \in {"idle"} THEN 1 ELSE 0)
                     - IF pc[t] \in {"idle"} THEN 1 ELSE 0,
         queue' \in Seq(Entry), \A e \in EntriesIn(queue') : EntryOK(e),
         fiber' \in [Fibers -> FiberRecord],
         ft' \in [Threads -> Entry], cbFiber' \in [Threads -> Fibers \cup {None}],
         cur' \in [Threads -> Fibers \cup {None}], idleTerm' \in [Threads -> BOOLEAN],
         submitted' \subseteq Jobs, done' \subseteq Jobs, waiting' \subseteq Fibers,
         opsLeft' \in Nat
  PROVE  Shape'
<1>1. pc' \in [Threads -> PCs]
  BY DEF Shape, TypeOK
<1>2. /\ active' \in Nat /\ active' = Cardinality(At(ActivePCs)')
      /\ idle' \in Nat /\ idle' = Cardinality(At({"idle"})')
  <2>1. TypeOK /\ active = Cardinality(At(ActivePCs)) /\ idle = Cardinality(At({"idle"}))
    BY DEF Shape, CountOK
  <2>2. active' \in Nat /\ active' = Cardinality(At(ActivePCs)')
    <3>1. /\ Cardinality(At(ActivePCs)) \in Nat /\ Cardinality(At(ActivePCs)') \in Nat
          /\ Cardinality(At(ActivePCs)') = (Cardinality(At(ActivePCs)) + IF to \in ActivePCs THEN 1 ELSE 0)
                                           - IF pc[t] \in ActivePCs THEN 1 ELSE 0
      BY <2>1, MovedCount
    <3> QED
      BY <2>1, <3>1
  <2>3. idle' \in Nat /\ idle' = Cardinality(At({"idle"})')
    <3>1. /\ Cardinality(At({"idle"})) \in Nat /\ Cardinality(At({"idle"})') \in Nat
          /\ Cardinality(At({"idle"})') = (Cardinality(At({"idle"})) + IF to \in {"idle"} THEN 1 ELSE 0)
                                           - IF pc[t] \in {"idle"} THEN 1 ELSE 0
      BY <2>1, MovedCount
    <3> QED
      BY <2>1, <3>1
  <2> QED
    BY <2>2, <2>3
<1>3. TypeOK'
  BY <1>1, <1>2 DEF Shape, TypeOK, Alone, FiberRecord
<1>4. \A u \in Threads : LocalOK(u)'
  BY DEF Shape, LocalOK, Alone, Handled
<1>5. StartOK'
  <2>1. pc'[t] = to /\ \A u \in Threads \ {t} : pc'[u] = pc[u]
    BY DEF Shape, TypeOK
  <2> QED
    BY <2>1 DEF Shape, StartOK, Alone
<1> QED
  BY <1>2, <1>3, <1>4, <1>5 DEF Shape, CountOK
-----------------------------------------------------------------------------
(* What each step does, place by place; all of them keep the shape.          *)
LocalsTyped ==
  /\ ft' \in [Threads -> Entry] /\ cbFiber' \in [Threads -> Fibers \cup {None}]
  /\ cur' \in [Threads -> Fibers \cup {None}] /\ idleTerm' \in [Threads -> BOOLEAN]
JobsTyped ==
  /\ submitted' \subseteq Jobs /\ done' \subseteq Jobs /\ waiting' \subseteq Fibers
  /\ opsLeft' \in Nat
Counted(t, to) ==
  /\ active' = (active + IF to \in ActivePCs THEN 1 ELSE 0)
                 - IF pc[t] \in ActivePCs THEN 1 ELSE 0
  /\ idle' = (idle + IF to \in {"idle"} THEN 1 ELSE 0)
               - IF pc[t] \in {"idle"} THEN 1 ELSE 0

(* The fibers except those of F are as they were.                            *)
Rewritten(F) == \A f \in Fibers \ F : fiber'[f] = fiber[f]

LEMMA TakeDoes ==
  ASSUME Shape, NEW t \in Threads, Take(t)
  PROVE  /\ Shape' /\ Alone(t) /\ pc[t] = "pop" /\ pc'[t] = "dispatch"
         /\ UNCHANGED <<fiber, cbFiber, cur, submitted, done, waiting, idleTerm>>
         /\ \E i \in 1..Len(queue) :
              queue' = RemoveAt(queue, i) /\ ft'[t] = queue[i] /\ Takable(t, queue[i])
<1>1. TypeOK /\ LocalOK(t)
  BY DEF Shape
<1>2. PICK i \in 1..Len(queue) :
        /\ ft' = [ft EXCEPT ![t] = queue[i]] /\ queue' = RemoveAt(queue, i)
        /\ Takable(t, queue[i])
  BY DEF Take
<1>3. /\ pc[t] = "pop" /\ pc' = [pc EXCEPT ![t] = "dispatch"] /\ active' = active + 1
      /\ UNCHANGED <<fiber, cur, cbFiber, idleTerm, idle, autoStop, stopping, main,
                     submitted, done, waiting, opsLeft>>
  BY DEF Take, GoTo, fiberVars, stopVars, jobVars
<1>4. /\ queue' \in Seq(Entry) /\ EntriesIn(queue') \subseteq EntriesIn(queue)
      /\ queue[i] \in Entry /\ queue[i] \in EntriesIn(queue)
  <2>1. queue \in Seq(Entry)
    BY <1>1 DEF TypeOK
  <2>2. queue[i] \in Entry /\ queue[i] \in EntriesIn(queue)
    BY <2>1 DEF EntriesIn
  <2> QED
    BY <1>2, <2>1, <2>2, RemoveQueue
<1>5. /\ ft' \in [Threads -> Entry] /\ ft'[t] = queue[i]
      /\ \A u \in Threads \ {t} : ft'[u] = ft[u]
      /\ pc'[t] = "dispatch" /\ \A u \in Threads \ {t} : pc'[u] = pc[u]
  BY <1>1, <1>2, <1>3, <1>4 DEF TypeOK
<1>6. Alone(t)
  BY <1>3, <1>5 DEF Alone
<1>7. LocalOK(t)'
  BY <1>1, <1>3, <1>4, <1>5 DEF LocalOK, OnStack, InHand, Shape
<1>8. Counted(t, "dispatch")
  BY <1>1, <1>3 DEF Counted, ActivePCs, TypeOK
<1>9. /\ fiber' \in [Fibers -> FiberRecord] /\ LocalsTyped /\ JobsTyped
      /\ "dispatch" \in PCs /\ \A e \in EntriesIn(queue') : EntryOK(e)
  BY <1>1, <1>3, <1>4, <1>5 DEF TypeOK, FiberRecord, LocalsTyped, JobsTyped, PCs, Shape
<1>10. Shape'
  BY <1>3, <1>4, <1>6, <1>7, <1>8, <1>9, ThreadKeeps DEF Counted, LocalsTyped, JobsTyped
<1> QED
  BY <1>2, <1>3, <1>5, <1>6, <1>10

(* Steps between the places where a thread has no fiber in hand, or leaves   *)
(* it as it is.                                                              *)
LEMMA PlainDoes ==
  ASSUME Shape, NEW t \in Threads,
         EnterIdle(t) \/ Exit(t) \/ IdleStep(t) \/ Deactivate(t) \/ Suspend(t)
  PROVE  /\ Shape' /\ Alone(t)
         /\ UNCHANGED <<queue, fiber, ft, cbFiber, cur, submitted, done, waiting>>
         /\ \/ pc[t] \in {"pop", "idle"} /\ pc'[t] \in {"idle", "exited", "pop"}
            \/ pc[t] = "back" /\ pc'[t] = "settle"
            \/ /\ pc[t] = "settle" /\ pc'[t] = "sethold"
               /\ fiber[Handled(t)].state # "READY" /\ ~Finished(Handled(t))
<1>1. TypeOK /\ LocalOK(t)
  BY DEF Shape
<1>2. UNCHANGED <<queue, fiber, ft, cbFiber, cur, autoStop, stopping, main,
                  submitted, done, waiting, opsLeft>>
  BY DEF EnterIdle, Exit, IdleStep, Deactivate, Suspend, fiberVars, localVars, stopVars, jobVars
<1>3. idleTerm' \in [Threads -> BOOLEAN] /\ \A u \in Threads \ {t} : idleTerm'[u] = idleTerm[u]
  BY <1>1 DEF EnterIdle, Exit, IdleStep, Deactivate, Suspend, localVars, TypeOK, Stopping
<1>4. PICK to \in PCs :
        /\ pc' = [pc EXCEPT ![t] = to] /\ Counted(t, to)
        /\ \/ pc[t] \in {"pop", "idle"} /\ to \in {"idle", "exited", "pop"}
           \/ pc[t] = "back" /\ to = "settle"
           \/ /\ pc[t] = "settle" /\ to = "sethold"
              /\ fiber[Handled(t)].state # "READY" /\ ~Finished(Handled(t))
  <2>1. active \in Nat /\ idle \in Nat
    BY <1>1 DEF TypeOK
  <2>2. CASE EnterIdle(t)
    BY <2>1, <2>2 DEF EnterIdle, GoTo, Counted, ActivePCs, PCs
  <2>3. CASE Exit(t)
    BY <2>1, <2>3 DEF Exit, GoTo, Counted, ActivePCs, PCs, countVars
  <2>4. CASE IdleStep(t)
    BY <2>1, <2>4 DEF IdleStep, GoTo, Counted, ActivePCs, PCs
  <2>5. CASE Deactivate(t)
    BY <2>1, <2>5 DEF Deactivate, GoTo, Counted, ActivePCs, PCs
  <2>6. CASE Suspend(t)
    BY <2>1, <2>6 DEF Suspend, GoTo, Counted, ActivePCs, PCs, countVars
  <2> QED
    BY <2>2, <2>3, <2>4, <2>5, <2>6
<1>5. pc'[t] = to /\ \A u \in Threads \ {t} : pc'[u] = pc[u]
  BY <1>1, <1>4 DEF TypeOK
<1>6. Alone(t)
  BY <1>2, <1>3, <1>5 DEF Alone
<1>7. LocalOK(t)'
  BY <1>1, <1>2, <1>4, <1>5 DEF LocalOK, OnStack, InHand, Handled
<1>8. /\ fiber' \in [Fibers -> FiberRecord] /\ LocalsTyped /\ JobsTyped
      /\ queue' \in Seq(Entry) /\ \A e \in EntriesIn(queue') : EntryOK(e)
  BY <1>1, <1>2, <1>3 DEF TypeOK, FiberRecord, LocalsTyped, JobsTyped, Shape
<1>9. pc[t] # "off"
  BY <1>4
<1>10. Shape'
  BY <1>4, <1>6, <1>7, <1>8, <1>9, ThreadKeeps DEF Counted, LocalsTyped, JobsTyped
<1> QED
  BY <1>2, <1>4, <1>5, <1>6, <1>10

(* run() switches to the fiber it took.                                      *)
LEMMA ResumeDoes ==
  ASSUME Shape, NEW t \in Threads, ResumeFiber(t)
  PROVE  /\ Shape' /\ Alone(t) /\ pc[t] = "dispatch" /\ pc'[t] = "body"
         /\ UNCHANGED <<queue, ft, cbFiber, submitted, done, waiting>>
         /\ ft[t].fiber \in Fibers /\ ~Finished(ft[t].fiber)
         /\ cur'[t] = ft[t].fiber /\ Rewritten({ft[t].fiber})
         /\ fiber'[ft[t].fiber].state = "EXEC" /\ ~fiber'[ft[t].fiber].saved
         /\ fiber'[ft[t].fiber].cb = fiber[ft[t].fiber].cb
<1> DEFINE f == ft[t].fiber
<1>1. TypeOK /\ LocalOK(t)
  BY DEF Shape
<1>2. /\ pc[t] = "dispatch" /\ pc' = [pc EXCEPT ![t] = "body"]
      /\ f # None /\ ~Finished(f)
      /\ fiber' = [fiber EXCEPT ![f].state = "EXEC", ![f].saved = FALSE]
      /\ cur' = [cur EXCEPT ![t] = f]
      /\ UNCHANGED <<queue, ft, cbFiber, idleTerm, active, idle, autoStop, stopping, main,
                     submitted, done, waiting, opsLeft>>
  BY DEF ResumeFiber, GoTo, localVars, countVars, stopVars, jobVars
<1>3. f \in Fibers /\ ft[t] \in Entry
  BY <1>1, <1>2 DEF TypeOK, Entry
<1> HIDE DEF f
<1>4. /\ fiber' \in [Fibers -> FiberRecord] /\ Rewritten({f})
      /\ fiber'[f].state = "EXEC" /\ ~fiber'[f].saved /\ fiber'[f].cb = fiber[f].cb
  <2>1. fiber \in [Fibers -> FiberRecord]
    BY <1>1 DEF TypeOK, FiberRecord
  <2> QED
    BY <1>2, <1>3, <2>1 DEF FiberRecord, States, Rewritten
<1>5. /\ cur' \in [Threads -> Fibers \cup {None}] /\ cur'[t] = f
      /\ \A u \in Threads \ {t} : cur'[u] = cur[u]
      /\ pc'[t] = "body" /\ \A u \in Threads \ {t} : pc'[u] = pc[u]
  BY <1>1, <1>2, <1>3 DEF TypeOK
<1>6. Alone(t)
  BY <1>2, <1>5 DEF Alone
<1>7. LocalOK(t)'
  BY <1>1, <1>2, <1>5 DEF LocalOK, OnStack, InHand, Handled, EntryOK, f
<1>8. Counted(t, "body")
  BY <1>1, <1>2 DEF Counted, ActivePCs, TypeOK
<1>9. /\ LocalsTyped /\ JobsTyped /\ "body" \in PCs
      /\ queue' \in Seq(Entry) /\ \A e \in EntriesIn(queue') : EntryOK(e)
  BY <1>1, <1>2, <1>5 DEF TypeOK, LocalsTyped, JobsTyped, PCs, Shape
<1>10. Shape'
  BY <1>2, <1>4, <1>6, <1>7, <1>8, <1>9, ThreadKeeps DEF Counted, LocalsTyped, JobsTyped
<1> QED
  BY <1>2, <1>3, <1>4, <1>5, <1>6, <1>10 DEF f

(* run() drops a fiber that had ended.                                       *)
LEMMA DropDoes ==
  ASSUME Shape, NEW t \in Threads, DropFinished(t)
  PROVE  /\ Shape' /\ Alone(t) /\ pc[t] = "dispatch" /\ pc'[t] = "pop"
         /\ UNCHANGED <<queue, fiber, cbFiber, cur, submitted, done, waiting>>
         /\ ft[t].fiber # None /\ Finished(ft[t].fiber) /\ ft'[t] = NoEntry
<1>1. TypeOK /\ LocalOK(t)
  BY DEF Shape
<1>2. /\ pc[t] = "dispatch" /\ pc' = [pc EXCEPT ![t] = "pop"]
      /\ ft' = [ft EXCEPT ![t] = NoEntry] /\ active' = active - 1
      /\ ft[t].fiber # None /\ Finished(ft[t].fiber)
      /\ UNCHANGED <<queue, fiber, cur, cbFiber, idleTerm, idle, autoStop, stopping, main,
                     submitted, done, waiting, opsLeft>>
  BY DEF DropFinished, GoTo, fiberVars, stopVars, jobVars
<1>3. NoEntry \in Entry
  BY DEF NoEntry, Entry
<1>4. /\ ft' \in [Threads -> Entry] /\ ft'[t] = NoEntry
      /\ \A u \in Threads \ {t} : ft'[u] = ft[u]
      /\ pc'[t] = "pop" /\ \A u \in Threads \ {t} : pc'[u] = pc[u]
  BY <1>1, <1>2, <1>3 DEF TypeOK
<1>5. Alone(t)
  BY <1>2, <1>4 DEF Alone
<1>6. LocalOK(t)'
  BY <1>1, <1>2, <1>4 DEF LocalOK, OnStack, InHand, Handled
<1>7. Counted(t, "pop")
  BY <1>1, <1>2 DEF Counted, ActivePCs, TypeOK
<1>8. /\ LocalsTyped /\ JobsTyped /\ "pop" \in PCs /\ fiber' \in [Fibers -> FiberRecord]
      /\ queue' \in Seq(Entry) /\ \A e \in EntriesIn(queue') : EntryOK(e)
  BY <1>1, <1>2, <1>4 DEF TypeOK, FiberRecord, LocalsTyped, JobsTyped, PCs, Shape
<1>9. Shape'
  BY <1>2, <1>5, <1>6, <1>7, <1>8, ThreadKeeps DEF Counted, LocalsTyped, JobsTyped
<1> QED
  BY <1>2, <1>4, <1>5, <1>9

LEMMA NewIsFree == FreeFibers # {} => NewFiber \in FreeFibers /\ NewFiber \in Fibers
BY DEF NewFiber, FreeFibers

(* run() gives a callback to its cb_fiber.                                   *)
LEMMA CallbackDoes ==
  ASSUME Shape, NEW t \in Threads, RunCallback(t)
  PROVE  /\ Shape' /\ Alone(t) /\ pc[t] = "dispatch" /\ pc'[t] = "body"
         /\ UNCHANGED <<queue, submitted, done, waiting>>
         /\ ft[t].cb # None /\ ft[t].fiber = None /\ ft'[t] = NoEntry
         /\ cbFiber'[t] \in Fibers /\ cur'[t] = cbFiber'[t]
         /\ \/ cbFiber[t] = None /\ cbFiber'[t] \in FreeFibers
            \/ cbFiber'[t] = cbFiber[t]
         /\ fiber[cbFiber'[t]].state \in {"INIT", "TERM", "EXCEPT"}
         /\ Rewritten({cbFiber'[t]})
         /\ fiber'[cbFiber'[t]] = [state |-> "EXEC", cb |-> ft[t].cb, saved |-> FALSE]
<1>1. TypeOK /\ LocalOK(t)
  BY DEF Shape
<1>2. PICK f : /\ f = IF cbFiber[t] # None THEN cbFiber[t] ELSE NewFiber
               /\ cbFiber[t] = None \/ fiber[f].state \in {"INIT", "TERM", "EXCEPT"}
               /\ fiber' = [fiber EXCEPT ![f] = [state |-> "EXEC", cb |-> ft[t].cb, saved |-> FALSE]]
               /\ cbFiber' = [cbFiber EXCEPT ![t] = f] /\ cur' = [cur EXCEPT ![t] = f]
               /\ cbFiber[t] = None => FreeFibers # {}
  BY DEF RunCallback
<1>3. /\ pc[t] = "dispatch" /\ pc' = [pc EXCEPT ![t] = "body"] /\ ft[t].cb # None
      /\ ft' = [ft EXCEPT ![t] = NoEntry]
      /\ UNCHANGED <<queue, idleTerm, active, idle, autoStop, stopping, main,
                     submitted, done, waiting, opsLeft>>
  BY DEF RunCallback, GoTo, countVars, stopVars, jobVars
<1>4. /\ f \in Fibers /\ fiber[f].state \in {"INIT", "TERM", "EXCEPT"}
      /\ (cbFiber[t] = None => f \in FreeFibers) /\ (cbFiber[t] # None => f = cbFiber[t])
  <2>1. f \in Fibers /\ (cbFiber[t] = None => f \in FreeFibers) /\ (cbFiber[t] # None => f = cbFiber[t])
    BY <1>1, <1>2, NewIsFree DEF TypeOK
  <2> QED
    BY <1>2, <2>1 DEF FreeFibers
<1>5. NoEntry \in Entry /\ NoEntry.fiber = None /\ NoEntry.cb = None /\ ft[t].cb \in Jobs
      /\ ft[t].fiber = None
  BY <1>1, <1>3 DEF NoEntry, Entry, TypeOK, LocalOK, EntryOK
<1>6. /\ fiber' \in [Fibers -> FiberRecord] /\ Rewritten({f})
      /\ fiber'[f] = [state |-> "EXEC", cb |-> ft[t].cb, saved |-> FALSE]
  <2>1. fiber \in [Fibers -> FiberRecord]
    BY <1>1 DEF TypeOK, FiberRecord
  <2>2. [state |-> "EXEC", cb |-> ft[t].cb, saved |-> FALSE] \in FiberRecord
    BY <1>5 DEF FiberRecord, States
  <2> QED
    BY <1>2, <1>4, <2>1, <2>2 DEF Rewritten
<1>7. /\ LocalsTyped /\ ft'[t] = NoEntry /\ cbFiber'[t] = f /\ cur'[t] = f
      /\ \A u \in Threads \ {t} : ft'[u] = ft[u] /\ cbFiber'[u] = cbFiber[u] /\ cur'[u] = cur[u]
      /\ pc'[t] = "body" /\ \A u \in Threads \ {t} : pc'[u] = pc[u]
  BY <1>1, <1>2, <1>3, <1>4, <1>5 DEF TypeOK, LocalsTyped
<1>8. Alone(t)
  BY <1>3, <1>7 DEF Alone
<1>9. LocalOK(t)'
  BY <1>4, <1>5, <1>7, NoneIsNothing DEF LocalOK, OnStack, InHand, Handled
<1>10. Counted(t, "body")
  BY <1>1, <1>3 DEF Counted, ActivePCs, TypeOK
<1>11. /\ JobsTyped /\ "body" \in PCs
       /\ queue' \in Seq(Entry) /\ \A e \in EntriesIn(queue') : EntryOK(e)
  BY <1>1, <1>3 DEF TypeOK, JobsTyped, PCs, Shape
<1>12. Shape'
  BY <1>3, <1>6, <1>7, <1>8, <1>9, <1>10, <1>11, ThreadKeeps DEF Counted, LocalsTyped, JobsTyped
<1> QED
  BY <1>3, <1>4, <1>5, <1>6, <1>7, <1>8, <1>12

(* run() puts the fiber away: back in the queue, retired, or left on hold.   *)
LEMMA PutAwayDoes ==
  ASSUME Shape, NEW t \in Threads, Reschedule(t) \/ Retire(t) \/ SetHold(t)
  PROVE  /\ Shape' /\ Alone(t) /\ pc[t] \in {"settle", "sethold"} /\ pc'[t] = "pop"
         /\ UNCHANGED <<cur, submitted, done, waiting>>
         /\ Handled(t) \in Fibers /\ ft'[t] = NoEntry
         /\ \/ /\ fiber[Handled(t)].state = "READY" /\ pc[t] = "settle"
               /\ queue' = Append(queue, FiberEntry(Handled(t), None)) /\ fiber' = fiber
               /\ cbFiber'[t] = IF ft[t].fiber = None THEN None ELSE cbFiber[t]
            \/ /\ Finished(Handled(t)) /\ pc[t] = "settle" /\ UNCHANGED <<queue, cbFiber>>
               /\ ft[t].fiber # None /\ fiber' = fiber
            \/ /\ Finished(Handled(t)) /\ pc[t] = "settle" /\ UNCHANGED <<queue, cbFiber>>
               /\ ft[t].fiber = None /\ Rewritten({Handled(t)})
               /\ fiber'[Handled(t)] = [state |-> "INIT", cb |-> None, saved |-> TRUE]
            \/ /\ pc[t] = "sethold" /\ UNCHANGED queue /\ Rewritten({Handled(t)})
               /\ fiber'[Handled(t)].state = "HOLD"
               /\ fiber'[Handled(t)].saved = fiber[Handled(t)].saved
               /\ fiber'[Handled(t)].cb = fiber[Handled(t)].cb
               /\ cbFiber'[t] = IF ft[t].fiber = None THEN None ELSE cbFiber[t]
<1> DEFINE h == Handled(t)
<1>1. TypeOK /\ LocalOK(t) /\ fiber \in [Fibers -> FiberRecord]
  BY DEF Shape, TypeOK, FiberRecord
<1>2. /\ pc[t] \in {"settle", "sethold"} /\ pc' = [pc EXCEPT ![t] = "pop"]
      /\ ft' = [ft EXCEPT ![t] = NoEntry]
      /\ UNCHANGED <<cur, idleTerm, active, idle, autoStop, stopping, main,
                     submitted, done, waiting, opsLeft>>
  BY DEF Reschedule, Retire, SetHold, Release, GoTo, fiberVars, countVars, stopVars, jobVars
<1>3. h \in Fibers /\ ft[t].fiber \in Fibers \cup {None}
  BY <1>1, <1>2 DEF TypeOK, Entry, LocalOK, InHand, Handled
<1>4. NoEntry \in Entry /\ NoEntry.fiber = None /\ NoEntry.cb = None
  BY DEF NoEntry, Entry
<1>5. FiberEntry(h, None) \in Entry /\ EntryOK(FiberEntry(h, None))
  BY <1>3, NoneIsNothing DEF FiberEntry, Entry, EntryOK
<1>6. /\ \/ cbFiber' = cbFiber
         \/ cbFiber' = [cbFiber EXCEPT ![t] = None] /\ ft[t].fiber = None
      /\ Retire(t) => cbFiber' = cbFiber
      /\ ~Retire(t) => cbFiber'[t] = IF ft[t].fiber = None THEN None ELSE cbFiber[t]
  BY <1>1 DEF Reschedule, Retire, SetHold, Release, TypeOK
<1>7. \/ /\ fiber[h].state = "READY" /\ pc[t] = "settle" /\ fiber' = fiber
         /\ queue' = Append(queue, FiberEntry(h, None)) /\ ~Retire(t)
      \/ /\ Finished(h) /\ pc[t] = "settle" /\ UNCHANGED queue /\ Retire(t)
         /\ fiber' = IF ft[t].fiber # None THEN fiber
                     ELSE [fiber EXCEPT ![h] = [state |-> "INIT", cb |-> None, saved |-> TRUE]]
      \/ /\ pc[t] = "sethold" /\ UNCHANGED queue /\ ~Retire(t)
         /\ fiber' = [fiber EXCEPT ![h].state = "HOLD"]
  BY DEF Reschedule, Retire, SetHold, GoTo, fiberVars, Finished
<1> HIDE DEF h
<1>8. /\ fiber' \in [Fibers -> FiberRecord]
      /\ \/ /\ fiber[h].state = "READY" /\ pc[t] = "settle" /\ fiber' = fiber
            /\ queue' = Append(queue, FiberEntry(h, None)) /\ ~Retire(t)
         \/ /\ Finished(h) /\ pc[t] = "settle" /\ UNCHANGED queue /\ Retire(t)
            /\ ft[t].fiber # None /\ fiber' = fiber
         \/ /\ Finished(h) /\ pc[t] = "settle" /\ UNCHANGED queue /\ Retire(t)
            /\ ft[t].fiber = None /\ Rewritten({h})
            /\ fiber'[h] = [state |-> "INIT", cb |-> None, saved |-> TRUE]
         \/ /\ pc[t] = "sethold" /\ UNCHANGED queue /\ ~Retire(t) /\ Rewritten({h})
            /\ fiber'[h].state = "HOLD" /\ fiber'[h].saved = fiber[h].saved
            /\ fiber'[h].cb = fiber[h].cb
  <2>1. [state |-> "INIT", cb |-> None, saved |-> TRUE] \in FiberRecord
    BY DEF FiberRecord, States
  <2>2. CASE fiber' = fiber
    BY <1>1, <1>7, <2>2, <1>3, <2>1 DEF Rewritten, FiberRecord, States
  <2>3. CASE Retire(t) /\ ft[t].fiber = None /\ pc[t] = "settle"
    <3>1. \/ fiber' = fiber
          \/ fiber' = [fiber EXCEPT ![h] = [state |-> "INIT", cb |-> None, saved |-> TRUE]]
      BY <1>7, <2>3
    <3> QED
      BY <1>1, <1>7, <2>3, <1>3, <2>1, <2>2, <3>1 DEF Rewritten
  <2>4. CASE pc[t] = "sethold"
    BY <1>1, <1>7, <2>4, <1>3 DEF Rewritten, FiberRecord, States
  <2> QED
    BY <1>7, <2>2, <2>3, <2>4
<1>9. queue' \in Seq(Entry) /\ \A e \in EntriesIn(queue') : EntryOK(e)
  <2>1. queue \in Seq(Entry) /\ \A e \in EntriesIn(queue) : EntryOK(e)
    BY DEF Shape, TypeOK
  <2>2. queue' = queue \/ queue' = Append(queue, FiberEntry(h, None))
    BY <1>8
  <2>3. CASE queue' = queue
    BY <2>1, <2>3
  <2>4. CASE queue' = Append(queue, FiberEntry(h, None))
    BY <1>5, <2>1, <2>4, AppendQueue
  <2> QED
    BY <2>2, <2>3, <2>4
<1>10. /\ LocalsTyped /\ ft'[t] = NoEntry
       /\ \A u \in Threads \ {t} : ft'[u] = ft[u] /\ cbFiber'[u] = cbFiber[u]
       /\ pc'[t] = "pop" /\ \A u \in Threads \ {t} : pc'[u] = pc[u]
  BY <1>1, <1>2, <1>4, <1>6 DEF TypeOK, LocalsTyped
<1>11. Alone(t)
  BY <1>2, <1>10 DEF Alone
<1>12. LocalOK(t)'
  BY <1>1, <1>2, <1>10 DEF LocalOK, OnStack, InHand, Handled
<1>13. Counted(t, "pop")
  BY <1>1, <1>2 DEF Counted, ActivePCs, TypeOK
<1>14. JobsTyped /\ "pop" \in PCs /\ pc[t] # "off"
  BY <1>1, <1>2 DEF TypeOK, JobsTyped, PCs
<1>15. Shape'
  BY <1>2, <1>8, <1>9, <1>10, <1>11, <1>12, <1>13, <1>14, ThreadKeeps
  DEF Counted, LocalsTyped, JobsTyped
<1>16. /\ Retire(t) => UNCHANGED cbFiber
       /\ ~Retire(t) => cbFiber'[t] = IF ft[t].fiber = None THEN None ELSE cbFiber[t]
  BY <1>6
<1>17. /\ Shape' /\ Alone(t) /\ pc[t] \in {"settle", "sethold"} /\ pc'[t] = "pop"
       /\ UNCHANGED <<cur, submitted, done, waiting>>
       /\ h \in Fibers /\ ft'[t] = NoEntry
  BY <1>2, <1>3, <1>10, <1>11, <1>15
<1> HIDE DEF Shape, Alone, Retire, Rewritten, Finished
<1> QED
  BY <1>8, <1>16, <1>17 DEF h

(* A callback yields or ends: the state of its fiber says how.               *)
LEMMA YieldDoes ==
  ASSUME Shape, NEW t \in Threads,
         YieldToReady(t) \/ YieldToHold(t) \/ Return(t) \/ Throw(t)
  PROVE  /\ Shape' /\ Alone(t) /\ pc[t] \in {"body", "hold"} /\ pc'[t] = "yield"
         /\ UNCHANGED <<queue, ft, cbFiber, cur, submitted, waiting>>
         /\ cur[t] \in Fibers /\ Rewritten({cur[t]})
         /\ fiber'[cur[t]].saved = fiber[cur[t]].saved
         /\ \/ /\ pc[t] = "body" /\ "ready" \in Ops /\ fiber[cur[t]].cb # None
               /\ fiber'[cur[t]].state = "READY" /\ fiber'[cur[t]].cb = fiber[cur[t]].cb
               /\ UNCHANGED done
            \/ /\ pc[t] = "hold" /\ UNCHANGED done
               /\ fiber'[cur[t]].state = "HOLD" /\ fiber'[cur[t]].cb = fiber[cur[t]].cb
            \/ /\ pc[t] = "body" /\ fiber[cur[t]].cb # None /\ fiber'[cur[t]].cb = None
               /\ fiber'[cur[t]].state = "TERM" /\ done' = done \cup {fiber[cur[t]].cb}
            \/ /\ pc[t] = "body" /\ fiber'[cur[t]].cb = fiber[cur[t]].cb
               /\ fiber'[cur[t]].state = "EXCEPT"
               /\ done' = done \cup ({fiber[cur[t]].cb} \ {None})
               /\ "throw" \in Ops \/ fiber[cur[t]].cb = None
<1> DEFINE h == cur[t]
<1>1. TypeOK /\ LocalOK(t) /\ fiber \in [Fibers -> FiberRecord]
  BY DEF Shape, TypeOK, FiberRecord
<1>2. /\ pc[t] \in {"body", "hold"} /\ pc' = [pc EXCEPT ![t] = "yield"]
      /\ UNCHANGED <<queue, ft, cbFiber, cur, idleTerm, active, idle, autoStop, stopping, main,
                     submitted, waiting>>
  BY DEF YieldToReady, YieldToHold, Return, Throw, GoTo, localVars, countVars, stopVars, jobVars
<1>3. h \in Fibers
  BY <1>1, <1>2 DEF TypeOK, LocalOK, OnStack
<1>4. opsLeft' \in Nat
  BY <1>1 DEF YieldToReady, YieldToHold, Return, Throw, UseOp, jobVars, TypeOK
<1>5. fiber[h].cb \in Jobs \cup {None}
  BY <1>1, <1>3 DEF FiberRecord
<1>6. /\ fiber' \in [Fibers -> FiberRecord] /\ Rewritten({h}) /\ done' \subseteq Jobs
      /\ fiber'[h].saved = fiber[h].saved
      /\ \/ /\ pc[t] = "body" /\ "ready" \in Ops /\ fiber[h].cb # None
            /\ fiber'[h].state = "READY" /\ fiber'[h].cb = fiber[h].cb /\ UNCHANGED done
         \/ /\ pc[t] = "hold" /\ UNCHANGED done
            /\ fiber'[h].state = "HOLD" /\ fiber'[h].cb = fiber[h].cb
         \/ /\ pc[t] = "body" /\ fiber[h].cb # None /\ fiber'[h].cb = None
            /\ fiber'[h].state = "TERM" /\ done' = done \cup {fiber[h].cb}
         \/ /\ pc[t] = "body" /\ fiber'[h].cb = fiber[h].cb /\ fiber'[h].state = "EXCEPT"
            /\ done' = done \cup ({fiber[h].cb} \ {None})
            /\ "throw" \in Ops \/ fiber[h].cb = None
  <2>1. CASE YieldToReady(t)
    <3>1. /\ fiber' = [fiber EXCEPT ![h].state = "READY"] /\ UNCHANGED done
          /\ pc[t] = "body" /\ "ready" \in Ops /\ fiber[h].cb # None
      BY <2>1 DEF YieldToReady, InBody
    <3> HIDE DEF h
    <3> QED
      BY <1>1, <1>3, <3>1 DEF Rewritten, FiberRecord, States, TypeOK
  <2>2. CASE YieldToHold(t)
    <3>1. fiber' = [fiber EXCEPT ![h].state = "HOLD"] /\ UNCHANGED done /\ pc[t] = "hold"
      BY <2>2 DEF YieldToHold, GoTo, jobVars
    <3> HIDE DEF h
    <3> QED
      BY <1>1, <1>3, <3>1 DEF Rewritten, FiberRecord, States, TypeOK
  <2>3. CASE Return(t)
    <3>1. /\ fiber' = [fiber EXCEPT ![h].state = "TERM", ![h].cb = None]
          /\ done' = done \cup {fiber[h].cb} /\ pc[t] = "body" /\ fiber[h].cb # None
      BY <2>3 DEF Return, GoTo
    <3> HIDE DEF h
    <3> QED
      BY <1>1, <1>3, <1>5, <3>1 DEF Rewritten, FiberRecord, States, TypeOK
  <2>4. CASE Throw(t)
    <3>1. /\ fiber' = [fiber EXCEPT ![h].state = "EXCEPT"]
          /\ done' = done \cup ({fiber[h].cb} \ {None}) /\ pc[t] = "body"
          /\ "throw" \in Ops \/ fiber[h].cb = None
      BY <2>4 DEF Throw, GoTo
    <3> HIDE DEF h
    <3> QED
      BY <1>1, <1>3, <1>5, <3>1 DEF Rewritten, FiberRecord, States, TypeOK
  <2> QED
    BY <2>1, <2>2, <2>3, <2>4
<1>7. pc'[t] = "yield" /\ \A u \in Threads \ {t} : pc'[u] = pc[u]
  BY <1>1, <1>2 DEF TypeOK
<1>8. Alone(t)
  BY <1>2, <1>7 DEF Alone
<1>9. LocalOK(t)'
  BY <1>1, <1>2, <1>7 DEF LocalOK, OnStack, InHand, Handled
<1>10. Counted(t, "yield")
  BY <1>1, <1>2 DEF Counted, ActivePCs, TypeOK
<1>11. /\ LocalsTyped /\ JobsTyped /\ "yield" \in PCs /\ pc[t] # "off"
       /\ queue' \in Seq(Entry) /\ \A e \in EntriesIn(queue') : EntryOK(e)
  BY <1>1, <1>2, <1>4, <1>6 DEF TypeOK, LocalsTyped, JobsTyped, PCs, Shape
<1>12. Shape'
  BY <1>2, <1>6, <1>8, <1>9, <1>10, <1>11, ThreadKeeps DEF Counted, LocalsTyped, JobsTyped
<1> QED
  BY <1>2, <1>3, <1>6, <1>7, <1>8, <1>12

(* swapOut(): the thread is back in run().                                   *)
LEMMA SwapOutDoes ==
  ASSUME Shape, NEW t \in Threads, SwapOut(t)
  PROVE  /\ Shape' /\ Alone(t) /\ pc[t] = "yield" /\ pc'[t] = "back"
         /\ UNCHANGED <<queue, ft, cbFiber, submitted, done, waiting>>
         /\ cur[t] \in Fibers /\ cur[t] = Handled(t) /\ cur'[t] = None /\ Rewritten({cur[t]})
         /\ fiber'[cur[t]].saved /\ fiber'[cur[t]].state = fiber[cur[t]].state
         /\ fiber'[cur[t]].cb = fiber[cur[t]].cb
<1> DEFINE h == cur[t]
<1>1. TypeOK /\ LocalOK(t) /\ fiber \in [Fibers -> FiberRecord]
  BY DEF Shape, TypeOK, FiberRecord
<1>2. /\ pc[t] = "yield" /\ pc' = [pc EXCEPT ![t] = "back"]
      /\ fiber' = [fiber EXCEPT ![h].saved = TRUE] /\ cur' = [cur EXCEPT ![t] = None]
      /\ UNCHANGED <<queue, ft, cbFiber, idleTerm, active, idle, autoStop, stopping, main,
                     submitted, done, waiting, opsLeft>>
  BY DEF SwapOut, GoTo, localVars, countVars, stopVars, jobVars
<1>3. h \in Fibers /\ h = Handled(t)
  BY <1>1, <1>2 DEF TypeOK, LocalOK, OnStack
<1> HIDE DEF h
<1>4. /\ fiber' \in [Fibers -> FiberRecord] /\ Rewritten({h}) /\ fiber'[h].saved
      /\ fiber'[h].state = fiber[h].state /\ fiber'[h].cb = fiber[h].cb
  BY <1>1, <1>2, <1>3 DEF Rewritten, FiberRecord
<1>5. /\ cur' \in [Threads -> Fibers \cup {None}] /\ cur'[t] = None
      /\ \A u \in Threads \ {t} : cur'[u] = cur[u]
      /\ pc'[t] = "back" /\ \A u \in Threads \ {t} : pc'[u] = pc[u]
  BY <1>1, <1>2 DEF TypeOK
<1>6. Alone(t)
  BY <1>2, <1>5 DEF Alone
<1>7. LocalOK(t)'
  BY <1>1, <1>2, <1>5 DEF LocalOK, OnStack, InHand, Handled
<1>8. Counted(t, "back")
  BY <1>1, <1>2 DEF Counted, ActivePCs, TypeOK
<1>9. /\ LocalsTyped /\ JobsTyped /\ "back" \in PCs
      /\ queue' \in Seq(Entry) /\ \A e \in EntriesIn(queue') : EntryOK(e)
  BY <1>1, <1>2, <1>5 DEF TypeOK, LocalsTyped, JobsTyped, PCs, Shape
<1>10. Shape'
  BY <1>2, <1>4, <1>6, <1>7, <1>8, <1>9, ThreadKeeps DEF Counted, LocalsTyped, JobsTyped
<1> QED
  BY <1>2, <1>3, <1>4, <1>5, <1>6, <1>10 DEF h

(* The fiber leaves itself with a waker or with another thread and is about  *)
(* to yield.                                                                 *)
LEMMA LeaveDoes ==
  ASSUME Shape, NEW t \in Threads, NEW p, Wait(t) \/ (p \in Pins /\ SwitchTo(t, p))
  PROVE  /\ Shape' /\ Alone(t) /\ pc[t] = "body" /\ pc'[t] = "hold"
         /\ UNCHANGED <<fiber, ft, cbFiber, cur, submitted, done>>
         /\ cur[t] \in Fibers /\ cur[t] = Handled(t) /\ fiber[cur[t]].cb # None
         /\ \/ /\ "wait" \in Ops /\ UNCHANGED queue /\ waiting' = waiting \cup {cur[t]}
            \/ /\ "switch" \in Ops /\ UNCHANGED waiting
               /\ p \in Threads \ {t} /\ queue' = Append(queue, FiberEntry(cur[t], p))
<1>1. TypeOK /\ LocalOK(t)
  BY DEF Shape
<1>2. /\ pc[t] = "body" /\ pc' = [pc EXCEPT ![t] = "hold"] /\ fiber[cur[t]].cb # None
      /\ opsLeft' \in Nat
      /\ UNCHANGED <<fiber, ft, cbFiber, cur, idleTerm, active, idle, autoStop, stopping, main,
                     submitted, done>>
  BY <1>1 DEF Wait, SwitchTo, InBody, UseOp, GoTo, fiberVars, localVars, countVars, stopVars, TypeOK
<1>3. cur[t] \in Fibers /\ cur[t] = Handled(t)
  BY <1>1, <1>2 DEF TypeOK, LocalOK, OnStack
<1>4. \/ /\ "wait" \in Ops /\ UNCHANGED queue /\ waiting' = waiting \cup {cur[t]}
      \/ /\ "switch" \in Ops /\ UNCHANGED waiting
         /\ p \in Threads \ {t} /\ queue' = Append(queue, FiberEntry(cur[t], p))
  BY SchedulerAssumption DEF Wait, SwitchTo, InBody
<1>5. queue' \in Seq(Entry) /\ \A e \in EntriesIn(queue') : EntryOK(e)
  <2>1. queue \in Seq(Entry) /\ \A e \in EntriesIn(queue) : EntryOK(e)
    BY DEF Shape, TypeOK
  <2>2. CASE queue' = queue
    BY <2>1, <2>2
  <2>3. CASE p \in Threads /\ queue' = Append(queue, FiberEntry(cur[t], p))
    <3>1. FiberEntry(cur[t], p) \in Entry /\ EntryOK(FiberEntry(cur[t], p))
      BY <1>3, <2>3, NoneIsNothing DEF FiberEntry, Entry, EntryOK
    <3> QED
      BY <2>1, <2>3, <3>1, AppendQueue
  <2> QED
    BY <1>4, <2>2, <2>3
<1>6. pc'[t] = "hold" /\ \A u \in Threads \ {t} : pc'[u] = pc[u]
  BY <1>1, <1>2 DEF TypeOK
<1>7. Alone(t)
  BY <1>2, <1>6 DEF Alone
<1>8. LocalOK(t)'
  BY <1>1, <1>2, <1>6 DEF LocalOK, OnStack, InHand, Handled
<1>9. Counted(t, "hold")
  BY <1>1, <1>2 DEF Counted, ActivePCs, TypeOK
<1>10. LocalsTyped /\ JobsTyped /\ "hold" \in PCs /\ fiber' \in [Fibers -> FiberRecord]
  BY <1>1, <1>2, <1>3, <1>4 DEF TypeOK, LocalsTyped, JobsTyped, PCs, FiberRecord
<1>11. Shape'
  BY <1>2, <1>5, <1>7, <1>8, <1>9, <1>10, ThreadKeeps DEF Counted, LocalsTyped, JobsTyped
<1> QED
  BY <1>2, <1>3, <1>4, <1>6, <1>7, <1>11

(* No thread moves.                                                          *)
Still == UNCHANGED <<pc, ft, cbFiber, cur, idleTerm, autoStop, stopping, main>>

LEMMA StillKeeps ==
  ASSUME Shape, Still, UNCHANGED <<active, idle>>,
         queue' \in Seq(Entry), \A e \in EntriesIn(queue') : EntryOK(e),
         fiber' \in [Fibers -> FiberRecord], JobsTyped
  PROVE  Shape'
<1>1. TypeOK'
  BY DEF Shape, TypeOK, Still, JobsTyped, FiberRecord
<1>2. \A u \in Threads : LocalOK(u)'
  BY DEF Shape, LocalOK, Still, Handled
<1>3. StartOK' /\ CountOK'
  BY DEF Shape, StartOK, CountOK, At, Still
<1> QED
  BY <1>1, <1>2, <1>3 DEF Shape

(* schedule() of a callback, by the owner or from inside the pool.           *)
LEMMA SubmitDoes ==
  ASSUME Shape, NEW j \in Jobs, NEW p \in Pins,
         Schedule(j, p) \/ \E t \in Threads : Spawn(t, j, p)
  PROVE  /\ Shape' /\ Still /\ UNCHANGED <<done, waiting>>
         /\ main \in {"new", "running"} \/ ("spawn" \in Ops /\ \E t \in Threads : pc[t] = "body")
         /\ j \notin submitted /\ submitted' = submitted \cup {j}
         /\ \/ UNCHANGED fiber /\ queue' = Append(queue, CbEntry(j, p)) /\ CbEntry(j, p) \in Entry
            \/ \E f \in FreeFibers :
                 /\ Rewritten({f}) /\ fiber'[f] = [state |-> "INIT", cb |-> j, saved |-> TRUE]
                 /\ queue' = Append(queue, FiberEntry(f, p)) /\ FiberEntry(f, p) \in Entry
<1>1. TypeOK /\ fiber \in [Fibers -> FiberRecord]
  BY DEF Shape, TypeOK, FiberRecord
<1>2. /\ UNCHANGED <<pc, ft, cbFiber, cur, idleTerm, active, idle, autoStop, stopping, main,
                     done, waiting, opsLeft>>
      /\ main \in {"new", "running"} \/ ("spawn" \in Ops /\ \E t \in Threads : pc[t] = "body")
      /\ Submit(j, p)
  BY DEF Schedule, Spawn, InBody, localVars, countVars, stopVars
<1>3. CbEntry(j, p) \in Entry /\ EntryOK(CbEntry(j, p)) /\ p \in Threads \cup {None}
  BY NoneIsNothing, SchedulerAssumption DEF CbEntry, Entry, EntryOK
<1>4. \/ UNCHANGED fiber /\ queue' = Append(queue, CbEntry(j, p))
      \/ \E f \in FreeFibers :
           /\ fiber' = [fiber EXCEPT ![f] = [state |-> "INIT", cb |-> j, saved |-> TRUE]]
           /\ queue' = Append(queue, FiberEntry(f, p))
  BY <1>2, NewIsFree DEF Submit
<1>5. /\ fiber' \in [Fibers -> FiberRecord]
      /\ \/ UNCHANGED fiber /\ queue' = Append(queue, CbEntry(j, p))
         \/ \E f \in FreeFibers :
              /\ Rewritten({f}) /\ fiber'[f] = [state |-> "INIT", cb |-> j, saved |-> TRUE]
              /\ queue' = Append(queue, FiberEntry(f, p)) /\ FiberEntry(f, p) \in Entry
              /\ EntryOK(FiberEntry(f, p))
  <2>1. CASE fiber' = fiber
    BY <1>1, <1>4, <2>1, <1>3, NoneIsNothing DEF Rewritten, FiberEntry, Entry, EntryOK, FreeFibers,
       FiberRecord, States
  <2>2. ASSUME NEW f \in FreeFibers,
               fiber' = [fiber EXCEPT ![f] = [state |-> "INIT", cb |-> j, saved |-> TRUE]],
               queue' = Append(queue, FiberEntry(f, p))
        PROVE  /\ fiber' \in [Fibers -> FiberRecord]
               /\ Rewritten({f}) /\ fiber'[f] = [state |-> "INIT", cb |-> j, saved |-> TRUE]
               /\ FiberEntry(f, p) \in Entry /\ EntryOK(FiberEntry(f, p))
    <3>1. f \in Fibers /\ [state |-> "INIT", cb |-> j, saved |-> TRUE] \in FiberRecord
      BY DEF FreeFibers, FiberRecord, States
    <3> QED
      BY <1>1, <1>3, <2>2, <3>1, NoneIsNothing DEF Rewritten, FiberEntry, Entry, EntryOK
  <2> QED
    BY <1>4, <2>1, <2>2
<1>6. queue' \in Seq(Entry) /\ \A e \in EntriesIn(queue') : EntryOK(e)
  <2>1. queue \in Seq(Entry) /\ \A e \in EntriesIn(queue) : EntryOK(e)
    BY DEF Shape, TypeOK
  <2>2. \E e \in Entry : EntryOK(e) /\ queue' = Append(queue, e)
    BY <1>3, <1>5
  <2> QED
    BY <2>1, <2>2, AppendQueue
<1>7. j \notin submitted /\ submitted' = submitted \cup {j}
  BY <1>2 DEF Submit
<1>8. JobsTyped /\ Still
  BY <1>1, <1>2, <1>7 DEF JobsTyped, TypeOK, Still
<1>9. Shape'
  BY <1>2, <1>5, <1>6, <1>8, StillKeeps
<1> QED
  BY <1>2, <1>3, <1>5, <1>7, <1>8, <1>9

(* A fiber that runs, or that waits for its waker, is scheduled.             *)
LEMMA RequeueDoes ==
  ASSUME Shape, NEW f \in Fibers,
         Wake(f) \/ \E t \in Threads : ScheduleSelf(t) /\ f = cur[t]
  PROVE  /\ Shape' /\ Still /\ UNCHANGED <<fiber, submitted, done>>
         /\ queue' = Append(queue, FiberEntry(f, None)) /\ FiberEntry(f, None) \in Entry
         /\ \/ f \in waiting /\ waiting' = waiting \ {f}
            \/ /\ "again" \in Ops /\ UNCHANGED waiting
               /\ \E t \in Threads : pc[t] = "body" /\ f = cur[t] /\ fiber[f].cb # None
                                     /\ ScheduleSelf(t)
<1>1. TypeOK
  BY DEF Shape
<1>2. /\ UNCHANGED <<pc, ft, cbFiber, cur, idleTerm, active, idle, autoStop, stopping, main,
                     fiber, submitted, done>>
      /\ queue' = Append(queue, FiberEntry(f, None))
      /\ \/ f \in waiting /\ waiting' = waiting \ {f}
         \/ /\ "again" \in Ops /\ UNCHANGED waiting
            /\ \E t \in Threads : pc[t] = "body" /\ f = cur[t] /\ fiber[f].cb # None
                                  /\ ScheduleSelf(t)
      /\ opsLeft' \in Nat
  BY <1>1 DEF Wake, ScheduleSelf, InBody, UseOp, fiberVars, localVars, countVars, stopVars, TypeOK
<1>3. FiberEntry(f, None) \in Entry /\ EntryOK(FiberEntry(f, None))
  BY NoneIsNothing DEF FiberEntry, Entry, EntryOK
<1>4. queue' \in Seq(Entry) /\ \A e \in EntriesIn(queue') : EntryOK(e)
  <2>1. queue \in Seq(Entry) /\ \A e \in EntriesIn(queue) : EntryOK(e)
    BY DEF Shape, TypeOK
  <2> QED
    BY <1>2, <1>3, <2>1, AppendQueue
<1>5. JobsTyped /\ Still /\ fiber' \in [Fibers -> FiberRecord]
  BY <1>1, <1>2 DEF JobsTyped, TypeOK, Still, FiberRecord
<1>6. Shape'
  BY <1>2, <1>4, <1>5, StillKeeps
<1> QED
  BY <1>2, <1>3, <1>5, <1>6

(* The steps of the owner: start(), stop() and the two halves of it.         *)
LEMMA MainDoes ==
  ASSUME Shape, Main
  PROVE  /\ Shape'
         /\ UNCHANGED <<queue, fiber, ft, cbFiber, cur, idleTerm, submitted, done, waiting>>
         /\ \A u \in Threads : pc'[u] = pc[u] \/ (pc[u] = "off" /\ pc'[u] = "pop")
         /\ \/ main = "new" /\ main' = "running"
            \/ main = "running" /\ main' = "root" /\ UNCHANGED pc
            \/ StopRoot /\ main = "root" /\ main' = "join"
            \/ /\ main = "join" /\ main' = "stopped" /\ UNCHANGED pc
               /\ \A t \in Threads : pc[t] = "exited" \/ (t = Caller /\ pc[t] = "off")
<1>1. TypeOK /\ StartOK /\ CountOK
  BY DEF Shape
<1>2. /\ UNCHANGED <<queue, fiber, ft, cbFiber, cur, idleTerm, active, idle,
                     submitted, done, waiting, opsLeft>>
      /\ autoStop' \in BOOLEAN /\ stopping' \in BOOLEAN
      /\ main' \in {"new", "running", "root", "join", "stopped"}
  BY <1>1 DEF Main, Start, Stop, StopRoot, Join, fiberVars, localVars, countVars, jobVars, TypeOK
<1>3. /\ pc' \in [Threads -> PCs]
      /\ \A u \in Threads : pc'[u] = pc[u] \/ (pc[u] = "off" /\ pc'[u] = "pop")
      /\ main' = "running" \/ main' = "root" => \A u \in Threads : u = Caller => pc'[u] = "off"
      /\ main' # "new"
  <2>1. CASE Start
    <3>1. \A u \in Threads : u = Caller => u \notin Workers
      BY SchedulerAssumption
    <3> QED
      BY <1>1, <2>1, <3>1 DEF Start, StartOK, TypeOK, PCs
  <2>2. CASE Stop
    BY <1>1, <2>2 DEF Stop, StartOK, TypeOK
  <2>3. CASE StopRoot
    <3>1. Caller # None => Caller \in Threads
      BY DEF Threads
    <3> QED
      BY <1>1, <2>3, <3>1 DEF StopRoot, StartOK, TypeOK, PCs
  <2>4. CASE Join
    BY <1>1, <2>4 DEF Join, StartOK, TypeOK
  <2> QED
    BY <2>1, <2>2, <2>3, <2>4 DEF Main
<1>4. TypeOK'
  BY <1>1, <1>2, <1>3 DEF TypeOK
<1>5. \A u \in Threads : LocalOK(u)'
  BY <1>2, <1>3 DEF Shape, LocalOK, OnStack, InHand, Handled
<1>6. StartOK'
  BY <1>3 DEF StartOK
<1>7. CountOK'
  BY <1>1, <1>2, <1>3 DEF CountOK, At, ActivePCs
<1>8. Shape'
  BY <1>2, <1>4, <1>5, <1>6, <1>7 DEF Shape
<1>9. \/ main = "new" /\ main' = "running"
      \/ main = "running" /\ main' = "root" /\ UNCHANGED pc
      \/ StopRoot /\ main = "root" /\ main' = "join"
      \/ /\ main = "join" /\ main' = "stopped" /\ UNCHANGED pc
         /\ \A t \in Threads : pc[t] = "exited" \/ (t = Caller /\ pc[t] = "off")
  BY DEF Main, Start, Stop, StopRoot, Join
<1> QED
  BY <1>2, <1>3, <1>8, <1>9
-----------------------------------------------------------------------------
LEMMA InitShape == Init => Shape
<1> SUFFICES ASSUME Init PROVE Shape
  OBVIOUS
<1>1. TypeOK
  <2>1. NoEntry \in Entry
    BY DEF NoEntry, Entry
  <2>2. "INIT" \in States /\ "off" \in PCs
    BY DEF States, PCs
  <2>3. MaxOps \in Nat /\ <<>> \in Seq(Entry)
    BY SchedulerAssumption
  <2> QED
    BY <2>1, <2>2, <2>3 DEF Init, TypeOK
<1>2. \A e \in EntriesIn(queue) : EntryOK(e)
  BY DEF Init, EntriesIn
<1>3. \A t \in Threads : LocalOK(t)
  BY DEF Init, LocalOK, OnStack, InHand, NoEntry
<1>4. StartOK
  BY DEF Init, StartOK
<1>5. CountOK
  <2>1. At(ActivePCs) = {} /\ At({"idle"}) = {}
    BY DEF Init, At, ActivePCs
  <2> QED
    BY <2>1, FS_EmptySet DEF Init, CountOK
<1> QED
  BY <1>1, <1>2, <1>3, <1>4, <1>5 DEF Shape

(* A step of the scheduler, or one that only uses up what is left of MaxOps. *)
Quiet ==
  /\ UNCHANGED <<queue, fiber, pc, ft, cbFiber, cur, idleTerm, active, idle, autoStop, stopping,
                 main, submitted, done, waiting>>
  /\ opsLeft' \in Nat
Step == Next \/ Quiet

LEMMA StutterQuiet == Shape /\ (Terminated \/ UNCHANGED vars) => Quiet
BY DEF Shape, TypeOK, Quiet, Terminated, vars, fiberVars, localVars, countVars, stopVars, jobVars

LEMMA QuietShape == Shape /\ Quiet => Shape'
<1> SUFFICES ASSUME Shape, Quiet PROVE Shape'
  OBVIOUS
<1>1. JobsTyped /\ Still /\ queue' \in Seq(Entry) /\ fiber' \in [Fibers -> FiberRecord]
  BY DEF Shape, TypeOK, Quiet, JobsTyped, Still, FiberRecord
<1> QED
  BY <1>1, StillKeeps DEF Shape, Quiet

LEMMA NextShape == Shape /\ Step => Shape'
<1> SUFFICES ASSUME Shape, Step PROVE Shape'
  OBVIOUS
<1>1. CASE Main
  BY <1>1, MainDoes
<1>2. ASSUME NEW j \in Jobs, NEW p \in Pins, Schedule(j, p) PROVE Shape'
  BY <1>2, SubmitDoes
<1>3. ASSUME NEW t \in Threads, Run(t) PROVE Shape'
  <2>1. CASE Take(t)
    BY <2>1, TakeDoes
  <2>2. CASE EnterIdle(t) \/ Exit(t) \/ IdleStep(t) \/ Deactivate(t) \/ Suspend(t)
    BY <2>2, PlainDoes
  <2>3. CASE ResumeFiber(t)
    BY <2>3, ResumeDoes
  <2>4. CASE DropFinished(t)
    BY <2>4, DropDoes
  <2>5. CASE RunCallback(t)
    BY <2>5, CallbackDoes
  <2>6. CASE Reschedule(t) \/ Retire(t) \/ SetHold(t)
    BY <2>6, PutAwayDoes
  <2> QED
    BY <1>3, <2>1, <2>2, <2>3, <2>4, <2>5, <2>6 DEF Run
<1>4. ASSUME NEW t \in Threads, Body(t) PROVE Shape'
  <2>1. ASSUME NEW j \in Jobs, NEW p \in Pins, Spawn(t, j, p) PROVE Shape'
    BY <2>1, SubmitDoes
  <2>2. CASE ScheduleSelf(t)
    <3>1. cur[t] \in Fibers
      BY <2>2 DEF ScheduleSelf, InBody, Shape, TypeOK, LocalOK, OnStack
    <3> QED
      BY <2>2, <3>1, RequeueDoes
  <2>3. CASE Wait(t)
    BY <2>3, LeaveDoes
  <2>4. ASSUME NEW p \in Pins, SwitchTo(t, p) PROVE Shape'
    BY <2>4, LeaveDoes
  <2>5. CASE YieldToReady(t) \/ YieldToHold(t) \/ Return(t) \/ Throw(t)
    BY <2>5, YieldDoes
  <2>6. CASE SwapOut(t)
    BY <2>6, SwapOutDoes
  <2> QED
    BY <1>4, <2>1, <2>2, <2>3, <2>4, <2>5, <2>6, PinsGiven DEF Body
<1>5. ASSUME NEW f \in Fibers, Wake(f) PROVE Shape'
  BY <1>5, RequeueDoes
<1>6. CASE Terminated \/ Quiet
  BY <1>6, StutterQuiet, QuietShape
<1> QED
  BY <1>1, <1>2, <1>3, <1>4, <1>5, <1>6 DEF Next, Step

(* Every variable of the scheduler keeps its type.                           *)
THEOREM TypeCorrect == Spec => []TypeOK
<1>1. Shape => TypeOK
  BY DEF Shape
<1>2. Shape /\ [Next]_vars => Shape'
  BY NextShape, StutterQuiet DEF Step
<1> QED
  BY <1>1, <1>2, InitShape, PTL DEF Spec

(* m_activeThreadCount and m_idleThreadCount never drift from the threads    *)
(* they count, whatever the callbacks do (scheduler.cpp:207-281).            *)
THEOREM CountersCorrect == Spec => []CountersExact
<1>1. Shape => CountersExact
  <2>1. Holding = At(ActivePCs) /\ {t \in Threads : pc[t] = "idle"} = At({"idle"})
    BY DEF Holding, At, ActivePCs
  <2> QED
    BY <2>1 DEF Shape, CountOK, CountersExact
<1>2. Shape /\ [Next]_vars => Shape'
  BY NextShape, StutterQuiet DEF Step
<1> QED
  BY <1>1, <1>2, InitShape, PTL DEF Spec
-----------------------------------------------------------------------------
(* Callbacks that only schedule others, YieldToReady() and throw: a fiber    *)
(* has one place, the queue or a thread, and its state tells which.          *)
Simple == Ops \subseteq {"spawn", "ready", "throw"}

Own(t) == {ft[t].fiber, cbFiber[t]} \ {None}

Apart ==
  /\ waiting = {}
  /\ \A f \in Fibers : OnceFiber(queue, f)
  /\ \A t \in Threads : Own(t) \cap FibersIn(queue) = {}
  /\ \A t, u \in Threads : t # u => Own(t) \cap Own(u) = {}
  /\ \A t \in Threads : ft[t].fiber # None => ft[t].fiber # cbFiber[t]

(* Can be continued: not entered yet, or stopped by YieldToReady().          *)
Fresh(f) == fiber[f].state \in {"INIT", "READY"} /\ fiber[f].saved /\ fiber[f].cb # None

QueuedOK == \A f \in FibersIn(queue) \ {None} : Fresh(f)

StepOK(t) ==
  /\ pc[t] \notin {"hold", "sethold"}
  /\ pc[t] = "dispatch" /\ ft[t].fiber # None => Fresh(ft[t].fiber)
  /\ pc[t] = "body" => fiber[Handled(t)].state = "EXEC" /\ fiber[Handled(t)].cb # None
  /\ pc[t] \in {"yield", "back", "settle"} =>
       /\ fiber[Handled(t)].state \in {"READY", "TERM", "EXCEPT"}
       /\ fiber[Handled(t)].state = "READY" => fiber[Handled(t)].cb # None
       /\ pc[t] # "yield" => fiber[Handled(t)].saved
  /\ cbFiber[t] # None /\ (pc[t] \notin InHand \/ ft[t].fiber # None)
       => fiber[cbFiber[t]].state = "INIT"

SimpleInv == Shape /\ Apart /\ QueuedOK /\ \A t \in Threads : StepOK(t)

(* The other threads do not notice what happens to fibers they do not own.   *)
LEMMA OthersOK ==
  ASSUME SimpleInv, NEW t \in Threads, NEW F, Alone(t), Rewritten(F),
         \A u \in Threads \ {t} : Own(u) \cap F = {},
         StepOK(t)'
  PROVE  \A u \in Threads : StepOK(u)'
<1>1. ASSUME NEW u \in Threads, u # t
      PROVE  StepOK(u)'
  <2>1. /\ pc'[u] = pc[u] /\ ft'[u] = ft[u] /\ cbFiber'[u] = cbFiber[u]
        /\ Handled(u)' = Handled(u) /\ StepOK(u) /\ LocalOK(u)
    BY <1>1 DEF Alone, Handled, SimpleInv, Shape
  <2>2. ft[u].fiber \in Fibers \cup {None} /\ cbFiber[u] \in Fibers \cup {None}
    BY DEF SimpleInv, Shape, TypeOK, Entry
  <2>3. /\ ft[u].fiber # None => fiber'[ft[u].fiber] = fiber[ft[u].fiber]
        /\ cbFiber[u] # None => fiber'[cbFiber[u]] = fiber[cbFiber[u]]
    BY <1>1, <2>2 DEF Rewritten, Own
  <2>4. /\ pc[u] \in InHand => Handled(u) # None
        /\ Handled(u) # None => fiber'[Handled(u)] = fiber[Handled(u)]
    BY <2>1, <2>3 DEF LocalOK, Handled
  <2> QED
    BY <2>1, <2>3, <2>4 DEF StepOK, Fresh, InHand, OnStack
<1> QED
  BY <1>1

(* A fiber that was in no place of the queue or of a thread is free for one. *)
LEMMA FreeIsNowhere ==
  ASSUME NEW f \in FreeFibers
  PROVE  /\ f \in Fibers /\ f \notin FibersIn(queue) /\ f \notin waiting
         /\ \A t \in Threads : f \notin Own(t) /\ f # cur[t]
         /\ \A t \in Threads : ft[t].fiber # f /\ cbFiber[t] # f
         /\ fiber[f].state \in {"INIT", "TERM", "EXCEPT"}
BY DEF FreeFibers, FibersIn, Own

(* What is left to show of a step of one thread that keeps the fibers apart. *)
LEMMA ApartKeeps ==
  ASSUME SimpleInv, NEW t \in Threads, Alone(t), waiting' = {},
         \A f \in Fibers : OnceFiber(queue', f),
         \A u \in Threads \ {t} : Own(u) \cap FibersIn(queue') = {} /\ Own(u) \cap Own(t)' = {},
         Own(t)' \cap FibersIn(queue') = {},
         ft'[t].fiber # None => ft'[t].fiber # cbFiber'[t]
  PROVE  Apart'
<1>1. \A u \in Threads \ {t} : ft'[u] = ft[u] /\ cbFiber'[u] = cbFiber[u] /\ Own(u)' = Own(u)
  BY DEF Alone, Own
<1>2. /\ \A u, v \in Threads : u # v => Own(u) \cap Own(v) = {}
      /\ \A u \in Threads : ft[u].fiber # None => ft[u].fiber # cbFiber[u]
  BY DEF SimpleInv, Apart
<1>3. \A u \in Threads : Own(u)' \cap FibersIn(queue') = {}
  BY <1>1
<1>4. \A u, v \in Threads : u # v => Own(u)' \cap Own(v)' = {}
  BY <1>1, <1>2
<1>5. \A u \in Threads : ft'[u].fiber # None => ft'[u].fiber # cbFiber'[u]
  BY <1>1, <1>2
<1> HIDE DEF Own
<1> QED
  BY <1>3, <1>4, <1>5 DEF Apart

LEMMA SimpleTake ==
  ASSUME SimpleInv, NEW t \in Threads, Take(t)
  PROVE  SimpleInv'
<1>1. Shape /\ Apart /\ QueuedOK /\ StepOK(t) /\ LocalOK(t) /\ queue \in Seq(Entry)
  BY DEF SimpleInv, Shape, TypeOK
<1>2. /\ Shape' /\ Alone(t) /\ pc[t] = "pop" /\ pc'[t] = "dispatch"
      /\ UNCHANGED <<fiber, cbFiber, waiting>>
  BY <1>1, TakeDoes
<1>3. PICK i \in 1..Len(queue) : queue' = RemoveAt(queue, i) /\ ft'[t] = queue[i]
  BY <1>1, TakeDoes
<1> DEFINE f == queue[i].fiber
<1>4. f \in FibersIn(queue) /\ f \in Fibers \cup {None}
  BY <1>1, ReadQueue
<1>5. /\ FibersIn(queue') \subseteq FibersIn(queue)
      /\ \A g \in Fibers : OnceFiber(queue', g)
      /\ f # None => f \notin FibersIn(queue')
  BY <1>1, <1>3, <1>4, RemoveQueue DEF Apart
<1>6. ft[t] = NoEntry /\ ft[t].fiber = None
  BY <1>1, <1>2 DEF LocalOK, InHand, OnStack, NoEntry
<1>7. Own(t) = {cbFiber[t]} \ {None} /\ Own(t)' = {f, cbFiber[t]} \ {None}
  BY <1>2, <1>3, <1>6 DEF Own
<1> HIDE DEF f
<1>8. Apart'
  <2>1. /\ \A u \in Threads \ {t} : Own(u) \cap FibersIn(queue) = {} /\ Own(u) \cap Own(t) = {}
                                    /\ None \notin Own(u)
        /\ Own(t) \cap FibersIn(queue) = {}
    BY <1>1 DEF Apart, Own
  <2>2. \A u \in Threads \ {t} : Own(u) \cap FibersIn(queue') = {} /\ Own(u) \cap Own(t)' = {}
    BY <1>4, <1>5, <1>7, <2>1
  <2>3. Own(t)' \cap FibersIn(queue') = {}
    BY <1>4, <1>5, <1>7, <2>1
  <2>4. ft'[t].fiber # None => ft'[t].fiber # cbFiber'[t]
    BY <1>2, <1>3, <1>4, <1>7, <2>1 DEF f
  <2> QED
    BY <1>1, <1>2, <1>5, <2>2, <2>3, <2>4, ApartKeeps DEF Apart
<1>9. QueuedOK'
  BY <1>1, <1>2, <1>5 DEF QueuedOK, Fresh
<1>10. StepOK(t)'
  <2>1. f # None => Fresh(f)
    BY <1>1, <1>4 DEF QueuedOK
  <2> QED
    BY <1>1, <1>2, <1>3, <1>6, <2>1 DEF StepOK, Fresh, InHand, OnStack, f
<1>11. \A u \in Threads : StepOK(u)'
  <2>1. Rewritten({})
    BY <1>2 DEF Rewritten
  <2> QED
    BY <1>2, <1>10, <2>1, OthersOK
<1> QED
  BY <1>2, <1>8, <1>9, <1>11 DEF SimpleInv

(* Steps that change no fiber and no place of one.                           *)
LEMMA SimplePlain ==
  ASSUME SimpleInv, NEW t \in Threads,
         EnterIdle(t) \/ Exit(t) \/ IdleStep(t) \/ Deactivate(t) \/ Suspend(t)
  PROVE  SimpleInv'
<1>1. Shape /\ Apart /\ QueuedOK /\ StepOK(t) /\ LocalOK(t)
  BY DEF SimpleInv, Shape
<1>2. /\ Shape' /\ Alone(t) /\ UNCHANGED <<queue, fiber, ft, cbFiber, waiting>>
      /\ \/ pc[t] \in {"pop", "idle"} /\ pc'[t] \in {"idle", "exited", "pop"}
         \/ pc[t] = "back" /\ pc'[t] = "settle"
         \/ /\ pc[t] = "settle" /\ pc'[t] = "sethold"
            /\ fiber[Handled(t)].state # "READY" /\ ~Finished(Handled(t))
  BY <1>1, PlainDoes
<1>3. Apart' /\ QueuedOK'
  BY <1>1, <1>2 DEF Apart, QueuedOK, Fresh, Own
<1>4. StepOK(t)'
  <2>1. Handled(t)' = Handled(t)
    BY <1>2 DEF Handled
  <2>2. ~(pc[t] = "settle" /\ fiber[Handled(t)].state # "READY" /\ ~Finished(Handled(t)))
    BY <1>1 DEF StepOK, Finished
  <2> QED
    BY <1>1, <1>2, <2>1, <2>2 DEF StepOK, Fresh, InHand, OnStack
<1>5. \A u \in Threads : StepOK(u)'
  <2>1. Rewritten({})
    BY <1>2 DEF Rewritten
  <2> QED
    BY <1>2, <1>4, <2>1, OthersOK
<1> QED
  BY <1>2, <1>3, <1>5 DEF SimpleInv

(* Steps of a thread that rewrite only the fiber in its hand.                *)
LEMMA OwnKeeps ==
  ASSUME SimpleInv, NEW t \in Threads, NEW f \in Own(t), Alone(t), Rewritten({f}),
         Shape', UNCHANGED <<queue, ft, cbFiber, waiting>>, StepOK(t)'
  PROVE  SimpleInv'
<1>1. Shape /\ Apart /\ QueuedOK
  BY DEF SimpleInv
<1>2. Apart'
  BY <1>1 DEF Apart, Own
<1>3. QueuedOK'
  <2>1. f \notin FibersIn(queue) /\ FibersIn(queue) \subseteq Fibers \cup {None}
    BY <1>1, ReadQueue DEF Apart, Shape, TypeOK
  <2> QED
    BY <1>1, <2>1 DEF QueuedOK, Fresh, Rewritten
<1>4. \A u \in Threads \ {t} : Own(u) \cap {f} = {}
  BY <1>1 DEF Apart
<1>5. \A u \in Threads : StepOK(u)'
  BY <1>4, OthersOK
<1> QED
  BY <1>2, <1>3, <1>5 DEF SimpleInv

LEMMA SimpleResume ==
  ASSUME SimpleInv, NEW t \in Threads, ResumeFiber(t)
  PROVE  SimpleInv'
<1>1. Shape /\ Apart /\ StepOK(t) /\ LocalOK(t)
  BY DEF SimpleInv, Shape
<1>2. /\ Shape' /\ Alone(t) /\ pc[t] = "dispatch" /\ pc'[t] = "body"
      /\ UNCHANGED <<queue, ft, cbFiber, waiting>>
      /\ ft[t].fiber \in Fibers /\ Rewritten({ft[t].fiber})
      /\ fiber'[ft[t].fiber].state = "EXEC"
      /\ fiber'[ft[t].fiber].cb = fiber[ft[t].fiber].cb
  BY <1>1, ResumeDoes
<1>3. ft[t].fiber # None /\ ft[t].fiber \in Own(t) /\ ft[t].fiber # cbFiber[t]
  BY <1>1, <1>2, NoneIsNothing DEF Own, Apart
<1>4. cbFiber[t] # None => fiber'[cbFiber[t]] = fiber[cbFiber[t]]
  BY <1>1, <1>2, <1>3 DEF Rewritten, Shape, TypeOK
<1>5. StepOK(t)'
  BY <1>1, <1>2, <1>3, <1>4 DEF StepOK, Fresh, InHand, OnStack, Handled
<1> QED
  BY <1>2, <1>3, <1>5, OwnKeeps

LEMMA SimpleYield ==
  ASSUME SimpleInv, Simple, NEW t \in Threads,
         YieldToReady(t) \/ YieldToHold(t) \/ Return(t) \/ Throw(t)
  PROVE  SimpleInv'
<1>1. Shape /\ Apart /\ StepOK(t) /\ LocalOK(t)
  BY DEF SimpleInv, Shape
<1>2. /\ Shape' /\ Alone(t) /\ pc[t] \in {"body", "hold"} /\ pc'[t] = "yield"
      /\ UNCHANGED <<queue, ft, cbFiber, cur, waiting>>
      /\ cur[t] \in Fibers /\ Rewritten({cur[t]})
      /\ pc[t] = "hold" \/ fiber'[cur[t]].state \in {"READY", "TERM", "EXCEPT"}
      /\ fiber'[cur[t]].state = "READY" => fiber'[cur[t]].cb # None
  BY <1>1, YieldDoes
<1>3. pc[t] = "body" /\ cur[t] = Handled(t) /\ cur[t] # None
  BY <1>1, <1>2, NoneIsNothing DEF StepOK, LocalOK, OnStack
<1>4. cur[t] \in Own(t) /\ Handled(t)' = cur[t]
  BY <1>2, <1>3 DEF Own, Handled
<1>5. ft[t].fiber # None /\ cbFiber[t] # None => fiber'[cbFiber[t]] = fiber[cbFiber[t]]
  BY <1>1, <1>2, <1>3 DEF Rewritten, Shape, TypeOK, Apart, Handled
<1>6. StepOK(t)'
  BY <1>1, <1>2, <1>3, <1>4, <1>5 DEF StepOK, InHand, OnStack
<1> QED
  BY <1>2, <1>4, <1>6, OwnKeeps

LEMMA SimpleSwapOut ==
  ASSUME SimpleInv, NEW t \in Threads, SwapOut(t)
  PROVE  SimpleInv'
<1>1. Shape /\ Apart /\ StepOK(t) /\ LocalOK(t)
  BY DEF SimpleInv, Shape
<1>2. /\ Shape' /\ Alone(t) /\ pc[t] = "yield" /\ pc'[t] = "back"
      /\ UNCHANGED <<queue, ft, cbFiber, waiting>>
      /\ cur[t] \in Fibers /\ cur[t] = Handled(t) /\ Rewritten({cur[t]})
      /\ fiber'[cur[t]].saved /\ fiber'[cur[t]].state = fiber[cur[t]].state
      /\ fiber'[cur[t]].cb = fiber[cur[t]].cb
  BY <1>1, SwapOutDoes
<1>3. cur[t] # None /\ cur[t] \in Own(t) /\ Handled(t)' = cur[t]
  BY <1>2, NoneIsNothing DEF Own, Handled
<1>4. ft[t].fiber # None /\ cbFiber[t] # None => fiber'[cbFiber[t]] = fiber[cbFiber[t]]
  BY <1>1, <1>2, <1>3 DEF Rewritten, Shape, TypeOK, Apart, Handled
<1>5. StepOK(t)'
  BY <1>1, <1>2, <1>3, <1>4 DEF StepOK, InHand, OnStack
<1> QED
  BY <1>2, <1>3, <1>5, OwnKeeps

LEMMA SimpleCallback ==
  ASSUME SimpleInv, NEW t \in Threads, RunCallback(t)
  PROVE  SimpleInv'
<1>1. Shape /\ Apart /\ QueuedOK /\ StepOK(t) /\ LocalOK(t)
  BY DEF SimpleInv, Shape
<1>2. PICK f \in Fibers : f = cbFiber'[t]
  BY <1>1, CallbackDoes
<1>3. /\ Shape' /\ Alone(t) /\ pc[t] = "dispatch" /\ pc'[t] = "body"
      /\ UNCHANGED <<queue, waiting>>
      /\ ft[t].cb \in Jobs /\ ft[t].fiber = None /\ ft'[t] = NoEntry
      /\ (cbFiber[t] = None /\ f \in FreeFibers) \/ f = cbFiber[t]
      /\ Rewritten({f}) /\ fiber'[f] = [state |-> "EXEC", cb |-> ft[t].cb, saved |-> FALSE]
  <2>1. ft[t].cb \in Jobs \cup {None}
    BY <1>1 DEF Shape, TypeOK, Entry
  <2> QED
    BY <1>1, <1>2, <2>1, CallbackDoes
<1>4. /\ f \notin FibersIn(queue) /\ f # None
      /\ \A u \in Threads \ {t} : f \notin Own(u)
  <2>1. CASE f \in FreeFibers
    BY <2>1, FreeIsNowhere, NoneIsNothing
  <2>2. CASE f = cbFiber[t]
    BY <1>1, <2>2, NoneIsNothing DEF Apart, Own
  <2> QED
    BY <1>3, <2>1, <2>2
<1>5. Own(t)' = {f} /\ ft'[t].fiber = None /\ Handled(t)' = f
  BY <1>2, <1>3, <1>4 DEF Own, Handled, NoEntry
<1>6. Apart'
  <2>1. \A u \in Threads \ {t} : Own(u) \cap FibersIn(queue') = {} /\ Own(u) \cap Own(t)' = {}
    BY <1>1, <1>3, <1>4, <1>5 DEF Apart
  <2>2. Own(t)' \cap FibersIn(queue') = {}
    BY <1>3, <1>4, <1>5
  <2> QED
    BY <1>1, <1>3, <1>5, <2>1, <2>2, ApartKeeps DEF Apart
<1>7. QueuedOK'
  <2>1. FibersIn(queue) \subseteq Fibers \cup {None}
    BY <1>1, ReadQueue DEF Shape, TypeOK
  <2> QED
    BY <1>1, <1>3, <1>4, <2>1 DEF QueuedOK, Fresh, Rewritten
<1>8. StepOK(t)'
  BY <1>2, <1>3, <1>5, NoneIsNothing DEF StepOK, InHand, OnStack
<1>9. \A u \in Threads : StepOK(u)'
  BY <1>3, <1>4, <1>8, OthersOK
<1> QED
  BY <1>3, <1>6, <1>7, <1>9 DEF SimpleInv

LEMMA SimplePutAway ==
  ASSUME SimpleInv, NEW t \in Threads, Reschedule(t) \/ Retire(t) \/ SetHold(t)
  PROVE  SimpleInv'
<1> DEFINE h == Handled(t)
<1>1. Shape /\ Apart /\ QueuedOK /\ StepOK(t) /\ LocalOK(t) /\ queue \in Seq(Entry)
  BY DEF SimpleInv, Shape, TypeOK
<1>2. /\ Shape' /\ Alone(t) /\ pc[t] = "settle" /\ pc'[t] = "pop" /\ UNCHANGED waiting
      /\ h \in Fibers /\ ft'[t] = NoEntry
      /\ \/ /\ fiber[h].state = "READY"
            /\ queue' = Append(queue, FiberEntry(h, None)) /\ fiber' = fiber
            /\ cbFiber'[t] = IF ft[t].fiber = None THEN None ELSE cbFiber[t]
         \/ /\ UNCHANGED <<queue, cbFiber>> /\ ft[t].fiber # None /\ fiber' = fiber
         \/ /\ UNCHANGED <<queue, cbFiber>> /\ ft[t].fiber = None /\ Rewritten({h})
            /\ fiber'[h] = [state |-> "INIT", cb |-> None, saved |-> TRUE]
  BY <1>1, PutAwayDoes DEF StepOK
<1>3. /\ h \in Own(t) /\ h # None /\ h \notin FibersIn(queue)
      /\ \A u \in Threads \ {t} : h \notin Own(u)
      /\ ft[t].fiber # None => h = ft[t].fiber /\ h # cbFiber[t]
      /\ ft[t].fiber = None => h = cbFiber[t]
  BY <1>1, <1>2, NoneIsNothing DEF Own, Handled, Apart
<1>4. FibersIn(queue) \subseteq Fibers \cup {None}
  BY <1>1, ReadQueue
<1>5. StepOK(t)'
  BY <1>1, <1>2, <1>3 DEF StepOK, InHand, OnStack, NoEntry
<1> HIDE DEF h
<1>6. \A u \in Threads : StepOK(u)'
  <2>1. Rewritten({h}) /\ \A u \in Threads \ {t} : Own(u) \cap {h} = {}
    BY <1>2, <1>3 DEF Rewritten
  <2> QED
    BY <1>2, <1>5, <2>1, OthersOK
<1>7. Own(t)' \subseteq Own(t) /\ (queue' # queue => h \notin Own(t)')
      /\ ft'[t].fiber = None
  BY <1>2, <1>3 DEF Own, NoEntry
<1>8. CASE queue' = queue
  <2>1. Apart'
    <3>1. \A u \in Threads \ {t} : Own(u) \cap FibersIn(queue') = {} /\ Own(u) \cap Own(t)' = {}
      BY <1>1, <1>7, <1>8 DEF Apart
    <3>2. Own(t)' \cap FibersIn(queue') = {}
      BY <1>1, <1>7, <1>8 DEF Apart
    <3> QED
      BY <1>1, <1>2, <1>7, <1>8, <3>1, <3>2, ApartKeeps DEF Apart
  <2>2. QueuedOK'
    BY <1>1, <1>2, <1>3, <1>4, <1>8 DEF QueuedOK, Fresh, Rewritten
  <2> QED
    BY <1>2, <1>6, <2>1, <2>2 DEF SimpleInv
<1>9. CASE /\ fiber[h].state = "READY" /\ fiber' = fiber
           /\ queue' = Append(queue, FiberEntry(h, None))
           /\ cbFiber'[t] = IF ft[t].fiber = None THEN None ELSE cbFiber[t]
  <2>1. FiberEntry(h, None) \in Entry /\ FiberEntry(h, None).fiber = h
    BY <1>2 DEF FiberEntry, Entry
  <2>2. /\ FibersIn(queue') = FibersIn(queue) \cup {h}
        /\ \A f \in Fibers : OnceFiber(queue', f)
    BY <1>1, <1>3, <1>9, <2>1, AppendQueue DEF Apart
  <2>3. h \notin Own(t)'
    BY <1>2, <1>3, <1>9 DEF Own, NoEntry
  <2>4. Apart'
    <3>1. \A u \in Threads \ {t} : Own(u) \cap FibersIn(queue') = {} /\ Own(u) \cap Own(t)' = {}
      BY <1>1, <1>3, <1>7, <2>2 DEF Apart
    <3>2. Own(t)' \cap FibersIn(queue') = {}
      BY <1>1, <1>7, <2>2, <2>3 DEF Apart
    <3> QED
      BY <1>1, <1>2, <1>7, <2>2, <3>1, <3>2, ApartKeeps DEF Apart
  <2>5. QueuedOK'
    <3>1. Fresh(h)
      BY <1>1, <1>2, <1>9 DEF StepOK, Fresh, h
    <3> QED
      BY <1>1, <1>9, <2>2, <3>1 DEF QueuedOK, Fresh
  <2> QED
    BY <1>2, <1>6, <2>4, <2>5 DEF SimpleInv
<1> QED
  BY <1>2, <1>8, <1>9

LEMMA SimpleSubmit ==
  ASSUME SimpleInv, NEW j \in Jobs, NEW p \in Pins,
         Schedule(j, p) \/ \E t \in Threads : Spawn(t, j, p)
  PROVE  SimpleInv'
<1>1. Shape /\ Apart /\ QueuedOK /\ (\A t \in Threads : StepOK(t)) /\ queue \in Seq(Entry)
  BY DEF SimpleInv, Shape, TypeOK
<1>2. /\ Shape' /\ Still /\ UNCHANGED waiting
      /\ \/ UNCHANGED fiber /\ queue' = Append(queue, CbEntry(j, p)) /\ CbEntry(j, p) \in Entry
         \/ \E f \in FreeFibers :
              /\ Rewritten({f}) /\ fiber'[f] = [state |-> "INIT", cb |-> j, saved |-> TRUE]
              /\ queue' = Append(queue, FiberEntry(f, p)) /\ FiberEntry(f, p) \in Entry
  BY <1>1, SubmitDoes
<1>3. \A t \in Threads : Own(t)' = Own(t) /\ Handled(t)' = Handled(t)
  BY <1>2 DEF Still, Own, Handled
<1>4. CASE UNCHANGED fiber /\ queue' = Append(queue, CbEntry(j, p)) /\ CbEntry(j, p) \in Entry
  <2>1. CbEntry(j, p).fiber = None
    BY DEF CbEntry
  <2>2. /\ FibersIn(queue') = FibersIn(queue) \cup {None}
        /\ \A f \in Fibers : OnceFiber(queue', f)
    BY <1>1, <1>4, <2>1, AppendQueue, NoneIsNothing DEF Apart
  <2>3. Apart'
    <3>1. \A t \in Threads : Own(t)' \cap FibersIn(queue') = {}
      BY <1>1, <1>3, <2>2 DEF Apart, Own
    <3> QED
      BY <1>1, <1>2, <1>3, <2>2, <3>1 DEF Apart, Still
  <2>4. QueuedOK'
    BY <1>1, <1>4, <2>2 DEF QueuedOK, Fresh
  <2>5. \A t \in Threads : StepOK(t)'
    BY <1>1, <1>2, <1>3, <1>4 DEF StepOK, Fresh, Still
  <2> QED
    BY <1>2, <2>3, <2>4, <2>5 DEF SimpleInv
<1>5. ASSUME NEW f \in FreeFibers,
             Rewritten({f}), fiber'[f] = [state |-> "INIT", cb |-> j, saved |-> TRUE],
             queue' = Append(queue, FiberEntry(f, p)), FiberEntry(f, p) \in Entry
      PROVE  SimpleInv'
  <2>1. FiberEntry(f, p).fiber = f
    BY DEF FiberEntry
  <2>2. /\ f \in Fibers /\ f \notin FibersIn(queue) /\ f # None
        /\ \A t \in Threads : f \notin Own(t) /\ ft[t].fiber # f /\ cbFiber[t] # f
    BY FreeIsNowhere, NoneIsNothing
  <2>3. /\ FibersIn(queue') = FibersIn(queue) \cup {f}
        /\ \A g \in Fibers : OnceFiber(queue', g)
    BY <1>1, <1>5, <2>1, <2>2, AppendQueue DEF Apart
  <2>4. Apart'
    <3>1. \A t \in Threads : Own(t)' \cap FibersIn(queue') = {}
      BY <1>1, <1>3, <2>2, <2>3 DEF Apart
    <3> QED
      BY <1>1, <1>2, <1>3, <2>3, <3>1 DEF Apart, Still
  <2>5. QueuedOK'
    <3>1. FibersIn(queue) \subseteq Fibers \cup {None}
      BY <1>1, ReadQueue
    <3> QED
      BY <1>1, <1>5, <2>2, <2>3, <3>1, NoneIsNothing DEF QueuedOK, Fresh, Rewritten
  <2>6. ASSUME NEW t \in Threads PROVE StepOK(t)'
    <3>1. /\ ft[t].fiber # None => fiber'[ft[t].fiber] = fiber[ft[t].fiber]
          /\ cbFiber[t] # None => fiber'[cbFiber[t]] = fiber[cbFiber[t]]
      BY <1>1, <1>5, <2>2 DEF Rewritten, Shape, TypeOK, Entry
    <3>2. pc[t] \in InHand => Handled(t) # None /\ fiber'[Handled(t)] = fiber[Handled(t)]
      BY <1>1, <3>1 DEF Shape, LocalOK, Handled
    <3> QED
      BY <1>1, <1>2, <1>3, <3>1, <3>2 DEF StepOK, Fresh, Still, InHand, OnStack
  <2> QED
    BY <1>2, <2>4, <2>5, <2>6 DEF SimpleInv
<1> QED
  BY <1>2, <1>4, <1>5

LEMMA SimpleMain ==
  ASSUME SimpleInv, Main
  PROVE  SimpleInv'
<1>1. Shape /\ Apart /\ QueuedOK /\ (\A t \in Threads : StepOK(t))
  BY DEF SimpleInv
<1>2. /\ Shape' /\ UNCHANGED <<queue, fiber, ft, cbFiber, waiting>>
      /\ \A u \in Threads : pc'[u] = pc[u] \/ (pc[u] = "off" /\ pc'[u] = "pop")
  BY <1>1, MainDoes
<1>3. Apart' /\ QueuedOK'
  BY <1>1, <1>2 DEF Apart, QueuedOK, Fresh, Own
<1>4. \A t \in Threads : StepOK(t)'
  <2>1. \A t \in Threads : Handled(t)' = Handled(t)
    BY <1>2 DEF Handled
  <2> QED
    BY <1>1, <1>2, <2>1 DEF StepOK, Fresh, InHand, OnStack
<1> QED
  BY <1>2, <1>3, <1>4 DEF SimpleInv

LEMMA SimpleInit == Init => SimpleInv
<1> SUFFICES ASSUME Init PROVE SimpleInv
  OBVIOUS
<1>1. Apart /\ QueuedOK
  BY DEF Init, Apart, QueuedOK, Own, FibersIn, OnceFiber, NoEntry
<1>2. \A t \in Threads : StepOK(t)
  BY DEF Init, StepOK, NoEntry
<1> QED
  BY <1>1, <1>2, InitShape DEF SimpleInv

LEMMA SimpleNext ==
  ASSUME SimpleInv, Simple, Step
  PROVE  SimpleInv'
<1>1. Shape /\ waiting = {} /\ "wait" \notin Ops /\ "switch" \notin Ops /\ "again" \notin Ops
  BY DEF SimpleInv, Apart, Simple
<1>2. ASSUME NEW t \in Threads, Run(t) PROVE SimpleInv'
  <2>1. CASE DropFinished(t)
    BY <1>1, <2>1, DropDoes DEF SimpleInv, StepOK, Fresh, Finished
  <2> QED
    BY <1>2, <2>1, SimpleTake, SimplePlain, SimpleResume, SimpleCallback, SimplePutAway DEF Run
<1>3. ASSUME NEW t \in Threads, Body(t) PROVE SimpleInv'
  <2>1. ~ScheduleSelf(t) /\ ~Wait(t) /\ \A p \in Pins : ~SwitchTo(t, p)
    BY <1>1 DEF ScheduleSelf, Wait, SwitchTo, InBody
  <2> QED
    BY <1>3, <2>1, SimpleSubmit, SimpleYield, SimpleSwapOut, PinsGiven DEF Body
<1>4. ASSUME NEW f \in Fibers, Wake(f) PROVE SimpleInv'
  BY <1>1, <1>4 DEF Wake
<1>5. CASE Quiet
  <2>1. Shape'
    BY <1>1, <1>5, QuietShape
  <2>2. Apart' /\ QueuedOK'
    BY <1>5 DEF Quiet, SimpleInv, Apart, QueuedOK, Fresh, Own
  <2>3. \A t \in Threads : StepOK(t)'
    BY <1>5 DEF Quiet, SimpleInv, StepOK, Fresh, Handled
  <2> QED
    BY <2>1, <2>2, <2>3 DEF SimpleInv
<1>6. CASE Terminated
  BY <1>1, <1>5, <1>6, StutterQuiet
<1> QED
  BY <1>2, <1>3, <1>4, <1>5, <1>6, SimpleMain, SimpleSubmit DEF Next, Step
-----------------------------------------------------------------------------
(* A scheduler of one thread: whatever its callbacks do, a fiber is EXEC or  *)
(* without its last context only while the thread is on its stack.           *)
HereOK(t) ==
  /\ \A f \in Fibers :
       /\ fiber[f].state = "EXEC" => pc[t] \in {"body", "hold"} /\ f = Handled(t)
       /\ ~fiber[f].saved => pc[t] \in OnStack /\ f = Handled(t)
  /\ pc[t] \in {"body", "hold"} => fiber[Handled(t)].state = "EXEC"
  /\ pc[t] = "sethold" => fiber[Handled(t)].state \in {"INIT", "HOLD"}

LEMMA HereInit ==
  ASSUME Init, NEW t \in Threads
  PROVE  HereOK(t)
BY DEF Init, HereOK

LEMMA HereRun ==
  ASSUME Shape, NEW t \in Threads, HereOK(t), Run(t)
  PROVE  HereOK(t)'
<1>1. LocalOK(t) /\ TypeOK /\ \A f \in Fibers : fiber[f].state \in States
  BY DEF Shape, TypeOK
<1>2. CASE Take(t)
  BY <1>2, TakeDoes DEF HereOK, OnStack
<1>3. CASE EnterIdle(t) \/ Exit(t) \/ IdleStep(t) \/ Deactivate(t) \/ Suspend(t)
  <2>1. /\ UNCHANGED <<fiber, ft, cbFiber>>
        /\ \/ pc[t] \in {"pop", "idle"} /\ pc'[t] \in {"idle", "exited", "pop"}
           \/ pc[t] = "back" /\ pc'[t] = "settle"
           \/ /\ pc[t] = "settle" /\ pc'[t] = "sethold"
              /\ fiber[Handled(t)].state # "READY" /\ ~Finished(Handled(t))
    BY <1>3, PlainDoes
  <2>2. Handled(t)' = Handled(t) /\ (pc[t] = "settle" => Handled(t) \in Fibers)
    BY <1>1, <2>1 DEF Handled, LocalOK, InHand, TypeOK, Entry
  <2> QED
    BY <1>1, <2>1, <2>2 DEF HereOK, OnStack, Finished, States
<1>4. CASE ResumeFiber(t)
  <2>1. /\ pc[t] = "dispatch" /\ pc'[t] = "body" /\ UNCHANGED <<ft, cbFiber>>
        /\ ft[t].fiber \in Fibers /\ Rewritten({ft[t].fiber})
        /\ fiber'[ft[t].fiber].state = "EXEC"
    BY <1>4, ResumeDoes
  <2>2. Handled(t)' = ft[t].fiber
    BY <2>1, NoneIsNothing DEF Handled
  <2> QED
    BY <2>1, <2>2 DEF HereOK, OnStack, Rewritten
<1>5. CASE DropFinished(t)
  BY <1>5, DropDoes DEF HereOK, OnStack
<1>6. CASE RunCallback(t)
  <2>0. /\ pc[t] = "dispatch" /\ pc'[t] = "body" /\ cbFiber'[t] \in Fibers
        /\ ft'[t] = NoEntry /\ Rewritten({cbFiber'[t]})
        /\ fiber'[cbFiber'[t]] = [state |-> "EXEC", cb |-> ft[t].cb, saved |-> FALSE]
    BY <1>6, CallbackDoes
  <2>1. /\ pc[t] = "dispatch" /\ pc'[t] = "body" /\ cbFiber'[t] \in Fibers
        /\ ft'[t].fiber = None /\ Rewritten({cbFiber'[t]})
        /\ fiber'[cbFiber'[t]].state = "EXEC"
    BY <2>0 DEF NoEntry
  <2>2. Handled(t)' = cbFiber'[t]
    BY <2>1 DEF Handled
  <2> QED
    BY <2>1, <2>2 DEF HereOK, OnStack, Rewritten
<1>7. CASE Reschedule(t) \/ Retire(t) \/ SetHold(t)
  <2>0. /\ pc[t] \in {"settle", "sethold"} /\ pc'[t] = "pop" /\ Handled(t) \in Fibers
        /\ \/ fiber' = fiber
           \/ /\ Rewritten({Handled(t)})
              /\ fiber'[Handled(t)] = [state |-> "INIT", cb |-> None, saved |-> TRUE]
           \/ /\ Rewritten({Handled(t)}) /\ fiber'[Handled(t)].state = "HOLD"
              /\ fiber'[Handled(t)].saved = fiber[Handled(t)].saved
    BY <1>7, PutAwayDoes
  <2>1. /\ pc[t] \in {"settle", "sethold"} /\ pc'[t] = "pop" /\ Handled(t) \in Fibers
        /\ \/ fiber' = fiber
           \/ /\ Rewritten({Handled(t)}) /\ fiber'[Handled(t)].state \in {"INIT", "HOLD"}
              /\ \/ fiber'[Handled(t)].saved = fiber[Handled(t)].saved
                 \/ fiber'[Handled(t)].saved = TRUE
    BY <2>0
  <2> QED
    BY <2>1 DEF HereOK, OnStack, Rewritten
<1> QED
  BY <1>2, <1>3, <1>4, <1>5, <1>6, <1>7 DEF Run

LEMMA HereBody ==
  ASSUME Shape, NEW t \in Threads, HereOK(t),
         YieldToReady(t) \/ YieldToHold(t) \/ Return(t) \/ Throw(t) \/ SwapOut(t)
           \/ Wait(t) \/ \E p \in Pins : SwitchTo(t, p)
  PROVE  HereOK(t)'
<1>1. LocalOK(t)
  BY DEF Shape
<1>2. CASE YieldToReady(t) \/ YieldToHold(t) \/ Return(t) \/ Throw(t)
  <2>1. /\ pc[t] \in {"body", "hold"} /\ pc'[t] = "yield" /\ UNCHANGED <<ft, cbFiber>>
        /\ cur[t] \in Fibers /\ Rewritten({cur[t]})
        /\ fiber'[cur[t]].saved = fiber[cur[t]].saved
        /\ fiber'[cur[t]].state \in {"READY", "HOLD", "TERM", "EXCEPT"}
    BY <1>2, YieldDoes
  <2>2. cur[t] = Handled(t) /\ Handled(t)' = Handled(t)
    BY <1>1, <2>1 DEF LocalOK, OnStack, Handled
  <2> QED
    BY <2>1, <2>2 DEF HereOK, OnStack, Rewritten
<1>3. CASE SwapOut(t)
  <2>1. /\ pc[t] = "yield" /\ pc'[t] = "back" /\ cur[t] \in Fibers /\ cur[t] = Handled(t)
        /\ Rewritten({cur[t]}) /\ fiber'[cur[t]].saved
        /\ fiber'[cur[t]].state = fiber[cur[t]].state
    BY <1>3, SwapOutDoes
  <2> QED
    BY <2>1 DEF HereOK, OnStack, Rewritten
<1>4. CASE Wait(t) \/ \E p \in Pins : SwitchTo(t, p)
  <2>1. /\ pc[t] = "body" /\ pc'[t] = "hold" /\ UNCHANGED <<fiber, ft, cbFiber>>
    BY <1>4, LeaveDoes
  <2>2. Handled(t)' = Handled(t)
    BY <2>1 DEF Handled
  <2> QED
    BY <2>1, <2>2 DEF HereOK, OnStack
<1> QED
  BY <1>2, <1>3, <1>4

LEMMA HereNext ==
  ASSUME Shape, Step, NEW w, Threads = {w}, HereOK(w)
  PROVE  HereOK(w)'
<1>1. w \in Threads /\ \A t \in Threads : t = w
  OBVIOUS
<1>2. LocalOK(w)
  BY <1>1 DEF Shape
<1>3. CASE Main
  <2>1. /\ UNCHANGED <<fiber, ft, cbFiber>>
        /\ pc'[w] = pc[w] \/ (pc[w] = "off" /\ pc'[w] = "pop")
    BY <1>1, <1>3, MainDoes
  <2> QED
    BY <2>1 DEF HereOK, OnStack, Handled
<1>4. ASSUME NEW j \in Jobs, NEW p \in Pins,
             Schedule(j, p) \/ \E t \in Threads : Spawn(t, j, p)
      PROVE  HereOK(w)'
  <2>1. /\ Still
        /\ fiber' = fiber \/ \E f \in FreeFibers :
             Rewritten({f}) /\ fiber'[f] = [state |-> "INIT", cb |-> j, saved |-> TRUE]
    BY <1>4, SubmitDoes
  <2>2. Handled(w)' = Handled(w) /\ pc'[w] = pc[w]
    BY <2>1 DEF Still, Handled
  <2>3. ASSUME NEW f \in FreeFibers, Rewritten({f}),
               fiber'[f] = [state |-> "INIT", cb |-> j, saved |-> TRUE]
        PROVE  HereOK(w)'
    <3>1. f \in Fibers /\ ft[w].fiber # f /\ cbFiber[w] # f
      BY <1>1, FreeIsNowhere
    <3>2. pc[w] \in InHand => Handled(w) # f /\ Handled(w) \in Fibers
      BY <1>1, <1>2, <3>1 DEF Handled, LocalOK, Shape, TypeOK, Entry
    <3> QED
      BY <2>2, <2>3, <3>1, <3>2 DEF HereOK, InHand, OnStack, Rewritten
  <2>4. CASE fiber' = fiber
    BY <2>2, <2>4 DEF HereOK
  <2> QED
    BY <2>1, <2>3, <2>4
<1>5. ASSUME NEW f \in Fibers,
             Wake(f) \/ \E t \in Threads : ScheduleSelf(t) /\ f = cur[t]
      PROVE  HereOK(w)'
  BY <1>5, RequeueDoes DEF HereOK, Still, Handled
<1>6. CASE Quiet
  BY <1>6 DEF HereOK, Quiet, Handled
<1>7. ScheduleSelf(w) => cur[w] \in Fibers
  BY <1>1, <1>2 DEF ScheduleSelf, InBody, LocalOK, OnStack, Shape, TypeOK
<1>8. CASE Body(w)
  BY <1>1, <1>4, <1>5, <1>7, <1>8, HereBody, PinsGiven DEF Body
<1> QED
  BY <1>1, <1>3, <1>4, <1>5, <1>6, <1>8, HereRun, StutterQuiet DEF Step, Next

(* The conditions under which no thread meets a fiber another one is still   *)
(* busy with: one thread, or callbacks that do not wait or switch threads.   *)
Alike == Simple \/ \E w : Threads = {w}

AlikeInv ==
  /\ Shape
  /\ Simple => SimpleInv
  /\ \A w : Threads = {w} => HereOK(w)

LEMMA AlikeInit == Init => AlikeInv
BY InitShape, SimpleInit, HereInit DEF AlikeInv

LEMMA AlikeNext == AlikeInv /\ Step => AlikeInv'
<1> SUFFICES ASSUME AlikeInv, Step PROVE AlikeInv'
  OBVIOUS
<1>1. Shape'
  BY NextShape DEF AlikeInv
<1>2. Simple => SimpleInv'
  BY SimpleNext DEF AlikeInv
<1>3. ASSUME NEW w, Threads = {w} PROVE HereOK(w)'
  BY <1>3, HereNext DEF AlikeInv
<1> QED
  BY <1>1, <1>2, <1>3 DEF AlikeInv

LEMMA AlikeAlways == Spec => []AlikeInv
<1>1. AlikeInv /\ [Next]_vars => AlikeInv'
  BY AlikeNext, StutterQuiet DEF Step, AlikeInv
<1> QED
  BY <1>1, AlikeInit, PTL DEF Spec

(* The entry run() took never names a fiber whose last context is not saved  *)
(* yet (scheduler.cpp:199), on one thread whatever the callbacks do, and on  *)
(* any number of threads if they only schedule, yield with READY and throw.  *)
(* With YieldToHold() and a waker it is not so on two threads.               *)
THEOREM ResumeCorrect ==
  ASSUME Alike
  PROVE  Spec => []ResumesStoppedFiber
<1>1. AlikeInv => ResumesStoppedFiber
  <2> SUFFICES ASSUME AlikeInv, NEW t \in Threads, pc[t] = "dispatch", ft[t].fiber # None
               PROVE  fiber[ft[t].fiber].saved
    BY DEF ResumesStoppedFiber
  <2>1. ft[t].fiber \in Fibers
    BY DEF AlikeInv, Shape, TypeOK, Entry
  <2>2. CASE Simple
    BY <2>2 DEF AlikeInv, SimpleInv, StepOK, Fresh
  <2>3. CASE \E w : Threads = {w}
    BY <2>1, <2>3 DEF AlikeInv, HereOK, OnStack
  <2> QED
    BY <2>2, <2>3 DEF Alike
<1> QED
  BY <1>1, AlikeAlways, PTL

(* The assertion of swapIn() (fiber.cpp:138), under the same conditions.     *)
THEOREM SwapInCorrect ==
  ASSUME Alike
  PROVE  Spec => []SwapInAssertion
<1>1. AlikeInv => SwapInAssertion
  <2> SUFFICES ASSUME AlikeInv, NEW t \in Threads, pc[t] = "dispatch", ft[t].fiber # None
               PROVE  fiber[ft[t].fiber].state # "EXEC"
    BY DEF SwapInAssertion
  <2>1. ft[t].fiber \in Fibers
    BY DEF AlikeInv, Shape, TypeOK, Entry
  <2>2. CASE Simple
    BY <2>2 DEF AlikeInv, SimpleInv, StepOK, Fresh
  <2>3. CASE \E w : Threads = {w}
    BY <2>1, <2>3 DEF AlikeInv, HereOK, OnStack
  <2> QED
    BY <2>2, <2>3 DEF Alike
<1> QED
  BY <1>1, AlikeAlways, PTL

(* run() resets a cb_fiber for the next callback only while nobody uses it   *)
(* (fiber.h:66), if callbacks only schedule, yield with READY and throw.     *)
THEOREM ResetCorrect ==
  ASSUME Simple
  PROVE  Spec => []ResetsUnusedFiber
<1>1. AlikeInv => ResetsUnusedFiber
  BY DEF AlikeInv, SimpleInv, StepOK, ResetsUnusedFiber, InHand, OnStack
<1> QED
  BY <1>1, AlikeAlways, PTL
-----------------------------------------------------------------------------
(* A callback that has not ended is in one place: an entry, the ft of a      *)
(* thread, or a fiber that can still run it.                                 *)
Live(f) == ~Finished(f) /\ fiber[f].cb # None

LiveOK(f) ==
  Live(f) => /\ fiber[f].cb \in submitted \ done
             /\ fiber[f].cb \notin JobsIn(queue)
             /\ \A t \in Threads : ft[t].cb # fiber[f].cb
             /\ \A g \in Fibers : Live(g) /\ fiber[g].cb = fiber[f].cb => g = f
EntryJobOK(j) == /\ OnceJob(queue, j) /\ j \in submitted \ done
                 /\ \A t \in Threads : ft[t].cb # j
LocalJobOK(t) ==
  ft[t].cb # None => /\ ft[t].cb \in submitted \ done
                     /\ \A u \in Threads : ft[u].cb = ft[t].cb => u = t

JobsApart ==
  /\ done \subseteq submitted
  /\ \A f \in Fibers : LiveOK(f)
  /\ \A j \in JobsIn(queue) \ {None} : EntryJobOK(j)
  /\ \A t \in Threads : LocalJobOK(t)

(* Steps that move no callback, as far as anyone can tell.                   *)
LEMMA JobsSame ==
  ASSUME Shape, JobsApart, UNCHANGED <<submitted, done>>,
         \A f \in Fibers : Live(f)' => Live(f) /\ fiber'[f].cb = fiber[f].cb,
         JobsIn(queue') \subseteq JobsIn(queue) \cup {None},
         \A j \in Jobs : OnceJob(queue, j) => OnceJob(queue', j),
         \A t \in Threads : ft'[t].cb \in {ft[t].cb, None}
  PROVE  JobsApart'
<1>1. \A f \in Fibers : fiber[f].cb \in Jobs \cup {None}
  BY DEF Shape, TypeOK
<1>2. \A f \in Fibers : Live(f)' => fiber[f].cb # None
  BY DEF Live
<1>3. \A f \in Fibers : LiveOK(f)'
  <2> SUFFICES ASSUME NEW f \in Fibers, Live(f)' PROVE LiveOK(f)'
    BY DEF LiveOK
  <2>1. LiveOK(f) /\ Live(f) /\ fiber'[f].cb = fiber[f].cb /\ fiber[f].cb # None
    BY <1>2 DEF JobsApart
  <2>2. /\ fiber'[f].cb \in submitted' \ done' /\ fiber'[f].cb \notin JobsIn(queue')
        /\ \A t \in Threads : ft'[t].cb # fiber'[f].cb
    BY <2>1 DEF LiveOK
  <2>3. \A g \in Fibers : Live(g)' /\ fiber'[g].cb = fiber'[f].cb => g = f
    BY <2>1 DEF LiveOK
  <2> QED
    BY <2>2, <2>3 DEF LiveOK
<1>4. \A j \in JobsIn(queue') \ {None} : EntryJobOK(j)'
  <2> SUFFICES ASSUME NEW j \in JobsIn(queue') \ {None} PROVE EntryJobOK(j)'
    OBVIOUS
  <2>1. j \in JobsIn(queue) /\ j \in Jobs /\ j # None
    BY ReadQueue DEF Shape, TypeOK
  <2> QED
    BY <2>1 DEF EntryJobOK, JobsApart
<1>5. \A t \in Threads : LocalJobOK(t)'
  BY DEF JobsApart, LocalJobOK
<1> QED
  BY <1>3, <1>4, <1>5 DEF JobsApart

LEMMA JobsTake ==
  ASSUME Shape, JobsApart, NEW t \in Threads, Take(t)
  PROVE  JobsApart'
<1>1. queue \in Seq(Entry) /\ ft \in [Threads -> Entry] /\ LocalOK(t)
  BY DEF Shape, TypeOK
<1>2. /\ Alone(t) /\ UNCHANGED <<fiber, submitted, done>> /\ pc[t] = "pop"
  BY TakeDoes
<1>3. PICK i \in 1..Len(queue) : queue' = RemoveAt(queue, i) /\ ft'[t] = queue[i]
  BY TakeDoes
<1> DEFINE j == queue[i].cb
<1>4. j \in JobsIn(queue) /\ j \in Jobs \cup {None}
  BY <1>1, ReadQueue
<1>5. /\ JobsIn(queue') \subseteq JobsIn(queue)
      /\ \A k : OnceJob(queue, k) => OnceJob(queue', k) /\ (k = j => k \notin JobsIn(queue'))
  BY <1>1, <1>3, RemoveQueue
<1>6. ft'[t].cb = j /\ \A u \in Threads \ {t} : ft'[u].cb = ft[u].cb
  BY <1>2, <1>3 DEF Alone
<1> HIDE DEF j
<1>7. \A f \in Fibers : Live(f)' <=> Live(f)
  BY <1>2 DEF Live, Finished
<1>8. j # None => EntryJobOK(j)
  BY <1>4 DEF JobsApart
<1>9. \A f \in Fibers : LiveOK(f)'
  <2> SUFFICES ASSUME NEW f \in Fibers, Live(f) PROVE LiveOK(f)'
    BY <1>7 DEF LiveOK
  <2>1. LiveOK(f) /\ fiber[f].cb # j
    BY <1>4 DEF JobsApart, LiveOK
  <2> QED
    BY <1>2, <1>5, <1>6, <1>7, <2>1 DEF LiveOK
<1>10. \A k \in JobsIn(queue') \ {None} : EntryJobOK(k)'
  <2> SUFFICES ASSUME NEW k \in JobsIn(queue') \ {None} PROVE EntryJobOK(k)'
    OBVIOUS
  <2>1. EntryJobOK(k) /\ k # j
    BY <1>5 DEF JobsApart, EntryJobOK
  <2> QED
    BY <1>2, <1>5, <1>6, <2>1 DEF EntryJobOK
<1>11. \A u \in Threads : LocalJobOK(u)'
  BY <1>2, <1>6, <1>8 DEF JobsApart, LocalJobOK, EntryJobOK
<1> QED
  BY <1>2, <1>9, <1>10, <1>11 DEF JobsApart

LEMMA JobsCallback ==
  ASSUME Shape, JobsApart, NEW t \in Threads, RunCallback(t)
  PROVE  JobsApart'
<1>1. PICK c \in Fibers : c = cbFiber'[t]
  BY CallbackDoes
<1> DEFINE j == ft[t].cb
<1>2. /\ Alone(t) /\ UNCHANGED <<queue, submitted, done>> /\ j # None /\ ft'[t] = NoEntry
      /\ Rewritten({c}) /\ fiber'[c] = [state |-> "EXEC", cb |-> j, saved |-> FALSE]
  BY <1>1, CallbackDoes
<1>3. ft'[t].cb = None /\ \A u \in Threads \ {t} : ft'[u].cb = ft[u].cb
  BY <1>2 DEF Alone, NoEntry
<1>4. LocalJobOK(t) /\ fiber'[c].cb = j
  BY <1>2 DEF JobsApart
<1>5. \A f \in Fibers \ {c} : (Live(f)' <=> Live(f)) /\ fiber'[f].cb = fiber[f].cb
  BY <1>2 DEF Live, Finished, Rewritten
<1> HIDE DEF j
<1>6. j \notin JobsIn(queue) /\ j \in submitted \ done
      /\ (\A u \in Threads : ft'[u].cb # j)
      /\ (\A f \in Fibers : Live(f) => fiber[f].cb # j)
  <2>1. \A u \in Threads : ft'[u].cb # j
    BY <1>2, <1>3, <1>4 DEF LocalJobOK, j
  <2>2. j \notin JobsIn(queue)
    BY <1>2 DEF JobsApart, EntryJobOK, j
  <2>3. \A f \in Fibers : Live(f) => fiber[f].cb # j
    BY DEF JobsApart, LiveOK, j
  <2> QED
    BY <1>2, <1>4, <2>1, <2>2, <2>3 DEF LocalJobOK, j
<1>7. \A f \in Fibers : LiveOK(f)'
  <2> SUFFICES ASSUME NEW f \in Fibers, Live(f)' PROVE LiveOK(f)'
    BY DEF LiveOK
  <2>1. CASE f = c
    <3>1. \A g \in Fibers : Live(g)' /\ fiber'[g].cb = fiber'[f].cb => g = f
      BY <1>4, <1>5, <1>6, <2>1
    <3> QED
      BY <1>2, <1>4, <1>6, <2>1, <3>1 DEF LiveOK
  <2>2. CASE f # c
    <3>1. LiveOK(f) /\ Live(f) /\ fiber'[f].cb = fiber[f].cb /\ fiber[f].cb # j
      BY <1>5, <1>6, <2>2 DEF JobsApart
    <3>2. \A g \in Fibers : Live(g)' /\ fiber'[g].cb = fiber'[f].cb => g = f
      BY <1>4, <1>5, <3>1 DEF LiveOK
    <3>3. \A u \in Threads : ft'[u].cb # fiber'[f].cb
      <4>1. fiber[f].cb # None
        BY <3>1 DEF Live
      <4> QED
        BY <1>3, <3>1, <4>1 DEF LiveOK
    <3> QED
      BY <1>2, <3>1, <3>2, <3>3 DEF LiveOK
  <2> QED
    BY <2>1, <2>2
<1>8. \A k \in JobsIn(queue') \ {None} : EntryJobOK(k)'
  BY <1>2, <1>3 DEF JobsApart, EntryJobOK
<1>9. \A u \in Threads : LocalJobOK(u)'
  BY <1>2, <1>3 DEF JobsApart, LocalJobOK
<1> QED
  BY <1>2, <1>7, <1>8, <1>9 DEF JobsApart

LEMMA JobsSubmit ==
  ASSUME Shape, JobsApart, NEW j \in Jobs, NEW p \in Pins,
         Schedule(j, p) \/ \E t \in Threads : Spawn(t, j, p)
  PROVE  JobsApart'
<1>1. queue \in Seq(Entry) /\ j # None
  BY NoneIsNothing DEF Shape, TypeOK
<1>2. /\ UNCHANGED <<ft, done>> /\ j \notin submitted /\ submitted' = submitted \cup {j}
      /\ \/ UNCHANGED fiber /\ queue' = Append(queue, CbEntry(j, p)) /\ CbEntry(j, p) \in Entry
         \/ \E f \in FreeFibers :
              /\ Rewritten({f}) /\ fiber'[f] = [state |-> "INIT", cb |-> j, saved |-> TRUE]
              /\ queue' = Append(queue, FiberEntry(f, p)) /\ FiberEntry(f, p) \in Entry
  BY SubmitDoes DEF Still
<1>3. /\ j \notin done /\ j \notin JobsIn(queue)
      /\ \A t \in Threads : ft[t].cb # j
      /\ \A f \in Fibers : Live(f) => fiber[f].cb # j
  BY <1>1, <1>2 DEF JobsApart, LiveOK, EntryJobOK, LocalJobOK
<1>4. \A t \in Threads : LocalJobOK(t)'
  BY <1>2 DEF JobsApart, LocalJobOK
<1>5. CASE UNCHANGED fiber /\ queue' = Append(queue, CbEntry(j, p)) /\ CbEntry(j, p) \in Entry
  <2>1. CbEntry(j, p).cb = j
    BY DEF CbEntry
  <2>2. OnceJob(queue, j)
    BY <1>3 DEF OnceJob, JobsIn
  <2>3. /\ JobsIn(queue') = JobsIn(queue) \cup {j}
        /\ \A k : OnceJob(queue, k) /\ (k # j \/ k \notin JobsIn(queue)) => OnceJob(queue', k)
    BY <1>1, <1>5, <2>1, AppendQueue
  <2>4. \A k \in JobsIn(queue') \ {None} : EntryJobOK(k)'
    <3> SUFFICES ASSUME NEW k \in JobsIn(queue') \ {None} PROVE EntryJobOK(k)'
      OBVIOUS
    <3>1. CASE k = j
      BY <1>2, <1>3, <2>2, <2>3, <3>1 DEF EntryJobOK
    <3>2. CASE k # j
      <4>1. EntryJobOK(k)
        BY <2>3, <3>2 DEF JobsApart
      <4> QED
        BY <1>2, <2>3, <3>2, <4>1 DEF EntryJobOK
    <3> QED
      BY <3>1, <3>2
  <2>5. \A f \in Fibers : LiveOK(f)'
    <3> SUFFICES ASSUME NEW f \in Fibers, Live(f)' PROVE LiveOK(f)'
      BY DEF LiveOK
    <3>1. \A g \in Fibers : Live(g)' <=> Live(g)
      BY <1>5 DEF Live, Finished
    <3>2. LiveOK(f) /\ Live(f) /\ fiber[f].cb # j
      BY <1>3, <3>1 DEF JobsApart
    <3> QED
      BY <1>2, <1>5, <2>3, <3>1, <3>2 DEF LiveOK
  <2> QED
    BY <1>2, <1>4, <2>4, <2>5 DEF JobsApart
<1>6. ASSUME NEW c \in FreeFibers,
             Rewritten({c}), fiber'[c] = [state |-> "INIT", cb |-> j, saved |-> TRUE],
             queue' = Append(queue, FiberEntry(c, p)), FiberEntry(c, p) \in Entry
      PROVE  JobsApart'
  <2>1. FiberEntry(c, p).cb = None /\ c \in Fibers
    BY DEF FiberEntry, FreeFibers
  <2>2. /\ JobsIn(queue') = JobsIn(queue) \cup {None}
        /\ \A k : OnceJob(queue, k) /\ k # None => OnceJob(queue', k)
    BY <1>1, <1>6, <2>1, AppendQueue
  <2>3. \A k \in JobsIn(queue') \ {None} : EntryJobOK(k)'
    BY <1>2, <2>2 DEF JobsApart, EntryJobOK
  <2>4. \A f \in Fibers : LiveOK(f)'
    <3> SUFFICES ASSUME NEW f \in Fibers, Live(f)' PROVE LiveOK(f)'
      BY DEF LiveOK
    <3>1. \A g \in Fibers \ {c} : (Live(g)' <=> Live(g)) /\ fiber'[g].cb = fiber[g].cb
      BY <1>6 DEF Live, Finished, Rewritten
    <3>2. fiber'[c].cb = j
      BY <1>6
    <3>3. CASE f = c
      <4>1. \A g \in Fibers : Live(g)' /\ fiber'[g].cb = fiber'[f].cb => g = f
        BY <1>3, <3>1, <3>2, <3>3
      <4> QED
        BY <1>1, <1>2, <1>3, <2>2, <3>2, <3>3, <4>1 DEF LiveOK
    <3>4. CASE f # c
      <4>1. LiveOK(f) /\ Live(f) /\ fiber'[f].cb = fiber[f].cb /\ fiber[f].cb # j
        BY <1>3, <3>1, <3>4 DEF JobsApart
      <4>2. fiber[f].cb # None
        BY <4>1 DEF Live
      <4>3. \A g \in Fibers : Live(g)' /\ fiber'[g].cb = fiber'[f].cb => g = f
        BY <2>1, <3>1, <3>2, <4>1 DEF LiveOK
      <4> QED
        BY <1>2, <2>2, <4>1, <4>2, <4>3 DEF LiveOK
    <3> QED
      BY <3>3, <3>4
  <2> QED
    BY <1>2, <1>4, <2>3, <2>4 DEF JobsApart
<1> QED
  BY <1>2, <1>5, <1>6

(* The fiber whose stack the thread is on, or which it puts on hold.         *)
HeldOK(t) ==
  /\ pc[t] \in {"body", "hold"} => fiber[Handled(t)].state = "EXEC"
  /\ pc[t] = "sethold" => fiber[Handled(t)].state \in {"INIT", "HOLD"}

LEMMA JobsYield ==
  ASSUME Shape, JobsApart, NEW t \in Threads, HeldOK(t),
         YieldToReady(t) \/ YieldToHold(t) \/ Return(t) \/ Throw(t)
  PROVE  JobsApart'
<1>1. PICK h \in Fibers : h = cur[t]
  BY YieldDoes
<1>2. /\ pc[t] \in {"body", "hold"} /\ UNCHANGED <<queue, ft, submitted>> /\ Rewritten({h})
      /\ \/ fiber'[h].state \in {"READY", "HOLD"} /\ fiber'[h].cb = fiber[h].cb /\ UNCHANGED done
         \/ /\ fiber'[h].state \in {"TERM", "EXCEPT"}
            /\ done' = done \cup ({fiber[h].cb} \ {None})
  <2>1. /\ pc[t] \in {"body", "hold"} /\ UNCHANGED <<queue, ft, submitted>> /\ Rewritten({h})
        /\ \/ fiber'[h].state = "READY" /\ fiber'[h].cb = fiber[h].cb /\ UNCHANGED done
           \/ fiber'[h].state = "HOLD" /\ fiber'[h].cb = fiber[h].cb /\ UNCHANGED done
           \/ /\ fiber'[h].state = "TERM" /\ fiber[h].cb # None
              /\ done' = done \cup {fiber[h].cb}
           \/ fiber'[h].state = "EXCEPT" /\ done' = done \cup ({fiber[h].cb} \ {None})
    BY <1>1, YieldDoes
  <2> QED
    BY <2>1
<1>3. fiber[h].state = "EXEC"
  BY <1>1, <1>2 DEF HeldOK, Shape, LocalOK, OnStack
<1>4. fiber[h].cb # None => Live(h)
  BY <1>3 DEF Live, Finished
<1>5. \A f \in Fibers \ {h} : (Live(f)' <=> Live(f)) /\ fiber'[f].cb = fiber[f].cb
  BY <1>2 DEF Live, Finished, Rewritten
<1>6. CASE /\ fiber'[h].state \in {"READY", "HOLD"} /\ fiber'[h].cb = fiber[h].cb
           /\ UNCHANGED done
  <2>1. Live(h)' => Live(h)
    BY <1>4, <1>6 DEF Live
  <2> QED
    BY <1>2, <1>5, <1>6, <2>1, JobsSame
<1>7. CASE /\ fiber'[h].state \in {"TERM", "EXCEPT"} /\ done' = done \cup ({fiber[h].cb} \ {None})
  <2>1. CASE fiber[h].cb = None
    <3>1. UNCHANGED done /\ ~Live(h)'
      BY <1>7, <2>1 DEF Live, Finished
    <3> QED
      BY <1>2, <1>5, <3>1, JobsSame
  <2>2. CASE fiber[h].cb # None
    <3>1. done' = done \cup {fiber[h].cb} /\ ~Live(h)'
      BY <1>7, <2>2 DEF Live, Finished
    <3>2. Live(h) /\ LiveOK(h)
      BY <1>4, <2>2 DEF JobsApart
    <3>3. \A f \in Fibers : LiveOK(f)'
      <4> SUFFICES ASSUME NEW f \in Fibers, Live(f)' PROVE LiveOK(f)'
        BY DEF LiveOK
      <4>1. f # h /\ Live(f) /\ LiveOK(f) /\ fiber'[f].cb = fiber[f].cb
        BY <1>5, <3>1 DEF JobsApart
      <4>2. fiber[f].cb # fiber[h].cb
        BY <3>2, <4>1 DEF LiveOK
      <4>3. \A g \in Fibers : Live(g)' /\ fiber'[g].cb = fiber'[f].cb => g = f
        BY <1>5, <3>1, <4>1 DEF LiveOK
      <4> QED
        BY <1>2, <3>1, <4>1, <4>2, <4>3 DEF LiveOK
    <3>4. \A k \in JobsIn(queue') \ {None} : EntryJobOK(k)'
      BY <1>2, <3>1, <3>2 DEF JobsApart, EntryJobOK, LiveOK
    <3>5. \A u \in Threads : LocalJobOK(u)'
      BY <1>2, <3>1, <3>2 DEF JobsApart, LocalJobOK, LiveOK
    <3> QED
      BY <1>2, <3>1, <3>2, <3>3, <3>4, <3>5 DEF JobsApart, LiveOK
  <2> QED
    BY <2>1, <2>2
<1> QED
  BY <1>2, <1>6, <1>7

LEMMA JobsRun ==
  ASSUME Shape, JobsApart, NEW t \in Threads, HeldOK(t), Run(t)
  PROVE  JobsApart'
<1>1. LocalOK(t) /\ queue \in Seq(Entry)
  BY DEF Shape, TypeOK
<1>2. CASE EnterIdle(t) \/ Exit(t) \/ IdleStep(t) \/ Deactivate(t) \/ Suspend(t)
  <2>1. UNCHANGED <<queue, fiber, ft, submitted, done>>
    BY <1>2, PlainDoes
  <2>2. \A f \in Fibers : Live(f)' => Live(f) /\ fiber'[f].cb = fiber[f].cb
    BY <2>1 DEF Live, Finished
  <2> QED
    BY <2>1, <2>2, JobsSame
<1>3. CASE ResumeFiber(t)
  <2>1. /\ UNCHANGED <<queue, ft, submitted, done>> /\ ~Finished(ft[t].fiber)
        /\ Rewritten({ft[t].fiber}) /\ fiber'[ft[t].fiber].cb = fiber[ft[t].fiber].cb
    BY <1>3, ResumeDoes
  <2>2. \A f \in Fibers : Live(f)' => Live(f) /\ fiber'[f].cb = fiber[f].cb
    BY <2>1 DEF Live, Finished, Rewritten
  <2> QED
    BY <2>1, <2>2, JobsSame
<1>4. CASE DropFinished(t)
  <2>1. /\ UNCHANGED <<queue, fiber, submitted, done>> /\ Alone(t) /\ ft'[t] = NoEntry
    BY <1>4, DropDoes
  <2>2. \A u \in Threads : ft'[u].cb \in {ft[u].cb, None}
    BY <2>1 DEF Alone, NoEntry
  <2>3. \A f \in Fibers : Live(f)' => Live(f) /\ fiber'[f].cb = fiber[f].cb
    BY <2>1 DEF Live, Finished
  <2> QED
    BY <2>1, <2>2, <2>3, JobsSame
<1>5. CASE Reschedule(t) \/ Retire(t) \/ SetHold(t)
  <2>1. PICK h \in Fibers : h = Handled(t)
    BY <1>5, PutAwayDoes
  <2>2. /\ UNCHANGED <<submitted, done>> /\ Alone(t) /\ ft'[t] = NoEntry
        /\ \/ queue' = Append(queue, FiberEntry(h, None)) /\ fiber' = fiber
           \/ UNCHANGED queue /\ fiber' = fiber
           \/ /\ UNCHANGED queue /\ Rewritten({h})
              /\ fiber'[h] = [state |-> "INIT", cb |-> None, saved |-> TRUE]
           \/ /\ UNCHANGED queue /\ Rewritten({h}) /\ pc[t] = "sethold"
              /\ fiber'[h].cb = fiber[h].cb
    BY <1>5, <2>1, PutAwayDoes
  <2>3. \A u \in Threads : ft'[u].cb \in {ft[u].cb, None}
    BY <2>2 DEF Alone, NoEntry
  <2>4. \A f \in Fibers : Live(f)' => Live(f) /\ fiber'[f].cb = fiber[f].cb
    <3>1. CASE fiber' = fiber
      BY <3>1 DEF Live, Finished
    <3>2. CASE Rewritten({h}) /\ fiber'[h] = [state |-> "INIT", cb |-> None, saved |-> TRUE]
      BY <3>2 DEF Live, Finished, Rewritten
    <3>3. CASE Rewritten({h}) /\ pc[t] = "sethold" /\ fiber'[h].cb = fiber[h].cb
      BY <2>1, <3>3 DEF Live, Finished, Rewritten, HeldOK
    <3> QED
      BY <2>2, <3>1, <3>2, <3>3
  <2>5. /\ JobsIn(queue') \subseteq JobsIn(queue) \cup {None}
        /\ \A j \in Jobs : OnceJob(queue, j) => OnceJob(queue', j)
    <3>1. FiberEntry(h, None) \in Entry /\ FiberEntry(h, None).cb = None
      BY DEF FiberEntry, Entry
    <3>2. CASE queue' = Append(queue, FiberEntry(h, None))
      BY <1>1, <3>1, <3>2, AppendQueue, NoneIsNothing
    <3>3. CASE queue' = queue
      BY <3>3
    <3> QED
      BY <2>2, <3>2, <3>3
  <2> QED
    BY <2>2, <2>3, <2>4, <2>5, JobsSame
<1> QED
  BY <1>2, <1>3, <1>4, <1>5, JobsTake, JobsCallback DEF Run

LEMMA JobsBody ==
  ASSUME Shape, JobsApart, NEW t \in Threads, HeldOK(t), Body(t)
  PROVE  JobsApart'
<1>1. LocalOK(t) /\ queue \in Seq(Entry)
  BY DEF Shape, TypeOK
<1>2. CASE SwapOut(t)
  <2>1. /\ UNCHANGED <<queue, ft, submitted, done>> /\ Rewritten({cur[t]})
        /\ fiber'[cur[t]].state = fiber[cur[t]].state /\ fiber'[cur[t]].cb = fiber[cur[t]].cb
    BY <1>2, SwapOutDoes
  <2>2. \A f \in Fibers : Live(f)' => Live(f) /\ fiber'[f].cb = fiber[f].cb
    BY <2>1 DEF Live, Finished, Rewritten
  <2> QED
    BY <2>1, <2>2, JobsSame
<1>3. ASSUME NEW f \in Fibers, NEW p \in Threads \cup {None},
             UNCHANGED <<fiber, ft, submitted, done>>,
             queue' = queue \/ queue' = Append(queue, FiberEntry(f, p))
      PROVE  JobsApart'
  <2>1. FiberEntry(f, p) \in Entry /\ FiberEntry(f, p).cb = None
    BY DEF FiberEntry, Entry
  <2>2. /\ JobsIn(queue') \subseteq JobsIn(queue) \cup {None}
        /\ \A j \in Jobs : OnceJob(queue, j) => OnceJob(queue', j)
    <3>1. CASE queue' = Append(queue, FiberEntry(f, p))
      BY <1>1, <2>1, <3>1, AppendQueue, NoneIsNothing
    <3>2. CASE queue' = queue
      BY <3>2
    <3> QED
      BY <1>3, <3>1, <3>2
  <2>3. \A g \in Fibers : Live(g)' => Live(g) /\ fiber'[g].cb = fiber[g].cb
    BY <1>3 DEF Live, Finished
  <2> QED
    BY <1>3, <2>2, <2>3, JobsSame
<1>4. CASE Wait(t) \/ \E p \in Pins : SwitchTo(t, p)
  <2>1. /\ UNCHANGED <<fiber, ft, submitted, done>> /\ cur[t] \in Fibers
        /\ queue' = queue \/ \E p \in Threads : queue' = Append(queue, FiberEntry(cur[t], p))
    BY <1>4, LeaveDoes
  <2> QED
    BY <1>3, <2>1
<1>5. CASE ScheduleSelf(t)
  <2>1. cur[t] \in Fibers
    BY <1>1, <1>5 DEF ScheduleSelf, InBody, LocalOK, OnStack, Shape, TypeOK
  <2>2. UNCHANGED <<fiber, ft, submitted, done>> /\ queue' = Append(queue, FiberEntry(cur[t], None))
    BY <1>5, <2>1, RequeueDoes DEF Still
  <2> QED
    BY <1>3, <2>1, <2>2
<1> QED
  BY <1>2, <1>4, <1>5, JobsYield, JobsSubmit, PinsGiven DEF Body

LEMMA JobsInit == Init => JobsApart
<1> SUFFICES ASSUME Init PROVE JobsApart
  OBVIOUS
<1>1. JobsIn(queue) = {} /\ \A f \in Fibers : ~Live(f)
  BY DEF Init, JobsIn, Live
<1>2. \A t \in Threads : ft[t].cb = None
  BY DEF Init, NoEntry
<1> QED
  BY <1>1, <1>2 DEF Init, JobsApart, LiveOK, EntryJobOK, LocalJobOK

LEMMA JobsNext ==
  ASSUME Shape, JobsApart, Step, \A t \in Threads : HeldOK(t)
  PROVE  JobsApart'
<1>1. CASE Main \/ Quiet
  <2>1. UNCHANGED <<queue, fiber, ft, submitted, done>>
    BY <1>1, MainDoes DEF Quiet
  <2>2. \A f \in Fibers : Live(f)' => Live(f) /\ fiber'[f].cb = fiber[f].cb
    BY <2>1 DEF Live, Finished
  <2> QED
    BY <2>1, <2>2, JobsSame
<1>2. ASSUME NEW f \in Fibers, Wake(f) PROVE JobsApart'
  <2>1. /\ UNCHANGED <<fiber, ft, submitted, done>>
        /\ queue' = Append(queue, FiberEntry(f, None)) /\ FiberEntry(f, None) \in Entry
    BY <1>2, RequeueDoes DEF Still
  <2>2. FiberEntry(f, None).cb = None /\ queue \in Seq(Entry)
    BY DEF FiberEntry, Shape, TypeOK
  <2>3. /\ JobsIn(queue') \subseteq JobsIn(queue) \cup {None}
        /\ \A j \in Jobs : OnceJob(queue, j) => OnceJob(queue', j)
    BY <2>1, <2>2, AppendQueue, NoneIsNothing
  <2>4. \A g \in Fibers : Live(g)' => Live(g) /\ fiber'[g].cb = fiber[g].cb
    BY <2>1 DEF Live, Finished
  <2> QED
    BY <2>1, <2>3, <2>4, JobsSame
<1> QED
  BY <1>1, <1>2, JobsSubmit, JobsRun, JobsBody, StutterQuiet DEF Step, Next

LEMMA AlikeHeld ==
  ASSUME Alike, AlikeInv, NEW t \in Threads
  PROVE  HeldOK(t)
<1>1. CASE Simple
  BY <1>1 DEF AlikeInv, SimpleInv, StepOK, HeldOK
<1>2. CASE \E w : Threads = {w}
  BY <1>2 DEF AlikeInv, HereOK, HeldOK
<1> QED
  BY <1>1, <1>2 DEF Alike

LEMMA NoneExecutedAgain ==
  ASSUME Shape, JobsApart, \A t \in Threads : HeldOK(t)
  PROVE  NoReexecution
<1> SUFFICES ASSUME NEW t \in Threads, pc[t] = "body"
             PROVE  fiber[cur[t]].cb \notin done
  BY DEF NoReexecution
<1>1. cur[t] \in Fibers /\ cur[t] = Handled(t) /\ done \subseteq Jobs
  BY DEF Shape, TypeOK, LocalOK, OnStack
<1>2. fiber[cur[t]].state = "EXEC"
  BY <1>1 DEF HeldOK
<1>3. CASE fiber[cur[t]].cb = None
  BY <1>1, <1>3, NoneIsNothing
<1>4. CASE fiber[cur[t]].cb # None
  BY <1>1, <1>2, <1>4 DEF JobsApart, LiveOK, Live, Finished
<1> QED
  BY <1>3, <1>4

(* A callback that ended is not executed again, whether it returned or       *)
(* threw, under the conditions of ResumeCorrect.                             *)
THEOREM ReexecutionCorrect ==
  ASSUME Alike
  PROVE  Spec => []NoReexecution
<1>1. Init => AlikeInv /\ JobsApart
  BY AlikeInit, JobsInit
<1>2. AlikeInv /\ JobsApart /\ [Next]_vars => AlikeInv' /\ JobsApart'
  <2> SUFFICES ASSUME AlikeInv, JobsApart, Step PROVE AlikeInv' /\ JobsApart'
    BY StutterQuiet DEF Step, AlikeInv
  <2> QED
    BY AlikeNext, JobsNext, AlikeHeld DEF AlikeInv
<1>3. AlikeInv /\ JobsApart => NoReexecution
  BY AlikeHeld, NoneExecutedAgain DEF AlikeInv
<1> QED
  BY <1>1, <1>2, <1>3, PTL DEF Spec
-----------------------------------------------------------------------------
(* A fiber with a callback that has not ended is passed on like a token:     *)
(* the queue, a waker or a thread has it.  A thread that has taken the READY *)
(* of a fiber in its hand will put it back.                                  *)
Undone(f) == fiber[f].cb \in Jobs \ done

Holds(t, f) ==
  \/ pc[t] = "dispatch" /\ ft[t].fiber = f
  \/ pc[t] = "body" /\ Handled(t) = f
  \/ pc[t] \in {"yield", "back", "settle"} /\ Handled(t) = f /\ fiber[f].state = "READY"

Token(f) == f \in FibersIn(queue) \cup waiting \/ \E t \in Threads : Holds(t, f)

HasPlace(j) ==
  \/ j \in JobsIn(queue)
  \/ \E t \in Threads : ft[t].cb = j
  \/ \E f \in Fibers : fiber[f].cb = j

Kept ==
  /\ \A j \in submitted \ done : HasPlace(j)
  /\ \A f \in Fibers : Undone(f) => Token(f) /\ ~Finished(f)
  /\ \A t \in Threads : cbFiber[t] # None /\ fiber[cbFiber[t]].state = "INIT"
                          => fiber[cbFiber[t]].cb = None

(* No thread is about to overwrite a READY that another one has not seen.    *)
NotReadyOK(t) == pc[t] \in {"body", "hold", "sethold"} => fiber[Handled(t)].state # "READY"

LEMMA TokenKept ==
  ASSUME NEW t \in Threads, Alone(t), NEW f \in Fibers, Token(f),
         fiber[f].state = "READY" => fiber'[f].state = "READY",
         f \in FibersIn(queue) \cup waiting => Token(f)',
         Holds(t, f) => Token(f)'
  PROVE  Token(f)'
<1>1. ASSUME NEW u \in Threads \ {t}, Holds(u, f) PROVE Token(f)'
  <2>1. pc'[u] = pc[u] /\ ft'[u] = ft[u] /\ Handled(u)' = Handled(u)
    BY DEF Alone, Handled
  <2>2. Holds(u, f)'
    BY <1>1, <2>1 DEF Holds
  <2> QED
    BY <2>2 DEF Token
<1> QED
  BY <1>1 DEF Token

LEMMA FreeIsDone ==
  ASSUME Shape, Kept, NEW f \in FreeFibers
  PROVE  ~Undone(f)
<1>1. f \in Fibers /\ f # None
  BY FreeIsNowhere, NoneIsNothing
<1>2. \A t \in Threads : ~Holds(t, f)
  BY FreeIsNowhere DEF Holds, Handled
<1> QED
  BY <1>1, <1>2, FreeIsNowhere DEF Kept, Token

LEMMA KeptTake ==
  ASSUME Shape, Kept, NEW t \in Threads, Take(t)
  PROVE  Kept'
<1>1. queue \in Seq(Entry)
  BY DEF Shape, TypeOK
<1>2. /\ Alone(t) /\ pc[t] = "pop" /\ pc'[t] = "dispatch"
      /\ UNCHANGED <<fiber, cbFiber, submitted, done, waiting>>
  BY TakeDoes
<1>3. PICK i \in 1..Len(queue) : queue' = RemoveAt(queue, i) /\ ft'[t] = queue[i]
  BY TakeDoes
<1>4. /\ FibersIn(queue) \subseteq FibersIn(queue') \cup {ft'[t].fiber}
      /\ JobsIn(queue) \subseteq JobsIn(queue') \cup {ft'[t].cb}
  BY <1>1, <1>3, RemoveQueue
<1>5. \A j \in submitted' \ done' : HasPlace(j)'
  <2>1. ft[t].cb = None /\ \A u \in Threads \ {t} : ft'[u] = ft[u]
    BY <1>2 DEF Shape, LocalOK, InHand, OnStack, NoEntry, Alone
  <2>2. submitted \subseteq Jobs
    BY DEF Shape, TypeOK
  <2> QED
    BY <1>2, <1>4, <2>1, <2>2, NoneIsNothing DEF Kept, HasPlace
<1>6. ASSUME NEW f \in Fibers, Undone(f)' PROVE Token(f)' /\ ~Finished(f)'
  <2>1. Token(f) /\ ~Finished(f)
    BY <1>2, <1>6 DEF Kept, Undone
  <2>2. f \in FibersIn(queue) \cup waiting => Token(f)'
    BY <1>2, <1>4 DEF Token, Holds
  <2>3. ~Holds(t, f)
    BY <1>2 DEF Holds
  <2>4. Token(f)'
    BY <1>2, <2>1, <2>2, <2>3, TokenKept
  <2> QED
    BY <1>2, <2>1, <2>4 DEF Finished
<1>7. \A u \in Threads : cbFiber'[u] # None /\ fiber'[cbFiber'[u]].state = "INIT"
                          => fiber'[cbFiber'[u]].cb = None
  BY <1>2 DEF Kept
<1> QED
  BY <1>5, <1>6, <1>7 DEF Kept

LEMMA KeptPlain ==
  ASSUME Shape, Kept, NEW t \in Threads,
         \/ EnterIdle(t) \/ Exit(t) \/ IdleStep(t) \/ Deactivate(t) \/ Suspend(t)
         \/ DropFinished(t)
  PROVE  Kept'
<1>1. /\ Alone(t) /\ UNCHANGED <<queue, fiber, cbFiber, submitted, done, waiting>>
      /\ \/ pc[t] \in {"pop", "idle"} /\ UNCHANGED ft
         \/ pc[t] = "back" /\ pc'[t] = "settle" /\ UNCHANGED ft
         \/ pc[t] = "settle" /\ fiber[Handled(t)].state # "READY" /\ UNCHANGED ft
         \/ /\ pc[t] = "dispatch" /\ Finished(ft[t].fiber) /\ ft[t].fiber # None
            /\ ft'[t] = NoEntry
  BY PlainDoes, DropDoes
<1>2. ft[t].cb # None => ft'[t].cb = ft[t].cb
  BY <1>1 DEF Shape, LocalOK, EntryOK
<1>3. \A j \in submitted' \ done' : HasPlace(j)'
  <2>1. \A u \in Threads \ {t} : ft'[u] = ft[u]
    BY <1>1 DEF Alone
  <2>2. submitted \subseteq Jobs
    BY DEF Shape, TypeOK
  <2> QED
    BY <1>1, <1>2, <2>1, <2>2, NoneIsNothing DEF Kept, HasPlace
<1>4. ASSUME NEW f \in Fibers, Undone(f)' PROVE Token(f)' /\ ~Finished(f)'
  <2>1. Token(f) /\ ~Finished(f)
    BY <1>1, <1>4 DEF Kept, Undone
  <2>2. f \in FibersIn(queue) \cup waiting => Token(f)'
    BY <1>1 DEF Token
  <2>3. Holds(t, f) => Token(f)'
    <3> SUFFICES ASSUME Holds(t, f) PROVE Holds(t, f)'
      BY DEF Token
    <3>1. pc[t] = "back" /\ pc'[t] = "settle" /\ UNCHANGED ft
      BY <1>1, <2>1 DEF Holds
    <3> QED
      BY <1>1, <3>1 DEF Holds, Handled
  <2>4. Token(f)'
    BY <1>1, <2>1, <2>2, <2>3, TokenKept
  <2> QED
    BY <1>1, <2>1, <2>4 DEF Finished
<1>5. \A u \in Threads : cbFiber'[u] # None /\ fiber'[cbFiber'[u]].state = "INIT"
                          => fiber'[cbFiber'[u]].cb = None
  BY <1>1 DEF Kept
<1> QED
  BY <1>3, <1>4, <1>5 DEF Kept

LEMMA KeptResume ==
  ASSUME Shape, Kept, NEW t \in Threads, ResumeFiber(t)
  PROVE  Kept'
<1>1. PICK h \in Fibers : h = ft[t].fiber
  BY ResumeDoes
<1>2. /\ Alone(t) /\ pc[t] = "dispatch" /\ pc'[t] = "body"
      /\ UNCHANGED <<queue, ft, cbFiber, submitted, done, waiting>>
      /\ Rewritten({h}) /\ fiber'[h].state = "EXEC" /\ fiber'[h].cb = fiber[h].cb
  BY <1>1, ResumeDoes
<1>3. \A f \in Fibers : fiber'[f].cb = fiber[f].cb
  BY <1>2 DEF Rewritten
<1>4. \A j \in submitted' \ done' : HasPlace(j)'
  BY <1>2, <1>3 DEF Kept, HasPlace
<1>5. ASSUME NEW f \in Fibers, Undone(f)' PROVE Token(f)' /\ ~Finished(f)'
  <2>1. Token(f) /\ ~Finished(f)
    BY <1>2, <1>3, <1>5 DEF Kept, Undone
  <2>2. CASE f = h
    <3>1. Handled(t)' = h
      BY <1>1, <1>2, NoneIsNothing DEF Handled
    <3> QED
      BY <1>2, <2>2, <3>1 DEF Token, Holds, Finished
  <2>3. CASE f # h
    <3>1. fiber'[f] = fiber[f] /\ ~Holds(t, f)
      BY <1>1, <1>2, <2>3 DEF Rewritten, Holds
    <3>2. f \in FibersIn(queue) \cup waiting => Token(f)'
      BY <1>2 DEF Token
    <3> QED
      BY <1>2, <2>1, <3>1, <3>2, TokenKept DEF Finished
  <2> QED
    BY <2>2, <2>3
<1>6. \A u \in Threads : cbFiber'[u] # None /\ fiber'[cbFiber'[u]].state = "INIT"
                          => fiber'[cbFiber'[u]].cb = None
  BY <1>2 DEF Kept, Rewritten, Shape, TypeOK
<1> QED
  BY <1>4, <1>5, <1>6 DEF Kept

LEMMA KeptCallback ==
  ASSUME Shape, Kept, NEW t \in Threads, RunCallback(t)
  PROVE  Kept'
<1>1. PICK c \in Fibers : c = cbFiber'[t]
  BY CallbackDoes
<1>2. /\ Alone(t) /\ pc[t] = "dispatch" /\ pc'[t] = "body"
      /\ UNCHANGED <<queue, submitted, done, waiting>>
      /\ ft[t].fiber = None /\ ft'[t] = NoEntry
      /\ (cbFiber[t] = None /\ c \in FreeFibers) \/ c = cbFiber[t]
      /\ fiber[c].state \in {"INIT", "TERM", "EXCEPT"}
      /\ Rewritten({c}) /\ fiber'[c] = [state |-> "EXEC", cb |-> ft[t].cb, saved |-> FALSE]
  BY <1>1, CallbackDoes
<1>3. ~Undone(c)
  <2>1. CASE c \in FreeFibers
    BY <2>1, FreeIsDone
  <2>2. CASE c = cbFiber[t]
    BY <1>2, <2>2, NoneIsNothing DEF Kept, Undone, Finished
  <2> QED
    BY <1>2, <2>1, <2>2
<1>4. \A f \in Fibers \ {c} : fiber'[f] = fiber[f]
  BY <1>2 DEF Rewritten
<1>5. \A j \in submitted' \ done' : HasPlace(j)'
  <2> SUFFICES ASSUME NEW j \in submitted \ done PROVE HasPlace(j)'
    BY <1>2
  <2>1. HasPlace(j) /\ j \in Jobs
    BY DEF Kept, Shape, TypeOK
  <2>2. \A u \in Threads \ {t} : ft'[u] = ft[u]
    BY <1>2 DEF Alone
  <2>3. ft[t].cb = j => fiber'[c].cb = j
    BY <1>2
  <2>4. \A f \in Fibers : fiber[f].cb = j => f # c
    BY <1>3, <2>1 DEF Undone
  <2> QED
    BY <1>2, <1>4, <2>1, <2>2, <2>3, <2>4 DEF HasPlace
<1>6. ASSUME NEW f \in Fibers, Undone(f)' PROVE Token(f)' /\ ~Finished(f)'
  <2>1. CASE f = c
    <3>1. Handled(t)' = c
      BY <1>1, <1>2 DEF Handled, NoEntry
    <3> QED
      BY <1>2, <2>1, <3>1 DEF Token, Holds, Finished
  <2>2. CASE f # c
    <3>1. fiber'[f] = fiber[f] /\ Token(f) /\ ~Finished(f)
      BY <1>2, <1>4, <1>6, <2>2 DEF Kept, Undone
    <3>2. ~Holds(t, f)
      BY <1>2, NoneIsNothing DEF Holds
    <3>3. f \in FibersIn(queue) \cup waiting => Token(f)'
      BY <1>2 DEF Token
    <3> QED
      BY <1>2, <3>1, <3>2, <3>3, TokenKept DEF Finished
  <2> QED
    BY <2>1, <2>2
<1>7. ASSUME NEW u \in Threads, cbFiber'[u] # None, fiber'[cbFiber'[u]].state = "INIT"
      PROVE  fiber'[cbFiber'[u]].cb = None
  <2>1. cbFiber'[u] # c /\ u # t
    BY <1>1, <1>2, <1>7
  <2>2. cbFiber'[u] = cbFiber[u] /\ cbFiber[u] \in Fibers
    BY <1>2, <1>7, <2>1 DEF Alone, Shape, TypeOK
  <2> QED
    BY <1>4, <1>7, <2>1, <2>2 DEF Kept
<1> QED
  BY <1>5, <1>6, <1>7 DEF Kept

LEMMA KeptPutAway ==
  ASSUME Shape, Kept, NEW t \in Threads, NotReadyOK(t),
         Reschedule(t) \/ Retire(t) \/ SetHold(t)
  PROVE  Kept'
<1>1. PICK h \in Fibers : h = Handled(t)
  BY PutAwayDoes
<1>2. /\ Alone(t) /\ pc[t] \in {"settle", "sethold"} /\ UNCHANGED <<submitted, done, waiting>>
      /\ \/ /\ fiber[h].state = "READY" /\ fiber' = fiber
            /\ queue' = Append(queue, FiberEntry(h, None))
         \/ UNCHANGED <<queue, fiber>> /\ Finished(h)
         \/ /\ UNCHANGED queue /\ Finished(h) /\ Rewritten({h})
            /\ fiber'[h] = [state |-> "INIT", cb |-> None, saved |-> TRUE]
         \/ /\ pc[t] = "sethold" /\ UNCHANGED queue /\ Rewritten({h})
            /\ fiber'[h].state = "HOLD" /\ fiber'[h].cb = fiber[h].cb
  BY <1>1, PutAwayDoes
<1>3. cbFiber'[t] = cbFiber[t] \/ cbFiber'[t] = None
  BY PutAwayDoes
<1>4. /\ FibersIn(queue) \subseteq FibersIn(queue') /\ JobsIn(queue) \subseteq JobsIn(queue')
      /\ fiber[h].state = "READY" /\ pc[t] = "settle" => h \in FibersIn(queue')
  <2>1. FiberEntry(h, None) \in Entry /\ FiberEntry(h, None).fiber = h
    BY DEF FiberEntry, Entry
  <2>2. queue \in Seq(Entry)
    BY DEF Shape, TypeOK
  <2>3. CASE queue' = Append(queue, FiberEntry(h, None))
    BY <2>1, <2>2, <2>3, AppendQueue
  <2>4. CASE queue' = queue /\ (Finished(h) \/ pc[t] = "sethold")
    BY <2>4 DEF Finished
  <2> QED
    BY <1>2, <2>3, <2>4
<1>5. \A f \in Fibers : /\ fiber'[f].cb # fiber[f].cb => f = h /\ Finished(h) /\ fiber'[f].cb = None
                        /\ fiber'[f].state # fiber[f].state =>
                             f = h /\ (fiber'[f].state = "HOLD" \/ fiber'[f].cb = None)
                                   /\ fiber[f].state # "READY"
  <2>1. pc[t] = "sethold" => fiber[h].state # "READY"
    BY <1>1 DEF NotReadyOK
  <2> QED
    BY <1>2, <2>1 DEF Rewritten, Finished
<1>6. \A f \in Fibers : Undone(f)' => Undone(f) /\ fiber'[f].cb = fiber[f].cb
  BY <1>2, <1>5, NoneIsNothing DEF Undone
<1>7. \A j \in submitted' \ done' : HasPlace(j)'
  <2> SUFFICES ASSUME NEW j \in submitted \ done PROVE HasPlace(j)'
    BY <1>2
  <2>1. HasPlace(j) /\ j \in Jobs
    BY DEF Kept, Shape, TypeOK
  <2>2. ft[t].cb = None /\ \A u \in Threads \ {t} : ft'[u] = ft[u]
    BY <1>2 DEF Alone, Shape, LocalOK, InHand
  <2>3. \A f \in Fibers : fiber[f].cb = j => fiber'[f].cb = j
    <3> SUFFICES ASSUME NEW f \in Fibers, fiber[f].cb = j, fiber'[f].cb # j PROVE FALSE
      OBVIOUS
    <3>1. f = h /\ Finished(f) /\ Undone(f)
      BY <1>5, <2>1 DEF Undone
    <3> QED
      BY <3>1 DEF Kept
  <2> QED
    BY <1>4, <2>1, <2>2, <2>3, NoneIsNothing DEF HasPlace
<1>8. ASSUME NEW f \in Fibers, Undone(f)' PROVE Token(f)' /\ ~Finished(f)'
  <2>1. Undone(f) /\ Token(f) /\ ~Finished(f) /\ fiber'[f].cb # None
    BY <1>6, <1>8, NoneIsNothing DEF Kept, Undone
  <2>2. ~Finished(f)' /\ (fiber[f].state = "READY" => fiber'[f].state = "READY")
    BY <1>5, <2>1 DEF Finished
  <2>3. f \in FibersIn(queue) \cup waiting => Token(f)'
    BY <1>2, <1>4 DEF Token
  <2>4. Holds(t, f) => Token(f)'
    BY <1>1, <1>2, <1>4 DEF Holds, Token
  <2> QED
    BY <1>2, <2>1, <2>2, <2>3, <2>4, TokenKept
<1>9. ASSUME NEW u \in Threads, cbFiber'[u] # None, fiber'[cbFiber'[u]].state = "INIT"
      PROVE  fiber'[cbFiber'[u]].cb = None
  <2>1. cbFiber'[u] = cbFiber[u] /\ cbFiber[u] \in Fibers
    BY <1>2, <1>3, <1>9 DEF Alone, Shape, TypeOK
  <2>2. CASE fiber[cbFiber[u]].state = "INIT"
    BY <1>5, <1>9, <2>1, <2>2 DEF Kept
  <2>3. CASE fiber[cbFiber[u]].state # "INIT"
    BY <1>5, <1>9, <2>1, <2>3
  <2> QED
    BY <2>2, <2>3
<1> QED
  BY <1>7, <1>8, <1>9 DEF Kept

LEMMA KeptYield ==
  ASSUME Shape, Kept, NEW t \in Threads, NotReadyOK(t),
         \/ YieldToReady(t) \/ YieldToHold(t) \/ Return(t) \/ Throw(t)
         \/ SwapOut(t)
  PROVE  Kept'
<1>1. PICK h \in Fibers : h = cur[t]
  BY YieldDoes, SwapOutDoes
<1>2. /\ Alone(t) /\ pc[t] \in {"body", "hold", "yield"}
      /\ UNCHANGED <<queue, ft, cbFiber, submitted, waiting>> /\ Rewritten({h})
      /\ done \subseteq done'
      /\ \/ /\ pc[t] = "body" /\ pc'[t] = "yield" /\ fiber'[h].state = "READY"
            /\ fiber'[h].cb = fiber[h].cb /\ UNCHANGED done
         \/ /\ pc[t] = "hold" /\ fiber'[h].state = "HOLD" /\ fiber'[h].cb = fiber[h].cb
            /\ UNCHANGED done
         \/ /\ pc[t] = "body" /\ done' = done \cup ({fiber[h].cb} \ {None})
            /\ fiber'[h].state \in {"TERM", "EXCEPT"}
            /\ fiber'[h].cb = None \/ fiber'[h].cb = fiber[h].cb
         \/ /\ pc[t] = "yield" /\ pc'[t] = "back" /\ fiber'[h].state = fiber[h].state
            /\ fiber'[h].cb = fiber[h].cb /\ UNCHANGED done
  <2>1. CASE SwapOut(t)
    <3>1. /\ Alone(t) /\ pc[t] = "yield" /\ pc'[t] = "back"
          /\ UNCHANGED <<queue, ft, cbFiber, submitted, done, waiting>>
          /\ Rewritten({h})
          /\ fiber'[h].state = fiber[h].state /\ fiber'[h].cb = fiber[h].cb
      BY <1>1, <2>1, SwapOutDoes
    <3> QED
      BY <3>1
  <2>2. CASE YieldToReady(t) \/ YieldToHold(t) \/ Return(t) \/ Throw(t)
    <3>1. /\ Alone(t) /\ pc[t] \in {"body", "hold"} /\ pc'[t] = "yield"
          /\ UNCHANGED <<queue, ft, cbFiber, cur, submitted, waiting>> /\ Rewritten({h})
          /\ \/ /\ pc[t] = "body" /\ fiber'[h].state = "READY" /\ fiber'[h].cb = fiber[h].cb
                /\ UNCHANGED done
             \/ /\ pc[t] = "hold" /\ UNCHANGED done
                /\ fiber'[h].state = "HOLD" /\ fiber'[h].cb = fiber[h].cb
             \/ /\ pc[t] = "body" /\ fiber[h].cb # None /\ fiber'[h].cb = None
                /\ fiber'[h].state = "TERM" /\ done' = done \cup {fiber[h].cb}
             \/ /\ pc[t] = "body" /\ fiber'[h].cb = fiber[h].cb /\ fiber'[h].state = "EXCEPT"
                /\ done' = done \cup ({fiber[h].cb} \ {None})
      BY <1>1, <2>2, YieldDoes
    <3> QED
      BY <3>1
  <2> QED
    BY <2>1, <2>2
<1>3. h = Handled(t) /\ Handled(t)' = h
  BY <1>1, <1>2 DEF Shape, LocalOK, OnStack, Handled
<1>4. \A f \in Fibers \ {h} : fiber'[f] = fiber[f]
  BY <1>2 DEF Rewritten
<1>5. \A j \in submitted' \ done' : HasPlace(j)'
  <2> SUFFICES ASSUME NEW j \in submitted' \ done' PROVE HasPlace(j)'
    OBVIOUS
  <2>1. HasPlace(j) /\ j \in Jobs /\ j \notin done' /\ j # None
    BY <1>2, NoneIsNothing DEF Kept, Shape, TypeOK
  <2>2. \A f \in Fibers : fiber[f].cb = j => fiber'[f].cb = j
    BY <1>2, <1>4, <2>1
  <2> QED
    BY <1>2, <2>1, <2>2 DEF HasPlace
<1>6. ASSUME NEW f \in Fibers, Undone(f)' PROVE Token(f)' /\ ~Finished(f)'
  <2>1. Undone(f)
    BY <1>2, <1>4, <1>6, NoneIsNothing DEF Undone
  <2>2. Token(f) /\ ~Finished(f)
    BY <2>1 DEF Kept
  <2>3. f \in FibersIn(queue) \cup waiting => Token(f)'
    BY <1>2 DEF Token
  <2>4. CASE f # h
    <3>1. ~Holds(t, f)
      BY <1>2, <1>3, <2>4 DEF Holds
    <3> QED
      BY <1>2, <1>4, <2>2, <2>3, <2>4, <3>1, TokenKept DEF Finished
  <2>5. CASE f = h /\ pc[t] = "body"
    <3>1. pc'[t] = "yield" /\ fiber'[h].state = "READY"
      BY <1>2, <1>6, <2>1, <2>5, NoneIsNothing DEF Undone
    <3> QED
      BY <1>3, <2>5, <3>1 DEF Token, Holds, Finished
  <2>6. CASE f = h /\ pc[t] = "hold"
    <3>1. fiber[h].state # "READY" /\ ~Holds(t, f) /\ fiber'[h].state = "HOLD"
      BY <1>2, <1>3, <2>6 DEF NotReadyOK, Holds
    <3> QED
      BY <1>2, <2>2, <2>3, <2>6, <3>1, TokenKept DEF Finished
  <2>7. CASE f = h /\ pc[t] = "yield"
    <3>1. pc'[t] = "back" /\ fiber'[h].state = fiber[h].state
      BY <1>2, <2>7
    <3>2. Holds(t, f) => Token(f)'
      BY <1>3, <2>7, <3>1 DEF Holds, Token
    <3> QED
      BY <1>2, <2>2, <2>3, <2>7, <3>1, <3>2, TokenKept DEF Finished
  <2> QED
    BY <1>2, <2>4, <2>5, <2>6, <2>7
<1>7. ASSUME NEW u \in Threads, cbFiber'[u] # None, fiber'[cbFiber'[u]].state = "INIT"
      PROVE  fiber'[cbFiber'[u]].cb = None
  <2>1. cbFiber'[u] = cbFiber[u] /\ cbFiber[u] \in Fibers
    BY <1>2, <1>7 DEF Shape, TypeOK
  <2>2. CASE cbFiber[u] = h
    BY <1>2, <1>7, <2>1, <2>2 DEF Kept
  <2> QED
    BY <1>4, <1>7, <2>1, <2>2 DEF Kept
<1> QED
  BY <1>5, <1>6, <1>7 DEF Kept

(* Steps after which the fibers are as they were and their tokens elsewhere. *)
LEMMA KeptMoved ==
  ASSUME Shape, Kept, UNCHANGED <<fiber, ft, cbFiber, submitted, done>>,
         JobsIn(queue) \subseteq JobsIn(queue'),
         \A f \in Fibers : Token(f) => Token(f)'
  PROVE  Kept'
<1>1. \A j \in submitted' \ done' : HasPlace(j)'
  BY DEF Kept, HasPlace
<1>2. \A f \in Fibers : Undone(f)' => Token(f)' /\ ~Finished(f)'
  BY DEF Kept, Undone, Finished
<1> QED
  BY <1>1, <1>2 DEF Kept

LEMMA KeptLeave ==
  ASSUME Shape, Kept, NEW t \in Threads,
         Wait(t) \/ \E p \in Pins : SwitchTo(t, p)
  PROVE  Kept'
<1>1. PICK h \in Fibers : h = cur[t] /\ h = Handled(t)
  BY LeaveDoes
<1>2. /\ Alone(t) /\ pc[t] = "body" /\ UNCHANGED <<fiber, ft, cbFiber, submitted, done>>
      /\ \/ UNCHANGED queue /\ waiting' = waiting \cup {h}
         \/ UNCHANGED waiting /\ \E p \in Threads : queue' = Append(queue, FiberEntry(h, p))
  BY <1>1, LeaveDoes
<1>3. /\ FibersIn(queue) \subseteq FibersIn(queue') /\ JobsIn(queue) \subseteq JobsIn(queue')
      /\ h \in FibersIn(queue') \cup waiting' /\ waiting \subseteq waiting'
  <2>1. queue \in Seq(Entry)
    BY DEF Shape, TypeOK
  <2>2. ASSUME NEW p \in Threads, queue' = Append(queue, FiberEntry(h, p))
        PROVE  /\ FibersIn(queue') = FibersIn(queue) \cup {h}
               /\ JobsIn(queue) \subseteq JobsIn(queue')
    <3>1. FiberEntry(h, p) \in Entry /\ FiberEntry(h, p).fiber = h
      BY DEF FiberEntry, Entry
    <3> QED
      BY <2>1, <2>2, <3>1, AppendQueue
  <2>3. CASE UNCHANGED queue /\ waiting' = waiting \cup {h}
    BY <2>3
  <2>4. CASE UNCHANGED waiting /\ \E p \in Threads : queue' = Append(queue, FiberEntry(h, p))
    BY <2>2, <2>4
  <2> QED
    BY <1>2, <2>3, <2>4
<1>4. \A f \in Fibers : Token(f) => Token(f)'
  <2> SUFFICES ASSUME NEW f \in Fibers, Token(f) PROVE Token(f)'
    OBVIOUS
  <2>1. f \in FibersIn(queue) \cup waiting => Token(f)'
    BY <1>3 DEF Token
  <2>2. Holds(t, f) => Token(f)'
    BY <1>1, <1>2, <1>3 DEF Holds, Token
  <2> QED
    BY <1>2, <2>1, <2>2, TokenKept
<1> QED
  BY <1>2, <1>3, <1>4, KeptMoved

LEMMA KeptRequeue ==
  ASSUME Shape, Kept, NEW f \in Fibers,
         Wake(f) \/ \E t \in Threads : ScheduleSelf(t) /\ f = cur[t]
  PROVE  Kept'
<1>1. /\ Still /\ UNCHANGED <<fiber, submitted, done>>
      /\ queue' = Append(queue, FiberEntry(f, None)) /\ FiberEntry(f, None) \in Entry
      /\ waiting' = waiting \ {f} \/ UNCHANGED waiting
  BY RequeueDoes
<1>2. /\ FibersIn(queue') = FibersIn(queue) \cup {f} /\ JobsIn(queue) \subseteq JobsIn(queue')
  <2>1. queue \in Seq(Entry) /\ FiberEntry(f, None).fiber = f
    BY DEF Shape, TypeOK, FiberEntry
  <2> QED
    BY <1>1, <2>1, AppendQueue
<1>3. \A g \in Fibers : Token(g) => Token(g)'
  BY <1>1, <1>2 DEF Token, Holds, Handled, Still
<1> QED
  BY <1>1, <1>2, <1>3, KeptMoved DEF Still

LEMMA KeptSubmit ==
  ASSUME Shape, Kept, NEW j \in Jobs, NEW p \in Pins,
         Schedule(j, p) \/ \E t \in Threads : Spawn(t, j, p)
  PROVE  Kept'
<1>1. queue \in Seq(Entry)
  BY DEF Shape, TypeOK
<1>2. /\ Still /\ UNCHANGED <<done, waiting>> /\ submitted' = submitted \cup {j}
      /\ \/ UNCHANGED fiber /\ queue' = Append(queue, CbEntry(j, p)) /\ CbEntry(j, p) \in Entry
         \/ \E f \in FreeFibers :
              /\ Rewritten({f}) /\ fiber'[f] = [state |-> "INIT", cb |-> j, saved |-> TRUE]
              /\ queue' = Append(queue, FiberEntry(f, p)) /\ FiberEntry(f, p) \in Entry
  BY SubmitDoes
<1>3. \A t \in Threads : Handled(t)' = Handled(t) /\ pc'[t] = pc[t] /\ ft'[t] = ft[t]
                         /\ cbFiber'[t] = cbFiber[t]
  BY <1>2 DEF Still, Handled
<1>4. CASE UNCHANGED fiber /\ queue' = Append(queue, CbEntry(j, p)) /\ CbEntry(j, p) \in Entry
  <2>1. CbEntry(j, p).cb = j
    BY DEF CbEntry
  <2>2. /\ FibersIn(queue) \subseteq FibersIn(queue')
        /\ JobsIn(queue') = JobsIn(queue) \cup {j}
    BY <1>1, <1>4, <2>1, AppendQueue
  <2>3. \A k \in submitted' \ done' : HasPlace(k)'
    BY <1>2, <1>3, <1>4, <2>2 DEF Kept, HasPlace
  <2>4. \A f \in Fibers : Undone(f)' => Token(f)' /\ ~Finished(f)'
    BY <1>2, <1>3, <1>4, <2>2 DEF Kept, Undone, Token, Holds, Finished
  <2> QED
    BY <1>3, <1>4, <2>3, <2>4 DEF Kept
<1>5. ASSUME NEW c \in FreeFibers,
             Rewritten({c}), fiber'[c] = [state |-> "INIT", cb |-> j, saved |-> TRUE],
             queue' = Append(queue, FiberEntry(c, p)), FiberEntry(c, p) \in Entry
      PROVE  Kept'
  <2>1. FiberEntry(c, p).fiber = c /\ c \in Fibers /\ \A t \in Threads : cbFiber[t] # c
    BY FreeIsNowhere DEF FiberEntry
  <2>2. /\ FibersIn(queue') = FibersIn(queue) \cup {c}
        /\ JobsIn(queue) \subseteq JobsIn(queue')
    BY <1>1, <1>5, <2>1, AppendQueue
  <2>3. \A f \in Fibers \ {c} : fiber'[f] = fiber[f]
    BY <1>5 DEF Rewritten
  <2>4. \A k \in submitted' \ done' : HasPlace(k)'
    <3> SUFFICES ASSUME NEW k \in submitted' \ done' PROVE HasPlace(k)'
      OBVIOUS
    <3>1. CASE k = j
      BY <1>5, <2>1, <3>1 DEF HasPlace
    <3>2. CASE k # j
      <4>1. HasPlace(k) /\ k \in Jobs \ done
        BY <1>2, <3>2 DEF Kept, Shape, TypeOK
      <4>2. \A f \in Fibers : fiber[f].cb = k => f # c
        BY <4>1, FreeIsDone DEF Undone
      <4> QED
        BY <1>3, <2>2, <2>3, <4>1, <4>2 DEF HasPlace
    <3> QED
      BY <3>1, <3>2
  <2>5. ASSUME NEW f \in Fibers, Undone(f)' PROVE Token(f)' /\ ~Finished(f)'
    <3>1. CASE f = c
      BY <1>5, <2>2, <3>1 DEF Token, Finished
    <3>2. CASE f # c
      <4>1. fiber'[f] = fiber[f] /\ Token(f) /\ ~Finished(f)
        BY <1>2, <2>3, <2>5, <3>2 DEF Kept, Undone
      <4> QED
        BY <1>2, <1>3, <2>2, <4>1 DEF Token, Holds, Finished
    <3> QED
      BY <3>1, <3>2
  <2>6. ASSUME NEW t \in Threads, cbFiber'[t] # None, fiber'[cbFiber'[t]].state = "INIT"
        PROVE  fiber'[cbFiber'[t]].cb = None
    <3>1. cbFiber[t] \in Fibers \ {c}
      BY <1>3, <2>1, <2>6 DEF Shape, TypeOK
    <3> QED
      BY <1>3, <2>3, <2>6, <3>1 DEF Kept
  <2> QED
    BY <2>4, <2>5, <2>6 DEF Kept
<1> QED
  BY <1>2, <1>4, <1>5

LEMMA KeptInit == Init => Kept
<1> SUFFICES ASSUME Init PROVE Kept
  OBVIOUS
<1>1. \A f \in Fibers : ~Undone(f)
  BY NoneIsNothing DEF Init, Undone
<1> QED
  BY <1>1 DEF Init, Kept

LEMMA KeptNext ==
  ASSUME Shape, Kept, Step, \A t \in Threads : NotReadyOK(t)
  PROVE  Kept'
<1>1. CASE Main \/ Quiet
  <2>1. /\ UNCHANGED <<queue, fiber, ft, cbFiber, submitted, done, waiting>>
        /\ \A u \in Threads : pc'[u] = pc[u] \/ (pc[u] = "off" /\ pc'[u] = "pop")
    BY <1>1, MainDoes DEF Quiet
  <2>2. \A u \in Threads : Handled(u)' = Handled(u)
    BY <2>1 DEF Handled
  <2>3. \A f \in Fibers : Token(f) => Token(f)'
    BY <2>1, <2>2 DEF Token, Holds
  <2> QED
    BY <2>1, <2>3, KeptMoved
<1>2. ASSUME NEW t \in Threads, Body(t) PROVE Kept'
  <2>1. CASE ScheduleSelf(t)
    <3>1. cur[t] \in Fibers
      BY <2>1 DEF ScheduleSelf, InBody, LocalOK, OnStack, Shape, TypeOK
    <3> QED
      BY <2>1, <3>1, KeptRequeue
  <2> QED
    BY <1>2, <2>1, KeptSubmit, KeptYield, KeptLeave, PinsGiven DEF Body
<1>3. ASSUME NEW t \in Threads, Run(t) PROVE Kept'
  BY <1>3, KeptTake, KeptPlain, KeptResume, KeptCallback, KeptPutAway DEF Run
<1> QED
  BY <1>1, <1>2, <1>3, KeptSubmit, KeptRequeue, StutterQuiet DEF Step, Next

(* Without YieldToReady() no fiber is ever READY.                            *)
Unready == \A f \in Fibers : fiber[f].state # "READY"

LEMMA UnreadyNext ==
  ASSUME Shape, Unready, Step, "ready" \notin Ops
  PROVE  Unready'
<1>1. ASSUME NEW f \in Fibers, Rewritten({f}), fiber'[f].state # "READY"
      PROVE  Unready'
  BY <1>1 DEF Unready, Rewritten
<1>2. CASE fiber' = fiber
  BY <1>2 DEF Unready
<1>3. ASSUME NEW j \in Jobs, NEW p \in Pins,
             Schedule(j, p) \/ \E t \in Threads : Spawn(t, j, p)
      PROVE  Unready'
  <2>1. fiber' = fiber \/ \E f \in FreeFibers :
          Rewritten({f}) /\ fiber'[f] = [state |-> "INIT", cb |-> j, saved |-> TRUE]
    BY <1>3, SubmitDoes
  <2> QED
    BY <1>2, <2>1 DEF FreeFibers, Unready, Rewritten
<1>4. ASSUME NEW t \in Threads, Run(t) PROVE Unready'
  <2>1. CASE RunCallback(t)
    <3>1. /\ cbFiber'[t] \in Fibers /\ Rewritten({cbFiber'[t]})
          /\ fiber'[cbFiber'[t]] = [state |-> "EXEC", cb |-> ft[t].cb, saved |-> FALSE]
      BY <2>1, CallbackDoes
    <3> QED
      BY <3>1 DEF Unready, Rewritten
  <2>2. CASE ResumeFiber(t)
    <3>1. /\ ft[t].fiber \in Fibers /\ Rewritten({ft[t].fiber})
          /\ fiber'[ft[t].fiber].state = "EXEC"
      BY <2>2, ResumeDoes
    <3> QED
      BY <3>1 DEF Unready, Rewritten
  <2>3. CASE Reschedule(t) \/ Retire(t) \/ SetHold(t)
    <3>1. /\ Handled(t) \in Fibers
          /\ \/ fiber' = fiber
             \/ /\ Rewritten({Handled(t)})
                /\ fiber'[Handled(t)] = [state |-> "INIT", cb |-> None, saved |-> TRUE]
             \/ Rewritten({Handled(t)}) /\ fiber'[Handled(t)].state = "HOLD"
      BY <2>3, PutAwayDoes
    <3> QED
      BY <3>1, <1>2 DEF Unready, Rewritten
  <2> QED
    BY <1>2, <1>4, <2>1, <2>2, <2>3, TakeDoes, PlainDoes, DropDoes DEF Run
<1>5. ASSUME NEW t \in Threads, Body(t) PROVE Unready'
  <2>1. CASE YieldToReady(t) \/ YieldToHold(t) \/ Return(t) \/ Throw(t)
    <3>1. /\ cur[t] \in Fibers /\ Rewritten({cur[t]})
          /\ fiber'[cur[t]].state # "READY"
      BY <2>1, YieldDoes
    <3> QED
      BY <3>1 DEF Unready, Rewritten
  <2>2. CASE SwapOut(t)
    <3>1. /\ cur[t] \in Fibers /\ Rewritten({cur[t]})
          /\ fiber'[cur[t]].state = fiber[cur[t]].state
      BY <2>2, SwapOutDoes
    <3> QED
      BY <3>1 DEF Unready, Rewritten
  <2>3. CASE ScheduleSelf(t) \/ Wait(t) \/ \E p \in Pins : SwitchTo(t, p)
    BY <1>2, <2>3 DEF ScheduleSelf, Wait, SwitchTo, fiberVars
  <2> QED
    BY <1>3, <1>5, <2>1, <2>2, <2>3, PinsGiven DEF Body
<1>6. CASE Main \/ Quiet \/ \E f \in Fibers : Wake(f)
  BY <1>2, <1>6, MainDoes DEF Quiet, Wake, fiberVars
<1> QED
  BY <1>3, <1>4, <1>5, <1>6, StutterQuiet DEF Step, Next

LEMMA PlacedNotLost ==
  ASSUME Shape, Kept
  PROVE  NoJobLost
<1> SUFFICES ASSUME NEW j \in submitted \ done
             PROVE  \/ \E i \in 1..Len(queue) : queue[i].cb = j
                    \/ \E t \in Threads : ft[t].cb = j
                    \/ \E f \in Fibers : fiber[f].cb = j /\ Continued(f)
  BY DEF NoJobLost
<1>1. HasPlace(j) /\ j \in Jobs
  BY DEF Kept, Shape, TypeOK
<1>2. ASSUME NEW f \in Fibers, fiber[f].cb = j PROVE Continued(f)
  <2>1. Token(f) /\ f # None
    BY <1>1, <1>2, NoneIsNothing DEF Kept, Undone
  <2>2. CASE f \in FibersIn(queue) \cup waiting
    BY <2>2 DEF FibersIn, Continued
  <2>3. ASSUME NEW t \in Threads, Holds(t, f) PROVE Continued(f)
    <3>1. /\ Handled(t) = f
          /\ pc[t] \in {"dispatch", "body", "yield"}
             \/ (pc[t] \in {"back", "settle"} /\ fiber[f].state = "READY")
      BY <2>1, <2>3 DEF Holds, Handled
    <3> QED
      BY <3>1 DEF Continued
  <2> QED
    BY <2>1, <2>2, <2>3 DEF Token
<1> QED
  BY <1>1, <1>2 DEF HasPlace, JobsIn

(* A callback given to schedule() is never dropped before it has ended, if   *)
(* callbacks do not yield with READY, or under the conditions above.  With   *)
(* YieldToReady() and a waker it is not so on two threads: run() may write   *)
(* HOLD over the READY of a fiber that another thread has in its hand.       *)
THEOREM NoneLostCorrect ==
  ASSUME "ready" \notin Ops \/ Alike
  PROVE  Spec => []NoJobLost
<1> DEFINE Inv == AlikeInv /\ Kept /\ ("ready" \notin Ops => Unready)
<1>1. Init => Inv
  BY AlikeInit, KeptInit DEF Init, Unready
<1>2. Inv => \A t \in Threads : NotReadyOK(t)
  <2> SUFFICES ASSUME Inv, NEW t \in Threads, pc[t] \in {"body", "hold", "sethold"}
               PROVE  fiber[Handled(t)].state # "READY"
    BY DEF NotReadyOK
  <2>1. Handled(t) \in Fibers
    BY DEF AlikeInv, Shape, TypeOK, LocalOK, InHand, OnStack, Handled, Entry
  <2>2. CASE "ready" \notin Ops
    BY <2>1, <2>2 DEF Unready
  <2>3. CASE Alike
    BY <2>3, AlikeHeld DEF HeldOK
  <2> QED
    BY <2>2, <2>3
<1>3. Inv /\ [Next]_vars => Inv'
  <2> SUFFICES ASSUME Inv, Step PROVE Inv'
    BY StutterQuiet DEF Step, AlikeInv
  <2>1. AlikeInv' /\ Shape
    BY AlikeNext DEF AlikeInv
  <2> QED
    BY <1>2, <2>1, KeptNext, UnreadyNext
<1>4. Inv => NoJobLost
  BY PlacedNotLost DEF AlikeInv
<1> QED
  BY <1>1, <1>3, <1>4, PTL DEF Spec
-----------------------------------------------------------------------------
(* Stopping: the last thread to leave run() finds nothing in the queue.      *)
Late == main \in {"root", "join", "stopped"}
AllOut == \A t \in Threads : pc[t] = "exited" \/ (t = Caller /\ pc[t] = "off")

(* What is bound to p may be executed by everybody.                          *)
ForAll(p) == \A t \in Threads : p \in {None, t}

(* The conditions of StopCorrect.                                            *)
Unbound == Alike /\ "wait" \notin Ops /\ \A p \in SpawnPins : ForAll(p)

(* Some idle fiber has seen stopping() hold.                                 *)
Told == \E t \in Threads : idleTerm[t]

LastOut ==
  /\ autoStop => Late
  /\ \A t \in Threads : idleTerm[t] \/ pc[t] = "exited" => Late
  /\ waiting = {}
  /\ Told => \A e \in EntriesIn(queue) : ForAll(e.thread)
  /\ main = "stopped" => AllOut
  /\ AllOut /\ Late /\ (main = "root" => Workers # {}) => queue = <<>>

LEMMA LastInit == Init => LastOut
<1> SUFFICES ASSUME Init PROVE LastOut
  OBVIOUS
<1>1. EntriesIn(queue) = {}
  BY DEF Init, EntriesIn
<1> QED
  BY <1>1 DEF Init, LastOut, Late

(* Nobody steps over an entry for any thread.                                *)
LEMMA NothingIsEmpty ==
  ASSUME Alike, AlikeInv, LastOut, NEW t \in Threads,
         pc[t] = "pop", idleTerm[t], NothingToTake(t)
  PROVE  queue = <<>>
<1> SUFFICES ASSUME queue # <<>> PROVE FALSE
  OBVIOUS
<1>1. queue \in Seq(Entry) /\ 1 \in 1..Len(queue)
  <2>1. queue \in Seq(Entry)
    BY DEF AlikeInv, Shape, TypeOK
  <2>2. Len(queue) \in Nat /\ Len(queue) # 0
    BY <2>1, EmptySeq
  <2> QED
    BY <2>1, <2>2
<1> DEFINE e == queue[1]
<1>2. e \in EntriesIn(queue) /\ e.fiber \in FibersIn(queue)
  BY <1>1, ReadQueue
<1>3. ASSUME e.fiber # None PROVE fiber[e.fiber].state # "EXEC"
  <2>1. CASE Simple
    BY <1>2, <1>3, <2>1 DEF AlikeInv, SimpleInv, QueuedOK, Fresh
  <2>2. CASE \E w : Threads = {w}
    <3>1. HereOK(t)
      BY <2>2 DEF AlikeInv
    <3>2. queue[1] \in Entry
      BY <1>1
    <3>3. e.fiber \in Fibers
      BY <1>3, <3>2 DEF Entry
    <3> QED
      BY <3>1, <3>3 DEF HereOK
  <2> QED
    BY <2>1, <2>2 DEF Alike
<1>4. e.thread \in {None, t}
  BY <1>2 DEF LastOut, Told, ForAll
<1>5. Takable(t, e)
  BY <1>3, <1>4 DEF Takable
<1> QED
  BY <1>1, <1>5 DEF NothingToTake

LEMMA NoSwitch ==
  ASSUME Alike, NEW t \in Threads, NEW p \in Pins
  PROVE  ~SwitchTo(t, p)
BY SchedulerAssumption DEF Alike, Simple, SwitchTo, InBody

LEMMA StepsOfThread ==
  ASSUME TypeOK, NEW t \in Threads, Run(t) \/ Body(t)
  PROVE  /\ Exit(t) \/ pc'[t] \notin {"exited", "off"}
         /\ pc[t] \notin {"exited", "off"}
         /\ IdleStep(t) \/ UNCHANGED idleTerm
<1>1. CASE Run(t)
  BY <1>1 DEF Run, Take, EnterIdle, Exit, IdleStep, ResumeFiber, DropFinished, RunCallback,
     Deactivate, Reschedule, Retire, Suspend, SetHold, GoTo, TypeOK, localVars, Release
<1>2. CASE Body(t)
  BY <1>2 DEF Body, Spawn, ScheduleSelf, YieldToReady, Wait, SwitchTo, YieldToHold, Return,
     Throw, SwapOut, GoTo, InBody, TypeOK, localVars
<1> QED
  BY <1>1, <1>2

(* Once the owner has called stop(), an entry that a step adds is for any    *)
(* thread.                                                                   *)
LEMMA StillUnbound ==
  ASSUME Shape, Unbound, Late, Step, \A e \in EntriesIn(queue) : ForAll(e.thread)
  PROVE  \A e \in EntriesIn(queue') : ForAll(e.thread)
<1>1. queue \in Seq(Entry) /\ ForAll(None)
  BY DEF Shape, TypeOK, ForAll
<1>2. ASSUME NEW e \in Entry, ForAll(e.thread), queue' = Append(queue, e)
      PROVE  \A d \in EntriesIn(queue') : ForAll(d.thread)
  BY <1>1, <1>2, AppendQueue
<1>3. CASE queue' = queue
  BY <1>3
<1>4. ASSUME NEW i \in 1..Len(queue), queue' = RemoveAt(queue, i)
      PROVE  \A d \in EntriesIn(queue') : ForAll(d.thread)
  BY <1>1, <1>4, RemoveQueue
<1>5. ASSUME NEW j \in Jobs, NEW p \in SpawnPins, \E t \in Threads : Spawn(t, j, p)
      PROVE  \A d \in EntriesIn(queue') : ForAll(d.thread)
  <2> p \in Pins
    BY PinsGiven
  <2>1. \/ queue' = Append(queue, CbEntry(j, p)) /\ CbEntry(j, p) \in Entry
        \/ \E f \in FreeFibers : /\ queue' = Append(queue, FiberEntry(f, p))
                                 /\ FiberEntry(f, p) \in Entry
    BY <1>1, <1>5, SubmitDoes
  <2>2. ForAll(p)
    BY DEF Unbound
  <2> QED
    BY <1>2, <2>1, <2>2 DEF CbEntry, FiberEntry
<1>6. ASSUME NEW t \in Threads, Run(t)
      PROVE  \A d \in EntriesIn(queue') : ForAll(d.thread)
  <2>1. CASE Reschedule(t) \/ Retire(t) \/ SetHold(t)
    <3>1. FiberEntry(Handled(t), None) \in Entry /\ ForAll(FiberEntry(Handled(t), None).thread)
      BY <1>1, <2>1, PutAwayDoes DEF FiberEntry, Entry
    <3>2. queue' = queue \/ queue' = Append(queue, FiberEntry(Handled(t), None))
      BY <1>1, <2>1, PutAwayDoes
    <3> QED
      BY <1>2, <1>3, <3>1, <3>2
  <2>2. CASE Take(t)
    BY <1>1, <1>4, <2>2, TakeDoes
  <2> QED
    BY <1>1, <1>3, <1>6, <2>1, <2>2, PlainDoes, ResumeDoes, DropDoes, CallbackDoes DEF Run
<1>7. ASSUME NEW f \in Fibers, Wake(f) \/ \E t \in Threads : ScheduleSelf(t) /\ f = cur[t]
      PROVE  \A d \in EntriesIn(queue') : ForAll(d.thread)
  <2>1. /\ FiberEntry(f, None) \in Entry /\ FiberEntry(f, None).thread = None
        /\ queue' = Append(queue, FiberEntry(f, None))
    BY <1>7, RequeueDoes DEF FiberEntry
  <2> QED
    BY <1>1, <1>2, <2>1
<1>8. ASSUME NEW t \in Threads, Body(t)
      PROVE  \A d \in EntriesIn(queue') : ForAll(d.thread)
  <2>1. ~Wait(t) /\ \A p \in Pins : ~SwitchTo(t, p)
    BY NoSwitch DEF Unbound, Wait, InBody
  <2>2. ScheduleSelf(t) => cur[t] \in Fibers
    BY DEF ScheduleSelf, InBody, LocalOK, OnStack, Shape, TypeOK
  <2> QED
    BY <1>3, <1>5, <1>7, <1>8, <2>1, <2>2, YieldDoes, SwapOutDoes, PinsGiven DEF Body
<1>9. CASE Main \/ Quiet
  BY <1>3, <1>9, MainDoes DEF Quiet
<1>10. \A j \in Jobs, p \in Pins : ~Schedule(j, p)
  BY DEF Late, Schedule
<1> QED
  BY <1>6, <1>7, <1>8, <1>9, <1>10, StutterQuiet DEF Step, Next

(* The first idle fiber to see stopping() hold finds m_fibers empty.         *)
LEMMA ToldUnbound ==
  ASSUME Unbound, AlikeInv, LastOut, Step
  PROVE  Told' => \A e \in EntriesIn(queue') : ForAll(e.thread)
<1>1. Shape /\ TypeOK
  BY DEF AlikeInv, Shape
<1>2. ASSUME NEW t \in Threads, IdleStep(t), Stopping
      PROVE  EntriesIn(queue') = {}
  BY <1>2 DEF IdleStep, Stopping, EntriesIn
<1>3. ASSUME NEW t \in Threads, IdleStep(t), ~Stopping
      PROVE  Told' => Told
  BY <1>1, <1>3 DEF IdleStep, Told, TypeOK
<1>4. CASE UNCHANGED idleTerm \/ \E t \in Threads : IdleStep(t)
  <2>1. CASE Told
    <3>1. Late /\ \A e \in EntriesIn(queue) : ForAll(e.thread)
      BY <2>1 DEF LastOut, Told
    <3> QED
      BY <1>1, <3>1, StillUnbound
  <2> QED
    BY <1>2, <1>3, <1>4, <2>1 DEF Told
<1>5. ASSUME NEW t \in Threads, Run(t) \/ Body(t)
      PROVE  UNCHANGED idleTerm \/ \E u \in Threads : IdleStep(u)
  BY <1>1, <1>5, StepsOfThread
<1>6. Main \/ Quiet => UNCHANGED idleTerm
  BY <1>1, MainDoes DEF Quiet
<1>7. ASSUME NEW f \in Fibers, Wake(f) PROVE UNCHANGED idleTerm
  BY <1>7 DEF Wake, localVars
<1>8. ASSUME NEW j \in Jobs, NEW p \in Pins, Schedule(j, p) PROVE UNCHANGED idleTerm
  BY <1>8 DEF Schedule, localVars
<1> QED
  BY <1>1, <1>4, <1>5, <1>6, <1>7, <1>8, StutterQuiet DEF Step, Next

LEMMA LastThread ==
  ASSUME Alike, AlikeInv, LastOut, NEW t \in Threads, Run(t) \/ Body(t), Alone(t)
  PROVE  /\ autoStop' => Late'
         /\ \A u \in Threads : idleTerm'[u] \/ pc'[u] = "exited" => Late'
         /\ main' = "stopped" => AllOut'
         /\ AllOut' /\ Late' /\ (main' = "root" => Workers # {}) => queue' = <<>>
<1>1. TypeOK /\ LocalOK(t)
  BY DEF AlikeInv, Shape
<1>2. /\ UNCHANGED <<autoStop, main>> /\ Late' = Late
      /\ \A u \in Threads \ {t} : pc'[u] = pc[u] /\ idleTerm'[u] = idleTerm[u]
  BY DEF Alone, Late
<1>3. /\ Exit(t) \/ pc'[t] \notin {"exited", "off"}
      /\ pc[t] \notin {"exited", "off"}
      /\ IdleStep(t) \/ UNCHANGED idleTerm
  BY <1>1, StepsOfThread
<1>4. Exit(t) => queue = <<>> /\ queue' = queue /\ idleTerm[t]
  BY NothingIsEmpty DEF Exit, GoTo
<1>5. IdleStep(t) => /\ pc'[t] = "pop" /\ (idleTerm'[t] => autoStop)
  BY <1>1 DEF IdleStep, GoTo, Stopping, TypeOK
<1>6. ~AllOut
  BY <1>3 DEF AllOut
<1>7. \A u \in Threads : idleTerm'[u] \/ pc'[u] = "exited" => Late'
  <2>1. idleTerm'[t] \/ pc'[t] = "exited" => Late
    BY <1>3, <1>4, <1>5 DEF LastOut
  <2> QED
    BY <1>2, <2>1 DEF LastOut
<1>8. main' # "stopped"
  BY <1>2, <1>6 DEF LastOut
<1>9. AllOut' => queue' = <<>>
  BY <1>3, <1>4 DEF AllOut
<1> QED
  BY <1>2, <1>7, <1>8, <1>9 DEF LastOut

LEMMA LastMain ==
  ASSUME Shape, LastOut, Main
  PROVE  /\ autoStop' => Late'
         /\ \A u \in Threads : idleTerm'[u] \/ pc'[u] = "exited" => Late'
         /\ main' = "stopped" => AllOut'
         /\ AllOut' /\ Late' /\ (main' = "root" => Workers # {}) => queue' = <<>>
<1>1. TypeOK /\ Shape /\ Threads # {} /\ \A t \in Threads : t \in Workers <=> t # Caller
  BY SchedulerAssumption DEF Shape, Threads
<1>2. /\ UNCHANGED <<queue, idleTerm>>
      /\ \A u \in Threads : pc'[u] = pc[u] \/ (pc[u] = "off" /\ pc'[u] = "pop")
      /\ \/ main = "new" /\ main' = "running"
         \/ main = "running" /\ main' = "root" /\ UNCHANGED pc
         \/ StopRoot /\ main = "root" /\ main' = "join"
         \/ /\ main = "join" /\ main' = "stopped" /\ UNCHANGED pc
            /\ \A t \in Threads : pc[t] = "exited" \/ (t = Caller /\ pc[t] = "off")
  BY <1>1, MainDoes
<1>3. Late => Late'
  BY <1>2 DEF Late
<1>4. autoStop' => Late'
  BY <1>3 DEF Main, Start, Stop, StopRoot, Join, LastOut, Late
<1>5. \A u \in Threads : idleTerm'[u] \/ pc'[u] = "exited" => Late'
  BY <1>2, <1>3 DEF LastOut
<1>6. main' = "stopped" => AllOut'
  BY <1>2 DEF AllOut
<1>7. ASSUME AllOut', Late', main' = "root" => Workers # {} PROVE queue = <<>>
  <2>1. CASE main = "running" /\ main' = "root" /\ UNCHANGED pc
    <3>1. PICK w \in Threads : w # Caller
      BY <1>7, <2>1, SchedulerAssumption DEF Threads
    <3>2. pc[w] = "exited"
      BY <1>7, <2>1, <3>1 DEF AllOut
    <3> QED
      BY <2>1, <3>2 DEF LastOut, Late
  <2>2. CASE StopRoot /\ main = "root" /\ main' = "join"
    <3>1. CASE Caller # None /\ ~Stopping
      <4>1. Caller \in Threads /\ pc'[Caller] = "pop"
        BY <1>1, <2>2, <3>1 DEF StopRoot, Threads, TypeOK
      <4> QED
        BY <1>7, <4>1 DEF AllOut
    <3>2. CASE Caller # None /\ Stopping
      BY <3>2 DEF Stopping
    <3>3. CASE Caller = None
      <4>1. UNCHANGED pc /\ AllOut
        BY <1>7, <2>2, <3>3 DEF StopRoot, AllOut
      <4>2. Workers # {}
        BY <1>1, <3>3 DEF Threads
      <4> QED
        BY <2>2, <4>1, <4>2 DEF LastOut, Late
    <3> QED
      BY <3>1, <3>2, <3>3
  <2>3. CASE /\ main = "join" /\ main' = "stopped" /\ UNCHANGED pc
             /\ \A t \in Threads : pc[t] = "exited" \/ (t = Caller /\ pc[t] = "off")
    BY <2>3 DEF LastOut, AllOut, Late
  <2> QED
    BY <1>2, <1>7, <2>1, <2>2, <2>3 DEF Late
<1> QED
  BY <1>2, <1>4, <1>5, <1>6, <1>7

LEMMA LastNext ==
  ASSUME Unbound, AlikeInv, LastOut, Step
  PROVE  LastOut'
<1>1. Shape /\ TypeOK /\ Alike
  BY DEF AlikeInv, Shape, Unbound
<1>2. Told' => \A e \in EntriesIn(queue') : ForAll(e.thread)
  BY ToldUnbound
<1>3. ASSUME NEW j \in Jobs, NEW p \in Pins,
             Schedule(j, p) \/ \E t \in Threads : Spawn(t, j, p)
      PROVE  LastOut'
  <2>1. /\ Still /\ UNCHANGED waiting
        /\ main \in {"new", "running"} \/ ("spawn" \in Ops /\ \E t \in Threads : pc[t] = "body")
    BY <1>1, <1>3, SubmitDoes
  <2>2. AllOut' = AllOut /\ Late' = Late /\ ~(AllOut /\ Late)
    BY <2>1 DEF Still, AllOut, Late
  <2> QED
    BY <1>2, <2>1, <2>2 DEF LastOut, Still
<1>4. ASSUME NEW t \in Threads, ScheduleSelf(t) PROVE LastOut'
  <2>1. cur[t] \in Fibers /\ pc[t] = "body"
    BY <1>1, <1>4 DEF ScheduleSelf, InBody, LocalOK, OnStack, Shape, TypeOK
  <2>2. Still /\ waiting' = {}
    BY <1>1, <1>4, <2>1, RequeueDoes DEF LastOut
  <2>3. AllOut' = AllOut /\ Late' = Late /\ ~AllOut
    BY <2>1, <2>2 DEF Still, AllOut, Late
  <2> QED
    BY <1>2, <2>2, <2>3 DEF LastOut, Still
<1>5. CASE Quiet
  <2>1. AllOut' = AllOut /\ Late' = Late
    BY <1>5 DEF Quiet, AllOut, Late
  <2> QED
    BY <1>2, <1>5, <2>1 DEF LastOut, Quiet
<1>6. ASSUME NEW t \in Threads, Run(t) PROVE LastOut'
  <2>1. Alone(t) /\ UNCHANGED waiting
    BY <1>1, <1>6, TakeDoes, PlainDoes, ResumeDoes, DropDoes, CallbackDoes, PutAwayDoes DEF Run
  <2> QED
    BY <1>1, <1>2, <1>6, <2>1, LastThread DEF LastOut
<1>7. ASSUME NEW t \in Threads,
             YieldToReady(t) \/ YieldToHold(t) \/ Return(t) \/ Throw(t) \/ SwapOut(t)
      PROVE  LastOut'
  <2>1. Alone(t) /\ UNCHANGED waiting
    BY <1>1, <1>7, YieldDoes, SwapOutDoes
  <2>2. Body(t)
    BY <1>7, PinsGiven DEF Body
  <2> QED
    BY <1>1, <1>2, <2>1, <2>2, LastThread DEF LastOut
<1>8. ASSUME NEW t \in Threads, Body(t) PROVE LastOut'
  <2>1. ~Wait(t) /\ \A p \in Pins : ~SwitchTo(t, p)
    BY NoSwitch DEF Unbound, Wait, InBody
  <2> QED
    BY <1>3, <1>4, <1>7, <1>8, <2>1, PinsGiven DEF Body
<1>9. CASE Main
  <2>1. UNCHANGED waiting
    BY <1>1, <1>9, MainDoes
  <2> QED
    BY <1>1, <1>2, <1>9, <2>1, LastMain DEF LastOut
<1>10. \A f \in Fibers : ~Wake(f)
  BY DEF LastOut, Wake
<1> QED
  BY <1>1, <1>3, <1>5, <1>6, <1>8, <1>9, <1>10, StutterQuiet DEF Step, Next

(* A callback that has not ended would be somewhere.                         *)
LEMMA EmptyIsDone ==
  ASSUME Shape, Kept, AllOut, queue = <<>>, waiting = {}
  PROVE  submitted \subseteq done
<1>1. FibersIn(queue) = {} /\ JobsIn(queue) = {}
  BY DEF FibersIn, JobsIn
<1>2. \A t \in Threads : ft[t].cb = None /\ pc[t] \in {"exited", "off"}
  BY DEF AllOut, Shape, LocalOK, InHand, OnStack, NoEntry
<1>3. ASSUME NEW j \in submitted \ done PROVE FALSE
  <2>1. HasPlace(j) /\ j \in Jobs
    BY DEF Kept, Shape, TypeOK
  <2>2. PICK f \in Fibers : fiber[f].cb = j
    BY <1>1, <1>2, <2>1, NoneIsNothing DEF HasPlace
  <2>3. Token(f)
    BY <2>1, <2>2 DEF Kept, Undone
  <2> QED
    BY <1>1, <1>2, <2>3 DEF Token, Holds
<1> QED
  BY <1>3

(* stop() returns only when every callback given to the scheduler has ended  *)
(* and m_fibers is empty: on one thread if no callback waits for an event,   *)
(* and on any number of threads if callbacks only schedule, yield with READY *)
(* and throw and bind nothing to a thread, whatever the owner has bound: an  *)
(* entry put back behind the back of stopping() is for anyone who is left.   *)
(* With a fiber that waits it is not so: stopping() looks at m_fibers and    *)
(* the count of active threads.                                              *)
THEOREM StopCorrect ==
  ASSUME Alike, "wait" \notin Ops, \A p \in SpawnPins, t \in Threads : p \in {None, t}
  PROVE  Spec => []StopIsClean
<1> DEFINE Inv == AlikeInv /\ Kept /\ JobsApart /\ LastOut
<1> Unbound
  BY DEF Unbound, ForAll
<1>1. Init => Inv
  BY AlikeInit, KeptInit, JobsInit, LastInit
<1>2. AlikeInv => Shape /\ \A t \in Threads : HeldOK(t) /\ NotReadyOK(t)
  BY AlikeHeld DEF AlikeInv, HeldOK, NotReadyOK
<1>3. Inv /\ [Next]_vars => Inv'
  <2> SUFFICES ASSUME Inv, Step PROVE Inv'
    BY <1>2, StutterQuiet DEF Step
  <2> QED
    BY <1>2, AlikeNext, KeptNext, JobsNext, LastNext
<1>4. Inv => StopIsClean
  <2> SUFFICES ASSUME Inv, main = "stopped" PROVE done = submitted /\ queue = <<>>
    BY DEF StopIsClean
  <2>1. AllOut /\ queue = <<>> /\ waiting = {} /\ Shape
    BY <1>2 DEF LastOut, Late
  <2>2. submitted \subseteq done
    BY <2>1, EmptyIsDone
  <2> QED
    BY <2>1, <2>2 DEF JobsApart
<1> QED
  BY <1>1, <1>3, <1>4, PTL DEF Spec
-----------------------------------------------------------------------------
(* Without YieldToReady() no thread puts an entry back after it stopped      *)
(* counting as active: once stopping() holds it goes on holding, and who     *)
(* left because of it leaves nothing behind, whatever is bound to whom.      *)
Drained == Late /\ queue = <<>> /\ \A t \in Threads : pc[t] \notin ActivePCs

(* Who has seen stopping() hold: an idle fiber, or the owner in stop().      *)
SeenBy(t) ==
  \/ idleTerm[t] \/ pc[t] = "exited"
  \/ t = Caller /\ pc[t] = "off" /\ main \in {"join", "stopped"}

DrainInv ==
  /\ autoStop => Late
  /\ waiting = {}
  /\ \A t \in Threads : SeenBy(t) => Drained
  /\ main = "stopped" => AllOut

LEMMA StoppingDrained ==
  ASSUME Shape, Stopping, autoStop => Late
  PROVE  Drained
<1>1. At(ActivePCs) = {}
  <2>1. Cardinality(At(ActivePCs)) = 0
    BY DEF Shape, CountOK, Stopping
  <2>2. IsFiniteSet(At(ActivePCs))
    BY NoneIsNothing, FS_Subset DEF At
  <2> QED
    BY <2>1, <2>2, FS_EmptySet
<1> QED
  BY <1>1 DEF Drained, Stopping, At

LEMMA DrainInit == Init => DrainInv
BY DEF Init, DrainInv, SeenBy, Late

LEMMA DrainThread ==
  ASSUME Shape, DrainInv, Unready, NEW t \in Threads, Run(t) \/ Body(t), Alone(t), waiting' = {}
  PROVE  DrainInv'
<1>1. TypeOK /\ LocalOK(t) /\ queue \in Seq(Entry)
  BY DEF Shape, TypeOK
<1>2. /\ UNCHANGED <<autoStop, main>> /\ Late' = Late
      /\ \A u \in Threads \ {t} : pc'[u] = pc[u] /\ idleTerm'[u] = idleTerm[u]
  BY DEF Alone, Late
<1>3. /\ Exit(t) \/ pc'[t] \notin {"exited", "off"}
      /\ pc[t] \notin {"exited", "off"}
      /\ IdleStep(t) \/ UNCHANGED idleTerm
  BY <1>1, StepsOfThread
<1>4. main' # "stopped"
  BY <1>2, <1>3 DEF DrainInv, AllOut
<1>5. ASSUME Drained PROVE Drained'
  <2>1. pc[t] \notin ActivePCs
    BY <1>5 DEF Drained
  <2>2. ~Body(t) /\ ~Take(t)
    BY <1>1, <1>5, <2>1 DEF Drained, ActivePCs, Body, Spawn, ScheduleSelf, YieldToReady, Wait, SwitchTo,
       YieldToHold, Return, Throw, SwapOut, InBody, GoTo, Take
  <2>3. CASE EnterIdle(t) \/ Exit(t) \/ IdleStep(t) \/ Deactivate(t) \/ Suspend(t)
    <3>1. queue' = queue /\ (pc'[t] \notin ActivePCs \/ pc[t] = "back")
      BY <2>3, PlainDoes DEF ActivePCs
    <3> QED
      BY <1>2, <1>5, <2>1, <3>1 DEF Drained, ActivePCs
  <2>4. CASE Reschedule(t) \/ Retire(t) \/ SetHold(t)
    <3>1. queue' = queue /\ pc'[t] = "pop"
      BY <2>4, PutAwayDoes DEF Unready
    <3> QED
      BY <1>2, <1>5, <3>1 DEF Drained, ActivePCs
  <2>5. ~ResumeFiber(t) /\ ~DropFinished(t) /\ ~RunCallback(t)
    BY <2>1 DEF ActivePCs, ResumeFiber, DropFinished, RunCallback, GoTo
  <2> QED
    BY <2>2, <2>3, <2>4, <2>5 DEF Run
<1>6. CASE IdleStep(t)
  <2>1. idleTerm'[t] => Stopping
    BY <1>1, <1>6 DEF IdleStep, TypeOK
  <2>2. idleTerm'[t] => Drained
    BY <2>1, StoppingDrained DEF DrainInv
  <2>3. pc'[t] = "pop"
    BY <1>1, <1>6 DEF IdleStep, GoTo, TypeOK
  <2>4. \A u \in Threads : SeenBy(u)' => Drained
    BY <1>2, <2>2, <2>3 DEF DrainInv, SeenBy
  <2> QED
    BY <1>2, <1>4, <1>5, <2>4 DEF DrainInv
<1>7. CASE ~IdleStep(t)
  <2>1. UNCHANGED idleTerm /\ (Exit(t) => idleTerm[t])
    BY <1>3, <1>7 DEF Exit
  <2>2. \A u \in Threads : SeenBy(u)' => Drained
    BY <1>2, <1>3, <2>1 DEF DrainInv, SeenBy
  <2> QED
    BY <1>2, <1>4, <1>5, <2>2 DEF DrainInv
<1> QED
  BY <1>6, <1>7

LEMMA DrainMain ==
  ASSUME Shape, DrainInv, Main
  PROVE  DrainInv'
<1>1. TypeOK /\ StartOK
  BY DEF Shape
<1>2. /\ UNCHANGED <<queue, idleTerm, waiting>>
      /\ \A u \in Threads : pc'[u] = pc[u] \/ (pc[u] = "off" /\ pc'[u] = "pop")
      /\ \/ main = "new" /\ main' = "running"
         \/ main = "running" /\ main' = "root" /\ UNCHANGED pc
         \/ StopRoot /\ main = "root" /\ main' = "join"
         \/ /\ main = "join" /\ main' = "stopped" /\ UNCHANGED pc
            /\ \A t \in Threads : pc[t] = "exited" \/ (t = Caller /\ pc[t] = "off")
  BY MainDoes
<1>3. Drained => Drained'
  BY <1>2 DEF Drained, Late, ActivePCs
<1>4. autoStop' => Late'
  BY DEF Main, Start, Stop, StopRoot, Join, DrainInv, Late
<1>5. main' = "stopped" => AllOut'
  BY <1>2 DEF AllOut
<1>6. ASSUME NEW t \in Threads, SeenBy(t)' PROVE Drained
  <2>1. CASE SeenBy(t)
    BY <2>1 DEF DrainInv
  <2>2. CASE ~SeenBy(t)
    <3>1. t = Caller /\ pc'[t] = "off" /\ StopRoot
      BY <1>2, <1>6, <2>2 DEF SeenBy
    <3>2. t # None
      BY NoneIsNothing
    <3>3. Stopping
      BY <1>1, <3>1, <3>2 DEF StopRoot, TypeOK
    <3> QED
      BY <3>3, StoppingDrained DEF DrainInv
  <2> QED
    BY <2>1, <2>2
<1> QED
  BY <1>2, <1>3, <1>4, <1>5, <1>6 DEF DrainInv

LEMMA DrainNext ==
  ASSUME Shape, DrainInv, Unready, "wait" \notin Ops, Step
  PROVE  DrainInv'
<1>1. TypeOK /\ waiting = {}
  BY DEF Shape, DrainInv
<1>2. ASSUME Still, UNCHANGED waiting, main \in {"new", "running"} \/ \E t \in Threads : pc[t] = "body"
      PROVE  DrainInv'
  <2>1. /\ Late' = Late /\ AllOut' = AllOut /\ ~Drained
        /\ \A t \in Threads : SeenBy(t)' = SeenBy(t)
    BY <1>2 DEF Still, Late, AllOut, Drained, ActivePCs, SeenBy
  <2> QED
    BY <1>2, <2>1 DEF DrainInv, Still
<1>3. ASSUME NEW j \in Jobs, NEW p \in Pins,
             Schedule(j, p) \/ \E t \in Threads : Spawn(t, j, p)
      PROVE  DrainInv'
  BY <1>2, <1>3, SubmitDoes
<1>4. CASE Quiet
  <2>1. /\ Drained' = Drained /\ Late' = Late /\ AllOut' = AllOut
        /\ \A t \in Threads : SeenBy(t)' = SeenBy(t)
    BY <1>4 DEF Quiet, Drained, Late, AllOut, SeenBy
  <2> QED
    BY <1>4, <2>1 DEF Quiet, DrainInv
<1>5. ASSUME NEW t \in Threads, Run(t) PROVE DrainInv'
  <2>1. Alone(t) /\ waiting' = {}
    BY <1>1, <1>5, TakeDoes, PlainDoes, ResumeDoes, DropDoes, CallbackDoes, PutAwayDoes DEF Run
  <2> QED
    BY <1>5, <2>1, DrainThread
<1>6. ASSUME NEW t \in Threads, Body(t) PROVE DrainInv'
  <2>1. CASE ScheduleSelf(t)
    <3>1. cur[t] \in Fibers /\ pc[t] = "body"
      BY <1>1, <2>1 DEF ScheduleSelf, InBody, LocalOK, OnStack, Shape, TypeOK
    <3>2. Still /\ UNCHANGED waiting
      BY <1>1, <2>1, <3>1, RequeueDoes
    <3> QED
      BY <1>2, <3>1, <3>2
  <2>2. CASE \/ \E p \in Pins : SwitchTo(t, p)
             \/ YieldToReady(t) \/ YieldToHold(t) \/ Return(t) \/ Throw(t) \/ SwapOut(t)
    <3>1. Alone(t) /\ waiting' = {}
      BY <1>1, <2>2, LeaveDoes, YieldDoes, SwapOutDoes
    <3> QED
      BY <1>6, <3>1, DrainThread
  <2>3. ~Wait(t)
    BY DEF Wait, InBody
  <2> QED
    BY <1>3, <1>6, <2>1, <2>2, <2>3, PinsGiven DEF Body
<1>7. \A f \in Fibers : ~Wake(f)
  BY <1>1 DEF Wake
<1> QED
  BY <1>3, <1>4, <1>5, <1>6, <1>7, DrainMain, StutterQuiet DEF Step, Next

(* Only what was submitted is executed.                                      *)
Given ==
  /\ done \subseteq submitted
  /\ JobsIn(queue) \subseteq submitted \cup {None}
  /\ \A t \in Threads : ft[t].cb \in submitted \cup {None}
  /\ \A f \in Fibers : fiber[f].cb \in submitted \cup {None}

LEMMA GivenInit == Init => Given
<1> SUFFICES ASSUME Init PROVE Given
  OBVIOUS
<1>1. JobsIn(queue) = {}
  BY DEF Init, JobsIn
<1> QED
  BY <1>1 DEF Init, Given, NoEntry

LEMMA GivenKeeps ==
  ASSUME Given, submitted \subseteq submitted', done' \subseteq submitted',
         JobsIn(queue') \subseteq JobsIn(queue) \cup submitted' \cup {None},
         \A t \in Threads : ft'[t].cb \in {ft[t].cb, None} \cup JobsIn(queue),
         \A f \in Fibers : fiber'[f].cb \in {fiber[f].cb, None} \cup submitted'
  PROVE  Given'
BY DEF Given

LEMMA GivenRun ==
  ASSUME Shape, Given, NEW t \in Threads, Run(t)
  PROVE  Given'
<1>1. queue \in Seq(Entry) /\ ft[t].cb \in submitted \cup {None}
  BY DEF Shape, TypeOK, Given
<1>2. CASE Take(t)
  <2>1. PICK i \in 1..Len(queue) : queue' = RemoveAt(queue, i) /\ ft'[t] = queue[i]
    BY <1>2, TakeDoes
  <2>2. JobsIn(queue') \subseteq JobsIn(queue) /\ ft'[t].cb \in JobsIn(queue)
    BY <1>1, <2>1, RemoveQueue, ReadQueue
  <2>3. /\ UNCHANGED <<fiber, submitted, done>>
        /\ \A u \in Threads \ {t} : ft'[u] = ft[u]
    BY <1>2, TakeDoes DEF Alone
  <2> QED
    BY <2>2, <2>3, GivenKeeps DEF Given
<1>3. CASE EnterIdle(t) \/ Exit(t) \/ IdleStep(t) \/ Deactivate(t) \/ Suspend(t)
  <2>1. UNCHANGED <<queue, fiber, ft, submitted, done>>
    BY <1>3, PlainDoes
  <2> QED
    BY <2>1, GivenKeeps DEF Given
<1>4. CASE ResumeFiber(t)
  <2>1. /\ UNCHANGED <<queue, ft, submitted, done>>
        /\ \A f \in Fibers : fiber'[f].cb = fiber[f].cb
    BY <1>4, ResumeDoes DEF Rewritten
  <2> QED
    BY <2>1, GivenKeeps DEF Given
<1>5. CASE DropFinished(t)
  <2>1. /\ UNCHANGED <<queue, fiber, submitted, done>> /\ ft'[t].cb = None
        /\ \A u \in Threads \ {t} : ft'[u] = ft[u]
    BY <1>5, DropDoes DEF NoEntry, Alone
  <2> QED
    BY <2>1, GivenKeeps DEF Given
<1>6. CASE RunCallback(t)
  <2>1. /\ UNCHANGED <<queue, submitted, done>> /\ ft'[t] = NoEntry /\ Alone(t)
        /\ Rewritten({cbFiber'[t]})
        /\ fiber'[cbFiber'[t]] = [state |-> "EXEC", cb |-> ft[t].cb, saved |-> FALSE]
    BY <1>6, CallbackDoes
  <2>2. \A f \in Fibers : fiber'[f].cb \in {fiber[f].cb, ft[t].cb}
    BY <2>1 DEF Rewritten
  <2>3. ft'[t].cb = None /\ \A u \in Threads \ {t} : ft'[u] = ft[u]
    BY <2>1 DEF NoEntry, Alone
  <2> QED
    BY <1>1, <2>1, <2>2, <2>3, GivenKeeps DEF Given
<1>7. CASE Reschedule(t) \/ Retire(t) \/ SetHold(t)
  <2>1. /\ UNCHANGED <<submitted, done>> /\ ft'[t] = NoEntry /\ Handled(t) \in Fibers
        /\ Alone(t)
    BY <1>7, PutAwayDoes
  <2>2. \A f \in Fibers : fiber'[f].cb \in {fiber[f].cb, None}
    BY <1>7, PutAwayDoes DEF Rewritten
  <2>3. FiberEntry(Handled(t), None) \in Entry /\ FiberEntry(Handled(t), None).cb = None
    BY <2>1 DEF FiberEntry, Entry
  <2>4. JobsIn(Append(queue, FiberEntry(Handled(t), None))) = JobsIn(queue) \cup {None}
    BY <1>1, <2>3, AppendQueue
  <2>5. queue' = queue \/ queue' = Append(queue, FiberEntry(Handled(t), None))
    BY <1>7, PutAwayDoes
  <2>6. ft'[t].cb = None /\ \A u \in Threads \ {t} : ft'[u] = ft[u]
    BY <2>1 DEF NoEntry, Alone
  <2> QED
    BY <2>1, <2>2, <2>4, <2>5, <2>6, GivenKeeps DEF Given
<1> QED
  BY <1>2, <1>3, <1>4, <1>5, <1>6, <1>7 DEF Run

LEMMA GivenNext ==
  ASSUME Shape, Given, Step
  PROVE  Given'
<1>1. TypeOK /\ queue \in Seq(Entry)
  BY DEF Shape, TypeOK
<1>2. CASE Main \/ Quiet
  <2>1. UNCHANGED <<queue, fiber, ft, submitted, done>>
    BY <1>2, MainDoes DEF Quiet
  <2> QED
    BY <2>1, GivenKeeps DEF Given
<1>3. ASSUME NEW j \in Jobs, NEW p \in Pins,
             Schedule(j, p) \/ \E t \in Threads : Spawn(t, j, p)
      PROVE  Given'
  <2>1. /\ UNCHANGED <<ft, done>> /\ submitted' = submitted \cup {j}
    BY <1>3, SubmitDoes DEF Still
  <2>2. \A f \in Fibers : fiber'[f].cb \in {fiber[f].cb, j}
    <3>1. fiber' = fiber \/ \E g \in FreeFibers :
            Rewritten({g}) /\ fiber'[g] = [state |-> "INIT", cb |-> j, saved |-> TRUE]
      BY <1>3, SubmitDoes
    <3> QED
      BY <3>1 DEF Rewritten
  <2>3. PICK e \in Entry : queue' = Append(queue, e) /\ e.cb \in {j, None}
    BY <1>3, SubmitDoes DEF CbEntry, FiberEntry
  <2>4. JobsIn(queue') = JobsIn(queue) \cup {e.cb}
    BY <1>1, <2>3, AppendQueue
  <2> QED
    BY <2>1, <2>2, <2>3, <2>4, GivenKeeps DEF Given
<1>4. ASSUME NEW e \in Entry, e.cb = None, UNCHANGED <<fiber, ft, submitted, done>>,
             queue' = queue \/ queue' = Append(queue, e)
      PROVE  Given'
  <2>1. JobsIn(Append(queue, e)) = JobsIn(queue) \cup {None}
    BY <1>1, <1>4, AppendQueue
  <2> QED
    BY <1>4, <2>1, GivenKeeps DEF Given
<1>5. \A f \in Fibers, p \in Threads \cup {None} :
        FiberEntry(f, p) \in Entry /\ FiberEntry(f, p).cb = None
  BY DEF FiberEntry, Entry
<1>6. ASSUME NEW f \in Fibers, Wake(f) \/ \E t \in Threads : ScheduleSelf(t) /\ f = cur[t]
      PROVE  Given'
  <2>1. /\ UNCHANGED <<fiber, ft, submitted, done>>
        /\ queue' = Append(queue, FiberEntry(f, None))
    BY <1>6, RequeueDoes DEF Still
  <2> QED
    BY <1>4, <1>5, <2>1
<1>7. ASSUME NEW t \in Threads, NEW p, Wait(t) \/ (p \in Pins /\ SwitchTo(t, p))
      PROVE  Given'
  <2>1. /\ UNCHANGED <<fiber, ft, submitted, done>> /\ cur[t] \in Fibers
        /\ queue' = queue
           \/ (p \in Threads /\ queue' = Append(queue, FiberEntry(cur[t], p)))
    BY <1>7, LeaveDoes
  <2>2. CASE queue' = queue
    BY <2>1, <2>2, GivenKeeps DEF Given
  <2> QED
    BY <1>4, <1>5, <2>1, <2>2
<1>8. ASSUME NEW t \in Threads, Body(t) PROVE Given'
  <2>1. CASE YieldToReady(t) \/ YieldToHold(t) \/ Return(t) \/ Throw(t)
    <3>1. /\ UNCHANGED <<queue, ft, submitted>> /\ cur[t] \in Fibers /\ Rewritten({cur[t]})
          /\ fiber'[cur[t]].cb \in {fiber[cur[t]].cb, None}
          /\ done' \subseteq done \cup ({fiber[cur[t]].cb} \ {None})
      BY <2>1, YieldDoes
    <3>2. \A f \in Fibers : fiber'[f].cb \in {fiber[f].cb, None}
      BY <3>1 DEF Rewritten
    <3>3. done' \subseteq submitted
      BY <3>1 DEF Given
    <3> QED
      BY <3>1, <3>2, <3>3, GivenKeeps DEF Given
  <2>2. CASE SwapOut(t)
    <3>1. /\ UNCHANGED <<queue, ft, submitted, done>>
          /\ \A f \in Fibers : fiber'[f].cb = fiber[f].cb
      BY <2>2, SwapOutDoes DEF Rewritten
    <3> QED
      BY <3>1, GivenKeeps DEF Given
  <2>3. ScheduleSelf(t) => cur[t] \in Fibers
    BY DEF ScheduleSelf, InBody, LocalOK, OnStack, Shape, TypeOK
  <2> QED
    BY <1>3, <1>6, <1>7, <1>8, <2>1, <2>2, <2>3, PinsGiven DEF Body
<1> QED
  BY <1>2, <1>3, <1>6, <1>8, GivenRun, StutterQuiet DEF Step, Next

(* The same without YieldToReady(), for any number of threads, whatever is   *)
(* bound to whom, and if callbacks switch threads and schedule themselves.   *)
THEOREM StopBoundCorrect ==
  ASSUME Ops \cap {"wait", "ready"} = {}
  PROVE  Spec => []StopIsClean
<1> DEFINE Inv == Shape /\ Unready /\ Kept /\ DrainInv /\ Given
<1>1. Init => Inv
  BY InitShape, KeptInit, DrainInit, GivenInit DEF Init, Unready
<1>2. Shape /\ Unready => \A t \in Threads : NotReadyOK(t)
  <2> SUFFICES ASSUME Shape, Unready, NEW t \in Threads, pc[t] \in {"body", "hold", "sethold"}
               PROVE  fiber[Handled(t)].state # "READY"
    BY DEF NotReadyOK
  <2>1. Handled(t) \in Fibers
    BY DEF Shape, TypeOK, LocalOK, InHand, OnStack, Handled, Entry
  <2> QED
    BY <2>1 DEF Unready
<1>3. Inv /\ [Next]_vars => Inv'
  <2> SUFFICES ASSUME Inv, Step PROVE Inv'
    BY StutterQuiet DEF Step
  <2> QED
    BY <1>2, NextShape, UnreadyNext, KeptNext, DrainNext, GivenNext
<1>4. Inv => StopIsClean
  <2> SUFFICES ASSUME Inv, main = "stopped" PROVE done = submitted /\ queue = <<>>
    BY DEF StopIsClean
  <2>1. AllOut /\ waiting = {}
    BY DEF DrainInv
  <2>2. PICK t \in Threads : SeenBy(t)
    BY <2>1, SchedulerAssumption DEF AllOut, SeenBy
  <2>3. queue = <<>>
    BY <2>2 DEF DrainInv, Drained
  <2> QED
    BY <2>1, <2>3, EmptyIsDone DEF Given
<1> QED
  BY <1>1, <1>3, <1>4, PTL DEF Spec
-----------------------------------------------------------------------------
(* The semaphore, on any number of threads.  A fiber that nothing but its    *)
(* waker schedules again is passed on like a baton: it is at one place of    *)
(* the queue, with its waker, or in the hands of the one thread that took    *)
(* its entry or is inside its callback.  A thread in YieldToHold() or past   *)
(* it has passed the fiber on and may only write its state again.            *)
Carries(t, f) ==
  \/ pc[t] = "dispatch" /\ ft[t].fiber = f
  \/ pc[t] = "body" /\ cur[t] = f

Carried(f) == f \in FibersIn(queue) \cup waiting \/ \E t \in Threads : Carries(t, f)

Pending == JobsIn(queue) \cup {ft[t].cb : t \in Threads}

OneBaton(f) ==
  /\ OnceFiber(queue, f)
  /\ f \in waiting => f \notin FibersIn(queue)
  /\ \A t \in Threads : Carries(t, f) => /\ f \notin FibersIn(queue) \cup waiting
                                         /\ \A u \in Threads : Carries(u, f) => u = t

Going == {"INIT", "EXEC", "HOLD"}

Unended(f) ==
  Carried(f) => /\ fiber[f].state \in Going
                /\ fiber[f].cb \in submitted \ done
                /\ fiber[f].cb \notin Pending
                /\ \A g \in Fibers : Carried(g) /\ fiber[g].cb = fiber[f].cb => g = f

(* A cb_fiber that its thread is not handling has not been passed on.        *)
OwnCbOK(t) ==
  cbFiber[t] # None => /\ \A u \in Threads : cbFiber[u] = cbFiber[t] => u = t
                       /\ ft[t].fiber # None \/ pc[t] \notin InHand => ~Carried(cbFiber[t])

CarryInv ==
  /\ done \subseteq submitted
  /\ \A f \in Fibers : OneBaton(f) /\ Unended(f) /\ fiber[f].state # "READY"
  /\ \A j \in JobsIn(queue) \ {None} : EntryJobOK(j)
  /\ \A t \in Threads : LocalJobOK(t) /\ OwnCbOK(t)

(* Fibers under way stay so, with their callback, except those of F.         *)
CarryStays(F) == \A f \in Fibers \ F : Carried(f) => Carried(f)' /\ fiber'[f].cb = fiber[f].cb

LEMMA BatonKeeps ==
  ASSUME NEW f \in Fibers, OneBaton(f),
         OnceFiber(queue, f) => OnceFiber(queue', f),
         f \in FibersIn(queue') => f \in FibersIn(queue),
         f \in waiting' => f \in waiting,
         \A t \in Threads : Carries(t, f)' => Carries(t, f)
  PROVE  OneBaton(f)' /\ (Carried(f)' => Carried(f))
BY DEF OneBaton, Carried

LEMMA CarryKeeps ==
  ASSUME Shape, CarryInv, submitted' = submitted, \A j \in done' : j \in done \cup submitted,
         \A f \in Fibers : OneBaton(f)' /\ (Carried(f)' => Carried(f)),
         \A f \in Fibers : fiber'[f].state # "READY",
         \A f \in Fibers : Carried(f)' => /\ fiber'[f].cb = fiber[f].cb
                                          /\ fiber[f].cb \notin done'
                                          /\ fiber'[f].state \in Going,
         JobsIn(queue') \subseteq JobsIn(queue) \cup {None},
         \A j \in Jobs : OnceJob(queue, j) => OnceJob(queue', j),
         \A t \in Threads : ft'[t].cb \in {ft[t].cb, None},
         \A j \in Pending \ {None} : j \in done' => j \in done,
         \A t \in Threads :
           /\ cbFiber'[t] \in {cbFiber[t], None}
           /\ (ft'[t].fiber # None \/ pc'[t] \notin InHand) /\ cbFiber'[t] # None
                => ft[t].fiber # None \/ pc[t] \notin InHand \/ ~Carried(cbFiber[t])
  PROVE  CarryInv'
<1>1. \A j \in Pending' : j \in Pending \/ j = None
  BY DEF Pending
<1>2. ASSUME NEW f \in Fibers
      PROVE  Unended(f)'
  <2> SUFFICES ASSUME Carried(f)' PROVE Unended(f)'
    BY DEF Unended
  <2>1. /\ Carried(f) /\ Unended(f) /\ fiber'[f].cb = fiber[f].cb /\ fiber[f].cb # None
        /\ fiber'[f].state \in Going /\ fiber[f].cb \notin done'
    BY NoneIsNothing DEF CarryInv, Unended, Shape, TypeOK
  <2>2. \A g \in Fibers : Carried(g)' /\ fiber'[g].cb = fiber'[f].cb => g = f
    BY <2>1 DEF Unended
  <2>3. fiber'[f].cb \in submitted' /\ fiber'[f].cb \notin Pending'
    BY <1>1, <2>1 DEF Unended
  <2> QED
    BY <2>1, <2>2, <2>3 DEF Unended
<1>3. ASSUME NEW j \in JobsIn(queue') \ {None}
      PROVE  EntryJobOK(j)'
  <2>1. j \in JobsIn(queue) /\ j \in Jobs /\ j # None /\ j \in Pending
    BY ReadQueue DEF Shape, TypeOK, Pending
  <2> QED
    BY <2>1 DEF EntryJobOK, CarryInv
<1>4. ASSUME NEW t \in Threads
      PROVE  LocalJobOK(t)' /\ OwnCbOK(t)'
  <2>1. LocalJobOK(t)'
    <3>1. ft[t].cb \in Pending
      BY DEF Pending
    <3> QED
      BY <3>1 DEF LocalJobOK, CarryInv
  <2>2. OwnCbOK(t)'
    <3>1. cbFiber[t] \in Fibers \cup {None}
      BY DEF Shape, TypeOK
    <3> SUFFICES ASSUME cbFiber'[t] # None PROVE OwnCbOK(t)'
      BY DEF OwnCbOK
    <3>2. cbFiber'[t] = cbFiber[t] /\ cbFiber[t] \in Fibers /\ OwnCbOK(t)
      BY <3>1 DEF CarryInv
    <3>3. \A u \in Threads : cbFiber'[u] = cbFiber'[t] => u = t
      BY <3>2 DEF OwnCbOK
    <3>4. ft'[t].fiber # None \/ pc'[t] \notin InHand => ~Carried(cbFiber[t])
      BY <3>2 DEF OwnCbOK
    <3>5. ~Carried(cbFiber[t]) => ~Carried(cbFiber[t])'
      <4>1. PICK c \in Fibers : c = cbFiber[t]
        BY <3>2
      <4>2. ~Carried(c) => ~Carried(c)'
        OBVIOUS
      <4>3. (Carried(cbFiber[t]) <=> Carried(c)) /\ (Carried(cbFiber[t])' <=> Carried(c)')
        BY <3>2, <4>1 DEF Carried, Carries
      <4> QED
        BY <4>2, <4>3
    <3> QED
      BY <3>2, <3>3, <3>4, <3>5 DEF OwnCbOK
  <2> QED
    BY <2>1, <2>2
<1>5. done' \subseteq submitted'
  BY DEF CarryInv
<1> QED
  BY <1>2, <1>3, <1>4, <1>5 DEF CarryInv

LEMMA OthersCarry ==
  ASSUME NEW t \in Threads, Alone(t)
  PROVE  \A f : \A u \in Threads \ {t} : Carries(u, f)' <=> Carries(u, f)
BY DEF Alone, Carries

LEMMA CarryTake ==
  ASSUME Shape, CarryInv, NEW t \in Threads, Take(t)
  PROVE  CarryInv' /\ CarryStays({})
<1>1. queue \in Seq(Entry) /\ ft \in [Threads -> Entry] /\ LocalOK(t)
  BY DEF Shape, TypeOK
<1>2. /\ Alone(t) /\ pc[t] = "pop" /\ pc'[t] = "dispatch"
      /\ UNCHANGED <<fiber, cbFiber, submitted, done, waiting>>
  BY TakeDoes
<1>3. PICK i \in 1..Len(queue) : queue' = RemoveAt(queue, i) /\ ft'[t] = queue[i]
  BY TakeDoes
<1> DEFINE g == queue[i].fiber
           j == queue[i].cb
<1>4. /\ g \in FibersIn(queue) /\ j \in JobsIn(queue)
      /\ j \in Jobs \cup {None} /\ g \in Fibers \cup {None}
      /\ FibersIn(queue') \subseteq FibersIn(queue)
      /\ FibersIn(queue) \subseteq FibersIn(queue') \cup {g}
      /\ JobsIn(queue') \subseteq JobsIn(queue)
      /\ JobsIn(queue) \subseteq JobsIn(queue') \cup {j}
      /\ \A f : OnceFiber(queue, f) => /\ OnceFiber(queue', f)
                                       /\ f = g => f \notin FibersIn(queue')
      /\ \A k : OnceJob(queue, k) => /\ OnceJob(queue', k)
                                     /\ k = j => k \notin JobsIn(queue')
  BY <1>1, <1>3, ReadQueue, RemoveQueue
<1>5. /\ \A u \in Threads \ {t} : ft'[u] = ft[u] /\ pc'[u] = pc[u]
      /\ \A f : ~Carries(t, f) /\ (Carries(t, f)' <=> f = g)
      /\ \A f : \A u \in Threads \ {t} : Carries(u, f)' <=> Carries(u, f)
  BY <1>2, <1>3 DEF Alone, Carries
<1>6. ft'[t].cb = j /\ ft'[t].fiber = g /\ ft[t].cb = None
  BY <1>1, <1>2, <1>3 DEF LocalOK, InHand, OnStack, NoEntry
<1> HIDE DEF g, j
<1>7. \A f \in Fibers : OneBaton(f) /\ Unended(f) /\ fiber[f].state # "READY"
  BY DEF CarryInv
<1>8. \A f \in Fibers : OneBaton(f)' /\ (Carried(f)' <=> Carried(f))
  <2> SUFFICES ASSUME NEW f \in Fibers PROVE OneBaton(f)' /\ (Carried(f)' <=> Carried(f))
    OBVIOUS
  <2>1. OneBaton(f)
    BY <1>7
  <2>2. CASE f = g
    BY <1>2, <1>4, <1>5, <2>1, <2>2 DEF OneBaton, Carried
  <2>3. CASE f # g
    BY <1>2, <1>4, <1>5, <2>1, <2>3 DEF OneBaton, Carried
  <2> QED
    BY <2>2, <2>3
<1>9. \A k \in Pending' : k \in Pending
  <2>1. Pending' = JobsIn(queue') \cup {ft'[u].cb : u \in Threads}
    BY DEF Pending
  <2>2. \A u \in Threads : ft'[u].cb \in Pending
    BY <1>4, <1>5, <1>6 DEF Pending
  <2> QED
    BY <1>4, <2>1, <2>2 DEF Pending
<1>10. \A f \in Fibers : Unended(f)'
  BY <1>2, <1>7, <1>8, <1>9 DEF Unended
<1>11. \A k \in JobsIn(queue') \ {None} : EntryJobOK(k)'
  <2> SUFFICES ASSUME NEW k \in JobsIn(queue') \ {None} PROVE EntryJobOK(k)'
    OBVIOUS
  <2>1. EntryJobOK(k) /\ k # j
    BY <1>4 DEF CarryInv, EntryJobOK
  <2> QED
    BY <1>2, <1>4, <1>5, <1>6, <2>1 DEF EntryJobOK
<1>12. \A u \in Threads : LocalJobOK(u)'
  <2>1. j # None => EntryJobOK(j)
    BY <1>4 DEF CarryInv
  <2> QED
    BY <1>2, <1>5, <1>6, <2>1 DEF CarryInv, LocalJobOK, EntryJobOK
<1>13. ASSUME NEW u \in Threads PROVE OwnCbOK(u)'
  <2> SUFFICES ASSUME cbFiber[u] # None PROVE OwnCbOK(u)'
    BY <1>2 DEF OwnCbOK
  <2>1. PICK c \in Fibers : c = cbFiber[u]
    BY DEF Shape, TypeOK
  <2>2. OwnCbOK(u) /\ (Carried(c)' <=> Carried(c)) /\ cbFiber' = cbFiber
    BY <1>2, <1>8 DEF CarryInv
  <2>3. ft[t].fiber # None \/ pc[t] \notin InHand
    BY <1>2 DEF InHand, OnStack
  <2>4. ft'[u].fiber # None \/ pc'[u] \notin InHand => ft[u].fiber # None \/ pc[u] \notin InHand
    BY <1>5, <2>3
  <2> QED
    BY <2>1, <2>2, <2>4 DEF OwnCbOK
<1>14. \A f \in Fibers : fiber'[f].state # "READY"
  BY <1>2, <1>7
<1> QED
  BY <1>2, <1>8, <1>10, <1>11, <1>12, <1>13, <1>14 DEF CarryInv, CarryStays

LEMMA CarryCallback ==
  ASSUME Shape, CarryInv, NEW t \in Threads, RunCallback(t)
  PROVE  CarryInv' /\ CarryStays({})
<1>1. PICK c \in Fibers : c = cbFiber'[t]
  BY CallbackDoes
<1> DEFINE j == ft[t].cb
<1>2. /\ Alone(t) /\ pc[t] = "dispatch" /\ pc'[t] = "body"
      /\ UNCHANGED <<queue, submitted, done, waiting>>
      /\ j # None /\ ft[t].fiber = None /\ ft'[t] = NoEntry
      /\ cur'[t] = c /\ ((cbFiber[t] = None /\ c \in FreeFibers) \/ c = cbFiber[t])
      /\ Rewritten({c}) /\ fiber'[c] = [state |-> "EXEC", cb |-> j, saved |-> FALSE]
  BY <1>1, CallbackDoes
<1>3. /\ ft'[t].cb = None /\ ft'[t].fiber = None
      /\ \A u \in Threads \ {t} : ft'[u] = ft[u] /\ pc'[u] = pc[u] /\ cbFiber'[u] = cbFiber[u]
      /\ \A f \in Fibers : ~Carries(t, f) /\ (Carries(t, f)' <=> f = c)
      /\ \A f : \A u \in Threads \ {t} : Carries(u, f)' <=> Carries(u, f)
  BY <1>2, NoneIsNothing DEF Alone, Carries, NoEntry
<1>4. ~Carried(c) /\ \A u \in Threads \ {t} : cbFiber[u] # c
  <2>1. CASE c \in FreeFibers
    BY <1>3, <2>1, FreeIsNowhere DEF Carried, Carries
  <2>2. CASE c = cbFiber[t]
    <3>1. OwnCbOK(t) /\ pc[t] \notin InHand /\ c # None
      BY <1>2, NoneIsNothing DEF CarryInv, InHand, OnStack
    <3> QED
      BY <2>2, <3>1 DEF OwnCbOK
  <2> QED
    BY <1>2, <2>1, <2>2
<1>5. LocalJobOK(t) /\ j \in Pending
  BY DEF CarryInv, Pending
<1> HIDE DEF j
<1>6. \A f \in Fibers : OneBaton(f)' /\ (Carried(f)' <=> Carried(f) \/ f = c)
  <2> SUFFICES ASSUME NEW f \in Fibers
               PROVE  OneBaton(f)' /\ (Carried(f)' <=> Carried(f) \/ f = c)
    OBVIOUS
  <2>1. OneBaton(f)
    BY DEF CarryInv
  <2> QED
    BY <1>2, <1>3, <1>4, <2>1 DEF OneBaton, Carried
<1>7. /\ j \in submitted' \ done' /\ j \notin Pending'
      /\ \A k \in Pending' : k \in Pending \/ k = None
  <2>1. \A u \in Threads : ft'[u].cb # j
    BY <1>2, <1>3, <1>5 DEF LocalJobOK, j
  <2>2. j \notin JobsIn(queue)
    BY <1>2 DEF CarryInv, EntryJobOK, j
  <2>3. Pending' = JobsIn(queue') \cup {ft'[u].cb : u \in Threads}
    BY DEF Pending
  <2>4. j \in submitted \ done
    BY <1>2, <1>5 DEF LocalJobOK, j
  <2>5. \A u \in Threads : ft'[u].cb \in Pending \cup {None}
    BY <1>3 DEF Pending
  <2> QED
    BY <1>2, <2>1, <2>2, <2>3, <2>4, <2>5 DEF Pending
<1>8. ASSUME NEW f \in Fibers
      PROVE  Unended(f)' /\ fiber'[f].state # "READY"
  <2>1. CASE f = c
    <3>1. \A g \in Fibers : Carried(g)' /\ fiber'[g].cb = j => g = c
      <4> SUFFICES ASSUME NEW g \in Fibers, Carried(g), g # c PROVE fiber'[g].cb # j
        BY <1>6
      <4>1. Unended(g) /\ fiber'[g] = fiber[g]
        BY <1>2 DEF CarryInv, Rewritten
      <4> QED
        BY <1>5, <4>1 DEF Unended
    <3> QED
      BY <1>2, <1>7, <2>1, <3>1 DEF Unended, Going
  <2>2. CASE f # c
    <3>1. fiber'[f] = fiber[f] /\ Unended(f) /\ fiber[f].state # "READY"
      BY <1>2, <2>2 DEF CarryInv, Rewritten
    <3> SUFFICES ASSUME Carried(f)' PROVE Unended(f)'
      BY <3>1 DEF Unended
    <3>2. /\ Carried(f) /\ fiber[f].state \in Going /\ fiber[f].cb \in submitted \ done
          /\ fiber[f].cb \notin Pending /\ fiber[f].cb # None
          /\ \A g \in Fibers : Carried(g) /\ fiber[g].cb = fiber[f].cb => g = f
      BY <1>6, <2>2, <3>1, NoneIsNothing DEF Unended, Shape, TypeOK
    <3>3. fiber[f].cb # j /\ fiber[f].cb \notin Pending'
      BY <1>5, <1>7, <3>2
    <3>4. \A g \in Fibers : Carried(g)' /\ fiber'[g].cb = fiber[f].cb => g = f
      <4> SUFFICES ASSUME NEW g \in Fibers, Carried(g)', fiber'[g].cb = fiber[f].cb PROVE g = f
        OBVIOUS
      <4>1. g # c
        BY <1>2, <3>3
      <4>2. Carried(g) /\ fiber'[g] = fiber[g]
        BY <1>2, <1>6, <4>1 DEF Rewritten
      <4> QED
        BY <3>2, <4>2
    <3> QED
      BY <1>2, <3>1, <3>2, <3>3, <3>4 DEF Unended
  <2> QED
    BY <2>1, <2>2
<1>9. \A k \in JobsIn(queue') \ {None} : EntryJobOK(k)'
  BY <1>2, <1>3 DEF CarryInv, EntryJobOK
<1>10. \A u \in Threads : LocalJobOK(u)'
  BY <1>2, <1>3 DEF CarryInv, LocalJobOK
<1>11. ASSUME NEW u \in Threads PROVE OwnCbOK(u)'
  <2>1. CASE u = t
    <3>1. pc'[t] \in InHand
      BY <1>2 DEF InHand, OnStack
    <3> QED
      BY <1>1, <1>3, <1>4, <2>1, <3>1 DEF OwnCbOK
  <2>2. CASE u # t
    <3> SUFFICES ASSUME cbFiber[u] # None PROVE OwnCbOK(u)'
      BY <1>3, <2>2 DEF OwnCbOK
    <3>1. PICK d \in Fibers : d = cbFiber[u]
      BY DEF Shape, TypeOK
    <3>2. OwnCbOK(u) /\ cbFiber'[u] = d /\ d # c
      BY <1>3, <1>4, <2>2, <3>1 DEF CarryInv
    <3>3. Carried(d)' <=> Carried(d)
      BY <1>6, <3>2
    <3> QED
      BY <1>1, <1>3, <2>2, <3>1, <3>2, <3>3 DEF OwnCbOK
  <2> QED
    BY <2>1, <2>2
<1>12. CarryStays({})
  BY <1>2, <1>4, <1>6 DEF CarryStays, Rewritten
<1> QED
  BY <1>2, <1>6, <1>8, <1>9, <1>10, <1>11, <1>12 DEF CarryInv

(* The steps of run() that neither take an entry nor start a callback.       *)
LEMMA CarryRun ==
  ASSUME Shape, CarryInv, NEW t \in Threads, Run(t)
  PROVE  CarryInv' /\ CarryStays({})
<1>1. /\ queue \in Seq(Entry) /\ LocalOK(t)
      /\ \A f \in Fibers : OneBaton(f) /\ Unended(f) /\ fiber[f].state # "READY"
      /\ \A f \in Fibers : fiber[f].cb \in Jobs \cup {None}
  BY DEF Shape, TypeOK, CarryInv
<1>2. CASE EnterIdle(t) \/ Exit(t) \/ IdleStep(t) \/ Deactivate(t) \/ Suspend(t) \/ DropFinished(t)
           \/ ResumeFiber(t)
  <2>1. /\ Alone(t) /\ UNCHANGED <<queue, cbFiber, submitted, done, waiting>>
        /\ ft'[t] \in {ft[t], NoEntry}
        /\ \/ pc[t] \notin InHand /\ (ft'[t] = ft[t] \/ pc'[t] = "pop")
           \/ pc'[t] \in InHand /\ ft'[t] = ft[t]
        /\ \A f \in Fibers : /\ fiber'[f].cb = fiber[f].cb
                             /\ fiber'[f].state \in {fiber[f].state, "EXEC"}
        /\ pc'[t] # "dispatch" /\ (pc'[t] = "body" => Carries(t, cur'[t]))
    <3>1. CASE EnterIdle(t) \/ Exit(t) \/ IdleStep(t) \/ Deactivate(t) \/ Suspend(t)
      <4>1. /\ Alone(t) /\ UNCHANGED <<queue, fiber, ft, cbFiber, submitted, done, waiting>>
            /\ \/ pc[t] \in {"pop", "idle"} /\ pc'[t] \in {"idle", "exited", "pop"}
               \/ pc[t] = "back" /\ pc'[t] = "settle"
               \/ pc[t] = "settle" /\ pc'[t] = "sethold"
        BY <3>1, PlainDoes
      <4> QED
        BY <4>1 DEF InHand, OnStack
    <3>2. CASE DropFinished(t)
      <4>1. /\ Alone(t) /\ pc[t] = "dispatch" /\ pc'[t] = "pop"
            /\ UNCHANGED <<queue, fiber, cbFiber, submitted, done, waiting>> /\ ft'[t] = NoEntry
        BY <3>2, DropDoes
      <4> QED
        BY <4>1 DEF InHand, OnStack
    <3>3. CASE ResumeFiber(t)
      <4>1. /\ Alone(t) /\ pc[t] = "dispatch" /\ pc'[t] = "body"
            /\ UNCHANGED <<queue, ft, cbFiber, submitted, done, waiting>>
            /\ ft[t].fiber \in Fibers /\ cur'[t] = ft[t].fiber /\ Rewritten({ft[t].fiber})
            /\ fiber'[ft[t].fiber].state = "EXEC"
            /\ fiber'[ft[t].fiber].cb = fiber[ft[t].fiber].cb
        BY <3>3, ResumeDoes
      <4> QED
        BY <4>1 DEF Carries, InHand, OnStack, Rewritten
    <3> QED
      BY <1>2, <3>1, <3>2, <3>3
  <2>2. \A f \in Fibers : \A u \in Threads : Carries(u, f)' => Carries(u, f)
    BY <2>1, OthersCarry DEF Carries
  <2>3. \A f \in Fibers : OneBaton(f)' /\ (Carried(f)' => Carried(f))
    BY <1>1, <2>1, <2>2, BatonKeeps
  <2>4. \A u \in Threads : ft'[u].cb \in {ft[u].cb, None}
    BY <2>1 DEF Alone, NoEntry
  <2>5. \A u \in Threads : ft'[u].fiber # None \/ pc'[u] \notin InHand
                             => ft[u].fiber # None \/ pc[u] \notin InHand
    BY <2>1 DEF Alone
  <2>6. CarryInv'
    <3>1. \A f \in Fibers : fiber'[f].state # "READY"
      BY <1>1, <2>1
    <3>2. \A f \in Fibers : Carried(f)' => /\ fiber'[f].cb = fiber[f].cb
                                           /\ fiber[f].cb \notin done'
                                           /\ fiber'[f].state \in Going
      BY <1>1, <2>1, <2>3 DEF Unended, Going
    <3>3. /\ JobsIn(queue') \subseteq JobsIn(queue) \cup {None}
          /\ \A j \in Jobs : OnceJob(queue, j) => OnceJob(queue', j)
      BY <2>1
    <3> QED
      BY <2>1, <2>3, <2>4, <2>5, <3>1, <3>2, <3>3, CarryKeeps
  <2>7. CarryStays({})
    <3> SUFFICES ASSUME NEW f \in Fibers, Carried(f) PROVE Carried(f)'
      BY <2>1 DEF CarryStays
    <3>1. CASE DropFinished(t)
      <4>1. /\ pc[t] = "dispatch" /\ Finished(ft[t].fiber) /\ Alone(t)
            /\ UNCHANGED <<queue, waiting>>
        BY <3>1, DropDoes
      <4>2. ~Carries(t, f)
        BY <1>1, <4>1 DEF Carries, Finished, Unended, Going
      <4> QED
        BY <4>1, <4>2, OthersCarry DEF Carried
    <3>2. CASE ResumeFiber(t)
      <4>1. /\ pc[t] = "dispatch" /\ pc'[t] = "body" /\ cur'[t] = ft[t].fiber
            /\ \A u \in Threads \ {t} : Carries(u, f)' <=> Carries(u, f)
        BY <2>1, <3>2, ResumeDoes, OthersCarry
      <4>2. Carries(t, f) => Carries(t, f)'
        BY <4>1 DEF Carries
      <4> QED
        BY <2>1, <4>1, <4>2 DEF Carried
    <3>3. CASE EnterIdle(t) \/ Exit(t) \/ IdleStep(t) \/ Deactivate(t) \/ Suspend(t)
      BY <2>1, <3>3, PlainDoes, OthersCarry DEF Carried, Carries
    <3> QED
      BY <1>2, <3>1, <3>2, <3>3
  <2> QED
    BY <2>6, <2>7
<1>3. CASE Reschedule(t) \/ Retire(t) \/ SetHold(t)
  <2>1. PICK h \in Fibers : h = Handled(t)
    BY <1>3, PutAwayDoes
  <2>2. /\ Alone(t) /\ pc[t] \in {"settle", "sethold"} /\ pc'[t] = "pop"
        /\ UNCHANGED <<submitted, done, waiting>> /\ ft'[t] = NoEntry
        /\ \/ /\ Finished(h) /\ UNCHANGED <<queue, cbFiber>>
              /\ ft[t].fiber # None /\ fiber' = fiber
           \/ /\ Finished(h) /\ UNCHANGED <<queue, cbFiber>> /\ ft[t].fiber = None
              /\ Rewritten({h}) /\ fiber'[h] = [state |-> "INIT", cb |-> None, saved |-> TRUE]
           \/ /\ UNCHANGED queue /\ Rewritten({h}) /\ fiber'[h].state = "HOLD"
              /\ fiber'[h].cb = fiber[h].cb
              /\ cbFiber'[t] = IF ft[t].fiber = None THEN None ELSE cbFiber[t]
    BY <1>1, <1>3, <2>1, PutAwayDoes
  <2>3. \A f : \A u \in Threads : Carries(u, f)' <=> Carries(u, f)
    BY <2>2, OthersCarry DEF Carries
  <2>4. \A f \in Fibers : OneBaton(f)' /\ (Carried(f)' <=> Carried(f))
    <3>1. \A f \in Fibers : OneBaton(f)' /\ (Carried(f)' => Carried(f))
      BY <1>1, <2>2, <2>3, BatonKeeps
    <3>2. \A f \in Fibers : Carried(f) => Carried(f)'
      BY <2>2, <2>3 DEF Carried
    <3> QED
      BY <3>1, <3>2
  <2>5. Carried(h) => ~Finished(h)
    BY <1>1 DEF Unended, Going, Finished
  <2>6. \A f \in Fibers : Carried(f) => /\ fiber'[f].cb = fiber[f].cb
                                        /\ fiber'[f].state \in Going
    BY <1>1, <2>2, <2>5 DEF Rewritten, Unended, Going
  <2>7. \A u \in Threads :
           /\ cbFiber'[u] \in {cbFiber[u], None}
           /\ (ft'[u].fiber # None \/ pc'[u] \notin InHand) /\ cbFiber'[u] # None
                => ft[u].fiber # None \/ pc[u] \notin InHand \/ ~Carried(cbFiber[u])
    <3>1. \A u \in Threads \ {t} : ft'[u] = ft[u] /\ pc'[u] = pc[u] /\ cbFiber'[u] = cbFiber[u]
      BY <2>2 DEF Alone
    <3>2. ft[t].fiber = None => h = cbFiber[t]
      BY <2>1 DEF Handled
    <3> QED
      BY <2>2, <2>5, <3>1, <3>2
  <2>8. \A u \in Threads : ft'[u].cb \in {ft[u].cb, None}
    BY <2>2 DEF Alone, NoEntry
  <2>9. \A f \in Fibers : fiber'[f].state # "READY"
    BY <1>1, <2>2 DEF Rewritten
  <2>10. CarryInv'
    <3>1. \A f \in Fibers : Carried(f)' => /\ fiber'[f].cb = fiber[f].cb
                                           /\ fiber[f].cb \notin done'
                                           /\ fiber'[f].state \in Going
      BY <1>1, <2>2, <2>4, <2>6 DEF Unended
    <3>2. /\ JobsIn(queue') \subseteq JobsIn(queue) \cup {None}
          /\ \A j \in Jobs : OnceJob(queue, j) => OnceJob(queue', j)
          /\ \A j \in Pending \ {None} : j \in done' => j \in done
          /\ submitted' = submitted /\ \A j \in done' : j \in done \cup submitted
      BY <2>2
    <3> QED
      BY <2>4, <2>7, <2>8, <2>9, <3>1, <3>2, CarryKeeps
  <2> QED
    BY <2>4, <2>6, <2>10 DEF CarryStays
<1> QED
  BY <1>2, <1>3, CarryTake, CarryCallback DEF Run

(* A callback that leaves its stack for a while, or for good.                *)
LEMMA CarryYield ==
  ASSUME Shape, CarryInv, NEW t \in Threads, YieldToHold(t) \/ Return(t) \/ Throw(t) \/ SwapOut(t)
  PROVE  CarryInv' /\ CarryStays(IF pc[t] = "body" THEN {cur[t]} ELSE {})
<1>1. PICK h \in Fibers : h = cur[t]
  BY YieldDoes, SwapOutDoes
<1>2. /\ Alone(t) /\ UNCHANGED <<queue, ft, cbFiber, submitted, waiting>> /\ Rewritten({h})
      /\ pc[t] \in InHand /\ pc'[t] \in {"yield", "back"}
      /\ \/ /\ pc[t] # "body" /\ fiber'[h].cb = fiber[h].cb /\ UNCHANGED done
            /\ fiber'[h].state \in {fiber[h].state, "HOLD"}
         \/ /\ pc[t] = "body" /\ fiber'[h].state \in {"TERM", "EXCEPT"}
            /\ done' = done \cup ({fiber[h].cb} \ {None})
  <2>1. CASE SwapOut(t)
    BY <1>1, <2>1, SwapOutDoes DEF InHand, OnStack
  <2>2. CASE YieldToHold(t)
    BY <1>1, <2>2, YieldDoes DEF InHand, OnStack, YieldToHold, GoTo
  <2>3. CASE Return(t) \/ Throw(t)
    <3>1. pc[t] = "body"
      BY <2>3 DEF Return, Throw, GoTo
    <3>2. /\ Alone(t) /\ UNCHANGED <<queue, ft, cbFiber, submitted, waiting>> /\ Rewritten({h})
          /\ pc'[t] = "yield"
      BY <1>1, <2>3, YieldDoes
    <3>3. /\ fiber'[h].state \in {"TERM", "EXCEPT"}
          /\ done' = done \cup ({fiber[h].cb} \ {None})
      BY <1>1, <2>3, NoneIsNothing DEF Return, Throw, Shape, TypeOK
    <3> QED
      BY <3>1, <3>2, <3>3 DEF InHand, OnStack
  <2> QED
    BY <2>1, <2>2, <2>3
<1>3. /\ \A f \in Fibers : OneBaton(f) /\ Unended(f) /\ fiber[f].state # "READY"
      /\ \A f \in Fibers : fiber[f].cb \in Jobs \cup {None}
  BY DEF CarryInv, Shape, TypeOK
<1>4. \A f \in Fibers : /\ ~Carries(t, f)' /\ (Carries(t, f) => pc[t] = "body" /\ f = h)
                        /\ \A u \in Threads \ {t} : Carries(u, f)' <=> Carries(u, f)
  BY <1>1, <1>2, OthersCarry DEF Carries, InHand, OnStack
<1>5. \A f \in Fibers : OneBaton(f)' /\ (Carried(f)' => Carried(f))
  BY <1>2, <1>3, <1>4, BatonKeeps
<1>6. \A f \in Fibers : Carried(f) /\ ~(pc[t] = "body" /\ f = h) => Carried(f)'
  BY <1>2, <1>4 DEF Carried
<1>7. pc[t] = "body" => Carries(t, h) /\ Carried(h) /\ ~Carried(h)'
  <2> SUFFICES ASSUME pc[t] = "body" PROVE Carries(t, h) /\ Carried(h) /\ ~Carried(h)'
    OBVIOUS
  <2>1. Carries(t, h)
    BY <1>1 DEF Carries
  <2>2. h \notin FibersIn(queue) \cup waiting /\ \A u \in Threads \ {t} : ~Carries(u, h)
    BY <1>3, <2>1 DEF OneBaton
  <2> QED
    BY <1>2, <1>4, <2>1, <2>2 DEF Carried
<1>8. \A f \in Fibers : Carried(f)' => /\ fiber'[f].cb = fiber[f].cb
                                       /\ fiber[f].cb \notin done'
                                       /\ fiber'[f].state \in Going
  <2> SUFFICES ASSUME NEW f \in Fibers, Carried(f)'
               PROVE  /\ fiber'[f].cb = fiber[f].cb /\ fiber[f].cb \notin done'
                      /\ fiber'[f].state \in Going
    OBVIOUS
  <2>1. Carried(f) /\ Unended(f) /\ ~(pc[t] = "body" /\ f = h)
    BY <1>3, <1>5, <1>7
  <2>2. fiber'[f].cb = fiber[f].cb /\ fiber'[f].state \in Going
    BY <1>2, <2>1 DEF Unended, Going, Rewritten
  <2>3. fiber[f].cb \notin done'
    <3>1. CASE pc[t] = "body"
      <4>1. fiber[f].cb # fiber[h].cb
        BY <1>7, <2>1, <3>1 DEF Unended
      <4> QED
        BY <1>2, <2>1, <3>1, <4>1 DEF Unended
    <3>2. CASE pc[t] # "body"
      BY <1>2, <2>1, <3>2 DEF Unended
    <3> QED
      BY <3>1, <3>2
  <2> QED
    BY <2>2, <2>3
<1>9. \A j \in Pending \ {None} : j \in done' => j \in done
  <2>1. pc[t] = "body" => fiber[h].cb \notin Pending
    BY <1>3, <1>7 DEF Unended
  <2> QED
    BY <1>2, <2>1
<1>10. CarryInv'
  <2>0. \A j \in done' : j \in done \cup submitted
    BY <1>2, <1>3, <1>7 DEF Unended
  <2>1. \A f \in Fibers : fiber'[f].state # "READY"
    BY <1>2, <1>3 DEF Rewritten
  <2>2. /\ JobsIn(queue') \subseteq JobsIn(queue) \cup {None}
        /\ \A j \in Jobs : OnceJob(queue, j) => OnceJob(queue', j)
        /\ \A u \in Threads : ft'[u].cb \in {ft[u].cb, None}
    BY <1>2
  <2>3. \A u \in Threads :
           /\ cbFiber'[u] \in {cbFiber[u], None}
           /\ (ft'[u].fiber # None \/ pc'[u] \notin InHand) /\ cbFiber'[u] # None
                => ft[u].fiber # None \/ pc[u] \notin InHand \/ ~Carried(cbFiber[u])
    BY <1>2 DEF Alone, InHand, OnStack
  <2> QED
    BY <1>2, <1>5, <1>8, <1>9, <2>0, <2>1, <2>2, <2>3, CarryKeeps
<1>11. CarryStays(IF pc[t] = "body" THEN {cur[t]} ELSE {})
  BY <1>1, <1>2, <1>6 DEF CarryStays, Rewritten
<1> QED
  BY <1>10, <1>11

(* A fiber that leaves itself with a waker.                                  *)
LEMMA CarryWait ==
  ASSUME Shape, CarryInv, NEW t \in Threads, Wait(t)
  PROVE  CarryInv' /\ CarryStays({}) /\ cur[t] \in Fibers /\ cur[t] \notin waiting
         /\ waiting' = waiting \cup {cur[t]} /\ UNCHANGED <<fiber, done>> /\ Carries(t, cur[t])
<1>1. PICK h \in Fibers : h = cur[t]
  BY LeaveDoes
<1>2. /\ Alone(t) /\ pc[t] = "body" /\ pc'[t] = "hold"
      /\ UNCHANGED <<queue, fiber, ft, cbFiber, submitted, done>> /\ waiting' = waiting \cup {h}
  BY <1>1, LeaveDoes DEF Wait
<1>3. \A f \in Fibers : OneBaton(f) /\ Unended(f) /\ fiber[f].state # "READY"
  BY DEF CarryInv
<1>4. \A f \in Fibers : /\ ~Carries(t, f)' /\ (Carries(t, f) <=> f = h)
                        /\ \A u \in Threads \ {t} : Carries(u, f)' <=> Carries(u, f)
  BY <1>1, <1>2, OthersCarry DEF Carries
<1>5. h \notin FibersIn(queue) \cup waiting /\ \A u \in Threads \ {t} : ~Carries(u, h)
  BY <1>3, <1>4 DEF OneBaton
<1>6. \A f \in Fibers : OneBaton(f)' /\ (Carried(f)' <=> Carried(f))
  <2> SUFFICES ASSUME NEW f \in Fibers PROVE OneBaton(f)' /\ (Carried(f)' <=> Carried(f))
    OBVIOUS
  <2>1. OneBaton(f)
    BY <1>3
  <2> QED
    BY <1>2, <1>4, <1>5, <2>1 DEF OneBaton, Carried
<1>7. CarryInv'
  <2>1. \A f \in Fibers : fiber'[f].state # "READY"
    BY <1>2, <1>3
  <2>2. \A f \in Fibers : Carried(f)' => /\ fiber'[f].cb = fiber[f].cb
                                         /\ fiber[f].cb \notin done'
                                         /\ fiber'[f].state \in Going
    BY <1>2, <1>3, <1>6 DEF Unended
  <2>3. /\ JobsIn(queue') \subseteq JobsIn(queue) \cup {None}
        /\ \A j \in Jobs : OnceJob(queue, j) => OnceJob(queue', j)
        /\ \A u \in Threads : ft'[u].cb \in {ft[u].cb, None}
        /\ \A j \in Pending \ {None} : j \in done' => j \in done
    BY <1>2
  <2>4. \A u \in Threads :
           /\ cbFiber'[u] \in {cbFiber[u], None}
           /\ (ft'[u].fiber # None \/ pc'[u] \notin InHand) /\ cbFiber'[u] # None
                => ft[u].fiber # None \/ pc[u] \notin InHand \/ ~Carried(cbFiber[u])
    BY <1>2 DEF Alone, InHand, OnStack
  <2> QED
    BY <1>2, <1>6, <2>1, <2>2, <2>3, <2>4, CarryKeeps
<1> QED
  BY <1>1, <1>2, <1>4, <1>5, <1>6, <1>7 DEF CarryStays

LEMMA StillCarry ==
  ASSUME Still
  PROVE  \A f : \A t \in Threads : Carries(t, f)' <=> Carries(t, f)
BY DEF Still, Carries

LEMMA CarryWake ==
  ASSUME Shape, CarryInv, NEW h \in Fibers, Wake(h)
  PROVE  CarryInv' /\ CarryStays({})
<1>1. /\ UNCHANGED <<fiber, submitted, done>> /\ Still /\ queue \in Seq(Entry)
      /\ queue' = Append(queue, FiberEntry(h, None)) /\ FiberEntry(h, None) \in Entry
      /\ h \in waiting /\ waiting' = waiting \ {h}
  BY RequeueDoes DEF Wake, Shape, TypeOK
<1>2. FiberEntry(h, None).fiber = h /\ FiberEntry(h, None).cb = None
  BY DEF FiberEntry
<1>3. /\ FibersIn(queue') = FibersIn(queue) \cup {h}
      /\ JobsIn(queue') = JobsIn(queue) \cup {None}
      /\ \A f : OnceFiber(queue, f) /\ (f # h \/ f \notin FibersIn(queue)) => OnceFiber(queue', f)
      /\ \A j \in Jobs : OnceJob(queue, j) => OnceJob(queue', j)
  BY <1>1, <1>2, AppendQueue, NoneIsNothing
<1>4. \A f \in Fibers : OneBaton(f) /\ Unended(f) /\ fiber[f].state # "READY"
  BY DEF CarryInv
<1>5. \A f \in Fibers : OneBaton(f)' /\ (Carried(f)' <=> Carried(f))
  <2> SUFFICES ASSUME NEW f \in Fibers PROVE OneBaton(f)' /\ (Carried(f)' <=> Carried(f))
    OBVIOUS
  <2>1. OneBaton(f) /\ \A t \in Threads : Carries(t, f)' <=> Carries(t, f)
    BY <1>1, <1>4, StillCarry
  <2> QED
    BY <1>1, <1>3, <2>1 DEF OneBaton, Carried
<1>6. CarryInv'
  <2>1. \A f \in Fibers : fiber'[f].state # "READY"
    BY <1>1, <1>4
  <2>2. \A f \in Fibers : Carried(f)' => /\ fiber'[f].cb = fiber[f].cb
                                         /\ fiber[f].cb \notin done'
                                         /\ fiber'[f].state \in Going
    BY <1>1, <1>4, <1>5 DEF Unended
  <2>3. \A u \in Threads :
           /\ ft'[u].cb \in {ft[u].cb, None}
           /\ cbFiber'[u] \in {cbFiber[u], None}
           /\ (ft'[u].fiber # None \/ pc'[u] \notin InHand) /\ cbFiber'[u] # None
                => ft[u].fiber # None \/ pc[u] \notin InHand \/ ~Carried(cbFiber[u])
    BY <1>1 DEF Still
  <2> QED
    BY <1>1, <1>3, <1>5, <2>1, <2>2, <2>3, CarryKeeps
<1> QED
  BY <1>1, <1>5, <1>6 DEF CarryStays

LEMMA CarrySubmit ==
  ASSUME Shape, CarryInv, NEW j \in Jobs, NEW p \in Pins,
         Schedule(j, p) \/ \E t \in Threads : Spawn(t, j, p)
  PROVE  CarryInv' /\ CarryStays({})
<1>1. /\ Still /\ UNCHANGED <<done, waiting>> /\ queue \in Seq(Entry)
      /\ j \notin submitted /\ submitted' = submitted \cup {j} /\ j # None
      /\ \/ UNCHANGED fiber /\ queue' = Append(queue, CbEntry(j, p)) /\ CbEntry(j, p) \in Entry
         \/ \E f \in FreeFibers :
              /\ Rewritten({f}) /\ fiber'[f] = [state |-> "INIT", cb |-> j, saved |-> TRUE]
              /\ queue' = Append(queue, FiberEntry(f, p)) /\ FiberEntry(f, p) \in Entry
  BY SubmitDoes, NoneIsNothing DEF Shape, TypeOK
<1>2. /\ \A f \in Fibers : OneBaton(f) /\ Unended(f) /\ fiber[f].state # "READY"
      /\ \A t \in Threads : LocalJobOK(t) /\ OwnCbOK(t)
  BY DEF CarryInv
<1>3. /\ ft' = ft /\ pc' = pc /\ cbFiber' = cbFiber
      /\ \A f : \A t \in Threads : Carries(t, f)' <=> Carries(t, f)
  BY <1>1, StillCarry DEF Still
<1>4. j \notin Pending /\ \A k \in Pending \ {None} : k \in submitted \ done
  <2>1. \A k \in JobsIn(queue) \ {None} : k \in submitted \ done
    BY DEF CarryInv, EntryJobOK
  <2>2. \A t \in Threads : ft[t].cb # None => ft[t].cb \in submitted \ done
    BY <1>2 DEF LocalJobOK
  <2> QED
    BY <1>1, <2>1, <2>2 DEF Pending
<1>5. j \notin done
  <2>1. ASSUME j \in done PROVE FALSE
    <3>1. done \subseteq submitted
      BY DEF CarryInv
    <3> QED
      BY <1>1, <2>1, <3>1
  <2> QED
    BY <2>1
<1>6. CASE UNCHANGED fiber /\ queue' = Append(queue, CbEntry(j, p)) /\ CbEntry(j, p) \in Entry
  <2>1. CbEntry(j, p).fiber = None /\ CbEntry(j, p).cb = j
    BY DEF CbEntry
  <2>2. /\ FibersIn(queue') = FibersIn(queue) \cup {None}
        /\ JobsIn(queue') = JobsIn(queue) \cup {j}
        /\ \A f \in Fibers : OnceFiber(queue, f) => OnceFiber(queue', f)
        /\ \A k : OnceJob(queue, k) /\ (k # j \/ k \notin JobsIn(queue)) => OnceJob(queue', k)
    BY <1>1, <1>6, <2>1, AppendQueue, NoneIsNothing
  <2>3. \A f \in Fibers : OneBaton(f)' /\ (Carried(f)' <=> Carried(f))
    <3> SUFFICES ASSUME NEW f \in Fibers PROVE OneBaton(f)' /\ (Carried(f)' <=> Carried(f))
      OBVIOUS
    <3>1. OneBaton(f) /\ f # None
      BY <1>2, NoneIsNothing
    <3> QED
      BY <1>1, <1>3, <2>2, <3>1 DEF OneBaton, Carried
  <2>4. Pending' = Pending \cup {j}
    BY <1>3, <2>2 DEF Pending
  <2>5. \A f \in Fibers : Unended(f)'
    BY <1>1, <1>2, <1>6, <2>3, <2>4 DEF Unended
  <2>6. ASSUME NEW k \in JobsIn(queue') \ {None} PROVE EntryJobOK(k)'
    <3>1. CASE k = j
      <4>1. OnceJob(queue, j) /\ j \notin JobsIn(queue) /\ \A t \in Threads : ft[t].cb # j
        BY <1>4 DEF Pending, OnceJob, JobsIn
      <4> QED
        BY <1>1, <1>3, <1>5, <2>2, <3>1, <4>1 DEF EntryJobOK
    <3>2. CASE k # j
      <4>1. EntryJobOK(k)
        BY <2>2, <3>2 DEF CarryInv
      <4> QED
        BY <1>1, <1>3, <2>2, <3>2, <4>1 DEF EntryJobOK
    <3> QED
      BY <3>1, <3>2
  <2>7. \A t \in Threads : LocalJobOK(t)'
    BY <1>1, <1>2, <1>3 DEF LocalJobOK
  <2>8. ASSUME NEW t \in Threads PROVE OwnCbOK(t)'
    <3>1. cbFiber[t] \in Fibers \cup {None}
      BY DEF Shape, TypeOK
    <3>2. cbFiber[t] # None => (Carried(cbFiber[t])' <=> Carried(cbFiber[t]))
      <4> SUFFICES ASSUME NEW c \in Fibers, c = cbFiber[t]
                   PROVE  Carried(cbFiber[t])' <=> Carried(cbFiber[t])
        BY <3>1
      <4>1. (Carried(cbFiber[t])' <=> Carried(c)') /\ (Carried(cbFiber[t]) <=> Carried(c))
        BY <1>3 DEF Carried, Carries
      <4> QED
        BY <2>3, <4>1
    <3> QED
      BY <1>2, <1>3, <3>2 DEF OwnCbOK
  <2> QED
    BY <1>1, <1>2, <1>5, <1>6, <2>3, <2>5, <2>6, <2>7, <2>8 DEF CarryInv, CarryStays
<1>7. ASSUME NEW g \in FreeFibers, Rewritten({g}),
             fiber'[g] = [state |-> "INIT", cb |-> j, saved |-> TRUE],
             queue' = Append(queue, FiberEntry(g, p)), FiberEntry(g, p) \in Entry
      PROVE  CarryInv' /\ CarryStays({})
  <2>1. /\ g \in Fibers /\ ~Carried(g) /\ g \notin FibersIn(queue) \cup waiting
        /\ \A t \in Threads : cbFiber[t] # g /\ ~Carries(t, g)
    BY FreeIsNowhere DEF Carried, Carries
  <2>2. FiberEntry(g, p).fiber = g /\ FiberEntry(g, p).cb = None
    BY DEF FiberEntry
  <2>3. /\ FibersIn(queue') = FibersIn(queue) \cup {g}
        /\ JobsIn(queue') = JobsIn(queue) \cup {None}
        /\ \A f : OnceFiber(queue, f) => OnceFiber(queue', f)
        /\ \A k \in Jobs : OnceJob(queue, k) => OnceJob(queue', k)
    BY <1>1, <1>7, <2>1, <2>2, AppendQueue, NoneIsNothing
  <2>4. \A f \in Fibers : OneBaton(f)' /\ (Carried(f)' <=> Carried(f) \/ f = g)
    <3> SUFFICES ASSUME NEW f \in Fibers PROVE OneBaton(f)' /\ (Carried(f)' <=> Carried(f) \/ f = g)
      OBVIOUS
    <3>1. OneBaton(f)
      BY <1>2
    <3> QED
      BY <1>1, <1>3, <2>1, <2>3, <3>1 DEF OneBaton, Carried
  <2>5. \A k \in Pending' : k \in Pending \/ k = None
    BY <1>3, <2>3 DEF Pending
  <2>6. ASSUME NEW f \in Fibers PROVE Unended(f)' /\ fiber'[f].state # "READY"
    <3>1. CASE f = g
      <4>1. \A h \in Fibers : Carried(h)' /\ fiber'[h].cb = j => h = g
        <5> SUFFICES ASSUME NEW h \in Fibers, Carried(h), h # g PROVE fiber'[h].cb # j
          BY <2>4
        <5>1. Unended(h) /\ fiber'[h] = fiber[h]
          BY <1>2, <1>7 DEF Rewritten
        <5> QED
          BY <1>1, <5>1 DEF Unended
      <4> QED
        BY <1>1, <1>4, <1>5, <1>7, <2>5, <3>1, <4>1 DEF Unended, Going
    <3>2. CASE f # g
      <4>1. fiber'[f] = fiber[f] /\ Unended(f) /\ fiber[f].state # "READY"
        BY <1>2, <1>7, <3>2 DEF Rewritten
      <4> SUFFICES ASSUME Carried(f)' PROVE Unended(f)'
        BY <4>1 DEF Unended
      <4>2. /\ Carried(f) /\ fiber[f].state \in Going /\ fiber[f].cb \in submitted \ done
            /\ fiber[f].cb \notin Pending /\ fiber[f].cb # None
            /\ \A h \in Fibers : Carried(h) /\ fiber[h].cb = fiber[f].cb => h = f
        BY <2>4, <3>2, <4>1, NoneIsNothing DEF Unended, Shape, TypeOK
      <4>3. \A h \in Fibers : Carried(h)' /\ fiber'[h].cb = fiber[f].cb => h = f
        <5> SUFFICES ASSUME NEW h \in Fibers, Carried(h)', fiber'[h].cb = fiber[f].cb PROVE h = f
          OBVIOUS
        <5>1. h # g
          BY <1>1, <1>7, <4>2
        <5>2. Carried(h) /\ fiber'[h] = fiber[h]
          BY <1>7, <2>4, <5>1 DEF Rewritten
        <5> QED
          BY <4>2, <5>2
      <4> QED
        BY <1>1, <2>5, <4>1, <4>2, <4>3 DEF Unended
    <3> QED
      BY <3>1, <3>2
  <2>7. ASSUME NEW k \in JobsIn(queue') \ {None} PROVE EntryJobOK(k)'
    <3>1. EntryJobOK(k) /\ k \in Jobs
      BY <1>1, <2>3, ReadQueue DEF CarryInv
    <3> QED
      BY <1>1, <1>3, <2>3, <3>1 DEF EntryJobOK
  <2>8. \A t \in Threads : LocalJobOK(t)'
    BY <1>1, <1>2, <1>3 DEF LocalJobOK
  <2>9. ASSUME NEW t \in Threads PROVE OwnCbOK(t)'
    <3>1. cbFiber[t] \in Fibers \cup {None}
      BY DEF Shape, TypeOK
    <3>2. cbFiber[t] # None => (Carried(cbFiber[t])' <=> Carried(cbFiber[t]))
      <4> SUFFICES ASSUME NEW c \in Fibers, c = cbFiber[t]
                   PROVE  Carried(cbFiber[t])' <=> Carried(cbFiber[t])
        BY <3>1
      <4>1. (Carried(cbFiber[t])' <=> Carried(c)') /\ (Carried(cbFiber[t]) <=> Carried(c))
        BY <1>3 DEF Carried, Carries
      <4> QED
        BY <2>1, <2>4, <4>1
    <3> QED
      BY <1>2, <1>3, <3>2 DEF OwnCbOK
  <2>10. CarryStays({})
    BY <1>7, <2>1, <2>4 DEF CarryStays, Rewritten
  <2> QED
    BY <1>1, <1>5, <2>4, <2>6, <2>7, <2>8, <2>9, <2>10 DEF CarryInv
<1> QED
  BY <1>1, <1>6, <1>7

LEMMA CarryQuiet ==
  ASSUME Shape, CarryInv, Main \/ Quiet
  PROVE  CarryInv' /\ CarryStays({}) /\ UNCHANGED waiting
<1>1. /\ UNCHANGED <<queue, fiber, ft, cbFiber, cur, submitted, done, waiting>>
      /\ \A t \in Threads : pc'[t] = pc[t] \/ (pc[t] = "off" /\ pc'[t] = "pop")
  BY MainDoes DEF Quiet
<1>2. \A f \in Fibers : OneBaton(f) /\ Unended(f) /\ fiber[f].state # "READY"
  BY DEF CarryInv
<1>3. \A f : \A t \in Threads : Carries(t, f)' <=> Carries(t, f)
  BY <1>1 DEF Carries
<1>4. \A f \in Fibers : OneBaton(f)' /\ (Carried(f)' <=> Carried(f))
  <2>1. \A f \in Fibers : OneBaton(f)' /\ (Carried(f)' => Carried(f))
    BY <1>1, <1>2, <1>3, BatonKeeps
  <2>2. \A f \in Fibers : Carried(f) => Carried(f)'
    BY <1>1, <1>3 DEF Carried
  <2> QED
    BY <2>1, <2>2
<1>5. CarryInv'
  <2>1. \A f \in Fibers : fiber'[f].state # "READY"
    BY <1>1, <1>2
  <2>2. \A f \in Fibers : Carried(f)' => /\ fiber'[f].cb = fiber[f].cb
                                         /\ fiber[f].cb \notin done'
                                         /\ fiber'[f].state \in Going
    BY <1>1, <1>2, <1>4 DEF Unended
  <2>3. /\ JobsIn(queue') \subseteq JobsIn(queue) \cup {None}
        /\ \A j \in Jobs : OnceJob(queue, j) => OnceJob(queue', j)
        /\ \A j \in Pending \ {None} : j \in done' => j \in done
    BY <1>1
  <2>4. \A u \in Threads :
           /\ ft'[u].cb \in {ft[u].cb, None}
           /\ cbFiber'[u] \in {cbFiber[u], None}
           /\ (ft'[u].fiber # None \/ pc'[u] \notin InHand) /\ cbFiber'[u] # None
                => ft[u].fiber # None \/ pc[u] \notin InHand \/ ~Carried(cbFiber[u])
    BY <1>1 DEF InHand, OnStack
  <2> QED
    BY <1>1, <1>4, <2>1, <2>2, <2>3, <2>4, CarryKeeps
<1> QED
  BY <1>1, <1>4, <1>5 DEF CarryStays

(* The steps of callbacks that neither schedule themselves nor yield with    *)
(* READY, and all that happens around them.                                  *)
WaitingStep ==
  \/ Main \/ Quiet
  \/ \E j \in Jobs, p \in Pins : Schedule(j, p)
  \/ \E j \in Jobs, p \in SpawnPins, t \in Threads : Spawn(t, j, p)
  \/ \E t \in Threads : Run(t) \/ Wait(t)
  \/ \E t \in Threads : YieldToHold(t) \/ Return(t) \/ Throw(t) \/ SwapOut(t)
  \/ \E f \in Fibers : Wake(f)

LEMMA CarryInit == Init => CarryInv
<1> SUFFICES ASSUME Init PROVE CarryInv
  OBVIOUS
<1>1. /\ queue = <<>> /\ waiting = {} /\ done = {}
      /\ \A t \in Threads : pc[t] = "off" /\ ft[t] = NoEntry /\ cbFiber[t] = None
      /\ \A f \in Fibers : fiber[f].state = "INIT"
  BY DEF Init
<1>2. FibersIn(queue) = {} /\ JobsIn(queue) = {} /\ \A f : OnceFiber(queue, f)
  BY <1>1 DEF FibersIn, JobsIn, OnceFiber
<1>3. \A f \in Fibers : ~Carried(f) /\ \A t \in Threads : ~Carries(t, f)
  BY <1>1, <1>2 DEF Carried, Carries
<1> QED
  BY <1>1, <1>2, <1>3 DEF CarryInv, OneBaton, Unended, LocalJobOK, OwnCbOK, NoEntry

LEMMA CarryNext ==
  ASSUME Shape, CarryInv, WaitingStep
  PROVE  CarryInv'
BY PinsGiven, CarryQuiet, CarrySubmit, CarryRun, CarryWait, CarryYield, CarryWake DEF WaitingStep

LEMMA CarriedNotDone ==
  ASSUME Shape, CarryInv
  PROVE  NoReexecution
<1> SUFFICES ASSUME NEW t \in Threads, pc[t] = "body"
             PROVE  fiber[cur[t]].cb \notin done
  BY DEF NoReexecution
<1>1. cur[t] \in Fibers /\ Carries(t, cur[t])
  BY DEF Shape, TypeOK, LocalOK, OnStack, Carries
<1> QED
  BY <1>1 DEF CarryInv, Unended, Carried

(* Where the permits are.  A fiber that has one or waits for one is under    *)
(* way, with the callback of a user.                                         *)
UserOnWay(f) == Carried(f) /\ fiber[f].cb \in Users

PermitsOK ==
  /\ concurrency \in Nat /\ holders \subseteq Fibers /\ IsFiniteSet(holders)
  /\ concurrency + Cardinality(holders) = Permits
  /\ waiters \in Seq(Fibers)
  /\ waiters # <<>> => concurrency = 0
  /\ \A f \in holders : UserOnWay(f)
  /\ \A i \in 1..Len(waiters) : waiters[i] \in waiting \ holders /\ fiber[waiters[i]].cb \in Users
  /\ \A i, k \in 1..Len(waiters) : waiters[i] = waiters[k] => i = k

SemInv == Shape /\ CarryInv /\ PermitsOK

LEMMA SemInitInv == SemInit => SemInv
<1> SUFFICES ASSUME SemInit PROVE SemInv
  OBVIOUS
<1>1. Init /\ concurrency = Permits /\ waiters = <<>> /\ holders = {}
  BY DEF SemInit
<1>2. PermitsOK
  BY <1>1, SemaphoreAssumption, FS_EmptySet, EmptySeq DEF PermitsOK
<1> QED
  BY <1>1, <1>2, InitShape, CarryInit DEF SemInv

LEMMA WaitersCarried ==
  ASSUME SemInv, NEW i \in 1..Len(waiters)
  PROVE  waiters[i] \in Fibers /\ Carried(waiters[i])
BY DEF SemInv, PermitsOK, Carried

(* Steps that leave the semaphore alone, of callbacks that hold no permit    *)
(* when they end.                                                            *)
LEMMA PermitsKeep ==
  ASSUME SemInv, UNCHANGED semVars, NEW F, CarryStays(F), F \cap holders = {},
         \A i \in 1..Len(waiters) : waiters[i] \in waiting' /\ waiters[i] \notin F
  PROVE  PermitsOK'
<1>1. \A f \in holders : UserOnWay(f)'
  BY DEF SemInv, PermitsOK, UserOnWay, CarryStays
<1>2. \A i \in 1..Len(waiters) : fiber'[waiters[i]].cb \in Users
  BY WaitersCarried DEF SemInv, PermitsOK, CarryStays
<1> QED
  BY <1>1, <1>2 DEF SemInv, PermitsOK, semVars

LEMMA SemAcquire ==
  ASSUME SemInv, NEW t \in Threads, Acquire(t)
  PROVE  SemInv'
<1>1. Shape /\ PermitsOK /\ CarryInv
  BY DEF SemInv
<1>2. Quiet
  BY <1>1 DEF Quiet, Acquire, UseOp, fiberVars, localVars, countVars, stopVars, Shape, TypeOK
<1>3. /\ cur[t] \notin holders /\ concurrency > 0 /\ concurrency' = concurrency - 1
      /\ holders' = holders \cup {cur[t]} /\ waiters' = waiters /\ pc[t] = "body"
      /\ fiber[cur[t]].cb \in Users
  BY DEF Acquire, Granted, InBody, IsUser
<1>4. cur[t] \in Fibers /\ UserOnWay(cur[t])
  BY <1>1, <1>3 DEF Shape, TypeOK, LocalOK, OnStack, UserOnWay, Carried, Carries
<1>5. IsFiniteSet(holders') /\ Cardinality(holders') = Cardinality(holders) + 1
      /\ Cardinality(holders) \in Nat
  BY <1>1, <1>3, FS_AddElement, FS_CardinalityType DEF PermitsOK
<1>6. waiters = <<>>
  BY <1>1, <1>3 DEF PermitsOK
<1>7. Shape' /\ CarryInv' /\ CarryStays({}) /\ UNCHANGED fiber
  BY <1>1, <1>2, QuietShape, CarryQuiet DEF Quiet
<1>8. \A f \in holders' : UserOnWay(f)'
  BY <1>1, <1>3, <1>4, <1>7 DEF PermitsOK, UserOnWay, CarryStays
<1>9. /\ concurrency' \in Nat /\ concurrency' + Cardinality(holders') = Permits
      /\ holders' \subseteq Fibers
  BY <1>1, <1>3, <1>4, <1>5, SemaphoreAssumption DEF PermitsOK
<1>10. PermitsOK'
  BY <1>1, <1>3, <1>5, <1>6, <1>8, <1>9 DEF PermitsOK
<1> QED
  BY <1>7, <1>10 DEF SemInv

LEMMA SemEnqueue ==
  ASSUME SemInv, NEW t \in Threads, Enqueue(t)
  PROVE  SemInv'
<1>1. Shape /\ PermitsOK /\ CarryInv
  BY DEF SemInv
<1>2. /\ Wait(t) /\ IsUser(t) /\ cur[t] \notin holders /\ concurrency = 0
      /\ waiters' = Append(waiters, cur[t]) /\ concurrency' = concurrency
      /\ holders' = holders
  BY DEF Enqueue
<1>3. PICK h \in Fibers : h = cur[t]
  BY <1>1, <1>2, CarryWait
<1>4. /\ Shape' /\ CarryInv' /\ CarryStays({}) /\ UNCHANGED fiber
      /\ h \notin waiting /\ waiting' = waiting \cup {h} /\ fiber[h].cb \in Users
  BY <1>1, <1>2, <1>3, CarryWait, LeaveDoes DEF IsUser
<1> DEFINE n == Len(waiters)
<1>5. /\ waiters' \in Seq(Fibers) /\ Len(waiters') = n + 1 /\ n \in Nat
      /\ \A i \in 1..n : waiters'[i] = waiters[i]
      /\ waiters'[n + 1] = h
  BY <1>1, <1>2, <1>3, AppendProperties DEF PermitsOK
<1>6. \A i \in 1..n : /\ waiters[i] \in waiting \ holders
                      /\ fiber[waiters[i]].cb \in Users
                      /\ \A k \in 1..n : waiters[i] = waiters[k] => i = k
  BY <1>1 DEF PermitsOK
<1>7. \A i \in 1..(n + 1) : i \in 1..n \/ i = n + 1
  BY <1>5
<1> HIDE DEF n
<1>8. \A i \in 1..(n + 1) : waiters'[i] \in waiting' \ holders' /\ fiber'[waiters'[i]].cb \in Users
  BY <1>2, <1>3, <1>4, <1>5, <1>6, <1>7
<1>9. \A i, k \in 1..(n + 1) : waiters'[i] = waiters'[k] => i = k
  BY <1>4, <1>5, <1>6, <1>7
<1>10. \A f \in holders' : UserOnWay(f)'
  BY <1>1, <1>2, <1>4 DEF PermitsOK, UserOnWay, CarryStays
<1>11. PermitsOK'
  BY <1>1, <1>2, <1>5, <1>8, <1>9, <1>10 DEF PermitsOK
<1> QED
  BY <1>4, <1>11 DEF SemInv

LEMMA SemHandOver ==
  ASSUME SemInv, NEW t \in Threads, HandOver(t)
  PROVE  SemInv'
<1>1. Shape /\ PermitsOK /\ CarryInv
  BY DEF SemInv
<1>2. /\ cur[t] \in holders /\ waiters # <<>> /\ waiters' = Tail(waiters)
      /\ Wake(Head(waiters)) /\ holders' = (holders \ {cur[t]}) \cup {Head(waiters)}
      /\ concurrency' = concurrency
  BY DEF HandOver
<1> DEFINE n == Len(waiters)
<1>3. /\ waiters' \in Seq(Fibers) /\ Len(waiters') = n - 1 /\ n \in Nat \ {0}
      /\ \A i \in 1..(n - 1) : waiters'[i] = waiters[i + 1]
      /\ Head(waiters) = waiters[1] /\ Head(waiters) \in Fibers
  BY <1>1, <1>2, HeadTailProperties, EmptySeq DEF PermitsOK
<1>4. PICK g \in Fibers : g = Head(waiters)
  BY <1>3
<1>5. \A i \in 1..n : /\ waiters[i] \in waiting \ holders
                      /\ fiber[waiters[i]].cb \in Users
                      /\ \A k \in 1..n : waiters[i] = waiters[k] => i = k
  BY <1>1 DEF PermitsOK
<1>6. /\ UNCHANGED fiber /\ waiting' = waiting \ {g}
      /\ Shape' /\ CarryInv' /\ CarryStays({})
  BY <1>1, <1>2, <1>4, CarryWake, RequeueDoes DEF Wake
<1> HIDE DEF n
<1>7. g = waiters[1] /\ g \in waiting \ holders /\ fiber[g].cb \in Users
  BY <1>3, <1>4, <1>5
<1>8. ASSUME NEW i \in 1..(n - 1)
      PROVE  waiters'[i] \in waiting' \ holders' /\ fiber'[waiters'[i]].cb \in Users
  <2>1. i + 1 \in 1..n /\ 1 \in 1..n /\ i + 1 # 1
    BY <1>3
  <2>2. /\ waiters[i + 1] \in waiting \ holders /\ fiber[waiters[i + 1]].cb \in Users
        /\ waiters[i + 1] # g
    BY <1>5, <1>7, <2>1
  <2> QED
    BY <1>2, <1>3, <1>4, <1>6, <2>2
<1>9. ASSUME NEW i \in 1..(n - 1), NEW k \in 1..(n - 1), waiters'[i] = waiters'[k]
      PROVE  i = k
  <2>1. i + 1 \in 1..n /\ k + 1 \in 1..n /\ waiters[i + 1] = waiters[k + 1]
    BY <1>3, <1>9
  <2>2. i + 1 = k + 1
    BY <1>5, <2>1
  <2> QED
    BY <1>3, <2>2
<1>10. /\ IsFiniteSet(holders') /\ Cardinality(holders') = Cardinality(holders)
       /\ holders' \subseteq Fibers
  <2>1. /\ IsFiniteSet(holders \ {cur[t]}) /\ Cardinality(holders) \in Nat
        /\ Cardinality(holders \ {cur[t]}) = Cardinality(holders) - 1
    BY <1>1, <1>2, FS_RemoveElement, FS_CardinalityType DEF PermitsOK
  <2>2. g \notin holders \ {cur[t]}
    BY <1>7
  <2>3. /\ IsFiniteSet(holders')
        /\ Cardinality(holders') = Cardinality(holders \ {cur[t]}) + 1
    BY <1>2, <1>4, <2>1, <2>2, FS_AddElement
  <2> QED
    BY <1>1, <1>2, <1>4, <2>1, <2>3 DEF PermitsOK
<1>11. \A f \in holders' : UserOnWay(f)'
  <2>1. Carried(g)
    BY <1>7 DEF Carried
  <2> QED
    BY <1>1, <1>2, <1>4, <1>6, <1>7, <2>1 DEF PermitsOK, UserOnWay, CarryStays
<1>12. PermitsOK'
  BY <1>1, <1>2, <1>3, <1>8, <1>9, <1>10, <1>11 DEF PermitsOK
<1> QED
  BY <1>6, <1>12 DEF SemInv

LEMMA SemPutBack ==
  ASSUME SemInv, NEW t \in Threads, PutBack(t)
  PROVE  SemInv'
<1>1. Shape /\ PermitsOK /\ CarryInv
  BY DEF SemInv
<1>2. /\ cur[t] \in holders /\ waiters = <<>> /\ waiters' = waiters
      /\ concurrency' = concurrency + 1 /\ holders' = holders \ {cur[t]}
      /\ UNCHANGED vars
  BY DEF PutBack, schedulerVars
<1>3. /\ IsFiniteSet(holders') /\ Cardinality(holders) \in Nat
      /\ Cardinality(holders') = Cardinality(holders) - 1
  BY <1>1, <1>2, FS_RemoveElement, FS_CardinalityType DEF PermitsOK
<1>4. Shape' /\ CarryInv' /\ CarryStays({})
  BY <1>1, <1>2, StutterQuiet, QuietShape, CarryQuiet
<1>5. PermitsOK'
  <2>1. concurrency' \in Nat /\ concurrency' + Cardinality(holders') = Permits
    BY <1>1, <1>2, <1>3, SemaphoreAssumption DEF PermitsOK
  <2>2. \A f \in holders' : UserOnWay(f)'
    BY <1>1, <1>2, <1>4 DEF PermitsOK, UserOnWay, CarryStays
  <2> QED
    BY <1>1, <1>2, <1>3, <2>1, <2>2 DEF PermitsOK
<1> QED
  BY <1>4, <1>5 DEF SemInv

LEMMA SemNextInv ==
  ASSUME SemInv, [SemNext]_semSpecVars
  PROVE  SemInv'
<1>1. Shape /\ PermitsOK /\ CarryInv
  BY DEF SemInv
<1>2. \A i \in 1..Len(waiters) : waiters[i] \in waiting
  BY <1>1 DEF PermitsOK
<1>3. ASSUME UNCHANGED semVars, WaitingStep, NEW F, CarryStays(F), F \cap holders = {},
             \A i \in 1..Len(waiters) : waiters[i] \in waiting' /\ waiters[i] \notin F
      PROVE  SemInv'
  <2>1. Step
    <3>1. ASSUME NEW t \in Threads,
                 Wait(t) \/ YieldToHold(t) \/ Return(t) \/ Throw(t) \/ SwapOut(t)
                   \/ \E j \in Jobs, p \in SpawnPins : Spawn(t, j, p)
          PROVE  Body(t)
      BY <3>1 DEF Body
    <3> QED
      BY <1>3, <3>1 DEF WaitingStep, Step, Next
  <2> QED
    BY <1>1, <1>3, <2>1, NextShape, CarryNext, PermitsKeep DEF SemInv
<1>4. ASSUME Main \/ Quiet, UNCHANGED semVars PROVE SemInv'
  BY <1>1, <1>2, <1>3, <1>4, CarryQuiet DEF WaitingStep
<1>5. ASSUME NEW j \in Jobs, NEW p \in Pins,
             Schedule(j, p) \/ (p \in SpawnPins /\ \E t \in Threads : Spawn(t, j, p)),
             UNCHANGED semVars
      PROVE  SemInv'
  BY <1>1, <1>2, <1>3, <1>5, CarrySubmit, SubmitDoes DEF WaitingStep
<1>6. ASSUME NEW t \in Threads, Run(t), UNCHANGED semVars PROVE SemInv'
  <2>1. UNCHANGED waiting
    BY <1>6 DEF Run, Take, EnterIdle, Exit, IdleStep, ResumeFiber, DropFinished, RunCallback,
                Deactivate, Reschedule, Retire, Suspend, SetHold, jobVars
  <2> QED
    BY <1>1, <1>2, <1>3, <1>6, <2>1, CarryRun DEF WaitingStep
<1>7. ASSUME NEW f \in Fibers \ {waiters[i] : i \in 1..Len(waiters)}, Wake(f),
             UNCHANGED semVars
      PROVE  SemInv'
  <2>1. \A i \in 1..Len(waiters) : waiters[i] \in waiting'
    BY <1>2, <1>7 DEF Wake
  <2> QED
    BY <1>1, <1>3, <1>7, <2>1, CarryWake DEF WaitingStep
<1>8. ASSUME NEW t \in Threads, OtherBody(t) PROVE SemInv'
  <2>1. UNCHANGED semVars
    BY <1>8 DEF OtherBody
  <2>2. CASE Wait(t)
    <3>1. CarryStays({}) /\ waiting \subseteq waiting'
      BY <1>1, <2>2, CarryWait
    <3> QED
      BY <1>2, <1>3, <2>1, <2>2, <3>1 DEF WaitingStep
  <2>3. CASE YieldToHold(t) \/ SwapOut(t) \/ (cur[t] \notin holders /\ (Return(t) \/ Throw(t)))
    <3> DEFINE F == IF pc[t] = "body" THEN {cur[t]} ELSE {}
    <3>1. CarryStays(F) /\ UNCHANGED waiting
      BY <1>1, <2>3, CarryYield, YieldDoes, SwapOutDoes
    <3>2. F \cap holders = {}
      BY <2>3 DEF YieldToHold, SwapOut, GoTo
    <3>3. \A i \in 1..Len(waiters) : waiters[i] \notin F
      <4> SUFFICES ASSUME NEW i \in 1..Len(waiters), pc[t] = "body", waiters[i] = cur[t]
                   PROVE  FALSE
        OBVIOUS
      <4>1. cur[t] \in waiting /\ cur[t] \in Fibers /\ Carries(t, cur[t])
        BY <1>1, <1>2 DEF Carries, Shape, TypeOK, LocalOK, OnStack
      <4> QED
        BY <1>1, <4>1 DEF CarryInv, OneBaton
    <3> HIDE DEF F
    <3>4. WaitingStep
      BY <2>3 DEF WaitingStep
    <3> QED
      BY <1>2, <1>3, <2>1, <3>1, <3>2, <3>3, <3>4
  <2> QED
    BY <1>5, <1>8, <2>1, <2>2, <2>3, PinsGiven DEF OtherBody
<1>9. CASE UNCHANGED semSpecVars
  BY <1>1, <1>4, <1>9, StutterQuiet DEF semSpecVars
<1>10. CASE SemNext
  <2>1. ASSUME NEW t \in Threads, SemBody(t) PROVE SemInv'
    BY <1>8, <2>1, SemAcquire, SemEnqueue, SemHandOver, SemPutBack DEF SemBody
  <2>2. Terminated => Quiet
    BY <1>1, StutterQuiet
  <2> QED
    BY <1>4, <1>5, <1>6, <1>7, <1>10, <2>1, <2>2 DEF SemNext
<1> QED
  BY <1>9, <1>10

(* A permit is in m_concurrency or with one fiber whose callback has not     *)
(* ended, and none is left in m_concurrency while somebody waits, on any     *)
(* number of threads, whatever a late write of HOLD does to the state of a   *)
(* fiber that was notified before it had yielded (mutex.cpp:71), and for any *)
(* number of permits, callbacks and fibers.                                  *)
THEOREM PermitsCorrect == SemSpec => []PermitsConserved
<1>1. SemInv => PermitsConserved
  <2> SUFFICES ASSUME SemInv PROVE PermitsConserved
    OBVIOUS
  <2>1. PermitsOK /\ TypeOK /\ CarryInv /\ Cardinality(holders) \in Nat
    BY FS_CardinalityType DEF SemInv, Shape, PermitsOK
  <2>2. concurrency \in 0..Permits
    BY <2>1, SemaphoreAssumption DEF PermitsOK
  <2>3. \A f \in holders : fiber[f].cb \in Users \ done
    BY <2>1 DEF PermitsOK, UserOnWay, CarryInv, Unended
  <2>4. \A i \in 1..Len(waiters) : waiters[i] \in waiting \ holders
    BY <2>1 DEF PermitsOK
  <2> QED
    BY <2>1, <2>2, <2>3, <2>4 DEF PermitsConserved, SemTypeOK, PermitsOK
<1> QED
  BY <1>1, SemInitInv, SemNextInv, PTL DEF SemSpec

(* Nor is a callback that ended executed again there, users of the semaphore *)
(* included, although two threads may be busy with its fiber.                *)
THEOREM SemReexecutionCorrect == SemSpec => []NoReexecution
<1>1. SemInv => NoReexecution
  BY CarriedNotDone DEF SemInv
<1> QED
  BY <1>1, SemInitInv, SemNextInv, PTL DEF SemSpec
=============================================================================

---------------------- MODULE HttpConnectionPool_proofs ----------------------
(***************************************************************************)
(* Proofs about the pool of connections, for any number of fibers and of   *)
(* connections and every limit.                                            *)
(***************************************************************************)
EXTENDS MCHttpConnectionPool, FiniteSetTheorems, SequenceTheorems, TLAPS

Connection == [alive : BOOLEAN, used : Nat, torn : BOOLEAN]

InUse == Pooled \cup Held

(* A connection is at one place of the list, or with one fiber; a fiber has  *)
(* one exactly while it makes a request with it.  The connections that are   *)
(* found invalid, to be deleted, are none: what is released alive stays so.  *)
PlacesOK ==
  /\ \A i, j \in 1..Len(pool) : pool[i] = pool[j] => i = j
  /\ \A i \in 1..Len(pool), t \in Tasks : task[t].conn # pool[i]
  /\ \A t, u \in Tasks : t # u /\ task[t].conn # None => task[t].conn # task[u].conn
  /\ \A t \in Tasks :
       /\ task[t].drop = {}
       /\ task[t].pc \in {"idle", "get", "connect", "uncount"} => task[t].conn = None
       /\ task[t].pc \in {"count", "send", "recv", "release", "put", "delete"}
            => task[t].conn # None

(* Fibers that found the list empty and have not connected yet.              *)
Wanting == {t \in Tasks : /\ task[t].conn = None
                          /\ task[t].pc \in {"discard", "deduct", "connect"}}

(* Fibers between a new and the count of it, and between a delete and that.  *)
Counting == {t \in Tasks : task[t].pc = "count"}
Uncounting == {t \in Tasks : task[t].pc = "uncount"}

(* Every connection in use is counted, or about to be; whoever wants a new   *)
(* one has found all the others in the hands of other fibers.                *)
CountOK ==
  /\ total + Cardinality(Counting) = Cardinality(InUse) + Cardinality(Uncounting)
  /\ Cardinality(InUse) + Cardinality(Wanting) <= Cardinality(Tasks)

Quiet(c) == reqs[c] = <<>> /\ rsps[c] = <<>>

(* Nothing is said of a connection on which a send failed half-way.          *)
Clean(c) == conn[c].torn \/ Quiet(c)

(* At most the request that fiber t sent last is under way on c.             *)
OnlyOwn(t, c) ==
  \/ Clean(c)
  \/ reqs[c] = <<Request(t)>> /\ rsps[c] = <<>>
  \/ reqs[c] = <<>> /\ rsps[c] = <<Request(t)>>

(* What may be under way on a connection, by who has it: nothing if nobody   *)
(* or the list has it, ...                                                   *)
FreeQuiet == \A c \in Conns \ InUse : Quiet(c)

Ready(c) == conn[c].alive /\ conn[c].used < MaxRequest /\ Clean(c)

PooledReady == \A i \in 1..Len(pool) : Ready(pool[i])

(* ... and what fiber t has sent, while it waits for the answer.             *)
WireTask(t) ==
  LET c == task[t].conn
      pc == task[t].pc IN
  /\ pc \in {"discard", "deduct", "count", "send"} /\ c # None
       => conn[c].alive /\ Clean(c)
  /\ pc = "put" => Ready(c)
  /\ pc = "recv" => conn[c].alive /\ OnlyOwn(t, c)
  /\ pc = "release" /\ conn[c].alive => Clean(c)

WireOK == FreeQuiet /\ PooledReady /\ \A t \in Tasks : WireTask(t)

Inv == TypeOK /\ PlacesOK /\ CountOK /\ WireOK
-----------------------------------------------------------------------------
(* What the type says of one fiber, and that nothing is ever too old.        *)
LEMMA TaskType ==
  ASSUME TypeOK, NEW t \in Tasks
  PROVE  /\ task[t].pc \in PCs /\ task[t].conn \in Conns \cup {None}
         /\ task[t].drop \in SUBSET Conns /\ task[t].serial \in {0, 1}
         /\ task[t].got \in Messages \cup {None}
BY DEF TypeOK, Tasklets

LEMMA NotAged == ~Aged /\ ~(CreateTime + MaxAliveTime >= Now)
BY PoolAssumption DEF Aged, CreateTime

LEMMA FiniteUse ==
  ASSUME TypeOK
  PROVE  /\ InUse \subseteq Conns /\ IsFiniteSet(InUse) /\ Cardinality(InUse) \in Nat
         /\ Cardinality(InUse) <= Cardinality(Conns)
         /\ Wanting \subseteq Tasks /\ IsFiniteSet(Wanting)
         /\ Cardinality(Wanting) \in Nat /\ Cardinality(Tasks) \in Nat
         /\ IsFiniteSet(Counting) /\ Cardinality(Counting) \in Nat
         /\ IsFiniteSet(Uncounting) /\ Cardinality(Uncounting) \in Nat
<1>1. Pooled \subseteq Conns
  BY DEF TypeOK, Pooled
<1>2. Held \subseteq Conns
  BY TaskType DEF Held
<1>3. /\ InUse \in SUBSET Conns /\ Wanting \in SUBSET Tasks
      /\ Counting \in SUBSET Tasks /\ Uncounting \in SUBSET Tasks
  BY <1>1, <1>2 DEF InUse, Wanting, Counting, Uncounting
<1> QED BY <1>3, PoolAssumption, FS_Subset, FS_CardinalityType

(* The step of a fiber from one place to another.                            *)
LEMMA GoToFields ==
  ASSUME TypeOK, NEW t \in Tasks, NEW p \in PCs, GoTo(t, p)
  PROVE  /\ task' \in [Tasks -> Tasklets] /\ task'[t].pc = p
         /\ \A u \in Tasks : /\ task'[u].conn = task[u].conn
                             /\ task'[u].drop = task[u].drop
                             /\ task'[u].serial = task[u].serial
                             /\ task'[u].got = task[u].got
         /\ \A u \in Tasks \ {t} : task'[u] = task[u]
<1>1. task' \in [Tasks -> Tasklets] /\ task'[t].pc = p
  BY DEF TypeOK, Tasklets, GoTo
<1> QED BY <1>1 DEF TypeOK, Tasklets, GoTo

(* Who has which connection depends on the list and the fibers' only.        *)
LEMMA SameUse ==
  ASSUME pool' = pool, \A t \in Tasks : task'[t].conn = task[t].conn
  PROVE  InUse' = InUse
BY DEF InUse, Pooled, Held

LEMMA SameWant ==
  ASSUME \A t \in Tasks : task'[t].conn = task[t].conn,
         \A t \in Tasks : task'[t].pc \in {"discard", "deduct", "connect"}
                           <=> task[t].pc \in {"discard", "deduct", "connect"},
         \A t \in Tasks : \/ task'[t].pc = task[t].pc
                         \/ {task[t].pc, task'[t].pc} \cap {"count", "uncount"} = {}
  PROVE  Wanting' = Wanting /\ Counting' = Counting /\ Uncounting' = Uncounting
BY DEF Wanting, Counting, Uncounting

(* A step that moves no connection, counts none and lets nobody want one     *)
(* more.                                                                     *)
LEMMA SameCount ==
  ASSUME CountOK, InUse' = InUse, Wanting' = Wanting, Counting' = Counting,
         Uncounting' = Uncounting, total' = total
  PROVE  CountOK'
BY DEF CountOK

(* What is under way does not change for a fiber that does nothing.          *)
LEMMA SameWire ==
  ASSUME NEW u \in Tasks, WireTask(u), task'[u] = task[u], UNCHANGED <<conn, reqs, rsps>>
  PROVE  WireTask(u)'
BY DEF WireTask, Ready, Clean, Quiet, OnlyOwn, Request

LEMMA SameReady ==
  ASSUME WireOK, UNCHANGED <<pool, conn, reqs, rsps>>, InUse' = InUse
  PROVE  FreeQuiet' /\ PooledReady'
BY DEF WireOK, FreeQuiet, PooledReady, Ready, Clean, Quiet
-----------------------------------------------------------------------------
LEMMA InitInv == Init => Inv
<1> SUFFICES ASSUME Init PROVE Inv
  OBVIOUS
<1> USE PoolAssumption DEF Init
<1>1. /\ Pooled = {} /\ Held = {} /\ InUse = {} /\ Wanting = {}
      /\ Counting = {} /\ Uncounting = {}
  BY DEF Pooled, Held, InUse, Wanting, Counting, Uncounting
<1>2. PlacesOK
  BY DEF PlacesOK
<1>3. WireOK
  BY <1>1 DEF WireOK, FreeQuiet, PooledReady, WireTask, Clean, Quiet
<1>4. CountOK
  BY <1>1, FS_EmptySet, FS_CardinalityType DEF CountOK
<1>5. task \in [Tasks -> Tasklets]
  BY DEF Tasklets, PCs
<1>6. /\ conn \in [Conns -> [alive : BOOLEAN, used : Nat, torn : BOOLEAN]]
      /\ peer \in [Conns -> {"open", "closed"}]
  <2> DEFINE r == [alive |-> FALSE, used |-> 0, torn |-> FALSE]
  <2>1. r \in [alive : BOOLEAN, used : Nat, torn : BOOLEAN]
    OBVIOUS
  <2>2. conn = [c \in Conns |-> r]
    OBVIOUS
  <2> HIDE DEF r
  <2> QED BY <2>1, <2>2
<1>7. reqs \in [Conns -> Seq(Messages)] /\ rsps \in [Conns -> Seq(Messages)]
  BY EmptySeq
<1>8. pool \in Seq(Conns)
  OBVIOUS
<1>9. total \in Int
  OBVIOUS
<1> HIDE DEF Init
<1>10. TypeOK
  BY <1>5, <1>6, <1>7, <1>8, <1>9 DEF TypeOK
<1> QED BY <1>2, <1>3, <1>4, <1>10 DEF Inv

(* doRequest() begins: no connection changes hands.                          *)
LEMMA BeginInv == ASSUME Inv, NEW t \in Tasks, Begin(t) PROVE Inv'
<1> USE DEF Inv
<1>1. /\ task' \in [Tasks -> Tasklets] /\ task'[t].pc = "get" /\ task'[t].got = None
      /\ \A u \in Tasks : task'[u].conn = task[u].conn /\ task'[u].drop = task[u].drop
      /\ \A u \in Tasks \ {t} : task'[u] = task[u]
  <2> DEFINE s == 1 - task[t].serial
  <2>1. s \in {0, 1}
    BY TaskType
  <2>2. task' = [task EXCEPT ![t].pc = "get", ![t].serial = s, ![t].got = None]
    BY DEF Begin
  <2> HIDE DEF s
  <2> DEFINE r == [task[t] EXCEPT !.pc = "get", !.serial = s, !.got = None]
  <2>3. task[t] \in Tasklets
    BY DEF TypeOK
  <2>4. /\ r \in Tasklets /\ r.pc = "get" /\ r.got = None
        /\ r.conn = task[t].conn /\ r.drop = task[t].drop
    BY <2>1, <2>3 DEF Tasklets, PCs
  <2>5. task' = [task EXCEPT ![t] = r]
    BY <2>2
  <2> HIDE DEF r
  <2> QED BY <2>4, <2>5 DEF TypeOK
<1>2. task[t].pc = "idle" /\ UNCHANGED <<pool, total, conn, peer, reqs, rsps>>
  BY DEF Begin, wireVars
<1>3. /\ InUse' = InUse /\ Wanting' = Wanting
      /\ Counting' = Counting /\ Uncounting' = Uncounting
  BY <1>1, <1>2, SameUse, SameWant
<1>4. CountOK'
  BY <1>2, <1>3, SameCount
<1>5. PlacesOK'
  BY <1>1, <1>2 DEF PlacesOK
<1>6. WireOK'
  <2>1. WireTask(t)'
    BY <1>1, <1>2 DEF WireTask
  <2> QED BY <1>1, <1>2, <1>3, <2>1, SameReady, SameWire DEF WireOK
<1>7. TypeOK'
  BY <1>1, <1>2 DEF TypeOK
<1> QED BY <1>4, <1>5, <1>6, <1>7

(* A connection that is at hand goes from the list to the fiber, the first   *)
(* of them, since all are usable; without one the fiber wants one.           *)
LEMMA GetInv == ASSUME Inv, NEW t \in Tasks, Get(t) PROVE Inv'
<1> USE DEF Inv
<1>1. \A i \in 1..Len(pool) : Usable(pool[i])
  BY NotAged DEF WireOK, PooledReady, Ready, Usable
<1>2. Len(pool) \in Nat /\ pool \in Seq(Conns)
  BY DEF TypeOK
<1>3. PICK n \in 0..Len(pool) :
        /\ \A i \in 1..n : ~Usable(pool[i])
        /\ pool' = SubSeq(pool, n + 2 - 0, Len(pool))
        /\ task' = [task EXCEPT
             ![t].pc = "discard", ![t].drop = {pool[i] : i \in 1..n},
             ![t].conn = IF n = Len(pool) THEN None ELSE pool[n + 1]]
  BY DEF Get, GetFirst
<1>4. n = 0
  <2> SUFFICES ASSUME n # 0 PROVE FALSE
    OBVIOUS
  <2>1. 1 \in 1..n /\ 1 \in 1..Len(pool)
    BY <1>2
  <2> QED BY <1>1, <1>3, <2>1
<1>5. {pool[i] : i \in 1..n} = {}
  BY <1>4
<1> DEFINE c == IF pool = <<>> THEN None ELSE pool[1]
<1>6. (n = Len(pool)) <=> pool = <<>>
  BY <1>2, <1>4
<1>7. c = IF n = Len(pool) THEN None ELSE pool[n + 1]
  BY <1>4, <1>6
<1>8. c \in Conns \cup {None}
  BY <1>2
<1> HIDE DEF c
<1>9. /\ task' \in [Tasks -> Tasklets]
      /\ task'[t].pc = "discard" /\ task'[t].drop = {} /\ task'[t].conn = c
      /\ task'[t].serial = task[t].serial /\ task'[t].got = task[t].got
      /\ \A u \in Tasks \ {t} : task'[u] = task[u]
  <2>1. task' = [task EXCEPT ![t].pc = "discard", ![t].drop = {}, ![t].conn = c]
    BY <1>3, <1>5, <1>7
  <2> DEFINE k == [task[t] EXCEPT !.pc = "discard", !.drop = {}, !.conn = c]
  <2>2. task \in [Tasks -> Tasklets]
    BY DEF TypeOK
  <2>3. /\ k \in Tasklets
        /\ k.pc = "discard" /\ k.drop = {} /\ k.conn = c
        /\ k.serial = task[t].serial /\ k.got = task[t].got
    BY <1>8, <2>2 DEF Tasklets, PCs
  <2>4. task' = [task EXCEPT ![t] = k]
    BY <2>1, <2>2
  <2> HIDE DEF k
  <2> QED BY <2>2, <2>3, <2>4
<1>10. /\ task[t].pc = "get" /\ task[t].conn = None
       /\ UNCHANGED <<total, conn, peer, reqs, rsps>>
  BY DEF Get, GetFirst, wireVars, PlacesOK
<1>11. /\ pool' \in Seq(Conns)
       /\ Len(pool') = IF pool = <<>> THEN 0 ELSE Len(pool) - 1
       /\ \A i \in 1..Len(pool') : i + 1 \in 1..Len(pool) /\ pool'[i] = pool[i + 1]
  <2>1. pool' = SubSeq(pool, 2, Len(pool))
    <3>1. n + 2 - 0 = 2
      BY <1>4
    <3> QED BY <1>3, <3>1
  <2>2. \A i \in 2..Len(pool) : pool[i] \in Conns
    BY <1>2
  <2> QED BY <1>2, <2>1, <2>2, SubSeqProperties
<1>12. PlacesOK'
  <2>1. \A i, j \in 1..Len(pool') : pool'[i] = pool'[j] => i = j
    BY <1>2, <1>11, SMTT(20) DEF PlacesOK
  <2>2. \A i \in 1..Len(pool'), u \in Tasks : task'[u].conn # pool'[i]
    <3>1. \A i \in 1..Len(pool') : c # pool'[i]
      <4>1. CASE pool = <<>>
        BY <1>11, <4>1
      <4>2. CASE pool # <<>>
        BY <1>2, <1>11, <4>2 DEF PlacesOK, c
      <4> QED BY <4>1, <4>2
    <3> QED BY <1>9, <1>11, <3>1 DEF PlacesOK
  <2>3. \A u \in Tasks : c # None => task[u].conn # c
    BY <1>2 DEF c, PlacesOK
  <2>4. \A u, v \in Tasks : u # v /\ task'[u].conn # None => task'[u].conn # task'[v].conn
    BY <1>9, <2>3 DEF PlacesOK
  <2> QED BY <1>9, <2>1, <2>2, <2>4 DEF PlacesOK
<1>13. TypeOK'
  BY <1>9, <1>10, <1>11 DEF TypeOK
<1>14. Counting' = Counting /\ Uncounting' = Uncounting
  BY <1>9, <1>10 DEF Counting, Uncounting
<1>15. CASE pool # <<>>
  <2>1. c = pool[1] /\ c \in Conns /\ 1 \in 1..Len(pool)
    BY <1>2, <1>15 DEF c
  <2>2. Pooled = Pooled' \cup {c}
    <3>1. \A i \in 1..Len(pool) : i = 1 \/ (i - 1 \in 1..Len(pool') /\ pool[i] = pool'[i - 1])
      BY <1>2, <1>11, <1>15
    <3>2. Pooled \subseteq Pooled' \cup {c}
      BY <2>1, <3>1 DEF Pooled
    <3>3. Pooled' \subseteq Pooled
      BY <1>11 DEF Pooled
    <3> QED BY <2>1, <3>2, <3>3 DEF Pooled
  <2>3. Held' = Held \cup {c}
    BY <1>9, <1>10, <2>1, PoolAssumption DEF Held
  <2>4. InUse' = InUse
    BY <2>2, <2>3 DEF InUse
  <2>5. Wanting' = Wanting
    BY <1>9, <1>10, <2>1, PoolAssumption DEF Wanting
  <2>6. CountOK'
    BY <1>10, <1>14, <2>4, <2>5, SameCount
  <2>7. conn[c].alive /\ Clean(c)
    BY <2>1 DEF WireOK, PooledReady, Ready
  <2>8. WireOK'
    <3>1. FreeQuiet' /\ PooledReady'
      BY <1>10, <1>11, <2>4, SMTT(20) DEF WireOK, FreeQuiet, PooledReady, Ready, Clean, Quiet
    <3>2. /\ task'[t].pc = "discard" /\ task'[t].conn = c
          /\ conn'[c].alive
          /\ conn'[c].torn \/ (reqs'[c] = <<>> /\ rsps'[c] = <<>>)
      BY <1>9, <1>10, <2>7 DEF Clean, Quiet
    <3>3. WireTask(t)'
      BY <3>2 DEF WireTask, Clean, Quiet
    <3> QED BY <1>9, <1>10, <3>1, <3>3, SameWire DEF WireOK
  <2> QED BY <1>12, <1>13, <2>6, <2>8
<1>16. CASE pool = <<>>
  <2>1. pool' = <<>> /\ c = None
    BY <1>11, <1>16, EmptySeq DEF c
  <2>2. InUse' = InUse /\ InUse = Held
    BY <1>9, <1>10, <1>16, <2>1 DEF InUse, Pooled, Held
  <2>3. WireOK'
    <3>1. FreeQuiet' /\ PooledReady'
      BY <1>10, <1>11, <1>16, <2>2 DEF WireOK, FreeQuiet, PooledReady, Clean, Quiet
    <3>2. WireTask(t)'
      BY <1>9, <2>1 DEF WireTask
    <3> QED BY <1>9, <1>10, <3>1, <3>2, SameWire DEF WireOK
  <2>4. CountOK'
    <3> DEFINE Holders == {u \in Tasks : task'[u].conn # None}
               Taken == [u \in Holders |-> task'[u].conn]
    <3>1. IsFiniteSet(Holders)
      BY PoolAssumption, FS_Subset
    <3>2. Taken \in Surjection(Holders, Held')
      BY DEF Held, Surjection
    <3>3. Cardinality(Held') <= Cardinality(Holders)
      BY <3>1, <3>2, FS_Surjection
    <3>4. Holders \cap Wanting' = {} /\ Holders \cup Wanting' \subseteq Tasks
      BY DEF Wanting
    <3>5. IsFiniteSet(Wanting') /\ InUse' = Held'
      BY <1>13, <1>16, <2>1, PoolAssumption, FS_Subset DEF Wanting, InUse, Pooled
    <3> HIDE DEF Holders
    <3>6. Cardinality(Holders \cup Wanting') = Cardinality(Holders) + Cardinality(Wanting')
      <4>1. Cardinality(Holders) \in Nat /\ Cardinality(Wanting') \in Nat
        BY <3>1, <3>5, FS_CardinalityType
      <4>2. Cardinality(Holders \cup Wanting') = Cardinality(Holders)
              + Cardinality(Wanting') - Cardinality(Holders \cap Wanting')
        BY <3>1, <3>5, FS_Union
      <4>3. Cardinality(Holders \cap Wanting') = 0
        BY <3>4, FS_EmptySet
      <4> QED BY <4>1, <4>2, <4>3
    <3>7. Cardinality(Holders \cup Wanting') <= Cardinality(Tasks)
      BY <3>4, PoolAssumption, FS_Subset
    <3>8. /\ Cardinality(Holders) \in Nat /\ Cardinality(Wanting') \in Nat
          /\ Cardinality(Held') \in Nat /\ Cardinality(Tasks) \in Nat
      BY <3>1, <3>2, <3>5, PoolAssumption, FS_Surjection, FS_CardinalityType
    <3>9. Cardinality(InUse') + Cardinality(Wanting') <= Cardinality(Tasks)
      BY <3>3, <3>5, <3>6, <3>7, <3>8
    <3> QED BY <1>10, <1>14, <2>2, <3>9 DEF CountOK
  <2> QED BY <1>12, <1>13, <2>3, <2>4
<1> QED BY <1>15, <1>16
-----------------------------------------------------------------------------
Without == {"idle", "get", "connect", "uncount"}
With == {"count", "send", "recv", "release", "put", "delete"}

(* A fiber that goes on with the connection it has, or with none.            *)
LEMMA GoToPlaces ==
  ASSUME TypeOK, PlacesOK, NEW t \in Tasks, NEW p \in PCs, GoTo(t, p),
         pool' = pool,
         p \in Without => task[t].conn = None, p \in With => task[t].conn # None
  PROVE  /\ PlacesOK' /\ InUse' = InUse
         /\ task' \in [Tasks -> Tasklets] /\ task'[t].pc = p
         /\ task'[t].conn = task[t].conn /\ Request(t)' = Request(t)
         /\ \A u \in Tasks : task'[u].conn = task[u].conn
         /\ \A u \in Tasks \ {t} : task'[u] = task[u]
<1>1. PlacesOK'
  BY GoToFields DEF PlacesOK, Without, With
<1>2. InUse' = InUse
  BY GoToFields, SameUse
<1>3. Request(t)' = Request(t)
  BY GoToFields DEF Request
<1> QED BY <1>1, <1>2, <1>3, GoToFields

(* Nothing is deleted when nothing was found invalid.                        *)
LEMMA DestroyNothing == ASSUME TypeOK, Destroy({}) PROVE UNCHANGED <<conn, wireVars>>
BY DEF TypeOK, Destroy, wireVars

LEMMA DiscardInv == ASSUME Inv, NEW t \in Tasks, Discard(t) PROVE Inv'
<1> USE DEF Inv
<1>1. task[t].pc = "discard" /\ GoTo(t, "deduct") /\ UNCHANGED <<pool, total>>
  BY DEF Discard
<1>2. UNCHANGED <<conn, peer, reqs, rsps>>
  BY DestroyNothing DEF Discard, PlacesOK, wireVars
<1>3. /\ PlacesOK' /\ InUse' = InUse
      /\ task' \in [Tasks -> Tasklets] /\ task'[t].pc = "deduct"
      /\ task'[t].conn = task[t].conn
      /\ \A u \in Tasks : task'[u].conn = task[u].conn
      /\ \A u \in Tasks \ {t} : task'[u] = task[u]
  BY <1>1, GoToPlaces DEF Without, With, PCs
<1>4. CountOK'
  BY <1>1, <1>3, SameWant, SameCount
<1>5. WireOK'
  <2>1. WireTask(t)'
    BY <1>1, <1>2, <1>3 DEF WireOK, WireTask, Clean, Quiet
  <2> QED BY <1>1, <1>2, <1>3, <2>1, SameReady, SameWire DEF WireOK
<1>6. TypeOK'
  BY <1>1, <1>2, <1>3 DEF TypeOK
<1> QED BY <1>3, <1>4, <1>5, <1>6

LEMMA DeductInv == ASSUME Inv, NEW t \in Tasks, Deduct(t) PROVE Inv'
<1> USE DEF Inv
<1> DEFINE p == IF task[t].conn = None THEN "connect" ELSE "send"
<1>1. task[t].pc = "deduct" /\ task[t].drop = {} /\ p \in PCs
  BY DEF Deduct, PlacesOK, PCs
<1>2. UNCHANGED <<pool, conn, peer, reqs, rsps>>
  BY DEF Deduct, wireVars
<1>3. total' = total
  BY <1>1, FS_EmptySet DEF Deduct, TypeOK
<1>4. GoTo(t, p)
  <2>1. task' = [task EXCEPT ![t].drop = {}, ![t].pc = p]
    BY DEF Deduct
  <2>2. [task[t] EXCEPT !.drop = {}] = task[t]
    BY <1>1 DEF TypeOK, Tasklets
  <2>3. [task EXCEPT ![t].drop = {}, ![t].pc = p] = [task EXCEPT ![t].pc = p]
    BY <2>2 DEF TypeOK
  <2> QED BY <2>1, <2>3 DEF GoTo
<1>5. /\ PlacesOK' /\ InUse' = InUse
      /\ task' \in [Tasks -> Tasklets] /\ task'[t].pc = p /\ task'[t].conn = task[t].conn
      /\ \A u \in Tasks : task'[u].conn = task[u].conn
      /\ \A u \in Tasks \ {t} : task'[u] = task[u]
  BY <1>1, <1>2, <1>4, GoToPlaces DEF Without, With
<1>6. CountOK'
  <2>1. Wanting' = Wanting /\ Counting' = Counting /\ Uncounting' = Uncounting
    BY <1>1, <1>5 DEF Wanting, Counting, Uncounting
  <2> QED BY <1>3, <1>5, <2>1, SameCount
<1>7. WireOK'
  <2>1. WireTask(t)'
    BY <1>1, <1>2, <1>5 DEF WireOK, WireTask, Clean, Quiet
  <2> QED BY <1>2, <1>5, <2>1, SameReady, SameWire DEF WireOK
<1>8. TypeOK'
  BY <1>2, <1>3, <1>5 DEF TypeOK
<1> QED BY <1>5, <1>6, <1>7, <1>8

(* A new connection is one that nobody had, and is to be counted.            *)
LEMMA ConnectInv == ASSUME Inv, NEW t \in Tasks, Connect(t) PROVE Inv'
<1> USE DEF Inv
<1>1. PICK c \in Free :
        /\ conn' = [conn EXCEPT ![c] = [alive |-> TRUE, used |-> 0, torn |-> FALSE]]
        /\ peer' = [peer EXCEPT ![c] = "open"]
        /\ task' = [task EXCEPT ![t].pc = "count", ![t].conn = c]
  <2>1. Free # {}
    BY DEF Connect
  <2>2. (CHOOSE c \in Free : TRUE) \in Free
    BY <2>1
  <2> QED BY <2>2 DEF Connect
<1>2. /\ task[t].pc = "connect" /\ task[t].conn = None
      /\ UNCHANGED <<pool, total, reqs, rsps>>
  BY DEF Connect, PlacesOK
<1>3. c \in Conns /\ c \notin InUse /\ c # None
  BY PoolAssumption DEF Free, InUse
<1>4. /\ task' \in [Tasks -> Tasklets]
      /\ task'[t].pc = "count" /\ task'[t].conn = c /\ task'[t].drop = task[t].drop
      /\ task'[t].serial = task[t].serial /\ task'[t].got = task[t].got
      /\ \A u \in Tasks \ {t} : task'[u] = task[u]
  BY <1>1, <1>3 DEF TypeOK, Tasklets, PCs
<1>5. /\ conn' \in [Conns -> Connection] /\ peer' \in [Conns -> {"open", "closed"}]
      /\ conn'[c].alive /\ \A d \in Conns \ {c} : conn'[d] = conn[d]
  BY <1>1, <1>3 DEF TypeOK, Connection
<1>6. /\ \A i \in 1..Len(pool) : pool[i] # c /\ pool[i] \in Conns
      /\ \A u \in Tasks : task[u].conn # c
  BY <1>3 DEF InUse, Pooled, Held, TypeOK
<1>7. PlacesOK'
  BY <1>2, <1>3, <1>4, <1>6 DEF PlacesOK
<1>8. InUse' = InUse \cup {c}
  BY <1>2, <1>3, <1>4 DEF InUse, Pooled, Held
<1>9. /\ Wanting' = Wanting \ {t} /\ t \in Wanting
      /\ Counting' = Counting \cup {t} /\ t \notin Counting /\ Uncounting' = Uncounting
  BY <1>2, <1>3, <1>4 DEF Wanting, Counting, Uncounting
<1>10. CountOK'
  <2>1. Cardinality(InUse') = Cardinality(InUse) + 1
    BY <1>3, <1>8, FiniteUse, FS_AddElement
  <2>2. Cardinality(Wanting') = Cardinality(Wanting) - 1
    BY <1>9, FiniteUse, FS_RemoveElement
  <2>3. Cardinality(Counting') = Cardinality(Counting) + 1
    BY <1>9, FiniteUse, FS_AddElement
  <2> QED BY <1>2, <1>9, <2>1, <2>2, <2>3, FiniteUse DEF CountOK, TypeOK
<1>11. WireOK'
  <2>1. Quiet(c)
    BY <1>3 DEF WireOK, FreeQuiet
  <2>2. FreeQuiet'
    BY <1>2, <1>8 DEF WireOK, FreeQuiet, Clean, Quiet
  <2>3. PooledReady'
    BY <1>2, <1>5, <1>6 DEF WireOK, PooledReady, Ready, Clean, Quiet
  <2>4. WireTask(t)'
    BY <1>2, <1>4, <1>5, <2>1 DEF WireTask, Clean, Quiet
  <2>5. ASSUME NEW u \in Tasks, u # t PROVE WireTask(u)'
    <3>1. task'[u] = task[u] /\ WireTask(u)
      BY <1>4, <2>5 DEF WireOK
    <3>2. task[u].conn \in Conns => conn'[task[u].conn] = conn[task[u].conn]
      BY <1>5, <1>6
    <3>3. task[u].pc \in With => task[u].conn \in Conns
      BY TaskType DEF PlacesOK, With
    <3> QED BY <1>2, <3>1, <3>2, <3>3, TaskType
            DEF WireTask, Ready, Clean, Quiet, OnlyOwn, Request, With
  <2> QED BY <2>2, <2>3, <2>4, <2>5 DEF WireOK
<1>12. TypeOK'
  BY <1>2, <1>4, <1>5 DEF TypeOK, Connection
<1> QED BY <1>7, <1>10, <1>11, <1>12

LEMMA CountInv == ASSUME Inv, NEW t \in Tasks, Count(t) PROVE Inv'
<1> USE DEF Inv
<1>1. /\ task[t].pc = "count" /\ GoTo(t, "send") /\ task[t].conn # None
      /\ total' = total + 1
      /\ UNCHANGED <<pool, conn, peer, reqs, rsps>>
  BY DEF Count, wireVars, PlacesOK
<1>2. /\ PlacesOK' /\ InUse' = InUse
      /\ task' \in [Tasks -> Tasklets] /\ task'[t].pc = "send"
      /\ task'[t].conn = task[t].conn
      /\ \A u \in Tasks : task'[u].conn = task[u].conn
      /\ \A u \in Tasks \ {t} : task'[u] = task[u]
  BY <1>1, GoToPlaces DEF Without, With, PCs
<1>3. CountOK'
  <2>1. Wanting' = Wanting /\ Uncounting' = Uncounting
    BY <1>1, <1>2 DEF Wanting, Uncounting
  <2>2. Counting' = Counting \ {t} /\ t \in Counting
    BY <1>1, <1>2 DEF Counting
  <2>3. Cardinality(Counting') = Cardinality(Counting) - 1
    BY <2>2, FiniteUse, FS_RemoveElement
  <2>4. /\ Cardinality(Counting) \in Nat /\ Cardinality(Uncounting) \in Nat
        /\ Cardinality(InUse) \in Nat /\ total \in Int
    BY FiniteUse DEF TypeOK
  <2> QED BY <1>1, <1>2, <2>1, <2>3, <2>4 DEF CountOK
<1>4. WireOK'
  <2>1. WireTask(t)'
    BY <1>1, <1>2 DEF WireOK, WireTask, Clean, Quiet
  <2> QED BY <1>1, <1>2, <2>1, SameReady, SameWire DEF WireOK
<1>5. TypeOK'
  BY <1>1, <1>2 DEF TypeOK
<1> QED BY <1>2, <1>3, <1>4, <1>5

LEMMA ConnectFailsInv == ASSUME Inv, NEW t \in Tasks, ConnectFails(t) PROVE Inv'
<1> USE DEF Inv
<1>1. /\ task[t].pc = "connect" /\ GoTo(t, "idle") /\ task[t].conn = None
      /\ UNCHANGED <<pool, total, conn, peer, reqs, rsps>>
  BY DEF ConnectFails, wireVars, PlacesOK
<1>2. /\ PlacesOK' /\ InUse' = InUse
      /\ task' \in [Tasks -> Tasklets] /\ task'[t].pc = "idle"
      /\ \A u \in Tasks : task'[u].conn = task[u].conn
      /\ \A u \in Tasks \ {t} : task'[u] = task[u]
  BY <1>1, GoToPlaces DEF Without, With, PCs
<1>3. CountOK'
  <2>1. /\ Wanting' = Wanting \ {t} /\ t \in Wanting
        /\ Counting' = Counting /\ Uncounting' = Uncounting
    BY <1>1, <1>2 DEF Wanting, Counting, Uncounting
  <2>2. Cardinality(Wanting') = Cardinality(Wanting) - 1
    BY <2>1, FiniteUse, FS_RemoveElement
  <2> QED BY <1>1, <1>2, <2>1, <2>2, FiniteUse DEF CountOK
<1>4. WireOK'
  <2>1. WireTask(t)'
    BY <1>2 DEF WireTask
  <2> QED BY <1>1, <1>2, <2>1, SameReady, SameWire DEF WireOK
<1>5. TypeOK'
  BY <1>1, <1>2 DEF TypeOK
<1> QED BY <1>2, <1>3, <1>4, <1>5
-----------------------------------------------------------------------------
(* What happens on the connection of one fiber concerns nobody else.         *)
LEMMA OthersWire ==
  ASSUME TypeOK, PlacesOK, WireOK, NEW t \in Tasks, task[t].conn # None,
         \A d \in Conns \ {task[t].conn} :
           conn'[d] = conn[d] /\ reqs'[d] = reqs[d] /\ rsps'[d] = rsps[d],
         pool' = pool, InUse' = InUse, \A u \in Tasks \ {t} : task'[u] = task[u]
  PROVE  /\ FreeQuiet' /\ PooledReady'
         /\ \A u \in Tasks \ {t} : WireTask(u)'
<1>1. task[t].conn \in InUse
  BY DEF InUse, Held
<1>2. FreeQuiet'
  BY <1>1 DEF WireOK, FreeQuiet, Clean, Quiet
<1>3. PooledReady'
  <2>1. \A i \in 1..Len(pool) : pool[i] \in Conns \ {task[t].conn}
    BY DEF TypeOK, PlacesOK
  <2> QED BY <2>1 DEF WireOK, PooledReady, Ready, Clean, Quiet
<1>4. ASSUME NEW u \in Tasks \ {t} PROVE WireTask(u)'
  <2>1. task'[u] = task[u] /\ WireTask(u)
    BY DEF WireOK
  <2>2. task[u].pc \in With => task[u].conn \in Conns \ {task[t].conn}
    BY TaskType DEF PlacesOK, With
  <2>3. task[u].conn # None => task[u].conn \in Conns \ {task[t].conn}
    BY TaskType DEF PlacesOK
  <2> QED BY <2>1, <2>2, <2>3 DEF WireTask, Ready, Clean, Quiet, OnlyOwn, Request, With
<1> QED BY <1>2, <1>3, <1>4

LEMMA SendInv == ASSUME Inv, NEW t \in Tasks, Send(t) PROVE Inv'
<1> USE DEF Inv
<1> DEFINE c == task[t].conn
<1>1. /\ task[t].pc = "send" /\ GoTo(t, "recv") /\ c \in Conns /\ c # None
      /\ UNCHANGED <<pool, total, conn, peer, rsps>>
  BY TaskType DEF Send, PlacesOK
<1>2. /\ PlacesOK' /\ InUse' = InUse
      /\ task' \in [Tasks -> Tasklets] /\ task'[t].pc = "recv" /\ task'[t].conn = c
      /\ Request(t)' = Request(t)
      /\ \A u \in Tasks : task'[u].conn = task[u].conn
      /\ \A u \in Tasks \ {t} : task'[u] = task[u]
  BY <1>1, GoToPlaces DEF Without, With, PCs
<1>3. Wanting' = Wanting /\ Counting' = Counting /\ Uncounting' = Uncounting
  BY <1>1, <1>2, SameWant
<1>4. /\ Request(t) \in Messages
      /\ reqs' \in [Conns -> Seq(Messages)] /\ \A d \in Conns \ {c} : reqs'[d] = reqs[d]
  <2>1. Request(t) \in Messages
    BY TaskType DEF Request, Requests, Messages
  <2>2. Append(reqs[c], Request(t)) \in Seq(Messages)
    BY <1>1, <2>1, AppendProperties DEF TypeOK
  <2>3. CASE peer[c] = "open"
    <3>1. reqs' = [reqs EXCEPT ![c] = Append(@, Request(t))]
      BY <2>3 DEF Send
    <3> QED BY <1>1, <2>1, <2>2, <3>1 DEF TypeOK
  <2>4. CASE peer[c] # "open"
    BY <2>1, <2>4 DEF Send, TypeOK
  <2> QED BY <2>3, <2>4
<1>5. conn[c].alive /\ Clean(c)
  BY <1>1 DEF WireOK, WireTask
<1>6. conn[c].torn \/ (rsps[c] = <<>> /\ (reqs'[c] = <<>> \/ reqs'[c] = <<Request(t)>>))
  <2> SUFFICES ASSUME reqs[c] = <<>>, rsps[c] = <<>>
               PROVE  reqs'[c] = <<>> \/ reqs'[c] = <<Request(t)>>
    BY <1>5 DEF Clean, Quiet
  <2>1. CASE peer[c] = "open"
    <3>1. reqs' = [reqs EXCEPT ![c] = Append(@, Request(t))]
      BY <2>1 DEF Send
    <3>2. Append(reqs[c], Request(t)) = <<Request(t)>>
      OBVIOUS
    <3> QED BY <1>1, <3>1, <3>2 DEF TypeOK
  <2>2. CASE peer[c] # "open"
    BY <2>2 DEF Send
  <2> QED BY <2>1, <2>2
<1>7. WireOK'
  <2>1. WireTask(t)'
    BY <1>1, <1>2, <1>5, <1>6 DEF WireTask, OnlyOwn, Clean, Quiet
  <2>2. FreeQuiet' /\ PooledReady' /\ \A u \in Tasks \ {t} : WireTask(u)'
    BY <1>1, <1>2, <1>4, OthersWire
  <2> QED BY <2>1, <2>2 DEF WireOK
<1>8. CountOK'
  BY <1>1, <1>2, <1>3, SameCount
<1>9. TypeOK'
  BY <1>1, <1>2, <1>4 DEF TypeOK
<1> QED BY <1>2, <1>7, <1>8, <1>9

(* A part of a request may be left on the connection, which is torn then.    *)
LEMMA SendFailsInv == ASSUME Inv, NEW t \in Tasks, SendFails(t) PROVE Inv'
<1> USE DEF Inv
<1> DEFINE c == task[t].conn
<1>1. /\ task[t].pc = "send" /\ GoTo(t, "release") /\ c \in Conns /\ c # None
      /\ UNCHANGED <<pool, total, peer, rsps>>
  BY TaskType DEF SendFails, PlacesOK
<1>2. /\ PlacesOK' /\ InUse' = InUse
      /\ task' \in [Tasks -> Tasklets] /\ task'[t].pc = "release" /\ task'[t].conn = c
      /\ \A u \in Tasks : task'[u].conn = task[u].conn
      /\ \A u \in Tasks \ {t} : task'[u] = task[u]
  BY <1>1, GoToPlaces DEF Without, With, PCs
<1>3. Wanting' = Wanting /\ Counting' = Counting /\ Uncounting' = Uncounting
  BY <1>1, <1>2, SameWant
<1>4. /\ conn' \in [Conns -> Connection] /\ reqs' \in [Conns -> Seq(Messages)]
      /\ \A d \in Conns \ {c} : conn'[d] = conn[d] /\ reqs'[d] = reqs[d]
      /\ (conn'[c] = conn[c] /\ reqs'[c] = reqs[c]) \/ conn'[c].torn
  <2>1. CASE UNCHANGED <<conn, reqs>>
    BY <2>1 DEF TypeOK, Connection
  <2>2. CASE /\ reqs' = [reqs EXCEPT ![c] = Append(@, Part)]
             /\ conn' = [conn EXCEPT ![c].torn = TRUE]
    <3>1. Append(reqs[c], Part) \in Seq(Messages)
      BY <1>1, AppendProperties DEF TypeOK, Messages
    <3> QED BY <1>1, <2>2, <3>1 DEF TypeOK, Connection
  <2> QED BY <2>1, <2>2 DEF SendFails
<1>5. WireOK'
  <2>1. Clean(c)
    BY <1>1 DEF WireOK, WireTask
  <2>2. WireTask(t)'
    BY <1>1, <1>2, <1>4, <2>1 DEF WireTask, Clean, Quiet
  <2>3. FreeQuiet' /\ PooledReady' /\ \A u \in Tasks \ {t} : WireTask(u)'
    BY <1>1, <1>2, <1>4, OthersWire
  <2> QED BY <2>2, <2>3 DEF WireOK
<1>6. CountOK'
  BY <1>1, <1>2, <1>3, SameCount
<1>7. TypeOK'
  BY <1>1, <1>2, <1>4 DEF TypeOK, Connection
<1> QED BY <1>2, <1>5, <1>6, <1>7

(* What arrives is the answer to the fiber's own request, or the connection  *)
(* is torn.                                                                  *)
LEMMA AnswerIsOwn ==
  ASSUME Inv, NEW t \in Tasks, Receive(t), ~conn[task[t].conn].torn
  PROVE  /\ Head(rsps[task[t].conn]) = Request(t) /\ Tail(rsps[task[t].conn]) = <<>>
         /\ reqs[task[t].conn] = <<>>
<1>1. task[t].pc = "recv" /\ rsps[task[t].conn] # <<>>
  BY DEF Receive
<1>2. reqs[task[t].conn] = <<>> /\ rsps[task[t].conn] = <<Request(t)>>
  BY <1>1 DEF Inv, WireOK, WireTask, OnlyOwn, Clean, Quiet
<1> QED BY <1>2

LEMMA ReceiveInv == ASSUME Inv, NEW t \in Tasks, Receive(t) PROVE Inv'
<1> USE DEF Inv
<1> DEFINE c == task[t].conn
<1>1. /\ task[t].pc = "recv" /\ rsps[c] # <<>> /\ c \in Conns /\ c # None
      /\ task' = [task EXCEPT ![t].pc = "release", ![t].got = Head(rsps[c])]
      /\ rsps' = [rsps EXCEPT ![c] = Tail(@)]
      /\ UNCHANGED <<pool, total, conn, peer, reqs>>
  BY TaskType DEF Receive, PlacesOK
<1>2. Head(rsps[c]) \in Messages /\ Tail(rsps[c]) \in Seq(Messages)
  BY <1>1, HeadTailProperties DEF TypeOK
<1>3. conn[c].torn \/ (reqs[c] = <<>> /\ Tail(rsps[c]) = <<>>)
  BY AnswerIsOwn
<1>4. /\ task' \in [Tasks -> Tasklets]
      /\ task'[t].pc = "release" /\ task'[t].conn = c
      /\ task'[t].drop = task[t].drop /\ task'[t].serial = task[t].serial
      /\ \A u \in Tasks \ {t} : task'[u] = task[u]
  <2> DEFINE m == Head(rsps[c])
  <2>1. task' = [task EXCEPT ![t].pc = "release", ![t].got = m] /\ m \in Messages
    BY <1>1, <1>2
  <2> HIDE DEF m
  <2>2. task \in [Tasks -> Tasklets]
    BY DEF TypeOK
  <2>3. [task[t] EXCEPT !.pc = "release", !.got = m] \in Tasklets
    BY <2>1, <2>2 DEF Tasklets, PCs
  <2>4. task' \in [Tasks -> Tasklets]
    BY <2>1, <2>2, <2>3
  <2>5. /\ task'[t].pc = "release" /\ task'[t].conn = c
        /\ task'[t].drop = task[t].drop /\ task'[t].serial = task[t].serial
    BY <2>1, <2>2 DEF Tasklets
  <2>6. \A u \in Tasks \ {t} : task'[u] = task[u]
    BY <2>1, <2>2
  <2> QED BY <2>4, <2>5, <2>6
<1>5. /\ rsps' \in [Conns -> Seq(Messages)] /\ rsps'[c] = Tail(rsps[c])
      /\ \A d \in Conns \ {c} : rsps'[d] = rsps[d]
  BY <1>1, <1>2 DEF TypeOK
<1>6. PlacesOK'
  BY <1>1, <1>4 DEF PlacesOK
<1>7. /\ InUse' = InUse /\ Wanting' = Wanting
      /\ Counting' = Counting /\ Uncounting' = Uncounting
  BY <1>1, <1>4, SameUse, SameWant
<1>8. WireOK'
  <2>1. WireTask(t)'
    BY <1>1, <1>3, <1>4, <1>5 DEF WireTask, Clean, Quiet
  <2>2. FreeQuiet' /\ PooledReady' /\ \A u \in Tasks \ {t} : WireTask(u)'
    BY <1>1, <1>4, <1>5, <1>7, OthersWire
  <2> QED BY <2>1, <2>2 DEF WireOK
<1>9. CountOK'
  BY <1>1, <1>7, SameCount
<1>10. TypeOK'
  BY <1>1, <1>4, <1>5 DEF TypeOK
<1> QED BY <1>6, <1>8, <1>9, <1>10

(* Nothing arrives, and the connection is closed.                            *)
LEMMA ReceiveFailsInv == ASSUME Inv, NEW t \in Tasks, ReceiveFails(t) PROVE Inv'
<1> USE DEF Inv
<1> DEFINE c == task[t].conn
<1>1. /\ task[t].pc = "recv" /\ GoTo(t, "release") /\ c \in Conns /\ c # None
      /\ conn' = [conn EXCEPT ![c].alive = FALSE]
      /\ UNCHANGED <<pool, total, peer, reqs, rsps>>
  BY TaskType DEF ReceiveFails, ReceiveNothing, wireVars, PlacesOK
<1>2. /\ PlacesOK' /\ InUse' = InUse
      /\ task' \in [Tasks -> Tasklets] /\ task'[t].pc = "release" /\ task'[t].conn = c
      /\ \A u \in Tasks : task'[u].conn = task[u].conn
      /\ \A u \in Tasks \ {t} : task'[u] = task[u]
  BY <1>1, GoToPlaces DEF Without, With, PCs
<1>3. Wanting' = Wanting /\ Counting' = Counting /\ Uncounting' = Uncounting
  BY <1>1, <1>2, SameWant
<1>4. /\ conn' \in [Conns -> Connection] /\ ~conn'[c].alive
      /\ \A d \in Conns \ {c} : conn'[d] = conn[d]
  BY <1>1 DEF TypeOK, Connection
<1>5. WireOK'
  <2>1. WireTask(t)'
    BY <1>2, <1>4 DEF WireTask
  <2>2. FreeQuiet' /\ PooledReady' /\ \A u \in Tasks \ {t} : WireTask(u)'
    BY <1>1, <1>2, <1>4, OthersWire
  <2> QED BY <2>1, <2>2 DEF WireOK
<1>6. CountOK'
  BY <1>1, <1>2, <1>3, SameCount
<1>7. TypeOK'
  BY <1>1, <1>2, <1>4 DEF TypeOK, Connection
<1> QED BY <1>2, <1>5, <1>6, <1>7

(* The connection is put back only if it is alive, with requests left.       *)
LEMMA ReleaseInv == ASSUME Inv, NEW t \in Tasks, Release(t) PROVE Inv'
<1> USE DEF Inv
<1> DEFINE c == task[t].conn
           used == conn[c].used + 1
           p == IF ~conn[c].alive \/ used >= MaxRequest THEN "delete" ELSE "put"
<1>1. /\ task[t].pc = "release" /\ c \in Conns /\ c # None
      /\ conn' = [conn EXCEPT ![c].used = used]
      /\ UNCHANGED <<pool, total, peer, reqs, rsps>>
  BY TaskType DEF Release, ReleaseWithLimit, wireVars, PlacesOK
<1>2. GoTo(t, p) /\ p \in PCs /\ p \in With
  BY NotAged DEF Release, ReleaseWithLimit, PCs, With
<1>3. p = "put" => conn[c].alive /\ used < MaxRequest
  BY <1>1, PoolAssumption DEF TypeOK
<1>4. /\ conn' \in [Conns -> Connection]
      /\ conn'[c].alive = conn[c].alive /\ conn'[c].used = used
      /\ conn'[c].torn = conn[c].torn
      /\ \A d \in Conns \ {c} : conn'[d] = conn[d]
  <2>1. conn \in [Conns -> Connection] /\ conn[c] \in Connection
    BY <1>1 DEF TypeOK, Connection
  <2>2. used \in Nat
    BY <2>1 DEF Connection
  <2>3. c \in Conns /\ conn' = [conn EXCEPT ![c].used = used]
    BY <1>1
  <2> HIDE DEF c, used
  <2> QED
    BY <2>1, <2>2, <2>3 DEF Connection
<1> HIDE DEF p
<1>5. /\ PlacesOK' /\ InUse' = InUse
      /\ task' \in [Tasks -> Tasklets] /\ task'[t].pc = p /\ task'[t].conn = c
      /\ \A u \in Tasks : task'[u].conn = task[u].conn
      /\ \A u \in Tasks \ {t} : task'[u] = task[u]
  BY <1>1, <1>2, GoToPlaces DEF Without, With
<1>6. Wanting' = Wanting /\ Counting' = Counting /\ Uncounting' = Uncounting
  BY <1>1, <1>5, SameWant DEF p
<1>7. WireOK'
  <2>1. conn[c].alive => Clean(c)
    BY <1>1 DEF WireOK, WireTask
  <2>2. WireTask(t)'
    BY <1>1, <1>2, <1>3, <1>4, <1>5, <2>1 DEF WireTask, Ready, Clean, Quiet, p
  <2>3. FreeQuiet' /\ PooledReady' /\ \A u \in Tasks \ {t} : WireTask(u)'
    BY <1>1, <1>4, <1>5, OthersWire
  <2> QED BY <2>2, <2>3 DEF WireOK
<1>8. CountOK'
  BY <1>1, <1>5, <1>6, SameCount
<1>9. TypeOK'
  BY <1>1, <1>4, <1>5 DEF TypeOK, Connection
<1> QED BY <1>5, <1>7, <1>8, <1>9

LEMMA PutInv == ASSUME Inv, NEW t \in Tasks, Put(t) PROVE Inv'
<1> USE DEF Inv
<1> DEFINE c == task[t].conn
<1>1. /\ task[t].pc = "put" /\ c \in Conns /\ c # None
      /\ task' = [task EXCEPT ![t].pc = "idle", ![t].conn = None]
      /\ pool' = Append(pool, c)
      /\ UNCHANGED <<total, conn, peer, reqs, rsps>>
  BY TaskType DEF Put, wireVars, PlacesOK
<1>2. /\ task' \in [Tasks -> Tasklets]
      /\ task'[t].pc = "idle" /\ task'[t].conn = None /\ task'[t].drop = task[t].drop
      /\ task'[t].serial = task[t].serial /\ task'[t].got = task[t].got
      /\ \A u \in Tasks \ {t} : task'[u] = task[u]
  BY <1>1 DEF TypeOK, Tasklets, PCs
<1>3. /\ pool' \in Seq(Conns) /\ Len(pool') = Len(pool) + 1 /\ Len(pool) \in Nat
      /\ pool'[Len(pool) + 1] = c
      /\ \A i \in 1..Len(pool) : pool'[i] = pool[i]
  BY <1>1, AppendProperties DEF TypeOK
<1>4. \A i \in 1..Len(pool') : i \in 1..Len(pool) \/ i = Len(pool) + 1
  BY <1>3
<1>5. PlacesOK'
  <2>1. \A i, j \in 1..Len(pool') : pool'[i] = pool'[j] => i = j
    BY <1>3, <1>4 DEF PlacesOK
  <2>2. \A i \in 1..Len(pool'), u \in Tasks : task'[u].conn # pool'[i]
    <3>1. \A i \in 1..Len(pool) : pool[i] \in Conns
      BY DEF TypeOK
    <3>2. ASSUME NEW i \in 1..Len(pool'), NEW u \in Tasks PROVE task'[u].conn # pool'[i]
      <4>1. pool'[i] \in Conns
        BY <1>1, <1>3, <1>4, <3>1
      <4>2. CASE u = t
        BY <1>2, <4>1, <4>2, PoolAssumption
      <4>3. CASE u # t
        BY <1>1, <1>2, <1>3, <1>4, <4>3 DEF PlacesOK
      <4> QED BY <4>2, <4>3
    <3> QED BY <3>2
  <2> QED BY <1>2, <2>1, <2>2 DEF PlacesOK
<1>6. InUse' = InUse
  <2>1. Pooled' = Pooled \cup {c}
    <3>1. Pooled' \subseteq Pooled \cup {c}
      BY <1>3, <1>4 DEF Pooled
    <3>2. Pooled \subseteq Pooled'
      BY <1>3 DEF Pooled
    <3>3. c \in Pooled'
      BY <1>3 DEF Pooled
    <3> QED BY <3>1, <3>2, <3>3
  <2>2. Held = Held' \cup {c}
    BY <1>1, <1>2 DEF Held
  <2> QED BY <2>1, <2>2 DEF InUse
<1>7. Wanting' = Wanting /\ Counting' = Counting /\ Uncounting' = Uncounting
  BY <1>1, <1>2 DEF Wanting, Counting, Uncounting
<1>8. CountOK'
  BY <1>1, <1>6, <1>7, SameCount
<1>9. WireOK'
  <2>1. Ready(c) /\ \A d : Ready(d)' = Ready(d)
    BY <1>1 DEF WireOK, WireTask, Ready, Clean, Quiet
  <2>2. PooledReady'
    BY <1>3, <1>4, <2>1 DEF WireOK, PooledReady
  <2>3. FreeQuiet'
    BY <1>1, <1>6 DEF WireOK, FreeQuiet, Clean, Quiet
  <2>4. WireTask(t)'
    BY <1>2 DEF WireTask
  <2> QED BY <1>1, <1>2, <2>2, <2>3, <2>4, SameWire DEF WireOK
<1>10. TypeOK'
  BY <1>1, <1>2, <1>3 DEF TypeOK
<1> QED BY <1>5, <1>8, <1>9, <1>10

LEMMA DeleteInv == ASSUME Inv, NEW t \in Tasks, Delete(t) PROVE Inv'
<1> USE DEF Inv
<1> DEFINE c == task[t].conn
<1>1. /\ task[t].pc = "delete" /\ c \in Conns /\ c # None
      /\ task' = [task EXCEPT ![t].pc = "uncount", ![t].conn = None]
      /\ total' = total /\ pool' = pool /\ Destroy({c})
  BY TaskType DEF Delete, PlacesOK
<1>2. /\ task' \in [Tasks -> Tasklets]
      /\ task'[t].pc = "uncount" /\ task'[t].conn = None /\ task'[t].drop = task[t].drop
      /\ task'[t].serial = task[t].serial /\ task'[t].got = task[t].got
      /\ \A u \in Tasks \ {t} : task'[u] = task[u]
  BY <1>1 DEF TypeOK, Tasklets, PCs
<1>3. /\ conn' \in [Conns -> Connection] /\ peer' \in [Conns -> {"open", "closed"}]
      /\ \A d \in Conns \ {c} : conn'[d] = conn[d]
  BY <1>1 DEF TypeOK, Connection, Destroy
<1>4. /\ reqs' \in [Conns -> Seq(Messages)] /\ rsps' \in [Conns -> Seq(Messages)]
      /\ reqs'[c] = <<>> /\ rsps'[c] = <<>>
      /\ \A d \in Conns \ {c} : reqs'[d] = reqs[d] /\ rsps'[d] = rsps[d]
  BY <1>1 DEF TypeOK, Destroy
<1>5. PlacesOK'
  <2>1. \A i \in 1..Len(pool) : pool[i] \in Conns
    BY DEF TypeOK
  <2> QED BY <1>1, <1>2, <2>1, PoolAssumption DEF PlacesOK
<1>6. InUse' = InUse \ {c} /\ c \in InUse
  <2>1. Held' = Held \ {c} /\ c \in Held
    BY <1>1, <1>2 DEF Held, PlacesOK
  <2>2. Pooled' = Pooled /\ c \notin Pooled
    BY <1>1 DEF Pooled, PlacesOK
  <2> QED BY <2>1, <2>2 DEF InUse
<1>7. /\ Wanting' = Wanting /\ Counting' = Counting
      /\ Uncounting' = Uncounting \cup {t} /\ t \notin Uncounting
  BY <1>1, <1>2 DEF Wanting, Counting, Uncounting
<1>8. CountOK'
  <2>1. Cardinality(InUse') = Cardinality(InUse) - 1
    BY <1>6, FiniteUse, FS_RemoveElement
  <2>2. Cardinality(Uncounting') = Cardinality(Uncounting) + 1
    BY <1>7, FiniteUse, FS_AddElement
  <2>3. total' + Cardinality(Counting') = Cardinality(InUse') + Cardinality(Uncounting')
    BY <1>1, <1>7, <2>1, <2>2, FiniteUse DEF CountOK, TypeOK
  <2>4. Cardinality(InUse') + Cardinality(Wanting') <= Cardinality(Tasks)
    BY <1>7, <2>1, FiniteUse DEF CountOK
  <2> QED BY <2>3, <2>4 DEF CountOK
<1>9. WireOK'
  <2>1. WireTask(t)'
    BY <1>2 DEF WireTask
  <2>2. FreeQuiet'
    BY <1>4, <1>6 DEF WireOK, FreeQuiet, Clean, Quiet
  <2>3. PooledReady'
    <3>1. \A i \in 1..Len(pool) : pool[i] \in Conns \ {c}
      BY DEF TypeOK, PlacesOK
    <3> QED BY <1>1, <1>3, <1>4, <3>1 DEF WireOK, PooledReady, Ready, Clean, Quiet
  <2>4. ASSUME NEW u \in Tasks \ {t} PROVE WireTask(u)'
    <3>1. task'[u] = task[u] /\ WireTask(u)
      BY <1>2 DEF WireOK
    <3>2. task[u].pc \in With => task[u].conn \in Conns \ {c}
      BY TaskType DEF PlacesOK, With
    <3>3. task[u].conn # None => task[u].conn \in Conns \ {c}
      BY TaskType DEF PlacesOK
    <3> DEFINE d == task[u].conn
    <3>4. task'[u].conn = d /\ task'[u].pc = task[u].pc /\ Request(u)' = Request(u)
      BY <3>1 DEF Request
    <3>5. d \in Conns \ {c} =>
            /\ conn'[d] = conn[d] /\ reqs'[d] = reqs[d] /\ rsps'[d] = rsps[d]
      BY <1>3, <1>4
    <3>6. d \in Conns \ {c} =>
            /\ Clean(d)' = Clean(d) /\ Ready(d)' = Ready(d) /\ OnlyOwn(u, d)' = OnlyOwn(u, d)
      BY <3>4, <3>5 DEF Clean, Quiet, Ready, OnlyOwn
    <3> QED BY <3>1, <3>2, <3>3, <3>4, <3>5, <3>6 DEF WireTask, With
  <2> QED BY <2>1, <2>2, <2>3, <2>4 DEF WireOK
<1>10. TypeOK'
  BY <1>1, <1>2, <1>3, <1>4 DEF TypeOK, Connection
<1> QED BY <1>5, <1>8, <1>9, <1>10

LEMMA UncountInv == ASSUME Inv, NEW t \in Tasks, Uncount(t) PROVE Inv'
<1> USE DEF Inv
<1>1. /\ task[t].pc = "uncount" /\ GoTo(t, "idle") /\ task[t].conn = None
      /\ total' = total - 1
      /\ UNCHANGED <<pool, conn, peer, reqs, rsps>>
  BY DEF Uncount, wireVars, PlacesOK
<1>2. /\ PlacesOK' /\ InUse' = InUse
      /\ task' \in [Tasks -> Tasklets] /\ task'[t].pc = "idle"
      /\ task'[t].conn = task[t].conn
      /\ \A u \in Tasks : task'[u].conn = task[u].conn
      /\ \A u \in Tasks \ {t} : task'[u] = task[u]
  BY <1>1, GoToPlaces DEF Without, With, PCs
<1>3. CountOK'
  <2>1. Wanting' = Wanting /\ Counting' = Counting
    BY <1>1, <1>2 DEF Wanting, Counting
  <2>2. Uncounting' = Uncounting \ {t} /\ t \in Uncounting
    BY <1>1, <1>2 DEF Uncounting
  <2>3. Cardinality(Uncounting') = Cardinality(Uncounting) - 1
    BY <2>2, FiniteUse, FS_RemoveElement
  <2> QED BY <1>1, <1>2, <2>1, <2>3, FiniteUse DEF CountOK, TypeOK
<1>4. WireOK'
  <2>1. WireTask(t)'
    BY <1>2 DEF WireTask
  <2> QED BY <1>1, <1>2, <2>1, SameReady, SameWire DEF WireOK
<1>5. TypeOK'
  BY <1>1, <1>2 DEF TypeOK
<1> QED BY <1>2, <1>3, <1>4, <1>5
-----------------------------------------------------------------------------
(* The server changes what is under way, and who has which connection stays. *)
LEMMA ServerFrame ==
  ASSUME Inv, UNCHANGED <<pool, total, conn, task>>
  PROVE  PlacesOK' /\ CountOK' /\ InUse' = InUse
<1>1. /\ InUse' = InUse /\ Wanting' = Wanting
      /\ Counting' = Counting /\ Uncounting' = Uncounting
  BY DEF InUse, Pooled, Held, Wanting, Counting, Uncounting
<1> QED BY <1>1 DEF Inv, PlacesOK, CountOK

(* Where nothing is under way the server adds nothing, and it makes of the   *)
(* request of a fiber at most its answer.                                    *)
LEMMA ServerWire ==
  ASSUME Inv, NEW c \in Conns, UNCHANGED <<pool, total, conn, task>>,
         \A d \in Conns \ {c} : reqs'[d] = reqs[d] /\ rsps'[d] = rsps[d],
         Quiet(c) => Quiet(c)',
         \A t \in Tasks : OnlyOwn(t, c) => OnlyOwn(t, c)'
  PROVE  WireOK'
<1>1. InUse' = InUse
  BY ServerFrame
<1>2. \A d \in Conns : (Quiet(d) => Quiet(d)') /\ (Clean(d) => Clean(d)')
  BY DEF Clean, Quiet
<1>3. FreeQuiet'
  BY <1>1, <1>2 DEF Inv, WireOK, FreeQuiet
<1>4. PooledReady'
  <2>1. \A i \in 1..Len(pool) : pool[i] \in Conns
    BY DEF Inv, TypeOK
  <2>2. \A d \in Conns : Ready(d) => Ready(d)'
    BY <1>2 DEF Ready
  <2> QED BY <2>1, <2>2 DEF Inv, WireOK, PooledReady
<1>5. ASSUME NEW t \in Tasks PROVE WireTask(t)'
  <2>1. WireTask(t) /\ task'[t] = task[t] /\ conn' = conn
    BY DEF Inv, WireOK
  <2>2. task[t].conn # None => task[t].conn \in Conns
    BY TaskType DEF Inv
  <2>3. task[t].pc \in With => task[t].conn \in Conns
    BY <2>2 DEF Inv, PlacesOK, With
  <2>4. \A d \in Conns : OnlyOwn(t, d) => OnlyOwn(t, d)'
    BY <2>1 DEF OnlyOwn, Clean, Quiet, Request
  <2>5. \A d \in Conns : (Ready(d) => Ready(d)') /\ (Clean(d) => Clean(d)')
    BY <1>2 DEF Ready
  <2> DEFINE d == task[t].conn
  <2>6. task'[t].conn = d /\ task'[t].pc = task[t].pc
    BY <2>1
  <2>7. CASE d \in Conns
    <3>1. /\ OnlyOwn(t, d) => OnlyOwn(t, d)'
          /\ Ready(d) => Ready(d)'
          /\ Clean(d) => Clean(d)'
      BY <2>4, <2>5, <2>6, <2>7
    <3> QED BY <2>1, <2>6, <3>1 DEF WireTask
  <2>8. CASE d \notin Conns
    BY <2>1, <2>2, <2>3, <2>6, <2>8 DEF WireTask, With
  <2> QED BY <2>7, <2>8
<1> QED BY <1>3, <1>4, <1>5 DEF WireOK

LEMMA ServeInv ==
  ASSUME Inv, NEW c \in Conns, NEW keep \in BOOLEAN, Serve(c, keep) PROVE Inv'
<1> DEFINE n == IF Head(reqs[c]) = Part THEN 2 ELSE 1
<1>1. /\ reqs[c] # <<>> /\ n \in 1..Len(reqs[c]) /\ UNCHANGED <<pool, total, conn, task>>
      /\ rsps' = [rsps EXCEPT ![c] = Append(@, Head(reqs[c]))]
      /\ reqs' = [reqs EXCEPT ![c] = SubSeq(@, n + 1, Len(@))]
      /\ peer' = [peer EXCEPT ![c] = IF keep THEN "open" ELSE "closed"]
  BY DEF Serve
<1>2. /\ reqs \in [Conns -> Seq(Messages)] /\ rsps \in [Conns -> Seq(Messages)]
      /\ peer \in [Conns -> {"open", "closed"}]
  BY DEF Inv, TypeOK
<1>3. Head(reqs[c]) \in Messages /\ SubSeq(reqs[c], n + 1, Len(reqs[c])) \in Seq(Messages)
  <2>1. reqs[c] \in Seq(Messages) /\ n \in {1, 2}
    BY <1>2
  <2>2. Head(reqs[c]) \in Messages
    BY <1>1, <2>1, HeadTailProperties
  <2> HIDE DEF n
  <2>3. \A i \in (n + 1)..Len(reqs[c]) : reqs[c][i] \in Messages
    BY <2>1, ElementOfSeq
  <2> QED BY <2>1, <2>2, <2>3, SubSeqProperties
<1>4. /\ reqs' \in [Conns -> Seq(Messages)] /\ rsps' \in [Conns -> Seq(Messages)]
      /\ peer' \in [Conns -> {"open", "closed"}]
      /\ reqs'[c] = SubSeq(reqs[c], n + 1, Len(reqs[c]))
      /\ rsps'[c] = Append(rsps[c], Head(reqs[c]))
      /\ \A d \in Conns \ {c} : reqs'[d] = reqs[d] /\ rsps'[d] = rsps[d]
  <2>1. Append(rsps[c], Head(reqs[c])) \in Seq(Messages)
    BY <1>2, <1>3, AppendProperties
  <2> HIDE DEF n
  <2> QED BY <1>1, <1>2, <1>3, <2>1
<1>5. ASSUME NEW t \in Tasks, OnlyOwn(t, c) PROVE OnlyOwn(t, c)'
  <2>1. CASE conn[c].torn
    BY <1>1, <2>1 DEF OnlyOwn, Clean
  <2>2. CASE ~conn[c].torn
    <3>1. reqs[c] = <<Request(t)>> /\ rsps[c] = <<>>
      BY <1>1, <1>5, <2>2 DEF OnlyOwn, Clean, Quiet
    <3>2. Request(t)' = Request(t)
      BY <1>1 DEF Request
    <3>3. Head(reqs[c]) = Request(t) /\ Len(reqs[c]) = 1
      BY <3>1
    <3>4. Request(t) # Part
      BY PoolAssumption DEF Request, Part
    <3>5. n = 1
      BY <3>3, <3>4
    <3>6. SubSeq(reqs[c], 2, 1) = <<>> /\ Append(rsps[c], Head(reqs[c])) = <<Request(t)>>
      BY <3>1, <3>3
    <3> HIDE DEF n
    <3>7. reqs'[c] = <<>> /\ rsps'[c] = <<Request(t)>>
      BY <1>4, <3>3, <3>5, <3>6
    <3> QED BY <3>2, <3>7 DEF OnlyOwn
  <2> QED BY <2>1, <2>2
<1>6. WireOK'
  BY <1>1, <1>4, <1>5, ServerWire DEF Quiet
<1>7. TypeOK'
  BY <1>1, <1>4 DEF Inv, TypeOK
<1> QED BY <1>1, <1>6, <1>7, ServerFrame DEF Inv

LEMMA HangUpInv == ASSUME Inv, NEW c \in Conns, HangUp(c) PROVE Inv'
<1>1. /\ UNCHANGED <<pool, total, conn, rsps, task>>
      /\ peer' = [peer EXCEPT ![c] = "closed"]
      /\ reqs' = [reqs EXCEPT ![c] = <<>>]
  BY DEF HangUp
<1>2. /\ reqs' \in [Conns -> Seq(Messages)] /\ peer' \in [Conns -> {"open", "closed"}]
      /\ reqs'[c] = <<>> /\ \A d \in Conns \ {c} : reqs'[d] = reqs[d]
  BY <1>1 DEF Inv, TypeOK
<1>3. WireOK'
  <2>1. Quiet(c) => Quiet(c)'
    BY <1>1, <1>2 DEF Quiet
  <2>2. \A t \in Tasks : OnlyOwn(t, c) => OnlyOwn(t, c)'
    BY <1>1, <1>2 DEF OnlyOwn, Clean, Quiet, Request
  <2> QED BY <1>1, <1>2, <2>1, <2>2, ServerWire
<1>4. TypeOK'
  BY <1>1, <1>2 DEF Inv, TypeOK
<1> QED BY <1>1, <1>3, <1>4, ServerFrame DEF Inv
-----------------------------------------------------------------------------
LEMMA NextInv == ASSUME Inv, [Next]_vars PROVE Inv'
<1>1. ASSUME NEW t \in Tasks, Begin(t) \/ Step(t) PROVE Inv'
  BY <1>1, BeginInv, GetInv, DiscardInv, DeductInv, ConnectInv, CountInv, ConnectFailsInv,
     SendInv, SendFailsInv, ReceiveInv, ReceiveFailsInv, ReleaseInv, PutInv, DeleteInv,
     UncountInv DEF Step
<1>2. CASE Server
  BY <1>2, ServeInv, HangUpInv DEF Server
<1>3. CASE UNCHANGED vars
  <2>1. UNCHANGED <<pool, total, conn, peer, reqs, rsps, task>>
    BY <1>3 DEF vars, wireVars
  <2>2. PlacesOK' /\ CountOK' /\ InUse' = InUse
    BY <2>1, ServerFrame
  <2>3. WireOK'
    BY <2>1, <2>2, SameReady, SameWire DEF Inv, WireOK
  <2>4. TypeOK'
    BY <2>1 DEF Inv, TypeOK
  <2> QED BY <2>2, <2>3, <2>4 DEF Inv
<1> QED BY <1>1, <1>2, <1>3 DEF Next

LEMMA InvCorrect == Spec => []Inv
BY InitInv, NextInv, PTL DEF Spec

(* A connection is never in the list twice, or with two fibers, or with one  *)
(* and in the list (http_connection.cpp:375-447).                            *)
THEOREM OneOwnerCorrect == Spec => []OneOwner
<1>1. Inv => OneOwner
  BY DEF Inv, PlacesOK, OneOwner, Pooled, Held
<1> QED BY <1>1, InvCorrect, PTL

(* m_total counts the connections that exist, but for the fibers that are    *)
(* about to update it, and these are never more than the fibers.             *)
THEOREM AccountsCorrect == Spec => []ConnsAccounted
<1>1. Inv => ConnsAccounted
  <2> SUFFICES ASSUME Inv PROVE ConnsAccounted
    OBVIOUS
  <2>1. Dropped = {}
    BY DEF Inv, PlacesOK, Dropped
  <2>2. Cardinality(InUse) <= Cardinality(Tasks)
    BY FiniteUse DEF Inv, CountOK
  <2> QED BY <2>1, <2>2 DEF Inv, CountOK, ConnsAccounted, InUse, Counting, Uncounting
<1> QED BY <1>1, InvCorrect, PTL

(* What a fiber receives is the answer to its last request, unless a send on *)
(* the connection failed half-way.                                           *)
LEMMA GotBy ==
  ASSUME Inv, NEW t \in Tasks, Next, task'[t].got # task[t].got
  PROVE  task'[t].got = None \/ Receive(t)
<1>1. ASSUME NEW u \in Tasks, NEW p \in PCs, GoTo(u, p) PROVE FALSE
  <2>1. TypeOK
    BY DEF Inv
  <2>2. task'[t].got = task[t].got
    BY <1>1, <2>1, GoToFields
  <2> QED BY <2>2
<1>2. ASSUME NEW u \in Tasks, Begin(u) \/ Step(u) PROVE task'[t].got = None \/ Receive(t)
  <2> task \in [Tasks -> Tasklets]
    BY DEF Inv, TypeOK
  <2>1. CASE Begin(u) \/ Receive(u)
    BY <2>1 DEF Begin, Receive, Tasklets
  <2>4. CASE Get(u)
    <3>1. PICK n \in 0..Len(pool) :
            task' = [task EXCEPT
              ![u].pc = "discard", ![u].drop = {pool[i] : i \in 1..n},
              ![u].conn = IF n = Len(pool) THEN None ELSE pool[n + 1]]
      BY <2>4 DEF Get, GetFirst
    <3> DEFINE d == {pool[i] : i \in 1..n}
               c == IF n = Len(pool) THEN None ELSE pool[n + 1]
    <3>2. task' = [task EXCEPT ![u].pc = "discard", ![u].drop = d, ![u].conn = c]
      BY <3>1
    <3> HIDE DEF d, c
    <3> QED BY <1>2, <3>2 DEF Tasklets
  <2>5. CASE Deduct(u)
    <3>1. PICK p : task' = [task EXCEPT ![u].drop = {}, ![u].pc = p]
      BY <2>5 DEF Deduct
    <3> QED BY <1>2, <3>1 DEF Tasklets
  <2>6. CASE Connect(u) \/ Put(u) \/ Delete(u)
    <3>1. CASE Put(u) \/ Delete(u)
      BY <1>2, <3>1 DEF Put, Delete, Tasklets
    <3>2. CASE Connect(u)
      <4> DEFINE c == CHOOSE c \in Free : TRUE
      <4>1. task' = [task EXCEPT ![u].pc = "count", ![u].conn = c]
        BY <3>2 DEF Connect
      <4> HIDE DEF c
      <4> QED BY <1>2, <4>1 DEF Tasklets
    <3> QED BY <2>6, <3>1, <3>2
  <2>2. CASE Discard(u) \/ Count(u) \/ ConnectFails(u) \/ Send(u) \/ SendFails(u)
             \/ ReceiveFails(u) \/ Uncount(u)
    BY <1>1, <2>2 DEF Discard, Count, ConnectFails, Send, SendFails, ReceiveFails,
       ReceiveNothing, Uncount, PCs
  <2>3. CASE Release(u)
    BY <1>1, <2>3 DEF Release, ReleaseWithLimit, PCs
  <2> QED BY <1>2, <2>1, <2>2, <2>3, <2>4, <2>5, <2>6 DEF Step
<1>3. CASE Server
  BY <1>3 DEF Server, Serve, HangUp
<1> QED BY <1>2, <1>3 DEF Next

THEOREM ResponseCorrect == Spec => OwnResponse
<1> DEFINE Own == \A t \in Tasks : task'[t].got # task[t].got =>
                    task'[t].got \in {None, Request(t)} \/ conn[task[t].conn].torn
<1>1. Inv /\ [Next]_vars => [Own]_vars
  <2> SUFFICES ASSUME Inv, Next, NEW t \in Tasks, task'[t].got # task[t].got,
                      ~conn[task[t].conn].torn
               PROVE  task'[t].got \in {None, Request(t)}
    OBVIOUS
  <2>1. CASE Receive(t)
    <3>1. task'[t].got = Head(rsps[task[t].conn])
      BY <2>1 DEF Receive, Inv, TypeOK, Tasklets
    <3> QED BY <2>1, <3>1, AnswerIsOwn
  <2> QED BY <2>1, GotBy
<1> QED BY <1>1, InvCorrect, PTL DEF Spec, OwnResponse

(* What is in the list is alive, within its limit and has nothing under way. *)
THEOREM PooledCorrect == Spec => []PooledIsQuiet
<1>1. Inv => PooledIsQuiet
  BY DEF Inv, WireOK, PooledReady, Ready, Clean, Quiet, PooledIsQuiet, Pooled
<1> QED BY <1>1, InvCorrect, PTL
=============================================================================

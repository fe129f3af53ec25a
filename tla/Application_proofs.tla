------------------------- MODULE Application_proofs -------------------------
(***************************************************************************)
(* Proofs about the configuration variable and the processes that load it, *)
(* for any number of threads, values, seconds and restarts.                *)
(***************************************************************************)
EXTENDS MCApplication, TLAPS

Current == [value : Values, heard : Values, mtime : 0..MaxTime]

(* What a call is about to set could be parsed.                              *)
CallsOK == \A t \in Callers : call[t].pc \in {"set", "store"} => call[t].value \in Values

(* Only the thread that loads the directory is in a call before the worker   *)
(* serves.                                                                   *)
OnlyLoader == worker # "serving" => \A t \in Callers \ {Loader} : call[t].pc = "idle"

(* Nobody loads while there is no process that could.                        *)
LoadsOK ==
  /\ parent \notin {"init", "loading", "wait"} => \A t \in Callers : call[t].pc = "idle"
  /\ worker = "none" => parent \in {"init", "loading", "fork", "failed"}
  /\ parent \in {"init", "loading"} => worker = "none"
  /\ worker \notin {"none", "ended"} => parent = "wait"
  /\ worker \in {"main", "pidfile", "ended"} => call[Loader].pc = "idle"
  /\ parent = "init" => call[Loader].pc = "idle"

Shape == TypeOK /\ CallsOK /\ OnlyLoader /\ LoadsOK

(* As long as no two calls overlapped: the copy is the value, or one thread  *)
(* is about to store what the copy already has.                              *)
ToldBeforeStored ==
  ~overlapped =>
    /\ \A t, u \in Callers : call[t].pc = "store" /\ call[u].pc = "store" => t = u
    /\ \A t \in Callers : call[t].pc = "store" => call[t].value = memory.heard
    /\ (\A t \in Callers : call[t].pc # "store") => memory.heard = memory.value

(* What a worker is born with, and what it has until it serves.              *)
BornConsistent ==
  /\ parent \notin {"init", "loading"} => inherited.heard = inherited.value
  /\ worker # "serving" => ~overlapped

CopyInv == ToldBeforeStored /\ BornConsistent

(* A load of the worker carries a content the file had since the fork.       *)
LoadIsFresh ==
  /\ worker \notin {"none"} => file.content \in since
  /\ worker = "loading" =>
       \/ Bad \in since
       \/ call[Loader].pc = "read"
       \/ call[Loader].pc \in {"set", "store"} /\ call[Loader].value \in since
       \/ call[Loader].pc = "idle" /\ memory.value \in since
  /\ worker = "pidfile" => Bad \in since \/ memory.value \in since
-----------------------------------------------------------------------------
LEMMA InitShape == Init => Shape
<1> SUFFICES ASSUME Init PROVE Shape
  OBVIOUS
<1> USE ConfigAssumption, ApplicationAssumption DEF Init, ConfigInit
<1>1. memory \in Memories
  BY DEF Memories
<1>2. call \in [Callers -> Calls]
  BY DEF NoCalls, Idle, Calls, Contents
<1>3. file \in [content : Contents, mtime : 1..MaxTime]
  BY DEF Contents
<1>4. ConfigTypeOK
  <2>1. now \in 1..MaxTime
    OBVIOUS
  <2>2. overlapped \in BOOLEAN
    BY Zenon
  <2> QED BY <1>1, <1>2, <1>3, <2>1, <2>2, Zenon DEF ConfigTypeOK
<1>6. restarts \in 0..MaxRestarts /\ inherited \in Memories
  BY <1>1
<1>7. TypeOK
  BY <1>4, <1>6, Zenon DEF TypeOK, Statuses
<1>5. \A t \in Callers : call[t].pc = "idle"
  BY DEF NoCalls, Idle
<1> QED BY <1>5, <1>7 DEF Shape, CallsOK, OnlyLoader, LoadsOK

(* What the calls of one process leave of its configuration.                 *)
LEMMA TellType ==
  ASSUME ConfigTypeOK, NEW t \in Callers, NEW v \in Values, Announce(t, v)
  PROVE  /\ ConfigTypeOK' /\ UNCHANGED <<file, now>>
         /\ call' \in [Callers -> Calls]
         /\ \A u \in Callers \ {t} : call'[u] = call[u]
         /\ \/ v = memory.value /\ call'[t].pc = "idle" /\ UNCHANGED <<memory, overlapped>>
            \/ /\ v # memory.value /\ call'[t].pc = "store" /\ call'[t].value = v
               /\ memory'.value = memory.value /\ memory'.heard = v
               /\ overlapped' = (overlapped \/ Storing # {})
<1> USE ConfigAssumption DEF ConfigTypeOK, Announce, Tell
<1>1. Idle \in Calls /\ [pc |-> "store", value |-> v] \in Calls /\ Idle.pc = "idle"
  BY DEF Idle, Calls, Contents
<1>2. CASE v = memory.value
  BY <1>1, <1>2
<1>3. CASE v # memory.value
  <2>1. memory' \in Memories /\ memory'.value = memory.value /\ memory'.heard = v
    BY <1>3 DEF Memories
  <2>2. overlapped' \in BOOLEAN
    BY <1>3
  <2> QED BY <1>1, <1>3, <2>1, <2>2
<1> QED BY <1>2, <1>3

(* The store, the look at the time of the file and the read of its content.  *)
LEMMA StoreType ==
  ASSUME ConfigTypeOK, CallsOK, NEW t \in Callers, Store(t)
  PROVE  /\ ConfigTypeOK' /\ UNCHANGED <<file, now, overlapped>>
         /\ call[t].pc = "store" /\ call'[t].pc = "idle"
         /\ \A u \in Callers \ {t} : call'[u] = call[u]
         /\ memory'.value = call[t].value /\ memory'.heard = memory.heard
<1> USE ConfigAssumption DEF ConfigTypeOK, Store, CallsOK
<1>1. Idle \in Calls /\ Idle.pc = "idle"
  BY DEF Idle, Calls, Contents
<1>2. /\ memory' \in Memories /\ memory'.value = call[t].value
      /\ memory'.heard = memory.heard
  BY DEF Memories
<1> QED BY <1>1, <1>2

LEMMA StatType ==
  ASSUME ConfigTypeOK, NEW force \in BOOLEAN, Stat(force)
  PROVE  /\ ConfigTypeOK' /\ UNCHANGED <<file, now, overlapped>>
         /\ call[Loader].pc = "idle" /\ call'[Loader].pc = "read"
         /\ \A u \in Callers \ {Loader} : call'[u] = call[u]
         /\ memory'.value = memory.value /\ memory'.heard = memory.heard
<1> USE ConfigAssumption DEF ConfigTypeOK, Stat
<1>1. /\ memory' \in Memories /\ memory'.value = memory.value
      /\ memory'.heard = memory.heard
  BY DEF Memories
<1>2. /\ call' \in [Callers -> Calls] /\ call'[Loader].pc = "read"
      /\ \A u \in Callers \ {Loader} : call'[u] = call[u]
  BY DEF Calls
<1> QED BY <1>1, <1>2

LEMMA ReadFileType ==
  ASSUME ConfigTypeOK, ReadFile
  PROVE  /\ ConfigTypeOK' /\ UNCHANGED <<file, now, memory, overlapped>>
         /\ call[Loader].pc = "read"
         /\ \A u \in Callers \ {Loader} : call'[u] = call[u]
         /\ \/ file.content = Bad /\ call'[Loader].pc = "idle"
            \/ /\ file.content \in Values
               /\ call'[Loader].pc = "set" /\ call'[Loader].value = file.content
<1> USE ConfigAssumption DEF ConfigTypeOK, ReadFile
<1>1. Idle \in Calls /\ Idle.pc = "idle"
  BY DEF Idle, Calls, Contents
<1>2. file.content \in Contents
  OBVIOUS
<1>3. [pc |-> "set", value |-> file.content] \in Calls
  BY <1>2 DEF Calls
<1> QED BY <1>1, <1>2, <1>3 DEF Contents
-----------------------------------------------------------------------------
(* Every step keeps the shape: the parent's, ...                             *)
LEMMA ParentShape == ASSUME Shape, Parent \/ ForkFails PROVE Shape'
<1> USE ConfigAssumption, ApplicationAssumption
    DEF Shape, TypeOK, OnlyLoader, LoadsOK
<1>1. CASE InitLoad
  <2>1. Stat(FALSE)
    BY <1>1 DEF InitLoad
  <2> QED BY <1>1, <2>1, StatType DEF InitLoad, CallsOK
<1>2. CASE InitDone
  BY <1>2 DEF InitDone, configVars, Quiet, ConfigTypeOK, CallsOK
<1>3. CASE Fork
  BY <1>3 DEF Fork, ConfigTypeOK, CallsOK, NoCalls, Idle, Calls, Contents
<1>4. CASE ForkFails
  BY <1>4 DEF ForkFails, configVars, ConfigTypeOK, CallsOK
<1>5. CASE Finish
  BY <1>5 DEF Finish, configVars, ConfigTypeOK, CallsOK
<1>6. CASE Restart
  BY <1>6 DEF Restart, configVars, ConfigTypeOK, CallsOK
<1>7. CASE Awake
  BY <1>7 DEF Awake, configVars, ConfigTypeOK, CallsOK
<1> QED BY <1>1, <1>2, <1>3, <1>4, <1>5, <1>6, <1>7 DEF Parent

(* ... the worker's, ...                                                     *)
LEMMA WorkerShape ==
  ASSUME Shape, Main \/ \E s \in Statuses : End(s) PROVE Shape'
<1> USE ConfigAssumption, ApplicationAssumption
    DEF Shape, TypeOK, OnlyLoader, LoadsOK
<1>1. CASE MainLoad
  <2>1. Stat(TRUE)
    BY <1>1 DEF MainLoad
  <2> QED BY <1>1, <2>1, StatType DEF MainLoad, CallsOK
<1>2. CASE MainLoaded
  BY <1>2 DEF MainLoaded, configVars, Quiet, ConfigTypeOK, CallsOK
<1>3. CASE Serve
  BY <1>3 DEF Serve, configVars, ConfigTypeOK, CallsOK
<1>4. ASSUME NEW s \in Statuses, End(s) PROVE Shape'
  BY <1>4 DEF End, ConfigTypeOK, CallsOK, NoCalls, Idle, Calls, Contents
<1> QED BY <1>1, <1>2, <1>3, <1>4 DEF Main

(* ... those of the threads of one process, and the world's.                 *)
LEMMA InProcessShape == ASSUME Shape, InProcess PROVE Shape'
<1> USE ConfigAssumption, ApplicationAssumption
    DEF Shape, TypeOK, OnlyLoader, LoadsOK, InProcess, procVars
<1>1. CASE ReadFile
  BY <1>1, ReadFileType DEF CallsOK
<1>2. CASE SetLoaded
  <2>1. call[Loader].value \in Values /\ Announce(Loader, call[Loader].value)
    BY <1>2 DEF SetLoaded, CallsOK
  <2>2. CallsOK' /\ \A u \in Callers \ {Loader} : call'[u] = call[u]
    BY <2>1, TellType DEF CallsOK
  <2> QED BY <1>2, <2>1, <2>2, TellType DEF SetLoaded
<1>3. ASSUME NEW t \in Callers, Store(t) PROVE Shape'
  BY <1>3, StoreType DEF CallsOK
<1>4. CASE worker = "serving" /\ Stat(FALSE)
  BY <1>4, StatType DEF CallsOK
<1>5. ASSUME NEW t \in Callers, NEW v \in Values, worker = "serving", SetValue(t, v)
      PROVE  Shape'
  <2>1. Announce(t, v) /\ t # Loader
    BY <1>5 DEF SetValue
  <2>2. CallsOK' /\ \A u \in Callers \ {t} : call'[u] = call[u]
    BY <2>1, TellType DEF CallsOK
  <2> QED BY <1>5, <2>1, <2>2, TellType
<1> QED BY <1>1, <1>2, <1>3, <1>4, <1>5

LEMMA WorldShape == ASSUME Shape, World PROVE Shape'
<1> USE ConfigAssumption, ApplicationAssumption
    DEF Shape, TypeOK, OnlyLoader, LoadsOK, World, CallsOK
<1>1. CASE Tick
  BY <1>1 DEF Tick, ConfigTypeOK
<1>2. ASSUME NEW c \in Contents, Edit(c) PROVE Shape'
  BY <1>2 DEF Edit, ConfigTypeOK
<1> QED BY <1>1, <1>2

LEMMA NextShape == ASSUME Shape, [Next]_vars PROVE Shape'
<1>1. CASE Next
  BY <1>1, ParentShape, WorkerShape, InProcessShape, WorldShape DEF Next
<1>2. CASE UNCHANGED vars
  BY <1>2 DEF vars, configVars, procVars, Shape, TypeOK, ConfigTypeOK, CallsOK,
     OnlyLoader, LoadsOK
<1> QED BY <1>1, <1>2

THEOREM TypeCorrect == Spec => []TypeOK
<1> QED BY InitShape, NextShape, PTL DEF Spec, Shape
-----------------------------------------------------------------------------
LEMMA InitCopy == Init => CopyInv
BY DEF Init, ConfigInit, NoCalls, Idle, CopyInv, ToldBeforeStored, BornConsistent

(* A value that is announced keeps the copy ahead of what is stored.         *)
LEMMA TellCopy ==
  ASSUME Shape, ToldBeforeStored, NEW t \in Callers, NEW v \in Values, Announce(t, v),
         call[t].pc # "store"
  PROVE  ToldBeforeStored'
<1>1. ConfigTypeOK
  BY DEF Shape, TypeOK
<1>2. CASE v = memory.value
  <2>1. /\ call'[t].pc = "idle" /\ UNCHANGED <<memory, overlapped>>
        /\ \A u \in Callers \ {t} : call'[u] = call[u]
    BY <1>1, <1>2, TellType
  <2> QED BY <2>1 DEF ToldBeforeStored
<1>3. CASE v # memory.value
  <2>1. /\ call'[t].pc = "store" /\ call'[t].value = v
        /\ memory'.heard = v /\ overlapped' = (overlapped \/ Storing # {})
        /\ \A u \in Callers \ {t} : call'[u] = call[u]
    BY <1>1, <1>3, TellType
  <2>2. ~overlapped' => ~overlapped /\ \A u \in Callers : call[u].pc # "store"
    BY <2>1 DEF Storing
  <2> QED BY <2>1, <2>2 DEF ToldBeforeStored
<1> QED BY <1>2, <1>3

LEMMA InProcessCopy == ASSUME Shape, CopyInv, InProcess PROVE CopyInv'
<1> USE ConfigAssumption DEF CopyInv
<1>1. ConfigTypeOK /\ CallsOK /\ UNCHANGED procVars
  BY DEF Shape, TypeOK, InProcess
<1>2. CASE ReadFile
  BY <1>1, <1>2, ReadFileType DEF ToldBeforeStored, BornConsistent, procVars
<1>3. CASE SetLoaded
  <2>1. /\ call[Loader].value \in Values /\ Announce(Loader, call[Loader].value)
        /\ call[Loader].pc = "set"
    BY <1>1, <1>3 DEF SetLoaded, CallsOK
  <2>2. ToldBeforeStored'
    BY <2>1, TellCopy
  <2>3. worker # "serving" => ~overlapped'
    <3>1. worker # "serving" => Storing = {}
      BY <2>1 DEF Shape, OnlyLoader, Storing
    <3> QED BY <1>1, <2>1, <3>1, TellType DEF BornConsistent
  <2> QED BY <1>1, <2>2, <2>3 DEF BornConsistent, procVars
<1>4. ASSUME NEW t \in Callers, Store(t) PROVE CopyInv'
  BY <1>1, <1>4, StoreType DEF ToldBeforeStored, BornConsistent, procVars
<1>5. CASE worker = "serving" /\ Stat(FALSE)
  BY <1>1, <1>5, StatType DEF ToldBeforeStored, BornConsistent, procVars
<1>6. ASSUME NEW t \in Callers, NEW v \in Values, worker = "serving", SetValue(t, v)
      PROVE  CopyInv'
  <2>1. Announce(t, v) /\ call[t].pc = "idle"
    BY <1>6 DEF SetValue
  <2>2. ToldBeforeStored'
    BY <2>1, TellCopy
  <2> QED BY <1>1, <1>6, <2>2 DEF BornConsistent, procVars
<1> QED BY <1>2, <1>3, <1>4, <1>5, <1>6 DEF InProcess

LEMMA NextCopy == ASSUME Shape, CopyInv, [Next]_vars PROVE CopyInv'
<1> USE ConfigAssumption DEF CopyInv
<1>0. ConfigTypeOK
  BY DEF Shape, TypeOK
<1>1. CASE InitLoad
  <2>1. Stat(FALSE) /\ worker' = worker /\ inherited' = inherited /\ parent' = "loading"
    BY <1>1 DEF InitLoad
  <2> QED BY <1>0, <2>1, StatType DEF ToldBeforeStored, BornConsistent
<1>2. CASE MainLoad
  <2>1. Stat(TRUE) /\ worker' # "serving" /\ worker # "serving"
        /\ inherited' = inherited /\ parent' = parent
    BY <1>2 DEF MainLoad
  <2> QED BY <1>0, <2>1, StatType DEF ToldBeforeStored, BornConsistent
<1>3. CASE InitDone
  <2>1. \A t \in Callers : call[t].pc = "idle"
    BY <1>3 DEF InitDone, Quiet, Shape, OnlyLoader, LoadsOK
  <2>2. ~overlapped
    BY <1>3 DEF InitDone, Shape, LoadsOK, BornConsistent
  <2>3. memory.heard = memory.value
    BY <2>1, <2>2 DEF ToldBeforeStored
  <2> QED BY <1>3, <2>3 DEF InitDone, configVars, ToldBeforeStored, BornConsistent
<1>4. CASE Fork
  <2>1. memory'.heard = memory'.value
    BY <1>4 DEF Fork, BornConsistent
  <2> QED BY <1>4, <2>1 DEF Fork, NoCalls, Idle, ToldBeforeStored, BornConsistent
<1>5. ASSUME NEW s \in Statuses, End(s) PROVE CopyInv'
  <2>1. memory'.heard = memory'.value
    BY <1>5 DEF End, Shape, LoadsOK, BornConsistent
  <2> QED BY <1>5, <2>1 DEF End, NoCalls, Idle, ToldBeforeStored, BornConsistent
<1>6. CASE UNCHANGED <<memory, call, overlapped, inherited>>
           /\ (worker' # "serving" => worker # "serving")
           /\ (parent \in {"init", "loading"} => parent' \in {"init", "loading"})
  BY <1>6 DEF ToldBeforeStored, BornConsistent
<1>7. CASE UNCHANGED vars
  BY <1>6, <1>7 DEF vars, configVars, procVars
<1>8. CASE Finish \/ Restart \/ Awake \/ ForkFails \/ MainLoaded \/ Serve
  BY <1>6, <1>8 DEF Finish, Restart, Awake, ForkFails, MainLoaded, Serve, configVars
<1>9. CASE World
  BY <1>6, <1>9 DEF World, Tick, Edit
<1> QED BY <1>1, <1>2, <1>3, <1>4, <1>5, <1>7, <1>8, <1>9, InProcessCopy
        DEF Next, Parent, Main

(* Whenever no call is under way and none overlapped, the copy a listener    *)
(* keeps is the value (config.h:421), in every worker.                       *)
THEOREM CopyCorrect == Spec => []CopyIsValue
<1>1. CopyInv => CopyIsValue
  BY DEF CopyInv, ToldBeforeStored, CopyIsValue, Storing
<1> QED BY <1>1, InitShape, NextShape, InitCopy, NextCopy, PTL DEF Spec
-----------------------------------------------------------------------------
LEMMA InitFresh == Init => LoadIsFresh
BY DEF Init, LoadIsFresh

LEMMA NextFresh == ASSUME Shape, LoadIsFresh, [Next]_vars PROVE LoadIsFresh'
<1> USE ConfigAssumption DEF LoadIsFresh
<1>0. ConfigTypeOK /\ CallsOK
  BY DEF Shape, TypeOK
<1>1. CASE InitLoad
  BY <1>1 DEF InitLoad, Shape, LoadsOK
<1>2. CASE Fork
  BY <1>2 DEF Fork
<1>3. CASE MainLoad
  <2>1. Stat(TRUE) /\ worker = "main" /\ worker' = "loading" /\ since' = since
    BY <1>3 DEF MainLoad
  <2> QED BY <1>0, <2>1, StatType
<1>4. CASE MainLoaded
  BY <1>4 DEF MainLoaded, Quiet, configVars
<1>5. CASE Serve
  BY <1>5 DEF Serve, configVars
<1>6. ASSUME NEW s \in Statuses, End(s) PROVE LoadIsFresh'
  BY <1>6 DEF End
<1>7. CASE World
  BY <1>7 DEF World, Tick, Edit
<1>8. CASE UNCHANGED <<file, memory, call, since, worker>>
  BY <1>8
<1>9. CASE UNCHANGED vars \/ InitDone \/ Finish \/ Restart \/ Awake \/ ForkFails
  BY <1>8, <1>9 DEF vars, configVars, procVars, InitDone, Finish, Restart, Awake, ForkFails
<1>10. CASE InProcess
  <2>2. UNCHANGED <<worker, since>>
    BY <1>10 DEF InProcess, procVars
  <2>3. CASE ReadFile
    BY <1>0, <2>2, <2>3, ReadFileType DEF Shape, LoadsOK
  <2>4. CASE SetLoaded
    <3>1. /\ call[Loader].value \in Values /\ Announce(Loader, call[Loader].value)
          /\ call[Loader].pc = "set"
      BY <1>0, <2>4 DEF SetLoaded, CallsOK
    <3>2. worker # "pidfile"
      BY <3>1 DEF Shape, LoadsOK
    <3> QED BY <1>0, <2>2, <3>1, <3>2, TellType
  <2>5. ASSUME NEW t \in Callers, Store(t) PROVE LoadIsFresh'
    <3>1. call[t].pc = "store"
      BY <2>5 DEF Store
    <3>2. worker # "serving" => t = Loader
      BY <3>1 DEF Shape, OnlyLoader
    <3>3. worker # "pidfile"
      BY <3>1, <3>2 DEF Shape, LoadsOK
    <3>4. file' = file
      BY <2>5 DEF Store
    <3>5. CASE worker # "loading"
      BY <2>2, <3>3, <3>4, <3>5
    <3>6. CASE worker = "loading"
      <4>1. t = Loader
        BY <3>2, <3>6
      <4> QED BY <1>0, <2>2, <2>5, <3>1, <3>4, <3>6, <4>1, StoreType
    <3> QED BY <3>5, <3>6
  <2>6. CASE worker = "serving"
    <3>1. file' = file
      BY <1>10 DEF InProcess, ReadFile, SetLoaded, Announce, Tell, Store, Stat, SetValue
    <3> QED BY <2>2, <2>6, <3>1
  <2> QED BY <1>10, <2>3, <2>4, <2>5, <2>6 DEF InProcess
<1> QED BY <1>1, <1>2, <1>3, <1>4, <1>5, <1>6, <1>7, <1>9, <1>10 DEF Next, Parent, Main

(* A worker begins with a content its file had since the fork, or with what  *)
(* the parent read if the file could not be parsed (application.cpp:144).    *)
THEOREM FreshCorrect == Spec => []WorkerStartsFresh
<1>1. Shape /\ LoadIsFresh => WorkerStartsFresh
  BY DEF Shape, LoadIsFresh, WorkerStartsFresh
<1> QED BY <1>1, InitShape, NextShape, InitFresh, NextFresh, PTL DEF Spec
=============================================================================

---------------------------- MODULE MCApplication ----------------------------
(* The processes, the file and one variable on a small instance.             *)
EXTENDS Application

(* main() loads the directory by force (application.cpp:144): a worker, also *)
(* one forked long after the parent read the file, begins with a content the *)
(* file had since the fork, unless what it found could not be parsed, and    *)
(* never with what the parent remembers because the times are equal.         *)
WorkerStartsFresh ==
  TypeOK /\ (worker = "pidfile" => Bad \in since \/ memory.value \in since)

(* setValue (config.h:421) tells the listeners of every change: a copy that  *)
(* a listener keeps is the value, whenever no call is under way.  The        *)
(* exception is that two calls overlapped, and announced in one order what   *)
(* they stored in the other.                                                 *)
CopyIsValue ==
  Storing = {} /\ ~overlapped => memory.heard = memory.value

(* A worker that crashed or ended with an error is followed by another one,  *)
(* unless the fork fails: the parent gives up then (daemon.cpp:58-91).       *)
CrashIsFollowed ==
  worker = "ended" /\ status \in {"signal", "error"} /\ restarts < MaxRestarts
    ~> worker = "main" \/ parent = "failed"
=============================================================================

----------------------------- MODULE Application -----------------------------
(***************************************************************************)
(* The processes of sylar_server/application.cpp and daemon.cpp: the       *)
(* parent loads the configuration, forks the worker and forks another one  *)
(* when it crashes; each worker begins with a copy of the parent's memory  *)
(* and loads the configuration again.                                      *)
(***************************************************************************)
EXTENDS ConfigVar

CONSTANTS MaxRestarts   (* bound: restarts that are followed                 *)

ASSUME ApplicationAssumption == MaxRestarts \in Nat

VARIABLES
  parent,       (* where start_daemon() of the parent is                    *)
  worker,       (* where Application::main() of the worker is               *)
  inherited,    (* the parent's memory, which it never changes after init() *)
  status,       (* what waitpid() will report of the worker                 *)
  restarts,     (* restart_count                                            *)
  since         (* contents of the file since the fork                      *)

procVars == <<parent, worker, inherited, status, restarts, since>>
vars == <<configVars, procVars>>

(* The raw status: success, an exit with an error, a signal, SIGKILL.        *)
Statuses == {"success", "error", "signal", "kill"}

TypeOK ==
  /\ ConfigTypeOK
  /\ parent \in {"init", "loading", "fork", "wait", "sleep", "finished", "failed"}
  /\ worker \in {"none", "main", "loading", "pidfile", "serving", "ended"}
  /\ inherited \in Memories
  /\ status \in Statuses
  /\ restarts \in 0..MaxRestarts
  /\ since \subseteq Contents

Init ==
  /\ ConfigInit
  /\ parent = "init" /\ worker = "none" /\ status = "success"
  /\ inherited = memory
  /\ restarts = 0 /\ since = {}

Quiet == call[Loader].pc = "idle"
-----------------------------------------------------------------------------
(* Application::init(): the directory is loaded, for the first time.         *)
InitLoad ==
  /\ parent = "init" /\ parent' = "loading" /\ Stat(FALSE)
  /\ UNCHANGED <<worker, inherited, status, restarts, since>>

InitDone ==
  /\ parent = "loading" /\ Quiet
  /\ parent' = "fork" /\ inherited' = memory
  /\ UNCHANGED <<configVars, worker, status, restarts, since>>

(* real_daemon(): the worker is forked; it has the memory of the parent.     *)
Fork ==
  /\ parent = "fork" /\ parent' = "wait"
  /\ worker' = "main" /\ memory' = inherited /\ since' = {file.content}
  /\ call' = NoCalls /\ overlapped' = FALSE
  /\ UNCHANGED <<file, now, inherited, status, restarts>>

ForkFails ==
  /\ parent = "fork" /\ parent' = "failed"
  /\ UNCHANGED <<configVars, worker, inherited, status, restarts, since>>

(* Mutant: the load is not forced.                                           *)
MainLoadUnforced ==
  /\ worker = "main" /\ worker' = "loading"
  /\ Stat(FALSE) \/ (memory.mtime = file.mtime /\ UNCHANGED configVars)
  /\ UNCHANGED <<parent, inherited, status, restarts, since>>

(* Application::main(): the directory is loaded, by force.                   *)
MainLoad ==
  /\ worker = "main" /\ worker' = "loading" /\ Stat(TRUE)
  /\ UNCHANGED <<parent, inherited, status, restarts, since>>

MainLoaded ==
  /\ worker = "loading" /\ Quiet /\ worker' = "pidfile"
  /\ UNCHANGED <<configVars, parent, inherited, status, restarts, since>>

(* Application::main(), run_fiber(): the pid file is written and the servers *)
(* are started.                                                              *)
Serve ==
  /\ worker = "pidfile" /\ worker' = "serving"
  /\ UNCHANGED <<configVars, parent, inherited, status, restarts, since>>

(* The worker ends in some way, its memory is gone.  A pid file that cannot  *)
(* be written and a server that cannot be configured end with success.       *)
End(s) ==
  /\ worker \notin {"none", "ended"} /\ worker' = "ended"
  /\ s = "success" => worker \in {"pidfile", "serving"}
  /\ status' = s
  /\ call' = NoCalls /\ overlapped' = FALSE /\ memory' = inherited
  /\ UNCHANGED <<file, now, parent, inherited, restarts, since>>

(* real_daemon(), after waitpid(): the worker is done or was killed ...      *)
Finish ==
  /\ parent = "wait" /\ worker = "ended" /\ status \in {"success", "kill"}
  /\ parent' = "finished"
  /\ UNCHANGED <<configVars, worker, inherited, status, restarts, since>>

(* Mutant: only a signal counts as a crash.                                  *)
RestartSignalled ==
  /\ parent = "wait" /\ worker = "ended" /\ status = "signal"
  /\ restarts < MaxRestarts /\ restarts' = restarts + 1
  /\ parent' = "sleep"
  /\ UNCHANGED <<configVars, worker, inherited, status, since>>

(* ... or it crashed, and is started again ...                               *)
Restart ==
  /\ parent = "wait" /\ worker = "ended" /\ status \in {"signal", "error"}
  /\ restarts < MaxRestarts /\ restarts' = restarts + 1
  /\ parent' = "sleep"
  /\ UNCHANGED <<configVars, worker, inherited, status, since>>

(* ... after the interval.                                                   *)
Awake ==
  /\ parent = "sleep" /\ parent' = "fork"
  /\ UNCHANGED <<configVars, worker, inherited, status, restarts, since>>

(* What the threads of the worker do with the variable while it serves: they *)
(* set it, and the constructor of HttpServer loads the directory again.      *)
InProcess ==
  /\ \/ ReadFile \/ SetLoaded \/ \E t \in Callers : Store(t)
     \/ worker = "serving" /\ (Stat(FALSE) \/ \E t \in Callers, v \in Values : SetValue(t, v))
  /\ UNCHANGED procVars

World ==
  /\ Tick \/ \E c \in Contents : Edit(c)
  /\ since' = since \cup {file'.content}
  /\ UNCHANGED <<parent, worker, inherited, status, restarts>>

Parent == InitLoad \/ InitDone \/ Fork \/ Finish \/ Restart \/ Awake
Main == MainLoad \/ MainLoaded \/ Serve

Next ==
  \/ Parent \/ ForkFails \/ Main \/ InProcess \/ World
  \/ \E s \in Statuses : End(s)

Spec == Init /\ [][Next]_vars

(* The processes run; loads and sets end; nobody has to edit, set or crash.  *)
FairSpec ==
  /\ Spec
  /\ WF_vars(Parent) /\ WF_vars(Main)
  /\ WF_vars((ReadFile \/ SetLoaded) /\ UNCHANGED procVars)
  /\ \A t \in Callers : WF_vars(Store(t) /\ UNCHANGED procVars)
=============================================================================

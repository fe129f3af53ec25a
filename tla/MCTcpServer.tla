---------------------------- MODULE MCTcpServer ----------------------------
(***************************************************************************)
(* The server and the hooked calls on small instances.                     *)
(***************************************************************************)
EXTENDS TcpServer

(* A fiber that yielded in a hooked call is registered for the event of that *)
(* call, and nobody else is: whoever wakes it (event, time-out, close) has   *)
(* taken the registration, and a late callback cannot wake it twice.         *)
WaitIsRegistered ==
  TypeOK /\ \A fd \in Fds :
    reg[fd] = IF call[fd].pc = "wait" THEN EventOf(call[fd].kind) ELSE None

(* ETIMEDOUT is returned only if a timer of this very call has expired: a    *)
(* callback that an earlier call left behind does not end it.                *)
TimeoutIsOwn ==
  \A fd \in Fds : call[fd].result = "timeout" => call[fd].expired

(* The time-out expired before the event was registered: its cancelEvent     *)
(* found nothing, and the fiber waits without one.                           *)
TimeoutLost(fd) == call[fd].pc = "wait" /\ call[fd].missed

(* connect() reports success only of a connection that is established, or    *)
(* if it could not wait for it.                                              *)
ConnectIsHonest ==
  \A fd \in Fds :
    call[fd].result = "connected" => conn[fd] = "up" \/ call[fd].unadded

(* After stop() each listening socket accepts one more client at most.       *)
AtMostOneAfterStop == \A l \in Listeners : late[l] <= 1

(* A call with a time-out returns, whatever its peer does, unless its timer  *)
(* expired before its event was registered (hook.cpp:161-180): then it waits *)
(* on for the event alone.                                                   *)
TimedCallReturns ==
  \A fd \in Fds :
    call[fd].timed ~> call[fd].pc = "out" \/ TimeoutLost(fd) \/ crashed

(* After stop() the accept loop ends with the next client; without one its   *)
(* fiber waits on, since the hooked close() leaves the descriptor open.      *)
StopEndsWithNextClient ==
  \A l \in Listeners :
    server = "stopped" /\ "READ" \in ready[l] ~> loop[l] = "end" \/ crashed
=============================================================================

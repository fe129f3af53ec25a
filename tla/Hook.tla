-------------------------------- MODULE Hook --------------------------------
(***************************************************************************)
(* The hooked calls of sylar_server/hook.cpp on sockets: do_io (read,      *)
(* write, accept and the like), connect_with_timeout, sleep and close,     *)
(* with the FdCtx of sylar_server/fd_manager.cpp they consult.             *)
(*                                                                         *)
(* A call that the kernel cannot serve at once arms a timer, registers the *)
(* fiber with the IOManager and yields; the event, the timer's callback    *)
(* and a close race to wake it.  Each socket is used by one fiber, which   *)
(* is named by the socket (addEvent asserts that there is no second one).  *)
(* Of the IOManager and the TimerManager only what they promise is kept:   *)
(* reg and armed.  An expired timer's callback runs some time later, on    *)
(* any thread.                                                             *)
(***************************************************************************)
EXTENDS Naturals, FiniteSets

CONSTANTS
  Fds,      (* sockets                                                      *)
  None

Events == {"READ", "WRITE"}

ASSUME HookAssumption == None \notin Events \cup Fds

VARIABLES
  fdctx,    (* FdManager::m_datas: the events whose calls have a time-out,  *)
            (* and whether the user set it non-blocking; or None            *)
  ready,    (* kernel: the events a call would not have to wait for         *)
  conn,     (* kernel: how far the connection of a socket is                *)
  reg,      (* IOManager: the event the socket's fiber is registered for    *)
  call,     (* the call the socket's fiber is in, or was in last            *)
  fired,    (* callbacks of expired timers that have not run yet            *)
  cancels   (* callbacks that have marked the time-out and are about to     *)
            (* call cancelEvent                                             *)

hookVars == <<fdctx, ready, conn, reg, call, fired, cancels>>

Kinds == Events \cup {"CONNECT"}

PCs == {"none", "out", "try", "arm", "add", "wait", "woken", "check", "sleep", "done"}

(* "kernel" is what the kernel answered, be it data, an end or an error.     *)
Results == {"none", "kernel", "again", "connected", "refused", "timeout", "failed"}

Calls == [pc : PCs, kind : Kinds \cup {None}, timed : BOOLEAN, armed : BOOLEAN,
          cancelled : BOOLEAN, expired : BOOLEAN, missed : BOOLEAN,
          unadded : BOOLEAN, result : Results]

Contexts == [timed : SUBSET Events, user : BOOLEAN]

HookTypeOK ==
  /\ fdctx \in [Fds -> Contexts \cup {None}]
  /\ ready \in [Fds -> SUBSET Events]
  /\ conn \in [Fds -> {"new", "going", "up", "refused"}]
  /\ reg \in [Fds -> Events \cup {None}]
  /\ call \in [Fds -> Calls]
  /\ fired \subseteq Fds \X Events /\ cancels \subseteq Fds \X Events

(* A fiber that is in no call: pc is "out" while it runs code of its own.    *)
(* cancelled is in the timer_info; expired (a timer of the call was due),    *)
(* missed (its time-out cancelled nothing) and unadded are history.          *)
Outside(pc) ==
  [pc |-> pc, kind |-> None, timed |-> FALSE, armed |-> FALSE,
   cancelled |-> FALSE, expired |-> FALSE, missed |-> FALSE, unadded |-> FALSE, result |-> "none"]

(* FdCtx::init of a socket: no time-outs, not set non-blocking by the user.  *)
NewFdCtx == [timed |-> {}, user |-> FALSE]

HookInit ==
  /\ fdctx = [fd \in Fds |-> None]
  /\ ready = [fd \in Fds |-> {}]
  /\ conn = [fd \in Fds |-> "new"]
  /\ reg = [fd \in Fds |-> None]
  /\ call = [fd \in Fds |-> Outside("none")]
  /\ fired = {} /\ cancels = {}
-----------------------------------------------------------------------------
(* The call is over and its timer cancelled; its timer_info is freed, so     *)
(* that a callback still to come finds the weak pointer empty and returns.   *)
Return(fd, r) ==
  /\ call' = [call EXCEPT ![fd] = [Outside("out") EXCEPT !.result = r,
                 !.expired = call[fd].expired, !.unadded = call[fd].unadded]]
  /\ fired' = {c \in fired : c[1] # fd}

(* do_io goes straight to the system call: no context, or the user wants it. *)
Direct(fd) == fdctx[fd] = None \/ (fdctx[fd] # None /\ fdctx[fd].user)

CallDirectly(fd, k) ==
  /\ call[fd].pc = "out" /\ Direct(fd)
  /\ ready' = [ready EXCEPT ![fd] = @ \ {k}]
  /\ call' = [call EXCEPT ![fd] =
       [Outside("out") EXCEPT !.result = IF k \in ready[fd] THEN "kernel" ELSE "again"]]
  /\ UNCHANGED <<fdctx, conn, reg, fired, cancels>>

(* Mutant: the timer_info of the last call is used again.                    *)
BeginReused(fd, k) ==
  /\ call[fd].pc = "out" /\ ~Direct(fd)
  /\ call' = [call EXCEPT ![fd] =
       [Outside("try") EXCEPT !.kind = k, !.timed = (k \in fdctx[fd].timed),
                              !.cancelled = (call[fd].result = "timeout")]]
  /\ UNCHANGED <<fdctx, ready, conn, reg, fired, cancels>>

(* do_io: the time-out is read and the timer_info made.                      *)
Begin(fd, k) ==
  /\ call[fd].pc = "out" /\ ~Direct(fd)
  /\ call' = [call EXCEPT ![fd] =
       [Outside("try") EXCEPT !.kind = k, !.timed = (k \in fdctx[fd].timed)]]
  /\ UNCHANGED <<fdctx, ready, conn, reg, fired, cancels>>

(* Where a call goes that has to wait.                                       *)
Waiting(timed) == IF timed THEN "arm" ELSE "add"

(* do_io, at retry: the system call answers ...                              *)
Served(fd) ==
  /\ call[fd].pc = "try" /\ call[fd].kind \in ready[fd]
  /\ ready' = [ready EXCEPT ![fd] = @ \ {call[fd].kind}]
  /\ Return(fd, "kernel")
  /\ UNCHANGED <<fdctx, conn, reg, cancels>>

(* ... or fails with EAGAIN.                                                 *)
Again(fd) ==
  /\ call[fd].pc = "try" /\ call[fd].kind \notin ready[fd]
  /\ call' = [call EXCEPT ![fd].pc = Waiting(call[fd].timed)]
  /\ UNCHANGED <<fdctx, ready, conn, reg, fired, cancels>>

(* addConditionTimer.                                                        *)
Arm(fd) ==
  /\ call[fd].pc = "arm"
  /\ call' = [call EXCEPT ![fd].pc = "add", ![fd].armed = TRUE]
  /\ UNCHANGED <<fdctx, ready, conn, reg, fired, cancels>>

EventOf(kind) == IF kind = "CONNECT" THEN "WRITE" ELSE kind

(* addEvent and YieldToHold.                                                 *)
AddEvent(fd) ==
  /\ call[fd].pc = "add"
  /\ reg' = [reg EXCEPT ![fd] = EventOf(call[fd].kind)]
  /\ call' = [call EXCEPT ![fd].pc = "wait"]
  /\ UNCHANGED <<fdctx, ready, conn, fired, cancels>>

(* addEvent fails: do_io gives up, connect looks at SO_ERROR nonetheless.    *)
AddEventFails(fd) ==
  /\ call[fd].pc = "add"
  /\ IF call[fd].kind = "CONNECT"
     THEN /\ call' = [call EXCEPT ![fd].pc = "check", ![fd].armed = FALSE,
                                  ![fd].unadded = TRUE]
          /\ UNCHANGED fired
     ELSE Return(fd, "failed")
  /\ UNCHANGED <<fdctx, ready, conn, reg, cancels>>

(* Mutant: a time-out that was marked is not looked at.                      *)
ResumeUnmarked(fd) ==
  /\ call[fd].pc = "woken"
  /\ call' = [call EXCEPT ![fd].armed = FALSE,
                ![fd].pc = IF call[fd].kind = "CONNECT" THEN "check" ELSE "try"]
  /\ UNCHANGED <<fdctx, ready, conn, reg, fired, cancels>>

(* The fiber runs again: the timer is cancelled, and a marked time-out ends  *)
(* the call; else do_io retries and connect looks at the outcome.            *)
Resume(fd) ==
  /\ call[fd].pc = "woken"
  /\ IF call[fd].cancelled THEN Return(fd, "timeout")
     ELSE /\ call' = [call EXCEPT ![fd].armed = FALSE,
                        ![fd].pc = IF call[fd].kind = "CONNECT" THEN "check" ELSE "try"]
          /\ UNCHANGED fired
  /\ UNCHANGED <<fdctx, ready, conn, reg, cancels>>
-----------------------------------------------------------------------------
(* Mutant: the event stays registered.                                       *)
WakeKeepsEvent(fd) ==
  /\ call' = [call EXCEPT ![fd].pc = "woken"]
  /\ UNCHANGED reg

(* What wakes a fiber: triggerEvent schedules it and forgets the event.      *)
Wake(fd) ==
  /\ reg' = [reg EXCEPT ![fd] = None]
  /\ call' = [call EXCEPT ![fd].pc = "woken"]

(* IOManager: the event the fiber waits for has happened.                    *)
Trigger(fd) ==
  /\ reg[fd] \in ready[fd]
  /\ Wake(fd)
  /\ UNCHANGED <<fdctx, ready, conn, fired, cancels>>

(* TimerManager: the timer is due, its callback is queued.                   *)
Expire(fd) ==
  /\ call[fd].armed
  /\ call' = [call EXCEPT ![fd].armed = FALSE, ![fd].expired = TRUE]
  /\ fired' = fired \cup {<<fd, EventOf(call[fd].kind)>>}
  /\ UNCHANGED <<fdctx, ready, conn, reg, cancels>>

(* Mutant: the callback marks the time-out and cancels nothing.              *)
MarkTimeoutOnly(fd, e) ==
  /\ <<fd, e>> \in fired
  /\ fired' = fired \ {<<fd, e>>}
  /\ call' = [call EXCEPT ![fd].cancelled = TRUE]
  /\ UNCHANGED <<cancels, fdctx, ready, conn, reg>>

(* The callback of a call that goes on: it marks the time-out, once ...      *)
MarkTimeout(fd, e) ==
  /\ <<fd, e>> \in fired
  /\ fired' = fired \ {<<fd, e>>}
  /\ call' = [call EXCEPT ![fd].cancelled = TRUE]
  /\ cancels' = IF call[fd].cancelled THEN cancels ELSE cancels \cup {<<fd, e>>}
  /\ UNCHANGED <<fdctx, ready, conn, reg>>

(* ... and wakes whoever is registered for the event by now.                 *)
CancelEvent(fd, e) ==
  /\ <<fd, e>> \in cancels
  /\ cancels' = cancels \ {<<fd, e>>}
  /\ \/ reg[fd] = e /\ Wake(fd)
     \/ /\ reg[fd] # e
        /\ call' = [call EXCEPT ![fd].missed =
                     @ \/ (call[fd].cancelled /\ call[fd].pc \in {"try", "arm", "add"})]
        /\ UNCHANGED reg
  /\ UNCHANGED <<fdctx, ready, conn, fired>>

(* IOManager::cancelAll, by whoever closes the socket.                       *)
CancelAll(fd) == IF reg[fd] # None THEN Wake(fd) ELSE UNCHANGED <<reg, call>>
-----------------------------------------------------------------------------
(* connect_with_timeout: without a context it is EBADF, with the user's flag *)
(* the system call; otherwise, if the kernel is still at it (EINPROGRESS),   *)
(* it waits until the socket can be written ...                              *)
Connect(fd, timed) ==
  /\ call[fd].pc = "out" /\ conn[fd] = "new"
  /\ conn' = [conn EXCEPT ![fd] = IF fdctx[fd] = None THEN @ ELSE "going"]
  /\ call' = [call EXCEPT ![fd] =
       IF Direct(fd)
       THEN [Outside("out") EXCEPT
               !.result = IF fdctx[fd] = None THEN "failed" ELSE "again"]
       ELSE [Outside(Waiting(timed)) EXCEPT !.kind = "CONNECT", !.timed = timed]]
  /\ UNCHANGED <<fdctx, ready, reg, fired, cancels>>

(* ... and if the kernel knows the outcome at once, that is the result.      *)
ConnectAtOnce(fd, outcome) ==
  /\ call[fd].pc = "out" /\ conn[fd] = "new" /\ ~Direct(fd)
  /\ conn' = [conn EXCEPT ![fd] = outcome]
  /\ call' = [call EXCEPT ![fd] = [Outside("out") EXCEPT
                 !.result = IF outcome = "up" THEN "connected" ELSE "refused"]]
  /\ UNCHANGED <<fdctx, ready, reg, fired, cancels>>

(* getsockopt(SO_ERROR): no error yet is success.                            *)
CheckConnect(fd) ==
  /\ call[fd].pc = "check"
  /\ Return(fd, IF conn[fd] = "refused" THEN "refused" ELSE "connected")
  /\ UNCHANGED <<fdctx, ready, conn, reg, cancels>>

(* sleep, usleep, nanosleep: a timer schedules the fiber.                    *)
Sleep(fd) ==
  /\ call[fd].pc = "out"
  /\ call' = [call EXCEPT ![fd] = Outside("sleep")]
  /\ UNCHANGED <<fdctx, ready, conn, reg, fired, cancels>>

WakeUp(fd) ==
  /\ call[fd].pc = "sleep"
  /\ call' = [call EXCEPT ![fd].pc = "out"]
  /\ UNCHANGED <<fdctx, ready, conn, reg, fired, cancels>>

(* setsockopt(SO_RCVTIMEO, SO_SNDTIMEO), a time-out of -1 being none, ...    *)
SetTimeout(fd, k, timed) ==
  /\ call[fd].pc = "out" /\ fdctx[fd] # None
  /\ fdctx' = [fdctx EXCEPT ![fd].timed = IF timed THEN @ \cup {k} ELSE @ \ {k}]
  /\ UNCHANGED <<ready, conn, reg, call, fired, cancels>>

(* ... and ioctl(FIONBIO).                                                   *)
SetUserNonblock(fd, user) ==
  /\ call[fd].pc = "out" /\ fdctx[fd] # None
  /\ fdctx' = [fdctx EXCEPT ![fd].user = user]
  /\ UNCHANGED <<ready, conn, reg, call, fired, cancels>>
-----------------------------------------------------------------------------
(* The kernel: data, room to write, or a connection to accept.               *)
BecomesReady(fd, e) ==
  /\ e \notin ready[fd]
  /\ ready' = [ready EXCEPT ![fd] = @ \cup {e}]
  /\ UNCHANGED <<fdctx, conn, reg, call, fired, cancels>>

(* The kernel: a connection is made or refused, and the socket writable.     *)
Connected(fd, outcome) ==
  /\ conn[fd] = "going"
  /\ conn' = [conn EXCEPT ![fd] = outcome]
  /\ ready' = [ready EXCEPT ![fd] = @ \cup {"WRITE"}]
  /\ UNCHANGED <<fdctx, reg, call, fired, cancels>>
-----------------------------------------------------------------------------
(* The steps of a fiber inside a call, and those of the pool around it.      *)
InCall(fd) ==
  \/ Served(fd) \/ Again(fd) \/ Arm(fd)
  \/ AddEvent(fd) \/ AddEventFails(fd) \/ Resume(fd) \/ CheckConnect(fd)

Callback(fd) == \E e \in Events : MarkTimeout(fd, e) \/ CancelEvent(fd, e)

Wakers(fd) == Trigger(fd) \/ Expire(fd) \/ WakeUp(fd) \/ Callback(fd)
=============================================================================

-------------------------- MODULE TcpServer_proofs --------------------------
(***************************************************************************)
(* The four invariants of the server and the hooked calls, for every set   *)
(* of listening sockets and connections.                                   *)
(***************************************************************************)
EXTENDS MCTcpServer, TLAPS

(* A hooked call is in progress.                                             *)
InPCs == {"try", "arm", "add", "wait", "woken", "check"}
In(fd) == call[fd].pc \in InPCs

Held(cs, fd) == \E e \in Events : <<fd, e>> \in cs
Settled(fd) == conn[fd] \in {"up", "refused"}

(* A call in progress has a kind; outside of one there is neither a timer    *)
(* nor a callback, and the last result is what it claims to be.              *)
CallOK(fd) ==
  /\ In(fd) => /\ call[fd].kind \in Kinds /\ call[fd].result = "none"
               /\ fd \in Conns => conn[fd] # "new"
  /\ ~In(fd) => ~call[fd].armed /\ ~call[fd].cancelled /\ ~Held(fired, fd)
  /\ call[fd].cancelled \/ Held(fired, fd) => call[fd].expired
  /\ call[fd].result = "timeout" => call[fd].expired
  /\ call[fd].result = "connected" => conn[fd] = "up" \/ call[fd].unadded

WaitOK(fd) ==
  reg[fd] = IF call[fd].pc = "wait" THEN EventOf(call[fd].kind) ELSE None

(* A socket is writable only once its connection is settled; the callbacks   *)
(* about to cancel an event belong to calls that could be made on it, and    *)
(* those of a connect to this very connect.                                  *)
ConnOK(fd) ==
  /\ ~Settled(fd) => "WRITE" \notin ready[fd]
  /\ fd \in Conns /\ conn[fd] = "new" => ~Held(cancels, fd)
  /\ In(fd) /\ call[fd].kind = "CONNECT" =>
       /\ fd \in Conns
       /\ Held(cancels, fd) => call[fd].cancelled
       /\ call[fd].pc = "woken" => call[fd].cancelled \/ Settled(fd)
  /\ call[fd].pc = "check" => call[fd].unadded \/ Settled(fd)

SocketOK(fd) == CallOK(fd) /\ WaitOK(fd) /\ ConnOK(fd)

(* Before start() no fiber uses a listening socket.                          *)
NotStarted ==
  server \in {"new", "bound"} => \A l \in Listeners : call[l].pc = "none"

(* A client accepted after stop() sent its loop back to the test.            *)
LateOK ==
  \A l \in Listeners :
    late[l] > 0 => late[l] = 1 /\ server = "stopped" /\ loop[l] \in {"test", "end"}

SocketsOK == \A fd \in Fds : SocketOK(fd)

IInv == TypeOK /\ SocketsOK /\ NotStarted /\ LateOK
-----------------------------------------------------------------------------
(* A step of the fiber, the callbacks or the kernel on socket fd leaves the  *)
(* others as they were.                                                      *)
Elsewhere(fd) ==
  \A g \in Fds \ {fd} :
    /\ call'[g] = call[g] /\ ready'[g] = ready[g]
    /\ conn'[g] = conn[g] /\ reg'[g] = reg[g]
    /\ Held(fired', g) <=> Held(fired, g)
    /\ Held(cancels', g) <=> Held(cancels, g)

LEMMA ElsewhereKeeps ==
  ASSUME SocketsOK, NEW fd \in Fds, Elsewhere(fd), SocketOK(fd)'
  PROVE  SocketsOK'
<1> SUFFICES ASSUME NEW g \in Fds \ {fd}, SocketOK(g) PROVE SocketOK(g)'
  BY DEF SocketsOK
<1>1. /\ call'[g] = call[g] /\ ready'[g] = ready[g]
      /\ conn'[g] = conn[g] /\ reg'[g] = reg[g]
      /\ Held(fired', g) <=> Held(fired, g)
      /\ Held(cancels', g) <=> Held(cancels, g)
  BY DEF Elsewhere
<1>2. CallOK(g)'
  BY <1>1 DEF SocketOK, CallOK, In
<1>3. WaitOK(g)'
  BY <1>1 DEF SocketOK, WaitOK
<1>4. ConnOK(g)'
  BY <1>1 DEF SocketOK, ConnOK, In, Settled
<1> QED
  BY <1>2, <1>3, <1>4 DEF SocketOK

(* A call that is replaced by another record.                                *)
LEMMA CallReplaced ==
  ASSUME HookTypeOK, NEW fd \in Fds, NEW c \in Calls, call' = [call EXCEPT ![fd] = c]
  PROVE  /\ call' \in [Fds -> Calls] /\ call'[fd] = c
         /\ \A g \in Fds \ {fd} : call'[g] = call[g]
  BY DEF HookTypeOK

LEMMA OutsideIsCall == \A pc \in PCs : Outside(pc) \in Calls
  BY DEF Outside, Calls, Results

(* The end of a call: what was read of it, and the callbacks that are left.  *)
LEMMA ReturnEffect ==
  ASSUME HookTypeOK, NEW fd \in Fds, NEW r \in Results, Return(fd, r)
  PROVE  /\ call' \in [Fds -> Calls]
         /\ call'[fd] \in Calls /\ call'[fd].pc = "out" /\ call'[fd].result = r
         /\ ~call'[fd].armed /\ ~call'[fd].cancelled
         /\ call'[fd].expired = call[fd].expired /\ call'[fd].unadded = call[fd].unadded
         /\ \A g \in Fds \ {fd} : call'[g] = call[g]
         /\ fired' \subseteq Fds \X Events /\ ~Held(fired', fd)
         /\ \A g \in Fds \ {fd} : Held(fired', g) <=> Held(fired, g)
<1> DEFINE c == [Outside("out") EXCEPT !.result = r, !.expired = call[fd].expired,
                                       !.unadded = call[fd].unadded]
<1>1. call[fd] \in Calls
  BY DEF HookTypeOK
<1>2. /\ c \in Calls /\ c.pc = "out" /\ c.result = r /\ ~c.armed /\ ~c.cancelled
      /\ c.expired = call[fd].expired /\ c.unadded = call[fd].unadded
  BY <1>1 DEF Outside, Calls, PCs
<1>3. call' = [call EXCEPT ![fd] = c] /\ fired' = {x \in fired : x[1] # fd}
  BY DEF Return
<1>4. fired \subseteq Fds \X Events
  BY DEF HookTypeOK
<1>5. \A g \in Fds, e \in Events : <<g, e>> \in fired' <=> g # fd /\ <<g, e>> \in fired
  BY <1>3
<1>6. fired' \subseteq Fds \X Events /\ ~Held(fired', fd)
  BY <1>3, <1>4, <1>5 DEF Held
<1>7. \A g \in Fds \ {fd} : Held(fired', g) <=> Held(fired, g)
  BY <1>5 DEF Held
<1> HIDE DEF c
<1> QED
  BY <1>2, <1>3, <1>6, <1>7, CallReplaced
-----------------------------------------------------------------------------
(* What each step on socket fd is shown to do.                               *)
StepOK(fd) == HookTypeOK' /\ SocketOK(fd)' /\ Elsewhere(fd)

(* A call that has not registered returns.                                   *)
LEMMA ReturnKeeps ==
  ASSUME HookTypeOK, NEW fd \in Fds, SocketOK(fd), In(fd), call[fd].pc # "wait",
         NEW r \in Results, Return(fd, r),
         r = "timeout" => call[fd].expired,
         r = "connected" => conn[fd] = "up" \/ call[fd].unadded,
         NEW rdy \in SUBSET ready[fd], ready' = [ready EXCEPT ![fd] = rdy],
         UNCHANGED <<fdctx, conn, reg, cancels>>
  PROVE  StepOK(fd)
<1>1. /\ ready' \in [Fds -> SUBSET Events] /\ ready'[fd] \subseteq ready[fd]
      /\ \A g \in Fds \ {fd} : ready'[g] = ready[g]
  BY DEF HookTypeOK
<1>2. HookTypeOK'
  BY <1>1, ReturnEffect DEF HookTypeOK
<1>3. Elsewhere(fd)
  BY <1>1, ReturnEffect DEF Elsewhere
<1>4. ~In(fd)' /\ call'[fd].pc = "out"
  BY ReturnEffect DEF In, InPCs
<1>5. CallOK(fd)'
  BY <1>4, ReturnEffect DEF CallOK
<1>6. WaitOK(fd)'
  BY <1>4 DEF WaitOK, SocketOK
<1>7. ConnOK(fd)'
  BY <1>1, <1>4 DEF ConnOK, SocketOK, Settled
<1> QED
  BY <1>2, <1>3, <1>5, <1>6, <1>7 DEF StepOK, SocketOK

(* A call goes on: c is its record, w the event it is registered for.        *)
LEMMA MoveKeeps ==
  ASSUME HookTypeOK, NEW fd \in Fds, SocketOK(fd), In(fd),
         NEW c \in Calls, call' = [call EXCEPT ![fd] = c],
         c.pc \in InPCs, c.kind = call[fd].kind, c.result = call[fd].result,
         c.cancelled = call[fd].cancelled, c.expired = call[fd].expired,
         c.pc = "woken" /\ c.kind = "CONNECT" => c.cancelled \/ Settled(fd),
         c.pc = "check" => c.unadded \/ Settled(fd),
         NEW w \in Events \cup {None}, reg' = [reg EXCEPT ![fd] = w],
         w = IF c.pc = "wait" THEN EventOf(c.kind) ELSE None,
         UNCHANGED <<fdctx, ready, conn, fired>>,
         cancels' \subseteq cancels, \A g \in Fds \ {fd} : Held(cancels', g) <=> Held(cancels, g)
  PROVE  StepOK(fd)
<1>1. /\ call' \in [Fds -> Calls] /\ call'[fd] = c
      /\ \A g \in Fds \ {fd} : call'[g] = call[g]
  BY CallReplaced
<1>2. /\ reg' \in [Fds -> Events \cup {None}] /\ reg'[fd] = w
      /\ \A g \in Fds \ {fd} : reg'[g] = reg[g]
  BY DEF HookTypeOK
<1>3. HookTypeOK'
  BY <1>1, <1>2 DEF HookTypeOK
<1>4. Elsewhere(fd)
  BY <1>1, <1>2 DEF Elsewhere
<1>5. Held(cancels', fd) => Held(cancels, fd)
  BY DEF Held
<1>6. CallOK(fd)'
  BY <1>1 DEF CallOK, SocketOK, In
<1>7. WaitOK(fd)'
  BY <1>1, <1>2 DEF WaitOK
<1>8. ConnOK(fd)'
  BY <1>1, <1>5 DEF ConnOK, SocketOK, Settled, In
<1> QED
  BY <1>3, <1>4, <1>6, <1>7, <1>8 DEF StepOK, SocketOK

LEMMA InCallKeeps ==
  ASSUME HookTypeOK, NEW fd \in Fds, SocketOK(fd), InCall(fd)
  PROVE  StepOK(fd) /\ call[fd].pc # "none"
<1>1. call[fd] \in Calls /\ reg[fd] \in Events \cup {None} /\ ready[fd] \in SUBSET Events
  BY DEF HookTypeOK
<1>2. /\ ready = [ready EXCEPT ![fd] = ready[fd]]
      /\ reg = [reg EXCEPT ![fd] = reg[fd]]
  BY DEF HookTypeOK
<1>3. call[fd].pc # "wait" => reg[fd] = None
  BY DEF SocketOK, WaitOK
<1>4. CASE Served(fd)
  <2>1. /\ In(fd) /\ call[fd].pc = "try" /\ Return(fd, "kernel")
        /\ ready' = [ready EXCEPT ![fd] = ready[fd] \ {call[fd].kind}]
        /\ UNCHANGED <<fdctx, conn, reg, cancels>>
    BY <1>4 DEF Served, In, InPCs
  <2> QED
    BY <2>1, ReturnKeeps DEF Results
<1>5. CASE Again(fd)
  <2> DEFINE c == [call[fd] EXCEPT !.pc = Waiting(call[fd].timed)]
  <2>1. /\ In(fd) /\ call[fd].pc = "try" /\ call' = [call EXCEPT ![fd] = c]
        /\ UNCHANGED <<fdctx, ready, conn, reg, fired, cancels>>
    BY <1>5 DEF Again, In, InPCs
  <2>2. /\ c \in Calls /\ c.pc \in {"arm", "add"} /\ c.kind = call[fd].kind
        /\ c.result = call[fd].result /\ c.cancelled = call[fd].cancelled
        /\ c.expired = call[fd].expired
    BY <1>1 DEF Calls, PCs, Waiting
  <2> HIDE DEF c
  <2> QED
    BY <1>1, <1>2, <1>3, <2>1, <2>2, MoveKeeps DEF InPCs
<1>6. CASE Arm(fd)
  <2> DEFINE c == [call[fd] EXCEPT !.pc = "add", !.armed = TRUE]
  <2>1. /\ In(fd) /\ call[fd].pc = "arm" /\ call' = [call EXCEPT ![fd] = c]
        /\ UNCHANGED <<fdctx, ready, conn, reg, fired, cancels>>
    BY <1>6 DEF Arm, In, InPCs
  <2>2. /\ c \in Calls /\ c.pc = "add" /\ c.kind = call[fd].kind
        /\ c.result = call[fd].result /\ c.cancelled = call[fd].cancelled
        /\ c.expired = call[fd].expired
    BY <1>1 DEF Calls, PCs
  <2> HIDE DEF c
  <2> QED
    BY <1>1, <1>2, <1>3, <2>1, <2>2, MoveKeeps DEF InPCs
<1>7. CASE AddEvent(fd)
  <2> DEFINE c == [call[fd] EXCEPT !.pc = "wait"]
             w == EventOf(call[fd].kind)
  <2>1. /\ In(fd) /\ call[fd].pc = "add" /\ call' = [call EXCEPT ![fd] = c]
        /\ reg' = [reg EXCEPT ![fd] = w]
        /\ UNCHANGED <<fdctx, ready, conn, fired, cancels>>
    BY <1>7 DEF AddEvent, In, InPCs
  <2>2. /\ c \in Calls /\ c.pc = "wait" /\ c.kind = call[fd].kind
        /\ c.result = call[fd].result /\ c.cancelled = call[fd].cancelled
        /\ c.expired = call[fd].expired
    BY <1>1 DEF Calls, PCs
  <2>3. w \in Events
    BY <2>1 DEF SocketOK, CallOK, EventOf, Kinds, Events
  <2>4. w = IF c.pc = "wait" THEN EventOf(c.kind) ELSE None
    BY <2>2
  <2> HIDE DEF c, w
  <2> QED
    BY <2>1, <2>2, <2>3, <2>4, MoveKeeps DEF InPCs
<1>8. CASE AddEventFails(fd)
  <2>1. /\ In(fd) /\ call[fd].pc = "add"
        /\ UNCHANGED <<fdctx, ready, conn, reg, cancels>>
    BY <1>8 DEF AddEventFails, In, InPCs
  <2>2. CASE call[fd].kind = "CONNECT"
    <3> DEFINE c == [call[fd] EXCEPT !.pc = "check", !.armed = FALSE, !.unadded = TRUE]
    <3>1. call' = [call EXCEPT ![fd] = c] /\ UNCHANGED fired
      BY <1>8, <2>2 DEF AddEventFails
    <3>2. /\ c \in Calls /\ c.pc = "check" /\ c.kind = call[fd].kind
          /\ c.result = call[fd].result /\ c.cancelled = call[fd].cancelled
          /\ c.expired = call[fd].expired /\ c.unadded
      BY <1>1 DEF Calls, PCs
    <3> HIDE DEF c
    <3> QED
      BY <1>1, <1>2, <1>3, <2>1, <3>1, <3>2, MoveKeeps DEF InPCs
  <2>3. CASE call[fd].kind # "CONNECT"
    <3>1. Return(fd, "failed")
      BY <1>8, <2>3 DEF AddEventFails
    <3> QED
      BY <1>2, <2>1, <3>1, ReturnKeeps DEF Results
  <2> QED
    BY <2>2, <2>3
<1>9. CASE Resume(fd)
  <2>1. /\ In(fd) /\ call[fd].pc = "woken"
        /\ UNCHANGED <<fdctx, ready, conn, reg, cancels>>
    BY <1>9 DEF Resume, In, InPCs
  <2>2. CASE call[fd].cancelled
    <3>1. Return(fd, "timeout") /\ call[fd].expired
      BY <1>9, <2>2 DEF Resume, SocketOK, CallOK
    <3> QED
      BY <1>2, <2>1, <3>1, ReturnKeeps DEF Results
  <2>3. CASE ~call[fd].cancelled
    <3> DEFINE c == [call[fd] EXCEPT !.armed = FALSE,
                       !.pc = IF call[fd].kind = "CONNECT" THEN "check" ELSE "try"]
    <3>1. call' = [call EXCEPT ![fd] = c] /\ UNCHANGED fired
      BY <1>9, <2>3 DEF Resume
    <3>2. /\ c \in Calls /\ c.pc \in {"check", "try"} /\ c.kind = call[fd].kind
          /\ c.result = call[fd].result /\ c.cancelled = call[fd].cancelled
          /\ c.expired = call[fd].expired
          /\ c.pc = "check" => call[fd].kind = "CONNECT"
      BY <1>1 DEF Calls, PCs
    <3>3. call[fd].kind = "CONNECT" => Settled(fd)
      BY <2>1, <2>3 DEF SocketOK, ConnOK
    <3> HIDE DEF c
    <3> QED
      BY <1>1, <1>2, <1>3, <2>1, <3>1, <3>2, <3>3, MoveKeeps DEF InPCs
  <2> QED
    BY <2>2, <2>3
<1>10. CASE CheckConnect(fd)
  <2> DEFINE r == IF conn[fd] = "refused" THEN "refused" ELSE "connected"
  <2>1. /\ In(fd) /\ call[fd].pc = "check" /\ Return(fd, r)
        /\ UNCHANGED <<fdctx, ready, conn, reg, cancels>>
    BY <1>10 DEF CheckConnect, In, InPCs
  <2>2. r = "connected" => conn[fd] = "up" \/ call[fd].unadded
    BY <2>1 DEF SocketOK, ConnOK, Settled
  <2>3. r \in Results /\ r # "timeout"
    BY DEF Results
  <2> HIDE DEF r
  <2> QED
    BY <1>2, <2>1, <2>2, <2>3, ReturnKeeps
<1> QED
  BY <1>4, <1>5, <1>6, <1>7, <1>8, <1>9, <1>10 DEF InCall

(* A registered fiber is woken by whoever takes its registration.            *)
LEMMA WakeKeeps ==
  ASSUME HookTypeOK, NEW fd \in Fds, SocketOK(fd), reg[fd] # None, Wake(fd),
         call[fd].kind = "CONNECT" => call[fd].cancelled \/ Settled(fd),
         UNCHANGED <<fdctx, ready, conn, fired>>,
         cancels' \subseteq cancels, \A g \in Fds \ {fd} : Held(cancels', g) <=> Held(cancels, g)
  PROVE  StepOK(fd) /\ call[fd].pc # "none"
<1> DEFINE c == [call[fd] EXCEPT !.pc = "woken"]
<1>1. call[fd] \in Calls
  BY DEF HookTypeOK
<1>2. In(fd) /\ call[fd].pc = "wait"
  BY DEF SocketOK, WaitOK, In, InPCs
<1>3. call' = [call EXCEPT ![fd] = c] /\ reg' = [reg EXCEPT ![fd] = None]
  BY DEF Wake
<1>4. /\ c \in Calls /\ c.pc = "woken" /\ c.kind = call[fd].kind
      /\ c.result = call[fd].result /\ c.cancelled = call[fd].cancelled
      /\ c.expired = call[fd].expired
  BY <1>1 DEF Calls, PCs
<1> HIDE DEF c
<1> QED
  BY <1>2, <1>3, <1>4, MoveKeeps DEF InPCs

(* A timer that expires, or a mark on the call: its place stays the same.    *)
LEMMA CallbackKeeps ==
  ASSUME HookTypeOK, NEW fd \in Fds, SocketOK(fd), In(fd), call[fd].expired',
         NEW c \in Calls, call' = [call EXCEPT ![fd] = c],
         c.pc = call[fd].pc, c.kind = call[fd].kind, c.result = call[fd].result,
         call[fd].cancelled => c.cancelled, c.unadded = call[fd].unadded,
         Held(cancels', fd) => Held(cancels, fd) \/ c.cancelled,
         UNCHANGED <<fdctx, ready, conn, reg>>,
         fired' \subseteq Fds \X Events, cancels' \subseteq Fds \X Events,
         \A g \in Fds \ {fd} : Held(fired', g) <=> Held(fired, g),
         \A g \in Fds \ {fd} : Held(cancels', g) <=> Held(cancels, g)
  PROVE  StepOK(fd)
<1>1. /\ call' \in [Fds -> Calls] /\ call'[fd] = c
      /\ \A g \in Fds \ {fd} : call'[g] = call[g]
  BY CallReplaced
<1>2. HookTypeOK'
  BY <1>1 DEF HookTypeOK
<1>3. Elsewhere(fd)
  BY <1>1 DEF Elsewhere
<1>4. CallOK(fd)'
  BY <1>1 DEF CallOK, SocketOK, In
<1>5. WaitOK(fd)'
  BY <1>1 DEF WaitOK, SocketOK
<1>6. ConnOK(fd)'
  BY <1>1 DEF ConnOK, CallOK, SocketOK, Settled, In
<1> QED
  BY <1>2, <1>3, <1>4, <1>5, <1>6 DEF StepOK, SocketOK

LEMMA WakersKeep ==
  ASSUME HookTypeOK, NEW fd \in Fds, SocketOK(fd), Wakers(fd)
  PROVE  StepOK(fd) /\ (call[fd].pc = "none" => call'[fd].pc = "none")
<1>1. call[fd] \in Calls /\ fired \subseteq Fds \X Events /\ cancels \subseteq Fds \X Events
  BY DEF HookTypeOK
<1>2. CASE Trigger(fd)
  <2>1. reg[fd] \in ready[fd] /\ Wake(fd) /\ UNCHANGED <<fdctx, ready, conn, fired, cancels>>
    BY <1>2 DEF Trigger
  <2>2. reg[fd] # None
    BY <2>1, HookAssumption DEF HookTypeOK
  <2>3. call[fd].kind = "CONNECT" => reg[fd] = "WRITE"
    BY <2>2 DEF SocketOK, WaitOK, EventOf
  <2>4. call[fd].kind = "CONNECT" => Settled(fd)
    BY <2>1, <2>3 DEF SocketOK, ConnOK
  <2> QED
    BY <2>1, <2>2, <2>4, WakeKeeps
<1>3. CASE Expire(fd)
  <2> DEFINE c == [call[fd] EXCEPT !.armed = FALSE, !.expired = TRUE]
             x == <<fd, EventOf(call[fd].kind)>>
  <2>1. /\ call[fd].armed /\ call' = [call EXCEPT ![fd] = c]
        /\ fired' = fired \cup {x}
        /\ UNCHANGED <<fdctx, ready, conn, reg, cancels>>
    BY <1>3 DEF Expire
  <2>2. In(fd)
    BY <2>1 DEF SocketOK, CallOK
  <2>3. PICK e \in Events : x = <<fd, e>>
    BY <2>2 DEF SocketOK, CallOK, EventOf, Kinds, Events
  <2> HIDE DEF x
  <2>4. /\ fired' \subseteq Fds \X Events
        /\ \A g \in Fds \ {fd} : Held(fired', g) <=> Held(fired, g)
    <3>1. fired' = fired \cup {<<fd, e>>}
      BY <2>1, <2>3
    <3>2. \A g \in Fds \ {fd}, d \in Events : <<g, d>> \in fired' <=> <<g, d>> \in fired
      BY <3>1
    <3>3. fired' \subseteq Fds \X Events
      BY <1>1, <3>1
    <3>4. \A g \in Fds \ {fd} : Held(fired', g) <=> Held(fired, g)
      BY <3>2 DEF Held
    <3> QED
      BY <3>3, <3>4
  <2>5. /\ c \in Calls /\ c.pc = call[fd].pc /\ c.kind = call[fd].kind
        /\ c.result = call[fd].result /\ c.cancelled = call[fd].cancelled
        /\ c.expired /\ c.unadded = call[fd].unadded
    BY <1>1 DEF Calls
  <2> HIDE DEF c
  <2>6. call'[fd] = c
    BY <2>1, <2>5, CallReplaced
  <2> QED
    BY <1>1, <2>1, <2>2, <2>4, <2>5, <2>6, CallbackKeeps DEF In, InPCs
<1>4. CASE WakeUp(fd)
  <2> DEFINE c == [call[fd] EXCEPT !.pc = "out"]
  <2>1. /\ call[fd].pc = "sleep" /\ call' = [call EXCEPT ![fd] = c]
        /\ UNCHANGED <<fdctx, ready, conn, reg, fired, cancels>>
    BY <1>4 DEF WakeUp
  <2>2. /\ c \in Calls /\ c.pc = "out" /\ c.result = call[fd].result /\ c.armed = call[fd].armed
        /\ c.cancelled = call[fd].cancelled /\ c.expired = call[fd].expired
        /\ c.unadded = call[fd].unadded
    BY <1>1 DEF Calls, PCs
  <2> HIDE DEF c
  <2>3. /\ call' \in [Fds -> Calls] /\ call'[fd] = c
        /\ \A g \in Fds \ {fd} : call'[g] = call[g]
    BY <2>1, <2>2, CallReplaced
  <2>4. HookTypeOK' /\ Elsewhere(fd)
    BY <2>1, <2>3 DEF HookTypeOK, Elsewhere
  <2>5. ~In(fd) /\ ~In(fd)' /\ reg[fd] = None
    BY <2>1, <2>2, <2>3 DEF In, InPCs, SocketOK, WaitOK
  <2>6. CallOK(fd)'
    BY <2>1, <2>2, <2>3, <2>5 DEF CallOK, SocketOK
  <2>7. WaitOK(fd)'
    BY <2>1, <2>2, <2>3, <2>5 DEF WaitOK
  <2>8. ConnOK(fd)'
    BY <2>1, <2>2, <2>3, <2>5 DEF ConnOK, SocketOK, Settled
  <2> QED
    BY <2>1, <2>4, <2>6, <2>7, <2>8 DEF StepOK, SocketOK
<1>5. ASSUME NEW e \in Events, MarkTimeout(fd, e)
      PROVE  StepOK(fd) /\ call[fd].pc # "none"
  <2> DEFINE c == [call[fd] EXCEPT !.cancelled = TRUE]
  <2>1. /\ <<fd, e>> \in fired /\ call' = [call EXCEPT ![fd] = c]
        /\ fired' = fired \ {<<fd, e>>}
        /\ cancels' = cancels \/ cancels' = cancels \cup {<<fd, e>>}
        /\ UNCHANGED <<fdctx, ready, conn, reg>>
    BY <1>5 DEF MarkTimeout
  <2>2. Held(fired, fd)
    BY <2>1 DEF Held
  <2>3. In(fd) /\ call[fd].expired
    BY <2>2 DEF SocketOK, CallOK
  <2>4. /\ fired' \subseteq Fds \X Events /\ cancels' \subseteq Fds \X Events
        /\ \A g \in Fds \ {fd} : Held(fired', g) <=> Held(fired, g)
        /\ \A g \in Fds \ {fd} : Held(cancels', g) <=> Held(cancels, g)
    BY <1>1, <2>1 DEF Held
  <2>5. /\ c \in Calls /\ c.pc = call[fd].pc /\ c.kind = call[fd].kind
        /\ c.result = call[fd].result /\ c.cancelled
        /\ c.expired = call[fd].expired /\ c.unadded = call[fd].unadded
    BY <1>1 DEF Calls
  <2> HIDE DEF c
  <2>6. call'[fd] = c
    BY <2>1, <2>5, CallReplaced
  <2> QED
    BY <2>1, <2>3, <2>4, <2>5, <2>6, CallbackKeeps DEF In, InPCs
<1>6. ASSUME NEW e \in Events, CancelEvent(fd, e)
      PROVE  StepOK(fd) /\ (call[fd].pc = "none" => call'[fd].pc = "none")
  <2>1. /\ <<fd, e>> \in cancels /\ cancels' = cancels \ {<<fd, e>>}
        /\ UNCHANGED <<fdctx, ready, conn, fired>>
    BY <1>6 DEF CancelEvent
  <2>2. /\ cancels' \subseteq cancels /\ Held(cancels, fd)
        /\ \A g \in Fds \ {fd} : Held(cancels', g) <=> Held(cancels, g)
    BY <2>1 DEF Held
  <2>3. CASE reg[fd] = e /\ Wake(fd)
    <3>1. reg[fd] # None
      BY <2>3, HookAssumption
    <3>2. call[fd].pc = "wait"
      BY <3>1 DEF SocketOK, WaitOK
    <3>3. call[fd].kind = "CONNECT" => call[fd].cancelled
      BY <2>2, <3>2 DEF SocketOK, ConnOK, In, InPCs
    <3> QED
      BY <2>1, <2>2, <2>3, <3>1, <3>3, WakeKeeps
  <2>4. CASE ~(reg[fd] = e /\ Wake(fd))
    <3> DEFINE c == [call[fd] EXCEPT !.missed =
                      @ \/ (call[fd].cancelled /\ call[fd].pc \in {"try", "arm", "add"})]
    <3>1. call' = [call EXCEPT ![fd] = c] /\ UNCHANGED reg
      BY <1>6, <2>4 DEF CancelEvent
    <3>2. /\ c \in Calls /\ c.pc = call[fd].pc /\ c.kind = call[fd].kind
          /\ c.result = call[fd].result /\ c.cancelled = call[fd].cancelled
          /\ c.expired = call[fd].expired /\ c.unadded = call[fd].unadded
          /\ c.armed = call[fd].armed
      BY <1>1 DEF Calls
    <3> HIDE DEF c
    <3>3. /\ call' \in [Fds -> Calls] /\ call'[fd] = c
          /\ \A g \in Fds \ {fd} : call'[g] = call[g]
      BY <3>1, <3>2, CallReplaced
    <3>4. HookTypeOK' /\ Elsewhere(fd)
      BY <1>1, <2>1, <2>2, <3>1, <3>3 DEF HookTypeOK, Elsewhere
    <3>5. CallOK(fd)'
      BY <2>1, <3>1, <3>2, <3>3 DEF CallOK, SocketOK, In
    <3>6. WaitOK(fd)'
      BY <3>1, <3>2, <3>3 DEF WaitOK, SocketOK
    <3>7. Held(cancels', fd) => Held(cancels, fd)
      BY <2>2
    <3>8. ConnOK(fd)'
      BY <2>1, <3>1, <3>2, <3>3, <3>7 DEF ConnOK, SocketOK, Settled, In
    <3> QED
      BY <3>2, <3>3, <3>4, <3>5, <3>6, <3>8 DEF StepOK, SocketOK
  <2> QED
    BY <2>3, <2>4
<1>7. CASE Callback(fd)
  BY <1>5, <1>6, <1>7 DEF Callback
<1> QED
  BY <1>2, <1>3, <1>4, <1>7 DEF Wakers
-----------------------------------------------------------------------------
(* A fiber that is in no call after the step.                                *)
LEMMA AtRest ==
  ASSUME NEW fd \in Fds, ~In(fd)', ~call'[fd].armed, ~call'[fd].cancelled,
         call'[fd].result # "timeout", call'[fd].result = "connected" => conn'[fd] = "up",
         ~Held(fired', fd), reg'[fd] = None,
         ~Settled(fd)' => "WRITE" \notin ready'[fd],
         fd \in Conns /\ conn'[fd] = "new" => ~Held(cancels', fd)
  PROVE  SocketOK(fd)'
<1>1. call'[fd].pc \notin InPCs
  BY DEF In
<1>2. CallOK(fd)'
  BY <1>1 DEF CallOK, In
<1>3. WaitOK(fd)'
  BY <1>1 DEF WaitOK, InPCs
<1>4. ConnOK(fd)'
  BY <1>1 DEF ConnOK, In, InPCs
<1> QED
  BY <1>2, <1>3, <1>4 DEF SocketOK

(* A call that the step begins.                                              *)
LEMMA Begun ==
  ASSUME NEW fd \in Fds, call'[fd].pc \in {"try", "arm", "add"}, call'[fd].kind \in Kinds,
         call'[fd].result = "none", ~call'[fd].cancelled,
         ~Held(fired', fd), reg'[fd] = None,
         ~Settled(fd)' => "WRITE" \notin ready'[fd],
         fd \in Conns => conn'[fd] # "new",
         call'[fd].kind = "CONNECT" => fd \in Conns /\ ~Held(cancels', fd)
  PROVE  SocketOK(fd)'
<1>1. In(fd)'
  BY DEF In, InPCs
<1>2. CallOK(fd)'
  BY <1>1 DEF CallOK
<1>3. WaitOK(fd)'
  BY DEF WaitOK
<1>4. ConnOK(fd)'
  BY <1>1 DEF ConnOK
<1> QED
  BY <1>2, <1>3, <1>4 DEF SocketOK

(* What a fiber in no call can rely on.                                      *)
LEMMA RestFacts ==
  ASSUME HookTypeOK, NEW fd \in Fds, SocketOK(fd), call[fd].pc \in {"none", "out", "sleep"}
  PROVE  /\ ~Held(fired, fd) /\ reg[fd] = None
         /\ ~Settled(fd) => "WRITE" \notin ready[fd]
         /\ fd \in Conns /\ conn[fd] = "new" => ~Held(cancels, fd)
<1>1. ~In(fd) /\ call[fd].pc # "wait"
  BY DEF In, InPCs
<1> QED
  BY <1>1 DEF SocketOK, CallOK, WaitOK, ConnOK

LEMMA CancelAllKeeps ==
  ASSUME HookTypeOK, NEW l \in Listeners, SocketOK(l), CancelAll(l),
         UNCHANGED <<fdctx, ready, conn, fired, cancels>>
  PROVE  StepOK(l) /\ (call[l].pc = "none" => call'[l].pc = "none")
<1>1. l \in Fds /\ l \notin Conns
  BY ServerAssumption
<1>2. CASE reg[l] # None
  <2>1. Wake(l) /\ call[l].pc = "wait"
    BY <1>1, <1>2 DEF CancelAll, SocketOK, WaitOK
  <2>2. call[l].kind # "CONNECT"
    BY <1>1, <2>1 DEF SocketOK, ConnOK, In, InPCs
  <2> QED
    BY <1>1, <1>2, <2>1, <2>2, WakeKeeps
<1>3. CASE reg[l] = None
  <2>1. UNCHANGED <<reg, call>>
    BY <1>3 DEF CancelAll
  <2>2. HookTypeOK' /\ Elsewhere(l)
    BY <2>1 DEF HookTypeOK, Elsewhere
  <2>3. SocketOK(l)'
    BY <2>1 DEF SocketOK, CallOK, WaitOK, ConnOK, In, Settled
  <2> QED
    BY <2>1, <2>2, <2>3 DEF StepOK
<1> QED
  BY <1>2, <1>3

(* do_io, on a socket whose fiber is in no call.                             *)
LEMMA IoKeeps ==
  ASSUME HookTypeOK, NEW fd \in Fds, SocketOK(fd), NEW k \in Events,
         fd \in Conns => conn[fd] # "new",
         Begin(fd, k) \/ CallDirectly(fd, k)
  PROVE  StepOK(fd) /\ call[fd].pc = "out"
<1>1. /\ call[fd].pc = "out" /\ UNCHANGED <<fdctx, conn, reg, fired, cancels>>
  BY DEF Begin, CallDirectly
<1>2. /\ ~Held(fired, fd) /\ reg[fd] = None
      /\ ~Settled(fd) => "WRITE" \notin ready[fd]
  BY <1>1, RestFacts
<1>3. CASE Begin(fd, k)
  <2> DEFINE c == [Outside("try") EXCEPT !.kind = k, !.timed = (k \in fdctx[fd].timed)]
  <2>1. call' = [call EXCEPT ![fd] = c] /\ UNCHANGED ready
    BY <1>3 DEF Begin
  <2>2. (k \in fdctx[fd].timed) \in BOOLEAN
    OBVIOUS
  <2>3. /\ c \in Calls /\ c.pc = "try" /\ c.kind = k /\ c.result = "none" /\ ~c.cancelled
    BY <2>2 DEF Outside, Calls, PCs, Kinds, Results
  <2> HIDE DEF c
  <2>4. /\ call' \in [Fds -> Calls] /\ call'[fd] = c
        /\ \A g \in Fds \ {fd} : call'[g] = call[g]
    BY <2>1, <2>3, CallReplaced
  <2>5. HookTypeOK' /\ Elsewhere(fd)
    BY <1>1, <2>1, <2>4 DEF HookTypeOK, Elsewhere
  <2>6. k \in Kinds /\ k # "CONNECT"
    BY DEF Kinds, Events
  <2>7. SocketOK(fd)'
    BY <1>1, <1>2, <2>1, <2>3, <2>4, <2>6, Begun DEF Settled
  <2> QED
    BY <1>1, <2>5, <2>7 DEF StepOK
<1>4. CASE CallDirectly(fd, k)
  <2> DEFINE c == [Outside("out") EXCEPT !.result = IF k \in ready[fd] THEN "kernel" ELSE "again"]
  <2>1. call' = [call EXCEPT ![fd] = c] /\ ready' = [ready EXCEPT ![fd] = @ \ {k}]
    BY <1>4 DEF CallDirectly
  <2>2. /\ c \in Calls /\ c.pc = "out" /\ c.result \in {"kernel", "again"}
        /\ ~c.cancelled /\ ~c.armed
    BY DEF Outside, Calls, PCs, Results
  <2> HIDE DEF c
  <2>3. /\ call' \in [Fds -> Calls] /\ call'[fd] = c
        /\ \A g \in Fds \ {fd} : call'[g] = call[g]
    BY <2>1, <2>2, CallReplaced
  <2>4. /\ ready' \in [Fds -> SUBSET Events] /\ ready'[fd] \subseteq ready[fd]
        /\ \A g \in Fds \ {fd} : ready'[g] = ready[g]
    BY <2>1 DEF HookTypeOK
  <2>5. HookTypeOK' /\ Elsewhere(fd)
    BY <1>1, <2>3, <2>4 DEF HookTypeOK, Elsewhere
  <2>6. ~In(fd)'
    BY <2>2, <2>3 DEF In, InPCs
  <2>7. SocketOK(fd)'
    BY <1>1, <1>2, <2>2, <2>3, <2>4, <2>6, AtRest DEF Settled
  <2> QED
    BY <1>1, <2>5, <2>7 DEF StepOK
<1> QED
  BY <1>3, <1>4

LEMMA ConnectKeeps ==
  ASSUME HookTypeOK, NEW fd \in Conns, SocketOK(fd), NEW timed \in BOOLEAN, Connect(fd, timed)
  PROVE  StepOK(fd)
<1>1. fd \in Fds
  BY ServerAssumption
<1>2. /\ call[fd].pc = "out" /\ conn[fd] = "new"
      /\ conn' = [conn EXCEPT ![fd] = IF fdctx[fd] = None THEN @ ELSE "going"]
      /\ UNCHANGED <<fdctx, ready, reg, fired, cancels>>
  BY DEF Connect
<1>3. /\ ~Held(fired, fd) /\ reg[fd] = None
      /\ "WRITE" \notin ready[fd] /\ ~Held(cancels, fd)
  BY <1>1, <1>2, RestFacts DEF Settled
<1>4. /\ conn' \in [Fds -> {"new", "going", "up", "refused"}]
      /\ conn'[fd] = IF fdctx[fd] = None THEN "new" ELSE "going"
      /\ \A g \in Fds \ {fd} : conn'[g] = conn[g]
  BY <1>1, <1>2 DEF HookTypeOK
<1>5. CASE Direct(fd)
  <2> DEFINE c == [Outside("out") EXCEPT
                     !.result = IF fdctx[fd] = None THEN "failed" ELSE "again"]
  <2>1. call' = [call EXCEPT ![fd] = c]
    BY <1>5 DEF Connect
  <2>2. /\ c \in Calls /\ c.pc = "out" /\ c.result \in {"failed", "again"}
        /\ ~c.cancelled /\ ~c.armed
    BY DEF Outside, Calls, PCs, Results
  <2> HIDE DEF c
  <2>3. /\ call' \in [Fds -> Calls] /\ call'[fd] = c
        /\ \A g \in Fds \ {fd} : call'[g] = call[g]
    BY <1>1, <2>1, <2>2, CallReplaced
  <2>4. HookTypeOK' /\ Elsewhere(fd)
    BY <1>2, <1>4, <2>3 DEF HookTypeOK, Elsewhere
  <2>5. ~In(fd)'
    BY <2>2, <2>3 DEF In, InPCs
  <2>6. SocketOK(fd)'
    BY <1>1, <1>2, <1>3, <2>2, <2>3, <2>5, AtRest
  <2> QED
    BY <2>4, <2>6 DEF StepOK
<1>6. CASE ~Direct(fd)
  <2> DEFINE c == [Outside(Waiting(timed)) EXCEPT !.kind = "CONNECT", !.timed = timed]
  <2>1. call' = [call EXCEPT ![fd] = c]
    BY <1>6 DEF Connect
  <2>2. /\ c \in Calls /\ c.pc \in {"arm", "add"} /\ c.kind = "CONNECT"
        /\ c.result = "none" /\ ~c.cancelled
    BY DEF Outside, Waiting, Calls, PCs, Kinds, Results
  <2> HIDE DEF c
  <2>3. /\ call' \in [Fds -> Calls] /\ call'[fd] = c
        /\ \A g \in Fds \ {fd} : call'[g] = call[g]
    BY <1>1, <2>1, <2>2, CallReplaced
  <2>4. HookTypeOK' /\ Elsewhere(fd)
    BY <1>2, <1>4, <2>3 DEF HookTypeOK, Elsewhere
  <2>5. conn'[fd] = "going"
    BY <1>4, <1>6 DEF Direct
  <2>6. "CONNECT" \in Kinds
    BY DEF Kinds
  <2>7. SocketOK(fd)'
    BY <1>1, <1>2, <1>3, <2>2, <2>3, <2>5, <2>6, Begun
  <2> QED
    BY <2>4, <2>7 DEF StepOK
<1> QED
  BY <1>5, <1>6

LEMMA ConnectAtOnceKeeps ==
  ASSUME HookTypeOK, NEW fd \in Conns, SocketOK(fd), NEW outcome \in {"up", "refused"},
         ConnectAtOnce(fd, outcome)
  PROVE  StepOK(fd)
<1> DEFINE c == [Outside("out") EXCEPT
                   !.result = IF outcome = "up" THEN "connected" ELSE "refused"]
<1>1. fd \in Fds
  BY ServerAssumption
<1>2. /\ call[fd].pc = "out" /\ conn[fd] = "new"
      /\ conn' = [conn EXCEPT ![fd] = outcome]
      /\ call' = [call EXCEPT ![fd] = c]
      /\ UNCHANGED <<fdctx, ready, reg, fired, cancels>>
  BY DEF ConnectAtOnce
<1>3. /\ ~Held(fired, fd) /\ reg[fd] = None
      /\ "WRITE" \notin ready[fd] /\ ~Held(cancels, fd)
  BY <1>1, <1>2, RestFacts DEF Settled
<1>4. /\ conn' \in [Fds -> {"new", "going", "up", "refused"}] /\ conn'[fd] = outcome
      /\ \A g \in Fds \ {fd} : conn'[g] = conn[g]
  BY <1>1, <1>2 DEF HookTypeOK
<1>5. /\ c \in Calls /\ c.pc = "out"
      /\ c.result = IF outcome = "up" THEN "connected" ELSE "refused"
      /\ ~c.cancelled /\ ~c.armed
  BY DEF Outside, Calls, PCs, Results
<1> HIDE DEF c
<1>6. /\ call' \in [Fds -> Calls] /\ call'[fd] = c
      /\ \A g \in Fds \ {fd} : call'[g] = call[g]
  BY <1>1, <1>2, <1>5, CallReplaced
<1>7. HookTypeOK' /\ Elsewhere(fd)
  BY <1>2, <1>4, <1>6 DEF HookTypeOK, Elsewhere
<1>8. ~In(fd)'
  BY <1>5, <1>6 DEF In, InPCs
<1>9. SocketOK(fd)'
  BY <1>1, <1>2, <1>3, <1>4, <1>5, <1>6, <1>8, AtRest DEF Settled
<1> QED
  BY <1>7, <1>9 DEF StepOK

LEMMA HandleKeeps ==
  ASSUME HookTypeOK, NEW fd \in Conns, SocketOK(fd), Handle(fd)
  PROVE  StepOK(fd)
<1>1. fd \in Fds
  BY ServerAssumption
<1>2. CASE Open(fd) \/ Sleep(fd)
  <2>1. PICK pc \in {"out", "sleep"} : call' = [call EXCEPT ![fd] = Outside(pc)]
    BY <1>2 DEF Open, Sleep
  <2>2. /\ call[fd].pc \in {"none", "out"}
        /\ UNCHANGED <<ready, conn, reg, fired, cancels>>
    BY <1>2 DEF Open, Sleep
  <2>3. fdctx' \in [Fds -> Contexts \cup {None}]
    <3>1. NewFdCtx \in Contexts
      BY DEF NewFdCtx, Contexts
    <3>2. fdctx' = [fdctx EXCEPT ![fd] = NewFdCtx] \/ fdctx' = fdctx
      BY <1>2 DEF Open, Sleep
    <3> QED
      BY <1>1, <3>1, <3>2 DEF HookTypeOK
  <2>4. Outside(pc) \in Calls /\ Outside(pc).pc = pc /\ Outside(pc).result = "none"
        /\ ~Outside(pc).cancelled /\ ~Outside(pc).armed
    BY OutsideIsCall DEF Outside, PCs
  <2>5. /\ call' \in [Fds -> Calls] /\ call'[fd] = Outside(pc)
        /\ \A g \in Fds \ {fd} : call'[g] = call[g]
    BY <1>1, <2>1, <2>4, CallReplaced
  <2>6. HookTypeOK' /\ Elsewhere(fd)
    BY <2>2, <2>3, <2>5 DEF HookTypeOK, Elsewhere
  <2>7. ~In(fd)'
    BY <2>1, <2>4, <2>5 DEF In, InPCs
  <2>8. SocketOK(fd)'
    BY <1>1, <2>2, <2>4, <2>5, <2>7, RestFacts, AtRest DEF Settled
  <2> QED
    BY <2>6, <2>8 DEF StepOK
<1>3. CASE Close(fd)
  <2>1. /\ call[fd].pc = "out" /\ \A e \in Events : <<fd, e>> \notin cancels
        /\ fdctx' = [fdctx EXCEPT ![fd] = None]
        /\ ready' = [ready EXCEPT ![fd] = {}]
        /\ conn' = [conn EXCEPT ![fd] = "new"]
        /\ call' = [call EXCEPT ![fd] = Outside("none")]
        /\ UNCHANGED <<reg, fired, cancels>>
    BY <1>3 DEF Close
  <2>2. Outside("none") \in Calls /\ Outside("none").pc = "none"
        /\ Outside("none").result = "none"
        /\ ~Outside("none").cancelled /\ ~Outside("none").armed
    BY OutsideIsCall DEF Outside, PCs
  <2>3. /\ call' \in [Fds -> Calls] /\ call'[fd] = Outside("none")
        /\ \A g \in Fds \ {fd} : call'[g] = call[g]
    BY <1>1, <2>1, <2>2, CallReplaced
  <2>4. /\ fdctx' \in [Fds -> Contexts \cup {None}]
        /\ ready' \in [Fds -> SUBSET Events] /\ ready'[fd] = {}
        /\ conn' \in [Fds -> {"new", "going", "up", "refused"}]
        /\ \A g \in Fds \ {fd} : ready'[g] = ready[g] /\ conn'[g] = conn[g]
    BY <1>1, <2>1 DEF HookTypeOK
  <2>5. HookTypeOK' /\ Elsewhere(fd)
    BY <2>1, <2>3, <2>4 DEF HookTypeOK, Elsewhere
  <2>6. ~In(fd)' /\ ~Held(cancels', fd)
    BY <2>1, <2>2, <2>3 DEF In, InPCs, Held
  <2>7. SocketOK(fd)'
    BY <1>1, <2>1, <2>2, <2>3, <2>4, <2>6, RestFacts, AtRest
  <2> QED
    BY <2>5, <2>7 DEF StepOK
<1>4. CASE \E timed \in BOOLEAN : Connect(fd, timed)
  BY <1>4, ConnectKeeps
<1>5. CASE conn[fd] = "up" /\ \E k \in Events : Begin(fd, k) \/ CallDirectly(fd, k)
  BY <1>1, <1>5, IoKeeps
<1>6. CASE \E outcome \in {"up", "refused"} : ConnectAtOnce(fd, outcome)
  BY <1>6, ConnectAtOnceKeeps
<1>7. CASE (\E k \in Events, timed \in BOOLEAN : SetTimeout(fd, k, timed))
           \/ \E user \in BOOLEAN : SetUserNonblock(fd, user)
  <2>1. /\ fdctx' \in [Fds -> Contexts \cup {None}]
        /\ UNCHANGED <<ready, conn, reg, call, fired, cancels>>
    <3>1. CASE \E k \in Events, timed \in BOOLEAN : SetTimeout(fd, k, timed)
      <4>1. PICK k \in Events, timed \in BOOLEAN : SetTimeout(fd, k, timed)
        BY <3>1
      <4>2. fdctx[fd] \in Contexts
        BY <1>1, <4>1 DEF SetTimeout, HookTypeOK
      <4> DEFINE x == [fdctx[fd] EXCEPT !.timed = IF timed THEN @ \cup {k} ELSE @ \ {k}]
      <4>3. x \in Contexts
        BY <4>2 DEF Contexts
      <4>4. fdctx' = [fdctx EXCEPT ![fd] = x]
        BY <4>1 DEF SetTimeout
      <4> HIDE DEF x
      <4> QED
        BY <1>1, <4>1, <4>3, <4>4 DEF SetTimeout, HookTypeOK
    <3>2. CASE \E user \in BOOLEAN : SetUserNonblock(fd, user)
      <4>1. PICK user \in BOOLEAN : SetUserNonblock(fd, user)
        BY <3>2
      <4>2. fdctx[fd] \in Contexts
        BY <1>1, <4>1 DEF SetUserNonblock, HookTypeOK
      <4> DEFINE x == [fdctx[fd] EXCEPT !.user = user]
      <4>3. x \in Contexts
        BY <4>2 DEF Contexts
      <4>4. fdctx' = [fdctx EXCEPT ![fd] = x]
        BY <4>1 DEF SetUserNonblock
      <4> HIDE DEF x
      <4> QED
        BY <1>1, <4>1, <4>3, <4>4 DEF SetUserNonblock, HookTypeOK
    <3> QED
      BY <1>7, <3>1, <3>2
  <2>2. HookTypeOK' /\ Elsewhere(fd)
    BY <2>1 DEF HookTypeOK, Elsewhere
  <2>3. SocketOK(fd)'
    BY <2>1 DEF SocketOK, CallOK, WaitOK, ConnOK, In, Settled
  <2> QED
    BY <2>2, <2>3 DEF StepOK
<1> QED
  BY <1>2, <1>3, <1>4, <1>5, <1>6, <1>7 DEF Handle

LEMMA KernelKeeps ==
  ASSUME HookTypeOK, SocketsOK, Kernel
  PROVE  HookTypeOK' /\ SocketsOK' /\ UNCHANGED call
<1>1. \A l \in Listeners : l \in Fds /\ l \notin Conns
  BY ServerAssumption
<1>2. ASSUME NEW fd \in Fds, NEW e \in Events, BecomesReady(fd, e),
             e = "WRITE" => Settled(fd)
      PROVE  StepOK(fd) /\ UNCHANGED call
  <2>1. /\ ready' = [ready EXCEPT ![fd] = @ \cup {e}]
        /\ UNCHANGED <<fdctx, conn, reg, call, fired, cancels>>
    BY <1>2 DEF BecomesReady
  <2>2. HookTypeOK' /\ Elsewhere(fd)
    BY <2>1 DEF HookTypeOK, Elsewhere
  <2>3. ~Settled(fd) => "WRITE" \notin ready'[fd]
    BY <1>2, <2>1 DEF SocketOK, ConnOK, HookTypeOK, SocketsOK
  <2>4. SocketOK(fd)'
    BY <2>1, <2>3 DEF SocketsOK, SocketOK, CallOK, WaitOK, ConnOK, In, Settled
  <2> QED
    BY <2>1, <2>2, <2>4 DEF StepOK
<1>3. ASSUME NEW fd \in Conns, NEW outcome \in {"up", "refused"}, Connected(fd, outcome)
      PROVE  fd \in Fds /\ StepOK(fd) /\ UNCHANGED call
  <2>1. fd \in Fds
    BY ServerAssumption
  <2>2. /\ conn[fd] = "going"
        /\ conn' = [conn EXCEPT ![fd] = outcome]
        /\ ready' = [ready EXCEPT ![fd] = @ \cup {"WRITE"}]
        /\ UNCHANGED <<fdctx, reg, call, fired, cancels>>
    BY <1>3 DEF Connected
  <2>3. HookTypeOK' /\ Elsewhere(fd)
    BY <2>2 DEF HookTypeOK, Elsewhere, Events
  <2>4. conn'[fd] = outcome /\ Settled(fd)'
    BY <2>1, <2>2 DEF HookTypeOK, Settled
  <2>5. SocketOK(fd)
    BY <2>1 DEF SocketsOK
  <2>6. CallOK(fd)'
    BY <2>2, <2>4, <2>5 DEF SocketOK, CallOK, In
  <2>7. WaitOK(fd)' /\ ConnOK(fd)'
    BY <2>2, <2>4, <2>5 DEF SocketOK, WaitOK, ConnOK, In
  <2> QED
    BY <2>1, <2>2, <2>3, <2>6, <2>7 DEF StepOK, SocketOK
<1>4. \E fd \in Fds : StepOK(fd) /\ UNCHANGED call
  <2>1. CASE \E l \in Listeners : BecomesReady(l, "READ")
    BY <1>1, <1>2, <2>1 DEF Events
  <2>2. CASE \E c \in Conns, e \in Events : conn[c] = "up" /\ BecomesReady(c, e)
    BY <1>2, <2>2, ServerAssumption DEF Settled
  <2>3. CASE \E c \in Conns, outcome \in {"up", "refused"} : Connected(c, outcome)
    BY <1>3, <2>3
  <2> QED
    BY <2>1, <2>2, <2>3 DEF Kernel
<1> QED
  BY <1>4, ElsewhereKeeps DEF StepOK
-----------------------------------------------------------------------------
LEMMA InitHolds == Init => IInv
<1> SUFFICES ASSUME Init PROVE IInv
  OBVIOUS
<1>1. HookTypeOK
  BY OutsideIsCall DEF Init, HookInit, HookTypeOK, PCs
<1>2. TypeOK
  <2>1. life \in [Listeners -> Lives]
    BY DEF Init, Lives
  <2>2. loop \in [Listeners -> {"off", "test", "call", "in", "end"}]
        /\ late \in [Listeners -> 0..2]
    BY DEF Init
  <2>3. server = "new" /\ crashed = FALSE
    BY DEF Init
  <2> QED
    BY <1>1, <2>1, <2>2, <2>3 DEF TypeOK
<1>3. ASSUME NEW fd \in Fds PROVE SocketOK(fd)
  <2>1. /\ call[fd].pc = "none" /\ call[fd].result = "none"
        /\ ~call[fd].armed /\ ~call[fd].cancelled
        /\ reg[fd] = None /\ ready[fd] = {} /\ fired = {} /\ cancels = {}
    BY DEF Init, HookInit, Outside
  <2>2. ~In(fd) /\ ~Held(fired, fd) /\ ~Held(cancels, fd)
    BY <2>1 DEF In, InPCs, Held
  <2> QED
    BY <2>1, <2>2 DEF SocketOK, CallOK, WaitOK, ConnOK
<1>4. NotStarted /\ LateOK
  BY ServerAssumption DEF Init, HookInit, NotStarted, LateOK, Outside
<1> QED
  BY <1>2, <1>3, <1>4 DEF IInv, SocketsOK

(* A step of the fibers, the pool or the kernel leaves the server alone.     *)
LEMMA PoolKeeps ==
  ASSUME IInv, UNCHANGED serverVars,
         (\E fd \in Fds : InCall(fd) \/ Wakers(fd)) \/ Kernel \/ \E c \in Conns : Handle(c)
  PROVE  IInv'
<1>1. UNCHANGED <<server, life, loop, late, crashed>>
  BY DEF serverVars
<1>2. HookTypeOK /\ SocketsOK
  BY DEF IInv, TypeOK
<1>3. /\ HookTypeOK' /\ SocketsOK'
      /\ \A l \in Listeners : call[l].pc = "none" => call'[l].pc = "none"
  <2>1. ASSUME NEW fd \in Fds, StepOK(fd),
               fd \in Conns \/ (call[fd].pc = "none" => call'[fd].pc = "none")
        PROVE  /\ HookTypeOK' /\ SocketsOK'
               /\ \A l \in Listeners : call[l].pc = "none" => call'[l].pc = "none"
    <3>1. HookTypeOK' /\ SocketsOK'
      BY <1>2, <2>1, ElsewhereKeeps DEF StepOK
    <3>2. \A g \in Fds \ {fd} : call'[g] = call[g]
      BY <2>1 DEF StepOK, Elsewhere
    <3> QED
      BY <2>1, <3>1, <3>2, ServerAssumption
  <2>2. CASE \E fd \in Fds : InCall(fd) \/ Wakers(fd)
    BY <1>2, <2>1, <2>2, InCallKeeps, WakersKeep DEF SocketsOK
  <2>3. CASE Kernel
    BY <1>2, <2>3, KernelKeeps
  <2>4. CASE \E c \in Conns : Handle(c)
    BY <1>2, <2>1, <2>4, HandleKeeps, ServerAssumption DEF SocketsOK
  <2> QED
    BY <2>2, <2>3, <2>4
<1>4. TypeOK'
  BY <1>1, <1>3 DEF IInv, TypeOK
<1>5. NotStarted' /\ LateOK'
  BY <1>1, <1>3 DEF IInv, NotStarted, LateOK
<1> QED
  BY <1>3, <1>4, <1>5 DEF IInv

(* bind(), start() and stop().                                               *)
LEMMA ServerKeeps ==
  ASSUME IInv, Bind \/ Start \/ Stop
  PROVE  IInv'
<1>1. HookTypeOK /\ SocketsOK /\ NotStarted /\ LateOK
  BY DEF IInv, TypeOK
<1>2. CASE Bind
  <2>1. /\ server = "new" /\ server' = "bound"
        /\ UNCHANGED <<ready, conn, reg, call, fired, cancels, loop, late, crashed>>
    BY <1>2 DEF Bind
  <2>2. life' \in [Listeners -> Lives]
    BY <1>2 DEF Bind, IInv, TypeOK, Lives
  <2>3. fdctx' \in [Fds -> Contexts \cup {None}]
    <3>1. NewFdCtx \in Contexts
      BY DEF NewFdCtx, Contexts
    <3> QED
      BY <1>1, <1>2, <3>1 DEF Bind, HookTypeOK
  <2>4. TypeOK'
    BY <1>1, <2>1, <2>2, <2>3 DEF IInv, TypeOK, HookTypeOK
  <2>5. SocketsOK'
    BY <1>1, <2>1 DEF SocketsOK, SocketOK, CallOK, WaitOK, ConnOK, In, Settled
  <2>6. NotStarted' /\ LateOK'
    BY <1>1, <2>1 DEF NotStarted, LateOK
  <2> QED
    BY <2>4, <2>5, <2>6 DEF IInv
<1>3. CASE Start
  <2>1. /\ server = "bound" /\ server' = "running"
        /\ loop' = [l \in Listeners |-> IF life[l] = "bound" THEN "test" ELSE "off"]
        /\ UNCHANGED <<fdctx, ready, conn, reg, fired, cancels, life, late, crashed>>
    BY <1>3 DEF Start
  <2>2. \A fd \in Fds : call'[fd] = IF fd \in Listeners /\ life[fd] = "bound"
                                    THEN Outside("out") ELSE call[fd]
    BY <1>3 DEF Start
  <2>3. Outside("out") \in Calls /\ Outside("out").pc = "out"
        /\ Outside("out").result = "none"
        /\ ~Outside("out").cancelled /\ ~Outside("out").armed
    BY OutsideIsCall DEF Outside, PCs
  <2>4. call' \in [Fds -> Calls]
    BY <1>1, <1>3, <2>3 DEF Start, HookTypeOK
  <2>5. TypeOK'
    BY <1>1, <2>1, <2>4 DEF IInv, TypeOK, HookTypeOK
  <2>6. ASSUME NEW fd \in Fds PROVE SocketOK(fd)'
    <3>1. SocketOK(fd)
      BY <1>1 DEF SocketsOK
    <3>2. CASE fd \in Listeners /\ life[fd] = "bound"
      <4>1. call[fd].pc = "none" /\ call'[fd] = Outside("out")
        BY <1>1, <2>1, <2>2, <3>2 DEF NotStarted
      <4>2. ~In(fd)'
        BY <2>3, <4>1 DEF In, InPCs
      <4> QED
        BY <1>1, <2>1, <2>3, <3>1, <4>1, <4>2, RestFacts, AtRest DEF Settled
    <3>3. CASE ~(fd \in Listeners /\ life[fd] = "bound")
      <4>1. call'[fd] = call[fd]
        BY <2>2, <3>3
      <4> QED
        BY <2>1, <3>1, <4>1 DEF SocketOK, CallOK, WaitOK, ConnOK, In, Settled
    <3> QED
      BY <3>2, <3>3
  <2>7. NotStarted' /\ LateOK'
    BY <1>1, <2>1 DEF NotStarted, LateOK
  <2> QED
    BY <2>5, <2>6, <2>7 DEF IInv, SocketsOK
<1>4. CASE Stop
  <2>1. /\ server = "running" /\ server' = "stopped"
        /\ UNCHANGED <<fdctx, ready, conn, reg, call, fired, cancels, life, loop, late, crashed>>
    BY <1>4 DEF Stop, hookVars
  <2>2. TypeOK'
    BY <2>1 DEF IInv, TypeOK, HookTypeOK
  <2>3. SocketsOK'
    BY <1>1, <2>1 DEF SocketsOK, SocketOK, CallOK, WaitOK, ConnOK, In, Settled
  <2>4. NotStarted' /\ LateOK'
    BY <1>1, <2>1 DEF NotStarted, LateOK
  <2> QED
    BY <2>2, <2>3, <2>4 DEF IInv
<1> QED
  BY <1>2, <1>3, <1>4

(* The clean-up that stop() posts: it wakes whoever waits, or takes nothing  *)
(* the fibers rely on.                                                       *)
LEMMA CleanUpKeeps ==
  ASSUME IInv, NEW l \in Listeners, CleanUp(l)
  PROVE  IInv'
<1>1. HookTypeOK /\ SocketsOK /\ NotStarted /\ LateOK /\ l \in Fds /\ l \notin Conns
  BY ServerAssumption DEF IInv, TypeOK
<1>2. life' \in [Listeners -> Lives] /\ UNCHANGED <<server, loop, late, crashed>>
  BY DEF CleanUp, StopCancel, CloseCancel, CloseDelete, CloseForget, Becomes, IInv, TypeOK, Lives
<1>3. /\ HookTypeOK' /\ SocketsOK'
      /\ \A g \in Listeners : call[g].pc = "none" => call'[g].pc = "none"
  <2>1. CASE StopCancel(l) \/ CloseCancel(l)
    <3>1. CancelAll(l) /\ UNCHANGED <<fdctx, ready, conn, fired, cancels>>
      BY <2>1 DEF StopCancel, CloseCancel
    <3>2. StepOK(l) /\ (call[l].pc = "none" => call'[l].pc = "none")
      BY <1>1, <3>1, CancelAllKeeps DEF SocketsOK
    <3>3. HookTypeOK' /\ SocketsOK'
      BY <1>1, <3>2, ElsewhereKeeps DEF StepOK
    <3>4. \A g \in Fds \ {l} : call'[g] = call[g]
      BY <3>2 DEF StepOK, Elsewhere
    <3> QED
      BY <3>2, <3>3, <3>4, ServerAssumption
  <2>2. CASE CloseDelete(l) \/ CloseForget(l)
    <3>1. UNCHANGED <<ready, conn, reg, call, fired, cancels>>
      BY <2>2 DEF CloseDelete, CloseForget, hookVars
    <3>2. fdctx' \in [Fds -> Contexts \cup {None}]
      BY <1>1, <2>2 DEF CloseDelete, CloseForget, hookVars, HookTypeOK
    <3>3. HookTypeOK'
      BY <1>1, <3>1, <3>2 DEF HookTypeOK
    <3>4. SocketsOK'
      BY <1>1, <3>1 DEF SocketsOK, SocketOK, CallOK, WaitOK, ConnOK, In, Settled
    <3> QED
      BY <3>1, <3>3, <3>4
  <2> QED
    BY <2>1, <2>2 DEF CleanUp
<1>4. TypeOK'
  BY <1>2, <1>3 DEF IInv, TypeOK
<1>5. NotStarted' /\ LateOK'
  BY <1>1, <1>2, <1>3 DEF NotStarted, LateOK
<1> QED
  BY <1>3, <1>4, <1>5 DEF IInv

(* The fiber of listening socket l handles what accept() returned.           *)
LEMMA AcceptedKeeps ==
  ASSUME IInv, NEW l \in Listeners, NotAccepted(l) \/ \E c \in Conns : Accepted(l, c)
  PROVE  IInv'
<1>1. /\ HookTypeOK /\ SocketsOK /\ NotStarted /\ LateOK
      /\ Listeners \subseteq Fds /\ Conns \subseteq Fds /\ l \notin Conns
  BY ServerAssumption DEF IInv, TypeOK
<1>2. /\ loop[l] = "in" /\ loop' = [loop EXCEPT ![l] = "test"] /\ call[l].pc = "out"
      /\ UNCHANGED <<ready, reg, fired, cancels, server, life, crashed>>
  BY DEF NotAccepted, Accepted, Goes
<1>3. /\ loop' \in [Listeners -> {"off", "test", "call", "in", "end"}] /\ loop'[l] = "test"
      /\ \A g \in Listeners \ {l} : loop'[g] = loop[g]
  BY <1>2 DEF IInv, TypeOK
<1>4. Outside("out") \in Calls /\ Outside("out").pc = "out" /\ Outside("out").result = "none"
      /\ ~Outside("out").cancelled /\ ~Outside("out").armed
  BY OutsideIsCall DEF Outside, PCs
<1>5. server \notin {"new", "bound"}
  BY <1>1, <1>2 DEF NotStarted
<1>6. SocketOK(l)' /\ TypeOK' /\ SocketsOK' /\ LateOK'
  <2>1. ASSUME NEW fd \in Fds, call[fd].pc \in {"none", "out"}, call'[fd] = Outside("out"),
               conn'[fd] = conn[fd] \/ conn'[fd] = "up"
        PROVE  SocketOK(fd)'
    <3>1. ~In(fd)'
      BY <1>4, <2>1 DEF In, InPCs
    <3>2. SocketOK(fd)
      BY <1>1 DEF SocketsOK
    <3>3. Settled(fd) => Settled(fd)'
      BY <2>1 DEF Settled
    <3>4. /\ ~Held(fired, fd) /\ reg[fd] = None
          /\ ~Settled(fd) => "WRITE" \notin ready[fd]
          /\ fd \in Conns /\ conn[fd] = "new" => ~Held(cancels, fd)
      BY <1>1, <2>1, <3>2, RestFacts
    <3> QED
      BY <1>2, <1>4, <2>1, <3>1, <3>3, <3>4, AtRest
  <2>2. ASSUME NEW fd \in Fds, call'[fd] = call[fd], conn'[fd] = conn[fd]
        PROVE  SocketOK(fd)'
    BY <1>1, <1>2, <2>2 DEF SocketsOK, SocketOK, CallOK, WaitOK, ConnOK, In, Settled
  <2>3. CASE NotAccepted(l)
    <3>1. call' = [call EXCEPT ![l] = Outside("out")] /\ UNCHANGED <<fdctx, conn, late>>
      BY <2>3 DEF NotAccepted
    <3>2. /\ call' \in [Fds -> Calls] /\ call'[l] = Outside("out")
          /\ \A g \in Fds \ {l} : call'[g] = call[g]
      BY <1>1, <1>4, <3>1, CallReplaced
    <3>3. SocketsOK'
      BY <1>1, <1>2, <2>1, <2>2, <3>1, <3>2 DEF SocketsOK
    <3>4. TypeOK'
      BY <1>2, <1>3, <3>1, <3>2 DEF IInv, TypeOK, HookTypeOK
    <3>5. LateOK'
      BY <1>1, <1>2, <1>3, <3>1 DEF LateOK
    <3> QED
      BY <1>1, <3>3, <3>4, <3>5 DEF SocketsOK
  <2>4. ASSUME NEW c \in Conns, Accepted(l, c)
        PROVE  SocketsOK' /\ TypeOK' /\ LateOK'
    <3>1. /\ call[c].pc = "none"
          /\ fdctx' = [fdctx EXCEPT ![c] = [NewFdCtx EXCEPT !.timed = {"READ"}]]
          /\ conn' = [conn EXCEPT ![c] = "up"]
          /\ call' = [call EXCEPT ![c] = Outside("out"), ![l] = Outside("out")]
          /\ late' = IF server = "stopped" /\ late[l] < 2
                     THEN [late EXCEPT ![l] = @ + 1] ELSE late
      BY <2>4 DEF Accepted
    <3>2. /\ call' \in [Fds -> Calls] /\ call'[c] = Outside("out") /\ call'[l] = Outside("out")
          /\ \A g \in Fds \ {l, c} : call'[g] = call[g]
      BY <1>1, <1>4, <3>1 DEF HookTypeOK
    <3>3. /\ conn' \in [Fds -> {"new", "going", "up", "refused"}] /\ conn'[c] = "up"
          /\ \A g \in Fds \ {c} : conn'[g] = conn[g]
      BY <1>1, <3>1 DEF HookTypeOK
    <3>4. fdctx' \in [Fds -> Contexts \cup {None}]
      <4>1. [NewFdCtx EXCEPT !.timed = {"READ"}] \in Contexts
        BY DEF NewFdCtx, Contexts, Events
      <4> QED
        BY <1>1, <3>1, <4>1 DEF HookTypeOK
    <3>5. late[l] \in 0..2 /\ ~(late[l] > 0)
      BY <1>1, <1>2 DEF LateOK, IInv, TypeOK
    <3>6. late[l] = 0
      BY <3>5
    <3>7. /\ late' \in [Listeners -> 0..2] /\ late'[l] = (IF server = "stopped" THEN 1 ELSE 0)
          /\ \A g \in Listeners \ {l} : late'[g] = late[g]
      BY <3>1, <3>6 DEF IInv, TypeOK
    <3>8. SocketsOK'
      <4>1. ASSUME NEW fd \in Fds PROVE SocketOK(fd)'
        <5>1. CASE fd \in {l, c}
          BY <1>2, <2>1, <3>1, <3>2, <3>3, <5>1
        <5>2. CASE fd \notin {l, c}
          BY <2>2, <3>2, <3>3, <5>2
        <5> QED
          BY <5>1, <5>2
      <4> QED
        BY <4>1 DEF SocketsOK
    <3>9. TypeOK'
      BY <1>2, <1>3, <3>2, <3>3, <3>4, <3>7 DEF IInv, TypeOK, HookTypeOK
    <3>10. LateOK'
      BY <1>1, <1>2, <1>3, <3>7 DEF LateOK
    <3> QED
      BY <3>8, <3>9, <3>10
  <2> QED
    BY <1>1, <2>3, <2>4 DEF SocketsOK
<1>7. NotStarted'
  BY <1>2, <1>5 DEF NotStarted
<1> QED
  BY <1>6, <1>7 DEF IInv

LEMMA AcceptLoopKeeps ==
  ASSUME IInv, NEW l \in Listeners, AcceptLoop(l)
  PROVE  IInv'
<1>1. /\ HookTypeOK /\ SocketsOK /\ NotStarted /\ LateOK
      /\ l \in Fds /\ l \notin Conns
  BY ServerAssumption DEF IInv, TypeOK
<1>2. CASE TestStop(l)
  <2>1. /\ loop[l] = "test"
        /\ loop' = [loop EXCEPT ![l] = IF server = "running" THEN "call" ELSE "end"]
        /\ UNCHANGED <<fdctx, ready, conn, reg, call, fired, cancels, server, life, late, crashed>>
    BY <1>2 DEF TestStop, hookVars
  <2>2. TypeOK'
    BY <2>1 DEF IInv, TypeOK, HookTypeOK
  <2>3. SocketsOK'
    BY <1>1, <2>1 DEF SocketsOK, SocketOK, CallOK, WaitOK, ConnOK, In, Settled
  <2>4. NotStarted' /\ LateOK'
    BY <1>1, <2>1 DEF NotStarted, LateOK, IInv, TypeOK
  <2> QED
    BY <2>2, <2>3, <2>4 DEF IInv
<1>3. CASE CallAccept(l)
  <2>1. /\ loop[l] = "call" /\ loop' = [loop EXCEPT ![l] = "in"]
        /\ Begin(l, "READ") \/ CallDirectly(l, "READ")
        /\ UNCHANGED <<server, life, late, crashed>>
    BY <1>3 DEF CallAccept, Goes
  <2>2. StepOK(l) /\ call[l].pc = "out"
    BY <1>1, <2>1, IoKeeps DEF SocketsOK, Events
  <2>3. HookTypeOK' /\ SocketsOK'
    BY <1>1, <2>2, ElsewhereKeeps DEF StepOK
  <2>4. TypeOK'
    BY <2>1, <2>3 DEF IInv, TypeOK
  <2>5. NotStarted'
    BY <1>1, <2>1, <2>2 DEF NotStarted
  <2>6. LateOK'
    BY <1>1, <2>1 DEF LateOK, IInv, TypeOK
  <2> QED
    BY <2>3, <2>4, <2>5, <2>6 DEF IInv
<1>4. CASE CallAcceptClosed(l)
  <2>1. /\ loop[l] = "call" /\ loop' = [loop EXCEPT ![l] = "test"] /\ crashed' \in BOOLEAN
        /\ UNCHANGED <<fdctx, ready, conn, reg, call, fired, cancels, server, life, late>>
    BY <1>4 DEF CallAcceptClosed, hookVars, Goes
  <2>2. TypeOK'
    BY <2>1 DEF IInv, TypeOK, HookTypeOK
  <2>3. SocketsOK'
    BY <1>1, <2>1 DEF SocketsOK, SocketOK, CallOK, WaitOK, ConnOK, In, Settled
  <2>4. NotStarted' /\ LateOK'
    BY <1>1, <2>1 DEF NotStarted, LateOK, IInv, TypeOK
  <2> QED
    BY <2>2, <2>3, <2>4 DEF IInv
<1> QED
  BY <1>2, <1>3, <1>4, AcceptedKeeps DEF AcceptLoop
-----------------------------------------------------------------------------
LEMMA NextKeeps == IInv /\ [Next]_vars => IInv'
<1> SUFFICES ASSUME IInv, [Next]_vars PROVE IInv'
  OBVIOUS
<1>1. CASE Next
  BY <1>1, ServerKeeps, AcceptLoopKeeps, CleanUpKeeps, PoolKeeps DEF Next, Running
<1>2. CASE UNCHANGED vars
  <2>1. UNCHANGED <<fdctx, ready, conn, reg, call, fired, cancels, server, life, loop, late,
                    crashed>>
    BY <1>2 DEF vars, hookVars, serverVars
  <2>2. TypeOK'
    BY <2>1 DEF IInv, TypeOK, HookTypeOK
  <2>3. SocketsOK'
    BY <2>1 DEF IInv, SocketsOK, SocketOK, CallOK, WaitOK, ConnOK, In, Settled
  <2>4. NotStarted' /\ LateOK'
    BY <2>1 DEF IInv, NotStarted, LateOK
  <2> QED
    BY <2>2, <2>3, <2>4 DEF IInv
<1> QED
  BY <1>1, <1>2

LEMMA InvariantHolds == Spec => []IInv
  BY InitHolds, NextKeeps, PTL DEF Spec

(* A fiber is registered with the IOManager exactly while it is parked in a  *)
(* hooked call, for the event of that call.                                  *)
THEOREM WaitCorrect == Spec => []WaitIsRegistered
<1>1. IInv => WaitIsRegistered
  BY DEF IInv, SocketsOK, SocketOK, WaitOK, WaitIsRegistered
<1> QED
  BY <1>1, InvariantHolds, PTL

(* A hooked call reports ETIMEDOUT only if a timer of its own expired.       *)
THEOREM TimeoutCorrect == Spec => []TimeoutIsOwn
<1>1. IInv => TimeoutIsOwn
  BY DEF IInv, SocketsOK, SocketOK, CallOK, TimeoutIsOwn
<1> QED
  BY <1>1, InvariantHolds, PTL

(* connect() reports success only of an established connection, or if it     *)
(* could not register to wait for it.                                        *)
THEOREM ConnectCorrect == Spec => []ConnectIsHonest
<1>1. IInv => ConnectIsHonest
  BY DEF IInv, SocketsOK, SocketOK, CallOK, ConnectIsHonest
<1> QED
  BY <1>1, InvariantHolds, PTL

(* A listening socket accepts at most one client after stop().               *)
THEOREM LateCorrect == Spec => []AtMostOneAfterStop
<1>1. IInv => AtMostOneAfterStop
  BY DEF IInv, LateOK, TypeOK, AtMostOneAfterStop
<1> QED
  BY <1>1, InvariantHolds, PTL
=============================================================================

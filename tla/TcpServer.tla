----------------------------- MODULE TcpServer -----------------------------
(***************************************************************************)
(* sylar_server/tcp_server.cpp on the hooked calls: bind, start, the       *)
(* accept loop of each listening socket, stop() with its posted clean-up,  *)
(* and the fibers of the connections, accepted or opened by connect.       *)
(*                                                                         *)
(* start() is called once: a second start() before the clean-up has run    *)
(* would put two fibers on one socket, which addEvent's assertion ends.    *)
(***************************************************************************)
EXTENDS Hook

CONSTANTS
  Listeners,   (* the sockets bind() makes                                  *)
  Conns        (* a supply of sockets for connections                       *)

ASSUME ServerAssumption ==
  /\ Fds = Listeners \cup Conns /\ Listeners \cap Conns = {}
  /\ IsFiniteSet(Fds)

VARIABLES
  server,    (* m_isStop is (server # "running")                            *)
  life,      (* a listening socket, from bind() to close()                  *)
  loop,      (* startAccept(): where its fiber is                           *)
  late,      (* connections accepted after stop(), two standing for more    *)
  crashed    (* the context of descriptor -1 was asked for                  *)

serverVars == <<server, life, loop, late, crashed>>
vars == <<hookVars, serverVars>>

Lives == {"unbound", "bound", "cancelled", "closing", "deleted", "closed"}

TypeOK ==
  /\ HookTypeOK
  /\ server \in {"new", "bound", "running", "stopped"}
  /\ life \in [Listeners -> Lives]
  /\ loop \in [Listeners -> {"off", "test", "call", "in", "end"}]
  /\ late \in [Listeners -> 0..2]
  /\ crashed \in BOOLEAN

Init ==
  /\ HookInit
  /\ server = "new"
  /\ life = [l \in Listeners |-> "unbound"]
  /\ loop = [l \in Listeners |-> "off"]
  /\ late = [l \in Listeners |-> 0]
  /\ crashed = FALSE
-----------------------------------------------------------------------------
(* bind(): every address, or, if one fails, none.                            *)
Bind ==
  /\ server = "new" /\ server' = "bound"
  /\ \/ /\ life' = [l \in Listeners |-> "bound"]
        /\ fdctx' = [fd \in Fds |-> IF fd \in Listeners THEN NewFdCtx ELSE fdctx[fd]]
     \/ UNCHANGED <<life, fdctx>>
  /\ UNCHANGED <<ready, conn, reg, call, fired, cancels, loop, late, crashed>>

(* start(): one fiber for each socket of m_socks.                            *)
Start ==
  /\ server = "bound" /\ server' = "running"
  /\ loop' = [l \in Listeners |-> IF life[l] = "bound" THEN "test" ELSE "off"]
  /\ call' = [fd \in Fds |-> IF fd \in Listeners /\ life[fd] = "bound"
                             THEN Outside("out") ELSE call[fd]]
  /\ UNCHANGED <<fdctx, ready, conn, reg, fired, cancels, life, late, crashed>>

(* stop(): m_isStop, and a callback posted to the accept worker ...          *)
Stop ==
  /\ server = "running" /\ server' = "stopped"
  /\ UNCHANGED <<hookVars, life, loop, late, crashed>>

Becomes(l, from, to) == life[l] = from /\ life' = [life EXCEPT ![l] = to]

(* ... which does for every socket cancelAll(), ...                          *)
StopCancel(l) ==
  /\ server = "stopped"
  /\ Becomes(l, "bound", "cancelled")
  /\ CancelAll(l)
  /\ UNCHANGED <<fdctx, ready, conn, fired, cancels, server, loop, late, crashed>>

(* ... and close(), hooked: cancelAll() again, ...                           *)
CloseCancel(l) ==
  /\ Becomes(l, "cancelled", "closing")
  /\ CancelAll(l)
  /\ UNCHANGED <<fdctx, ready, conn, fired, cancels, server, loop, late, crashed>>

(* ... the context is deleted (and the descriptor left open), ...            *)
CloseDelete(l) ==
  /\ Becomes(l, "closing", "deleted")
  /\ fdctx' = [fdctx EXCEPT ![l] = None]
  /\ UNCHANGED <<ready, conn, reg, call, fired, cancels, server, loop, late, crashed>>

(* ... and m_sock is -1.                                                     *)
CloseForget(l) ==
  /\ Becomes(l, "deleted", "closed")
  /\ UNCHANGED <<hookVars, server, loop, late, crashed>>
-----------------------------------------------------------------------------
Goes(l, from, to) == loop[l] = from /\ loop' = [loop EXCEPT ![l] = to]

(* Mutant: m_isStop is not looked at.                                        *)
TestStopNever(l) ==
  /\ loop[l] = "test"
  /\ loop' = [loop EXCEPT ![l] = "call"]
  /\ UNCHANGED <<hookVars, server, life, late, crashed>>

(* startAccept(): while(!m_isStop).                                          *)
TestStop(l) ==
  /\ loop[l] = "test"
  /\ loop' = [loop EXCEPT ![l] = IF server = "running" THEN "call" ELSE "end"]
  /\ UNCHANGED <<hookVars, server, life, late, crashed>>

(* Socket::accept() of m_sock.                                               *)
CallAccept(l) ==
  /\ Goes(l, "call", "in")
  /\ life[l] # "closed"
  /\ Begin(l, "READ") \/ CallDirectly(l, "READ")
  /\ UNCHANGED <<server, life, late, crashed>>

(* With m_sock = -1, FdManager::get reads m_datas[-1]: that ends the process *)
(* or finds nothing, and accept() fails.                                     *)
CallAcceptClosed(l) ==
  /\ Goes(l, "call", "test")
  /\ life[l] = "closed"
  /\ crashed' \in BOOLEAN
  /\ UNCHANGED <<hookVars, server, life, late>>

(* A connection, with its receive time-out set, is scheduled to be handled.  *)
Accepted(l, c) ==
  /\ Goes(l, "in", "test")
  /\ call[l].pc = "out" /\ call[l].result = "kernel" /\ call[c].pc = "none"
  /\ fdctx' = [fdctx EXCEPT ![c] = [NewFdCtx EXCEPT !.timed = {"READ"}]]
  /\ conn' = [conn EXCEPT ![c] = "up"]
  /\ call' = [call EXCEPT ![c] = Outside("out"), ![l] = Outside("out")]
  /\ late' = IF server = "stopped" /\ late[l] < 2 THEN [late EXCEPT ![l] = @ + 1] ELSE late
  /\ UNCHANGED <<ready, reg, fired, cancels, server, life, crashed>>

(* accept() failed, which is logged.                                         *)
NotAccepted(l) ==
  /\ Goes(l, "in", "test")
  /\ call[l].pc = "out"
  /\ call' = [call EXCEPT ![l] = Outside("out")]
  /\ UNCHANGED <<fdctx, ready, conn, reg, fired, cancels, server, life, late, crashed>>
-----------------------------------------------------------------------------
(* A fiber of the server opens a socket, to call connect().                  *)
Open(c) ==
  /\ call[c].pc = "none"
  /\ fdctx' = [fdctx EXCEPT ![c] = NewFdCtx]
  /\ call' = [call EXCEPT ![c] = Outside("out")]
  /\ UNCHANGED <<ready, conn, reg, fired, cancels>>

(* close() by the fiber itself, which waits for nothing.  The descriptor is  *)
(* never used again; the name is, once no callback holds it.                 *)
Close(c) ==
  /\ call[c].pc = "out" /\ \A e \in Events : <<c, e>> \notin cancels
  /\ fdctx' = [fdctx EXCEPT ![c] = None]
  /\ ready' = [ready EXCEPT ![c] = {}]
  /\ conn' = [conn EXCEPT ![c] = "new"]
  /\ call' = [call EXCEPT ![c] = Outside("none")]
  /\ UNCHANGED <<reg, fired, cancels>>

(* What the fiber of a connection may do.                                    *)
Handle(c) ==
  \/ Open(c) \/ Close(c) \/ Sleep(c)
  \/ \E timed \in BOOLEAN : Connect(c, timed)
  \/ \E outcome \in {"up", "refused"} : ConnectAtOnce(c, outcome)
  \/ conn[c] = "up" /\ \E k \in Events : Begin(c, k) \/ CallDirectly(c, k)
  \/ conn[c] = "up" /\ \E k \in Events, timed \in BOOLEAN : SetTimeout(c, k, timed)
  \/ conn[c] = "up" /\ \E user \in BOOLEAN : SetUserNonblock(c, user)

Kernel ==
  \/ \E l \in Listeners : life[l] # "unbound" /\ BecomesReady(l, "READ")
  \/ \E c \in Conns, e \in Events : conn[c] = "up" /\ BecomesReady(c, e)
  \/ \E c \in Conns, outcome \in {"up", "refused"} : Connected(c, outcome)

AcceptLoop(l) ==
  \/ TestStop(l) \/ CallAccept(l) \/ CallAcceptClosed(l)
  \/ (\E c \in Conns : Accepted(l, c)) \/ NotAccepted(l)

CleanUp(l) == StopCancel(l) \/ CloseCancel(l) \/ CloseDelete(l) \/ CloseForget(l)

Running ==
  \/ Bind \/ Start \/ Stop
  \/ \E l \in Listeners : AcceptLoop(l) \/ CleanUp(l)
  \/ ((\E fd \in Fds : InCall(fd) \/ Wakers(fd)) \/ Kernel
      \/ \E c \in Conns : Handle(c)) /\ UNCHANGED serverVars

Next == ~crashed /\ Running

Spec == Init /\ [][Next]_vars

(* Fibers that can run do, timers expire, callbacks run, events are found;   *)
(* no client, peer or user need do anything.                                 *)
Pool(A) == ~crashed /\ A /\ UNCHANGED serverVars

FairSpec ==
  /\ Spec
  /\ \A l \in Listeners : WF_vars(~crashed /\ AcceptLoop(l)) /\ WF_vars(~crashed /\ CleanUp(l))
  /\ \A fd \in Fds :
       /\ WF_vars(Pool(InCall(fd) \/ Trigger(fd) \/ WakeUp(fd)))
       /\ WF_vars(Pool(Expire(fd))) /\ WF_vars(Pool(Callback(fd)))
=============================================================================

----------------------------- MODULE MCIOManager -----------------------------
(***************************************************************************)
(* The fd events on small instances, and what is asked of them.            *)
(***************************************************************************)
EXTENDS IOManager

(* m_pendingEventCount is the number of events waited for, the context of    *)
(* every such event and of no other names a waiter, and epoll is asked for   *)
(* the same events: stopping() and idle() rely on the three agreeing.        *)
RegistrationsAgree ==
  TypeOK /\ (~aborted =>
    /\ pending = Cardinality({p \in Fds \X Events : p[2] \in events[p[1]]})
    /\ \A fd \in Fds : interest[fd] = events[fd]
    /\ \A fd \in Fds, e \in Events : e \in events[fd] <=> ctx[fd][e] # None)

(* A waiter is scheduled once and then never again, or taken away by         *)
(* delEvent and never scheduled ("does not trigger the event", iomanager.h), *)
(* however events, cancellations and late epoll results interleave.          *)
WokenOnceOrDeleted ==
  \A w \in Waiters :
    LET registrations == {p \in Fds \X Events : ctx[p[1]][p[2]] = w} IN
    wakes[w] + Cardinality(registrations) =
      IF w \in unused \cup deleted THEN 0 ELSE 1

(* The assertion of triggerEvent (iomanager.cpp:46): the event that is       *)
(* triggered is registered.                                                  *)
TriggerAssertion == ~aborted

(* A waiter whose fd becomes and stays ready is scheduled, unless delEvent   *)
(* takes it away or the process has been aborted.                            *)
ReadyIsServed ==
  \A w \in Waiters, fd \in Fds, e \in Events :
    (ctx[fd][e] = w /\ e \in ready[fd])
      ~> (wakes[w] > 0 \/ w \in deleted \/ e \notin ready[fd] \/ aborted)
=============================================================================

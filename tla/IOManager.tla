------------------------------ MODULE IOManager ------------------------------
(***************************************************************************)
(* The fd events of sylar_server/iomanager.{h,cpp}: addEvent, delEvent,    *)
(* cancelEvent, cancelAll, and the part of idle() that turns what          *)
(* epoll_wait returned into scheduled waiters.                             *)
(*                                                                         *)
(* Every operation holds the mutex of its FdContext, so it is one action;  *)
(* what epoll_wait returned is used after the return, when the context may *)
(* have changed.  The kernel's side of epoll is external.                  *)
(***************************************************************************)
EXTENDS Naturals, FiniteSets

CONSTANTS
  Fds,          (* file descriptors                                         *)
  Events,       (* the events waited for: a subset of {"READ", "WRITE"}     *)
  Waiters,      (* fibers or callbacks given to addEvent, each once         *)
  Dispatchers,  (* threads of the IOManager in idle()                       *)
  Ops,          (* subset of {"del", "cancel", "cancelAll", "error"}        *)
  None

ASSUME IOAssumption ==
  /\ Events \subseteq {"READ", "WRITE"}
  /\ Ops \subseteq {"del", "cancel", "cancelAll", "error"}
  /\ None \notin Waiters
  /\ IsFiniteSet(Fds) /\ IsFiniteSet(Waiters)

VARIABLES
  events,       (* FdContext::events                                        *)
  ctx,          (* FdContext::read and ::write: who is scheduled, or None   *)
  pending,      (* m_pendingEventCount                                      *)
  interest,     (* kernel: the events epoll_ctl asked for                   *)
  ready,        (* kernel: conditions of the fd; "ERROR" is EPOLLERR or HUP *)
  edge,         (* kernel: fds that the next epoll_wait looks at            *)
  got,          (* local events array of idle(): fd -> reported conditions  *)
  unused,       (* waiters not given to addEvent yet                        *)
  wakes,        (* how often each waiter was given to schedule()            *)
  deleted,      (* waiters that delEvent took away                          *)
  aborted       (* an assertion failed                                      *)

kernelVars == <<interest, ready, edge>>
historyVars == <<unused, wakes, deleted, aborted>>
vars == <<events, ctx, pending, kernelVars, got, historyVars>>

Conditions == Events \cup {"ERROR"}

TypeOK ==
  /\ events \in [Fds -> SUBSET Events]
  /\ ctx \in [Fds -> [Events -> Waiters \cup {None}]]
  /\ pending \in Nat
  /\ interest \in [Fds -> SUBSET Events]
  /\ ready \in [Fds -> SUBSET Conditions]
  /\ edge \subseteq Fds
  /\ got \in [Dispatchers -> [Fds -> SUBSET Conditions]]
  /\ unused \subseteq Waiters /\ deleted \subseteq Waiters
  /\ wakes \in [Waiters -> Nat]
  /\ aborted \in BOOLEAN

Init ==
  /\ events = [fd \in Fds |-> {}]
  /\ ctx = [fd \in Fds |-> [e \in Events |-> None]]
  /\ pending = 0
  /\ interest = [fd \in Fds |-> {}]
  /\ ready = [fd \in Fds |-> {}]
  /\ edge = {}
  /\ got = [d \in Dispatchers |-> [fd \in Fds |-> {}]]
  /\ unused = Waiters /\ deleted = {}
  /\ wakes = [w \in Waiters |-> 0]
  /\ aborted = FALSE
-----------------------------------------------------------------------------
(* What epoll reports of an fd: the conditions asked for, and errors always. *)
Reported(want, fd) ==
  IF want = {} THEN {} ELSE ready[fd] \cap (want \cup {"ERROR"})

(* epoll_ctl(ADD, MOD or DEL): the new interest, and the fd is looked at     *)
(* again if it already satisfies it.                                         *)
EpollCtl(fd, want) ==
  /\ interest' = [interest EXCEPT ![fd] = want]
  /\ edge' = IF Reported(want, fd) # {} THEN edge \cup {fd} ELSE edge \ {fd}
  /\ UNCHANGED ready

(* The peer, or the network: a condition appears (an edge) or goes away.     *)
BecomesReady(fd, c) ==
  /\ c \notin ready[fd] /\ (c = "ERROR" => "error" \in Ops)
  /\ ready' = [ready EXCEPT ![fd] = @ \cup {c}]
  /\ edge' = IF interest[fd] # {} /\ c \in interest[fd] \cup {"ERROR"}
             THEN edge \cup {fd} ELSE edge
  /\ UNCHANGED <<events, ctx, pending, interest, got, historyVars>>

Consumed(fd, e) ==
  /\ e \in ready[fd]
  /\ ready' = [ready EXCEPT ![fd] = @ \ {e}]
  /\ UNCHANGED <<events, ctx, pending, interest, edge, got, historyVars>>

(* epoll_wait: edge triggered, each fd is given to one thread; what is no    *)
(* longer true is not reported.                                              *)
EpollWait(d) ==
  /\ \A fd \in Fds : got[d][fd] = {}
  /\ edge # {}
  /\ got' = [got EXCEPT ![d] =
              [fd \in Fds |-> IF fd \in edge THEN Reported(interest[fd], fd) ELSE {}]]
  /\ edge' = {}
  /\ UNCHANGED <<events, ctx, pending, interest, ready, historyVars>>
-----------------------------------------------------------------------------
(* triggerEvent, for the events es of fd: their waiters are scheduled and    *)
(* the contexts emptied.  It asserts that each of es is registered.          *)
TriggerEvents(fd, es) ==
  /\ events' = [events EXCEPT ![fd] = @ \ es]
  /\ ctx' = [ctx EXCEPT ![fd] = [e \in Events |-> IF e \in es THEN None ELSE @[e]]]
  /\ wakes' = [w \in Waiters |->
                 IF \E e \in es : ctx[fd][e] = w THEN wakes[w] + 1 ELSE wakes[w]]
  /\ pending' = pending - Cardinality(es)

(* Mutant: epoll is not asked for the event.                                 *)
AddEventUnasked(fd, e, w) ==
  /\ w \in unused /\ e \notin events[fd] /\ ctx[fd][e] = None
  /\ pending' = pending + 1
  /\ events' = [events EXCEPT ![fd] = @ \cup {e}]
  /\ ctx' = [ctx EXCEPT ![fd][e] = w]
  /\ unused' = unused \ {w}
  /\ UNCHANGED <<kernelVars, got, wakes, deleted, aborted>>

(* addEvent: its assertions want the event and its context unused.           *)
AddEvent(fd, e, w) ==
  /\ w \in unused /\ e \notin events[fd] /\ ctx[fd][e] = None
  /\ EpollCtl(fd, events[fd] \cup {e})
  /\ pending' = pending + 1
  /\ events' = [events EXCEPT ![fd] = @ \cup {e}]
  /\ ctx' = [ctx EXCEPT ![fd][e] = w]
  /\ unused' = unused \ {w}
  /\ UNCHANGED <<got, wakes, deleted, aborted>>

(* Mutant: m_pendingEventCount is not decremented.                           *)
DelEventCounted(fd, e) ==
  /\ "del" \in Ops /\ e \in events[fd]
  /\ EpollCtl(fd, events[fd] \ {e})
  /\ events' = [events EXCEPT ![fd] = @ \ {e}]
  /\ ctx' = [ctx EXCEPT ![fd][e] = None]
  /\ deleted' = deleted \cup {ctx[fd][e]}
  /\ UNCHANGED <<pending, got, unused, wakes, aborted>>

(* Mutant: the context keeps the waiter.                                     *)
DelEventKeepsContext(fd, e) ==
  /\ "del" \in Ops /\ e \in events[fd]
  /\ EpollCtl(fd, events[fd] \ {e})
  /\ pending' = pending - 1
  /\ events' = [events EXCEPT ![fd] = @ \ {e}]
  /\ deleted' = deleted \cup {ctx[fd][e]}
  /\ UNCHANGED <<ctx, got, unused, wakes, aborted>>

(* delEvent: the waiter is forgotten.                                        *)
DelEvent(fd, e) ==
  /\ "del" \in Ops /\ e \in events[fd]
  /\ EpollCtl(fd, events[fd] \ {e})
  /\ pending' = pending - 1
  /\ events' = [events EXCEPT ![fd] = @ \ {e}]
  /\ ctx' = [ctx EXCEPT ![fd][e] = None]
  /\ deleted' = deleted \cup {ctx[fd][e]}
  /\ UNCHANGED <<got, unused, wakes, aborted>>

(* cancelEvent: the waiter is scheduled as if the event had happened.        *)
CancelEvent(fd, e) ==
  /\ "cancel" \in Ops /\ e \in events[fd]
  /\ EpollCtl(fd, events[fd] \ {e})
  /\ TriggerEvents(fd, {e})
  /\ UNCHANGED <<got, unused, deleted, aborted>>

(* cancelAll, as close() calls it.                                           *)
CancelAll(fd) ==
  /\ "cancelAll" \in Ops /\ events[fd] # {}
  /\ EpollCtl(fd, {})
  /\ TriggerEvents(fd, events[fd])
  /\ UNCHANGED <<got, unused, deleted, aborted>>

(* idle(): an error counts as every event, registered or not.                *)
RealEvents(cs) == IF "ERROR" \in cs THEN {"READ", "WRITE"} ELSE cs

(* idle(): one entry of the array is handled, under the fd's mutex.          *)
Ignore(d, fd) ==
  /\ got[d][fd] # {} /\ events[fd] \cap RealEvents(got[d][fd]) = {}
  /\ got' = [got EXCEPT ![d][fd] = {}]
  /\ UNCHANGED <<events, ctx, pending, kernelVars, historyVars>>

(* idle(): a reported event that is registered: it is removed from epoll and *)
(* its waiter triggered.                                                     *)
Dispatch(d, fd) ==
  LET real == RealEvents(got[d][fd]) IN
  /\ events[fd] \cap real # {}
  /\ got' = [got EXCEPT ![d][fd] = {}]
  /\ EpollCtl(fd, events[fd] \ real)
  /\ IF real \subseteq events[fd]
     THEN TriggerEvents(fd, real) /\ UNCHANGED aborted
     ELSE aborted' = TRUE /\ UNCHANGED <<events, ctx, wakes, pending>>
  /\ UNCHANGED <<unused, deleted>>
-----------------------------------------------------------------------------
User ==
  \/ \E fd \in Fds, e \in Events, w \in Waiters : AddEvent(fd, e, w)
  \/ \E fd \in Fds, e \in Events : DelEvent(fd, e) \/ CancelEvent(fd, e)
  \/ \E fd \in Fds : CancelAll(fd)

Kernel ==
  \/ \E fd \in Fds, c \in Conditions : BecomesReady(fd, c)
  \/ \E fd \in Fds, e \in Events : Consumed(fd, e)

Idle(d) == EpollWait(d) \/ \E fd \in Fds : Ignore(d, fd) \/ Dispatch(d, fd)

Next == ~aborted /\ (User \/ Kernel \/ (\E d \in Dispatchers : Idle(d)))

Spec == Init /\ [][Next]_vars

(* An idle thread keeps calling epoll_wait, and handles what it returned.    *)
FairSpec == Spec /\ \A d \in Dispatchers : WF_vars(~aborted /\ Idle(d))
=============================================================================

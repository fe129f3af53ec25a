-------------------------- MODULE IOManager_proofs --------------------------
(***************************************************************************)
(* The two invariants of the fd events, for every set of fds, waiters and  *)
(* idle threads: the three records of a registration agree, and a waiter   *)
(* is scheduled at most once.                                              *)
(***************************************************************************)
EXTENDS MCIOManager, FiniteSetTheorems, TLAPS

(* The registrations m_pendingEventCount counts.                             *)
Registered == {p \in Fds \X Events : p[2] \in events[p[1]]}

(* The three records of a registration agree.                                *)
CountOK == pending = Cardinality(Registered)
ContextOK == \A fd \in Fds, e \in Events : e \in events[fd] <=> ctx[fd][e] # None
InterestOK == ~aborted => \A fd \in Fds : interest[fd] = events[fd]

(* A waiter that was given to addEvent, and not taken away by delEvent, is   *)
(* in exactly one context or was scheduled once; any other is nowhere.       *)
InContext(w) == \E fd \in Fds, e \in Events : ctx[fd][e] = w
OnePlace ==
  \A f, g \in Fds, d, e \in Events :
    ctx[f][d] = ctx[g][e] /\ ctx[f][d] # None => f = g /\ d = e
OwedOK ==
  \A w \in Waiters :
    IF w \in unused \cup deleted
    THEN wakes[w] = 0 /\ ~InContext(w)
    ELSE IF InContext(w) THEN wakes[w] = 0 ELSE wakes[w] = 1
WaitersOK == unused \cap deleted = {} /\ OnePlace /\ OwedOK

IInv == TypeOK /\ CountOK /\ ContextOK /\ InterestOK /\ WaitersOK
-----------------------------------------------------------------------------
(* The registrations are finitely many.                                      *)
LEMMA RegisteredFinite ==
  IsFiniteSet(Events) /\ IsFiniteSet(Registered)
<1>1. IsFiniteSet({"READ", "WRITE"})
  <2>1. IsFiniteSet({} \cup {"READ"})
    BY FS_EmptySet, FS_AddElement
  <2>2. IsFiniteSet(({} \cup {"READ"}) \cup {"WRITE"})
    BY <2>1, FS_AddElement
  <2>3. {"READ", "WRITE"} = ({} \cup {"READ"}) \cup {"WRITE"}
    OBVIOUS
  <2> QED BY <2>2, <2>3
<1>2. IsFiniteSet(Events)
  BY <1>1, FS_Subset, IOAssumption
<1>3. IsFiniteSet(Fds \X Events)
  BY <1>2, FS_Product, IOAssumption
<1> QED
  BY <1>2, <1>3, FS_Subset DEF Registered

(* Taking the events es of fd out takes as many registrations out.           *)
LEMMA RemovedRegistrations ==
  ASSUME TypeOK, CountOK, NEW fd \in Fds, NEW es, es \subseteq events[fd],
         events' = [events EXCEPT ![fd] = @ \ es]
  PROVE  /\ Cardinality(es) \in Nat
         /\ pending - Cardinality(es) \in Nat
         /\ pending - Cardinality(es) = Cardinality(Registered')
<1> DEFINE Gone == {fd} \X es
<1>1. es \subseteq Events
  BY DEF TypeOK
<1>2. IsFiniteSet(es)
  BY <1>1, RegisteredFinite, FS_Subset
<1>3. Gone \subseteq Registered
  BY <1>1 DEF Registered
<1>4. Registered' = Registered \ Gone
  <2>1. ASSUME NEW p \in Fds \X Events
        PROVE  p \in Registered' <=> p \in Registered /\ p \notin Gone
    BY DEF Registered, TypeOK
  <2> QED
    BY <2>1 DEF Registered
<1>5. IsFiniteSet(Gone) /\ Cardinality(Gone) = Cardinality({fd}) * Cardinality(es)
  BY <1>2, FS_Singleton, FS_Product
<1>6. Cardinality({fd}) = 1 /\ Cardinality(es) \in Nat
  BY <1>2, FS_Singleton, FS_CardinalityType
<1>7. Cardinality(Gone) = Cardinality(es)
  <2> HIDE DEF Gone
  <2> QED
    BY <1>5, <1>6
<1>8. Registered \cap Gone = Gone
  BY <1>3
<1>9. Cardinality(Registered \ Gone) = Cardinality(Registered) - Cardinality(Gone)
  <2> HIDE DEF Gone
  <2> QED
    BY <1>8, RegisteredFinite, FS_Difference
<1>10. IsFiniteSet(Registered \ Gone)
  BY RegisteredFinite, FS_Subset
<1>11. Cardinality(Registered \ Gone) \in Nat
  BY <1>10, FS_CardinalityType
<1> HIDE DEF Gone
<1> QED
  BY <1>4, <1>6, <1>7, <1>9, <1>11 DEF CountOK
-----------------------------------------------------------------------------
LEMMA InitHolds == Init => IInv
<1> SUFFICES ASSUME Init PROVE IInv
  OBVIOUS
<1>1. TypeOK
  BY DEF Init, TypeOK, Conditions
<1>2. CountOK
  <2>1. Registered = {}
    BY DEF Init, Registered
  <2> QED
    BY <2>1, FS_EmptySet DEF Init, CountOK
<1>3. ContextOK /\ InterestOK
  BY DEF Init, ContextOK, InterestOK
<1>4. WaitersOK
  BY IOAssumption DEF Init, WaitersOK, OnePlace, OwedOK, InContext
<1> QED
  BY <1>1, <1>2, <1>3, <1>4 DEF IInv

(* epoll_ctl keeps the kernel's variables of their types and sets the        *)
(* interest of one fd.                                                       *)
LEMMA EpollCtlKeeps ==
  ASSUME TypeOK, NEW fd \in Fds, NEW want \in SUBSET Events, EpollCtl(fd, want)
  PROVE  /\ interest' \in [Fds -> SUBSET Events]
         /\ ready' \in [Fds -> SUBSET Conditions]
         /\ edge' \subseteq Fds
         /\ interest'[fd] = want
         /\ \A g \in Fds \ {fd} : interest'[g] = interest[g]
<1>1. edge' = edge \cup {fd} \/ edge' = edge \ {fd}
  BY DEF EpollCtl
<1> QED
  BY <1>1 DEF EpollCtl, TypeOK

(* triggerEvent, for registered events.                                      *)
LEMMA TriggerKeeps ==
  ASSUME IInv, NEW fd \in Fds, NEW es, es \subseteq events[fd],
         EpollCtl(fd, events[fd] \ es), TriggerEvents(fd, es),
         got' \in [Dispatchers -> [Fds -> SUBSET Conditions]],
         UNCHANGED <<unused, deleted, aborted>>
  PROVE  IInv'
<1> USE DEF IInv
<1>1. es \subseteq Events /\ events[fd] \ es \in SUBSET Events
  BY DEF TypeOK
<1>2. /\ events' = [events EXCEPT ![fd] = @ \ es]
      /\ pending' = pending - Cardinality(es)
  BY DEF TriggerEvents
<1>3. pending' \in Nat /\ pending' = Cardinality(Registered')
  BY <1>2, RemovedRegistrations
<1>4. events' \in [Fds -> SUBSET Events]
  BY <1>2 DEF TypeOK
<1>5. /\ ctx' \in [Fds -> [Events -> Waiters \cup {None}]]
      /\ \A e \in Events : ctx'[fd][e] = IF e \in es THEN None ELSE ctx[fd][e]
      /\ \A g \in Fds \ {fd} : ctx'[g] = ctx[g]
  BY DEF TriggerEvents, TypeOK
<1>6. /\ wakes' \in [Waiters -> Nat]
      /\ \A w \in Waiters :
           wakes'[w] = IF \E e \in es : ctx[fd][e] = w THEN wakes[w] + 1 ELSE wakes[w]
  BY DEF TriggerEvents, TypeOK
<1>7. TypeOK'
  BY <1>1, <1>3, <1>4, <1>5, <1>6, EpollCtlKeeps DEF TypeOK, Conditions
<1>8. CountOK'
  BY <1>3 DEF CountOK
<1>9. ContextOK'
  BY <1>1, <1>2, <1>5 DEF ContextOK, TypeOK
<1>10. InterestOK'
  BY <1>1, <1>2, EpollCtlKeeps DEF InterestOK, TypeOK
<1>11. OnePlace'
  <2>1. ASSUME NEW g \in Fds, NEW e \in Events, ctx'[g][e] # None
        PROVE  ctx'[g][e] = ctx[g][e]
    BY <1>5, <2>1
  <2> QED
    BY <2>1 DEF OnePlace, WaitersOK
<1>12. OwedOK'
  <2> SUFFICES ASSUME NEW w \in Waiters
               PROVE  IF w \in unused \cup deleted
                      THEN wakes'[w] = 0 /\ ~InContext(w)'
                      ELSE IF InContext(w)' THEN wakes'[w] = 0 ELSE wakes'[w] = 1
    BY DEF OwedOK
  <2>1. w # None
    BY IOAssumption
  <2>2. CASE \E e \in es : ctx[fd][e] = w
    <3>1. PICK e \in es : ctx[fd][e] = w
      BY <2>2
    <3>2. InContext(w)
      BY <3>1, <1>1 DEF InContext
    <3>3. w \notin unused \cup deleted /\ wakes[w] = 0
      BY <3>2 DEF WaitersOK, OwedOK
    <3>4. ASSUME NEW g \in Fds, NEW d \in Events, ctx'[g][d] = w
          PROVE  FALSE
      <4>1. ctx[g][d] = w
        BY <1>5, <2>1, <3>4
      <4>2. g = fd /\ d = e
        BY <1>1, <2>1, <3>1, <4>1 DEF WaitersOK, OnePlace
      <4> QED
        BY <1>5, <2>1, <3>1, <3>4, <4>2
    <3>5. wakes'[w] = 1
      BY <1>6, <2>2, <3>3
    <3> QED
      BY <3>3, <3>4, <3>5 DEF InContext
  <2>3. CASE ~ \E e \in es : ctx[fd][e] = w
    <3>1. wakes'[w] = wakes[w]
      BY <1>6, <2>3
    <3>2. ASSUME NEW g \in Fds, NEW d \in Events
          PROVE  ctx'[g][d] = w <=> ctx[g][d] = w
      BY <1>5, <2>1, <2>3
    <3>3. InContext(w)' <=> InContext(w)
      BY <3>2 DEF InContext
    <3> QED
      BY <3>1, <3>3 DEF WaitersOK, OwedOK
  <2> QED
    BY <2>2, <2>3
<1>13. (unused \cap deleted = {})'
  BY DEF WaitersOK
<1> QED
  BY <1>7, <1>8, <1>9, <1>10, <1>11, <1>12, <1>13 DEF WaitersOK
-----------------------------------------------------------------------------
LEMMA AddEventKeeps ==
  ASSUME IInv, NEW fd \in Fds, NEW e \in Events, NEW w \in Waiters, AddEvent(fd, e, w)
  PROVE  IInv'
<1> USE DEF IInv
<1>1. events[fd] \cup {e} \in SUBSET Events
  BY DEF TypeOK
<1>2. EpollCtl(fd, events[fd] \cup {e})
  BY DEF AddEvent
<1>3. /\ w \in unused /\ e \notin events[fd] /\ ctx[fd][e] = None /\ w # None
      /\ pending' = pending + 1
      /\ events' = [events EXCEPT ![fd] = @ \cup {e}]
      /\ unused' = unused \ {w}
      /\ UNCHANGED <<got, wakes, deleted, aborted>>
  BY IOAssumption DEF AddEvent
<1>4. /\ ctx' \in [Fds -> [Events -> Waiters \cup {None}]]
      /\ ctx'[fd][e] = w
      /\ \A g \in Fds, d \in Events : <<g, d>> # <<fd, e>> => ctx'[g][d] = ctx[g][d]
  BY DEF AddEvent, TypeOK
<1>5. TypeOK'
  <2>1. pending' \in Nat /\ events' \in [Fds -> SUBSET Events]
    BY <1>3 DEF TypeOK
  <2> QED
    BY <1>1, <1>2, <1>3, <1>4, <2>1, EpollCtlKeeps DEF TypeOK, Conditions
<1>6. CountOK'
  <2>1. <<fd, e>> \notin Registered
    BY <1>3 DEF Registered
  <2>2. Registered' = Registered \cup {<<fd, e>>}
    <3>1. ASSUME NEW p \in Fds \X Events
          PROVE  p \in Registered' <=> p \in Registered \/ p = <<fd, e>>
      BY <1>3 DEF Registered, TypeOK
    <3> QED
      BY <3>1 DEF Registered
  <2>3. Cardinality(Registered \cup {<<fd, e>>}) = Cardinality(Registered) + 1
    BY <2>1, RegisteredFinite, FS_AddElement
  <2> QED
    BY <1>3, <2>2, <2>3 DEF CountOK
<1>7. ContextOK'
  <2>1. ASSUME NEW g \in Fds, NEW d \in Events
        PROVE  (d \in events[g] <=> ctx[g][d] # None)'
    <3>1. CASE <<g, d>> = <<fd, e>>
      BY <1>3, <1>4, <3>1 DEF TypeOK
    <3>2. CASE <<g, d>> # <<fd, e>>
      BY <1>3, <1>4, <3>2 DEF ContextOK, TypeOK
    <3> QED
      BY <3>1, <3>2
  <2> QED
    BY <2>1 DEF ContextOK
<1>8. InterestOK'
  BY <1>1, <1>2, <1>3, EpollCtlKeeps DEF InterestOK, TypeOK
<1>9. ~InContext(w) /\ wakes[w] = 0 /\ w \notin deleted
  BY <1>3 DEF WaitersOK, OwedOK
<1>10. OnePlace'
  BY <1>4, <1>9 DEF WaitersOK, OnePlace, InContext
<1>11. OwedOK'
  <2>1. InContext(w)'
    BY <1>4 DEF InContext
  <2>2. ASSUME NEW v \in Waiters \ {w}
        PROVE  InContext(v)' <=> InContext(v)
    <3>1. ASSUME NEW g \in Fds, NEW d \in Events
          PROVE  ctx'[g][d] = v <=> ctx[g][d] = v
      <4>1. CASE <<g, d>> = <<fd, e>>
        BY <1>3, <1>4, <4>1, IOAssumption
      <4>2. CASE <<g, d>> # <<fd, e>>
        BY <1>4, <4>2
      <4> QED
        BY <4>1, <4>2
    <3> QED
      BY <3>1 DEF InContext
  <2> QED
    BY <1>3, <1>9, <2>1, <2>2 DEF WaitersOK, OwedOK
<1>12. (unused \cap deleted = {})'
  BY <1>3 DEF WaitersOK
<1> QED
  BY <1>5, <1>6, <1>7, <1>8, <1>10, <1>11, <1>12 DEF WaitersOK

LEMMA DelEventKeeps ==
  ASSUME IInv, NEW fd \in Fds, NEW e \in Events, DelEvent(fd, e)
  PROVE  IInv'
<1> USE DEF IInv
<1>0. PICK w \in Waiters : w = ctx[fd][e] /\ w # None
  BY DEF DelEvent, ContextOK, TypeOK
<1>1. events[fd] \ {e} \in SUBSET Events /\ {e} \subseteq events[fd]
  BY DEF TypeOK, DelEvent
<1>2. EpollCtl(fd, events[fd] \ {e})
  BY DEF DelEvent
<1>3. /\ pending' = pending - 1
      /\ events' = [events EXCEPT ![fd] = @ \ {e}]
      /\ deleted' = deleted \cup {w}
      /\ UNCHANGED <<got, unused, wakes, aborted>>
  BY <1>0 DEF DelEvent
<1>4. /\ ctx' \in [Fds -> [Events -> Waiters \cup {None}]]
      /\ ctx'[fd][e] = None
      /\ \A g \in Fds, d \in Events : <<g, d>> # <<fd, e>> => ctx'[g][d] = ctx[g][d]
  BY DEF DelEvent, TypeOK
<1>5. pending' \in Nat /\ CountOK'
  <2>1. Cardinality({e}) = 1
    BY FS_Singleton
  <2> QED
    BY <1>1, <1>3, <2>1, RemovedRegistrations DEF CountOK
<1>6. TypeOK'
  BY <1>1, <1>2, <1>3, <1>4, <1>5, EpollCtlKeeps DEF TypeOK, Conditions
<1>7. ContextOK'
  <2>1. ASSUME NEW g \in Fds, NEW d \in Events
        PROVE  (d \in events[g] <=> ctx[g][d] # None)'
    <3>1. CASE <<g, d>> = <<fd, e>>
      BY <1>3, <1>4, <3>1 DEF TypeOK
    <3>2. CASE <<g, d>> # <<fd, e>>
      BY <1>3, <1>4, <3>2 DEF ContextOK, TypeOK
    <3> QED
      BY <3>1, <3>2
  <2> QED
    BY <2>1 DEF ContextOK
<1>8. InterestOK'
  BY <1>1, <1>2, <1>3, EpollCtlKeeps DEF InterestOK, TypeOK
<1>9. InContext(w) /\ w \notin unused \cup deleted /\ wakes[w] = 0
  <2>1. InContext(w)
    BY <1>0 DEF InContext
  <2> QED
    BY <1>0, <2>1 DEF WaitersOK, OwedOK
<1>10. OnePlace'
  BY <1>4 DEF WaitersOK, OnePlace
<1>11. OwedOK'
  <2>1. ~InContext(w)'
    <3>1. ASSUME NEW g \in Fds, NEW d \in Events, ctx'[g][d] = w
          PROVE  FALSE
      <4>1. CASE <<g, d>> = <<fd, e>>
        BY <1>0, <1>4, <3>1, <4>1
      <4>2. CASE <<g, d>> # <<fd, e>>
        <5>1. ctx[g][d] = ctx[fd][e] /\ ctx[g][d] # None
          BY <1>0, <1>4, <3>1, <4>2
        <5> QED
          BY <4>2, <5>1 DEF WaitersOK, OnePlace
      <4> QED
        BY <4>1, <4>2
    <3> QED
      BY <3>1 DEF InContext
  <2>2. ASSUME NEW v \in Waiters \ {w}
        PROVE  InContext(v)' <=> InContext(v)
    <3>1. ASSUME NEW g \in Fds, NEW d \in Events
          PROVE  ctx'[g][d] = v <=> ctx[g][d] = v
      <4>1. CASE <<g, d>> = <<fd, e>>
        BY <1>0, <1>4, <4>1, IOAssumption
      <4>2. CASE <<g, d>> # <<fd, e>>
        BY <1>4, <4>2
      <4> QED
        BY <4>1, <4>2
    <3> QED
      BY <3>1 DEF InContext
  <2> QED
    BY <1>3, <1>9, <2>1, <2>2 DEF WaitersOK, OwedOK
<1>12. (unused \cap deleted = {})'
  BY <1>3, <1>9 DEF WaitersOK
<1> QED
  BY <1>5, <1>6, <1>7, <1>8, <1>10, <1>11, <1>12 DEF WaitersOK

LEMMA CancelKeeps ==
  ASSUME IInv, NEW fd \in Fds,
         CancelAll(fd) \/ \E e \in Events : CancelEvent(fd, e)
  PROVE  IInv'
<1>1. CASE CancelAll(fd)
  <2>1. EpollCtl(fd, events[fd] \ events[fd]) /\ TriggerEvents(fd, events[fd])
    <3>1. events[fd] \ events[fd] = {}
      OBVIOUS
    <3> QED
      BY <1>1, <3>1 DEF CancelAll
  <2>2. /\ got' \in [Dispatchers -> [Fds -> SUBSET Conditions]]
        /\ UNCHANGED <<unused, deleted, aborted>>
    BY <1>1 DEF CancelAll, IInv, TypeOK
  <2> QED
    BY <2>1, <2>2, TriggerKeeps
<1>2. CASE \E e \in Events : CancelEvent(fd, e)
  <2>1. PICK e \in Events : CancelEvent(fd, e)
    BY <1>2
  <2>2. /\ {e} \subseteq events[fd]
        /\ EpollCtl(fd, events[fd] \ {e}) /\ TriggerEvents(fd, {e})
        /\ got' \in [Dispatchers -> [Fds -> SUBSET Conditions]]
        /\ UNCHANGED <<unused, deleted, aborted>>
    BY <2>1 DEF CancelEvent, IInv, TypeOK
  <2> QED
    BY <2>2, TriggerKeeps
<1> QED
  BY <1>1, <1>2

LEMMA DispatchKeeps ==
  ASSUME IInv, NEW d \in Dispatchers, NEW fd \in Fds, Dispatch(d, fd)
  PROVE  IInv'
<1> DEFINE real == RealEvents(got[d][fd])
<1>1. got' \in [Dispatchers -> [Fds -> SUBSET Conditions]]
  BY DEF Dispatch, IInv, TypeOK, Conditions
<1>2. EpollCtl(fd, events[fd] \ real) /\ UNCHANGED <<unused, deleted>>
  BY DEF Dispatch
<1>3. CASE real \subseteq events[fd]
  <2>1. TriggerEvents(fd, real) /\ UNCHANGED aborted
    BY <1>3 DEF Dispatch
  <2> HIDE DEF real
  <2> QED
    BY <1>1, <1>2, <1>3, <2>1, TriggerKeeps
<1>4. CASE ~ real \subseteq events[fd]
  <2>1. aborted' = TRUE /\ UNCHANGED <<events, ctx, wakes, pending, unused, deleted>>
    BY <1>4 DEF Dispatch
  <2>2. events[fd] \ real \in SUBSET Events
    BY DEF IInv, TypeOK
  <2> HIDE DEF real
  <2>3. TypeOK'
    BY <1>1, <1>2, <2>1, <2>2, EpollCtlKeeps DEF IInv, TypeOK, Conditions
  <2>4. CountOK' /\ ContextOK' /\ InterestOK'
    BY <2>1 DEF IInv, CountOK, Registered, ContextOK, InterestOK
  <2>5. WaitersOK'
    BY <2>1 DEF IInv, WaitersOK, OnePlace, OwedOK, InContext
  <2> QED
    BY <2>3, <2>4, <2>5 DEF IInv
<1> QED
  BY <1>3, <1>4

(* A step of the kernel, of epoll_wait or of an ignored entry changes only   *)
(* what is ready, looked at or reported.                                     *)
LEMMA QuietKeeps ==
  ASSUME IInv, TypeOK',
         UNCHANGED <<events, ctx, pending, interest, unused, wakes, deleted, aborted>>
  PROVE  IInv'
<1>1. CountOK' /\ ContextOK' /\ InterestOK'
  BY DEF IInv, CountOK, Registered, ContextOK, InterestOK
<1>2. WaitersOK'
  BY DEF IInv, WaitersOK, OnePlace, OwedOK, InContext
<1> QED
  BY <1>1, <1>2 DEF IInv

LEMMA KernelKeeps ==
  ASSUME IInv, NEW fd \in Fds,
         (\E c \in Conditions : BecomesReady(fd, c)) \/ (\E e \in Events : Consumed(fd, e))
  PROVE  IInv'
<1>1. UNCHANGED <<events, ctx, pending, interest, unused, wakes, deleted, aborted, got>>
  BY DEF BecomesReady, Consumed, historyVars
<1>2. ready' \in [Fds -> SUBSET Conditions] /\ edge' \subseteq Fds
  <2>1. CASE \E c \in Conditions : BecomesReady(fd, c)
    <3>1. PICK c \in Conditions : BecomesReady(fd, c)
      BY <2>1
    <3>2. ready' = [ready EXCEPT ![fd] = @ \cup {c}]
      BY <3>1 DEF BecomesReady
    <3>3. edge' = edge \cup {fd} \/ edge' = edge
      BY <3>1 DEF BecomesReady
    <3> QED
      BY <3>2, <3>3 DEF IInv, TypeOK
  <2>2. CASE \E e \in Events : Consumed(fd, e)
    BY <2>2 DEF Consumed, IInv, TypeOK
  <2> QED
    BY <2>1, <2>2
<1>3. TypeOK'
  BY <1>1, <1>2 DEF IInv, TypeOK, Conditions
<1> QED
  BY <1>1, <1>3, QuietKeeps

LEMMA WaitKeeps ==
  ASSUME IInv, NEW d \in Dispatchers,
         EpollWait(d) \/ \E fd \in Fds : Ignore(d, fd)
  PROVE  IInv'
<1>1. UNCHANGED <<events, ctx, pending, interest, ready, unused, wakes, deleted, aborted>>
  BY DEF EpollWait, Ignore, historyVars, kernelVars
<1>2. got' \in [Dispatchers -> [Fds -> SUBSET Conditions]] /\ edge' \subseteq Fds
  <2>1. CASE EpollWait(d)
    <3>1. ASSUME NEW fd \in Fds
          PROVE  Reported(interest[fd], fd) \in SUBSET Conditions
      BY DEF Reported, IInv, TypeOK
    <3> DEFINE row == [fd \in Fds |-> IF fd \in edge THEN Reported(interest[fd], fd) ELSE {}]
    <3>2. row \in [Fds -> SUBSET Conditions]
      BY <3>1
    <3>3. got' = [got EXCEPT ![d] = row] /\ edge' = {}
      BY <2>1 DEF EpollWait
    <3> HIDE DEF row
    <3> QED
      BY <3>2, <3>3 DEF IInv, TypeOK
  <2>2. CASE \E fd \in Fds : Ignore(d, fd)
    BY <2>2 DEF Ignore, kernelVars, IInv, TypeOK
  <2> QED
    BY <2>1, <2>2
<1>3. TypeOK'
  BY <1>1, <1>2 DEF IInv, TypeOK, Conditions
<1> QED
  BY <1>1, <1>3, QuietKeeps
-----------------------------------------------------------------------------
LEMMA NextKeeps == IInv /\ [Next]_vars => IInv'
<1> SUFFICES ASSUME IInv, [Next]_vars PROVE IInv'
  OBVIOUS
<1>1. CASE User
  BY <1>1, AddEventKeeps, DelEventKeeps, CancelKeeps DEF User
<1>2. CASE Kernel
  BY <1>2, KernelKeeps DEF Kernel
<1>3. ASSUME NEW d \in Dispatchers, Idle(d) PROVE IInv'
  BY <1>3, WaitKeeps, DispatchKeeps DEF Idle
<1>4. CASE UNCHANGED vars
  <2>1. UNCHANGED <<events, ctx, pending, interest, ready, edge, got, unused, wakes,
                    deleted, aborted>>
    BY <1>4 DEF vars, kernelVars, historyVars
  <2>2. TypeOK'
    BY <2>1 DEF IInv, TypeOK, Conditions
  <2> QED
    BY <2>1, <2>2, QuietKeeps
<1> QED
  BY <1>1, <1>2, <1>3, <1>4 DEF Next

LEMMA InvariantHolds == Spec => []IInv
  BY InitHolds, NextKeeps, PTL DEF Spec

(* m_pendingEventCount, the contexts, the registered events and the interest *)
(* given to epoll agree as long as no assertion failed.                      *)
THEOREM RegistrationsCorrect == Spec => []RegistrationsAgree
<1>1. IInv => RegistrationsAgree
  BY DEF IInv, CountOK, Registered, ContextOK, InterestOK, RegistrationsAgree
<1> QED
  BY <1>1, InvariantHolds, PTL

(* addEvent's waiter is scheduled once, or taken away by delEvent and never  *)
(* scheduled, however cancellations and late results of epoll interleave.    *)
THEOREM WokenOnceCorrect == Spec => []WokenOnceOrDeleted
<1>1. IInv => WokenOnceOrDeleted
  <2> SUFFICES ASSUME IInv, NEW w \in Waiters
               PROVE  wakes[w] + Cardinality({p \in Fds \X Events : ctx[p[1]][p[2]] = w})
                        = IF w \in unused \cup deleted THEN 0 ELSE 1
    BY DEF WokenOnceOrDeleted
  <2> DEFINE registrations == {p \in Fds \X Events : ctx[p[1]][p[2]] = w}
  <2>1. CASE InContext(w)
    <3>1. PICK fd \in Fds, e \in Events : ctx[fd][e] = w
      BY <2>1 DEF InContext
    <3>2. w # None
      BY IOAssumption
    <3>3. registrations = {<<fd, e>>}
      BY <3>1, <3>2 DEF IInv, WaitersOK, OnePlace
    <3>4. Cardinality(registrations) = 1
      BY <3>3, FS_Singleton
    <3>5. w \notin unused \cup deleted /\ wakes[w] = 0
      BY <2>1 DEF IInv, WaitersOK, OwedOK
    <3> HIDE DEF registrations
    <3>6. wakes[w] + Cardinality(registrations) = 1
      BY <3>4, <3>5
    <3> QED
      BY <3>5, <3>6 DEF registrations
  <2>2. CASE ~InContext(w)
    <3>1. registrations = {}
      BY <2>2 DEF InContext
    <3>2. Cardinality(registrations) = 0
      BY <3>1, FS_EmptySet
    <3>3. wakes[w] = IF w \in unused \cup deleted THEN 0 ELSE 1
      BY <2>2 DEF IInv, WaitersOK, OwedOK
    <3> HIDE DEF registrations
    <3>4. wakes[w] + Cardinality(registrations) = wakes[w]
      BY <3>2, <3>3
    <3> QED
      BY <3>3, <3>4 DEF registrations
  <2> QED
    BY <2>1, <2>2
<1> QED
  BY <1>1, InvariantHolds, PTL
=============================================================================

------------------------- MODULE HttpConnectionPool -------------------------
(***************************************************************************)
(* The pool of sylar_server/http/http_connection.cpp and the server at the *)
(* other end of its connections (HttpServer::handleClient): fibers that    *)
(* call doRequest take a connection, send, receive and give it back, while *)
(* the server answers, closes, or is too late.                             *)
(*                                                                         *)
(* A message arrives at once or not at all, but for a request whose send   *)
(* failed half-way: of that a Part arrives.  An answer is known by the     *)
(* request it belongs to: the task and the parity of its request.          *)
(***************************************************************************)
EXTENDS Integers, Sequences, FiniteSets

CONSTANTS
  Tasks,          (* fibers that make requests, one at a time               *)
  Conns,          (* a supply of HttpConnection objects                     *)
  MaxRequest,     (* m_maxRequest                                           *)
  MaxAliveTime,   (* m_maxAliveTime, 32 bits of milliseconds                *)
  Now,            (* GetCurrentMS(): milliseconds since 1970                *)
  None

ASSUME PoolAssumption ==
  /\ IsFiniteSet(Tasks) /\ IsFiniteSet(Conns)
  /\ MaxRequest \in Nat /\ MaxAliveTime \in Nat /\ Now \in Nat
  /\ MaxAliveTime < Now
  /\ None \notin Conns \cup Tasks

VARIABLES
  pool,       (* m_conns                                                    *)
  total,      (* m_total                                                    *)
  conn,       (* HttpConnection: isConnected(), m_request, and whether a    *)
              (* send on it failed half-way                                 *)
  peer,       (* the server's session of a connection                       *)
  reqs,       (* requests on their way to the server                        *)
  rsps,       (* responses on their way to the client                       *)
  task        (* doRequest(), getConnection() and ReleasePtr() of a fiber   *)

wireVars == <<peer, reqs, rsps>>
vars == <<pool, total, conn, wireVars, task>>

Requests == Tasks \X {0, 1}

(* The first bytes of a request, and the answer to what they became part of. *)
Part == <<None, 0>>
Messages == Requests \cup {Part}

PCs == {"idle", "get", "discard", "deduct", "connect", "count", "send", "recv", "release",
        "put", "delete", "uncount"}

Tasklets == [pc : PCs, conn : Conns \cup {None}, drop : SUBSET Conns, serial : {0, 1},
             got : Messages \cup {None}]

TypeOK ==
  /\ pool \in Seq(Conns)
  /\ total \in Int
  /\ conn \in [Conns -> [alive : BOOLEAN, used : Nat, torn : BOOLEAN]]
  /\ peer \in [Conns -> {"open", "closed"}]
  /\ reqs \in [Conns -> Seq(Messages)] /\ rsps \in [Conns -> Seq(Messages)]
  /\ task \in [Tasks -> Tasklets]

Init ==
  /\ pool = <<>> /\ total = 0
  /\ conn = [c \in Conns |-> [alive |-> FALSE, used |-> 0, torn |-> FALSE]]
  /\ peer = [c \in Conns |-> "closed"]
  /\ reqs = [c \in Conns |-> <<>>] /\ rsps = [c \in Conns |-> <<>>]
  /\ task = [t \in Tasks |-> [pc |-> "idle", conn |-> None, drop |-> {}, serial |-> 0,
                              got |-> None]]
-----------------------------------------------------------------------------
Pooled == {pool[i] : i \in 1..Len(pool)}
Held == {task[t].conn : t \in Tasks} \ {None}
Dropped == UNION {task[t].drop : t \in Tasks}

(* Objects that are not in use: nothing tells them apart.                    *)
Free == Conns \ (Pooled \cup Held \cup Dropped)

(* The objects of a set are deleted: the sockets close, and the server's     *)
(* sessions with them.                                                       *)
Destroy(cs) ==
  /\ conn' = [c \in Conns |-> IF c \in cs THEN [alive |-> FALSE, used |-> 0, torn |-> FALSE]
                              ELSE conn[c]]
  /\ peer' = [c \in Conns |-> IF c \in cs THEN "closed" ELSE peer[c]]
  /\ reqs' = [c \in Conns |-> IF c \in cs THEN <<>> ELSE reqs[c]]
  /\ rsps' = [c \in Conns |-> IF c \in cs THEN <<>> ELSE rsps[c]]

Request(t) == <<t, task[t].serial>>

GoTo(t, pc) == task' = [task EXCEPT ![t].pc = pc]

(* doRequest() is called.                                                    *)
Begin(t) ==
  /\ task[t].pc = "idle"
  /\ task' = [task EXCEPT ![t].pc = "get", ![t].serial = 1 - @, ![t].got = None]
  /\ UNCHANGED <<pool, total, conn, wireVars>>

(* The test of the age, as written: m_createTime is never set, and what is   *)
(* too old is not old enough.                                                *)
CreateTime == 0
Aged == CreateTime + MaxAliveTime > Now

Usable(c) == conn[c].alive /\ ~Aged

(* getConnection(), under m_mutex: the first connection that is usable is    *)
(* taken, and `kept' of it stays; those before it are invalid.               *)
GetFirst(t, kept) ==
  /\ task[t].pc = "get"
  /\ \E n \in 0..Len(pool) :
       /\ \A i \in 1..n : ~Usable(pool[i])
       /\ n < Len(pool) => Usable(pool[n + 1])
       /\ pool' = SubSeq(pool, n + 2 - kept, Len(pool))
       /\ task' = [task EXCEPT
            ![t].pc = "discard", ![t].drop = {pool[i] : i \in 1..n},
            ![t].conn = IF n = Len(pool) THEN None ELSE pool[n + 1]]
  /\ UNCHANGED <<total, conn, wireVars>>

(* Mutant: the connection stays in the list.                                 *)
GetKept(t) == GetFirst(t, 1)

Get(t) == GetFirst(t, 0)

(* getConnection(): the invalid ones are deleted ...                         *)
Discard(t) ==
  /\ task[t].pc = "discard" /\ GoTo(t, "deduct")
  /\ Destroy(task[t].drop)
  /\ UNCHANGED <<pool, total>>

(* ... and then no longer counted.                                           *)
Deduct(t) ==
  /\ task[t].pc = "deduct"
  /\ total' = total - Cardinality(task[t].drop)
  /\ task' = [task EXCEPT ![t].drop = {},
                          ![t].pc = IF task[t].conn = None THEN "connect" ELSE "send"]
  /\ UNCHANGED <<pool, conn, wireVars>>

(* getConnection(): a new connection ...                                     *)
Connect(t) ==
  /\ task[t].pc = "connect" /\ Free # {}
  /\ LET c == CHOOSE c \in Free : TRUE IN
       /\ conn' = [conn EXCEPT ![c] = [alive |-> TRUE, used |-> 0, torn |-> FALSE]]
       /\ peer' = [peer EXCEPT ![c] = "open"]
       /\ task' = [task EXCEPT ![t].pc = "count", ![t].conn = c]
  /\ UNCHANGED <<pool, total, reqs, rsps>>

(* Mutant: m_total is not incremented.                                       *)
CountNothing(t) ==
  /\ task[t].pc = "count" /\ GoTo(t, "send")
  /\ UNCHANGED <<pool, total, conn, wireVars>>

(* ... which m_total counts after that ...                                   *)
Count(t) ==
  /\ task[t].pc = "count" /\ GoTo(t, "send")
  /\ total' = total + 1
  /\ UNCHANGED <<pool, conn, wireVars>>

(* ... or none: POOL_GET_CONNECTION.                                         *)
ConnectFails(t) ==
  /\ task[t].pc = "connect" /\ GoTo(t, "idle")
  /\ UNCHANGED <<pool, total, conn, wireVars>>

(* doRequest(): the request is sent, to a peer that may have closed.         *)
Send(t) ==
  LET c == task[t].conn IN
  /\ task[t].pc = "send" /\ GoTo(t, "recv")
  /\ reqs' = IF peer[c] = "open" THEN [reqs EXCEPT ![c] = Append(@, Request(t))] ELSE reqs
  /\ UNCHANGED <<pool, total, conn, peer, rsps>>

(* doRequest(): send fails, because the peer is gone or because it cannot    *)
(* wait for room (addEvent fails); nothing of the request was sent, or a     *)
(* part of it.  The connection is not closed.                                *)
SendFails(t) ==
  LET c == task[t].conn IN
  /\ task[t].pc = "send" /\ GoTo(t, "release")
  /\ \/ UNCHANGED <<conn, reqs>>
     \/ /\ peer[c] = "open"
        /\ reqs' = [reqs EXCEPT ![c] = Append(@, Part)]
        /\ conn' = [conn EXCEPT ![c].torn = TRUE]
  /\ UNCHANGED <<pool, total, peer, rsps>>

(* recvResponse(): a response, whichever it is.                              *)
Receive(t) ==
  LET c == task[t].conn IN
  /\ task[t].pc = "recv" /\ rsps[c] # <<>>
  /\ task' = [task EXCEPT ![t].pc = "release", ![t].got = Head(rsps[c])]
  /\ rsps' = [rsps EXCEPT ![c] = Tail(@)]
  /\ UNCHANGED <<pool, total, conn, peer, reqs>>

(* recvResponse(): the time-out, the end of the stream or a response that    *)
(* cannot be parsed closes the connection.                                   *)
ReceiveNothing(t, alive) ==
  /\ task[t].pc = "recv" /\ GoTo(t, "release")
  /\ conn' = [conn EXCEPT ![task[t].conn].alive = alive]
  /\ UNCHANGED <<pool, total, wireVars>>

(* Mutant: the connection is not closed.                                     *)
ReceiveFailsOpen(t) == ReceiveNothing(t, TRUE)

ReceiveFails(t) == ReceiveNothing(t, FALSE)

(* ReleasePtr(): the last pointer to the connection is gone.                 *)
ReleaseWithLimit(t, limit) ==
  LET c == task[t].conn
      used == conn[c].used + 1
      aged == CreateTime + MaxAliveTime >= Now IN
  /\ task[t].pc = "release"
  /\ conn' = [conn EXCEPT ![c].used = used]
  /\ GoTo(t, IF ~conn[c].alive \/ aged \/ used >= limit THEN "delete" ELSE "put")
  /\ UNCHANGED <<pool, total, wireVars>>

(* Mutant: an off-by-one in the limit of requests.                           *)
ReleaseOneMore(t) == ReleaseWithLimit(t, MaxRequest + 1)

Release(t) == ReleaseWithLimit(t, MaxRequest)

(* ReleasePtr(), under m_mutex.                                              *)
Put(t) ==
  /\ task[t].pc = "put"
  /\ pool' = Append(pool, task[t].conn)
  /\ task' = [task EXCEPT ![t].pc = "idle", ![t].conn = None]
  /\ UNCHANGED <<total, conn, wireVars>>

(* ReleasePtr(): deleted ...                                                 *)
Delete(t) ==
  /\ task[t].pc = "delete"
  /\ task' = [task EXCEPT ![t].pc = "uncount", ![t].conn = None]
  /\ Destroy({task[t].conn})
  /\ UNCHANGED <<pool, total>>

(* ... and then no longer counted.                                           *)
Uncount(t) ==
  /\ task[t].pc = "uncount" /\ GoTo(t, "idle")
  /\ total' = total - 1
  /\ UNCHANGED <<pool, conn, wireVars>>
-----------------------------------------------------------------------------
(* HttpServer::handleClient(): a request is answered, and the session ends   *)
(* unless both sides want to keep it; what follows a part of a request on    *)
(* the stream is read as the rest of it ...                                  *)
Serve(c, keep) ==
  LET n == IF Head(reqs[c]) = Part THEN 2 ELSE 1 IN
  /\ peer[c] = "open" /\ reqs[c] # <<>> /\ n <= Len(reqs[c])
  /\ rsps' = [rsps EXCEPT ![c] = Append(@, Head(reqs[c]))]
  /\ reqs' = [reqs EXCEPT ![c] = SubSeq(@, n + 1, Len(@))]
  /\ peer' = [peer EXCEPT ![c] = IF keep THEN "open" ELSE "closed"]
  /\ UNCHANGED <<pool, total, conn, task>>

(* ... or when recvRequest() fails: nothing came in time, or nonsense.       *)
HangUp(c) ==
  /\ peer[c] = "open"
  /\ peer' = [peer EXCEPT ![c] = "closed"]
  /\ reqs' = [reqs EXCEPT ![c] = <<>>]
  /\ UNCHANGED <<pool, total, conn, rsps, task>>
-----------------------------------------------------------------------------
Step(t) ==
  \/ Get(t) \/ Discard(t) \/ Deduct(t) \/ Connect(t) \/ Count(t) \/ ConnectFails(t)
  \/ Send(t) \/ SendFails(t) \/ Receive(t) \/ ReceiveFails(t)
  \/ Release(t) \/ Put(t) \/ Delete(t) \/ Uncount(t)

Server == \E c \in Conns : HangUp(c) \/ \E keep \in BOOLEAN : Serve(c, keep)

Next == (\E t \in Tasks : Begin(t) \/ Step(t)) \/ Server

Spec == Init /\ [][Next]_vars
=============================================================================

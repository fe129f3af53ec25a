----------------------- MODULE MCHttpConnectionPool -----------------------
(* HttpConnectionPool for TLC, with its properties.                        *)
EXTENDS HttpConnectionPool

(* getConnection, ReleasePtr (http_connection.cpp:375-447): a connection    *)
(* has one owner, the list or one fiber, at every interleaving of their     *)
(* critical sections, so that two requests never share a stream.            *)
OneOwner ==
  /\ \A i, j \in 1..Len(pool) : pool[i] = pool[j] => i = j
  /\ Pooled \cap Held = {}
  /\ \A t, u \in Tasks : t # u /\ task[t].conn # None => task[t].conn # task[u].conn

(* m_total, which is updated outside m_mutex and not in one step with the  *)
(* new or delete it follows, counts the connections that exist but for the  *)
(* fibers between the two: no path of getConnection or ReleasePtr counts    *)
(* one twice or loses it, the failing ones included.  Nothing compares it   *)
(* with m_maxSize; what bounds the connections is that a fiber holds one    *)
(* at a time.                                                               *)
ConnsAccounted ==
  /\ total + Cardinality({t \in Tasks : task[t].pc = "count"})
       = Cardinality(Pooled \cup Held \cup Dropped)
           + Cardinality({t \in Tasks : task[t].pc = "uncount"})
  /\ Cardinality(Pooled \cup Held) <= Cardinality(Tasks)

(* doRequest (http_connection.cpp:558): a fiber that receives gets the      *)
(* answer to its own request, never a late one to a request that was given  *)
(* up: a connection that a time-out left with an answer on its way is       *)
(* closed before it is released.  Excepted is a connection on which a send  *)
(* failed half-way: it is not closed, and the next request on it becomes    *)
(* the rest of the first.                                                   *)
OwnResponse ==
  [][\A t \in Tasks : task'[t].got # task[t].got =>
       task'[t].got \in {None, Request(t)} \/ conn[task[t].conn].torn]_vars

(* A connection that is idle in the list can be used once more: connected as *)
(* far as the client knows, within its number of requests, and with nothing  *)
(* of an earlier request under way, whatever the server did, unless a send   *)
(* on it failed half-way.                                                    *)
PooledIsQuiet ==
  TypeOK /\ \A c \in Pooled :
    /\ conn[c].alive /\ conn[c].used < MaxRequest
    /\ conn[c].torn \/ (reqs[c] = <<>> /\ rsps[c] = <<>>)
=============================================================================

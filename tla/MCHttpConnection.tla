-------------------------- MODULE MCHttpConnection --------------------------
(* Instances of HttpConnection for TLC.                                    *)
EXTENDS HttpConnection

Local(n, chunks, keep) == [action |-> "local", body |-> n, chunked |-> chunks, keepAlive |-> keep]
Proxied(n, chunks) == [action |-> "proxy", body |-> n, chunked |-> chunks, keepAlive |-> TRUE]

\* Bodies of no, one and two pieces (the limit) and of three, chunked and not;
\* requests that keep the connection and requests that close it.
SmallShapes ==
    {Local(0, FALSE, TRUE), Local(0, FALSE, FALSE), Local(2, FALSE, TRUE), Local(1, TRUE, TRUE),
     Local(3, FALSE, TRUE), Local(3, TRUE, TRUE), Proxied(0, FALSE), Proxied(2, FALSE),
     Proxied(2, TRUE),
     [action |-> "websocket", body |-> 0, chunked |-> FALSE, keepAlive |-> TRUE]}
=============================================================================

---------------------------- MODULE PostHistory ----------------------------
(***************************************************************************)
(* PostService with a history variable, the tables the database has had,   *)
(* and the mapping under which it implements PostStore.                    *)
(***************************************************************************)
EXTENDS PostService

VARIABLES
    past,   \* history: the tables there have been
    since   \* history: of them, those since each open request arrived

\* The phase a client sees a request in that stands at l.
PhaseAt(l) ==
    CASE l = "idle" -> "idle"
      [] l = "done" -> "answered"
      [] l \in {"refresh", "evict"} -> "committed"
      [] OTHER -> "open"

\* The answer of r: a body goes with a success, and none with that of a DELETE.
Response(r) ==
    [status |-> status[r],
     body |-> IF status[r] = "ok" /\ req[r].op # "delete" THEN val[r] ELSE NoRow]

Promised == INSTANCE PostStore WITH
            Rows <- Row, Asked <- Request, asked <- req,
            phase <- [r \in Reqs |-> PhaseAt(pc[r])],
            answer <- [r \in Reqs |-> Response(r)]

HInit ==
    /\ Init
    /\ past = {posts}
    /\ since = [r \in Reqs |-> {}]

HNext ==
    /\ Next
    /\ past' = past \cup {posts'}
    /\ since' = [r \in Reqs |->
                   IF pc'[r] \in {"idle", "done"} THEN {}
                   ELSE IF pc[r] = "idle" THEN {posts'}
                   ELSE since[r] \cup {posts'}]

hvars == <<vars, past, since>>

HSpec == HInit /\ [][HNext]_hvars
-----------------------------------------------------------------------------
\* What is on its way to a client has been in the table: an entry of Redis at
\* some time, what a request has read since it arrived, however old either is now.
Genuine ==
    /\ \A i \in Ids : cache[i] # Absent => cache[i] \in Promised!Versions(i, past)
    /\ cache[ListKey] # Absent => cache[ListKey] \in Promised!Pages(past)
    /\ \A r \in Reqs :
         /\ pc[r] \in {"count", "count_direct"} => val[r].rows \in since[r]
         /\ pc[r] \in {"store", "evict"} /\ req[r].op # "delete" =>
              val[r] \in Promised!Bodies(req[r], since[r])

\* The post service with its cache, its sessions and its faults implements the
\* PostStore: every answer shows what the table was, one from the database what
\* it was while the request was there; a page is the rows of one table; a write
\* takes effect once and all at once, before it is answered with success.
Implements == Promised!Spec
=============================================================================

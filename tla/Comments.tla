------------------------------ MODULE Comments ------------------------------
(***************************************************************************)
(* Comments and the posts they belong to: the four operations of           *)
(* app/services/comment_service.py, and delete_post with the ORM cascade   *)
(* over Post.comments that goes with it (app/domain).                      *)
(*                                                                         *)
(* A step runs from one await to the next; a transaction takes effect at   *)
(* its commit.  What the database does of its own accord depends on which  *)
(* one it is: PostgreSQL enforces the foreign key, cascades a deleted post *)
(* to its comments and never hands an id out twice; SQLite, on which no    *)
(* PRAGMA foreign_keys is ever issued, does none of that, and a rowid is   *)
(* one more than the largest in the table.                                 *)
(***************************************************************************)
EXTENDS Integers, FiniteSets

CONSTANTS
    Reqs,        \* coroutine slots
    MaxPost,     \* bound: post ids
    MaxComment,  \* bound: comment ids
    MaxWrites,   \* bound: requests that write
    Database,    \* "sqlite" or "postgresql"
    None         \* no such row

PostIds == 1..MaxPost
CommentIds == 1..MaxComment
Stamps == 0..MaxWrites
\* A comment names its post; "of" remembers which post that was when it was
\* written (the stamp the post was created with), "text" who wrote it last.
Comment == [post : PostIds, of : Stamps, text : Stamps]
Ops == {"get_comments", "create_comment", "update_comment", "delete_comment",
        "delete_post"}

ASSUME BoundsAssumption ==
    MaxPost \in Nat \ {0} /\ MaxComment \in Nat \ {0} /\ MaxWrites \in Nat
ASSUME DatabaseAssumption == Database \in {"sqlite", "postgresql"}
ASSUME NoneAssumption == None \notin Stamps \cup Comment

VARIABLES
    posts,        \* post id -> the stamp it was created with, or None
    comments,     \* comment id -> comment or None
    lastPost,     \* the largest post id ever handed out
    lastComment,  \* the largest comment id ever handed out
    pc,           \* where each request stands
    req,          \* the request of each slot
    post,         \* the post each request has loaded (its stamp)
    loaded,       \* the comments each request has loaded: <<id, comment>>
    writes        \* stamps given out

vars == <<posts, comments, lastPost, lastComment, pc, req, post, loaded, writes>>
tables == <<posts, comments, lastPost, lastComment>>
-----------------------------------------------------------------------------
NoRequest == [op |-> "none", post |-> 1, comment |-> 1, given |-> FALSE, stamp |-> 0]

ForeignKeys == Database = "postgresql"
ReusesIds == Database = "sqlite"

\* The id the next INSERT takes in a table, given its live ids and its sequence.
NextId(live, last) ==
    IF ReusesIds THEN CHOOSE n \in 1..(last + 1) :
                        /\ \A i \in live : i < n
                        /\ n = 1 \/ n - 1 \in live
    ELSE last + 1

LivePosts == {i \in PostIds : posts[i] # None}
LiveComments == {c \in CommentIds : comments[c] # None}
NextComment == NextId(LiveComments, lastComment)
NextPost == NextId(LivePosts, lastPost)

\* Mutant: the list is not restricted to the post.
WholeTable(p) == {<<c, comments[c]>> : c \in LiveComments}

\* find_by_post_id, and the rows behind Post.comments.
CommentsOf(p) == {<<c, comments[c]>> : c \in {d \in LiveComments : comments[d].post = p}}

\* Mutant: the foreign key is not looked at.
AcceptsAny(p) == TRUE

\* The foreign key of an INSERT, where it is enforced.
Accepts(p) == ForeignKeys => posts[p] # None

\* Mutant: a comment of another post passes.
AnyPost(row, p) == TRUE

\* The check of update_comment and delete_comment (400 otherwise).
BelongsTo(row, p) == row.post = p

\* Mutant: only the comments that the session had loaded go.
LoadedOnly(p, c) == FALSE

\* ON DELETE CASCADE, where the foreign key is enforced.
Cascades(p, c) == ForeignKeys /\ comments[c] # None /\ comments[c].post = p

Goto(r, l) == pc' = [pc EXCEPT ![r] = l]

\* The request is answered, with a body or an error, and its session closed.
Finish(r) ==
    /\ Goto(r, "idle")
    /\ req' = [req EXCEPT ![r] = NoRequest]
    /\ post' = [post EXCEPT ![r] = None]
    /\ loaded' = [loaded EXCEPT ![r] = {}]

Init ==
    /\ posts = [i \in PostIds |-> IF i = 1 THEN 0 ELSE None]
    /\ comments = [c \in CommentIds |-> None]
    /\ lastPost = 1 /\ lastComment = 0 /\ writes = 0
    /\ pc = [r \in Reqs |-> "idle"]
    /\ req = [r \in Reqs |-> NoRequest]
    /\ post = [r \in Reqs |-> None]
    /\ loaded = [r \in Reqs |-> {}]

\* Another request creates a post (PostService has its steps).
CreatePost ==
    /\ writes < MaxWrites /\ NextPost \in PostIds
    /\ writes' = writes + 1
    /\ posts' = [posts EXCEPT ![NextPost] = writes + 1]
    /\ lastPost' = IF NextPost > lastPost THEN NextPost ELSE lastPost
    /\ UNCHANGED <<comments, lastComment, pc, req, post, loaded>>

Start(r) ==
    /\ pc[r] = "idle"
    /\ \E op \in Ops, p \in PostIds, c \in CommentIds, g \in BOOLEAN :
         /\ op # "get_comments" => writes < MaxWrites
         /\ op \notin {"update_comment", "delete_comment"} => c = 1
         /\ op # "update_comment" => ~g
         /\ writes' = IF op = "get_comments" THEN writes ELSE writes + 1
         /\ req' = [req EXCEPT ![r] = [op |-> op, post |-> p, comment |-> c,
                                       given |-> g, stamp |-> writes']]
    /\ Goto(r, "find_post")
    /\ UNCHANGED <<tables, post, loaded>>

\* Where each operation goes when the post is there.
AfterPost(op) ==
    CASE op \in {"get_comments", "delete_post"} -> "find_comments"
      [] op = "create_comment" -> "commit"
      [] OTHER -> "find_comment"

\* _get_post_or_404, and find_by_id of delete_post.
FindPost(r) ==
    /\ pc[r] = "find_post"
    /\ IF posts[req[r].post] = None THEN Finish(r)
       ELSE /\ post' = [post EXCEPT ![r] = posts[req[r].post]]
            /\ Goto(r, AfterPost(req[r].op))
            /\ UNCHANGED <<req, loaded>>
    /\ UNCHANGED <<tables, writes>>

\* The list of get_comments; what db.delete(post) loads to cascade to.
FindComments(r) ==
    /\ pc[r] = "find_comments"
    /\ loaded' = [loaded EXCEPT ![r] = CommentsOf(req[r].post)]
    /\ Goto(r, IF req[r].op = "get_comments" THEN "answer" ELSE "commit")
    /\ UNCHANGED <<tables, req, post, writes>>

\* The comment of update_comment and delete_comment: 404, 400, or on.
FindComment(r) ==
    LET c == req[r].comment
    IN  /\ pc[r] = "find_comment"
        /\ IF comments[c] # None /\ BelongsTo(comments[c], req[r].post)
           THEN /\ loaded' = [loaded EXCEPT ![r] = {<<c, comments[c]>>}]
                /\ Goto(r, "commit")
                /\ UNCHANGED <<req, post>>
           ELSE Finish(r)
        /\ UNCHANGED <<tables, writes>>

AnswerList(r) ==
    /\ pc[r] = "answer"
    /\ Finish(r)
    /\ UNCHANGED <<tables, writes>>

\* create_comment: INSERT, refresh, COMMIT, or the IntegrityError of the key.
Insert(r) ==
    /\ pc[r] = "commit" /\ req[r].op = "create_comment"
    /\ IF Accepts(req[r].post)
       THEN /\ NextComment \in CommentIds
            /\ comments' = [comments EXCEPT ![NextComment] =
                 [post |-> req[r].post, of |-> post[r], text |-> req[r].stamp]]
            /\ lastComment' = IF NextComment > lastComment THEN NextComment
                              ELSE lastComment
       ELSE UNCHANGED <<comments, lastComment>>
    /\ Finish(r)
    /\ UNCHANGED <<posts, lastPost, writes>>

\* update_comment: UPDATE of the content if one is given; on no row it is a
\* StaleDataError, and the request ends there.
Update(r) ==
    LET c == req[r].comment
    IN  /\ pc[r] = "commit" /\ req[r].op = "update_comment"
        /\ IF ~req[r].given \/ comments[c] # None
           THEN Goto(r, "refresh") /\ UNCHANGED <<req, post, loaded>>
           ELSE Finish(r)
        /\ comments' = IF req[r].given /\ comments[c] # None
                       THEN [comments EXCEPT ![c].text = req[r].stamp]
                       ELSE comments
        /\ UNCHANGED <<posts, lastPost, lastComment, writes>>

\* The refresh reads the comment back (or raises): either way the answer.
Refresh(r) ==
    /\ pc[r] = "refresh"
    /\ Finish(r)
    /\ UNCHANGED <<tables, writes>>

\* delete_comment and delete_post: DELETE of what the session has loaded by id,
\* with only a warning for a row that is gone; then what the database cascades.
Delete(r) ==
    LET ids == {x[1] : x \in loaded[r]}
    IN  /\ pc[r] = "commit" /\ req[r].op \in {"delete_comment", "delete_post"}
        /\ comments' = [c \in CommentIds |->
             IF \/ c \in ids
                \/ req[r].op = "delete_post" /\ Cascades(req[r].post, c)
             THEN None ELSE comments[c]]
        /\ posts' = IF req[r].op = "delete_post"
                    THEN [posts EXCEPT ![req[r].post] = None] ELSE posts
        /\ Finish(r)
        /\ UNCHANGED <<lastPost, lastComment, writes>>

\* A statement, a commit or the process fails: nothing of the request remains.
Fails(r) ==
    /\ pc[r] # "idle"
    /\ Finish(r)
    /\ UNCHANGED <<tables, writes>>

Next ==
    \/ CreatePost
    \/ \E r \in Reqs :
         \/ Start(r) \/ FindPost(r) \/ FindComments(r) \/ FindComment(r)
         \/ AnswerList(r) \/ Insert(r) \/ Update(r) \/ Refresh(r) \/ Delete(r)
         \/ Fails(r)

Spec == Init /\ [][Next]_vars
-----------------------------------------------------------------------------
(***************************************************************************)
(* Properties.                                                             *)
(***************************************************************************)
Requests == [op : Ops \cup {"none"}, post : PostIds, comment : CommentIds,
             given : BOOLEAN, stamp : Stamps]

\* What the await a request stands at says of what its session has loaded.
Shape(r) ==
    /\ IF pc[r] \in {"idle", "find_post"} THEN post[r] = None /\ loaded[r] = {}
       ELSE post[r] \in Stamps
    /\ pc[r] = "find_post" => req[r].op \in Ops
    /\ pc[r] \in {"find_comment", "refresh"} =>
         req[r].op \in {"update_comment", "delete_comment"}
    /\ pc[r] = "find_comments" => req[r].op \in {"get_comments", "delete_post"}
    /\ pc[r] = "answer" => req[r].op = "get_comments"
    /\ pc[r] = "commit" /\ req[r].op \in {"update_comment", "delete_comment"} =>
         \E row \in Comment : loaded[r] = {<<req[r].comment, row>>} /\ row.post = req[r].post
    /\ \A x \in loaded[r] : x[2].post = req[r].post

\* Every variable has the values the code gives it, and a request has loaded
\* what its handler has awaited, all of it of the post it was asked for.
TypeOK ==
    /\ posts \in [PostIds -> Stamps \cup {None}]
    /\ comments \in [CommentIds -> Comment \cup {None}]
    /\ lastPost \in PostIds /\ lastComment \in 0..MaxComment
    /\ \A i \in LivePosts : i <= lastPost
    /\ \A c \in LiveComments : c <= lastComment
    /\ pc \in [Reqs -> {"idle", "find_post", "find_comments", "find_comment",
                        "answer", "commit", "refresh"}]
    /\ req \in [Reqs -> Requests]
    /\ post \in [Reqs -> Stamps \cup {None}]
    /\ loaded \in [Reqs -> SUBSET (CommentIds \X Comment)]
    /\ writes \in Stamps
    /\ \A r \in Reqs : Shape(r)

\* Every comment belongs to the post it was written for: no commit of a comment
\* outlives the delete of its post, in whichever order the two requests run, and
\* no comment turns up under a later post that has taken the id.
CommentsBelong ==
    \A c \in LiveComments : posts[comments[c].post] = comments[c].of

\* A comment is changed or removed only by a request for the post it is on:
\* what update_comment and delete_comment check before an await still holds of
\* the row they write after it.
OnlyThroughItsPost ==
    [][\A c \in LiveComments :
         comments'[c] # comments[c] =>
           \E r \in Reqs : pc[r] = "commit" /\ req[r].post = comments[c].post]_vars

\* A list holds comments of the very post that was found for it.
ListsItsPost ==
    \A r \in Reqs : pc[r] = "answer" => \A x \in loaded[r] : x[2].of = post[r]
=============================================================================

--------------------------- MODULE CommentsProofs ---------------------------
(***************************************************************************)
(* Comments and posts on a database that enforces the foreign key and does *)
(* not reuse ids, for any number of requests, posts and comments.  Types   *)
(* are correct on either database.                                         *)
(***************************************************************************)
EXTENDS Comments, TLAPS

USE BoundsAssumption, DatabaseAssumption, NoneAssumption

LEMMA NoRequestType == NoRequest \in Requests
  BY DEF NoRequest, Requests, PostIds, CommentIds, Stamps

LEMMA CommentsOfType ==
  ASSUME TypeOK, NEW p \in PostIds
  PROVE  /\ CommentsOf(p) \in SUBSET (CommentIds \X Comment)
         /\ \A x \in CommentsOf(p) : /\ x[1] \in LiveComments /\ x[2] = comments[x[1]]
                                     /\ x[2].post = p
  BY DEF TypeOK, CommentsOf, LiveComments

\* A request that finishes leaves nothing behind in its slot.
LEMMA FinishType ==
  ASSUME TypeOK, NEW r \in Reqs, Finish(r), UNCHANGED writes,
         posts' \in [PostIds -> Stamps \cup {None}],
         comments' \in [CommentIds -> Comment \cup {None}],
         lastPost' \in PostIds, lastComment' \in 0..MaxComment,
         \A i \in LivePosts' : i <= lastPost',
         \A c \in LiveComments' : c <= lastComment'
  PROVE  TypeOK'
  <1> USE DEF TypeOK, Finish, Goto
  <1>1. ASSUME NEW q \in Reqs PROVE Shape(q)'
    <2>1. CASE q = r
      BY <2>1 DEF Shape
    <2>2. CASE q # r
      BY <2>2 DEF Shape
    <2> QED
      BY <2>1, <2>2
  <1> QED
    BY <1>1, NoRequestType

\* The same, of a step that leaves the tables alone.
LEMMA FinishQuiet ==
  ASSUME TypeOK, NEW r \in Reqs, Finish(r), UNCHANGED <<tables, writes>>
  PROVE  TypeOK'
  <1>1. LivePosts' = LivePosts /\ LiveComments' = LiveComments
    BY DEF tables, LivePosts, LiveComments
  <1> QED
    BY <1>1, FinishType DEF TypeOK, tables

-----------------------------------------------------------------------------
LEMMA InitTypeOK == Init => TypeOK
  BY NoRequestType DEF Init, TypeOK, Shape, LivePosts, LiveComments, PostIds, CommentIds,
                       Stamps

LEMMA CreatePostType ==
  ASSUME TypeOK, CreatePost
  PROVE  TypeOK'
  <1> USE DEF TypeOK, CreatePost
  <1>1. NextPost \in 1..MaxPost /\ writes + 1 \in Stamps
    BY DEF PostIds, Stamps
  <1>2. /\ posts' \in [PostIds -> Stamps \cup {None}] /\ lastPost' \in PostIds
        /\ \A i \in LivePosts' : i <= lastPost'
    BY <1>1 DEF LivePosts, PostIds
  <1>3. \A r \in Reqs : Shape(r)'
    BY DEF Shape
  <1> QED
    BY <1>1, <1>2, <1>3 DEF LiveComments

LEMMA StartType ==
  ASSUME TypeOK, NEW r \in Reqs, Start(r)
  PROVE  TypeOK'
  <1> USE DEF TypeOK, Goto, tables
  <1>1. PICK op \in Ops, p \in PostIds, c \in CommentIds, g \in BOOLEAN :
          /\ op # "get_comments" => writes < MaxWrites
          /\ writes' = IF op = "get_comments" THEN writes ELSE writes + 1
          /\ req' = [req EXCEPT ![r] = [op |-> op, post |-> p, comment |-> c,
                                        given |-> g, stamp |-> writes']]
    BY DEF Start
  <1>2. writes' \in Stamps
    BY <1>1 DEF Stamps
  <1>3. req' \in [Reqs -> Requests]
    BY <1>1, <1>2 DEF Requests
  <1>4. /\ pc[r] = "idle" /\ pc' = [pc EXCEPT ![r] = "find_post"]
        /\ UNCHANGED <<posts, comments, lastPost, lastComment, post, loaded>>
    BY DEF Start
  <1> QED
    BY <1>1, <1>2, <1>3, <1>4 DEF Shape, LivePosts, LiveComments, Start

LEMMA FindType ==
  ASSUME TypeOK, NEW r \in Reqs, FindPost(r) \/ FindComments(r) \/ FindComment(r)
  PROVE  TypeOK'
  <1>1. CASE Finish(r)
    BY <1>1, FinishQuiet DEF FindPost, FindComments, FindComment, Goto, tables, AfterPost,
                             TypeOK, Finish
  <1>2. CASE ~Finish(r)
    <2> USE <1>2 DEF TypeOK, Goto, tables
    <2>1. CASE FindPost(r)
      <3> DEFINE op == req[r].op
      <3>1. op \in Ops \cup {"none"} /\ posts[req[r].post] \in Stamps \cup {None}
        BY DEF Requests
      <3>2. /\ posts[req[r].post] # None
            /\ post' = [post EXCEPT ![r] = posts[req[r].post]]
            /\ pc' = [pc EXCEPT ![r] = AfterPost(op)] /\ pc[r] = "find_post"
            /\ UNCHANGED <<tables, writes, req, loaded>>
        BY <2>1 DEF FindPost
      <3>3. \/ op \in {"get_comments", "delete_post"} /\ AfterPost(op) = "find_comments"
            \/ op = "create_comment" /\ AfterPost(op) = "commit"
            \/ op \in {"update_comment", "delete_comment"} /\ AfterPost(op) = "find_comment"
        BY <3>1, <3>2 DEF AfterPost, Ops, Shape
      <3> HIDE DEF op
      <3>4. post' \in [Reqs -> Stamps \cup {None}]
        BY <3>1, <3>2
      <3>5. pc' \in [Reqs -> {"idle", "find_post", "find_comments", "find_comment",
                             "answer", "commit", "refresh"}]
        BY <3>2, <3>3
      <3>6. ASSUME NEW q \in Reqs PROVE Shape(q)'
        <4>1. CASE q # r
          BY <3>2, <4>1 DEF Shape
        <4>2. CASE q = r
          BY <3>1, <3>2, <3>3, <4>2 DEF Shape, op
        <4> QED
          BY <4>1, <4>2
      <3> QED
        BY <3>2, <3>4, <3>5, <3>6 DEF LivePosts, LiveComments
    <2>2. CASE FindComments(r)
      <3>1. req[r].post \in PostIds
        BY DEF Requests
      <3>2. ASSUME NEW q \in Reqs PROVE Shape(q)'
        BY <2>2, <3>1, <3>2, CommentsOfType DEF FindComments, Shape
      <3> QED
        BY <2>2, <3>1, <3>2, CommentsOfType DEF FindComments, LivePosts, LiveComments
    <2>3. CASE FindComment(r)
      <3> DEFINE c == req[r].comment
      <3>1. /\ comments[c] \in Comment /\ c \in CommentIds
            /\ comments[c].post = req[r].post
        BY <2>3 DEF FindComment, BelongsTo, Requests
      <3>2. /\ loaded' = [loaded EXCEPT ![r] = {<<c, comments[c]>>}]
            /\ pc' = [pc EXCEPT ![r] = "commit"] /\ pc[r] = "find_comment"
            /\ UNCHANGED <<tables, req, post, writes>>
        BY <2>3 DEF FindComment
      <3>3. ASSUME NEW q \in Reqs PROVE Shape(q)'
        BY <3>1, <3>2, <3>3 DEF Shape
      <3> QED
        BY <3>1, <3>2, <3>3 DEF LivePosts, LiveComments
    <2> QED
      BY <2>1, <2>2, <2>3
  <1> QED
    BY <1>1, <1>2

LEMMA InsertType ==
  ASSUME TypeOK, NEW r \in Reqs, Insert(r)
  PROVE  TypeOK'
  <1> USE DEF TypeOK
  <1>1. LivePosts' = LivePosts
    BY DEF Insert, LivePosts
  <1>2. /\ comments' \in [CommentIds -> Comment \cup {None}]
        /\ lastComment' \in 0..MaxComment
        /\ \A c \in LiveComments' : c <= lastComment'
    <2>1. CASE Accepts(req[r].post)
      <3> DEFINE row == [post |-> req[r].post, of |-> post[r], text |-> req[r].stamp]
      <3>1. row \in Comment
        BY DEF Insert, Shape, Comment, Requests
      <3>2. /\ NextComment \in 1..MaxComment
            /\ comments' = [comments EXCEPT ![NextComment] = row]
            /\ lastComment' = IF NextComment > lastComment THEN NextComment
                              ELSE lastComment
        BY <2>1 DEF Insert, CommentIds
      <3> QED
        BY <3>1, <3>2 DEF LiveComments, CommentIds
    <2>2. CASE ~Accepts(req[r].post)
      BY <2>2 DEF Insert, LiveComments
    <2> QED
      BY <2>1, <2>2
  <1> QED
    BY <1>1, <1>2, FinishType DEF Insert

LEMMA UpdateType ==
  ASSUME TypeOK, NEW r \in Reqs, Update(r)
  PROVE  TypeOK'
  <1> USE DEF TypeOK
  <1> DEFINE c == req[r].comment
  <1>1. LivePosts' = LivePosts /\ UNCHANGED <<posts, lastPost, lastComment, writes>>
    BY DEF Update, LivePosts
  <1>2. /\ comments' \in [CommentIds -> Comment \cup {None}]
        /\ LiveComments' = LiveComments
    <2>1. CASE comments' = comments
      BY <2>1 DEF LiveComments
    <2>2. CASE comments[c] # None /\ comments' = [comments EXCEPT ![c].text = req[r].stamp]
      <3>1. c \in CommentIds /\ comments[c] \in Comment /\ req[r].stamp \in Stamps
        BY <2>2 DEF Requests
      <3>2. [comments[c] EXCEPT !.text = req[r].stamp] \in Comment
        BY <3>1 DEF Comment
      <3> QED
        BY <2>2, <3>1, <3>2 DEF LiveComments
    <2> QED
      BY <2>1, <2>2 DEF Update
  <1>3. CASE Finish(r)
    BY <1>1, <1>2, <1>3, FinishType
  <1>4. CASE Goto(r, "refresh") /\ UNCHANGED <<req, post, loaded>>
    <2>1. ASSUME NEW q \in Reqs PROVE Shape(q)'
      BY <1>4, <2>1 DEF Update, Goto, Shape
    <2> QED
      BY <1>1, <1>2, <1>4, <2>1 DEF Goto
  <1> QED
    BY <1>3, <1>4 DEF Update

LEMMA DeleteType ==
  ASSUME TypeOK, NEW r \in Reqs, Delete(r)
  PROVE  TypeOK'
  <1> USE DEF TypeOK
  <1>1. /\ comments' \in [CommentIds -> Comment \cup {None}]
        /\ posts' \in [PostIds -> Stamps \cup {None}]
        /\ LivePosts' \subseteq LivePosts /\ LiveComments' \subseteq LiveComments
    BY DEF Delete, LivePosts, LiveComments
  <1> QED
    BY <1>1, FinishType DEF Delete

LEMMA TypeOKInductive == TypeOK /\ [Next]_vars => TypeOK'
  <1> SUFFICES ASSUME TypeOK, [Next]_vars PROVE TypeOK'
    OBVIOUS
  <1>1. CASE UNCHANGED vars
    BY <1>1 DEF vars, TypeOK, Shape, LivePosts, LiveComments
  <1>2. ASSUME NEW r \in Reqs, AnswerList(r) \/ Refresh(r) \/ Fails(r)
        PROVE  TypeOK'
    BY <1>2, FinishQuiet DEF AnswerList, Refresh, Fails
  <1> QED
    BY <1>1, <1>2, CreatePostType, StartType, FindType, InsertType, UpdateType,
       DeleteType DEF Next

\* On either database every request has loaded what its handler has awaited,
\* and all of it of the post it was asked for.
THEOREM TypeCorrect == Spec => []TypeOK
  BY InitTypeOK, TypeOKInductive, PTL DEF Spec

-----------------------------------------------------------------------------
(***************************************************************************)
(* On PostgreSQL an id names one row for ever: the post a request has      *)
(* found is the one its id names until it is gone, and so are comments.    *)
(***************************************************************************)
PostKnown ==
    \A r \in Reqs : post[r] # None =>
        req[r].post <= lastPost /\ posts[req[r].post] \in {post[r], None}

LoadedKnown ==
    \A r \in Reqs : \A x \in loaded[r] :
        /\ x[1] <= lastComment
        /\ comments[x[1]] # None => comments[x[1]].post = x[2].post

Inv == TypeOK /\ CommentsBelong /\ ListsItsPost /\ PostKnown /\ LoadedKnown

LEMMA SequenceIds ==
  ASSUME Database = "postgresql"
  PROVE  NextPost = lastPost + 1 /\ NextComment = lastComment + 1
  BY DEF NextPost, NextComment, NextId, ReusesIds

LEMMA InitInv == Init => Inv
  BY InitTypeOK DEF Init, Inv, CommentsBelong, ListsItsPost, PostKnown, LoadedKnown,
                    LiveComments

\* What a step of the tables may do, as far as what requests hold is concerned:
\* rows go, or get an id above every id handed out before; none moves.
TablesGrow ==
    /\ lastPost' >= lastPost /\ lastComment' >= lastComment
    /\ \A i \in PostIds : i <= lastPost /\ posts'[i] # None => posts'[i] = posts[i]
    /\ \A c \in CommentIds : c <= lastComment /\ comments'[c] # None =>
         /\ comments[c] # None /\ comments'[c].post = comments[c].post
         /\ comments'[c].of = comments[c].of

\* A request that goes on with what it holds still knows it.
LEMMA HoldersKeep ==
  ASSUME Inv, TypeOK', TablesGrow,
         \A q \in Reqs : \/ post'[q] = None /\ loaded'[q] = {} /\ pc'[q] # "answer"
                         \/ /\ post'[q] = post[q] /\ loaded'[q] = loaded[q]
                            /\ (post[q] # None => req'[q] = req[q])
                            /\ (pc'[q] = "answer" => pc[q] = "answer")
  PROVE  ListsItsPost' /\ PostKnown' /\ LoadedKnown'
  <1> USE DEF Inv
  <1>1. ListsItsPost'
    BY DEF ListsItsPost
  <1>2. lastPost \in Int /\ lastPost' \in Int /\ lastComment \in Int /\ lastComment' \in Int
        /\ PostIds \subseteq Int /\ CommentIds \subseteq Int
        /\ \A q \in Reqs : req[q].post \in PostIds
    BY DEF TypeOK, Requests, PostIds, CommentIds
  <1>3. PostKnown'
    <2> SUFFICES ASSUME NEW q \in Reqs, post'[q] # None
                 PROVE  /\ req'[q].post <= lastPost'
                        /\ posts'[req'[q].post] \in {post'[q], None}
      BY DEF PostKnown
    <2>1. post'[q] = post[q] /\ req'[q] = req[q]
      OBVIOUS
    <2> DEFINE p == req[q].post
    <2>2. p \in PostIds /\ p \in Int /\ p <= lastPost /\ posts[p] \in {post[q], None}
      BY <1>2, <2>1 DEF PostKnown
    <2>3. p <= lastPost'
      BY <1>2, <2>2 DEF TablesGrow
    <2>4. posts'[p] # None => posts'[p] = posts[p]
      BY <2>2 DEF TablesGrow
    <2> QED
      BY <2>1, <2>2, <2>3, <2>4
  <1>4. LoadedKnown'
    <2> SUFFICES ASSUME NEW q \in Reqs, NEW x \in loaded'[q]
                 PROVE  /\ x[1] <= lastComment'
                        /\ comments'[x[1]] # None => comments'[x[1]].post = x[2].post
      BY DEF LoadedKnown
    <2>1. x \in loaded[q] /\ x \in CommentIds \X Comment
      BY DEF TypeOK
    <2>2. x[1] \in CommentIds
      BY <2>1
    <2>3. /\ x[1] \in Int /\ x[1] <= lastComment
          /\ comments[x[1]] # None => comments[x[1]].post = x[2].post
      BY <1>2, <2>1, <2>2 DEF LoadedKnown
    <2>4. x[1] <= lastComment'
      BY <1>2, <2>3 DEF TablesGrow
    <2>5. comments'[x[1]] # None =>
            comments[x[1]] # None /\ comments'[x[1]].post = comments[x[1]].post
      BY <2>2, <2>3 DEF TablesGrow
    <2> QED
      BY <2>3, <2>4, <2>5
  <1> QED
    BY <1>1, <1>3, <1>4

\* Steps that leave the tables alone and start, answer or drop a request.
LEMMA QuietStep ==
  ASSUME Inv, TypeOK', NEW r \in Reqs,
         Start(r) \/ (Finish(r) /\ UNCHANGED <<tables, writes>>)
  PROVE  Inv'
  <1> USE DEF Inv, TypeOK, tables, Goto
  <1>1. UNCHANGED tables
    BY DEF Start
  <1>2. TablesGrow
    BY <1>1 DEF TablesGrow, PostIds, CommentIds
  <1>3. CommentsBelong'
    BY <1>1 DEF CommentsBelong, LiveComments
  <1>4. \A q \in Reqs : \/ post'[q] = None /\ loaded'[q] = {} /\ pc'[q] # "answer"
                        \/ /\ post'[q] = post[q] /\ loaded'[q] = loaded[q]
                           /\ (post[q] # None => req'[q] = req[q])
                           /\ (pc'[q] = "answer" => pc[q] = "answer")
    BY DEF Start, Finish, Shape
  <1> QED
    BY <1>2, <1>3, <1>4, HoldersKeep

LEMMA FindStep ==
  ASSUME Inv, TypeOK', NEW r \in Reqs, FindPost(r) \/ FindComments(r) \/ FindComment(r),
         ~Finish(r)
  PROVE  Inv'
  <1> USE DEF Inv, TypeOK, tables, Goto
  <1>1. /\ UNCHANGED <<posts, comments, lastPost, lastComment, req>>
        /\ \A q \in Reqs : q # r =>
              pc'[q] = pc[q] /\ post'[q] = post[q] /\ loaded'[q] = loaded[q]
    BY DEF FindPost, FindComments, FindComment
  <1>2. CommentsBelong'
    BY <1>1 DEF CommentsBelong, LiveComments
  <1>3. req[r].post \in PostIds /\ req[r].comment \in CommentIds
    BY DEF Requests
  <1>4. CASE FindPost(r)
    <2>1. /\ posts[req[r].post] # None /\ post'[r] = posts[req[r].post]
          /\ loaded' = loaded /\ loaded[r] = {}
      BY <1>4 DEF FindPost, Shape
    <2>2. PostKnown'
      BY <1>1, <1>3, <2>1 DEF PostKnown, LivePosts
    <2>3. LoadedKnown'
      BY <1>1, <2>1 DEF LoadedKnown
    <2>4. ListsItsPost'
      BY <1>1, <2>1 DEF ListsItsPost
    <2> QED
      BY <1>2, <2>2, <2>3, <2>4
  <1>5. CASE FindComments(r)
    <2>1. /\ post' = post /\ loaded'[r] = CommentsOf(req[r].post)
          /\ post[r] \in Stamps
      BY <1>5 DEF FindComments, Shape
    <2>2. \A x \in loaded'[r] : /\ x[1] \in LiveComments /\ x[2] = comments[x[1]]
                                /\ x[2].post = req[r].post
      BY <1>3, <2>1, CommentsOfType
    <2>3. PostKnown'
      BY <1>1, <2>1 DEF PostKnown
    <2>4. LoadedKnown'
      BY <1>1, <2>2 DEF LoadedKnown
    <2>5. ASSUME NEW x \in loaded'[r] PROVE x[2].of = post[r]
      <3>1. comments[x[1]] \in Comment /\ posts[req[r].post] = x[2].of
        BY <2>2 DEF CommentsBelong, LiveComments
      <3>2. x[2].of # None
        BY <2>2, <3>1 DEF Comment
      <3> QED
        BY <2>1, <3>1, <3>2 DEF PostKnown
    <2>6. ListsItsPost'
      BY <1>1, <2>1, <2>5 DEF ListsItsPost
    <2> QED
      BY <1>2, <2>3, <2>4, <2>6
  <1>6. CASE FindComment(r)
    <2> DEFINE c == req[r].comment
    <2>1. /\ post' = post /\ loaded'[r] = {<<c, comments[c]>>} /\ comments[c] # None
          /\ pc'[r] = "commit"
      BY <1>6 DEF FindComment
    <2>2. PostKnown' /\ ListsItsPost'
      BY <1>1, <2>1 DEF PostKnown, ListsItsPost
    <2>3. LoadedKnown'
      BY <1>1, <1>3, <2>1 DEF LoadedKnown, LiveComments
    <2> QED
      BY <1>2, <2>2, <2>3
  <1> QED
    BY <1>4, <1>5, <1>6

LEMMA CreatePostStep ==
  ASSUME Database = "postgresql", Inv, TypeOK', CreatePost
  PROVE  Inv'
  <1> USE DEF Inv, TypeOK, PostIds, CommentIds
  <1>1. /\ NextPost = lastPost + 1 /\ lastPost' = NextPost
        /\ posts' = [posts EXCEPT ![NextPost] = writes + 1]
        /\ UNCHANGED <<comments, lastComment, pc, req, post, loaded>>
    BY SequenceIds DEF CreatePost
  <1>2. TablesGrow
    BY <1>1 DEF TablesGrow
  <1>3. CommentsBelong'
    <2> SUFFICES ASSUME NEW c \in LiveComments
                 PROVE  posts'[comments[c].post] = comments[c].of
      BY <1>1 DEF CommentsBelong, LiveComments
    <2>1. /\ posts[comments[c].post] = comments[c].of /\ comments[c] \in Comment
      BY DEF CommentsBelong, LiveComments
    <2>2. comments[c].post \in LivePosts
      BY <2>1 DEF LivePosts, Comment
    <2> QED
      BY <1>1, <2>1, <2>2 DEF LivePosts
  <1> QED
    BY <1>1, <1>2, <1>3, HoldersKeep

LEMMA InsertStep ==
  ASSUME Database = "postgresql", Inv, TypeOK', NEW r \in Reqs, Insert(r)
  PROVE  Inv'
  <1> USE DEF Inv, TypeOK, Goto
  <1>1. CASE ~Accepts(req[r].post)
    BY <1>1, QuietStep DEF Insert, tables
  <1>2. CASE Accepts(req[r].post)
    <2> DEFINE row == [post |-> req[r].post, of |-> post[r], text |-> req[r].stamp]
    <2>1. /\ NextComment \in CommentIds /\ NextComment = lastComment + 1
          /\ comments' = [comments EXCEPT ![NextComment] = row]
          /\ lastComment' = NextComment
          /\ posts' = posts /\ lastPost' = lastPost
      BY <1>2, SequenceIds DEF Insert
    <2>2. post[r] \in Stamps /\ req[r].post \in PostIds
      BY DEF Insert, Shape, Requests
    <2>3. posts[req[r].post] = post[r]
      BY <1>2, <2>2 DEF PostKnown, Accepts, ForeignKeys
    <2>4. CommentsBelong'
      BY <2>1, <2>3 DEF CommentsBelong, LiveComments
    <2>5. TablesGrow
      BY <2>1 DEF TablesGrow, CommentIds, PostIds
    <2>6. \A q \in Reqs : \/ post'[q] = None /\ loaded'[q] = {} /\ pc'[q] # "answer"
                          \/ /\ post'[q] = post[q] /\ loaded'[q] = loaded[q]
                             /\ (post[q] # None => req'[q] = req[q])
                             /\ (pc'[q] = "answer" => pc[q] = "answer")
      BY DEF Insert, Finish
    <2> QED
      BY <2>4, <2>5, <2>6, HoldersKeep
  <1> QED
    BY <1>1, <1>2

LEMMA UpdateStep ==
  ASSUME Inv, TypeOK', NEW r \in Reqs, Update(r)
  PROVE  Inv'
  <1> USE DEF Inv, TypeOK, Goto
  <1> DEFINE c == req[r].comment
  <1>1. /\ UNCHANGED <<posts, lastPost, lastComment>>
        /\ \/ comments' = comments
           \/ comments[c] # None /\ comments' = [comments EXCEPT ![c].text = req[r].stamp]
    BY DEF Update
  <1>2. \A d \in CommentIds :
          /\ (comments'[d] # None) <=> (comments[d] # None)
          /\ comments[d] # None => /\ comments'[d].post = comments[d].post
                                   /\ comments'[d].of = comments[d].of
    BY <1>1 DEF Comment, Requests
  <1>3. CommentsBelong'
    BY <1>1, <1>2 DEF CommentsBelong, LiveComments
  <1>4. TablesGrow
    BY <1>1, <1>2 DEF TablesGrow, PostIds, CommentIds
  <1>5. \A q \in Reqs : \/ post'[q] = None /\ loaded'[q] = {} /\ pc'[q] # "answer"
                        \/ /\ post'[q] = post[q] /\ loaded'[q] = loaded[q]
                           /\ (post[q] # None => req'[q] = req[q])
                           /\ (pc'[q] = "answer" => pc[q] = "answer")
    BY DEF Update, Finish
  <1> QED
    BY <1>3, <1>4, <1>5, HoldersKeep

LEMMA DeleteStep ==
  ASSUME Database = "postgresql", Inv, TypeOK', NEW r \in Reqs, Delete(r)
  PROVE  Inv'
  <1> USE DEF Inv, TypeOK, Goto
  <1>1. /\ UNCHANGED <<lastPost, lastComment>>
        /\ \A c \in CommentIds : comments'[c] # None => comments'[c] = comments[c]
        /\ \A i \in PostIds : posts'[i] # None => posts'[i] = posts[i]
    BY DEF Delete
  <1>2. CommentsBelong'
    <2> SUFFICES ASSUME NEW c \in CommentIds, comments'[c] # None
                 PROVE  posts'[comments[c].post] = comments[c].of
      BY <1>1 DEF CommentsBelong, LiveComments
    <2>1. comments'[c] = comments[c] /\ posts[comments[c].post] = comments[c].of
      BY <1>1 DEF CommentsBelong, LiveComments
    <2>2. CASE req[r].op = "delete_post"
      <3>1. comments[c].post # req[r].post
        BY <2>1, <2>2 DEF Delete, Cascades, ForeignKeys
      <3> QED
        BY <2>1, <2>2, <3>1 DEF Delete, Requests
    <2>3. CASE req[r].op # "delete_post"
      BY <2>1, <2>3 DEF Delete
    <2> QED
      BY <2>2, <2>3
  <1>3. TablesGrow
    BY <1>1 DEF TablesGrow, PostIds, CommentIds
  <1>4. \A q \in Reqs : \/ post'[q] = None /\ loaded'[q] = {} /\ pc'[q] # "answer"
                        \/ /\ post'[q] = post[q] /\ loaded'[q] = loaded[q]
                           /\ (post[q] # None => req'[q] = req[q])
                           /\ (pc'[q] = "answer" => pc[q] = "answer")
    BY DEF Delete, Finish
  <1> QED
    BY <1>2, <1>3, <1>4, HoldersKeep

LEMMA InvInductive ==
  ASSUME Database = "postgresql"
  PROVE  Inv /\ [Next]_vars => Inv'
  <1> SUFFICES ASSUME Inv, [Next]_vars PROVE Inv'
    OBVIOUS
  <1>1. TypeOK'
    BY TypeOKInductive DEF Inv
  <1>2. CASE UNCHANGED vars
    BY <1>1, <1>2 DEF vars, Inv, CommentsBelong, ListsItsPost, PostKnown, LoadedKnown,
                      LiveComments
  <1>3. ASSUME NEW r \in Reqs, FindPost(r) \/ FindComments(r) \/ FindComment(r)
        PROVE  Inv'
    <2>1. CASE Finish(r)
      <3>1. UNCHANGED <<tables, writes>>
        BY <1>3 DEF FindPost, FindComments, FindComment
      <3> QED
        BY <1>1, <2>1, <3>1, QuietStep
    <2>2. CASE ~Finish(r)
      BY <1>1, <1>3, <2>2, FindStep
    <2> QED
      BY <2>1, <2>2
  <1>4. ASSUME NEW r \in Reqs, Start(r) \/ AnswerList(r) \/ Refresh(r) \/ Fails(r)
        PROVE  Inv'
    BY <1>1, <1>4, QuietStep DEF AnswerList, Refresh, Fails
  <1> QED
    BY <1>1, <1>2, <1>3, <1>4, CreatePostStep, InsertStep, UpdateStep, DeleteStep DEF Next

\* With the foreign key enforced and ids never reused, every comment is on the
\* post it was written for, however create_comment and delete_post interleave.
THEOREM CommentsOnTheirPost == Database = "postgresql" => (Spec => []CommentsBelong)
  <1> SUFFICES ASSUME Database = "postgresql" PROVE Spec => []CommentsBelong
    OBVIOUS
  <1>1. Inv => CommentsBelong
    BY DEF Inv
  <1> QED
    BY <1>1, InitInv, InvInductive, PTL DEF Spec

\* A list answered by get_comments holds comments of the post found for it.
THEOREM ListsOfThePost == Database = "postgresql" => (Spec => []ListsItsPost)
  <1> SUFFICES ASSUME Database = "postgresql" PROVE Spec => []ListsItsPost
    OBVIOUS
  <1>1. Inv => ListsItsPost
    BY DEF Inv
  <1> QED
    BY <1>1, InitInv, InvInductive, PTL DEF Spec

\* The check that a comment is on the post of the request, made before an
\* await, still holds of the row that is written after it.
THEOREM ChangedThroughItsPost == Database = "postgresql" => (Spec => OnlyThroughItsPost)
  <1> SUFFICES ASSUME Database = "postgresql" PROVE Spec => OnlyThroughItsPost
    OBVIOUS
  <1> DEFINE Through ==
        \A c \in LiveComments : comments'[c] # comments[c] =>
          \E r \in Reqs : pc[r] = "commit" /\ req[r].post = comments[c].post
  <1>1. Inv /\ [Next]_vars => Through
    <2> SUFFICES ASSUME Inv, [Next]_vars, NEW c \in LiveComments,
                        comments'[c] # comments[c]
                 PROVE  \E r \in Reqs : pc[r] = "commit" /\ req[r].post = comments[c].post
      OBVIOUS
    <2> USE DEF Inv, TypeOK
    <2>1. comments' # comments /\ c \in CommentIds /\ comments[c] # None
      BY DEF LiveComments
    <2>2. PICK r \in Reqs : Insert(r) \/ Update(r) \/ Delete(r)
      BY <2>1 DEF Next, CreatePost, Start, FindPost, FindComments, FindComment, AnswerList,
                  Refresh, Fails, tables, vars
    <2>3. ~Insert(r)
      BY <2>1, SequenceIds DEF Insert, CommentIds
    <2>4. CASE Update(r)
      <3>1. /\ pc[r] = "commit" /\ req[r].op = "update_comment" /\ c = req[r].comment
        BY <2>1, <2>4 DEF Update
      <3>2. PICK row \in Comment : /\ loaded[r] = {<<req[r].comment, row>>}
                                   /\ row.post = req[r].post
        BY <3>1 DEF Shape
      <3>3. <<c, row>> \in loaded[r]
        BY <3>1, <3>2
      <3>4. comments[c].post = row.post
        BY <2>1, <3>3 DEF LoadedKnown
      <3> QED
        BY <3>1, <3>2, <3>4
    <2>5. CASE Delete(r)
      <3>1. pc[r] = "commit" /\ comments'[c] = None
        BY <2>1, <2>5 DEF Delete
      <3>2. CASE Cascades(req[r].post, c)
        BY <3>1, <3>2 DEF Cascades
      <3>3. CASE ~Cascades(req[r].post, c)
        <4>1. PICK x \in loaded[r] : x[1] = c
          BY <2>1, <2>5, <3>3 DEF Delete
        <4> QED
          BY <2>1, <3>1, <4>1 DEF LoadedKnown, Shape
      <3> QED
        BY <3>2, <3>3
    <2> QED
      BY <2>2, <2>3, <2>4, <2>5
  <1>2. Inv /\ [Next]_vars => [Through]_vars
    BY <1>1
  <1> QED
    BY <1>2, InitInv, InvInductive, PTL DEF Spec, OnlyThroughItsPost
=============================================================================

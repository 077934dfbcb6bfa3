----------------------------- MODULE PostBoard -----------------------------
(***************************************************************************)
(* Posts, their revisions and their copies in the search engine            *)
(* (server/actions/post.ts, lib/search.ts).  The row and its revision      *)
(* commit together; the document follows in a second step that may fail    *)
(* and that another call may overtake.  A call is a server action between  *)
(* its check and its last effect.                                          *)
(***************************************************************************)
EXTENDS Integers, FiniteSets

CONSTANTS
  Post, Author, Org, Call,
  Title,
  Manager,        \* the author who is an owner or admin of Org
  None,           \* the personal workspace, and no post
  MaxVersion,     \* bound: writes of one post
  MaxOutages      \* bound: requests the search engine does not answer

VARIABLES
  posts,          \* Post -> None or [author, org, title, version]
  revisions,      \* Post -> the versions the history holds
  documents,      \* Post -> the version the engine holds, 0 for none
  settings,       \* "default" or "pinned": the shape of the index
  memo,           \* settingsPromise: "none", "resolved" or "rejected"
  calls,          \* Call -> what the action still has to do
  gone,           \* authors whose account is deleted
  outages,
  missed          \* history: posts whose last indexing failed, was overtaken or never ran

engine == <<documents, settings, memo>>
vars == <<posts, revisions, engine, calls, gone, outages, missed>>

Idle == [do |-> "nothing"]
Version(p) == IF posts[p] = None THEN 0 ELSE posts[p].version
Live == {p \in Post : posts[p] # None}

Init ==
  /\ posts = [p \in Post |-> None] /\ revisions = [p \in Post |-> {}]
  /\ documents = [p \in Post |-> 0] /\ settings = "default" /\ memo = "none"
  /\ calls = [c \in Call |-> Idle] /\ gone = {} /\ outages = 0 /\ missed = {}

Then(c, what) == calls' = [calls EXCEPT ![c] = what]

\* Row-level authorization: the author, or an owner or admin of the post's org.
MayManage(a, p) == posts[p].author = a \/ (posts[p].org # None /\ a = Manager)

-----------------------------------------------------------------------------
\* createPost up to its transaction: the workspace is the session's active one
\* and the title is free in it.  A post's number is never used again.
StartCreate(c, a, o, title) ==
  /\ calls[c] = Idle /\ a \notin gone
  /\ ~\E q \in Live : posts[q].author = a /\ posts[q].org = o /\ posts[q].title = title
  /\ Then(c, [do |-> "insert", author |-> a, org |-> o, title |-> title])
  /\ UNCHANGED <<posts, revisions, engine, gone, outages, missed>>

\* The transaction of createPost: the post and its first revision.
Insert(c) ==
  /\ calls[c].do = "insert" /\ calls[c].author \notin gone
  /\ \E p \in Post : /\ posts[p] = None /\ revisions[p] = {} /\ documents[p] = 0
                     /\ \A d \in Call : calls[d].do \in {"index", "deindex"} => calls[d].post # p
                     /\ posts' = [posts EXCEPT ![p] = [author |-> calls[c].author,
                          org |-> calls[c].org, title |-> calls[c].title, version |-> 1]]
                     /\ revisions' = [revisions EXCEPT ![p] = {1}]
                     /\ Then(c, [do |-> "index", post |-> p, version |-> 1])
  /\ UNCHANGED <<engine, gone, outages, missed>>

\* updatePost and deletePost up to their write: found and allowed.
StartUpdate(c, a, p) ==
  /\ calls[c] = Idle /\ a \notin gone /\ p \in Live /\ MayManage(a, p)
  /\ Then(c, [do |-> "update", post |-> p])
  /\ UNCHANGED <<posts, revisions, engine, gone, outages, missed>>

StartDelete(c, a, p) ==
  /\ calls[c] = Idle /\ a \notin gone /\ p \in Live /\ MayManage(a, p)
  /\ Then(c, [do |-> "delete", post |-> p])
  /\ UNCHANGED <<posts, revisions, engine, gone, outages, missed>>

\* The transaction of updatePost: the row and its next revision.
Update(c) ==
  /\ calls[c].do = "update"
  /\ LET p == calls[c].post IN
       /\ p \in Live /\ Version(p) < MaxVersion
       /\ posts' = [posts EXCEPT ![p].version = @ + 1]
       /\ revisions' = [revisions EXCEPT ![p] = @ \cup {Version(p) + 1}]
       /\ Then(c, [do |-> "index", post |-> p, version |-> Version(p) + 1])
  /\ UNCHANGED <<engine, gone, outages, missed>>

\* The transaction finds no row (or no author) or fails: nothing is written.
Abort(c) ==
  /\ calls[c].do \in {"insert", "update"}
  /\ Then(c, Idle)
  /\ UNCHANGED <<posts, revisions, engine, gone, outages, missed>>

\* deletePost: the row goes and its history with it, whoever was there first.
Delete(c) ==
  /\ calls[c].do = "delete"
  /\ LET p == calls[c].post IN
       /\ posts' = [posts EXCEPT ![p] = None]
       /\ revisions' = [revisions EXCEPT ![p] = {}]
       /\ Then(c, [do |-> "deindex", post |-> p])
  /\ UNCHANGED <<engine, gone, outages, missed>>

\* An account is deleted: its posts go by cascade, their documents do not.
AuthorLeaves(a) ==
  /\ a \notin gone /\ gone' = gone \cup {a}
  /\ LET theirs == {p \in Live : posts[p].author = a} IN
       /\ posts' = [p \in Post |-> IF p \in theirs THEN None ELSE posts[p]]
       /\ revisions' = [p \in Post |-> IF p \in theirs THEN {} ELSE revisions[p]]
       /\ missed' = missed \cup theirs
  /\ UNCHANGED <<engine, calls, outages>>

\* An organization is deleted: its posts return to their authors.
OrgGone(o) ==
  /\ \E p \in Live : posts[p].org = o
  /\ posts' = [p \in Post |-> IF p \in Live /\ posts[p].org = o
                              THEN [posts[p] EXCEPT !.org = None] ELSE posts[p]]
  /\ UNCHANGED <<revisions, engine, calls, gone, outages, missed>>

-----------------------------------------------------------------------------
(* The search engine.                                                      *)

Mark(p, isCurrent) == missed' = IF isCurrent THEN missed \ {p} ELSE missed \cup {p}

\* ensurePostsIndexSettings: asked once per process, a failure forgotten.
SettingsAfter(ok) == IF memo = "none" /\ ok THEN "resolved" ELSE memo

\* Variation: the document is added even when the settings were not pinned.
IndexAnyway(c, pins, adds) ==
  /\ calls[c].do = "index"
  /\ outages' = outages + (IF pins /\ adds THEN 0 ELSE 1) /\ outages' <= MaxOutages
  /\ memo' = SettingsAfter(pins)
  /\ settings' = IF memo = "none" /\ pins THEN "pinned" ELSE settings
  /\ documents' = IF adds THEN [documents EXCEPT ![calls[c].post] = calls[c].version]
                  ELSE documents
  /\ Mark(calls[c].post, adds /\ calls[c].version = Version(calls[c].post))
  /\ Then(c, Idle)
  /\ UNCHANGED <<posts, revisions, gone>>

\* indexPost: the settings, then the document; a failure of either is logged.
\* Two requests when the settings are not pinned yet, and either may fail.
Index(c, pins, adds) ==
  /\ calls[c].do = "index"
  /\ outages' = outages + (IF pins /\ adds THEN 0 ELSE 1) /\ outages' <= MaxOutages
  /\ memo # "none" => pins
  /\ memo' = SettingsAfter(pins)
  /\ settings' = IF memo = "none" /\ pins THEN "pinned" ELSE settings
  /\ LET p == calls[c].post  v == calls[c].version
         lands == memo' = "resolved" /\ adds
     IN /\ documents' = IF lands THEN [documents EXCEPT ![p] = v] ELSE documents
        /\ Mark(p, (lands \/ (pins /\ adds)) /\ v = Version(p))
  /\ Then(c, Idle)
  /\ UNCHANGED <<posts, revisions, gone>>

\* deletePost's second half.
Deindex(c, ok) ==
  /\ calls[c].do = "deindex"
  /\ outages' = outages + (IF ok THEN 0 ELSE 1) /\ outages' <= MaxOutages
  /\ documents' = IF ok THEN [documents EXCEPT ![calls[c].post] = 0] ELSE documents
  /\ Mark(calls[c].post, ok)
  /\ Then(c, Idle)
  /\ UNCHANGED <<posts, revisions, settings, memo, gone>>

\* reindexPosts, an admin's repair: all rows are read ...
StartRebuild(c) ==
  /\ calls[c] = Idle
  /\ Then(c, [do |-> "rebuild", docs |-> [p \in Post |-> Version(p)]])
  /\ UNCHANGED <<posts, revisions, engine, gone, outages, missed>>

\* ... the settings are pinned without the memo and what was read is added:
\* no document is dropped.
Rebuild(c, ok) ==
  /\ calls[c].do = "rebuild"
  /\ outages' = outages + (IF ok THEN 0 ELSE 1) /\ outages' <= MaxOutages
  /\ settings' = IF ok THEN "pinned" ELSE settings
  /\ LET docs == calls[c].docs  read == {p \in Post : docs[p] > 0} IN
       /\ documents' = IF ok THEN [p \in Post |-> IF p \in read THEN docs[p] ELSE documents[p]]
                       ELSE documents
       /\ missed' = IF ok THEN (missed \ {p \in read : docs[p] = Version(p)})
                               \cup {p \in read : docs[p] # Version(p)}
                    ELSE missed
  /\ Then(c, Idle)
  /\ UNCHANGED <<posts, revisions, memo, gone>>

\* The posts committed whose indexing is still to come.
Pending == {calls[c].post : c \in {d \in Call : calls[d].do \in {"index", "deindex"}}}

\* The process stops, between a commit and its indexing too: what its calls had
\* still to do is lost, and the new one has no memo.
Restart ==
  /\ memo # "none" \/ \E c \in Call : calls[c] # Idle
  /\ memo' = "none" /\ calls' = [c \in Call |-> Idle]
  /\ missed' = missed \cup Pending
  /\ UNCHANGED <<posts, revisions, documents, settings, gone, outages>>

Next ==
  \/ \E c \in Call :
       \/ \E a \in Author, o \in Org \cup {None}, t \in Title : StartCreate(c, a, o, t)
       \/ \E a \in Author, p \in Post : StartUpdate(c, a, p) \/ StartDelete(c, a, p)
       \/ Insert(c) \/ Update(c) \/ Abort(c) \/ Delete(c)
       \/ \E pins, adds \in BOOLEAN : Index(c, pins, adds)
       \/ \E ok \in BOOLEAN : Deindex(c, ok) \/ Rebuild(c, ok)
       \/ StartRebuild(c)
  \/ \E a \in Author : AuthorLeaves(a)
  \/ \E o \in Org : OrgGone(o)
  \/ Restart

Spec == Init /\ [][Next]_vars

-----------------------------------------------------------------------------
PostRow == [author : Author, org : Org \cup {None}, title : Title, version : 1 .. MaxVersion]

TypeOK ==
  /\ posts \in [Post -> PostRow \cup {None}]
  /\ revisions \in [Post -> SUBSET (1 .. MaxVersion)]
  /\ documents \in [Post -> 0 .. MaxVersion]
  /\ settings \in {"default", "pinned"} /\ memo \in {"none", "resolved", "rejected"}
  /\ gone \subseteq Author /\ missed \subseteq Post /\ outages \in 0 .. MaxOutages

\* A post never exists without its initial revision and vice versa (post.ts),
\* and every later write left one: across aborted saves, deletes that overtake
\* them, and accounts that leave in between.
HistoryIsWhole == \A p \in Post : revisions[p] = 1 .. Version(p)

\* When nothing is under way the engine holds exactly the posts, in their last
\* version, but for those whose own last indexing failed, was overtaken or was
\* lost with the process; a reindex brings back all of them that still exist.
SearchFollows ==
  (\A c \in Call : calls[c] = Idle) =>
    \A p \in Post \ missed : documents[p] = Version(p)

\* No document is written to an index that still has the engine's default
\* shape, whichever path creates it.
PinnedBeforeFirst == (\E p \in Post : documents[p] > 0) => settings = "pinned"

\* Deleting a user removes their posts (schema/posts.ts), from search too.
GoneMeansUnsearchable ==
  (\A c \in Call : calls[c] = Idle) /\ outages = 0 =>
    \A p \in Post : posts[p] = None => documents[p] = 0
-----------------------------------------------------------------------------
(* What holds of any number of posts, authors and calls.                     *)

\* What the theorems ask of the constants.
Bounds == None \notin PostRow /\ MaxVersion \in Nat \ {0} /\ MaxOutages \in Nat

\* What a call has still to do.
Task ==
  {Idle}
    \cup [do : {"insert"}, author : Author, org : Org \cup {None}, title : Title]
    \cup [do : {"update", "delete", "deindex"}, post : Post]
    \cup [do : {"index"}, post : Post, version : 1 .. MaxVersion]
    \cup [do : {"rebuild"}, docs : [Post -> 0 .. MaxVersion]]

CallsAreTyped == calls \in [Call -> Task]

\* The engine holds the post as it is, or a call is about to bring it there, or
\* to take it out once it is gone.
Followed(p) ==
  \/ documents[p] = Version(p)
  \/ \E c \in Call : calls[c].do = "index" /\ calls[c].post = p /\ calls[c].version = Version(p)
  \/ \E c \in Call : calls[c].do = "deindex" /\ calls[c].post = p

\* So it is with every post that is not missed; and a post is only
\* taken out once it is gone.
SearchCatchesUp ==
  /\ \A p \in Post \ missed : Followed(p)
  /\ \A c \in Call : calls[c].do = "deindex" => posts[calls[c].post] = None

\* The promise is kept only once the settings are pinned, and a failure is forgotten.
MemoIsEarned == memo # "rejected" /\ (memo = "resolved" => settings = "pinned")

BoardInv ==
  /\ TypeOK /\ CallsAreTyped /\ HistoryIsWhole
  /\ SearchCatchesUp /\ MemoIsEarned /\ PinnedBeforeFirst
=============================================================================

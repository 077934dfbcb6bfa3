-------------------------- MODULE NotificationFeed --------------------------
(***************************************************************************)
(* One user's notifications from the row to the screen: persist and then   *)
(* publish (server/notifications/create.ts), the event stream of one tab   *)
(* (api/notifications/stream/route.ts), the keyset pages and the unread    *)
(* count the tab fetches (trpc/routers/notification.ts) and the cache it   *)
(* keeps of both (components/notifications/notifications-feed.tsx).  A     *)
(* fetch reads the database at one instant and lands in the cache at       *)
(* another; a NOTIFY nobody hears is lost.                                 *)
(***************************************************************************)
EXTENDS Integers, FiniteSets, Sequences, Functions

CONSTANTS
  MaxRows,      \* bound: notifications; they are numbered in commit order
  PageSize,     \* NOTIFICATIONS_PAGE_SIZE
  MaxDrops,     \* bound: stream drops, bus gaps and crashed publishers
  MaxMarks,     \* bound: "mark all read" clicks
  NoFetch

Row == 1 .. MaxRows

VARIABLES
  rows, unread,     \* committed rows, and those not read
  unpublished,      \* committed, NOTIFY still to come
  busUp,            \* does the process's bus listen?
  stream,           \* "closed" or "open" at the server
  wire,             \* events on their way to the tab
  status,           \* "connecting", "live", "offline"
  connected,        \* hasConnected
  pages,            \* the cached list: [items, next], items newest first
  count,            \* the cached unread count
  listFetch,        \* the list in flight: NoFetch or the pages the server read
  countFetch,       \* the count in flight: NoFetch or the count the server read
  moreFetch,        \* "load more" in flight: NoFetch or the pages it will leave
  mark,             \* "idle", "sent" or "done" at the server, not yet here
  marks, drops,
  tainted           \* history: a race or a gap the feed does not repair by itself

server == <<rows, unread, unpublished, busUp>>
link   == <<stream, wire, status, connected>>
cache  == <<pages, count>>
fetch  == <<listFetch, countFetch, moreFetch>>
marking == <<mark, marks>>
vars   == <<server, link, cache, fetch, marking, drops, tainted>>

Item(id) == [id |-> id, read |-> id \notin unread]

\* A set of rows, newest first.
Newest(set) ==
  [i \in 1 .. Cardinality(set) |->
    CHOOSE r \in set : Cardinality({q \in set : q > r}) = i - 1]

Older(below) == {r \in rows : r < below}

\* The last row returned, when the probe row shows there is another page.
NextCursor(older) ==
  IF Cardinality(older) > PageSize THEN Newest(older)[PageSize] ELSE 0

\* notification.list: the rows older than the cursor, one more than the page
\* being read to learn whether there is another.
Page(below) ==
  LET older == Older(below)
      size  == IF Cardinality(older) < PageSize THEN Cardinality(older) ELSE PageSize
  IN [items |-> [i \in 1 .. size |-> Item(Newest(older)[i])], next |-> NextCursor(older)]

\* getNextPageParam looks at the last page loaded.
Last(ps) == ps[Len(ps)]

HasMore == Last(pages).next # 0

\* A refetch of the list walks the pages again from the top, each from the
\* cursor of the one before.
ServerPages(n) ==
  LET walk[i \in 1 .. n] ==
        IF i = 1 THEN <<Page(MaxRows + 1)>>
        ELSE IF Last(walk[i - 1]).next = 0 THEN walk[i - 1]
        ELSE Append(walk[i - 1], Page(Last(walk[i - 1]).next))
  IN walk[n]

Ids(ps) == UNION {{p.items[i].id : i \in DOMAIN p.items} : p \in Range(ps)}

Init ==
  /\ rows = {} /\ unread = {} /\ unpublished = {} /\ busUp = TRUE
  /\ stream = "closed" /\ wire = <<>> /\ status = "connecting" /\ connected = FALSE
  /\ pages = <<[items |-> <<>>, next |-> 0]>> /\ count = 0      \* hydrated from the server's render
  /\ listFetch = NoFetch /\ countFetch = NoFetch /\ moreFetch = NoFetch
  /\ mark = "idle" /\ marks = 0 /\ drops = 0 /\ tainted = FALSE

-----------------------------------------------------------------------------
(* The server.                                                             *)

\* createNotifications: the insert commits before anything is published.
\* Before the tab's first open the page is still being rendered.
Create ==
  /\ connected /\ Cardinality(rows) < MaxRows
  /\ LET r == Cardinality(rows) + 1 IN
       /\ rows' = rows \cup {r} /\ unread' = unread \cup {r}
       /\ unpublished' = unpublished \cup {r}
  /\ UNCHANGED <<busUp, link, cache, fetch, marking, drops, tainted>>

\* publishNotifications: NOTIFY reaches the streams of a bus that listens.
Publish(r) ==
  /\ r \in unpublished
  /\ unpublished' = unpublished \ {r}
  /\ wire' = IF busUp /\ stream = "open" THEN Append(wire, r) ELSE wire
  /\ tainted' = (tainted \/ (~busUp /\ stream = "open"))
  /\ UNCHANGED <<rows, unread, busUp, stream, status, connected, cache, fetch, marking, drops>>

\* The publisher dies between its commit and its NOTIFY.
Unpublished(r) ==
  /\ r \in unpublished /\ drops < MaxDrops
  /\ unpublished' = unpublished \ {r} /\ drops' = drops + 1
  /\ tainted' = TRUE
  /\ UNCHANGED <<rows, unread, busUp, link, cache, fetch, marking>>

BusDrops ==
  /\ busUp /\ drops < MaxDrops
  /\ busUp' = FALSE /\ drops' = drops + 1
  /\ UNCHANGED <<rows, unread, unpublished, link, cache, fetch, marking, tainted>>

BusRecovers ==
  /\ ~busUp /\ busUp' = TRUE
  /\ UNCHANGED <<rows, unread, unpublished, link, cache, fetch, marking, drops, tainted>>

-----------------------------------------------------------------------------
(* The tab.                                                                *)

\* invalidateQueries cancels the fetch in flight and starts another one.
RefetchList  == listFetch' = ServerPages(Len(pages)) /\ moreFetch' = NoFetch
RefetchCount == countFetch' = Cardinality(unread)

\* onopen: a later open is a reconnect, what was missed is fetched.
Open ==
  /\ stream = "closed" /\ stream' = "open" /\ status' = "live" /\ connected' = TRUE
  /\ IF connected THEN RefetchList /\ RefetchCount
                  ELSE UNCHANGED fetch
  /\ UNCHANGED <<server, wire, cache, marking, drops, tainted>>

\* The connection drops with what was on it; the tab retries by itself.
StreamDrops ==
  /\ stream = "open" /\ drops < MaxDrops
  /\ stream' = "closed" /\ wire' = <<>> /\ status' = "offline" /\ drops' = drops + 1
  /\ UNCHANGED <<server, connected, cache, fetch, marking, tainted>>

OnTop(r) == [Head(pages) EXCEPT !.items = <<[id |-> r, read |-> FALSE]>> \o @]

\* Variation: only the first page is searched for the row.
PrependUnlessOnTop(r) ==
  IF r \in Ids(<<Head(pages)>>) THEN pages ELSE <<OnTop(r)>> \o Tail(pages)

\* Dedupe over all pages, then prepend to the first.
Prepend(r) == IF r \in Ids(pages) THEN pages ELSE <<OnTop(r)>> \o Tail(pages)

\* A notification event.  A fetch or a mark in flight will overwrite it; a row
\* pushed late, older than the last page's cursor, is paged in again.
Receive ==
  /\ wire # <<>> /\ wire' = Tail(wire)
  /\ pages' = Prepend(Head(wire)) /\ RefetchCount
  /\ tainted' = (tainted \/ listFetch # NoFetch \/ moreFetch # NoFetch \/ mark # "idle"
                         \/ Head(wire) < Last(pages).next)
  /\ UNCHANGED <<server, stream, status, connected, count, listFetch, moreFetch, marking, drops>>

ListArrives ==
  /\ listFetch # NoFetch
  /\ pages' = listFetch /\ listFetch' = NoFetch
  /\ UNCHANGED <<server, link, count, countFetch, moreFetch, marking, drops, tainted>>

CountArrives ==
  /\ countFetch # NoFetch
  /\ count' = countFetch /\ countFetch' = NoFetch
  /\ UNCHANGED <<server, link, pages, listFetch, moreFetch, marking, drops, tainted>>

\* The answer to a test notification, when the stream is not live: refetch.
SendFallsBack ==
  /\ status # "live" /\ rows # {}
  /\ RefetchList /\ RefetchCount
  /\ UNCHANGED <<server, link, cache, marking, drops, tainted>>

\* Load more: the button is disabled while a page is being fetched, and a
\* refetch under way is cancelled.  What arrives is the list as it was when
\* the page was asked for, and the page.
AskMore ==
  /\ HasMore /\ moreFetch = NoFetch
  /\ moreFetch' = Append(pages, Page(Last(pages).next)) /\ listFetch' = NoFetch
  /\ tainted' = (tainted \/ listFetch # NoFetch \/ mark # "idle")
  /\ UNCHANGED <<server, link, cache, countFetch, marking, drops>>

MoreArrives ==
  /\ moreFetch # NoFetch
  /\ pages' = moreFetch /\ moreFetch' = NoFetch
  /\ UNCHANGED <<server, link, count, listFetch, countFetch, marking, drops, tainted>>

\* markAllRead: asked, done in the database, known to the tab.  A fetch that
\* read before the update lands after it.
AskMark ==
  /\ mark = "idle" /\ marks < MaxMarks
  /\ mark' = "sent" /\ marks' = marks + 1
  /\ tainted' = (tainted \/ fetch # <<NoFetch, NoFetch, NoFetch>>)
  /\ UNCHANGED <<server, link, cache, fetch, drops>>

MarkCommits ==
  /\ mark = "sent" /\ mark' = "done"
  /\ unread' = {}
  /\ tainted' = (tainted \/ fetch # <<NoFetch, NoFetch, NoFetch>>
                         \/ wire # <<>> \/ unpublished # {})
  /\ UNCHANGED <<rows, unpublished, busUp, link, cache, fetch, marks, drops>>

AllRead(ps) ==
  [p \in DOMAIN ps |-> [ps[p] EXCEPT
    !.items = [i \in DOMAIN @ |-> [@[i] EXCEPT !.read = TRUE]]]]

MarkSucceeds ==
  /\ mark = "done" /\ mark' = "idle"
  /\ pages' = AllRead(pages)
  /\ count' = 0
  /\ tainted' = (tainted \/ unread # {} \/ fetch # <<NoFetch, NoFetch, NoFetch>>)
  /\ UNCHANGED <<server, link, fetch, marks, drops>>

Tab == Open \/ StreamDrops \/ Receive \/ ListArrives \/ CountArrives
       \/ SendFallsBack \/ AskMore \/ MoreArrives \/ AskMark \/ MarkSucceeds

Next ==
  \/ Create \/ \E r \in Row : Publish(r) \/ Unpublished(r)
  \/ BusDrops \/ BusRecovers \/ MarkCommits \/ Tab

Spec == Init /\ [][Next]_vars

-----------------------------------------------------------------------------
TypeOK ==
  /\ rows \subseteq Row /\ unread \subseteq rows /\ unpublished \subseteq rows
  /\ status \in {"connecting", "live", "offline"} /\ stream \in {"open", "closed"}
  /\ Range(wire) \subseteq Row /\ count \in 0 .. MaxRows
  /\ mark \in {"idle", "sent", "done"} /\ drops \in 0 .. MaxDrops

\* No two of a list's rows are the same.
Distinct(ps) ==
  \A p, q \in DOMAIN ps : \A i \in DOMAIN ps[p].items, j \in DOMAIN ps[q].items :
    ps[p].items[i].id = ps[q].items[j].id => p = q /\ i = j

\* A list's rows are marked read if they are.
MarkedRight(ps) ==
  \A p \in DOMAIN ps : \A i \in DOMAIN ps[p].items :
    ps[p].items[i] = Item(ps[p].items[i].id)

\* The tab shows no notification twice, whatever pages, pushes and refetches
\* bring the same row.  Not claimed after a push older than the last cursor.
NoRowTwice == ~tainted => Distinct(pages)

Quiet == /\ listFetch = NoFetch /\ countFetch = NoFetch /\ moreFetch = NoFetch
         /\ wire = <<>> /\ unpublished = {} /\ stream = "open" /\ mark = "idle"

\* A live feed at rest tells the truth, stream drops included: the rows shown
\* are all rows down to the last one shown, with their read marks, and the
\* badge counts the unread ones.  Not claimed after what the feed does not
\* repair: a NOTIFY lost while the stream stayed open (the bus reconnecting,
\* a publisher that died), a push or a mark that a fetch begun earlier
\* overwrites, and a backfill that "load more" cancels.
RestingFeedIsTrue ==
  Quiet /\ ~tainted =>
    /\ Ids(pages) = {r \in rows : Ids(pages) # {} /\ \E i \in Ids(pages) : i <= r}
    /\ rows # {} => Ids(pages) # {}
    /\ MarkedRight(pages)
    /\ count = Cardinality(unread)

\* The badge is the authoritative server count, kept in lockstep with the list
\* (notifications-feed.tsx), whenever the feed is at rest and nothing was lost.
BadgeIsAuthoritative ==
  Quiet /\ drops = 0 => count = Cardinality(unread)

-----------------------------------------------------------------------------
(* What holds of any number of rows, pages and drops.                       *)

Pages == [items : Seq([id : Row, read : BOOLEAN]), next : 0 .. MaxRows]

\* What the theorems ask of the constants.
Bounds ==
  /\ MaxRows \in Nat /\ PageSize \in Nat \ {0} /\ MaxDrops \in Nat
  /\ NoFetch \notin Nat /\ NoFetch \notin Seq(Pages)

\* A list of pages: rows that exist, none twice, none older than the cursor it ends at.
Sound(ps) ==
  /\ ps \in Seq(Pages) /\ ps # <<>> /\ Distinct(ps)
  /\ Ids(ps) \subseteq rows /\ Last(ps).next \in rows \cup {0}
  /\ \A r \in Ids(ps) : r >= Last(ps).next

\* It misses no row down to that cursor, but those the tab is still to hear of.
Covers(ps) ==
  \A r \in rows : r >= Last(ps).next => r \in Ids(ps) \cup unpublished \cup Range(wire)

InFlightIsFresh(ps) ==
  ps # NoFetch => Sound(ps) /\ MarkedRight(ps) /\ (stream = "open" => Covers(ps))

CountToCome == IF countFetch = NoFetch THEN count ELSE countFetch

FeedIsTyped ==
  /\ TypeOK /\ rows = 1 .. Cardinality(rows)
  /\ wire \in Seq(Row) /\ countFetch \in 0 .. MaxRows \cup {NoFetch}
  /\ tainted \in BOOLEAN /\ connected \in BOOLEAN

\* What the lists say.
ListsAreTrue ==
  /\ Sound(pages)
  /\ mark # "done" => MarkedRight(pages)
  /\ stream = "open" /\ listFetch = NoFetch => Covers(pages)
  /\ InFlightIsFresh(listFetch) /\ InFlightIsFresh(moreFetch)

\* What is still to be heard of is unread, and the count is right once it has been heard.
CountIsTrue ==
  /\ unpublished \cup Range(wire) \subseteq unread
  /\ stream = "open" /\ unpublished = {} /\ wire = <<>> /\ mark # "done"
     => CountToCome = Cardinality(unread)
  /\ ~connected => rows = {} /\ count = 0 /\ countFetch = NoFetch

FeedInv == FeedIsTyped /\ (~tainted => ListsAreTrue /\ CountIsTrue)
=============================================================================

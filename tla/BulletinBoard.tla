--------------------------- MODULE BulletinBoard ---------------------------
(***************************************************************************)
(* The bulletin board of project/: board_router and send_router over one   *)
(* CategoryManager and one ConnectionManager for each category, the        *)
(* GlobalCategoryManager that owns them and the sqlite tables behind them. *)
(*                                                                         *)
(* One process, one event loop.  A websocket handler runs for each socket  *)
(* and a request handler for each submitted ad; an action runs a handler   *)
(* from one await to the next, so the sqlite calls, which do not await,    *)
(* are inside the action that makes them.  The process may end at any      *)
(* point; what execute_command has committed survives.                     *)
(***************************************************************************)
EXTENDS ActiveConnections, Sequences

CONSTANTS
    Categories, NoCategory,
    Ads, NoAd,          \* the ads submitted with POST /send/, one request each
    Refused,            \* the ads whose text breaks the SQL it is pasted into
    Texts,              \* what boards write to their websocket
    MaxCrashes          \* bounds the ends of the process

ASSUME BulletinAssumption ==
    /\ NoCategory \notin Categories
    /\ NoAd \notin Ads
    /\ Refused \subseteq Ads
    /\ Ads \cap Texts = {}
    /\ MaxCrashes \in Nat

VARIABLES
    rows,       \* categories table: the rows with a category's name
    store,      \* ads table: the ads of a category, in insertion order
    up,         \* the process is running
    crashes,
    known,      \* the keys of GlobalCategoryManager.category_managers
    ads,        \* CategoryManager.ads, for each category
    boards,     \* CategoryManager.boards
    table,      \* CategoryManager.connection_manager.active_connections
    pc,         \* where the handler of a socket is
    joined,     \* the category a handler works for
    idx,        \* the ads its replay has taken from the list
    at,         \* the socket its replay has last written to, until it is over
    client,     \* the far end of a socket
    got,        \* how many copies of an ad a socket has been written
    shown,      \* the ad the page at the far end shows as current
    sentTo,     \* the category of a request
    casts,      \* the broadcast of a request
    overtaken   \* ads whose broadcast was running when a newer one began

durable == <<rows, store>>
process == <<up, crashes>>
managers == <<known, ads, boards, table>>
handlers == <<pc, joined, idx, at>>
pages == <<client, got, shown>>
requests == <<sentTo, casts, overtaken>>
vars == <<durable, process, managers, handlers, pages, requests>>

-----------------------------------------------------------------------------
Contents(s) == {s[i] : i \in DOMAIN s}

(* A category without a manager has the values its manager starts with.    *)
Init ==
    /\ rows = [c \in Categories |-> 0]
    /\ store = [c \in Categories |-> <<>>]
    /\ up = TRUE
    /\ crashes = 0
    /\ known = {}
    /\ ads = [c \in Categories |-> <<>>]
    /\ boards = [c \in Categories |-> {}]
    /\ table = [c \in Categories |-> EmptyTable]
    /\ pc = [w \in Sockets |-> "new"]
    /\ joined = [w \in Sockets |-> NoCategory]
    /\ idx = [w \in Sockets |-> 0]
    /\ at = [w \in Sockets |-> NoSocket]
    /\ client = [w \in Sockets |-> "new"]
    /\ got = [w \in Sockets |-> [a \in Ads |-> 0]]
    /\ shown = [w \in Sockets |-> NoAd]
    /\ sentTo = [a \in Ads |-> NoCategory]
    /\ casts = [a \in Ads |-> NoCast]
    /\ overtaken = {}

(* Mutations: a row for every call; an ad stored only with a new category; *)
(* an ad that replaces the ones stored before; nothing loaded at a start.  *)
RowsAlwaysWith(c) == [rows EXCEPT ![c] = @ + 1]
StoreIfNewWith(c, a) == [store EXCEPT ![c] = IF c \in known THEN @ ELSE Append(@, a)]
StoreOnlyWith(c, a) == [store EXCEPT ![c] = <<a>>]
LoadedNone(c) == <<>>

(* add_category, from get_category_manager: a row if there is no manager.  *)
RowsWith(c) == [rows EXCEPT ![c] = IF c \in known THEN @ ELSE @ + 1]

(* add_ad, committed.                                                      *)
StoreWith(c, a) == [store EXCEPT ![c] = Append(@, a)]

(* get_ads_by_category                                                     *)
Loaded(c) == IF rows[c] > 0 THEN store[c] ELSE <<>>

(* get_categories                                                          *)
KnownAtStart == {c \in Categories : rows[c] > 0}

(* get_category_manager: a new category gets its row and its manager.      *)
GetCategoryManager(c) ==
    /\ known' = known \cup {c}
    /\ rows' = RowsWith(c)

(* send_json: written to the socket at once, lost if its far end is gone.  *)
Send(W, a) ==
    /\ got' = [w \in Sockets |->
                 IF w \in W /\ client[w] = "open"
                 THEN [got[w] EXCEPT ![a] = @ + 1] ELSE got[w]]
    /\ shown' = [w \in Sockets |->
                   IF w \in W /\ client[w] = "open" THEN a ELSE shown[w]]

(* An exception nobody catches ends the handler; the server closes the     *)
(* socket, and its entry stays where it is.                                *)
Die(w) ==
    /\ pc' = [pc EXCEPT ![w] = "dead"]
    /\ client' = [client EXCEPT ![w] = "closed"]

-----------------------------------------------------------------------------
(* The handler of a socket.                                                *)

(* websocket_endpoint and add_to_category up to accept's await.            *)
Join(w, c) ==
    /\ up
    /\ pc[w] = "new"
    /\ GetCategoryManager(c)
    /\ boards' = [boards EXCEPT ![c] = @ \cup {BoardOf[w]}]
    /\ pc' = [pc EXCEPT ![w] = "accepting"]
    /\ joined' = [joined EXCEPT ![w] = c]
    /\ client' = [client EXCEPT ![w] = "open"]
    /\ UNCHANGED <<store, process, ads, table, idx, at, got, shown, requests>>

(* accept raises: outside the try, so the board id stays in boards.        *)
AcceptFails(w) ==
    /\ pc[w] = "accepting"
    /\ client[w] = "closed"
    /\ Die(w)
    /\ UNCHANGED <<durable, process, managers, joined, idx, at, got, shown, requests>>

(* Mutations: the replay stops short of the last ad; or runs backwards.    *)
ReplayEndsEarly(history, i) == i + 1 >= Len(history)
ReplaysBackwards(history, i) == history[Len(history) - i]

(* The list iterator of the replay sees what is appended meanwhile.        *)
ReplayEnds(history, i) == i = Len(history)
ReplayNext(history, i) == history[i + 1]

(* One turn of `for ad in self.ads` over table t, i ads taken so far: the  *)
(* ad goes to whichever socket is registered under the handler's board id. *)
(* Without one, send_to_board logs the KeyError, for every ad that is left;*)
(* a str in the list has no attribute text.                                *)
Replay(w, t, i) ==
    LET history == ads[joined[w]]
        holders == Holders(t, BoardOf[w])
    IN  \/ /\ ReplayEnds(history, i) \/ holders = {}
           /\ pc' = [pc EXCEPT ![w] = "receiving"]
           /\ idx' = [idx EXCEPT ![w] = Len(history)]
           /\ at' = [at EXCEPT ![w] = NoSocket]
           /\ UNCHANGED pages
        \/ /\ ~ReplayEnds(history, i)
           /\ holders # {}
           /\ ReplayNext(history, i) \in Texts
           /\ Die(w)
           /\ UNCHANGED <<idx, at, got, shown>>
        \/ /\ ~ReplayEnds(history, i)
           /\ ReplayNext(history, i) \in Ads
           /\ \E v \in holders :
                 /\ Send({v}, ReplayNext(history, i))
                 /\ at' = [at EXCEPT ![w] = v]
           /\ pc' = [pc EXCEPT ![w] = "replaying"]
           /\ idx' = [idx EXCEPT ![w] = i + 1]
           /\ UNCHANGED client

(* connect after accept: the entry is written and the replay begins.       *)
Connect(w) ==
    LET c == joined[w]
    IN  /\ pc[w] = "accepting"
        /\ \E t \in Puts(table[c], w) :
              /\ table' = [table EXCEPT ![c] = t]
              /\ Replay(w, t, 0)
        /\ casts' = [a \in Ads |->
              Disturbed(casts[a], sentTo[a] = c /\ NeedsRebuild(table[c], w))]
        /\ UNCHANGED <<durable, process, known, ads, boards, joined, sentTo, overtaken>>

ReplayTurn(w) ==
    /\ pc[w] = "replaying"
    /\ Replay(w, table[joined[w]], idx[w])
    /\ UNCHANGED <<durable, process, managers, joined, requests>>

(* The awaited send raises, still outside the try.                         *)
ReplayRaises(w) ==
    /\ pc[w] = "replaying"
    /\ client[at[w]] = "closed"
    /\ Die(w)
    /\ UNCHANGED <<durable, process, managers, joined, idx, at, got, shown, requests>>

(* receive_text returns: the str is broadcast as if it were an Ad.  It is  *)
(* in the history before the loop raises at the first connection.          *)
ReceiveText(w, x) ==
    LET c == joined[w]
    IN  /\ pc[w] = "receiving"
        /\ \A d \in Categories : x \notin Contents(ads[d])
        /\ ads' = [ads EXCEPT ![c] = Append(@, x)]
        /\ IF Active(table[c]) = {} THEN UNCHANGED <<pc, client>> ELSE Die(w)
        /\ UNCHANGED <<durable, process, known, boards, table, joined, idx, at,
                       got, shown, requests>>

(* A mutation: boards.clear() for boards.discard(board_id).                *)
ClearedOf(B, b) == {}

DiscardedFrom(B, b) == B \ {b}

(* receive_text raises WebSocketDisconnect: remove_from_category.  When    *)
(* nobody holds the board id any more, pop raises after the discard.       *)
HandleDisconnect(w) ==
    LET c == joined[w]
        b == BoardOf[w]
    IN  /\ pc[w] = "receiving"
        /\ client[w] = "closed"
        /\ boards' = [boards EXCEPT ![c] = DiscardedFrom(@, b)]
        /\ table' = [table EXCEPT ![c] = Popped(@, b)]
        /\ pc' = [pc EXCEPT ![w] = IF Holders(table[c], b) # {} THEN "gone" ELSE "dead"]
        /\ UNCHANGED <<durable, process, known, ads, joined, idx, at, pages, requests>>

(* The page is closed or unregisters, or the connection is lost.           *)
Close(w) ==
    /\ client[w] = "open"
    /\ client' = [client EXCEPT ![w] = "closed"]
    /\ UNCHANGED <<durable, process, managers, handlers, got, shown, requests>>

-----------------------------------------------------------------------------
(* The request that submits an ad.                                         *)

(* send_ad: the manager, the row of the ad, the history, then the first    *)
(* turn of the broadcast, all before the first await.                      *)
PostAd(a, c) ==
    /\ up
    /\ a \notin Refused
    /\ sentTo[a] = NoCategory
    /\ GetCategoryManager(c)
    /\ store' = StoreWith(c, a)
    /\ ads' = [ads EXCEPT ![c] = Append(@, a)]
    /\ sentTo' = [sentTo EXCEPT ![a] = c]
    /\ \E k \in Turns(table[c], Opened(table[c])) :
          /\ casts' = [casts EXCEPT ![a] = k]
          /\ Send(WrittenBy(k), a)
    /\ overtaken' = overtaken \cup
          {o \in Ads : sentTo[o] = c /\ casts[o].st = "sending"}
    /\ UNCHANGED <<process, boards, table, handlers, client>>

(* sqlite refuses the INSERT of the ad: the request fails, and the         *)
(* category it may have created stays.                                     *)
PostAdRefused(a, c) ==
    /\ up
    /\ a \in Refused
    /\ sentTo[a] = NoCategory
    /\ GetCategoryManager(c)
    /\ sentTo' = [sentTo EXCEPT ![a] = c]
    /\ UNCHANGED <<store, process, ads, boards, table, handlers, pages, casts, overtaken>>

BroadcastTurn(a) ==
    /\ casts[a].st = "sending"
    /\ \E k \in Turns(table[sentTo[a]], casts[a]) :
          /\ casts' = [casts EXCEPT ![a] = k]
          /\ Send(WrittenBy(k), a)
    /\ UNCHANGED <<durable, process, managers, handlers, client, sentTo, overtaken>>

(* A mutation: a send that raises although its far end is there.           *)
BroadcastRaisesAnyhow(a) ==
    /\ casts[a].st = "sending"
    /\ casts' = [casts EXCEPT ![a] = CutShort(@)]
    /\ UNCHANGED <<durable, process, managers, handlers, pages, sentTo, overtaken>>

(* The awaited send raises: the request fails, its ad stays stored.        *)
BroadcastRaises(a) ==
    /\ casts[a].st = "sending"
    /\ client[casts[a].at] = "closed"
    /\ casts' = [casts EXCEPT ![a] = CutShort(@)]
    /\ UNCHANGED <<durable, process, managers, handlers, pages, sentTo, overtaken>>

-----------------------------------------------------------------------------
(* The process ends: every handler, every request and the managers with it.*)
Stop ==
    /\ up
    /\ crashes < MaxCrashes
    /\ up' = FALSE
    /\ crashes' = crashes + 1
    /\ known' = {}
    /\ ads' = [c \in Categories |-> <<>>]
    /\ boards' = [c \in Categories |-> {}]
    /\ table' = [c \in Categories |-> EmptyTable]
    /\ pc' = [w \in Sockets |->
                IF pc[w] \in {"accepting", "replaying", "receiving"} THEN "dead" ELSE pc[w]]
    /\ client' = [w \in Sockets |-> IF client[w] = "open" THEN "closed" ELSE client[w]]
    /\ casts' = [a \in Ads |-> CutShort(casts[a])]
    /\ UNCHANGED <<joined, idx, at, got, shown, overtaken>>

Crash == Stop /\ UNCHANGED <<rows, store, sentTo>>

(* The process ends inside get_category_manager, called by either router:  *)
(* the row of the new category is committed, whoever asked may ask again.  *)
CrashInLookup(c) ==
    /\ c \notin known
    /\ Stop
    /\ rows' = RowsWith(c)
    /\ UNCHANGED <<store, sentTo>>

(* The process ends inside send_ad, each statement committed on its own:   *)
(* after the row of the category, or after the row of the ad.              *)
CrashInPostAd(a, c) ==
    /\ sentTo[a] = NoCategory
    /\ a \notin Refused
    /\ Stop
    /\ rows' = RowsWith(c)
    /\ store' = StoreWith(c, a) \/ UNCHANGED store
    /\ sentTo' = [sentTo EXCEPT ![a] = c]

(* A new process: load_category_managers_from_db.                          *)
Restart ==
    /\ ~up
    /\ up' = TRUE
    /\ known' = KnownAtStart
    /\ ads' = [c \in Categories |-> Loaded(c)]
    /\ UNCHANGED <<durable, crashes, boards, table, handlers, pages, requests>>

Next ==
    \/ \E w \in Sockets :
          \/ \E c \in Categories : Join(w, c)
          \/ Connect(w)
          \/ AcceptFails(w)
          \/ ReplayTurn(w)
          \/ ReplayRaises(w)
          \/ \E x \in Texts : ReceiveText(w, x)
          \/ HandleDisconnect(w)
          \/ Close(w)
    \/ \E a \in Ads :
          \/ \E c \in Categories : PostAd(a, c) \/ PostAdRefused(a, c) \/ CrashInPostAd(a, c)
          \/ BroadcastTurn(a)
          \/ BroadcastRaises(a)
    \/ Crash
    \/ \E c \in Categories : CrashInLookup(c)
    \/ Restart

Spec == Init /\ [][Next]_vars

(* The event loop resumes every coroutine whose await is over; it owes     *)
(* nothing to boards, users and the end of the process.                    *)
Fairness ==
    /\ \A w \in Sockets :
          /\ WF_vars(Connect(w) \/ AcceptFails(w))
          /\ WF_vars(ReplayTurn(w) \/ ReplayRaises(w))
          /\ WF_vars(HandleDisconnect(w))
    /\ \A a \in Ads : WF_vars(BroadcastTurn(a) \/ BroadcastRaises(a))

FairSpec == Spec /\ Fairness

-----------------------------------------------------------------------------
(* Type correctness of the tables, the managers and the handlers.          *)
TypeOK ==
    /\ rows \in [Categories -> Nat]
    /\ store \in [Categories -> Seq(Ads)]
    /\ up \in BOOLEAN
    /\ crashes \in 0..MaxCrashes
    /\ known \subseteq Categories
    /\ ads \in [Categories -> Seq(Ads \cup Texts)]
    /\ boards \in [Categories -> SUBSET Boards]
    /\ table \in [Categories -> Tables]
    /\ pc \in [Sockets -> {"new", "accepting", "replaying", "receiving", "gone", "dead"}]
    /\ joined \in [Sockets -> Categories \cup {NoCategory}]
    /\ \A w \in Sockets : joined[w] = NoCategory <=> pc[w] = "new"
    /\ idx \in [Sockets -> Nat]
    /\ at \in [Sockets -> Sockets \cup {NoSocket}]
    /\ client \in [Sockets -> {"new", "open", "closed"}]
    /\ got \in [Sockets -> [Ads -> Nat]]
    /\ shown \in [Sockets -> Ads \cup {NoAd}]
    /\ sentTo \in [Ads -> Categories \cup {NoCategory}]
    /\ casts \in [Ads -> Casts]
    /\ \A a \in Ads : sentTo[a] = NoCategory => casts[a] = NoCast
    /\ overtaken \subseteq Ads

(* The managers are a cache of the tables: while the process runs, every   *)
(* category has one row and one manager, and the manager's history is the  *)
(* ads stored for it, in order, whatever the boards wrote in between and   *)
(* wherever a process ended: the n-th ad of the history is the n-th stored.*)
AdPlaces(history) == {i \in DOMAIN history : history[i] \in Ads}

RankOf(i, history) == Cardinality({j \in AdPlaces(history) : j <= i})

CacheMatchesStore ==
    up => /\ known = KnownAtStart
          /\ \A c \in Categories :
                /\ Cardinality(AdPlaces(ads[c])) = Len(store[c])
                /\ \A i \in AdPlaces(ads[c]) : ads[c][i] = store[c][RankOf(i, ads[c])]

(* GlobalCategoryManager creates a category once: not again when it is     *)
(* joined or posted to under the same name, after a restart or after a     *)
(* crash between its row and its first ad.                                 *)
NoDuplicateCategory == \A c \in Categories : rows[c] <= 1

(* send_ad stores before it broadcasts: a board is only ever written an ad *)
(* that a restarted server would show as well, and of the board's own      *)
(* category.                                                               *)
ShownIsDurable ==
    \A w \in Sockets : \A a \in Ads :
        got[w][a] > 0 => /\ joined[w] \in Categories
                         /\ a \in Contents(store[joined[w]])

(* The ad will still come to w by its own replay, or by the ad's broadcast.*)
InReplay(w, a) ==
    /\ pc[w] = "replaying"
    /\ \E i \in DOMAIN ads[joined[w]] : i > idx[w] /\ ads[joined[w]][i] = a

InBroadcast(w, a) ==
    /\ sentTo[a] = joined[w]
    /\ casts[a].st = "sending"
    /\ table[joined[w]].slot[w] >= casts[a].pos

(* The broadcast began when w was registered, and was cut short or lost    *)
(* its place before it came to w.                                          *)
Missed(w, a) ==
    /\ w \in casts[a].audience \ casts[a].heard
    /\ casts[a].st \in {"aborted", "failed"} \/ casts[a].moved

(* A board that is connected and registered.                               *)
Listening(w) ==
    /\ client[w] = "open"
    /\ joined[w] # NoCategory
    /\ w \in Active(table[joined[w]])

(* add_to_category and broadcast together show a board the whole history:  *)
(* each ad of its category it has been written, or will be by the replay,  *)
(* or by the broadcast, even if the ad was submitted between two sends of  *)
(* the replay or the board registered between two sends of the broadcast.  *)
(* Only a broadcast that a board was in from the start can pass it by.     *)
NothingFallsBetween ==
    \A w \in Sockets : Listening(w) =>
        \A a \in Contents(ads[joined[w]]) \cap Ads :
            got[w][a] > 0 \/ InReplay(w, a) \/ InBroadcast(w, a) \/ Missed(w, a)

(* Where replay and broadcast overlap a board is written an ad twice, but  *)
(* no more than once by the broadcast and once by each handler that was    *)
(* opened for its board id in that category.                               *)
CopiesBounded ==
    \A w \in Sockets : \A a \in Ads :
        got[w][a] > 0 =>
            got[w][a] <= 1 + Cardinality({v \in Sockets : /\ joined[v] = joined[w]
                                                          /\ BoardOf[v] = BoardOf[w]})

(* The ad a board shows is the last one it was written by a replay to its  *)
(* board id that is still running, or that a text in the history broke off.*)
LeftByReplay(w) ==
    \E v \in Sockets :
        /\ joined[v] = joined[w] /\ BoardOf[v] = BoardOf[w] /\ at[v] = w
        /\ pc[v] \in {"replaying", "dead"}
        /\ idx[v] \in DOMAIN ads[joined[w]] /\ ads[joined[w]][idx[v]] = shown[w]

(* The page replaces the current ad with each message, so the order of the *)
(* writes matters: unless a replay has left it with the ad it shows, a     *)
(* board shows the newest ad of its category, or that one is still on its  *)
(* way or missed the board, or the one shown was overtaken: its broadcast  *)
(* was still running when a newer one began.                               *)
CurrentAdIsNewest ==
    \A w \in Sockets :
        Listening(w) /\ ~LeftByReplay(w) =>
           LET history == ads[joined[w]]
           IN  \A i \in DOMAIN history :
                  \/ history[i] \in Texts
                  \/ \E j \in i..Len(history) : history[j] = shown[w]
                  \/ InBroadcast(w, history[i])
                  \/ Missed(w, history[i])
                  \/ shown[w] \in overtaken

(* Boards never touch each other's bookkeeping: with an id nobody else     *)
(* uses, a board with an entry is in boards, and a handler that waits for  *)
(* an open connection has its entry.                                       *)
RegisteredBoardIsListed ==
    \A w \in Sockets : (\A v \in Sockets \ {w} : BoardOf[v] # BoardOf[w]) =>
        /\ Listening(w) => BoardOf[w] \in boards[joined[w]]
        /\ pc[w] \in {"replaying", "receiving"} /\ client[w] = "open"
              => w \in Active(table[joined[w]])

(* What the test of add_to_category states, while the board stays: a board *)
(* that was added is in boards, and active_connections has a socket for    *)
(* its id.                                                                 *)
AddedBoardIsRegistered ==
    \A w \in Sockets :
        pc[w] \in {"replaying", "receiving"} /\ client[w] = "open"
            => /\ BoardOf[w] \in boards[joined[w]]
               /\ Holders(table[joined[w]], BoardOf[w]) # {}

(* The ads table only grows, through requests, failures and restarts.      *)
StoreOnlyGrows ==
    [][\A c \in Categories :
          /\ Len(store'[c]) >= Len(store[c])
          /\ \A i \in DOMAIN store[c] : store'[c][i] = store[c][i]]_vars

-----------------------------------------------------------------------------
(* Every ad of its history reaches a board that stays: it is written, or   *)
(* the board leaves or loses its entry, or its broadcast has missed it.    *)
EveryAdArrives ==
    \A w \in Sockets : \A a \in Ads :
        Listening(w) /\ a \in Contents(ads[joined[w]])
            ~> got[w][a] > 0 \/ ~Listening(w) \/ Missed(w, a)

(* The handler of a connection that is closed ends, and unless it died of  *)
(* an exception it takes its entry along.                                  *)
ClosedConnectionIsRemoved ==
    \A w \in Sockets :
        joined[w] # NoCategory /\ client[w] = "closed"
            ~> \/ pc[w] = "dead"
               \/ pc[w] = "gone" /\ w \notin Active(table[joined[w]])

-----------------------------------------------------------------------------
(* What the README asks of the server, "Concurrent handling of multiple    *)
(* clients", for the broadcast of an ad: when its loop is over, each board *)
(* that was registered when it began and still listens has been written    *)
(* to, whichever other boards came and went meanwhile.                     *)
BroadcastServesAllClients ==
    \A a \in Ads : casts[a].st \in {"done", "aborted"} =>
        \A w \in casts[a].audience : Listening(w) => w \in casts[a].heard

-----------------------------------------------------------------------------
(* The board keeps the promise of AdFeed: what is stored is published, and *)
(* what was written to an open socket is seen.                             *)
Feed == INSTANCE AdFeed WITH
    published <- store,
    subscribed <- joined,
    seen <- [w \in Sockets |-> {a \in Ads : got[w][a] > 0}]

FeedSpec == Feed!Spec
=============================================================================

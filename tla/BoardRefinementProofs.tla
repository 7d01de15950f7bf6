----------------------- MODULE BoardRefinementProofs -----------------------
(***************************************************************************)
(* The bulletin board implements what its users are promised, AdFeed, and  *)
(* each of its categories the ConnectionManager that module describes for  *)
(* any caller: the initial states map to initial states, and every step to *)
(* a step or to none.                                                      *)
(***************************************************************************)
EXTENDS CategoryRegistry, DeliveryProofs

(* What the steps of the board need to be known of, to be steps of AdFeed. *)
FeedInv == Typed /\ Durable /\ StoredWasSent

(* What a socket has been written.                                         *)
Seen == [w \in Sockets |-> {a \in Ads : got[w][a] > 0}]

-----------------------------------------------------------------------------
(* An ad that is written to a socket is seen there, if it is open.         *)
LEMMA SendIsSeen ==
    ASSUME TypeOK, NEW v \in Sockets, NEW a \in Ads, Send({v}, a)
    PROVE  Seen' = Seen \/ Seen' = [Seen EXCEPT ![v] = @ \cup {a}]
<1>1. /\ \A w \in Sockets : got[w] \in [Ads -> Nat]
      /\ \A w \in Sockets, b \in Ads : got[w][b] \in Nat
  BY DEF TypeOK
<1>2. \A w \in Sockets : got'[w] = IF w = v /\ client[w] = "open"
                                   THEN [got[w] EXCEPT ![a] = @ + 1] ELSE got[w]
  BY DEF Send
<1>3. CASE client[v] = "open"
  <2>1. ASSUME NEW w \in Sockets
        PROVE  {b \in Ads : got'[w][b] > 0}
                  = IF w = v THEN {b \in Ads : got[w][b] > 0} \cup {a}
                    ELSE {b \in Ads : got[w][b] > 0}
    <3>1. CASE w # v
      BY <1>2, <3>1
    <3>2. CASE w = v
      <4>1. \A b \in Ads : got'[v][b] = IF b = a THEN got[v][b] + 1 ELSE got[v][b]
        BY <1>1, <1>2, <1>3
      <4>2. \A b \in Ads : got'[v][b] > 0 <=> got[v][b] > 0 \/ b = a
        BY <1>1, <4>1
      <4> QED BY <3>2, <4>2
    <3> QED BY <3>1, <3>2
  <2> QED BY <2>1 DEF Seen
<1>4. CASE client[v] # "open"
  BY <1>2, <1>4 DEF Seen
<1> QED BY <1>3, <1>4

(* What a turn of a replay writes, and to whom.                            *)
LEMMA ReplayWrites ==
    ASSUME Typed, [Next]_vars, NEW w \in Sockets, Connect(w) \/ ReplayTurn(w)
    PROVE  /\ joined[w] \in Categories /\ joined' = joined /\ store' = store
           /\ \/ got' = got
              \/ \E v \in Active(table'[joined[w]]) :
                    \E a \in Contents(ads[joined[w]]) \cap Ads : Send({v}, a)
<1> DEFINE c == joined[w]
           history == ads[c]
<1>1. /\ c \in Categories /\ joined' = joined /\ store' = store
      /\ history \in Seq(Ads \cup Texts)
  BY DEF Typed, Connect, ReplayTurn, TypeOK, durable
<1>2. PICK i \in 0..Len(history) : Replay(w, table'[c], i)
  <2>1. Len(history) \in Nat
    BY <1>1
  <2>2. CASE Connect(w)
    <3>1. PICK t \in Puts(table[c], w) : table' = [table EXCEPT ![c] = t] /\ Replay(w, t, 0)
      BY <2>2 DEF Connect
    <3>2. table'[c] = t
      BY <1>1, <3>1 DEF Typed, TypeOK
    <3> QED BY <2>1, <3>1, <3>2
  <2>3. CASE ReplayTurn(w)
    <3>1. table' = table /\ pc[w] = "replaying" /\ Replay(w, table[c], idx[w])
      BY <2>3 DEF ReplayTurn, managers
    <3>2. idx[w] \in 0..Len(history)
      BY <1>1, <2>1, <3>1 DEF Typed, HandlersRun, TypeOK
    <3> QED BY <3>1, <3>2
  <2> QED BY <2>2, <2>3
<1>3. CASE got' = got
  BY <1>1, <1>3
<1>4. ASSUME ~ReplayEnds(history, i), ReplayNext(history, i) \in Ads,
             NEW v \in Holders(table'[c], BoardOf[w]), Send({v}, ReplayNext(history, i))
      PROVE  \E u \in Active(table'[c]) : \E a \in Contents(history) \cap Ads : Send({u}, a)
  <2>1. i + 1 \in DOMAIN history
    BY <1>1, <1>4 DEF ReplayEnds
  <2>2. ReplayNext(history, i) \in Contents(history) \cap Ads
    BY <1>4, <2>1 DEF ReplayNext, Contents
  <2> QED BY <1>4, <2>2 DEF Holders
<1> QED BY <1>1, <1>2, <1>3, <1>4 DEF Replay, pages

(* What a turn of a broadcast writes, and to whom.                         *)
LEMMA TurnWrites ==
    ASSUME TypeOK, NEW t \in Tables, NEW k \in Casts, k.st = "sending",
           NEW n \in Turns(t, k), NEW a \in Ads, Send(WrittenBy(n), a)
    PROVE  UNCHANGED got \/ \E v \in Active(t) : Send({v}, a)
<1>1. WrittenBy(n) \subseteq Active(t)
  BY TurnTypes
<1>2. WrittenBy(n) = {} \/ WrittenBy(n) = {n.at}
  BY DEF WrittenBy
<1>3. CASE WrittenBy(n) = {n.at}
  BY <1>1, <1>3
<1>4. CASE WrittenBy(n) = {}
  BY <1>4 DEF Send, TypeOK
<1> QED BY <1>2, <1>3, <1>4

-----------------------------------------------------------------------------
(* An ad is published where it was sent, so one that was never sent has    *)
(* been published nowhere.                                                 *)
LEMMA UnsentIsUnpublished ==
    ASSUME StoredWasSent, NEW a \in Ads, sentTo[a] = NoCategory
    PROVE  \A d \in Categories : a \notin Contents(store[d])
BY BulletinAssumption DEF StoredWasSent

(* send_ad publishes, and the first turn of its broadcast may show the ad. *)
LEMMA PostAdPublishes ==
    ASSUME FeedInv, [Next]_vars, NEW a \in Ads, NEW c \in Categories, PostAd(a, c)
    PROVE  Feed!Publish(a, c)
<1>1. /\ TypeOK /\ table[c] \in Tables
      /\ store' = [store EXCEPT ![c] = Append(@, a)] /\ joined' = joined
      /\ \A d \in Categories : a \notin Contents(store[d])
  BY UnsentIsUnpublished DEF FeedInv, Typed, TypeOK, PostAd, StoreWith, handlers
<1>2. Opened(table[c]) \in Casts /\ Opened(table[c]).st = "sending"
  BY <1>1, OpenedFacts
<1>3. UNCHANGED got \/ \E v \in Active(table[c]) : Send({v}, a)
  BY <1>1, <1>2, TurnWrites DEF PostAd
<1>4. \/ UNCHANGED Seen
      \/ \E v \in Sockets : joined[v] = c /\ Seen' = [Seen EXCEPT ![v] = @ \cup {a}]
  <2>1. CASE UNCHANGED got
    BY <2>1 DEF Seen
  <2>2. ASSUME NEW v \in Active(table[c]), Send({v}, a)
        PROVE  \/ UNCHANGED Seen
               \/ v \in Sockets /\ joined[v] = c /\ Seen' = [Seen EXCEPT ![v] = @ \cup {a}]
    BY <1>1, <2>2, SendIsSeen DEF FeedInv, Typed, EntriesAreJoined, Active
  <2> QED BY <1>3, <2>1, <2>2
<1> QED BY <1>1, <1>4 DEF Feed!Publish, Feed!PublishedIn, Contents, Seen

(* A send to a board shows it an ad that is published in its category.     *)
LEMMA SendShows ==
    ASSUME FeedInv, [Next]_vars, NEW c \in Categories, NEW v \in Active(table'[c]),
           NEW a \in Ads, a \in Contents(store[c]), Send({v}, a),
           store' = store, joined' = joined
    PROVE  UNCHANGED Feed!feed \/ Feed!Show(v, a)
<1>1. v \in Sockets /\ joined[v] = c
  BY NextTyped DEF FeedInv, Typed, EntriesAreJoined, Active
<1>2. Seen' = Seen \/ Seen' = [Seen EXCEPT ![v] = @ \cup {a}]
  BY <1>1, SendIsSeen DEF FeedInv, Typed
<1> QED BY <1>1, <1>2 DEF Feed!feed, Feed!Show, Feed!PublishedIn, Contents, Seen

LEMMA QuietFeed ==
    ASSUME UNCHANGED <<store, joined, got>>
    PROVE  UNCHANGED Feed!feed
BY DEF Feed!feed

LEMMA FeedStep ==
    ASSUME FeedInv, [Next]_vars
    PROVE  [Feed!Next]_(Feed!feed)
<1>1. CASE UNCHANGED <<store, joined, got>>
  BY <1>1, QuietFeed
<1>2. ASSUME NEW w \in Sockets, NEW c \in Categories, Join(w, c)
      PROVE  Feed!Subscribe(w, c)
  BY <1>2 DEF Join, FeedInv, Typed, TypeOK, Feed!Subscribe
<1>3. ASSUME NEW w \in Sockets, Connect(w) \/ ReplayTurn(w)
      PROVE  UNCHANGED Feed!feed \/ \E v \in Sockets, a \in Ads : Feed!Show(v, a)
  <2>1. /\ joined[w] \in Categories /\ joined' = joined /\ store' = store
        /\ \/ got' = got
           \/ \E v \in Active(table'[joined[w]]) :
                 \E a \in Contents(ads[joined[w]]) \cap Ads : Send({v}, a)
    BY <1>3, ReplayWrites DEF FeedInv
  <2>2. Contents(ads[joined[w]]) \cap Ads \subseteq Contents(store[joined[w]])
    BY <2>1 DEF FeedInv, Durable, HistoryIsStored
  <2> QED BY <2>1, <2>2, QuietFeed, SendShows DEF Active
<1>4. ASSUME NEW a \in Ads, BroadcastTurn(a)
      PROVE  UNCHANGED Feed!feed \/ \E v \in Sockets : Feed!Show(v, a)
  <2> DEFINE c == sentTo[a]
  <2>1. /\ TypeOK /\ casts[a] \in Casts /\ casts[a].st = "sending"
        /\ c \in Categories /\ table[c] \in Tables
        /\ a \in Contents(store[c])
        /\ store' = store /\ joined' = joined /\ table' = table
    BY <1>4 DEF BroadcastTurn, FeedInv, Typed, TypeOK, NoCast, Durable, SentIsStored,
                durable, handlers, managers
  <2>2. UNCHANGED got \/ \E v \in Active(table[c]) : Send({v}, a)
    BY <1>4, <2>1, TurnWrites DEF BroadcastTurn
  <2> HIDE DEF c
  <2> QED BY <2>1, <2>2, QuietFeed, SendShows DEF Active
<1>5. ASSUME NEW a \in Ads, NEW c \in Categories, CrashInPostAd(a, c), store' = StoreWith(c, a)
      PROVE  Feed!Publish(a, c)
  <2>1. joined' = joined /\ got' = got /\ sentTo[a] = NoCategory
    BY <1>5 DEF CrashInPostAd, Stop
  <2> QED BY <1>5, <2>1, UnsentIsUnpublished
          DEF FeedInv, StoreWith, Feed!Publish, Feed!PublishedIn, Contents
<1>6. ASSUME NEW a \in Ads, NEW c \in Categories, PostAd(a, c)
      PROVE  Feed!Publish(a, c)
  BY <1>6, PostAdPublishes
<1>7. \/ UNCHANGED <<store, joined, got>>
      \/ \E w \in Sockets : \/ \E c \in Categories : Join(w, c)
                            \/ Connect(w) \/ ReplayTurn(w)
      \/ \E a \in Ads : \/ BroadcastTurn(a)
                        \/ \E c \in Categories : PostAd(a, c)
                        \/ \E c \in Categories :
                              CrashInPostAd(a, c) /\ store' = StoreWith(c, a)
  BY DEF Next, vars, durable, handlers, pages, AcceptFails, ReplayRaises, ReceiveText,
         HandleDisconnect, Close, PostAdRefused, CrashInPostAd, BroadcastRaises, Crash,
         CrashInLookup, Restart, Stop
<1> QED BY <1>1, <1>2, <1>3, <1>4, <1>5, <1>6, <1>7 DEF Feed!Next

(* The bulletin board implements AdFeed: an ad is published once and in    *)
(* one category, whatever fails or ends in between, and a display is shown *)
(* only what is published in the category it subscribed to.                *)
THEOREM ImplementsFeed == Spec => FeedSpec
<1>1. Init => FeedInv /\ Feed!Init
  <2> SUFFICES ASSUME Init PROVE FeedInv /\ Feed!Init
    OBVIOUS
  <2>1. FeedInv
    BY InitTyped DEF FeedInv, Init, Durable, HistoryIsStored, SentIsStored,
                     ShownIsDurable, StoredWasSent, Contents, NoCast
  <2>2. Feed!Init
    BY DEF Init, Feed!Init
  <2> QED BY <2>1, <2>2
<1>2. FeedInv /\ [Next]_vars => FeedInv'
  BY NextTyped, HistoryStep, SentStep, ShownStep, StoredWasSentStep DEF FeedInv, Durable
<1>3. FeedInv /\ [Next]_vars => [Feed!Next]_(Feed!feed)
  BY FeedStep
<1> QED BY <1>1, <1>2, <1>3, PTL DEF Spec, FeedSpec, Feed!Spec

-----------------------------------------------------------------------------
(* A far end is there from the moment its socket has a handler.            *)
ClientsStarted == \A w \in Sockets : client[w] = "new" <=> pc[w] = "new"

(* A broadcast awaits a socket that is, or was, registered in the category *)
(* the ad was sent to.                                                     *)
AwaitedIsJoined ==
    \A a \in Ads : casts[a].st = "sending" =>
        /\ casts[a].at \in Sockets
        /\ joined[casts[a].at] = sentTo[a]
        /\ pc[casts[a].at] \notin {"new", "accepting"}

(* What the steps of the board need to be known of, to be steps of the     *)
(* ConnectionManager.                                                      *)
RegistryInv == Typed /\ ClientsStarted /\ AwaitedIsJoined

(* A socket joins once.                                                    *)
LEMMA JoinedForGood ==
    ASSUME Typed, [Next]_vars, NEW w \in Sockets, pc[w] # "new"
    PROVE  joined'[w] = joined[w]
<1>1. joined \in [Sockets -> Categories \cup {NoCategory}]
  BY DEF Typed, TypeOK
<1>2. ASSUME NEW v \in Sockets, NEW c \in Categories, Join(v, c)
      PROVE  joined'[w] = joined[w]
  BY <1>1, <1>2 DEF Join
<1>3. joined' = joined \/ \E v \in Sockets, c \in Categories : Join(v, c)
  BY DEF Next, vars, handlers, Connect, AcceptFails, ReplayTurn, ReplayRaises,
         ReceiveText, HandleDisconnect, Close, PostAd, PostAdRefused, CrashInPostAd,
         BroadcastTurn, BroadcastRaises, Crash, CrashInLookup, Restart, Stop
<1> QED BY <1>2, <1>3

LEMMA ReplayMoves ==
    ASSUME Typed, NEW w \in Sockets, Connect(w) \/ ReplayTurn(w)
    PROVE  /\ pc[w] \in {"accepting", "replaying"}
           /\ \/ Die(w)
              \/ client' = client /\ pc' = [pc EXCEPT ![w] = "receiving"]
              \/ client' = client /\ pc' = [pc EXCEPT ![w] = "replaying"]
BY DEF Connect, ReplayTurn, Replay, pages

LEMMA ClientsStartedStep ==
    ASSUME Typed, ClientsStarted, [Next]_vars
    PROVE  ClientsStarted'
<1>1. /\ pc \in [Sockets -> {"new", "accepting", "replaying", "receiving", "gone", "dead"}]
      /\ client \in [Sockets -> {"new", "open", "closed"}]
  BY DEF Typed, TypeOK
<1>2. CASE UNCHANGED <<pc, client>>
  BY <1>2 DEF ClientsStarted
<1>3. ASSUME NEW w \in Sockets, NEW c \in Categories, Join(w, c)
      PROVE  ClientsStarted'
  BY <1>1, <1>3 DEF Join, ClientsStarted
<1>4. ASSUME NEW w \in Sockets, pc[w] # "new",
             \/ Die(w)
             \/ client' = client /\ \E s \in {"replaying", "receiving", "gone", "dead"} :
                                       pc' = [pc EXCEPT ![w] = s]
      PROVE  ClientsStarted'
  BY <1>1, <1>4 DEF Die, ClientsStarted
<1>5. ASSUME NEW w \in Sockets, Close(w)
      PROVE  ClientsStarted'
  BY <1>1, <1>5 DEF Close, handlers, ClientsStarted
<1>6. CASE Stop
  BY <1>1, <1>6 DEF Stop, ClientsStarted
<1>7. ASSUME NEW w \in Sockets,
             \/ Connect(w) \/ ReplayTurn(w)
             \/ AcceptFails(w) \/ ReplayRaises(w) \/ HandleDisconnect(w)
             \/ \E x \in Texts : ReceiveText(w, x)
      PROVE  ClientsStarted'
  <2>1. CASE Connect(w) \/ ReplayTurn(w)
    BY <1>4, <2>1, ReplayMoves
  <2>2. CASE AcceptFails(w) \/ ReplayRaises(w)
    BY <1>4, <2>2 DEF AcceptFails, ReplayRaises
  <2>3. CASE HandleDisconnect(w)
    BY <1>4, <2>3 DEF HandleDisconnect, pages
  <2>4. CASE \E x \in Texts : ReceiveText(w, x)
    BY <1>2, <1>4, <2>4 DEF ReceiveText
  <2> QED BY <1>7, <2>1, <2>2, <2>3, <2>4
<1>8. \/ UNCHANGED <<pc, client>>
      \/ \E w \in Sockets : \/ \E c \in Categories : Join(w, c)
                            \/ Close(w)
                            \/ Connect(w) \/ ReplayTurn(w)
                            \/ AcceptFails(w) \/ ReplayRaises(w) \/ HandleDisconnect(w)
                            \/ \E x \in Texts : ReceiveText(w, x)
      \/ Stop
  BY DEF Next, vars, handlers, pages, PostAd, PostAdRefused, CrashInPostAd,
         BroadcastTurn, BroadcastRaises, Crash, CrashInLookup, Restart
<1> QED BY <1>2, <1>3, <1>5, <1>6, <1>7, <1>8

(* The turn of a broadcast awaits a board that is registered.              *)
LEMMA TurnAwaits ==
    ASSUME NEW t \in Tables, NEW k \in Casts, k.st = "sending", NEW n \in Turns(t, k),
           n.st = "sending"
    PROVE  n.at \in Active(t)
BY TurnTypes DEF WrittenBy

LEMMA AwaitedStep ==
    ASSUME Typed, AwaitedIsJoined, [Next]_vars
    PROVE  AwaitedIsJoined'
<1> SUFFICES ASSUME NEW a \in Ads, casts'[a].st = "sending"
             PROVE  /\ casts'[a].at \in Sockets
                    /\ joined'[casts'[a].at] = sentTo'[a]
                    /\ pc'[casts'[a].at] \notin {"new", "accepting"}
  BY DEF AwaitedIsJoined
<1>1. /\ casts \in [Ads -> Casts] /\ sentTo \in [Ads -> Categories \cup {NoCategory}]
      /\ sentTo[a] = NoCategory => casts[a] = NoCast
      /\ NoCast.st # "sending"
      /\ table \in [Categories -> Tables]
  BY DEF Typed, TypeOK, NoCast
<1>2. ASSUME casts[a].st = "sending", casts'[a].at = casts[a].at, sentTo'[a] = sentTo[a]
      PROVE  /\ casts'[a].at \in Sockets
             /\ joined'[casts'[a].at] = sentTo'[a]
             /\ pc'[casts'[a].at] \notin {"new", "accepting"}
  BY <1>2, JoinedForGood, RegisteredForGood DEF AwaitedIsJoined
<1>3. ASSUME NEW c \in Categories, casts'[a].at \in Active(table[c]), sentTo'[a] = c
      PROVE  /\ casts'[a].at \in Sockets
             /\ joined'[casts'[a].at] = sentTo'[a]
             /\ pc'[casts'[a].at] \notin {"new", "accepting"}
  <2>1. /\ casts'[a].at \in Sockets /\ joined[casts'[a].at] = c
        /\ pc[casts'[a].at] \notin {"new", "accepting"}
    BY <1>3 DEF Typed, EntriesAreJoined, Active
  <2> QED BY <1>3, <2>1, JoinedForGood, RegisteredForGood
<1>4. CASE casts' = casts /\ sentTo'[a] = sentTo[a]
  BY <1>2, <1>4
<1>5. ASSUME casts' = casts, sentTo'[a] # sentTo[a],
             NEW b \in Ads, NEW c \in Categories, PostAdRefused(b, c)
      PROVE  FALSE
  BY <1>1, <1>5 DEF PostAdRefused
<1>6. ASSUME NEW w \in Sockets, Connect(w)
      PROVE  casts[a].st = "sending" /\ casts'[a].at = casts[a].at /\ sentTo'[a] = sentTo[a]
  BY <1>1, <1>6 DEF Connect, Disturbed, Casts
<1>7. ASSUME Stop PROVE FALSE
  <2>1. casts'[a] = CutShort(casts[a]) /\ casts[a] \in Casts
    BY <1>1, <1>7 DEF Stop
  <2> QED BY <2>1 DEF CutShort, Casts
<1>8. ASSUME NEW b \in Ads, b # a,
             BroadcastTurn(b) \/ BroadcastRaises(b) \/ \E c \in Categories : PostAd(b, c)
      PROVE  casts'[a] = casts[a] /\ sentTo'[a] = sentTo[a]
  BY <1>1, <1>8 DEF BroadcastTurn, BroadcastRaises, PostAd
<1>9. ASSUME BroadcastTurn(a)
      PROVE  sentTo'[a] \in Categories /\ casts'[a].at \in Active(table[sentTo'[a]])
  <2>1. sentTo[a] \in Categories /\ sentTo' = sentTo /\ casts[a].st = "sending"
    BY <1>1, <1>9 DEF BroadcastTurn
  <2>2. casts'[a] \in Turns(table[sentTo[a]], casts[a])
    BY <1>1, <1>9 DEF BroadcastTurn
  <2> QED BY <1>1, <2>1, <2>2, TurnAwaits
<1>10. ASSUME NEW c \in Categories, PostAd(a, c)
       PROVE  sentTo'[a] = c /\ casts'[a].at \in Active(table[c])
  <2>1. casts'[a] \in Turns(table[c], Opened(table[c])) /\ sentTo'[a] = c
    BY <1>1, <1>10 DEF PostAd
  <2> QED BY <1>1, <2>1, OpenedFacts, TurnAwaits
<1>11. ASSUME BroadcastRaises(a) PROVE FALSE
  <2>1. casts'[a] = CutShort(casts[a]) /\ casts[a] \in Casts
    BY <1>1, <1>11 DEF BroadcastRaises
  <2> QED BY <2>1 DEF CutShort, Casts
<1>12. \/ casts' = casts /\ sentTo'[a] = sentTo[a]
       \/ \E w \in Sockets : Connect(w)
       \/ \E b \in Ads : \/ BroadcastTurn(b) \/ BroadcastRaises(b)
                         \/ \E c \in Categories : PostAd(b, c)
       \/ casts' = casts /\ \E b \in Ads, c \in Categories : PostAdRefused(b, c)
       \/ Stop
  BY DEF Next, vars, requests, Join, AcceptFails, ReplayTurn, ReplayRaises, ReceiveText,
         HandleDisconnect, Close, PostAdRefused, CrashInPostAd, Crash, CrashInLookup,
         Restart
<1>13. CASE \E b \in Ads : \/ BroadcastTurn(b) \/ BroadcastRaises(b)
                           \/ \E c \in Categories : PostAd(b, c)
  BY <1>2, <1>3, <1>8, <1>9, <1>10, <1>11, <1>13
<1> QED BY <1>2, <1>4, <1>5, <1>6, <1>7, <1>12, <1>13

-----------------------------------------------------------------------------
(* The instance has operators of its own on tables and broadcasts, which   *)
(* are those the board uses.                                               *)
LEMMA SameCardinality == \A S : Registry!Cardinality(S) = Cardinality(S)
BY DEF Registry!Cardinality, Cardinality

LEMMA SameTables ==
    /\ Registry!EmptyTable = EmptyTable
    /\ \A t : Registry!Active(t) = Active(t)
    /\ \A t, b : Registry!Holders(t, b) = Holders(t, b)
    /\ \A t, b : Registry!Popped(t, b) = Popped(t, b)
    /\ \A t, w : Registry!NeedsRebuild(t, w) = NeedsRebuild(t, w)
    /\ \A t, w : Registry!Puts(t, w) = Puts(t, w)
<1>1. Registry!EmptyTable = EmptyTable
  BY DEF Registry!EmptyTable, EmptyTable
<1>2. \A t : Registry!Active(t) = Active(t)
  BY DEF Registry!Active, Active
<1>3. \A t, b : Registry!Holders(t, b) = Holders(t, b)
  BY <1>2 DEF Registry!Holders, Holders
<1>4. \A t, b : Registry!Popped(t, b) = Popped(t, b)
  BY DEF Registry!Popped, Popped
<1>5. \A t, w : Registry!NeedsRebuild(t, w) = NeedsRebuild(t, w)
  BY <1>3 DEF Registry!NeedsRebuild, NeedsRebuild
<1>6. \A t : Registry!Rebuilt(t) = Rebuilt(t)
  BY SameCardinality DEF Registry!Rebuilt, Rebuilt, Registry!Active, Active
<1>7. \A t, w : Registry!Appended(t, w) = Appended(t, w)
  BY DEF Registry!Appended, Appended
<1>8. \A t, v, w : Registry!Overwritten(t, v, w) = Overwritten(t, v, w)
  BY DEF Registry!Overwritten, Overwritten
<1>9. \A t, w : Registry!Puts(t, w) = Puts(t, w)
  BY <1>3, <1>5, <1>6, <1>7, <1>8 DEF Registry!Puts, Puts
<1> QED BY <1>1, <1>2, <1>3, <1>4, <1>5, <1>9

LEMMA SameCasts ==
    /\ Registry!NoCast = NoCast
    /\ \A k, r : Registry!Disturbed(k, r) = Disturbed(k, r)
    /\ \A k : Registry!CutShort(k) = CutShort(k)
    /\ \A t : Registry!Opened(t) = Opened(t)
    /\ \A t, k : Registry!Turns(t, k) = Turns(t, k)
<1>1. Registry!NoCast = NoCast
  BY DEF Registry!NoCast, NoCast
<1>2. \A k, r : Registry!Disturbed(k, r) = Disturbed(k, r)
  BY DEF Registry!Disturbed, Disturbed
<1>3. \A k : Registry!CutShort(k) = CutShort(k)
  BY DEF Registry!CutShort, CutShort
<1>4. \A t : Registry!Opened(t) = Opened(t)
  BY SameCardinality DEF Registry!Opened, Opened, Registry!Active, Active
<1>5. \A t, k : Registry!Ahead(t, k) = Ahead(t, k)
  BY SameTables DEF Registry!Ahead, Ahead
<1>6. \A t, k : Registry!NextUp(t, k) = NextUp(t, k)
  BY <1>5 DEF Registry!NextUp, NextUp
<1>7. ASSUME NEW t, NEW k PROVE Registry!Turns(t, k) = Turns(t, k)
  <2>1. /\ Registry!Active(t) = Active(t) /\ Registry!Ahead(t, k) = Ahead(t, k)
        /\ Registry!NextUp(t, k) = NextUp(t, k)
        /\ Registry!Cardinality(Active(t)) = Cardinality(Active(t))
    BY <1>5, <1>6, SameTables, SameCardinality
  <2> QED BY <2>1 DEF Registry!Turns, Turns
<1> QED BY <1>1, <1>2, <1>3, <1>4, <1>7

(* A step that leaves the category's registry, sockets and broadcasts.     *)
LEMMA QuietRegistry ==
    ASSUME table'[TheCategory] = table[TheCategory],
           RegistryClient' = RegistryClient, RegistryCasts' = RegistryCasts
    PROVE  UNCHANGED Registry!vars
BY DEF Registry!vars

(* A handler that is past its accept dies, or its socket is closed.        *)
LEMMA ClosingIsClose ==
    ASSUME RegistryInv, NEW w \in Sockets, pc[w] \notin {"new", "accepting"},
           table' = table, joined' = joined, RegistryCasts' = RegistryCasts,
           client' = [client EXCEPT ![w] = "closed"],
           \E s \in {pc[w], "dead"} : pc' = [pc EXCEPT ![w] = s]
    PROVE  UNCHANGED Registry!vars \/ Registry!Close(w)
<1>1. /\ pc \in [Sockets -> {"new", "accepting", "replaying", "receiving", "gone", "dead"}]
      /\ client \in [Sockets -> {"new", "open", "closed"}]
      /\ client[w] \in {"open", "closed"}
  BY DEF RegistryInv, Typed, TypeOK, ClientsStarted
<1>2. \A v \in Sockets : /\ pc'[v] = "accepting" <=> pc[v] = "accepting"
                         /\ client'[v] = IF v = w THEN "closed" ELSE client[v]
  BY <1>1
<1>3. CASE joined[w] = TheCategory /\ client[w] = "open"
  <2>1. RegistryClient[w] = "open" /\ RegistryClient' = [RegistryClient EXCEPT ![w] = "closed"]
    BY <1>2, <1>3 DEF RegistryClient
  <2> QED BY <2>1 DEF Registry!Close
<1>4. CASE ~(joined[w] = TheCategory /\ client[w] = "open")
  <2>1. RegistryClient' = RegistryClient
    BY <1>1, <1>2, <1>4 DEF RegistryClient
  <2> QED BY <2>1, QuietRegistry
<1> QED BY <1>3, <1>4

LEMMA ConnectIsConnect ==
    ASSUME RegistryInv, NEW w \in Sockets, Connect(w)
    PROVE  UNCHANGED Registry!vars \/ Registry!Connect(w)
<1> DEFINE c == joined[w]
           T == TheCategory
<1>1. /\ pc \in [Sockets -> {"new", "accepting", "replaying", "receiving", "gone", "dead"}]
      /\ client \in [Sockets -> {"new", "open", "closed"}]
      /\ client[w] \in {"open", "closed"} /\ pc[w] = "accepting"
      /\ table \in [Categories -> Tables] /\ c \in Categories /\ T \in Categories
      /\ joined' = joined /\ sentTo' = sentTo
  BY CategoryAssumption DEF RegistryInv, Typed, TypeOK, ClientsStarted, Connect
<1>2. PICK t \in Puts(table[c], w) : table' = [table EXCEPT ![c] = t]
  BY DEF Connect
<1>3. \A a \in Ads : casts'[a] =
         Disturbed(casts[a], sentTo[a] = c /\ NeedsRebuild(table[c], w))
  BY DEF Connect
<1>4. /\ pc'[w] # "accepting" /\ client'[w] \in {"open", "closed"}
      /\ \A v \in Sockets \ {w} : pc'[v] = pc[v] /\ client'[v] = client[v]
  <2>1. \/ Die(w)
        \/ client' = client /\ pc' = [pc EXCEPT ![w] = "receiving"]
        \/ client' = client /\ pc' = [pc EXCEPT ![w] = "replaying"]
    BY ReplayMoves DEF RegistryInv
  <2> QED BY <1>1, <2>1 DEF Die
<1>5. CASE c = T
  <2>1. /\ RegistryClient[w] = "new"
        /\ \E s \in {"open", "closed"} : RegistryClient' = [RegistryClient EXCEPT ![w] = s]
    BY <1>1, <1>4, <1>5 DEF RegistryClient
  <2>2. table'[T] \in Puts(table[T], w)
    BY <1>1, <1>2, <1>5
  <2>3. ASSUME NEW a \in Ads
        PROVE  RegistryCasts'[a] = Disturbed(RegistryCasts[a], NeedsRebuild(table[T], w))
    <3>1. CASE sentTo[a] = T
      <4>1. (sentTo[a] = c /\ NeedsRebuild(table[c], w)) = NeedsRebuild(table[T], w)
        BY <1>5, <3>1 DEF NeedsRebuild
      <4> QED BY <1>1, <1>3, <3>1, <4>1 DEF RegistryCasts
    <3>2. CASE sentTo[a] # T
      BY <1>1, <3>2 DEF RegistryCasts, Disturbed, NoCast
    <3> QED BY <3>1, <3>2
  <2>4. RegistryCasts' = [a \in Ads |-> Disturbed(RegistryCasts[a], NeedsRebuild(table[T], w))]
    BY <2>3 DEF RegistryCasts
  <2> QED BY <2>1, <2>2, <2>4, SameTables, SameCasts DEF Registry!Connect
<1>6. CASE c # T
  <2>1. table'[T] = table[T] /\ RegistryClient' = RegistryClient
    BY <1>1, <1>2, <1>4, <1>6 DEF RegistryClient
  <2>2. RegistryCasts' = RegistryCasts
    BY <1>1, <1>3, <1>6 DEF RegistryCasts, Disturbed
  <2> QED BY <2>1, <2>2, QuietRegistry
<1> QED BY <1>5, <1>6

(* A board id nobody holds has nothing to pop.                             *)
LEMMA PopNobody ==
    ASSUME NEW t \in Tables, NEW b, Holders(t, b) = {}
    PROVE  Popped(t, b) = t
<1>1. \A w \in Sockets : t.slot[w] \in Nat
  BY DEF Tables
<1>2. \A w \in Sockets : BoardOf[w] = b => t.slot[w] = 0
  BY <1>1 DEF Holders, Active
<1>3. [w \in Sockets |-> IF BoardOf[w] = b THEN 0 ELSE t.slot[w]] = t.slot
  BY <1>2 DEF Tables
<1>4. Popped(t, b) = [t EXCEPT !.slot = t.slot]
  BY <1>3 DEF Popped
<1> QED BY <1>4 DEF Tables

LEMMA DisconnectIsDisconnect ==
    ASSUME RegistryInv, NEW w \in Sockets, HandleDisconnect(w)
    PROVE  UNCHANGED Registry!vars \/ Registry!Disconnect(BoardOf[w])
<1> DEFINE c == joined[w]
           T == TheCategory
           b == BoardOf[w]
<1>1. /\ pc \in [Sockets -> {"new", "accepting", "replaying", "receiving", "gone", "dead"}]
      /\ table \in [Categories -> Tables] /\ c \in Categories /\ T \in Categories
      /\ joined' = joined /\ sentTo' = sentTo /\ casts' = casts /\ client' = client
      /\ pc[w] = "receiving" /\ \E s \in {"gone", "dead"} : pc' = [pc EXCEPT ![w] = s]
      /\ table' = [table EXCEPT ![c] = Popped(table[c], b)]
  BY CategoryAssumption DEF RegistryInv, Typed, TypeOK, HandleDisconnect, pages, requests
<1> HIDE DEF b
<1>2. RegistryClient' = RegistryClient /\ RegistryCasts' = RegistryCasts
  BY <1>1 DEF RegistryClient, RegistryCasts
<1>3. CASE c = T /\ Holders(table[T], b) # {}
  BY <1>1, <1>2, <1>3, SameTables DEF Registry!Disconnect, b
<1>4. CASE ~(c = T /\ Holders(table[T], b) # {})
  <2>1. table'[T] = table[T]
    BY <1>1, <1>4, PopNobody
  <2> QED BY <1>2, <2>1, QuietRegistry
<1> QED BY <1>3, <1>4 DEF b

LEMMA PostAdIsBroadcast ==
    ASSUME RegistryInv, NEW a \in Ads, NEW c \in Categories, PostAd(a, c)
    PROVE  UNCHANGED Registry!vars \/ Registry!Broadcast(a)
<1>1. /\ casts \in [Ads -> Casts] /\ sentTo \in [Ads -> Categories \cup {NoCategory}]
      /\ sentTo[a] = NoCategory /\ sentTo[a] # TheCategory
      /\ sentTo' = [sentTo EXCEPT ![a] = c]
      /\ table' = table /\ joined' = joined /\ pc' = pc /\ client' = client
  BY CategoryAssumption, BulletinAssumption
     DEF RegistryInv, Typed, TypeOK, PostAd, handlers
<1>2. PICK k \in Turns(table[c], Opened(table[c])) : casts' = [casts EXCEPT ![a] = k]
  BY DEF PostAd
<1>3. RegistryClient' = RegistryClient
  BY <1>1 DEF RegistryClient
<1>4. CASE c = TheCategory
  <2>1. RegistryCasts[a] = NoCast /\ RegistryCasts' = [RegistryCasts EXCEPT ![a] = k]
    BY <1>1, <1>2, <1>4 DEF RegistryCasts
  <2>2. RegistryCasts[a].st = "idle"
    BY <2>1 DEF NoCast
  <2> QED BY <1>1, <1>2, <1>3, <1>4, <2>1, <2>2, SameCasts DEF Registry!Broadcast
<1>5. CASE c # TheCategory
  <2>1. RegistryCasts' = RegistryCasts
    BY <1>1, <1>2, <1>5 DEF RegistryCasts
  <2> QED BY <1>1, <1>3, <2>1, QuietRegistry
<1> QED BY <1>4, <1>5

(* A turn of a broadcast, or the exception that ends it.                   *)
LEMMA TurnIsTurn ==
    ASSUME RegistryInv, NEW a \in Ads, BroadcastTurn(a) \/ BroadcastRaises(a)
    PROVE  \/ UNCHANGED Registry!vars
           \/ Registry!BroadcastTurn(a) \/ Registry!BroadcastRaises(a)
<1> DEFINE T == TheCategory
<1>1. /\ casts \in [Ads -> Casts] /\ casts[a].st = "sending"
      /\ sentTo' = sentTo /\ table' = table
      /\ joined' = joined /\ pc' = pc /\ client' = client
  BY DEF RegistryInv, Typed, TypeOK, BroadcastTurn, BroadcastRaises, managers, handlers, pages
<1>2. PICK k : /\ casts' = [casts EXCEPT ![a] = k]
               /\ \/ k \in Turns(table[sentTo[a]], casts[a])
                  \/ client[casts[a].at] = "closed" /\ k = CutShort(casts[a])
  BY DEF BroadcastTurn, BroadcastRaises
<1>3. RegistryClient' = RegistryClient
  BY <1>1 DEF RegistryClient
<1>4. CASE sentTo[a] = T
  <2>1. RegistryCasts[a] = casts[a] /\ RegistryCasts' = [RegistryCasts EXCEPT ![a] = k]
    BY <1>1, <1>2, <1>4 DEF RegistryCasts
  <2>2. RegistryClient[casts[a].at] = client[casts[a].at]
    BY <1>1, <1>4 DEF RegistryInv, AwaitedIsJoined, RegistryClient
  <2>3. CASE k \in Turns(table[sentTo[a]], casts[a])
    BY <1>1, <1>3, <1>4, <2>1, <2>3, SameCasts DEF Registry!BroadcastTurn
  <2>4. CASE client[casts[a].at] = "closed" /\ k = CutShort(casts[a])
    BY <1>1, <1>3, <1>4, <2>1, <2>2, <2>4, SameCasts DEF Registry!BroadcastRaises
  <2> QED BY <1>2, <2>3, <2>4
<1>5. CASE sentTo[a] # T
  <2>1. RegistryCasts' = RegistryCasts
    BY <1>1, <1>2, <1>5 DEF RegistryCasts
  <2> QED BY <1>1, <1>3, <2>1, QuietRegistry
<1> QED BY <1>4, <1>5

(* The end of the process empties the registry and closes the sockets that *)
(* were registered or about to be.                                         *)
LEMMA StopIsReset ==
    ASSUME RegistryInv, Stop,
           \A a \in Ads : sentTo'[a] = sentTo[a] \/ sentTo[a] = NoCategory
    PROVE  Registry!Reset
<1> DEFINE T == TheCategory
           H == {w \in Sockets : joined[w] = T /\ pc[w] = "accepting"}
<1>1. /\ pc \in [Sockets -> {"new", "accepting", "replaying", "receiving", "gone", "dead"}]
      /\ client \in [Sockets -> {"new", "open", "closed"}]
      /\ \A w \in Sockets : joined[w] = NoCategory <=> pc[w] = "new"
      /\ \A w \in Sockets : client[w] = "new" <=> pc[w] = "new"
      /\ \A a \in Ads : sentTo[a] = NoCategory => casts[a] = NoCast
      /\ T \in Categories /\ T # NoCategory
  BY CategoryAssumption, BulletinAssumption DEF RegistryInv, Typed, TypeOK, ClientsStarted
<1>2. table'[T] = EmptyTable /\ joined' = joined
  BY <1>1 DEF Stop
<1>3. \A w \in Sockets :
         /\ pc'[w] # "accepting"
         /\ client'[w] = IF client[w] = "open" THEN "closed" ELSE client[w]
  BY <1>1 DEF Stop
<1>4. /\ H \in SUBSET {w \in Sockets : RegistryClient[w] = "new"}
      /\ RegistryClient' = [w \in Sockets |-> IF RegistryClient[w] = "open" \/ w \in H
                                              THEN "closed" ELSE RegistryClient[w]]
  <2>1. H \in SUBSET {w \in Sockets : RegistryClient[w] = "new"}
    BY DEF RegistryClient
  <2>2. ASSUME NEW w \in Sockets
        PROVE  RegistryClient'[w] = IF RegistryClient[w] = "open" \/ w \in H
                                    THEN "closed" ELSE RegistryClient[w]
    BY <1>1, <1>2, <1>3 DEF RegistryClient
  <2> QED BY <2>1, <2>2 DEF RegistryClient
<1>5. RegistryCasts' = [a \in Ads |-> CutShort(RegistryCasts[a])]
  <2>1. CutShort(NoCast) = NoCast
    BY DEF CutShort, NoCast
  <2>2. \A a \in Ads : casts'[a] = CutShort(casts[a])
    BY DEF Stop
  <2>3. ASSUME NEW a \in Ads PROVE RegistryCasts'[a] = CutShort(RegistryCasts[a])
    BY <1>1, <2>1, <2>2 DEF RegistryCasts
  <2> QED BY <2>3 DEF RegistryCasts
<1> QED BY <1>2, <1>4, <1>5, SameTables, SameCasts DEF Registry!Reset

(* The steps of a handler that do not touch the registry: it asks for a    *)
(* socket, dies, or its far end goes away.                                 *)
LEMMA HandlerIsClient ==
    ASSUME RegistryInv, [Next]_vars, NEW w \in Sockets,
           \/ \E c \in Categories : Join(w, c)
           \/ AcceptFails(w) \/ ReplayTurn(w) \/ ReplayRaises(w) \/ Close(w)
           \/ \E x \in Texts : ReceiveText(w, x)
    PROVE  UNCHANGED Registry!vars \/ Registry!ConnectFails(w) \/ Registry!Close(w)
<1>1. /\ pc \in [Sockets -> {"new", "accepting", "replaying", "receiving", "gone", "dead"}]
      /\ client \in [Sockets -> {"new", "open", "closed"}]
      /\ joined \in [Sockets -> Categories \cup {NoCategory}]
      /\ TheCategory \in Categories /\ TheCategory # NoCategory
      /\ \A v \in Sockets : joined[v] = NoCategory <=> pc[v] = "new"
      /\ \A v \in Sockets : client[v] = "new" <=> pc[v] = "new"
  BY CategoryAssumption, BulletinAssumption DEF RegistryInv, Typed, TypeOK, ClientsStarted
<1>2. table' = table /\ RegistryCasts' = RegistryCasts
  BY DEF Join, AcceptFails, ReplayTurn, ReplayRaises, Close, ReceiveText, managers,
         requests, RegistryCasts
<1>3. ASSUME NEW c \in Categories, Join(w, c)
      PROVE  UNCHANGED Registry!vars
  <2>1. RegistryClient' = RegistryClient
    <3>1. \A v \in Sockets \ {w} : /\ joined'[v] = joined[v] /\ client'[v] = client[v]
                                   /\ pc'[v] = pc[v]
      BY <1>1, <1>3 DEF Join
    <3>2. pc'[w] = "accepting" /\ joined[w] # TheCategory
      BY <1>1, <1>3 DEF Join
    <3> QED BY <3>1, <3>2 DEF RegistryClient
  <2> QED BY <1>2, <2>1, QuietRegistry
<1>4. ASSUME client[w] = "closed", Die(w), joined' = joined, pc[w] = "accepting"
      PROVE  UNCHANGED Registry!vars \/ Registry!ConnectFails(w)
  <2>1. CASE joined[w] = TheCategory
    <3>1. RegistryClient[w] = "new" /\ RegistryClient' = [RegistryClient EXCEPT ![w] = "closed"]
      BY <1>1, <1>4, <2>1 DEF RegistryClient, Die
    <3> QED BY <1>2, <3>1 DEF Registry!ConnectFails
  <2>2. CASE joined[w] # TheCategory
    <3>1. RegistryClient' = RegistryClient
      BY <1>1, <1>4, <2>2 DEF RegistryClient, Die
    <3> QED BY <1>2, <3>1, QuietRegistry
  <2> QED BY <2>1, <2>2
<1>5. ASSUME joined' = joined, client' = client,
             \/ pc' = pc
             \/ /\ pc[w] # "accepting"
                /\ \E s \in {"receiving", "replaying"} : pc' = [pc EXCEPT ![w] = s]
      PROVE  UNCHANGED Registry!vars
  <2>1. RegistryClient' = RegistryClient
    BY <1>1, <1>5 DEF RegistryClient
  <2> QED BY <1>2, <2>1, QuietRegistry
<1>6. ASSUME joined' = joined, pc[w] \notin {"new", "accepting"},
             Die(w) \/ (client' = [client EXCEPT ![w] = "closed"] /\ pc' = pc)
      PROVE  UNCHANGED Registry!vars \/ Registry!Close(w)
  <2>1. \E s \in {pc[w], "dead"} : pc' = [pc EXCEPT ![w] = s]
    BY <1>1, <1>6 DEF Die
  <2>2. client' = [client EXCEPT ![w] = "closed"]
    BY <1>6 DEF Die
  <2> QED BY <1>2, <1>6, <2>1, <2>2, ClosingIsClose
<1>7. ASSUME Close(w), pc[w] = "accepting"
      PROVE  UNCHANGED Registry!vars
  <2>1. RegistryClient' = RegistryClient
    BY <1>1, <1>7 DEF RegistryClient, Close, handlers
  <2> QED BY <1>2, <2>1, QuietRegistry
<1>8. CASE AcceptFails(w)
  BY <1>4, <1>8 DEF AcceptFails
<1>9. CASE ReplayTurn(w)
  <2>1. joined' = joined /\ pc[w] = "replaying"
    BY <1>9 DEF ReplayTurn
  <2> QED BY <1>5, <1>6, <1>9, <2>1, ReplayMoves DEF RegistryInv
<1>10. CASE ReplayRaises(w)
  BY <1>6, <1>10 DEF ReplayRaises
<1>11. CASE Close(w)
  <2>1. joined' = joined /\ pc' = pc /\ client' = [client EXCEPT ![w] = "closed"]
        /\ pc[w] # "new"
    BY <1>1, <1>11 DEF Close, handlers
  <2> QED BY <1>6, <1>7, <1>11, <2>1
<1>12. CASE \E x \in Texts : ReceiveText(w, x)
  <2>1. /\ joined' = joined /\ pc[w] = "receiving"
        /\ UNCHANGED <<pc, client>> \/ Die(w)
    BY <1>12 DEF ReceiveText
  <2>2. CASE UNCHANGED <<pc, client>>
    <3>1. pc' = pc /\ client' = client
      BY <2>2
    <3>2. RegistryClient' = RegistryClient
      BY <2>1, <3>1 DEF RegistryClient
    <3> QED BY <1>2, <3>2, QuietRegistry
  <2>3. CASE Die(w)
    BY <1>6, <2>1, <2>3
  <2> QED BY <2>1, <2>2, <2>3
<1> QED BY <1>3, <1>8, <1>9, <1>10, <1>11, <1>12

LEMMA RegistryStep ==
    ASSUME RegistryInv, [Next]_vars
    PROVE  [Registry!Next]_(Registry!vars)
<1>1. CASE UNCHANGED <<table, joined, pc, client, sentTo, casts>>
  BY <1>1 DEF Registry!vars, RegistryClient, RegistryCasts
<1>2. ASSUME NEW a \in Ads, NEW c \in Categories, PostAdRefused(a, c)
      PROVE  UNCHANGED Registry!vars
  <2>1. /\ casts[a] = NoCast /\ casts' = casts /\ table' = table
        /\ \A b \in Ads \ {a} : sentTo'[b] = sentTo[b]
        /\ joined' = joined /\ pc' = pc /\ client' = client
    BY <1>2 DEF PostAdRefused, RegistryInv, Typed, TypeOK, handlers, pages
  <2>2. RegistryCasts' = RegistryCasts /\ RegistryClient' = RegistryClient
    BY <2>1 DEF RegistryCasts, RegistryClient
  <2> QED BY <2>1, <2>2, QuietRegistry
<1>3. ASSUME NEW w \in Sockets,
             \/ \E c \in Categories : Join(w, c)
             \/ AcceptFails(w) \/ ReplayTurn(w) \/ ReplayRaises(w) \/ Close(w)
             \/ \E x \in Texts : ReceiveText(w, x)
             \/ Connect(w)
      PROVE  \/ UNCHANGED Registry!vars
             \/ Registry!Connect(w) \/ Registry!ConnectFails(w) \/ Registry!Close(w)
  BY <1>3, HandlerIsClient, ConnectIsConnect
<1>4. ASSUME NEW w \in Sockets, HandleDisconnect(w)
      PROVE  UNCHANGED Registry!vars \/ \E b \in Boards : Registry!Disconnect(b)
  <2>1. BoardOf[w] \in Boards
    BY RegistryAssumption
  <2> QED BY <1>4, <2>1, DisconnectIsDisconnect
<1>5. ASSUME NEW a \in Ads,
             \/ \E c \in Categories : PostAd(a, c)
             \/ BroadcastTurn(a) \/ BroadcastRaises(a)
      PROVE  \/ UNCHANGED Registry!vars
             \/ Registry!Broadcast(a) \/ Registry!BroadcastTurn(a)
             \/ Registry!BroadcastRaises(a)
  BY <1>5, PostAdIsBroadcast, TurnIsTurn
<1>6. ASSUME Crash \/ \E c \in Categories :
                CrashInLookup(c) \/ \E a \in Ads : CrashInPostAd(a, c)
      PROVE  Registry!Reset
  <2>1. Stop /\ \A a \in Ads : sentTo'[a] = sentTo[a] \/ sentTo[a] = NoCategory
    BY <1>6 DEF Crash, CrashInLookup, CrashInPostAd, RegistryInv, Typed, TypeOK
  <2> QED BY <2>1, StopIsReset
<1>7. \/ UNCHANGED <<table, joined, pc, client, sentTo, casts>>
      \/ \E a \in Ads, c \in Categories : PostAdRefused(a, c)
      \/ \E w \in Sockets :
            \/ \E c \in Categories : Join(w, c)
            \/ AcceptFails(w) \/ ReplayTurn(w) \/ ReplayRaises(w) \/ Close(w)
            \/ \E x \in Texts : ReceiveText(w, x)
            \/ Connect(w)
      \/ \E w \in Sockets : HandleDisconnect(w)
      \/ \E a \in Ads : \/ \E c \in Categories : PostAd(a, c)
                        \/ BroadcastTurn(a) \/ BroadcastRaises(a)
      \/ Crash
      \/ \E c \in Categories : CrashInLookup(c) \/ \E a \in Ads : CrashInPostAd(a, c)
  BY DEF Next, vars, managers, handlers, pages, requests, Restart
<1> QED BY <1>1, <1>2, <1>3, <1>4, <1>5, <1>6, <1>7 DEF Registry!Next

(* The handlers and requests use the ConnectionManager of a category in no *)
(* way that ConnectionManager leaves open: what is proved there for any    *)
(* caller holds of every category of the board.                            *)
THEOREM ImplementsRegistry == Spec => RegistrySpec
<1>1. Init => RegistryInv /\ Registry!Init
  <2> SUFFICES ASSUME Init PROVE RegistryInv /\ Registry!Init
    OBVIOUS
  <2>1. RegistryInv
    BY InitTyped DEF RegistryInv, Init, ClientsStarted, AwaitedIsJoined, NoCast
  <2>2. Registry!Init
    BY SameTables, SameCasts, CategoryAssumption
       DEF Init, Registry!Init, RegistryClient, RegistryCasts
  <2> QED BY <2>1, <2>2
<1>2. RegistryInv /\ [Next]_vars => RegistryInv'
  BY NextTyped, ClientsStartedStep, AwaitedStep DEF RegistryInv
<1>3. RegistryInv /\ [Next]_vars => [Registry!Next]_(Registry!vars)
  BY RegistryStep
<1> QED BY <1>1, <1>2, <1>3, PTL DEF Spec, RegistrySpec, Registry!Spec
=============================================================================

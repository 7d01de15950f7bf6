--------------------------- MODULE DeliveryProofs ---------------------------
(***************************************************************************)
(* What a board is written, for any number of sockets, ads and restarts:   *)
(* replay and broadcast together cover the whole history of its category   *)
(* (NothingFallsBetween), write an ad no more often than there are writers *)
(* of it (CopiesBounded), and leave the page with the newest one as far as *)
(* the order of their writes allows (CurrentAdIsNewest).                   *)
(***************************************************************************)
EXTENDS BulletinBoardProofs

(* A handler that has not registered its board is in no broadcast.         *)
PendingAreUnknown ==
    \A w \in Sockets : pc[w] \in {"new", "accepting"} =>
        \A a \in Ads : w \notin casts[a].audience /\ w \notin casts[a].heard

(* Each broadcast is related to the registry it runs over.                 *)
CastsAreOK ==
    \A a \in Ads : \A c \in Categories :
        sentTo[a] = c => CastOK(table[c], casts[a])

(* An ad is stored in the category it was sent to.                         *)
StoredWasSent == \A c \in Categories : \A a \in Contents(store[c]) : sentTo[a] = c

(* No board is registered with a process that has ended.                   *)
DownIsEmpty == ~up => \A c \in Categories : Active(table[c]) = {}

(* What a registered board has not been written comes by its own replay,   *)
(* or it was in the ad's broadcast from the start and is still to be sent. *)
CoveredBy(w, a) ==
    got[w][a] > 0 \/ InReplay(w, a) \/ w \in casts[a].audience \ casts[a].heard

Covered ==
    \A w \in Sockets : Listening(w) =>
        \A a \in Contents(ads[joined[w]]) \cap Ads : CoveredBy(w, a)

-----------------------------------------------------------------------------
(* A handler does not come back to where it has not registered yet.        *)
LEMMA RegisteredForGood ==
    ASSUME Typed, [Next]_vars, NEW w \in Sockets, pc'[w] \in {"new", "accepting"}
    PROVE  pc[w] \in {"new", "accepting"}
<1>1. pc \in [Sockets -> {"new", "accepting", "replaying", "receiving", "gone", "dead"}]
  BY DEF Typed, TypeOK
<1>2. CASE pc' = pc
  BY <1>2
<1>3. ASSUME NEW v \in Sockets, NEW c \in Categories, Join(v, c)
      PROVE  pc[w] \in {"new", "accepting"}
  BY <1>1, <1>3 DEF Join
<1>4. ASSUME NEW v \in Sockets, pc[v] # "new",
             \E s \in {"replaying", "receiving", "gone", "dead"} : pc' = [pc EXCEPT ![v] = s]
      PROVE  pc[w] \in {"new", "accepting"}
  BY <1>1, <1>4
<1>5. ASSUME Stop PROVE pc[w] \in {"new", "accepting"}
  BY <1>1, <1>5 DEF Stop
<1>6. ASSUME NEW v \in Sockets,
             \/ Connect(v) \/ AcceptFails(v) \/ ReplayTurn(v) \/ ReplayRaises(v)
             \/ HandleDisconnect(v)
             \/ \E x \in Texts : ReceiveText(v, x)
      PROVE  \/ pc' = pc
             \/ /\ pc[v] # "new"
                /\ \E s \in {"replaying", "receiving", "gone", "dead"} :
                      pc' = [pc EXCEPT ![v] = s]
  BY <1>6 DEF Connect, AcceptFails, ReplayTurn, ReplayRaises, ReceiveText,
              HandleDisconnect, Replay, Die
<1>7. \/ pc' = pc
      \/ \E v \in Sockets, c \in Categories : Join(v, c)
      \/ \E v \in Sockets :
           \/ Connect(v) \/ AcceptFails(v) \/ ReplayTurn(v) \/ ReplayRaises(v)
           \/ HandleDisconnect(v)
           \/ \E x \in Texts : ReceiveText(v, x)
      \/ Stop
  BY DEF Next, vars, handlers, Close, PostAd, PostAdRefused, CrashInPostAd,
         BroadcastTurn, BroadcastRaises, Crash, CrashInLookup, Restart
<1> QED BY <1>2, <1>3, <1>4, <1>5, <1>6, <1>7

(* A step of one broadcast.                                                *)
LEMMA OneCastStep ==
    ASSUME Typed, CastsAreOK, PendingAreUnknown, [Next]_vars,
           NEW a \in Ads, NEW c \in Categories, NEW k \in Casts,
           casts' = [casts EXCEPT ![a] = k], table' = table,
           sentTo'[a] = c, \A b \in Ads \ {a} : sentTo'[b] = sentTo[b],
           CastOK(table[c], k),
           k.audience \subseteq casts[a].audience \cup Active(table[c]),
           k.heard \subseteq casts[a].heard \cup Active(table[c])
    PROVE  CastsAreOK' /\ PendingAreUnknown'
<1>1. \A b \in Ads : casts'[b] = IF b = a THEN k ELSE casts[b]
  BY DEF Typed, TypeOK
<1>2. CastsAreOK'
  BY <1>1 DEF CastsAreOK
<1>3. ASSUME NEW w \in Sockets, pc'[w] \in {"new", "accepting"}, NEW b \in Ads
      PROVE  w \notin casts'[b].audience /\ w \notin casts'[b].heard
  <2>1. pc[w] \in {"new", "accepting"}
    BY <1>3, RegisteredForGood
  <2>2. w \notin Active(table[c]) /\ w \notin casts[b].audience /\ w \notin casts[b].heard
    BY <2>1 DEF Typed, EntriesAreJoined, PendingAreUnknown
  <2> QED BY <1>1, <2>2
<1> QED BY <1>2, <1>3 DEF PendingAreUnknown

LEMMA ConnectCasts ==
    ASSUME Typed, CastsAreOK, PendingAreUnknown, [Next]_vars,
           NEW w \in Sockets, Connect(w)
    PROVE  CastsAreOK' /\ PendingAreUnknown'
<1> DEFINE c == joined[w]
<1>1. /\ c \in Categories /\ pc[w] = "accepting" /\ sentTo' = sentTo
      /\ table \in [Categories -> Tables] /\ IsDictionary(table[c])
      /\ casts \in [Ads -> Casts]
  BY DEF Typed, TypeOK, Dictionaries, Connect
<1>2. PICK t \in Puts(table[c], w) : table' = [table EXCEPT ![c] = t]
  BY DEF Connect
<1>3. \A a \in Ads : casts'[a] =
         Disturbed(casts[a], sentTo[a] = c /\ NeedsRebuild(table[c], w))
  BY DEF Connect
<1>4. /\ w \in Sockets \ Active(table[c])
      /\ \A a \in Ads : w \notin casts[a].audience /\ w \notin casts[a].heard
  BY <1>1 DEF Typed, EntriesAreJoined, PendingAreUnknown
<1> HIDE DEF c
<1>5. ASSUME NEW a \in Ads
      PROVE  /\ casts'[a].audience = casts[a].audience
             /\ casts'[a].heard = casts[a].heard
             /\ \A d \in Categories : sentTo[a] = d => CastOK(table'[d], casts'[a])
  <2>1. CASE sentTo[a] = c
    <3>1. CastOK(table[c], casts[a]) /\ casts[a] \in Casts /\ table[c] \in Tables
      BY <1>1, <2>1 DEF CastsAreOK
    <3>2. casts'[a] = Disturbed(casts[a], NeedsRebuild(table[c], w)) /\ table'[c] = t
      <4>1. (sentTo[a] = c /\ NeedsRebuild(table[c], w)) = NeedsRebuild(table[c], w)
        BY <2>1 DEF NeedsRebuild
      <4> QED BY <1>1, <1>2, <1>3, <4>1
    <3>3. /\ CastOK(t, Disturbed(casts[a], NeedsRebuild(table[c], w)))
          /\ Disturbed(casts[a], NeedsRebuild(table[c], w)).audience = casts[a].audience
          /\ Disturbed(casts[a], NeedsRebuild(table[c], w)).heard = casts[a].heard
      BY <1>1, <1>2, <1>4, <3>1, PutKeepsCast
    <3> QED BY <2>1, <3>2, <3>3
  <2>2. CASE sentTo[a] # c
    <3>1. casts'[a] = casts[a]
      BY <1>3, <2>2 DEF Disturbed
    <3>2. \A d \in Categories \ {c} : table'[d] = table[d]
      BY <1>1, <1>2
    <3> QED BY <2>2, <3>1, <3>2 DEF CastsAreOK
  <2> QED BY <2>1, <2>2
<1>6. CastsAreOK'
  BY <1>1, <1>5 DEF CastsAreOK
<1>7. PendingAreUnknown'
  BY <1>5, RegisteredForGood DEF PendingAreUnknown
<1> QED BY <1>6, <1>7

LEMMA DisconnectCasts ==
    ASSUME Typed, CastsAreOK, PendingAreUnknown, [Next]_vars,
           NEW w \in Sockets, HandleDisconnect(w)
    PROVE  CastsAreOK' /\ PendingAreUnknown'
<1> DEFINE c == joined[w]
<1>1. /\ c \in Categories /\ sentTo' = sentTo /\ casts' = casts
      /\ table \in [Categories -> Tables] /\ table[c] \in Tables /\ IsDictionary(table[c])
      /\ casts \in [Ads -> Casts]
      /\ table' = [table EXCEPT ![c] = Popped(table[c], BoardOf[w])]
  BY DEF Typed, TypeOK, Dictionaries, HandleDisconnect, requests
<1> HIDE DEF c
<1>2. \A d \in Categories : table'[d] = IF d = c THEN Popped(table[c], BoardOf[w]) ELSE table[d]
  BY <1>1
<1>3. ASSUME NEW a \in Ads, NEW d \in Categories, sentTo[a] = d
      PROVE  CastOK(table'[d], casts[a])
  <2>1. casts[a] \in Casts /\ CastOK(table[d], casts[a])
    BY <1>1, <1>3 DEF CastsAreOK
  <2>2. CASE d = c
    BY <1>1, <1>2, <2>1, <2>2, PopKeepsCast
  <2>3. CASE d # c
    BY <1>2, <2>1, <2>3
  <2> QED BY <2>2, <2>3
<1>4. CastsAreOK'
  BY <1>1, <1>3 DEF CastsAreOK
<1>5. PendingAreUnknown'
  BY <1>1, RegisteredForGood DEF PendingAreUnknown
<1> QED BY <1>4, <1>5

LEMMA StopCasts ==
    ASSUME Typed, CastsAreOK, PendingAreUnknown, [Next]_vars, Stop,
           \A a \in Ads : sentTo[a] # NoCategory => sentTo'[a] = sentTo[a]
    PROVE  CastsAreOK' /\ PendingAreUnknown'
<1>1. /\ \A a \in Ads : casts[a] \in Casts /\ casts'[a] = CutShort(casts[a])
      /\ \A a \in Ads : sentTo[a] = NoCategory => casts[a] = NoCast
      /\ \A a \in Ads : sentTo[a] \in Categories \cup {NoCategory}
      /\ \A c \in Categories : table'[c] = EmptyTable
  BY DEF Typed, TypeOK, Stop
<1>2. ASSUME NEW a \in Ads
      PROVE  /\ CastOK(EmptyTable, casts'[a])
             /\ casts'[a].audience = casts[a].audience /\ casts'[a].heard = casts[a].heard
  <2>1. \E t : CastOK(t, casts[a])
    BY <1>1, NoCastFacts DEF CastsAreOK
  <2> QED BY <1>1, <2>1, CutShortFacts
<1>3. CastsAreOK'
  BY <1>1, <1>2 DEF CastsAreOK
<1>4. PendingAreUnknown'
  BY <1>2, RegisteredForGood DEF PendingAreUnknown
<1> QED BY <1>3, <1>4

LEMMA PostAdCasts ==
    ASSUME Typed, CastsAreOK, PendingAreUnknown, [Next]_vars,
           NEW a \in Ads, NEW c \in Categories, PostAd(a, c)
    PROVE  /\ CastsAreOK' /\ PendingAreUnknown'
           /\ casts'[a].audience = Active(table[c])
<1>1. PICK k \in Turns(table[c], Opened(table[c])) : casts' = [casts EXCEPT ![a] = k]
  BY DEF PostAd
<1>2. /\ table[c] \in Tables /\ IsDictionary(table[c]) /\ table' = table
      /\ casts \in [Ads -> Casts]
      /\ sentTo'[a] = c /\ \A b \in Ads \ {a} : sentTo'[b] = sentTo[b]
  BY DEF Typed, TypeOK, Dictionaries, PostAd
<1>3. /\ Opened(table[c]) \in Casts /\ Opened(table[c]).st = "sending"
      /\ Opened(table[c]).audience = Active(table[c]) /\ Opened(table[c]).heard = {}
      /\ CastOK(table[c], Opened(table[c]))
  BY <1>2, OpenedFacts
<1>4. /\ k \in Casts /\ CastOK(table[c], k)
      /\ k.audience = Active(table[c]) /\ k.heard \subseteq Active(table[c])
  BY <1>1, <1>2, <1>3, TurnFacts
<1>5. CastsAreOK' /\ PendingAreUnknown'
  BY <1>1, <1>2, <1>4, OneCastStep
<1> QED BY <1>1, <1>2, <1>4, <1>5

LEMMA BroadcastTurnCasts ==
    ASSUME Typed, CastsAreOK, PendingAreUnknown, [Next]_vars,
           NEW a \in Ads, BroadcastTurn(a)
    PROVE  /\ CastsAreOK' /\ PendingAreUnknown'
           /\ casts'[a].audience = casts[a].audience
<1> DEFINE c == sentTo[a]
<1>1. /\ casts[a].st = "sending" /\ casts[a] \in Casts /\ casts \in [Ads -> Casts]
      /\ c \in Categories
      /\ table[c] \in Tables /\ IsDictionary(table[c])
      /\ table' = table /\ sentTo' = sentTo
  BY DEF Typed, TypeOK, Dictionaries, BroadcastTurn, NoCast, managers
<1>2. PICK k \in Turns(table[c], casts[a]) : casts' = [casts EXCEPT ![a] = k]
  BY DEF BroadcastTurn
<1>3. CastOK(table[c], casts[a])
  BY <1>1 DEF CastsAreOK
<1>4. /\ k \in Casts /\ CastOK(table[c], k) /\ k.audience = casts[a].audience
      /\ k.heard \subseteq casts[a].heard \cup Active(table[c])
  BY <1>1, <1>2, <1>3, TurnFacts
<1>5. CastsAreOK' /\ PendingAreUnknown'
  BY <1>1, <1>2, <1>4, OneCastStep
<1> QED BY <1>1, <1>2, <1>4, <1>5

LEMMA BroadcastRaisesCasts ==
    ASSUME Typed, CastsAreOK, PendingAreUnknown, [Next]_vars,
           NEW a \in Ads, BroadcastRaises(a)
    PROVE  /\ CastsAreOK' /\ PendingAreUnknown'
           /\ casts'[a].audience = casts[a].audience /\ casts'[a].heard = casts[a].heard
<1> DEFINE c == sentTo[a]
           k == CutShort(casts[a])
<1>1. /\ casts[a].st = "sending" /\ casts[a] \in Casts /\ casts \in [Ads -> Casts]
      /\ c \in Categories /\ table' = table /\ sentTo' = sentTo
      /\ casts' = [casts EXCEPT ![a] = k]
  BY DEF Typed, TypeOK, BroadcastRaises, NoCast, managers
<1>2. CastOK(table[c], casts[a])
  BY <1>1 DEF CastsAreOK
<1>3. /\ k \in Casts /\ CastOK(table[c], k)
      /\ k.audience = casts[a].audience /\ k.heard = casts[a].heard
  BY <1>1, <1>2, CutShortFacts
<1> HIDE DEF k
<1>4. CastsAreOK' /\ PendingAreUnknown'
  BY <1>1, <1>3, OneCastStep
<1> QED BY <1>1, <1>3, <1>4

LEMMA CastsStep ==
    ASSUME Typed, CastsAreOK, PendingAreUnknown, [Next]_vars
    PROVE  CastsAreOK' /\ PendingAreUnknown'
<1>1. CASE UNCHANGED <<table, casts, sentTo>>
  BY <1>1, RegisteredForGood DEF CastsAreOK, PendingAreUnknown
<1>2. ASSUME NEW a \in Ads, NEW c \in Categories, PostAdRefused(a, c)
      PROVE  CastsAreOK' /\ PendingAreUnknown'
  <2>1. /\ table' = table /\ casts' = casts /\ casts[a] = NoCast
        /\ \A b \in Ads \ {a} : sentTo'[b] = sentTo[b]
    BY <1>2 DEF PostAdRefused, Typed, TypeOK
  <2>2. CastsAreOK'
    BY <2>1, NoCastFacts DEF CastsAreOK
  <2> QED BY <2>1, <2>2, RegisteredForGood DEF PendingAreUnknown
<1>3. ASSUME Crash \/ \E c \in Categories :
                CrashInLookup(c) \/ \E a \in Ads : CrashInPostAd(a, c)
      PROVE  CastsAreOK' /\ PendingAreUnknown'
  <2>1. Stop /\ \A a \in Ads : sentTo[a] # NoCategory => sentTo'[a] = sentTo[a]
    BY <1>3 DEF Crash, CrashInLookup, CrashInPostAd, Typed, TypeOK
  <2> QED BY <2>1, StopCasts
<1>4. \/ UNCHANGED <<table, casts, sentTo>>
      \/ \E w \in Sockets : Connect(w) \/ HandleDisconnect(w)
      \/ \E a \in Ads, c \in Categories : PostAd(a, c) \/ PostAdRefused(a, c)
      \/ \E a \in Ads : BroadcastTurn(a) \/ BroadcastRaises(a)
      \/ Crash
      \/ \E c \in Categories : CrashInLookup(c) \/ \E a \in Ads : CrashInPostAd(a, c)
  BY DEF Next, vars, managers, requests, Join, AcceptFails, ReplayTurn, ReplayRaises,
         ReceiveText, Close, Restart
<1> QED BY <1>1, <1>2, <1>3, <1>4, ConnectCasts, DisconnectCasts, PostAdCasts,
           BroadcastTurnCasts, BroadcastRaisesCasts

-----------------------------------------------------------------------------
(* What is stored was sent there, and stays sent there.                    *)
LEMMA StoredWasSentStep ==
    ASSUME Typed, StoredWasSent, [Next]_vars
    PROVE  StoredWasSent'
<1>1. /\ store \in [Categories -> Seq(Ads)]
      /\ sentTo \in [Ads -> Categories \cup {NoCategory}]
  BY DEF Typed, TypeOK
<1>2. CASE UNCHANGED <<store, sentTo>>
  BY <1>2 DEF StoredWasSent
<1>3. ASSUME NEW a \in Ads, NEW c \in Categories, sentTo[a] = NoCategory,
             sentTo' = [sentTo EXCEPT ![a] = c],
             store' = store \/ store' = StoreWith(c, a)
      PROVE  StoredWasSent'
  <2> SUFFICES ASSUME NEW d \in Categories, NEW b \in Contents(store'[d])
               PROVE  sentTo'[b] = d
    BY DEF StoredWasSent
  <2>1. store[d] \in Seq(Ads) /\ Contents(store[d]) \subseteq Ads
    <3>1. store[d] \in Seq(Ads)
      BY <1>1
    <3>2. \A i \in DOMAIN store[d] : store[d][i] \in Ads
      BY <3>1
    <3> QED BY <3>1, <3>2 DEF Contents
  <2>2. Contents(Append(store[d], a)) = Contents(store[d]) \cup {a}
    BY <2>1, AppendContents
  <2>3. b \in Contents(store[d]) \/ (d = c /\ b = a)
    <3>1. store'[d] = store[d] \/ (d = c /\ store'[d] = Append(store[d], a))
      BY <1>1, <1>3 DEF StoreWith
    <3> QED BY <2>2, <3>1
  <2>4. CASE b \in Contents(store[d])
    <3>1. sentTo[b] = d /\ b \in Ads /\ b # a
      BY <1>3, <2>1, <2>4, BulletinAssumption DEF StoredWasSent
    <3> QED BY <1>1, <1>3, <3>1
  <2>5. CASE d = c /\ b = a
    BY <1>1, <1>3, <2>5
  <2> QED BY <2>3, <2>4, <2>5
<1>4. ASSUME NEW a \in Ads, NEW c \in Categories,
             PostAd(a, c) \/ PostAdRefused(a, c) \/ CrashInPostAd(a, c)
      PROVE  /\ sentTo[a] = NoCategory
             /\ sentTo' = [sentTo EXCEPT ![a] = c]
             /\ store' = store \/ store' = StoreWith(c, a)
  BY <1>4 DEF PostAd, PostAdRefused, CrashInPostAd
<1>5. \/ UNCHANGED <<store, sentTo>>
      \/ \E a \in Ads, c \in Categories :
            PostAd(a, c) \/ PostAdRefused(a, c) \/ CrashInPostAd(a, c)
  BY DEF Next, vars, durable, requests, Join, Connect, AcceptFails, ReplayTurn,
         ReplayRaises, ReceiveText, HandleDisconnect, Close, BroadcastTurn,
         BroadcastRaises, Crash, CrashInLookup, Restart
<1> QED BY <1>2, <1>3, <1>4, <1>5

LEMMA DownIsEmptyStep ==
    ASSUME Typed, DownIsEmpty, [Next]_vars
    PROVE  DownIsEmpty'
<1>1. CASE UNCHANGED <<up, table>>
  BY <1>1 DEF DownIsEmpty
<1>2. CASE up'
  BY <1>2 DEF DownIsEmpty
<1>3. CASE Stop
  BY <1>3, EmptyTableFacts DEF Stop, DownIsEmpty
<1>4. ASSUME NEW w \in Sockets, Connect(w) \/ HandleDisconnect(w) PROVE up'
  BY <1>4 DEF Connect, HandleDisconnect, Typed, HandlersRun, process
<1>5. \/ UNCHANGED <<up, table>>
      \/ up'
      \/ Stop
      \/ \E w \in Sockets : Connect(w) \/ HandleDisconnect(w)
  BY DEF Next, vars, process, managers, Join, AcceptFails, ReplayTurn, ReplayRaises,
         ReceiveText, Close, PostAd, PostAdRefused, CrashInPostAd, BroadcastTurn,
         BroadcastRaises, Crash, CrashInLookup, Restart
<1> QED BY <1>1, <1>2, <1>3, <1>4, <1>5

-----------------------------------------------------------------------------
(* A broadcast has written to exactly those it is said to have written to. *)
LEMMA TurnHears ==
    ASSUME NEW t \in Tables, NEW k \in Casts, k.st = "sending", NEW n \in Turns(t, k)
    PROVE  n.heard = k.heard \cup WrittenBy(n)
<1>1. CASE n \in {[k EXCEPT !.st = "aborted"], [k EXCEPT !.st = "done"]}
  <2>1. n.heard = k.heard /\ n.st # "sending"
    BY <1>1 DEF Casts
  <2> QED BY <2>1 DEF WrittenBy
<1>2. ASSUME NEW w \in NextUp(t, k),
             n = [k EXCEPT !.pos = t.slot[w] + 1, !.left = k.left - 1, !.at = w,
                           !.heard = k.heard \cup {w}]
      PROVE  n.heard = k.heard \cup WrittenBy(n)
  <2>1. n.heard = k.heard \cup {w} /\ n.at = w /\ n.st = "sending"
    BY <1>2 DEF Casts
  <2> QED BY <2>1 DEF WrittenBy
<1> QED BY <1>1, <1>2 DEF Turns

(* What is written to an open socket is there, and stays there.            *)
LEMMA SendGets ==
    ASSUME TypeOK, NEW W \in SUBSET Sockets, NEW a \in Ads, Send(W, a)
    PROVE  /\ \A w \in W : client[w] = "open" => got'[w][a] > 0
           /\ \A w \in Sockets, b \in Ads : got[w][b] > 0 => got'[w][b] > 0
<1>1. \A w \in Sockets : got'[w] = IF w \in W /\ client[w] = "open"
                                   THEN [got[w] EXCEPT ![a] = @ + 1] ELSE got[w]
  BY DEF Send
<1>2. \A w \in Sockets, b \in Ads : got[w] \in [Ads -> Nat] /\ got[w][b] \in Nat
  BY DEF TypeOK
<1>3. ASSUME NEW w \in W, client[w] = "open" PROVE got'[w][a] > 0
  <2>1. got'[w] = [got[w] EXCEPT ![a] = @ + 1]
    BY <1>1, <1>3
  <2>2. got'[w][a] = got[w][a] + 1 /\ got[w][a] \in Nat
    BY <1>2, <2>1
  <2> QED BY <2>2
<1>4. ASSUME NEW w \in Sockets, NEW b \in Ads, got[w][b] > 0 PROVE got'[w][b] > 0
  <2>1. got'[w] = got[w] \/ got'[w] = [got[w] EXCEPT ![a] = @ + 1]
    BY <1>1
  <2>2. got'[w][b] \in {got[w][b], got[w][b] + 1}
    BY <1>2, <2>1
  <2> QED BY <1>2, <1>4, <2>2
<1> QED BY <1>3, <1>4

(* A replay that has taken i ads writes the next one to its own board, if  *)
(* that is registered and stays open, and comes to the others.             *)
LEMMA ReplayCovers ==
    ASSUME TypeOK, NEW w \in Sockets, joined[w] \in Categories, pc[w] # "new",
           NEW t \in Tables, NEW i \in 0..Len(ads[joined[w]]), Replay(w, t, i),
           Holders(t, BoardOf[w]) = {w}, client'[w] = "open",
           NEW j \in DOMAIN ads[joined[w]], j > i, ads[joined[w]][j] \in Ads
    PROVE  \/ got'[w][ads[joined[w]][j]] > 0
           \/ pc'[w] = "replaying" /\ j > idx'[w]
<1> DEFINE history == ads[joined[w]]
<1>1. /\ history \in Seq(Ads \cup Texts) /\ Len(history) \in Nat
      /\ j \in 1..Len(history) /\ i \in Nat
      /\ pc \in [Sockets -> {"new", "accepting", "replaying", "receiving", "gone", "dead"}]
      /\ idx \in [Sockets -> Nat] /\ client \in [Sockets -> {"new", "open", "closed"}]
  BY DEF TypeOK
<1>2. ~ReplayEnds(history, i)
  BY <1>1 DEF ReplayEnds
<1>3. ~Die(w)
  BY <1>1 DEF Die
<1>4. /\ ReplayNext(history, i) \in Ads
      /\ Send({w}, ReplayNext(history, i))
      /\ pc' = [pc EXCEPT ![w] = "replaying"]
      /\ idx' = [idx EXCEPT ![w] = i + 1]
      /\ client' = client
  BY <1>2, <1>3 DEF Replay
<1>5. got'[w][ReplayNext(history, i)] > 0
  <2>1. {w} \in SUBSET Sockets
    OBVIOUS
  <2> HIDE DEF history
  <2> QED BY <1>4, <2>1, SendGets
<1>6. CASE j = i + 1
  BY <1>5, <1>6 DEF ReplayNext
<1>7. CASE j # i + 1
  BY <1>1, <1>4, <1>7
<1> QED BY <1>6, <1>7

(* The replay of one handler takes nothing away from any other board.      *)
LEMMA ReplayKeeps ==
    ASSUME TypeOK, NEW w \in Sockets, joined[w] \in Categories,
           NEW t \in Tables, NEW i \in 0..Len(ads[joined[w]]), Replay(w, t, i),
           NEW v \in Sockets
    PROVE  /\ client'[v] = "open" => client[v] = "open"
           /\ \A a \in Ads : got[v][a] > 0 => got'[v][a] > 0
           /\ v # w => pc'[v] = pc[v] /\ idx'[v] = idx[v]
<1> DEFINE history == ads[joined[w]]
           holders == Holders(t, BoardOf[w])
<1>1. /\ pc \in [Sockets -> {"new", "accepting", "replaying", "receiving", "gone", "dead"}]
      /\ idx \in [Sockets -> Nat] /\ client \in [Sockets -> {"new", "open", "closed"}]
      /\ holders \subseteq Sockets
  BY DEF TypeOK, Holders, Active
<1> HIDE DEF history, holders
<1>2. CASE /\ pc' = [pc EXCEPT ![w] = "receiving"]
           /\ \E n : idx' = [idx EXCEPT ![w] = n]
           /\ UNCHANGED <<client, got>>
  BY <1>1, <1>2
<1>3. CASE Die(w) /\ UNCHANGED <<idx, got>>
  BY <1>1, <1>3 DEF Die
<1>4. ASSUME ReplayNext(history, i) \in Ads,
             NEW u \in holders, Send({u}, ReplayNext(history, i)),
             pc' = [pc EXCEPT ![w] = "replaying"],
             idx' = [idx EXCEPT ![w] = i + 1], client' = client
      PROVE  /\ client'[v] = "open" => client[v] = "open"
             /\ \A a \in Ads : got[v][a] > 0 => got'[v][a] > 0
             /\ v # w => pc'[v] = pc[v] /\ idx'[v] = idx[v]
  <2>1. {u} \in SUBSET Sockets
    BY <1>1, <1>4
  <2>2. \A a \in Ads : got[v][a] > 0 => got'[v][a] > 0
    BY <1>4, <2>1, SendGets
  <2> QED BY <1>1, <1>4, <2>2
<1> QED BY <1>2, <1>3, <1>4 DEF Replay, pages, history, holders

-----------------------------------------------------------------------------
(* A board that listens after a step that was not its registration has     *)
(* listened before.                                                        *)
LEMMA HasListened ==
    ASSUME Typed, [Next]_vars, NEW w \in Sockets, Listening(w)', ~Connect(w)
    PROVE  Listening(w) /\ joined'[w] = joined[w]
<1> DEFINE c == joined'[w]
<1>1. /\ c \in Categories /\ w \in Active(table'[c]) /\ client'[w] = "open"
  <2>1. Typed'
    BY NextTyped
  <2> QED BY <2>1 DEF Listening, Typed, TypeOK
<1>2. /\ table \in [Categories -> Tables]
      /\ pc \in [Sockets -> {"new", "accepting", "replaying", "receiving", "gone", "dead"}]
      /\ joined \in [Sockets -> Categories \cup {NoCategory}]
      /\ client \in [Sockets -> {"new", "open", "closed"}]
      /\ \A v \in Sockets : pc[v] # "new" => joined[v] \in Categories
  BY DEF Typed, TypeOK
<1> HIDE DEF c
<1>3. w \in Active(table[c])
  <2>1. CASE table' = table
    BY <1>1, <2>1
  <2>2. ASSUME NEW u \in Sockets, Connect(u) PROVE w \in Active(table[c])
    <3>1. /\ joined[u] \in Categories /\ pc[u] = "accepting" /\ u # w
          /\ IsDictionary(table[joined[u]]) /\ table[joined[u]] \in Tables
      BY <1>2, <2>2 DEF Connect, Typed, Dictionaries
    <3>2. PICK t \in Puts(table[joined[u]], u) : table' = [table EXCEPT ![joined[u]] = t]
      BY <2>2 DEF Connect
    <3>3. u \in Sockets \ Active(table[joined[u]])
      BY <3>1 DEF Typed, EntriesAreJoined
    <3>4. Active(t) \subseteq Active(table[joined[u]]) \cup {u}
      BY <3>1, <3>2, <3>3, PutFacts
    <3> QED BY <1>1, <1>2, <3>1, <3>2, <3>4
  <2>3. ASSUME NEW u \in Sockets, HandleDisconnect(u) PROVE w \in Active(table[c])
    BY <1>1, <1>2, <2>3, PopKeepsEntries DEF HandleDisconnect
  <2>4. ASSUME Stop PROVE FALSE
    BY <1>1, <2>4, EmptyTableFacts DEF Stop
  <2>5. \/ table' = table
        \/ \E u \in Sockets : Connect(u) \/ HandleDisconnect(u)
        \/ Stop
    BY DEF Next, vars, managers, Join, AcceptFails, ReplayTurn, ReplayRaises, ReceiveText,
           Close, PostAd, PostAdRefused, CrashInPostAd, BroadcastTurn, BroadcastRaises,
           Crash, CrashInLookup, Restart
  <2> QED BY <2>1, <2>2, <2>3, <2>4, <2>5
<1>4. joined[w] = c /\ pc[w] \notin {"new", "accepting"}
  BY <1>1, <1>3 DEF Typed, EntriesAreJoined
<1>5. client[w] = "open"
  <2>1. CASE client' = client
    BY <1>1, <2>1
  <2>2. ASSUME NEW u \in Sockets, NEW d \in Categories, Join(u, d) PROVE client[w] = "open"
    BY <1>1, <1>2, <1>4, <2>2 DEF Join
  <2>3. ASSUME NEW u \in Sockets, client' = [client EXCEPT ![u] = "closed"]
        PROVE  client[w] = "open"
    BY <1>1, <1>2, <2>3
  <2>4. ASSUME NEW u \in Sockets, Connect(u) PROVE client[w] = "open"
    <3>1. /\ TypeOK /\ joined[u] \in Categories /\ 0 \in 0..Len(ads[joined[u]])
          /\ pc[u] = "accepting" /\ u \in Sockets \ Active(table[joined[u]])
          /\ IsDictionary(table[joined[u]]) /\ table[joined[u]] \in Tables
      <4>1. TypeOK /\ pc[u] = "accepting" /\ joined[u] \in Categories
        BY <1>2, <2>4 DEF Connect, Typed, TypeOK
      <4>2. ads[joined[u]] \in Seq(Ads \cup Texts) /\ table[joined[u]] \in Tables
        BY <4>1 DEF TypeOK
      <4>3. u \in Sockets \ Active(table[joined[u]]) /\ IsDictionary(table[joined[u]])
        BY <4>1 DEF Typed, Dictionaries, EntriesAreJoined
      <4>4. 0 \in 0..Len(ads[joined[u]])
        BY <4>2
      <4> QED BY <4>1, <4>2, <4>3, <4>4
    <3>2. PICK t \in Puts(table[joined[u]], u) : Replay(u, t, 0)
      BY <2>4 DEF Connect
    <3>3. t \in Tables
      BY <3>1, <3>2, PutFacts
    <3> QED BY <1>1, <3>1, <3>2, <3>3, ReplayKeeps
  <2>5. ASSUME NEW u \in Sockets, ReplayTurn(u) PROVE client[w] = "open"
    <3>1. /\ TypeOK /\ joined[u] \in Categories /\ idx[u] \in 0..Len(ads[joined[u]])
          /\ table[joined[u]] \in Tables /\ Replay(u, table[joined[u]], idx[u])
      BY <1>2, <2>5 DEF ReplayTurn, Typed, TypeOK, HandlersRun
    <3> QED BY <1>1, <3>1, ReplayKeeps
  <2>6. ASSUME Stop PROVE FALSE
    BY <1>1, <2>6, EmptyTableFacts DEF Stop
  <2>7. \/ client' = client
        \/ \E u \in Sockets : \/ \E d \in Categories : Join(u, d)
                              \/ client' = [client EXCEPT ![u] = "closed"]
                              \/ Connect(u)
                              \/ ReplayTurn(u)
        \/ Stop
    BY DEF Next, vars, pages, AcceptFails, ReplayRaises, ReceiveText, HandleDisconnect,
           Close, Die, PostAd, PostAdRefused, CrashInPostAd, BroadcastTurn,
           BroadcastRaises, Crash, CrashInLookup, Restart
  <2> QED BY <2>1, <2>2, <2>3, <2>4, <2>5, <2>6, <2>7
<1> QED BY <1>1, <1>3, <1>4, <1>5, BulletinAssumption DEF Listening, c

(* A board stays covered if its replay and the ad's broadcast stay as they *)
(* are, or what they leave has been written.                               *)
LEMMA StaysCovered ==
    ASSUME Typed, NEW w \in Sockets, NEW a \in Ads,
           joined[w] \in Categories, joined'[w] = joined[w], CoveredBy(w, a),
           got[w][a] > 0 => got'[w][a] > 0,
           pc'[w] = pc[w] /\ idx'[w] = idx[w],
           \A i \in DOMAIN ads[joined[w]] :
              i \in DOMAIN ads'[joined[w]] /\ ads'[joined[w]][i] = ads[joined[w]][i],
           w \in casts[a].audience \ casts[a].heard
              => w \in casts'[a].audience \ casts'[a].heard \/ got'[w][a] > 0
    PROVE  CoveredBy(w, a)'
BY DEF CoveredBy, InReplay

LEMMA ConnectMoves ==
    ASSUME Typed, NEW w \in Sockets, Connect(w)
    PROVE  pc'[w] # pc[w]
<1>1. /\ TypeOK /\ joined[w] \in Categories /\ pc[w] = "accepting"
      /\ w \in Sockets \ Active(table[joined[w]])
      /\ table[joined[w]] \in Tables /\ IsDictionary(table[joined[w]])
      /\ 0 \in 0..Len(ads[joined[w]])
  BY DEF Connect, Typed, TypeOK, Dictionaries, EntriesAreJoined
<1>2. PICK t \in Puts(table[joined[w]], w) : Replay(w, t, 0)
  BY DEF Connect
<1>3. t \in Tables
  BY <1>1, <1>2, PutFacts
<1> QED BY <1>1, <1>2, <1>3, ReplayTypes

(* A registration: the new entry is covered by its replay, the others by   *)
(* what covered them before.                                               *)
LEMMA ConnectCovers ==
    ASSUME Typed, Covered, CastsAreOK, PendingAreUnknown, [Next]_vars,
           NEW u \in Sockets, Connect(u),
           NEW w \in Sockets, Listening(w)', NEW a \in Contents(ads'[joined'[w]]) \cap Ads
    PROVE  CoveredBy(w, a)'
<1> DEFINE c == joined[u]
<1>1. /\ TypeOK /\ c \in Categories /\ pc[u] = "accepting"
      /\ table \in [Categories -> Tables] /\ table[c] \in Tables /\ IsDictionary(table[c])
      /\ u \in Sockets \ Active(table[c])
      /\ 0 \in 0..Len(ads[c])
      /\ ads' = ads /\ joined' = joined /\ sentTo' = sentTo
  <2>1. c \in Categories /\ pc[u] = "accepting" /\ ads' = ads /\ joined' = joined /\ sentTo' = sentTo
    BY DEF Connect, Typed, TypeOK
  <2>2. u \in Sockets \ Active(table[c]) /\ IsDictionary(table[c])
    BY <2>1 DEF Typed, Dictionaries, EntriesAreJoined
  <2>3. TypeOK /\ table \in [Categories -> Tables] /\ ads[c] \in Seq(Ads \cup Texts)
    BY <2>1 DEF Typed, TypeOK
  <2>4. table[c] \in Tables /\ 0 \in 0..Len(ads[c])
    BY <2>1, <2>3
  <2> QED BY <2>1, <2>2, <2>3, <2>4
<1>2. PICK t \in Puts(table[c], u) : table' = [table EXCEPT ![c] = t] /\ Replay(u, t, 0)
  BY DEF Connect
<1>3. t \in Tables /\ IsDictionary(t) /\ u \in Active(t)
  BY <1>1, <1>2, PutFacts
<1>4. \A v \in Sockets :
         /\ \A b \in Ads : got[v][b] > 0 => got'[v][b] > 0
         /\ v # u => pc'[v] = pc[v] /\ idx'[v] = idx[v]
  BY <1>1, <1>2, <1>3, ReplayKeeps
<1>5. \A b \in Ads : casts'[b].audience = casts[b].audience /\ casts'[b].heard = casts[b].heard
  <2>1. \A b \in Ads : casts[b] \in Casts
    BY <1>1 DEF TypeOK
  <2>2. \A b \in Ads : casts'[b] =
           Disturbed(casts[b], sentTo[b] = c /\ NeedsRebuild(table[c], u))
    BY DEF Connect
  <2> QED BY <2>1, <2>2 DEF Disturbed, Casts
<1>6. CASE w = u
  <2>1. client'[u] = "open" /\ a \in Contents(ads[c])
    BY <1>1, <1>6 DEF Listening
  <2>2. PICK j \in DOMAIN ads[c] : ads[c][j] = a
    BY <2>1 DEF Contents
  <2>3. j > 0
    BY <1>1, <2>2 DEF TypeOK
  <2>4. Holders(t, BoardOf[u]) = {u}
    BY <1>3 DEF Holders, IsDictionary
  <2>5. got'[u][a] > 0 \/ (pc'[u] = "replaying" /\ j > idx'[u])
    BY <1>1, <1>2, <1>3, <2>1, <2>2, <2>3, <2>4, ReplayCovers
  <2> QED BY <1>1, <1>6, <2>2, <2>5 DEF CoveredBy, InReplay
<1>7. CASE w # u
  <2>1. Listening(w) /\ joined[w] \in Categories
    <3>1. ~Connect(w)
      BY <1>4, <1>7, ConnectMoves
    <3> QED BY <3>1, HasListened DEF Listening, Typed, TypeOK
  <2>2. CoveredBy(w, a)
    BY <1>1, <2>1 DEF Covered
  <2> QED BY <1>1, <1>4, <1>5, <1>7, <2>1, <2>2, StaysCovered
<1> QED BY <1>6, <1>7

(* A turn of a replay, of the board itself or of another one.              *)
LEMMA ReplayTurnCovers ==
    ASSUME Typed, Covered, [Next]_vars, NEW u \in Sockets, ReplayTurn(u),
           NEW w \in Sockets, Listening(w)', NEW a \in Contents(ads'[joined'[w]]) \cap Ads
    PROVE  CoveredBy(w, a)'
<1> DEFINE c == joined[u]
<1>1. /\ TypeOK /\ c \in Categories /\ pc[u] = "replaying"
      /\ table[c] \in Tables /\ IsDictionary(table[c])
      /\ idx[u] \in 0..Len(ads[c])
      /\ ads' = ads /\ joined' = joined /\ casts' = casts
      /\ Replay(u, table[c], idx[u])
  BY DEF ReplayTurn, Typed, TypeOK, Dictionaries, HandlersRun, managers, requests
<1>2. /\ \A b \in Ads : got[w][b] > 0 => got'[w][b] > 0
      /\ w # u => pc'[w] = pc[w] /\ idx'[w] = idx[w]
  BY <1>1, ReplayKeeps
<1>3. Listening(w) /\ joined[w] \in Categories
  <2>1. ~Connect(w)
    <3>1. CASE w # u
      BY <1>2, <3>1, ConnectMoves
    <3>2. CASE w = u
      BY <1>1, <3>2 DEF Connect
    <3> QED BY <3>1, <3>2
  <2> QED BY <2>1, HasListened DEF Listening, Typed, TypeOK
<1>4. CoveredBy(w, a)
  BY <1>1, <1>3 DEF Covered
<1>5. CASE w = u /\ InReplay(w, a)
  <2>1. PICK j \in DOMAIN ads[c] : j > idx[u] /\ ads[c][j] = a
    BY <1>5 DEF InReplay
  <2>2. Holders(table[c], BoardOf[u]) = {u} /\ client'[u] = "open"
    BY <1>1, <1>3, <1>5 DEF Holders, IsDictionary, Listening
  <2>3. got'[u][a] > 0 \/ (pc'[u] = "replaying" /\ j > idx'[u])
    BY <1>1, <2>1, <2>2, ReplayCovers
  <2> QED BY <1>1, <1>5, <2>1, <2>3 DEF CoveredBy, InReplay
<1>6. CASE ~InReplay(w, a)
  BY <1>1, <1>2, <1>4, <1>6 DEF CoveredBy
<1>7. CASE w # u
  BY <1>1, <1>2, <1>3, <1>4, <1>7, StaysCovered
<1> QED BY <1>5, <1>6, <1>7

(* The turn of a broadcast takes a board from those still to be sent the   *)
(* ad only by writing to it.                                               *)
LEMMA BroadcastTurnCovers ==
    ASSUME Typed, Covered, CastsAreOK, PendingAreUnknown, [Next]_vars,
           NEW b \in Ads, BroadcastTurn(b),
           NEW w \in Sockets, Listening(w)', NEW a \in Contents(ads'[joined'[w]]) \cap Ads
    PROVE  CoveredBy(w, a)'
<1> DEFINE c == sentTo[b]
<1>1. /\ TypeOK /\ casts[b].st = "sending" /\ casts[b] \in Casts /\ casts \in [Ads -> Casts]
      /\ c \in Categories /\ table[c] \in Tables
      /\ ads' = ads /\ pc' = pc /\ idx' = idx
  <2>1. TypeOK /\ casts \in [Ads -> Casts] /\ casts[b] \in Casts
    BY DEF Typed, TypeOK
  <2>2. casts[b].st = "sending" /\ ads' = ads /\ pc' = pc /\ idx' = idx
    BY DEF BroadcastTurn, managers, handlers
  <2>3. c \in Categories
    BY <2>1, <2>2 DEF TypeOK, NoCast
  <2> QED BY <2>1, <2>2, <2>3 DEF TypeOK
<1>2. PICK k \in Turns(table[c], casts[b]) :
         casts' = [casts EXCEPT ![b] = k] /\ Send(WrittenBy(k), b)
  BY DEF BroadcastTurn
<1>3. WrittenBy(k) \in SUBSET Sockets /\ k.heard = casts[b].heard \cup WrittenBy(k)
  BY <1>1, <1>2, TurnTypes, TurnHears DEF Active
<1>4. /\ Listening(w) /\ joined'[w] = joined[w] /\ joined[w] \in Categories
      /\ client[w] = "open"
  <2>1. ~Connect(w)
    BY <1>1, ConnectMoves
  <2> QED BY <2>1, HasListened DEF Listening, Typed, TypeOK
<1>5. CoveredBy(w, a)
  BY <1>1, <1>4 DEF Covered
<1>6. got[w][a] > 0 => got'[w][a] > 0
  BY <1>1, <1>2, <1>3, SendGets
<1>7. w \in casts[a].audience \ casts[a].heard
         => w \in casts'[a].audience \ casts'[a].heard \/ got'[w][a] > 0
  <2>1. CASE a = b
    <3>1. casts'[b] = k /\ casts'[b].audience = casts[b].audience
      BY <1>1, <1>2, BroadcastTurnCasts
    <3>2. w \in WrittenBy(k) => got'[w][b] > 0
      BY <1>1, <1>2, <1>3, <1>4, SendGets
    <3> QED BY <1>3, <2>1, <3>1, <3>2
  <2>2. CASE a # b
    BY <1>1, <1>2, <2>2
  <2> QED BY <2>1, <2>2
<1> QED BY <1>1, <1>4, <1>5, <1>6, <1>7, StaysCovered

(* A new ad: the boards registered now are in its broadcast.               *)
LEMMA PostAdCovers ==
    ASSUME Typed, Covered, CastsAreOK, PendingAreUnknown, HistoryIsStored, StoredWasSent,
           [Next]_vars, NEW b \in Ads, NEW c \in Categories, PostAd(b, c),
           NEW w \in Sockets, Listening(w)', NEW a \in Contents(ads'[joined'[w]]) \cap Ads
    PROVE  CoveredBy(w, a)'
<1>1. /\ TypeOK /\ casts \in [Ads -> Casts] /\ table[c] \in Tables
      /\ ads \in [Categories -> Seq(Ads \cup Texts)] /\ sentTo[b] = NoCategory
      /\ table' = table /\ pc' = pc /\ idx' = idx
      /\ ads' = [ads EXCEPT ![c] = Append(@, b)]
  BY DEF Typed, TypeOK, PostAd, handlers
<1>2. PICK k \in Turns(table[c], Opened(table[c])) :
         casts' = [casts EXCEPT ![b] = k] /\ Send(WrittenBy(k), b)
  BY DEF PostAd
<1>3. /\ Opened(table[c]) \in Casts /\ Opened(table[c]).st = "sending"
      /\ Opened(table[c]).heard = {}
  BY <1>1, OpenedFacts
<1>4. WrittenBy(k) \in SUBSET Sockets /\ k.heard = WrittenBy(k)
  <2>1. WrittenBy(k) \subseteq Active(table[c])
    BY <1>1, <1>2, <1>3, TurnTypes
  <2>2. k.heard = Opened(table[c]).heard \cup WrittenBy(k)
    BY <1>1, <1>2, <1>3, TurnHears
  <2> QED BY <1>3, <2>1, <2>2 DEF Active
<1>5. /\ Listening(w) /\ joined'[w] = joined[w] /\ joined[w] \in Categories
      /\ client[w] = "open" /\ w \in Active(table[joined[w]])
  <2>1. ~Connect(w)
    BY <1>1, ConnectMoves
  <2> QED BY <2>1, HasListened DEF Listening, Typed, TypeOK
<1>6. CASE a = b /\ joined[w] = c
  <2>1. casts'[b] = k /\ casts'[b].audience = Active(table[c])
    BY <1>1, <1>2, PostAdCasts
  <2>2. w \in WrittenBy(k) => got'[w][b] > 0
    BY <1>1, <1>2, <1>4, <1>5, SendGets
  <2> QED BY <1>4, <1>5, <1>6, <2>1, <2>2 DEF CoveredBy
<1>7. CASE ~(a = b /\ joined[w] = c)
  <2>1. a \in Contents(ads[joined[w]])
    <3>1. CASE joined[w] = c
      BY <1>5, <1>7, <3>1, PostAdStores
    <3>2. CASE joined[w] # c
      BY <1>5, <3>2, PostAdStores
    <3> QED BY <3>1, <3>2
  <2>2. a # b
    <3>1. sentTo[a] = joined[w]
      BY <1>5, <2>1 DEF HistoryIsStored, StoredWasSent
    <3> QED BY <1>1, <1>5, <3>1, BulletinAssumption
  <2>3. CoveredBy(w, a)
    BY <1>5, <2>1 DEF Covered
  <2>4. got[w][a] > 0 => got'[w][a] > 0
    BY <1>1, <1>2, <1>4, SendGets
  <2>5. casts'[a] = casts[a]
    BY <1>1, <1>2, <2>2
  <2>6. \A i \in DOMAIN ads[joined[w]] :
           i \in DOMAIN ads'[joined[w]] /\ ads'[joined[w]][i] = ads[joined[w]][i]
    <3>1. ads[joined[w]] \in Seq(Ads \cup Texts)
      BY <1>1, <1>5
    <3>2. \/ ads'[joined[w]] = ads[joined[w]]
          \/ ads'[joined[w]] = Append(ads[joined[w]], b)
      BY <1>1, <1>5
    <3>3. CASE ads'[joined[w]] = ads[joined[w]]
      BY <3>3
    <3>4. CASE ads'[joined[w]] = Append(ads[joined[w]], b)
      BY <3>1, <3>4, AppendContents
    <3> QED BY <3>2, <3>3, <3>4
  <2> QED BY <1>1, <1>5, <2>3, <2>4, <2>5, <2>6, StaysCovered
<1> QED BY <1>6, <1>7

(* The steps that write nothing and register nobody.                       *)
LEMMA QuietCovers ==
    ASSUME Typed, Covered, [Next]_vars,
           NEW w \in Sockets, Listening(w)', NEW a \in Contents(ads'[joined'[w]]) \cap Ads,
           got' = got, idx' = idx, pc'[w] = pc[w],
           \/ ads' = ads
           \/ \E u \in Sockets, x \in Texts : ReceiveText(u, x),
           casts'[a].audience = casts[a].audience, casts'[a].heard = casts[a].heard
    PROVE  CoveredBy(w, a)'
<1>1. Listening(w) /\ joined'[w] = joined[w] /\ joined[w] \in Categories
  <2>1. ~Connect(w)
    BY ConnectMoves
  <2> QED BY <2>1, HasListened DEF Listening, Typed, TypeOK
<1>2. ads[joined[w]] \in Seq(Ads \cup Texts)
  BY <1>1 DEF Typed, TypeOK
<1>3. \/ ads'[joined[w]] = ads[joined[w]]
      \/ \E x \in Texts : ads'[joined[w]] = Append(ads[joined[w]], x)
  <2>1. CASE ads' = ads
    BY <2>1
  <2>2. ASSUME NEW u \in Sockets, NEW x \in Texts, ReceiveText(u, x)
        PROVE  \/ ads'[joined[w]] = ads[joined[w]]
               \/ ads'[joined[w]] = Append(ads[joined[w]], x)
    BY <1>1, <2>2 DEF ReceiveText, Typed, TypeOK
  <2> QED BY <2>1, <2>2
<1>4. /\ a \in Contents(ads[joined[w]])
      /\ \A i \in DOMAIN ads[joined[w]] :
            i \in DOMAIN ads'[joined[w]] /\ ads'[joined[w]][i] = ads[joined[w]][i]
  <2>1. CASE ads'[joined[w]] = ads[joined[w]]
    BY <1>1, <2>1
  <2>2. ASSUME NEW x \in Texts, ads'[joined[w]] = Append(ads[joined[w]], x)
        PROVE  /\ a \in Contents(ads[joined[w]])
               /\ \A i \in DOMAIN ads[joined[w]] :
                     i \in DOMAIN ads'[joined[w]] /\ ads'[joined[w]][i] = ads[joined[w]][i]
    <3>1. Contents(Append(ads[joined[w]], x)) = Contents(ads[joined[w]]) \cup {x}
      BY <1>2, AppendContents
    <3>2. a # x
      BY BulletinAssumption
    <3>3. \A i \in DOMAIN ads[joined[w]] : /\ i \in DOMAIN Append(ads[joined[w]], x)
                                           /\ Append(ads[joined[w]], x)[i] = ads[joined[w]][i]
      BY <1>2, AppendContents
    <3> QED BY <1>1, <2>2, <3>1, <3>2, <3>3
  <2> QED BY <1>3, <2>1, <2>2
<1>5. CoveredBy(w, a)
  BY <1>1, <1>4 DEF Covered
<1> QED BY <1>1, <1>4, <1>5, StaysCovered

LEMMA CoveredStep ==
    ASSUME Typed, Covered, CastsAreOK, PendingAreUnknown, HistoryIsStored, StoredWasSent,
           DownIsEmpty, [Next]_vars
    PROVE  Covered'
<1> SUFFICES ASSUME NEW w \in Sockets, Listening(w)',
                    NEW a \in Contents(ads'[joined'[w]]) \cap Ads
             PROVE  CoveredBy(w, a)'
  BY DEF Covered
<1>1. /\ joined'[w] \in Categories /\ client'[w] = "open"
      /\ w \in Active(table'[joined'[w]])
      /\ pc'[w] \notin {"new", "accepting"}
  <2>1. Typed'
    BY NextTyped
  <2> QED BY <2>1 DEF Typed, TypeOK, EntriesAreJoined, Listening
<1>2. /\ pc \in [Sockets -> {"new", "accepting", "replaying", "receiving", "gone", "dead"}]
      /\ client \in [Sockets -> {"new", "open", "closed"}]
      /\ casts \in [Ads -> Casts]
  BY DEF Typed, TypeOK
<1>3. ASSUME Stop PROVE FALSE
  BY <1>1, <1>3, EmptyTableFacts DEF Stop
<1>4. ASSUME Restart PROVE FALSE
  BY <1>1, <1>4 DEF Restart, DownIsEmpty
<1>5. ASSUME NEW u \in Sockets,
             \/ AcceptFails(u) \/ ReplayRaises(u) \/ HandleDisconnect(u) \/ Close(u)
             \/ \E c \in Categories : Join(u, c)
             \/ \E x \in Texts : ReceiveText(u, x)
      PROVE  /\ got' = got /\ idx' = idx /\ pc'[w] = pc[w] /\ casts' = casts
             /\ \/ ads' = ads
                \/ \E v \in Sockets, x \in Texts : ReceiveText(v, x)
  <2>1. ASSUME NEW c \in Categories, Join(u, c) PROVE pc'[w] = pc[w]
    BY <1>1, <1>2, <2>1 DEF Join
  <2>2. ASSUME Die(u) PROVE pc'[w] = pc[w]
    BY <1>1, <1>2, <2>2 DEF Die
  <2>3. ASSUME HandleDisconnect(u) PROVE pc'[w] = pc[w]
    BY <1>1, <1>2, <2>3 DEF HandleDisconnect, pages
  <2>4. /\ got' = got /\ idx' = idx /\ casts' = casts
        /\ \/ ads' = ads
           \/ \E v \in Sockets, x \in Texts : ReceiveText(v, x)
    BY <1>5 DEF AcceptFails, ReplayRaises, HandleDisconnect, Close, Join, ReceiveText,
                managers, handlers, pages, requests
  <2>5. \/ \E c \in Categories : Join(u, c)
        \/ Die(u)
        \/ HandleDisconnect(u)
        \/ pc' = pc
    BY <1>5 DEF AcceptFails, ReplayRaises, Close, ReceiveText, handlers
  <2> QED BY <2>1, <2>2, <2>3, <2>4, <2>5
<1>6. ASSUME NEW b \in Ads,
             \/ BroadcastRaises(b)
             \/ \E c \in Categories : PostAdRefused(b, c)
      PROVE  /\ got' = got /\ idx' = idx /\ pc' = pc /\ ads' = ads
             /\ casts'[a].audience = casts[a].audience /\ casts'[a].heard = casts[a].heard
  <2>1. got' = got /\ idx' = idx /\ pc' = pc /\ ads' = ads
    BY <1>6 DEF BroadcastRaises, PostAdRefused, managers, handlers, pages
  <2>2. casts' = casts \/ BroadcastRaises(b)
    BY <1>6 DEF PostAdRefused
  <2>3. ASSUME BroadcastRaises(b)
        PROVE  /\ casts'[a].audience = casts[a].audience
               /\ casts'[a].heard = casts[a].heard
    <3>1. /\ casts'[b].audience = casts[b].audience /\ casts'[b].heard = casts[b].heard
          /\ casts' = [casts EXCEPT ![b] = CutShort(@)]
      BY <2>3, BroadcastRaisesCasts DEF BroadcastRaises
    <3> QED BY <1>2, <3>1
  <2> QED BY <2>1, <2>2, <2>3
<1>7. CASE UNCHANGED vars
  BY <1>7, QuietCovers DEF vars, managers, handlers, pages, requests
<1>8. \/ UNCHANGED vars
      \/ \E u \in Sockets :
            \/ Connect(u)
            \/ ReplayTurn(u)
            \/ AcceptFails(u) \/ ReplayRaises(u) \/ HandleDisconnect(u) \/ Close(u)
            \/ \E c \in Categories : Join(u, c)
            \/ \E x \in Texts : ReceiveText(u, x)
      \/ \E b \in Ads :
            \/ BroadcastTurn(b)
            \/ \E c \in Categories : PostAd(b, c)
            \/ BroadcastRaises(b)
            \/ \E c \in Categories : PostAdRefused(b, c)
      \/ Stop
      \/ Restart
  BY DEF Next, Crash, CrashInLookup, CrashInPostAd
<1>9. CASE \E u \in Sockets : Connect(u)
  BY <1>9, ConnectCovers
<1>10. CASE \E u \in Sockets : ReplayTurn(u)
  BY <1>10, ReplayTurnCovers
<1>11. CASE \E b \in Ads : BroadcastTurn(b)
  BY <1>11, BroadcastTurnCovers
<1>12. CASE \E b \in Ads : \E c \in Categories : PostAd(b, c)
  BY <1>12, PostAdCovers
<1>13. CASE \E u \in Sockets :
               \/ AcceptFails(u) \/ ReplayRaises(u) \/ HandleDisconnect(u) \/ Close(u)
               \/ \E c \in Categories : Join(u, c)
               \/ \E x \in Texts : ReceiveText(u, x)
  <2>1. /\ got' = got /\ idx' = idx /\ pc'[w] = pc[w] /\ casts' = casts
        /\ \/ ads' = ads
           \/ \E v \in Sockets, x \in Texts : ReceiveText(v, x)
    BY <1>5, <1>13
  <2> QED BY <2>1, QuietCovers
<1>14. CASE \E b \in Ads : \/ BroadcastRaises(b)
                           \/ \E c \in Categories : PostAdRefused(b, c)
  <2>1. /\ got' = got /\ idx' = idx /\ pc' = pc /\ ads' = ads
        /\ casts'[a].audience = casts[a].audience /\ casts'[a].heard = casts[a].heard
    BY <1>6, <1>14
  <2> QED BY <2>1, QuietCovers
<1> QED BY <1>3, <1>4, <1>7, <1>8, <1>9, <1>10, <1>11, <1>12, <1>13, <1>14

(* A board that is still to be sent an ad has it ahead of it, or has been  *)
(* missed.                                                                 *)
LEMMA StillToBeSent ==
    ASSUME Typed, CastsAreOK, NEW w \in Sockets, Listening(w), NEW a \in Ads,
           sentTo[a] = joined[w], w \in casts[a].audience \ casts[a].heard
    PROVE  InBroadcast(w, a) \/ Missed(w, a)
<1>1. /\ joined[w] \in Categories /\ w \in Active(table[joined[w]])
      /\ casts[a] \in Casts
  BY DEF Listening, Typed, TypeOK
<1>2. CastOK(table[joined[w]], casts[a])
  BY <1>1 DEF CastsAreOK
<1>3. casts[a].st \in {"sending", "done", "aborted", "failed"}
  BY <1>1, <1>2 DEF CastOK, Casts
<1>4. CASE casts[a].moved \/ casts[a].st \in {"aborted", "failed"}
  BY <1>4 DEF Missed
<1>5. CASE ~casts[a].moved /\ casts[a].st = "sending"
  BY <1>1, <1>2, <1>5 DEF CastOK, InBroadcast
<1>6. CASE ~casts[a].moved /\ casts[a].st = "done"
  BY <1>1, <1>2, <1>6 DEF CastOK
<1> QED BY <1>3, <1>4, <1>5, <1>6

LEMMA CoveredMeansNothingFalls ==
    ASSUME Typed, Covered, CastsAreOK, HistoryIsStored, StoredWasSent
    PROVE  NothingFallsBetween
<1> SUFFICES ASSUME NEW w \in Sockets, Listening(w),
                    NEW a \in Contents(ads[joined[w]]) \cap Ads
             PROVE  got[w][a] > 0 \/ InReplay(w, a) \/ InBroadcast(w, a) \/ Missed(w, a)
  BY DEF NothingFallsBetween
<1>1. joined[w] \in Categories
  BY DEF Listening, Typed, TypeOK
<1>2. sentTo[a] = joined[w]
  BY <1>1 DEF HistoryIsStored, StoredWasSent
<1>3. CoveredBy(w, a)
  BY DEF Covered
<1> QED BY <1>2, <1>3, StillToBeSent DEF CoveredBy

(* An ad of its category that a registered board has not been written will *)
(* come to it by its own replay or by the ad's broadcast, or the broadcast *)
(* it was in from the start was cut short or rebuilt under it; add_ad's    *)
(* append before the loop and connect's entry before the replay leave no   *)
(* gap between the two, however they interleave.                           *)
THEOREM NothingIsLost == Spec => []NothingFallsBetween
<1> DEFINE Inv == /\ Covered /\ CastsAreOK /\ PendingAreUnknown
                  /\ HistoryIsStored /\ StoredWasSent /\ DownIsEmpty
<1>1. Init => Inv
  <2> SUFFICES ASSUME Init PROVE Inv
    OBVIOUS
  <2>1. Active(EmptyTable) = {}
    BY EmptyTableFacts
  <2>2. Covered
    BY DEF Init, Covered, Listening
  <2>3. CastsAreOK /\ PendingAreUnknown
    <3>1. NoCast.audience = {} /\ NoCast.heard = {}
      BY DEF NoCast
    <3> QED BY <3>1, NoCastFacts DEF Init, CastsAreOK, PendingAreUnknown
  <2>4. HistoryIsStored /\ StoredWasSent
    BY DEF Init, HistoryIsStored, StoredWasSent, Contents
  <2>5. DownIsEmpty
    BY DEF Init, DownIsEmpty
  <2> QED BY <2>2, <2>3, <2>4, <2>5
<1>2. Typed /\ Inv /\ [Next]_vars => Inv'
  BY CoveredStep, CastsStep, HistoryStep, StoredWasSentStep, DownIsEmptyStep
<1>3. Typed /\ Inv => NothingFallsBetween
  BY CoveredMeansNothingFalls
<1> HIDE DEF Inv
<1> QED BY <1>1, <1>2, <1>3, StaysTyped, PTL DEF Spec

-----------------------------------------------------------------------------
(* How often an ad is written.                                             *)

(* No ad is twice in a history or in the table behind it.                  *)
HasOnce(s) == \A i, j \in DOMAIN s : s[i] \in Ads /\ s[i] = s[j] => i = j

AdsOnce == \A c \in Categories : HasOnce(ads[c]) /\ HasOnce(store[c])

(* The replay of a handler is over, or past the place of the ad.           *)
Taken(v, a) ==
    \/ pc[v] \in {"receiving", "gone", "dead"}
    \/ /\ pc[v] = "replaying"
       /\ \E i \in DOMAIN ads[joined[v]] : i <= idx[v] /\ ads[joined[v]][i] = a

Replayers(w, a) ==
    {v \in Sockets : joined[v] = joined[w] /\ BoardOf[v] = BoardOf[w] /\ Taken(v, a)}

(* Every copy a board was written is the one of the broadcast, which has   *)
(* heard it then, or of one of the replays to its board id.                *)
CopiesCounted ==
    \A w \in Sockets, a \in Ads : got[w][a] > 0 =>
        got[w][a] <= (IF w \in casts[a].heard THEN 1 ELSE 0) + Cardinality(Replayers(w, a))

LEMMA AppendHasOnce ==
    ASSUME NEW s \in Seq(Ads \cup Texts), NEW x \in Ads \cup Texts, HasOnce(s),
           x \in Ads => x \notin Contents(s)
    PROVE  HasOnce(Append(s, x))
<1> DEFINE r == Append(s, x)
<1>1. /\ Len(s) \in Nat /\ DOMAIN s = 1..Len(s) /\ DOMAIN r = 1..(Len(s) + 1)
      /\ \A i \in DOMAIN s : r[i] = s[i]
      /\ r[Len(s) + 1] = x
  OBVIOUS
<1> HIDE DEF r
<1>2. \A i \in DOMAIN s : x \in Ads => s[i] # x
  BY DEF Contents
<1>3. ASSUME NEW i \in DOMAIN r, NEW j \in DOMAIN r, r[i] \in Ads, r[i] = r[j]
      PROVE  i = j
  <2>1. CASE i \in DOMAIN s /\ j \in DOMAIN s
    BY <1>1, <1>3, <2>1 DEF HasOnce
  <2>2. CASE i \notin DOMAIN s \/ j \notin DOMAIN s
    BY <1>1, <1>2, <1>3, <2>2
  <2> QED BY <2>1, <2>2
<1> QED BY <1>3 DEF HasOnce, r

(* While a process runs its histories only grow, by texts and by new ads.  *)
LEMMA HistoriesGrow ==
    ASSUME Typed, [Next]_vars, ~Stop, ~Restart, NEW c \in Categories
    PROVE  \/ ads'[c] = ads[c]
           \/ \E x \in Texts : ads'[c] = Append(ads[c], x)
           \/ \E a \in Ads : PostAd(a, c) /\ ads'[c] = Append(ads[c], a)
<1>1. ads \in [Categories -> Seq(Ads \cup Texts)]
  BY DEF Typed, TypeOK
<1>2. CASE ads' = ads
  BY <1>2
<1>3. ASSUME NEW w \in Sockets, NEW x \in Texts, ReceiveText(w, x)
      PROVE  ads'[c] = ads[c] \/ ads'[c] = Append(ads[c], x)
  BY <1>1, <1>3 DEF ReceiveText
<1>4. ASSUME NEW a \in Ads, NEW d \in Categories, PostAd(a, d)
      PROVE  ads'[c] = ads[c] \/ (PostAd(a, c) /\ ads'[c] = Append(ads[c], a))
  BY <1>1, <1>4 DEF PostAd
<1>5. \/ ads' = ads
      \/ \E w \in Sockets, x \in Texts : ReceiveText(w, x)
      \/ \E a \in Ads, d \in Categories : PostAd(a, d)
  BY DEF Next, vars, managers, Join, Connect, AcceptFails, ReplayTurn, ReplayRaises,
         HandleDisconnect, Close, PostAdRefused, CrashInPostAd, BroadcastTurn,
         BroadcastRaises, Crash, CrashInLookup
<1> QED BY <1>2, <1>3, <1>4, <1>5

LEMMA HistoriesKeep ==
    ASSUME Typed, [Next]_vars, ~Stop, ~Restart, NEW c \in Categories
    PROVE  /\ DOMAIN ads[c] \subseteq DOMAIN ads'[c]
           /\ \A i \in DOMAIN ads[c] : ads'[c][i] = ads[c][i]
<1>1. ads[c] \in Seq(Ads \cup Texts)
  BY DEF Typed, TypeOK
<1>2. ads'[c] = ads[c] \/ \E x \in Ads \cup Texts : ads'[c] = Append(ads[c], x)
  BY HistoriesGrow
<1> QED BY <1>1, <1>2, AppendContents

LEMMA AdsOnceStep ==
    ASSUME Typed, AdsOnce, HistoryIsStored, StoredWasSent, [Next]_vars
    PROVE  AdsOnce'
<1> SUFFICES ASSUME NEW c \in Categories
             PROVE  HasOnce(ads[c])' /\ HasOnce(store[c])'
  BY DEF AdsOnce
<1>1. /\ ads[c] \in Seq(Ads \cup Texts) /\ store[c] \in Seq(Ads)
      /\ HasOnce(ads[c]) /\ HasOnce(store[c])
      /\ Contents(ads[c]) \cap Ads \subseteq Contents(store[c])
      /\ \A a \in Ads : sentTo[a] = NoCategory => a \notin Contents(store[c])
  BY BulletinAssumption DEF Typed, TypeOK, AdsOnce, HistoryIsStored, StoredWasSent
<1>2. HasOnce(store'[c])
  <2>1. store'[c] = store[c] \/ \E a \in Ads : /\ sentTo[a] = NoCategory
                                               /\ store'[c] = Append(store[c], a)
    <3>1. store \in [Categories -> Seq(Ads)]
      BY DEF Typed, TypeOK
    <3>2. \/ store' = store
          \/ \E a \in Ads, d \in Categories : sentTo[a] = NoCategory /\ store' = StoreWith(d, a)
      BY DEF Next, vars, durable, Join, Connect, AcceptFails, ReplayTurn, ReplayRaises,
             ReceiveText, HandleDisconnect, Close, PostAd, PostAdRefused, CrashInPostAd,
             BroadcastTurn, BroadcastRaises, Crash, CrashInLookup, Restart
    <3> QED BY <3>1, <3>2 DEF StoreWith
  <2>2. store[c] \in Seq(Ads \cup Texts)
    BY <1>1
  <2> QED BY <1>1, <2>1, <2>2, AppendHasOnce
<1>3. HasOnce(ads'[c])
  <2>1. CASE ~Stop /\ ~Restart
    <3>1. \/ ads'[c] = ads[c]
          \/ \E x \in Texts : ads'[c] = Append(ads[c], x)
          \/ \E a \in Ads : sentTo[a] = NoCategory /\ ads'[c] = Append(ads[c], a)
      BY <2>1, HistoriesGrow DEF PostAd
    <3>2. ASSUME NEW x \in Texts, ads'[c] = Append(ads[c], x) PROVE HasOnce(ads'[c])
      BY <1>1, <3>2, AppendHasOnce, BulletinAssumption
    <3>3. ASSUME NEW a \in Ads, sentTo[a] = NoCategory, ads'[c] = Append(ads[c], a)
          PROVE  HasOnce(ads'[c])
      BY <1>1, <3>3, AppendHasOnce
    <3> QED BY <1>1, <3>1, <3>2, <3>3
  <2>2. CASE Stop
    BY <2>2 DEF Stop, HasOnce
  <2>3. CASE Restart
    <3>1. ads'[c] = store[c] \/ ads'[c] = <<>>
      BY <2>3 DEF Restart, Loaded
    <3> QED BY <1>1, <3>1 DEF HasOnce
  <2> QED BY <2>1, <2>2, <2>3
<1> QED BY <1>2, <1>3

(* A handler that replays has just registered, or goes on where it was.    *)
LEMMA ReplayGoesOn ==
    ASSUME Typed, [Next]_vars, NEW v \in Sockets, pc'[v] = "replaying", ~Connect(v)
    PROVE  /\ pc[v] = "replaying" /\ joined'[v] = joined[v] /\ idx[v] <= idx'[v]
           /\ ~Stop /\ ~Restart
<1>1. /\ TypeOK
      /\ pc \in [Sockets -> {"new", "accepting", "replaying", "receiving", "gone", "dead"}]
      /\ idx \in [Sockets -> Nat] /\ idx[v] \in Nat
      /\ joined \in [Sockets -> Categories \cup {NoCategory}]
      /\ \A u \in Sockets : pc[u] # "new" => joined[u] \in Categories
      /\ \A u \in Sockets : pc[u] = "replaying" => up
  BY DEF Typed, TypeOK, HandlersRun
<1>2. ASSUME Stop PROVE FALSE
  BY <1>1, <1>2 DEF Stop
<1>3. ASSUME Restart PROVE FALSE
  BY <1>1, <1>3 DEF Restart, handlers
<1>4. ASSUME pc'[v] = pc[v], joined'[v] = joined[v], idx'[v] = idx[v]
      PROVE  pc[v] = "replaying" /\ joined'[v] = joined[v] /\ idx[v] <= idx'[v]
  BY <1>1, <1>4
<1>5. ASSUME NEW u \in Sockets, \/ \E c \in Categories : Join(u, c)
                                \/ AcceptFails(u) \/ ReplayRaises(u) \/ HandleDisconnect(u)
                                \/ \E x \in Texts : ReceiveText(u, x)
      PROVE  pc'[v] = pc[v] /\ joined'[v] = joined[v] /\ idx'[v] = idx[v]
  <2>1. ASSUME NEW c \in Categories, Join(u, c)
        PROVE  pc'[v] = pc[v] /\ joined'[v] = joined[v] /\ idx'[v] = idx[v]
    BY <1>1, <2>1 DEF Join
  <2>2. ASSUME Die(u) PROVE pc'[v] = pc[v]
    BY <1>1, <2>2 DEF Die
  <2>3. ASSUME HandleDisconnect(u) PROVE pc'[v] = pc[v]
    BY <1>1, <2>3 DEF HandleDisconnect
  <2>4. \/ \E c \in Categories : Join(u, c)
        \/ joined' = joined /\ idx' = idx /\ (pc' = pc \/ Die(u) \/ HandleDisconnect(u))
    BY <1>5 DEF AcceptFails, ReplayRaises, HandleDisconnect, ReceiveText
  <2> QED BY <2>1, <2>2, <2>3, <2>4
<1>6. ASSUME NEW u \in Sockets \ {v}, Connect(u) \/ ReplayTurn(u)
      PROVE  pc'[v] = pc[v] /\ joined'[v] = joined[v] /\ idx'[v] = idx[v]
  <2>1. joined' = joined /\ joined[u] \in Categories
    BY <1>1, <1>6 DEF Connect, ReplayTurn
  <2>2. PICK t \in Tables, i \in 0..Len(ads[joined[u]]) : Replay(u, t, i)
    <3>1. /\ table[joined[u]] \in Tables /\ IsDictionary(table[joined[u]])
          /\ 0 \in 0..Len(ads[joined[u]])
      BY <2>1 DEF Typed, TypeOK, Dictionaries
    <3>2. CASE Connect(u)
      <4>1. u \in Sockets \ Active(table[joined[u]])
        BY <2>1, <3>2 DEF Connect, Typed, EntriesAreJoined
      <4> QED BY <3>1, <3>2, <4>1, PutFacts DEF Connect
    <3>3. CASE ReplayTurn(u)
      <4>1. idx[u] \in 0..Len(ads[joined[u]])
        BY <1>1, <3>3 DEF ReplayTurn, Typed, HandlersRun, TypeOK
      <4> QED BY <3>1, <3>3, <4>1 DEF ReplayTurn
    <3> QED BY <1>6, <3>2, <3>3
  <2> QED BY <1>1, <2>1, <2>2, ReplayKeeps
<1>7. ASSUME ReplayTurn(v)
      PROVE  pc[v] = "replaying" /\ joined'[v] = joined[v] /\ idx[v] <= idx'[v]
  <2>1. pc[v] = "replaying" /\ joined' = joined /\ Replay(v, table[joined[v]], idx[v])
    BY <1>7 DEF ReplayTurn
  <2>2. idx' = [idx EXCEPT ![v] = idx[v] + 1]
    BY <1>1, <2>1 DEF Replay, Die
  <2> QED BY <1>1, <2>1, <2>2
<1>8. \/ UNCHANGED <<pc, joined, idx>>
      \/ \E u \in Sockets : \/ \E c \in Categories : Join(u, c)
                            \/ AcceptFails(u) \/ ReplayRaises(u) \/ HandleDisconnect(u)
                            \/ \E x \in Texts : ReceiveText(u, x)
      \/ \E u \in Sockets \ {v} : Connect(u) \/ ReplayTurn(u)
      \/ ReplayTurn(v)
      \/ Stop
  BY DEF Next, vars, handlers, Close, PostAd, PostAdRefused, CrashInPostAd, BroadcastTurn,
         BroadcastRaises, Crash, CrashInLookup, Restart
<1> QED BY <1>2, <1>3, <1>4, <1>5, <1>6, <1>7, <1>8

(* What a replay has taken, it has taken for good.                         *)
LEMMA TakenStays ==
    ASSUME Typed, [Next]_vars, NEW v \in Sockets, NEW a \in Ads, Taken(v, a)
    PROVE  Taken(v, a)' /\ joined'[v] = joined[v]
<1>1. /\ pc \in [Sockets -> {"new", "accepting", "replaying", "receiving", "gone", "dead"}]
      /\ pc' \in [Sockets -> {"new", "accepting", "replaying", "receiving", "gone", "dead"}]
      /\ joined \in [Sockets -> Categories \cup {NoCategory}]
      /\ pc[v] \notin {"new", "accepting"} /\ joined[v] \in Categories
  <2>1. /\ pc \in [Sockets -> {"new", "accepting", "replaying", "receiving", "gone", "dead"}]
        /\ joined \in [Sockets -> Categories \cup {NoCategory}]
    BY DEF Typed, TypeOK
  <2>2. pc' \in [Sockets -> {"new", "accepting", "replaying", "receiving", "gone", "dead"}]
    BY NextTyped DEF Typed, TypeOK
  <2>3. pc[v] \notin {"new", "accepting"}
    BY DEF Taken
  <2>4. joined[v] \in Categories
    BY <2>3 DEF Typed, TypeOK
  <2> QED BY <2>1, <2>2, <2>3, <2>4
<1>2. pc'[v] \notin {"new", "accepting"}
  BY <1>1, RegisteredForGood
<1>3. joined'[v] = joined[v]
  <2>1. ASSUME NEW u \in Sockets, NEW c \in Categories, Join(u, c)
        PROVE  joined'[v] = joined[v]
    BY <1>1, <2>1 DEF Join
  <2>2. joined' = joined \/ \E u \in Sockets, c \in Categories : Join(u, c)
    BY DEF Next, vars, handlers, Connect, AcceptFails, ReplayTurn, ReplayRaises,
           ReceiveText, HandleDisconnect, Close, PostAd, PostAdRefused, CrashInPostAd,
           BroadcastTurn, BroadcastRaises, Crash, CrashInLookup, Restart, Stop
  <2> QED BY <2>1, <2>2
<1>4. CASE pc'[v] = "replaying"
  <2>1. ~Connect(v)
    BY <1>1 DEF Connect
  <2>2. pc[v] = "replaying" /\ idx[v] <= idx'[v] /\ ~Stop /\ ~Restart
    BY <1>4, <2>1, ReplayGoesOn
  <2>3. PICK i \in DOMAIN ads[joined[v]] : i <= idx[v] /\ ads[joined[v]][i] = a
    BY <2>2 DEF Taken
  <2>4. i \in DOMAIN ads'[joined[v]] /\ ads'[joined[v]][i] = a
    BY <1>1, <2>2, <2>3, HistoriesKeep
  <2>5. i <= idx'[v]
    <3>1. idx \in [Sockets -> Nat] /\ ads \in [Categories -> Seq(Ads \cup Texts)]
      BY DEF Typed, TypeOK
    <3>2. idx' \in [Sockets -> Nat]
      BY NextTyped DEF Typed, TypeOK
    <3>3. ads[joined[v]] \in Seq(Ads \cup Texts)
      BY <1>1, <3>1
    <3>4. i \in Nat
      BY <2>3, <3>3
    <3> QED BY <2>2, <2>3, <3>1, <3>2, <3>4
  <2> QED BY <1>3, <1>4, <2>4, <2>5 DEF Taken
<1> QED BY <1>1, <1>2, <1>3, <1>4 DEF Taken

(* A broadcast forgets nobody it has written to.                           *)
LEMMA HeardStays ==
    ASSUME Typed, [Next]_vars, NEW a \in Ads
    PROVE  casts[a].heard \subseteq casts'[a].heard
<1>1. /\ casts \in [Ads -> Casts] /\ table \in [Categories -> Tables]
      /\ \A b \in Ads : sentTo[b] = NoCategory => casts[b] = NoCast
      /\ sentTo \in [Ads -> Categories \cup {NoCategory}]
      /\ NoCast.heard = {} /\ NoCast.st # "sending"
  BY DEF Typed, TypeOK, NoCast
<1>2. CASE casts' = casts
  BY <1>2
<1>3. ASSUME NEW w \in Sockets, Connect(w) PROVE casts'[a].heard = casts[a].heard
  BY <1>1, <1>3 DEF Connect, Disturbed, Casts
<1>4. ASSUME NEW b \in Ads, NEW c \in Categories, PostAd(b, c)
      PROVE  casts[a].heard \subseteq casts'[a].heard
  <2>1. CASE a = b
    BY <1>1, <1>4, <2>1 DEF PostAd
  <2>2. CASE a # b
    BY <1>1, <1>4, <2>2 DEF PostAd
  <2> QED BY <2>1, <2>2
<1>5. ASSUME NEW b \in Ads, BroadcastTurn(b) PROVE casts[a].heard \subseteq casts'[a].heard
  <2>1. PICK k \in Turns(table[sentTo[b]], casts[b]) : casts' = [casts EXCEPT ![b] = k]
    BY <1>5 DEF BroadcastTurn
  <2>2. casts[b].st = "sending" /\ table[sentTo[b]] \in Tables
    BY <1>1, <1>5 DEF BroadcastTurn
  <2>3. casts[b].heard \subseteq k.heard
    BY <1>1, <2>1, <2>2, TurnHears
  <2> QED BY <1>1, <2>1, <2>3
<1>6. ASSUME NEW b \in Ads, BroadcastRaises(b) PROVE casts'[a].heard = casts[a].heard
  BY <1>1, <1>6 DEF BroadcastRaises, CutShort, Casts
<1>7. ASSUME Stop PROVE casts'[a].heard = casts[a].heard
  BY <1>1, <1>7 DEF Stop, CutShort, Casts
<1>8. \/ casts' = casts
      \/ \E w \in Sockets : Connect(w)
      \/ \E b \in Ads : \/ \E c \in Categories : PostAd(b, c)
                        \/ BroadcastTurn(b) \/ BroadcastRaises(b)
      \/ Stop
  BY DEF Next, vars, requests, Join, AcceptFails, ReplayTurn, ReplayRaises, ReceiveText,
         HandleDisconnect, Close, PostAdRefused, CrashInPostAd, Crash, CrashInLookup,
         Restart
<1> QED BY <1>2, <1>3, <1>4, <1>5, <1>6, <1>7, <1>8

(* A send is one copy, for those it is sent to.                            *)
LEMMA SendCounts ==
    ASSUME TypeOK, NEW W \in SUBSET Sockets, NEW b \in Ads, Send(W, b),
           NEW w \in Sockets, NEW a \in Ads
    PROVE  got'[w][a] = got[w][a] \/ (got'[w][a] = got[w][a] + 1 /\ w \in W /\ a = b)
<1>1. got[w] \in [Ads -> Nat]
  BY DEF TypeOK
<1>2. got'[w] = got[w] \/ (w \in W /\ got'[w] = [got[w] EXCEPT ![b] = @ + 1])
  BY DEF Send
<1> QED BY <1>1, <1>2

(* A turn of a broadcast only writes to who has not heard of it.           *)
LEMMA TurnIsNews ==
    ASSUME NEW t \in Tables, NEW k \in Casts, k.st = "sending", CastOK(t, k),
           NEW n \in Turns(t, k)
    PROVE  /\ WrittenBy(n) \subseteq Sockets
           /\ n.heard = k.heard \cup WrittenBy(n)
           /\ WrittenBy(n) \cap k.heard = {}
<1>1. n.heard = k.heard \cup WrittenBy(n) /\ WrittenBy(n) \subseteq Active(t)
  BY TurnHears, TurnTypes
<1>2. CASE n.st # "sending"
  BY <1>1, <1>2 DEF WrittenBy
<1>3. CASE n.st = "sending"
  <2>1. PICK w \in NextUp(t, k) :
           n = [k EXCEPT !.pos = t.slot[w] + 1, !.left = k.left - 1, !.at = w,
                         !.heard = k.heard \cup {w}]
    BY <1>3 DEF Turns, Casts
  <2>2. WrittenBy(n) = {w}
    BY <2>1 DEF WrittenBy, Casts
  <2>3. w \in Active(t) /\ t.slot[w] >= k.pos /\ t.slot[w] \in Nat /\ k.pos \in Nat
    BY DEF NextUp, Ahead, Active, Tables, Casts
  <2>4. w \notin k.heard
    BY <2>3 DEF CastOK
  <2> QED BY <1>1, <2>2, <2>3, <2>4 DEF Active
<1> QED BY <1>1, <1>2, <1>3 DEF Active

(* A turn of a replay that writes takes the ad it writes.                  *)
LEMMA ReplayTakes ==
    ASSUME Typed, AdsOnce, [Next]_vars, NEW u \in Sockets, Connect(u) \/ ReplayTurn(u),
           NEW w \in Sockets, NEW a \in Ads, got'[w][a] # got[w][a]
    PROVE  /\ got'[w][a] = got[w][a] + 1
           /\ joined' = joined /\ joined[u] = joined[w] /\ BoardOf[u] = BoardOf[w]
           /\ ~Taken(u, a) /\ Taken(u, a)'
<1> DEFINE c == joined[u]
           history == ads[c]
<1>1. /\ TypeOK /\ c \in Categories /\ joined' = joined /\ ads' = ads
      /\ history \in Seq(Ads \cup Texts) /\ Len(history) \in Nat
      /\ pc \in [Sockets -> {"new", "accepting", "replaying", "receiving", "gone", "dead"}]
      /\ idx \in [Sockets -> Nat]
      /\ HasOnce(history)
  <2>1. TypeOK
    BY DEF Typed
  <2>2. pc[u] \in {"accepting", "replaying"} /\ joined' = joined /\ ads' = ads
    BY DEF Connect, ReplayTurn, managers
  <2>3. c \in Categories
    BY <2>1, <2>2 DEF TypeOK
  <2>4. history \in Seq(Ads \cup Texts)
    BY <2>1, <2>3 DEF TypeOK
  <2>5. Len(history) \in Nat
    BY <2>4
  <2>6. HasOnce(history)
    BY <2>3 DEF AdsOnce
  <2>7. /\ pc \in [Sockets -> {"new", "accepting", "replaying", "receiving", "gone", "dead"}]
        /\ idx \in [Sockets -> Nat]
    BY <2>1 DEF TypeOK
  <2> QED BY <2>1, <2>2, <2>3, <2>4, <2>5, <2>6, <2>7
<1>2. PICK i \in 0..Len(history) :
         /\ Replay(u, table'[c], i)
         /\ pc[u] = "accepting" \/ (pc[u] = "replaying" /\ i = idx[u])
  <2>1. CASE Connect(u)
    <3>1. PICK t \in Puts(table[c], u) : table' = [table EXCEPT ![c] = t] /\ Replay(u, t, 0)
      BY <2>1 DEF Connect
    <3>2. table'[c] = t /\ pc[u] = "accepting"
      BY <1>1, <2>1, <3>1 DEF Connect, TypeOK
    <3>3. 0 \in 0..Len(history)
      BY <1>1
    <3> QED BY <3>1, <3>2, <3>3
  <2>2. CASE ReplayTurn(u)
    <3>1. table' = table /\ pc[u] = "replaying" /\ Replay(u, table[c], idx[u])
      BY <2>2 DEF ReplayTurn, managers
    <3>2. idx[u] \in 0..Len(history)
      BY <1>1, <3>1 DEF Typed, HandlersRun
    <3> QED BY <3>1, <3>2
  <2> QED BY <2>1, <2>2
<1> HIDE DEF c, history
<1>3. PICK x \in Holders(table'[c], BoardOf[u]) :
         /\ ~ReplayEnds(history, i) /\ ReplayNext(history, i) \in Ads
         /\ Send({x}, ReplayNext(history, i))
         /\ pc' = [pc EXCEPT ![u] = "replaying"]
         /\ idx' = [idx EXCEPT ![u] = i + 1]
  BY <1>2 DEF Replay, pages, c, history
<1>4. /\ {x} \in SUBSET Sockets /\ x \in Active(table'[c]) /\ BoardOf[x] = BoardOf[u]
  BY DEF Holders, Active
<1>5. got'[w][a] = got[w][a] + 1 /\ w = x /\ a = ReplayNext(history, i)
  <2>1. PICK b \in Ads : b = ReplayNext(history, i)
    BY <1>3
  <2>2. TypeOK /\ Send({x}, b) /\ {x} \in SUBSET Sockets
    BY <1>1, <1>3, <1>4, <2>1
  <2> DEFINE W == {x}
  <2>3. W \in SUBSET Sockets /\ Send(W, b) /\ TypeOK
    BY <2>2
  <2> HIDE DEF W
  <2>4. got'[w][a] = got[w][a] \/ (got'[w][a] = got[w][a] + 1 /\ w \in W /\ a = b)
    BY <2>3, SendCounts
  <2>5. got'[w][a] = got[w][a] \/ (got'[w][a] = got[w][a] + 1 /\ w = x /\ a = b)
    BY <2>4 DEF W
  <2> QED BY <2>1, <2>5
<1>6. joined[w] = c
  BY <1>1, <1>4, <1>5, NextTyped DEF Typed, EntriesAreJoined
<1>7. i + 1 \in DOMAIN history /\ history[i + 1] = a
  BY <1>1, <1>3, <1>5 DEF ReplayEnds, ReplayNext
<1>8. ~Taken(u, a)
  <2>1. ASSUME NEW j \in DOMAIN history, j <= idx[u], history[j] = a, i = idx[u]
        PROVE  FALSE
    BY <1>1, <1>7, <2>1 DEF HasOnce
  <2> QED BY <1>2, <2>1 DEF Taken, c, history
<1>9. Taken(u, a)'
  <2>1. pc'[u] = "replaying" /\ idx'[u] = i + 1 /\ i + 1 <= i + 1
    BY <1>1, <1>3
  <2> QED BY <1>1, <1>7, <2>1 DEF Taken, c, history
<1> QED BY <1>1, <1>4, <1>5, <1>6, <1>8, <1>9 DEF c

(* So does a turn of a broadcast: who it writes to has heard it now.       *)
LEMMA BroadcastHears ==
    ASSUME Typed, CastsAreOK, [Next]_vars,
           NEW b \in Ads, BroadcastTurn(b) \/ \E c \in Categories : PostAd(b, c),
           NEW w \in Sockets, NEW a \in Ads, got'[w][a] # got[w][a]
    PROVE  /\ got'[w][a] = got[w][a] + 1 /\ joined' = joined
           /\ w \notin casts[a].heard /\ w \in casts'[a].heard
<1>1. /\ TypeOK /\ casts \in [Ads -> Casts] /\ table \in [Categories -> Tables]
      /\ sentTo[b] = NoCategory => casts[b] = NoCast
      /\ sentTo[b] \in Categories \cup {NoCategory}
      /\ NoCast.heard = {} /\ NoCast.st # "sending"
      /\ joined' = joined
  BY DEF Typed, TypeOK, NoCast, BroadcastTurn, PostAd, handlers
<1>2. \E t \in Tables, k \in Casts : \E n \in Turns(t, k) :
         /\ k.st = "sending" /\ CastOK(t, k) /\ k.heard = casts[b].heard
         /\ casts' = [casts EXCEPT ![b] = n] /\ Send(WrittenBy(n), b)
  <2>1. CASE BroadcastTurn(b)
    <3>1. casts[b].st = "sending" /\ sentTo[b] \in Categories /\ table[sentTo[b]] \in Tables
      BY <1>1, <2>1 DEF BroadcastTurn
    <3>2. CastOK(table[sentTo[b]], casts[b])
      BY <3>1 DEF CastsAreOK
    <3> QED BY <1>1, <2>1, <3>1, <3>2 DEF BroadcastTurn
  <2>2. ASSUME NEW c \in Categories, PostAd(b, c)
        PROVE  \E t \in Tables, k \in Casts : \E n \in Turns(t, k) :
                  /\ k.st = "sending" /\ CastOK(t, k) /\ k.heard = casts[b].heard
                  /\ casts' = [casts EXCEPT ![b] = n] /\ Send(WrittenBy(n), b)
    <3>1. table[c] \in Tables /\ casts[b].heard = {}
      BY <1>1, <2>2 DEF PostAd
    <3>2. /\ Opened(table[c]) \in Casts /\ Opened(table[c]).st = "sending"
          /\ Opened(table[c]).heard = {} /\ CastOK(table[c], Opened(table[c]))
      BY <3>1, OpenedFacts
    <3> QED BY <2>2, <3>1, <3>2 DEF PostAd
  <2> QED BY <2>1, <2>2
<1>3. PICK t \in Tables, k \in Casts : \E n \in Turns(t, k) :
         /\ k.st = "sending" /\ CastOK(t, k) /\ k.heard = casts[b].heard
         /\ casts' = [casts EXCEPT ![b] = n] /\ Send(WrittenBy(n), b)
  BY <1>2
<1>4. PICK n \in Turns(t, k) : casts' = [casts EXCEPT ![b] = n] /\ Send(WrittenBy(n), b)
  BY <1>3
<1>5. /\ WrittenBy(n) \in SUBSET Sockets
      /\ n.heard = casts[b].heard \cup WrittenBy(n)
      /\ WrittenBy(n) \cap casts[b].heard = {}
  BY <1>3, <1>4, TurnIsNews
<1>6. got'[w][a] = got[w][a] + 1 /\ w \in WrittenBy(n) /\ a = b
  BY <1>1, <1>4, <1>5, SendCounts
<1> QED BY <1>1, <1>4, <1>5, <1>6

LEMMA CopiesStep ==
    ASSUME Typed, AdsOnce, CastsAreOK, ShownIsDurable, CopiesCounted, [Next]_vars
    PROVE  CopiesCounted'
<1> SUFFICES ASSUME NEW w \in Sockets, NEW a \in Ads, got'[w][a] > 0
             PROVE  got'[w][a] <= (IF w \in casts'[a].heard THEN 1 ELSE 0)
                                     + Cardinality(Replayers(w, a)')
  BY DEF CopiesCounted
<1> DEFINE R == Replayers(w, a)
           S == Replayers(w, a)'
           h == IF w \in casts[a].heard THEN 1 ELSE 0
           k == IF w \in casts'[a].heard THEN 1 ELSE 0
<1>1. got[w][a] \in Nat /\ got'[w][a] \in Nat
  BY NextTyped DEF Typed, TypeOK
<1>2. h \in 0..1 /\ k \in 0..1 /\ h <= k
  BY HeardStays
<1>3. IsFiniteSet(S) /\ Cardinality(S) \in Nat
  <2>1. S \in SUBSET Sockets
    BY DEF Replayers
  <2> QED BY <2>1, FS_Subset, FS_CardinalityType, RegistryAssumption
<1>4. got[w][a] <= h + Cardinality(R)
  <2>1. CASE got[w][a] > 0
    BY <2>1 DEF CopiesCounted
  <2>2. CASE got[w][a] = 0
    <3>1. R \in SUBSET Sockets
      BY DEF Replayers
    <3>2. Cardinality(R) \in Nat
      BY <3>1, FS_Subset, FS_CardinalityType, RegistryAssumption
    <3> HIDE DEF R, h
    <3> QED BY <1>2, <2>2, <3>2
  <2> QED BY <1>1, <2>1, <2>2
<1>5. joined'[w] = joined[w] => R \in SUBSET S
  BY TakenStays DEF Replayers
<1>6. R \in SUBSET S => Cardinality(R) <= Cardinality(S) /\ Cardinality(R) \in Nat
  <2> HIDE DEF R, S
  <2> QED BY <1>3, FS_Subset, FS_CardinalityType
<1>7. CASE got'[w][a] = got[w][a]
  <2>1. joined[w] \in Categories
    BY <1>7 DEF ShownIsDurable
  <2>2. joined'[w] = joined[w]
    <3>1. joined \in [Sockets -> Categories \cup {NoCategory}]
          /\ \A v \in Sockets : joined[v] = NoCategory <=> pc[v] = "new"
      BY DEF Typed, TypeOK
    <3>2. ASSUME NEW v \in Sockets, NEW c \in Categories, Join(v, c)
          PROVE  joined'[w] = joined[w]
      BY <2>1, <3>1, <3>2, BulletinAssumption DEF Join
    <3>3. joined' = joined \/ \E v \in Sockets, c \in Categories : Join(v, c)
      BY DEF Next, vars, handlers, Connect, AcceptFails, ReplayTurn, ReplayRaises,
             ReceiveText, HandleDisconnect, Close, PostAd, PostAdRefused, CrashInPostAd,
             BroadcastTurn, BroadcastRaises, Crash, CrashInLookup, Restart, Stop
    <3> QED BY <3>2, <3>3
  <2> HIDE DEF R, S, h, k
  <2>3. got'[w][a] <= k + Cardinality(S)
    BY <1>1, <1>2, <1>3, <1>4, <1>5, <1>6, <1>7, <2>2
  <2> QED BY <2>3 DEF S, k
<1>8. ASSUME NEW u \in Sockets, Connect(u) \/ ReplayTurn(u), got'[w][a] # got[w][a]
      PROVE  got'[w][a] <= k + Cardinality(S)
  <2>1. /\ got'[w][a] = got[w][a] + 1 /\ joined' = joined
        /\ joined[u] = joined[w] /\ BoardOf[u] = BoardOf[w]
        /\ ~Taken(u, a) /\ Taken(u, a)'
    BY <1>8, ReplayTakes
  <2>2. R \in SUBSET S /\ u \in S /\ u \notin R
    BY <1>5, <2>1 DEF Replayers
  <2> HIDE DEF R, S, h, k
  <2>3. IsFiniteSet(R) /\ Cardinality(R) \in Nat /\ R \cup {u} \in SUBSET S
    BY <1>3, <2>2, FS_Subset, FS_CardinalityType
  <2>4. Cardinality(R \cup {u}) = Cardinality(R) + 1
    BY <2>2, <2>3, FS_AddElement
  <2>5. Cardinality(R \cup {u}) <= Cardinality(S)
    BY <1>3, <2>3, FS_Subset
  <2> QED BY <1>1, <1>2, <1>3, <1>4, <2>1, <2>3, <2>4, <2>5
<1>9. ASSUME NEW b \in Ads, BroadcastTurn(b) \/ \E c \in Categories : PostAd(b, c),
             got'[w][a] # got[w][a]
      PROVE  got'[w][a] <= k + Cardinality(S)
  <2>1. /\ got'[w][a] = got[w][a] + 1 /\ joined' = joined
        /\ w \notin casts[a].heard /\ w \in casts'[a].heard
    BY <1>9, BroadcastHears
  <2>2. h = 0 /\ k = 1 /\ R \in SUBSET S
    BY <1>5, <2>1
  <2> HIDE DEF R, S, h, k
  <2> QED BY <1>1, <1>3, <1>4, <1>6, <2>1, <2>2
<1>10. \/ got' = got
       \/ \E u \in Sockets : Connect(u) \/ ReplayTurn(u)
       \/ \E b \in Ads : BroadcastTurn(b) \/ \E c \in Categories : PostAd(b, c)
  BY DEF Next, vars, pages, Join, AcceptFails, ReplayRaises, ReceiveText,
         HandleDisconnect, Close, PostAdRefused, CrashInPostAd, BroadcastRaises, Crash,
         CrashInLookup, Restart, Stop
<1> QED BY <1>7, <1>8, <1>9, <1>10

(* A board is written an ad once by its broadcast, which never comes to a  *)
(* socket twice whatever is registered and removed under it, and once by   *)
(* each replay to its board id, which passes every place of the history    *)
(* once, and the ad has one place there, also after a restart.             *)
THEOREM CopiesAreBounded == Spec => []CopiesBounded
<1> DEFINE Inv == /\ AdsOnce /\ CastsAreOK /\ PendingAreUnknown /\ Durable
                  /\ StoredWasSent /\ CopiesCounted
<1>1. Init => Inv
  <2> SUFFICES ASSUME Init PROVE Inv
    OBVIOUS
  <2>1. CastsAreOK /\ PendingAreUnknown
    <3>1. NoCast.audience = {} /\ NoCast.heard = {}
      BY DEF NoCast
    <3> QED BY <3>1, NoCastFacts DEF Init, CastsAreOK, PendingAreUnknown
  <2>2. AdsOnce /\ CopiesCounted
    BY DEF Init, AdsOnce, HasOnce, CopiesCounted
  <2>3. Durable /\ StoredWasSent
    BY DEF Init, Durable, HistoryIsStored, SentIsStored, ShownIsDurable, StoredWasSent,
           Contents, NoCast
  <2> QED BY <2>1, <2>2, <2>3
<1>2. Typed /\ Inv /\ [Next]_vars => Inv'
  BY AdsOnceStep, CastsStep, HistoryStep, SentStep, ShownStep, StoredWasSentStep, CopiesStep
     DEF Durable
<1>3. Typed /\ Inv => CopiesBounded
  <2> SUFFICES ASSUME Typed, Inv, NEW w \in Sockets, NEW a \in Ads, got[w][a] > 0
               PROVE  got[w][a] <= 1 + Cardinality({v \in Sockets : /\ joined[v] = joined[w]
                                                                    /\ BoardOf[v] = BoardOf[w]})
    BY DEF CopiesBounded
  <2> DEFINE V == {v \in Sockets : joined[v] = joined[w] /\ BoardOf[v] = BoardOf[w]}
             R == Replayers(w, a)
  <2>1. V \in SUBSET Sockets /\ R \in SUBSET V
    BY DEF Replayers
  <2>2. IsFiniteSet(V) /\ Cardinality(V) \in Nat
    <3> HIDE DEF V
    <3> QED BY <2>1, FS_Subset, FS_CardinalityType, RegistryAssumption
  <2>3. Cardinality(R) <= Cardinality(V) /\ Cardinality(R) \in Nat
    <3> HIDE DEF V, R
    <3> QED BY <2>1, <2>2, FS_Subset, FS_CardinalityType
  <2>4. got[w][a] <= (IF w \in casts[a].heard THEN 1 ELSE 0) + Cardinality(R)
    BY DEF CopiesCounted
  <2>5. got[w][a] \in Nat
    BY DEF Typed, TypeOK
  <2> HIDE DEF R, V
  <2>6. got[w][a] <= 1 + Cardinality(V)
    BY <2>2, <2>3, <2>4, <2>5
  <2> QED BY <2>6 DEF V
<1> HIDE DEF Inv
<1> QED BY <1>1, <1>2, <1>3, StaysTyped, PTL DEF Spec
-----------------------------------------------------------------------------
(* Which ad a board shows.                                                 *)

(* A broadcast that runs is of the newest ad of its category, or overtaken.*)
RunningAreNewest ==
    \A a \in Ads : casts[a].st = "sending" =>
        \E i \in DOMAIN ads[sentTo[a]] :
            /\ ads[sentTo[a]][i] = a
            /\ \A j \in DOMAIN ads[sentTo[a]] :
                  j > i /\ ads[sentTo[a]][j] \in Ads => a \in overtaken

(* It ends with its process.                                               *)
DownIsQuiet == ~up => \A a \in Ads : casts[a].st # "sending"

(* The board shows the newest ad, or is still owed it, or shows one that   *)
(* was overtaken.                                                          *)
Owed(w, a) == w \in casts[a].audience \ casts[a].heard

Fresh(w) ==
    \A i \in DOMAIN ads[joined[w]] : ads[joined[w]][i] \in Ads =>
        \/ \E j \in DOMAIN ads[joined[w]] : j >= i /\ ads[joined[w]][j] = shown[w]
        \/ Owed(w, ads[joined[w]][i])
        \/ shown[w] \in overtaken

Current == \A w \in Sockets : Listening(w) => Fresh(w) \/ LeftByReplay(w)

(* Ads are overtaken for good.                                             *)
LEMMA OvertakenGrows ==
    ASSUME [Next]_vars
    PROVE  overtaken \subseteq overtaken'
BY DEF Next, vars, requests, Join, Connect, AcceptFails, ReplayTurn, ReplayRaises,
       ReceiveText, HandleDisconnect, Close, PostAd, PostAdRefused, CrashInPostAd,
       BroadcastTurn, BroadcastRaises, Stop, Crash, CrashInLookup, Restart

LEMMA DownIsQuietStep ==
    ASSUME Typed, DownIsQuiet, [Next]_vars
    PROVE  DownIsQuiet'
<1>1. casts \in [Ads -> Casts]
  BY DEF Typed, TypeOK
<1>2. CASE up'
  BY <1>2 DEF DownIsQuiet
<1>3. CASE Stop
  BY <1>1, <1>3 DEF Stop, CutShort, Casts, DownIsQuiet
<1>4. CASE UNCHANGED <<up, casts>>
  BY <1>4 DEF DownIsQuiet
<1>5. ASSUME NEW w \in Sockets, Connect(w) PROVE up'
  BY <1>5 DEF Connect, Typed, HandlersRun, process
<1>6. ASSUME NEW a \in Ads, BroadcastTurn(a) \/ BroadcastRaises(a) PROVE up'
  BY <1>6 DEF BroadcastTurn, BroadcastRaises, DownIsQuiet, process
<1>7. ASSUME NEW a \in Ads, NEW c \in Categories, PostAd(a, c) PROVE up'
  BY <1>7 DEF PostAd, process
<1>8. \/ up'
      \/ Stop
      \/ UNCHANGED <<up, casts>>
      \/ \E w \in Sockets : Connect(w)
      \/ \E a \in Ads : \/ BroadcastTurn(a) \/ BroadcastRaises(a)
                        \/ \E c \in Categories : PostAd(a, c)
  BY DEF Next, vars, process, requests, Join, AcceptFails, ReplayTurn, ReplayRaises,
         ReceiveText, HandleDisconnect, Close, PostAdRefused, CrashInPostAd, Crash,
         CrashInLookup, Restart
<1> QED BY <1>2, <1>3, <1>4, <1>5, <1>6, <1>7, <1>8

(* A broadcast runs on, or has just begun.                                 *)
LEMMA RunsOn ==
    ASSUME Typed, DownIsQuiet, [Next]_vars, NEW a \in Ads, casts'[a].st = "sending",
           ~ \E c \in Categories : PostAd(a, c)
    PROVE  /\ casts[a].st = "sending" /\ sentTo'[a] = sentTo[a] /\ sentTo[a] \in Categories
           /\ ~Stop /\ ~Restart
<1>1. /\ casts \in [Ads -> Casts] /\ sentTo \in [Ads -> Categories \cup {NoCategory}]
      /\ sentTo[a] = NoCategory => casts[a].st # "sending"
  BY DEF Typed, TypeOK, NoCast
<1>2. ASSUME Stop PROVE FALSE
  BY <1>1, <1>2 DEF Stop, CutShort, Casts
<1>3. ASSUME Restart PROVE FALSE
  BY <1>3 DEF Restart, requests, DownIsQuiet
<1>4. casts[a].st = "sending"
  <2>1. ASSUME NEW w \in Sockets, Connect(w) PROVE casts[a].st = "sending"
    BY <1>1, <2>1 DEF Connect, Disturbed, Casts
  <2>2. ASSUME NEW b \in Ads, NEW c \in Categories, PostAd(b, c)
        PROVE  casts[a].st = "sending"
    <3>1. a # b
      BY <2>2
    <3> QED BY <1>1, <2>2, <3>1 DEF PostAd
  <2>3. ASSUME NEW b \in Ads, BroadcastTurn(b) \/ BroadcastRaises(b)
        PROVE  casts[a].st = "sending"
    <3>1. casts[b].st = "sending" /\ \E k : casts' = [casts EXCEPT ![b] = k]
      BY <2>3 DEF BroadcastTurn, BroadcastRaises
    <3> QED BY <1>1, <3>1
  <2>4. \/ casts' = casts
        \/ \E w \in Sockets : Connect(w)
        \/ \E b \in Ads : \/ \E c \in Categories : PostAd(b, c)
                          \/ BroadcastTurn(b) \/ BroadcastRaises(b)
    BY <1>2 DEF Next, vars, requests, Join, AcceptFails, ReplayTurn, ReplayRaises,
           ReceiveText, HandleDisconnect, Close, PostAdRefused, CrashInPostAd, Crash,
           CrashInLookup, Restart
  <2> QED BY <2>1, <2>2, <2>3, <2>4
<1>5. sentTo'[a] = sentTo[a] /\ sentTo[a] \in Categories
  <2>1. ASSUME NEW b \in Ads, NEW c \in Categories, sentTo[b] = NoCategory,
               sentTo' = [sentTo EXCEPT ![b] = c]
        PROVE  sentTo'[a] = sentTo[a]
    BY <1>1, <1>4, <2>1
  <2>2. ASSUME NEW b \in Ads, NEW c \in Categories,
               PostAd(b, c) \/ PostAdRefused(b, c) \/ CrashInPostAd(b, c)
        PROVE  sentTo[b] = NoCategory /\ sentTo' = [sentTo EXCEPT ![b] = c]
    BY <2>2 DEF PostAd, PostAdRefused, CrashInPostAd
  <2>3. \/ sentTo' = sentTo
        \/ \E b \in Ads, c \in Categories :
              PostAd(b, c) \/ PostAdRefused(b, c) \/ CrashInPostAd(b, c)
    BY DEF Next, vars, requests, Join, Connect, AcceptFails, ReplayTurn, ReplayRaises,
           ReceiveText, HandleDisconnect, Close, BroadcastTurn, BroadcastRaises, Crash,
           CrashInLookup, Restart
  <2> QED BY <1>1, <1>4, <2>1, <2>2, <2>3
<1> QED BY <1>2, <1>3, <1>4, <1>5

LEMMA RunningStep ==
    ASSUME Typed, DownIsQuiet, RunningAreNewest, [Next]_vars
    PROVE  RunningAreNewest'
<1> SUFFICES ASSUME NEW a \in Ads, casts'[a].st = "sending"
             PROVE  \E i \in DOMAIN ads'[sentTo'[a]] :
                       /\ ads'[sentTo'[a]][i] = a
                       /\ \A j \in DOMAIN ads'[sentTo'[a]] :
                             j > i /\ ads'[sentTo'[a]][j] \in Ads => a \in overtaken'
  BY DEF RunningAreNewest
<1>1. ASSUME NEW c \in Categories, PostAd(a, c)
      PROVE  \E i \in DOMAIN ads'[sentTo'[a]] :
                /\ ads'[sentTo'[a]][i] = a
                /\ \A j \in DOMAIN ads'[sentTo'[a]] : j <= i
  <2>1. /\ sentTo'[a] = c /\ ads[c] \in Seq(Ads \cup Texts)
        /\ ads'[c] = Append(ads[c], a)
    BY <1>1 DEF PostAd, Typed, TypeOK
  <2>2. Len(ads[c]) + 1 \in DOMAIN ads'[c] /\ ads'[c][Len(ads[c]) + 1] = a
        /\ \A j \in DOMAIN ads'[c] : j <= Len(ads[c]) + 1
    BY <2>1
  <2> QED BY <2>1, <2>2
<1>2. CASE \E c \in Categories : PostAd(a, c)
  <2>1. PICK i \in DOMAIN ads'[sentTo'[a]] :
            /\ ads'[sentTo'[a]][i] = a
            /\ \A j \in DOMAIN ads'[sentTo'[a]] : j <= i
    BY <1>1, <1>2
  <2>2. \A j \in DOMAIN ads'[sentTo'[a]] : ~(j > i)
    <3>1. sentTo'[a] \in Categories
      BY <1>2 DEF PostAd, Typed, TypeOK
    <3>2. ads' \in [Categories -> Seq(Ads \cup Texts)]
      BY NextTyped DEF Typed, TypeOK
    <3>3. ads'[sentTo'[a]] \in Seq(Ads \cup Texts)
      BY <3>1, <3>2
    <3> QED BY <2>1, <3>3
  <2> QED BY <2>1, <2>2
<1>3. CASE ~ \E c \in Categories : PostAd(a, c)
  <2> DEFINE c == sentTo[a]
  <2>1. /\ casts[a].st = "sending" /\ sentTo'[a] = c /\ c \in Categories
        /\ ~Stop /\ ~Restart
    BY <1>3, RunsOn
  <2>2. PICK i \in DOMAIN ads[c] :
           /\ ads[c][i] = a
           /\ \A j \in DOMAIN ads[c] : j > i /\ ads[c][j] \in Ads => a \in overtaken
    BY <2>1 DEF RunningAreNewest
  <2>3. ads[c] \in Seq(Ads \cup Texts)
    BY <2>1 DEF Typed, TypeOK
  <2> HIDE DEF c
  <2>4. i \in DOMAIN ads'[c] /\ ads'[c][i] = a
    BY <2>1, <2>2, HistoriesKeep
  <2>5. ASSUME NEW j \in DOMAIN ads'[c], j > i, ads'[c][j] \in Ads
        PROVE  a \in overtaken'
    <3>1. CASE j \in DOMAIN ads[c]
      BY <2>1, <2>2, <2>5, <3>1, HistoriesKeep, OvertakenGrows
    <3>2. ASSUME NEW x \in Texts, ads'[c] = Append(ads[c], x)
          PROVE  j \in DOMAIN ads[c]
      BY <2>3, <2>5, <3>2, BulletinAssumption
    <3>3. ASSUME NEW b \in Ads, PostAd(b, c) PROVE a \in overtaken'
      BY <2>1, <3>3 DEF PostAd, c
    <3>4. \/ ads'[c] = ads[c]
          \/ \E x \in Texts : ads'[c] = Append(ads[c], x)
          \/ \E b \in Ads : PostAd(b, c)
      BY <2>1, HistoriesGrow
    <3> QED BY <3>1, <3>2, <3>3, <3>4
  <2> QED BY <2>1, <2>4, <2>5
<1> QED BY <1>2, <1>3

(* A board stays fresh if it goes on to show what it showed, is not let    *)
(* off what it is owed, and is owed what is new.                           *)
LEMMA FreshStays ==
    ASSUME NEW w \in Sockets, Fresh(w), joined'[w] = joined[w], shown'[w] = shown[w],
           overtaken \subseteq overtaken',
           \A i \in DOMAIN ads[joined[w]] :
              i \in DOMAIN ads'[joined[w]] /\ ads'[joined[w]][i] = ads[joined[w]][i],
           \A i \in DOMAIN ads'[joined[w]] : ads'[joined[w]][i] \in Ads =>
              \/ i \in DOMAIN ads[joined[w]]
              \/ \E a \in Ads : a = ads'[joined[w]][i] /\ Owed(w, a)',
           \A a \in Ads : Owed(w, a) => Owed(w, a)'
    PROVE  Fresh(w)'
<1> DEFINE history == ads[joined[w]]
<1>1. \A i \in DOMAIN history : i \in DOMAIN history' /\ history'[i] = history[i]
  OBVIOUS
<1>2. \A i \in DOMAIN history' : history'[i] \in Ads =>
         \/ i \in DOMAIN history
         \/ \E a \in Ads : a = history'[i] /\ Owed(w, a)'
  OBVIOUS
<1>3. \A i \in DOMAIN history : history[i] \in Ads =>
        \/ \E j \in DOMAIN history : j >= i /\ history[j] = shown[w]
        \/ Owed(w, history[i])
        \/ shown[w] \in overtaken
  BY DEF Fresh
<1> HIDE DEF history
<1>4. ASSUME NEW i \in DOMAIN history', history'[i] \in Ads
      PROVE  \/ \E j \in DOMAIN history' : j >= i /\ history'[j] = shown'[w]
             \/ \E a \in Ads : a = history'[i] /\ Owed(w, a)'
             \/ shown'[w] \in overtaken'
  <2>1. CASE i \in DOMAIN history /\ ~Owed(w, history[i])
    BY <1>1, <1>3, <1>4, <2>1
  <2>2. CASE i \in DOMAIN history /\ Owed(w, history[i])
    BY <1>1, <1>4, <2>2
  <2> QED BY <1>2, <1>4, <2>1, <2>2
<1> QED BY <1>4 DEF Fresh, Owed, history

(* So does a board that a replay has left with the ad it shows.            *)
LEMMA LeftStays ==
    ASSUME NEW w \in Sockets, joined'[w] = joined[w], shown'[w] = shown[w],
           NEW v \in Sockets, joined[v] = joined[w], BoardOf[v] = BoardOf[w], at[v] = w,
           idx[v] \in DOMAIN ads[joined[w]], ads[joined[w]][idx[v]] = shown[w],
           joined'[v] = joined[v], at'[v] = at[v], idx'[v] = idx[v],
           pc'[v] \in {"replaying", "dead"},
           \A i \in DOMAIN ads[joined[w]] :
              i \in DOMAIN ads'[joined[w]] /\ ads'[joined[w]][i] = ads[joined[w]][i]
    PROVE  LeftByReplay(w)'
BY DEF LeftByReplay

(* What a turn of a replay does to the board it holds the id of.           *)
LEMMA ReplayLeaves ==
    ASSUME TypeOK, NEW u \in Sockets, joined[u] \in Categories,
           NEW t \in Tables, NEW i \in 0..Len(ads[joined[u]]), Replay(u, t, i),
           NEW w \in Sockets, client[w] = "open"
    PROVE  /\ \A v \in Sockets \ {u} : at'[v] = at[v]
           /\ w \notin Holders(t, BoardOf[u]) => shown'[w] = shown[w]
           /\ Holders(t, BoardOf[u]) = {w} =>
                 \/ i = Len(ads[joined[u]]) /\ shown'[w] = shown[w]
                 \/ /\ shown'[w] = shown[w] /\ idx' = idx /\ at' = at
                    /\ pc'[u] = "dead" /\ client'[u] = "closed"
                 \/ /\ pc'[u] = "replaying" /\ at'[u] = w
                    /\ idx'[u] \in DOMAIN ads[joined[u]]
                    /\ shown'[w] = ads[joined[u]][idx'[u]]
<1>1. /\ ads[joined[u]] \in Seq(Ads \cup Texts) /\ Len(ads[joined[u]]) \in Nat /\ i \in Nat
      /\ pc \in [Sockets -> {"new", "accepting", "replaying", "receiving", "gone", "dead"}]
      /\ idx \in [Sockets -> Nat] /\ client \in [Sockets -> {"new", "open", "closed"}]
      /\ at \in [Sockets -> Sockets \cup {NoSocket}]
      /\ Holders(t, BoardOf[u]) \subseteq Sockets
  BY DEF TypeOK, Holders, Active
<1> DEFINE Over == /\ ReplayEnds(ads[joined[u]], i) \/ Holders(t, BoardOf[u]) = {}
                   /\ at' = [at EXCEPT ![u] = NoSocket]
                   /\ UNCHANGED pages
           Broken == Die(u) /\ UNCHANGED <<idx, at, got, shown>>
           Written(v) == /\ ~ReplayEnds(ads[joined[u]], i)
                         /\ Send({v}, ReplayNext(ads[joined[u]], i))
                         /\ at' = [at EXCEPT ![u] = v]
                         /\ pc' = [pc EXCEPT ![u] = "replaying"]
                         /\ idx' = [idx EXCEPT ![u] = i + 1]
<1>2. Over \/ Broken \/ \E v \in Holders(t, BoardOf[u]) : Written(v)
  BY DEF Replay
<1>3. CASE Over
  BY <1>1, <1>3 DEF ReplayEnds, pages
<1>4. CASE Broken
  BY <1>1, <1>4 DEF Die
<1>5. ASSUME NEW v \in Holders(t, BoardOf[u]), Written(v)
      PROVE  /\ shown'[w] = IF w = v THEN ads[joined[u]][i + 1] ELSE shown[w]
             /\ pc'[u] = "replaying" /\ idx'[u] = i + 1 /\ i + 1 \in DOMAIN ads[joined[u]]
             /\ at'[u] = v /\ \A x \in Sockets \ {u} : at'[x] = at[x]
  <2>1. shown'[w] = IF w = v THEN ads[joined[u]][i + 1] ELSE shown[w]
    BY <1>5 DEF Send, ReplayNext
  <2>2. i + 1 \in DOMAIN ads[joined[u]]
    BY <1>1, <1>5 DEF ReplayEnds
  <2> QED BY <1>1, <1>5, <2>1, <2>2
<1> HIDE DEF Over, Broken, Written
<1>6. CASE \E v \in Holders(t, BoardOf[u]) : Written(v)
  <2>1. PICK v \in Holders(t, BoardOf[u]) :
           /\ shown'[w] = IF w = v THEN ads[joined[u]][i + 1] ELSE shown[w]
           /\ pc'[u] = "replaying" /\ idx'[u] = i + 1 /\ i + 1 \in DOMAIN ads[joined[u]]
           /\ at'[u] = v /\ \A x \in Sockets \ {u} : at'[x] = at[x]
    BY <1>5, <1>6
  <2> QED BY <2>1
<1> QED BY <1>2, <1>3, <1>4, <1>6

(* A registration and a turn of a replay, in the same words.               *)
LEMMA ReplayIsOneStep ==
    ASSUME Typed, CastsAreOK, [Next]_vars,
           NEW u \in Sockets, Connect(u) \/ ReplayTurn(u)
    PROVE  /\ joined[u] \in Categories /\ ads' = ads /\ joined' = joined
           /\ overtaken' = overtaken
           /\ \A w \in Sockets, a \in Ads : Owed(w, a) => Owed(w, a)'
           /\ \E i \in 0..Len(ads[joined[u]]) :
                 /\ Replay(u, table'[joined[u]], i)
                 /\ Connect(u) => i = 0
                 /\ ReplayTurn(u) => i = idx[u]
<1> DEFINE c == joined[u]
<1>1. /\ TypeOK /\ c \in Categories /\ joined' = joined /\ ads' = ads /\ overtaken' = overtaken
      /\ table \in [Categories -> Tables]
      /\ ads[c] \in Seq(Ads \cup Texts) /\ Len(ads[c]) \in Nat /\ casts \in [Ads -> Casts]
  BY DEF Typed, TypeOK, Connect, ReplayTurn, managers, requests
<1>2. CASE Connect(u)
  <2>1. PICK t \in Puts(table[c], u) : table' = [table EXCEPT ![c] = t] /\ Replay(u, t, 0)
    BY <1>2 DEF Connect
  <2>2. table'[c] = t /\ pc[u] = "accepting" /\ 0 \in 0..Len(ads[c])
    BY <1>1, <1>2, <2>1 DEF Connect
  <2>3. ~ReplayTurn(u)
    BY <2>2 DEF ReplayTurn
  <2>4. \A a \in Ads : casts'[a].audience = casts[a].audience /\ casts'[a].heard = casts[a].heard
    <3>1. \A a \in Ads : casts'[a] =
             Disturbed(casts[a], sentTo[a] = c /\ NeedsRebuild(table[c], u))
      BY <1>2 DEF Connect
    <3> QED BY <1>1, <3>1 DEF Disturbed, Casts
  <2> QED BY <1>1, <2>1, <2>2, <2>3, <2>4 DEF Owed
<1>3. CASE ReplayTurn(u)
  <2>1. /\ table' = table /\ casts' = casts /\ pc[u] = "replaying"
        /\ Replay(u, table[c], idx[u])
    BY <1>3 DEF ReplayTurn, managers, requests
  <2>2. idx[u] \in 0..Len(ads[c])
    BY <1>1, <2>1 DEF Typed, TypeOK, HandlersRun
  <2>3. ~Connect(u)
    BY <2>1 DEF Connect
  <2> QED BY <1>1, <2>1, <2>2, <2>3 DEF Owed
<1> QED BY <1>2, <1>3

(* A registration or a turn of a replay leaves every board that listens    *)
(* with an ad a replay has just written to it, or as fresh as it was.      *)
LEMMA ReplayCurrent ==
    ASSUME Typed, Current, CastsAreOK, [Next]_vars,
           NEW u \in Sockets, Connect(u) \/ ReplayTurn(u),
           NEW w \in Sockets, Listening(w)'
    PROVE  (Fresh(w) \/ LeftByReplay(w))'
<1>1. /\ joined[u] \in Categories /\ ads' = ads /\ joined' = joined
      /\ overtaken' = overtaken
      /\ \A a \in Ads : Owed(w, a) => Owed(w, a)'
      /\ TypeOK /\ ads[joined[u]] \in Seq(Ads \cup Texts) /\ Len(ads[joined[u]]) \in Nat
  BY ReplayIsOneStep DEF Typed, TypeOK
<1>2. PICK i \in 0..Len(ads[joined[u]]) :
         /\ Replay(u, table'[joined[u]], i)
         /\ Connect(u) => i = 0
         /\ ReplayTurn(u) => i = idx[u]
  BY ReplayIsOneStep
<1>3. /\ table'[joined[u]] \in Tables /\ IsDictionary(table'[joined[u]])
      /\ joined[w] \in Categories /\ w \in Active(table'[joined[w]]) /\ client'[w] = "open"
      /\ \A x \in Active(table'[joined[u]]) : joined[x] = joined[u]
  <2>1. Typed'
    BY NextTyped
  <2>2. table'[joined[u]] \in Tables /\ IsDictionary(table'[joined[u]])
    BY <1>1, <2>1 DEF Typed, TypeOK, Dictionaries
  <2>3. \A x \in Active(table'[joined[u]]) : joined[x] = joined[u]
    BY <1>1, <2>1 DEF Typed, EntriesAreJoined
  <2>4. joined[w] \in Categories /\ w \in Active(table'[joined[w]]) /\ client'[w] = "open"
    BY <1>1, <2>1 DEF Typed, TypeOK, Listening
  <2> QED BY <2>2, <2>3, <2>4
<1>4. /\ client[w] = "open"
      /\ \A v \in Sockets \ {u} : pc'[v] = pc[v] /\ idx'[v] = idx[v]
  BY <1>1, <1>2, <1>3, ReplayKeeps
<1> DEFINE held == joined[w] = joined[u] /\ BoardOf[w] = BoardOf[u]
<1>5. held => Holders(table'[joined[u]], BoardOf[u]) = {w}
  BY <1>3 DEF Holders, IsDictionary
<1>6. ~held => w \notin Holders(table'[joined[u]], BoardOf[u])
  BY <1>3 DEF Holders
<1>7. /\ \A v \in Sockets \ {u} : at'[v] = at[v]
      /\ ~held => shown'[w] = shown[w]
  BY <1>1, <1>2, <1>3, <1>4, <1>6, ReplayLeaves
<1>11. held =>
        \/ i = Len(ads[joined[u]]) /\ shown'[w] = shown[w]
        \/ /\ shown'[w] = shown[w] /\ idx' = idx /\ at' = at
           /\ pc'[u] = "dead" /\ client'[u] = "closed"
        \/ /\ pc'[u] = "replaying" /\ at'[u] = w
           /\ idx'[u] \in DOMAIN ads[joined[u]]
           /\ shown'[w] = ads[joined[u]][idx'[u]]
  BY <1>1, <1>2, <1>3, <1>4, <1>5, ReplayLeaves
<1>8. CASE /\ held /\ pc'[u] = "replaying" /\ at'[u] = w
           /\ idx'[u] \in DOMAIN ads[joined[u]]
           /\ shown'[w] = ads[joined[u]][idx'[u]]
  BY <1>1, <1>8 DEF LeftByReplay
<1>9. CASE Connect(w)
  <2>1. u = w /\ i = 0 /\ held
    <3>1. ASSUME u # w PROVE FALSE
      BY <1>4, <1>9, <3>1, ConnectMoves
    <3> QED BY <1>2, <1>9, <3>1
  <2>2. CASE i = Len(ads[joined[u]])
    <3>1. DOMAIN ads'[joined'[w]] = {}
      BY <1>1, <2>1, <2>2
    <3> QED BY <3>1 DEF Fresh
  <2> QED BY <1>3, <1>8, <1>11, <2>1, <2>2
<1>10. CASE ~Connect(w) /\ shown'[w] = shown[w]
  <2>1. Listening(w)
    BY <1>10, HasListened
  <2>2. CASE Fresh(w)
    BY <1>1, <1>3, <1>10, <2>2, FreshStays
  <2>3. CASE LeftByReplay(w)
    <3>1. PICK v \in Sockets :
             /\ joined[v] = joined[w] /\ BoardOf[v] = BoardOf[w] /\ at[v] = w
             /\ pc[v] \in {"replaying", "dead"}
             /\ idx[v] \in DOMAIN ads[joined[w]] /\ ads[joined[w]][idx[v]] = shown[w]
      BY <2>3 DEF LeftByReplay
    <3>2. CASE v # u
      BY <1>1, <1>4, <1>7, <1>10, <3>1, <3>2, LeftStays
    <3>3. CASE v = u
      <4>1. held /\ i = idx[u]
        BY <1>2, <3>1, <3>3 DEF Connect
      <4>2. CASE i = Len(ads[joined[u]])
        <5>1. \A k \in DOMAIN ads'[joined'[w]] : i >= k
          BY <1>1, <4>1, <4>2
        <5>2. i \in DOMAIN ads'[joined'[w]] /\ ads'[joined'[w]][i] = shown'[w]
          BY <1>1, <1>10, <3>1, <3>3, <4>1
        <5> QED BY <5>1, <5>2 DEF Fresh
      <4>3. CASE idx' = idx /\ at' = at /\ pc'[u] = "dead"
        BY <1>1, <1>10, <3>1, <3>3, <4>3, LeftStays
      <4> QED BY <1>8, <1>11, <4>1, <4>2, <4>3
    <3> QED BY <3>2, <3>3
  <2> QED BY <2>1, <2>2, <2>3 DEF Current
<1> QED BY <1>7, <1>8, <1>9, <1>10, <1>11
(* A board a broadcast has just written to shows the newest ad, or one     *)
(* that was overtaken.                                                     *)
LEMMA BroadcastIsFresh ==
    ASSUME NEW w \in Sockets, NEW a \in Ads, shown'[w] = a,
           NEW c \in Categories, joined'[w] = c, ads'[c] \in Seq(Ads \cup Texts),
           NEW i \in DOMAIN ads'[c], ads'[c][i] = a,
           \A j \in DOMAIN ads'[c] : j > i /\ ads'[c][j] \in Ads => a \in overtaken'
    PROVE  Fresh(w)'
<1>1. ASSUME NEW j \in DOMAIN ads'[c], ads'[c][j] \in Ads
      PROVE  i >= j \/ a \in overtaken'
  <2>1. i \in Nat /\ j \in Nat
    OBVIOUS
  <2> QED BY <1>1, <2>1
<1> QED BY <1>1 DEF Fresh

LEMMA BroadcastTurnCurrent ==
    ASSUME Typed, Current, CastsAreOK, PendingAreUnknown, RunningAreNewest, [Next]_vars,
           NEW b \in Ads, BroadcastTurn(b), NEW w \in Sockets, Listening(w)'
    PROVE  (Fresh(w) \/ LeftByReplay(w))'
<1> DEFINE c == sentTo[b]
<1>1. /\ TypeOK /\ casts[b].st = "sending" /\ casts[b] \in Casts /\ casts \in [Ads -> Casts]
      /\ c \in Categories /\ table[c] \in Tables /\ ads[c] \in Seq(Ads \cup Texts)
      /\ ads' = ads /\ pc' = pc /\ idx' = idx /\ at' = at /\ joined' = joined
      /\ overtaken' = overtaken
  BY DEF Typed, TypeOK, BroadcastTurn, NoCast, managers, handlers
<1>2. PICK k \in Turns(table[c], casts[b]) :
         casts' = [casts EXCEPT ![b] = k] /\ Send(WrittenBy(k), b)
  BY DEF BroadcastTurn
<1>3. /\ WrittenBy(k) \subseteq Active(table[c])
      /\ k.heard = casts[b].heard \cup WrittenBy(k)
      /\ casts'[b] = k /\ k.audience = casts[b].audience
  BY <1>1, <1>2, TurnTypes, TurnHears, BroadcastTurnCasts
<1>4. Listening(w) /\ client[w] = "open" /\ joined[w] \in Categories
  <2>1. ~Connect(w)
    BY <1>1, ConnectMoves
  <2> QED BY <2>1, HasListened DEF Listening, Typed, TypeOK
<1>5. shown'[w] = IF w \in WrittenBy(k) THEN b ELSE shown[w]
  BY <1>2, <1>4 DEF Send
<1>6. CASE w \in WrittenBy(k)
  <2>1. joined[w] = c
    BY <1>1, <1>3, <1>6 DEF Typed, EntriesAreJoined
  <2>2. PICK i \in DOMAIN ads[c] :
           /\ ads[c][i] = b
           /\ \A j \in DOMAIN ads[c] : j > i /\ ads[c][j] \in Ads => b \in overtaken
    BY <1>1 DEF RunningAreNewest
  <2> HIDE DEF c
  <2>3. Fresh(w)'
    BY <1>1, <1>5, <1>6, <2>1, <2>2, BroadcastIsFresh
  <2> QED BY <2>3
<1>7. CASE w \notin WrittenBy(k)
  <2>1. \A a \in Ads : Owed(w, a) => Owed(w, a)'
    <3>1. \A a \in Ads \ {b} : casts'[a] = casts[a]
      BY <1>1, <1>2
    <3> QED BY <1>3, <1>7, <3>1 DEF Owed
  <2>2. CASE Fresh(w)
    BY <1>1, <1>5, <1>7, <2>1, <2>2, FreshStays
  <2>3. CASE LeftByReplay(w)
    BY <1>1, <1>5, <1>7, <2>3 DEF LeftByReplay
  <2> QED BY <1>4, <2>2, <2>3 DEF Current
<1> QED BY <1>6, <1>7

(* A new ad is shown by the board it is written to at once; it is owed to  *)
(* the other boards of its category.                                       *)
LEMMA PostAdCurrent ==
    ASSUME Typed, Current, CastsAreOK, PendingAreUnknown, [Next]_vars,
           NEW b \in Ads, NEW c \in Categories, PostAd(b, c),
           NEW w \in Sockets, Listening(w)'
    PROVE  (Fresh(w) \/ LeftByReplay(w))'
<1>1. /\ TypeOK /\ casts \in [Ads -> Casts] /\ table[c] \in Tables
      /\ ads \in [Categories -> Seq(Ads \cup Texts)] /\ casts[b] = NoCast
      /\ table' = table /\ pc' = pc /\ idx' = idx /\ at' = at /\ joined' = joined
      /\ ads' = [ads EXCEPT ![c] = Append(@, b)]
  BY DEF Typed, TypeOK, PostAd, handlers
<1>2. PICK k \in Turns(table[c], Opened(table[c])) :
         casts' = [casts EXCEPT ![b] = k] /\ Send(WrittenBy(k), b)
  BY DEF PostAd
<1>3. /\ Opened(table[c]) \in Casts /\ Opened(table[c]).st = "sending"
      /\ Opened(table[c]).heard = {}
  BY <1>1, OpenedFacts
<1>4. /\ WrittenBy(k) \subseteq Active(table[c])
      /\ k.heard = WrittenBy(k)
      /\ casts'[b] = k /\ k.audience = Active(table[c])
  <2>1. k.heard = Opened(table[c]).heard \cup WrittenBy(k)
    BY <1>1, <1>2, <1>3, TurnHears
  <2>2. WrittenBy(k) \subseteq Active(table[c])
    BY <1>1, <1>2, <1>3, TurnTypes
  <2>3. casts'[b] = k
    BY <1>1, <1>2
  <2> QED BY <1>3, <2>1, <2>2, <2>3, PostAdCasts
<1>5. /\ Listening(w) /\ client[w] = "open" /\ joined[w] \in Categories
      /\ w \in Active(table[joined[w]])
  <2>1. ~Connect(w)
    BY <1>1, ConnectMoves
  <2> QED BY <2>1, HasListened DEF Listening, Typed, TypeOK
<1>6. shown'[w] = IF w \in WrittenBy(k) THEN b ELSE shown[w]
  BY <1>2, <1>5 DEF Send
<1>7. CASE w \in WrittenBy(k)
  <2>1. joined[w] = c
    BY <1>1, <1>4, <1>7 DEF Typed, EntriesAreJoined
  <2>2. /\ ads'[c] = Append(ads[c], b) /\ ads[c] \in Seq(Ads \cup Texts)
        /\ ads'[c] \in Seq(Ads \cup Texts)
    BY <1>1
  <2>3. PICK n \in DOMAIN ads'[c] : ads'[c][n] = b /\ \A j \in DOMAIN ads'[c] : ~(j > n)
    <3>1. /\ Len(ads[c]) + 1 \in DOMAIN ads'[c] /\ ads'[c][Len(ads[c]) + 1] = b
          /\ \A j \in DOMAIN ads'[c] : ~(j > Len(ads[c]) + 1)
      BY <2>2
    <3> QED BY <3>1
  <2>4. Fresh(w)'
    BY <1>1, <1>6, <1>7, <2>1, <2>2, <2>3, BroadcastIsFresh
  <2> QED BY <2>4
<1>8. CASE w \notin WrittenBy(k)
  <2>1. \A a \in Ads : Owed(w, a) => Owed(w, a)'
    <3>1. \A a \in Ads \ {b} : casts'[a] = casts[a]
      BY <1>1, <1>2
    <3>2. ~Owed(w, b)
      BY <1>1 DEF Owed, NoCast
    <3> QED BY <3>1, <3>2 DEF Owed
  <2>2. joined[w] = c => Owed(w, b)'
    BY <1>4, <1>5, <1>8 DEF Owed
  <2>3. /\ ads[joined[w]] \in Seq(Ads \cup Texts)
        /\ ads'[joined[w]] = IF joined[w] = c THEN Append(ads[c], b) ELSE ads[joined[w]]
    BY <1>1, <1>5
  <2>4. /\ \A i \in DOMAIN ads[joined[w]] :
              i \in DOMAIN ads'[joined[w]] /\ ads'[joined[w]][i] = ads[joined[w]][i]
        /\ \A i \in DOMAIN ads'[joined[w]] :
              \/ i \in DOMAIN ads[joined[w]]
              \/ joined[w] = c /\ ads'[joined[w]][i] = b
    <3>1. CASE joined[w] = c
      BY <2>3, <3>1
    <3>2. CASE joined[w] # c
      BY <2>3, <3>2
    <3> QED BY <3>1, <3>2
  <2>5. CASE Fresh(w)
    BY <1>1, <1>6, <1>8, <2>1, <2>2, <2>4, <2>5, FreshStays, OvertakenGrows
  <2>6. CASE LeftByReplay(w)
    <3>1. PICK v \in Sockets :
             /\ joined[v] = joined[w] /\ BoardOf[v] = BoardOf[w] /\ at[v] = w
             /\ pc[v] \in {"replaying", "dead"}
             /\ idx[v] \in DOMAIN ads[joined[w]] /\ ads[joined[w]][idx[v]] = shown[w]
      BY <2>6 DEF LeftByReplay
    <3> QED BY <1>1, <1>6, <1>8, <2>4, <3>1, LeftStays
  <2> QED BY <1>5, <2>5, <2>6 DEF Current
<1> QED BY <1>7, <1>8

(* The steps that write to nobody: a handler that replays goes on, or has  *)
(* died; a text is no ad.                                                  *)
LEMMA QuietCurrent ==
    ASSUME Typed, Current, [Next]_vars, NEW w \in Sockets, Listening(w)', ~Connect(w),
           shown' = shown, idx' = idx, at' = at,
           \A v \in Sockets : pc[v] \in {"replaying", "dead"} =>
              pc'[v] \in {"replaying", "dead"} /\ joined'[v] = joined[v],
           \/ ads' = ads
           \/ \E u \in Sockets, x \in Texts : ReceiveText(u, x),
           \A a \in Ads : Owed(w, a) => Owed(w, a)'
    PROVE  (Fresh(w) \/ LeftByReplay(w))'
<1>1. Listening(w) /\ joined'[w] = joined[w] /\ joined[w] \in Categories
  BY HasListened DEF Listening, Typed, TypeOK
<1>2. ads[joined[w]] \in Seq(Ads \cup Texts)
  BY <1>1 DEF Typed, TypeOK
<1>3. \/ ads'[joined[w]] = ads[joined[w]]
      \/ \E x \in Texts : ads'[joined[w]] = Append(ads[joined[w]], x)
  <2>1. ASSUME NEW u \in Sockets, NEW x \in Texts, ReceiveText(u, x)
        PROVE  \/ ads'[joined[w]] = ads[joined[w]]
               \/ ads'[joined[w]] = Append(ads[joined[w]], x)
    BY <1>1, <2>1 DEF ReceiveText, Typed, TypeOK
  <2> QED BY <2>1
<1>4. /\ \A i \in DOMAIN ads[joined[w]] :
            i \in DOMAIN ads'[joined[w]] /\ ads'[joined[w]][i] = ads[joined[w]][i]
      /\ \A i \in DOMAIN ads'[joined[w]] :
            i \in DOMAIN ads[joined[w]] \/ ads'[joined[w]][i] \in Texts
  BY <1>2, <1>3
<1>5. CASE Fresh(w)
  BY <1>1, <1>4, <1>5, BulletinAssumption, FreshStays, OvertakenGrows
<1>6. CASE LeftByReplay(w)
  <2>1. PICK v \in Sockets :
           /\ joined[v] = joined[w] /\ BoardOf[v] = BoardOf[w] /\ at[v] = w
           /\ pc[v] \in {"replaying", "dead"}
           /\ idx[v] \in DOMAIN ads[joined[w]] /\ ads[joined[w]][idx[v]] = shown[w]
    BY <1>6 DEF LeftByReplay
  <2> QED BY <1>1, <1>4, <2>1, LeftStays
<1> QED BY <1>1, <1>5, <1>6 DEF Current

LEMMA CurrentStep ==
    ASSUME Typed, Current, CastsAreOK, PendingAreUnknown, RunningAreNewest, DownIsEmpty,
           [Next]_vars
    PROVE  Current'
<1> SUFFICES ASSUME NEW w \in Sockets, Listening(w)'
             PROVE  (Fresh(w) \/ LeftByReplay(w))'
  BY DEF Current
<1>1. /\ joined'[w] \in Categories /\ w \in Active(table'[joined'[w]])
  BY NextTyped DEF Typed, TypeOK, Listening
<1>2. /\ pc \in [Sockets -> {"new", "accepting", "replaying", "receiving", "gone", "dead"}]
      /\ joined \in [Sockets -> Categories \cup {NoCategory}]
      /\ casts \in [Ads -> Casts]
  BY DEF Typed, TypeOK
<1>3. ASSUME Stop PROVE FALSE
  BY <1>1, <1>3, EmptyTableFacts DEF Stop
<1>4. ASSUME Restart PROVE FALSE
  BY <1>1, <1>4 DEF Restart, DownIsEmpty
<1>5. ASSUME NEW u \in Sockets,
             \/ AcceptFails(u) \/ ReplayRaises(u) \/ HandleDisconnect(u) \/ Close(u)
             \/ \E c \in Categories : Join(u, c)
             \/ \E x \in Texts : ReceiveText(u, x)
      PROVE  /\ shown' = shown /\ idx' = idx /\ at' = at /\ casts' = casts
             /\ \A v \in Sockets : pc[v] \in {"replaying", "dead"} =>
                   pc'[v] \in {"replaying", "dead"} /\ joined'[v] = joined[v]
             /\ \/ ads' = ads
                \/ \E v \in Sockets, x \in Texts : ReceiveText(v, x)
  <2>1. ASSUME NEW v \in Sockets, pc[v] \in {"replaying", "dead"}
        PROVE  pc'[v] \in {"replaying", "dead"} /\ joined'[v] = joined[v]
    <3>1. ASSUME NEW c \in Categories, Join(u, c)
          PROVE  pc'[v] = pc[v] /\ joined'[v] = joined[v]
      BY <1>2, <2>1, <3>1 DEF Join
    <3>2. CASE Die(u) /\ joined' = joined
      BY <1>2, <2>1, <3>2 DEF Die
    <3>3. CASE HandleDisconnect(u)
      BY <1>2, <2>1, <3>3 DEF HandleDisconnect
    <3>4. \/ \E c \in Categories : Join(u, c)
          \/ Die(u) /\ joined' = joined
          \/ HandleDisconnect(u)
          \/ pc' = pc /\ joined' = joined
      BY <1>5 DEF AcceptFails, ReplayRaises, Close, ReceiveText, handlers
    <3> QED BY <2>1, <3>1, <3>2, <3>3, <3>4
  <2>2. /\ shown' = shown /\ idx' = idx /\ at' = at /\ casts' = casts
        /\ \/ ads' = ads
           \/ \E v \in Sockets, x \in Texts : ReceiveText(v, x)
    BY <1>5 DEF AcceptFails, ReplayRaises, HandleDisconnect, Close, Join, ReceiveText,
                managers, handlers, pages, requests
  <2> QED BY <2>1, <2>2
<1>6. ASSUME NEW b \in Ads,
             \/ BroadcastRaises(b)
             \/ \E c \in Categories : PostAdRefused(b, c)
      PROVE  /\ shown' = shown /\ idx' = idx /\ at' = at /\ pc' = pc /\ joined' = joined
             /\ ads' = ads /\ \A a \in Ads : Owed(w, a) => Owed(w, a)'
  <2>1. shown' = shown /\ idx' = idx /\ at' = at /\ pc' = pc /\ joined' = joined /\ ads' = ads
    BY <1>6 DEF BroadcastRaises, PostAdRefused, managers, handlers, pages
  <2>2. casts' = casts \/ BroadcastRaises(b)
    BY <1>6 DEF PostAdRefused
  <2>3. ASSUME BroadcastRaises(b), NEW a \in Ads
        PROVE  casts'[a].audience = casts[a].audience /\ casts'[a].heard = casts[a].heard
    BY <1>2, <2>3 DEF BroadcastRaises, CutShort, Casts
  <2> QED BY <2>1, <2>2, <2>3 DEF Owed
<1>7. CASE \E u \in Sockets : Connect(u) \/ ReplayTurn(u)
  BY <1>7, ReplayCurrent
<1>8. CASE ~ \E u \in Sockets : Connect(u) \/ ReplayTurn(u)
  <2>1. ~Connect(w)
    BY <1>8
  <2>2. CASE UNCHANGED vars
    <3>1. /\ shown' = shown /\ idx' = idx /\ at' = at /\ pc' = pc /\ joined' = joined
          /\ ads' = ads /\ casts' = casts
      BY <2>2 DEF vars, managers, handlers, pages, requests
    <3> QED BY <2>1, <3>1, QuietCurrent DEF Owed
  <2>3. CASE \E u \in Sockets :
               \/ AcceptFails(u) \/ ReplayRaises(u) \/ HandleDisconnect(u) \/ Close(u)
               \/ \E c \in Categories : Join(u, c)
               \/ \E x \in Texts : ReceiveText(u, x)
    <3>1. /\ shown' = shown /\ idx' = idx /\ at' = at /\ casts' = casts
          /\ \A v \in Sockets : pc[v] \in {"replaying", "dead"} =>
                pc'[v] \in {"replaying", "dead"} /\ joined'[v] = joined[v]
          /\ \/ ads' = ads
             \/ \E v \in Sockets, x \in Texts : ReceiveText(v, x)
      BY <1>5, <2>3
    <3> QED BY <2>1, <3>1, QuietCurrent DEF Owed
  <2>4. CASE \E b \in Ads : \/ BroadcastRaises(b)
                            \/ \E c \in Categories : PostAdRefused(b, c)
    <3>1. /\ shown' = shown /\ idx' = idx /\ at' = at /\ pc' = pc /\ joined' = joined
          /\ ads' = ads /\ \A a \in Ads : Owed(w, a) => Owed(w, a)'
      BY <1>6, <2>4
    <3> QED BY <2>1, <3>1, QuietCurrent
  <2>5. CASE \E b \in Ads : BroadcastTurn(b) \/ \E c \in Categories : PostAd(b, c)
    BY <2>5, BroadcastTurnCurrent, PostAdCurrent
  <2>6. \/ UNCHANGED vars
        \/ \E u \in Sockets :
              \/ AcceptFails(u) \/ ReplayRaises(u) \/ HandleDisconnect(u) \/ Close(u)
              \/ \E c \in Categories : Join(u, c)
              \/ \E x \in Texts : ReceiveText(u, x)
        \/ \E b \in Ads : \/ BroadcastTurn(b)
                          \/ \E c \in Categories : PostAd(b, c)
                          \/ BroadcastRaises(b)
                          \/ \E c \in Categories : PostAdRefused(b, c)
    BY <1>3, <1>4, <1>8 DEF Next, Crash, CrashInLookup, CrashInPostAd
  <2> QED BY <2>2, <2>3, <2>4, <2>5, <2>6
<1> QED BY <1>7, <1>8

(* Writes reach a page in the order replays and broadcasts make them, not  *)
(* in the order of the history.  A board that no replay has left with an   *)
(* ad shows the newest of its category all the same, or is still to be     *)
(* written that one, or was missed by its broadcast, or shows one whose    *)
(* broadcast was still running when a newer one began.                     *)
THEOREM PageIsCurrent == Spec => []CurrentAdIsNewest
<1> DEFINE Inv == /\ Current /\ RunningAreNewest /\ DownIsQuiet /\ DownIsEmpty
                  /\ CastsAreOK /\ PendingAreUnknown /\ HistoryIsStored /\ StoredWasSent
<1>1. Init => Inv
  <2> SUFFICES ASSUME Init PROVE Inv
    OBVIOUS
  <2>1. Active(EmptyTable) = {}
    BY EmptyTableFacts
  <2>2. Current
    BY DEF Init, Current, Listening
  <2>3. RunningAreNewest /\ DownIsQuiet /\ DownIsEmpty
    BY DEF Init, RunningAreNewest, DownIsQuiet, DownIsEmpty, NoCast
  <2>4. CastsAreOK /\ PendingAreUnknown
    <3>1. NoCast.audience = {} /\ NoCast.heard = {}
      BY DEF NoCast
    <3> QED BY <3>1, NoCastFacts DEF Init, CastsAreOK, PendingAreUnknown
  <2>5. HistoryIsStored /\ StoredWasSent
    BY DEF Init, HistoryIsStored, StoredWasSent, Contents
  <2> QED BY <2>2, <2>3, <2>4, <2>5
<1>2. Typed /\ Inv /\ [Next]_vars => Inv'
  BY CurrentStep, RunningStep, DownIsQuietStep, DownIsEmptyStep, CastsStep, HistoryStep,
     StoredWasSentStep
<1>3. Typed /\ Inv => CurrentAdIsNewest
  <2> SUFFICES ASSUME Typed, Inv, NEW w \in Sockets, Listening(w), ~LeftByReplay(w),
                      NEW i \in DOMAIN ads[joined[w]], ads[joined[w]][i] \notin Texts
               PROVE  \/ \E j \in i..Len(ads[joined[w]]) : ads[joined[w]][j] = shown[w]
                      \/ InBroadcast(w, ads[joined[w]][i])
                      \/ Missed(w, ads[joined[w]][i])
                      \/ shown[w] \in overtaken
    BY DEF CurrentAdIsNewest
  <2>1. joined[w] \in Categories /\ ads[joined[w]] \in Seq(Ads \cup Texts)
    BY DEF Listening, Typed, TypeOK
  <2>2. PICK a \in Ads : a = ads[joined[w]][i]
    BY <2>1
  <2>3. sentTo[a] = joined[w]
    BY <2>1, <2>2 DEF HistoryIsStored, StoredWasSent, Contents
  <2>4. \/ \E j \in DOMAIN ads[joined[w]] : j >= i /\ ads[joined[w]][j] = shown[w]
        \/ Owed(w, a)
        \/ shown[w] \in overtaken
    BY <2>2 DEF Current, Fresh
  <2>5. Owed(w, a) => InBroadcast(w, a) \/ Missed(w, a)
    BY <2>3, StillToBeSent DEF Owed
  <2>6. \A j \in DOMAIN ads[joined[w]] : j >= i => j \in i..Len(ads[joined[w]])
    BY <2>1
  <2> QED BY <2>2, <2>4, <2>5, <2>6
<1> HIDE DEF Inv
<1> QED BY <1>1, <1>2, <1>3, StaysTyped, PTL DEF Spec
=============================================================================

------------------------ MODULE BulletinBoardProofs ------------------------
(***************************************************************************)
(* Type correctness of BulletinBoard and what it keeps about its tables,   *)
(* their cache in the managers and the registrations of boards, for any    *)
(* finite set of sockets and any sets of categories, boards, ads and       *)
(* texts, through any number of ends and restarts of the process.          *)
(***************************************************************************)
EXTENDS BulletinBoard, ActiveConnectionsProofs

(* The registries are dictionaries, and a socket is only ever registered   *)
(* in the category it joined, by a handler that is past its accept.        *)
Dictionaries == \A c \in Categories : IsDictionary(table[c])

EntriesAreJoined ==
    \A c \in Categories : \A w \in Active(table[c]) :
        joined[w] = c /\ pc[w] \notin {"new", "accepting"}

(* A handler runs in a running process, and a replay has taken no more ads *)
(* than there are.                                                         *)
HandlersRun ==
    \A w \in Sockets :
        /\ pc[w] \in {"accepting", "replaying", "receiving"} => up
        /\ pc[w] = "replaying" => idx[w] <= Len(ads[joined[w]])

Typed == TypeOK /\ Dictionaries /\ EntriesAreJoined /\ HandlersRun

-----------------------------------------------------------------------------
(* What the steps are made of.                                             *)

LEMMA TurnTypes ==
    ASSUME NEW t \in Tables, NEW k \in Casts, k.st = "sending", NEW n \in Turns(t, k)
    PROVE  n \in Casts /\ WrittenBy(n) \subseteq Active(t)
<1>0. /\ k.pos \in Nat /\ k.left \in Nat /\ k.used \in Nat
      /\ k.audience \in SUBSET Sockets /\ k.heard \in SUBSET Sockets
      /\ k.moved \in BOOLEAN /\ k.at \in Sockets \cup {NoSocket}
  BY DEF Casts
<1>1. CASE n \in {[k EXCEPT !.st = "aborted"], [k EXCEPT !.st = "done"]}
  <2>1. n \in Casts /\ n.st # "sending"
    BY <1>1 DEF Casts
  <2> QED BY <2>1 DEF WrittenBy
<1>2. CASE /\ Ahead(t, k) # {} => k.left # 0
           /\ n \in {[k EXCEPT !.pos = t.slot[w] + 1, !.left = k.left - 1, !.at = w,
                               !.heard = k.heard \cup {w}] : w \in NextUp(t, k)}
  <2>1. PICK w \in NextUp(t, k) :
           n = [k EXCEPT !.pos = t.slot[w] + 1, !.left = k.left - 1, !.at = w,
                         !.heard = k.heard \cup {w}]
    BY <1>2
  <2>2. w \in Active(t) /\ w \in Sockets /\ t.slot[w] \in Nat /\ k.left # 0
    BY <1>2 DEF NextUp, Ahead, Active, Tables
  <2>3. /\ t.slot[w] + 1 \in Nat /\ k.left - 1 \in Nat
        /\ k.heard \cup {w} \in SUBSET Sockets
    BY <1>0, <2>2
  <2>4. n \in Casts
    BY <1>0, <2>1, <2>2, <2>3 DEF Casts
  <2>5. n.at = w
    BY <2>1 DEF Casts
  <2> QED BY <2>2, <2>4, <2>5 DEF WrittenBy
<1> QED BY <1>1, <1>2 DEF Turns

LEMMA SendTypes ==
    ASSUME TypeOK, NEW W \in SUBSET Sockets, NEW a \in Ads, Send(W, a)
    PROVE  /\ got' \in [Sockets -> [Ads -> Nat]]
           /\ shown' \in [Sockets -> Ads \cup {NoAd}]
           /\ \A w \in Sockets, b \in Ads :
                 got'[w][b] > 0 => got[w][b] > 0 \/ (w \in W /\ b = a)
<1>1. got \in [Sockets -> [Ads -> Nat]] /\ shown \in [Sockets -> Ads \cup {NoAd}]
  BY DEF TypeOK
<1>2. \A w \in Sockets : got'[w] = IF w \in W /\ client[w] = "open"
                                   THEN [got[w] EXCEPT ![a] = @ + 1] ELSE got[w]
  BY DEF Send
<1>3. \A w \in Sockets : got[w] \in [Ads -> Nat] /\ got'[w] \in [Ads -> Nat]
  <2> SUFFICES ASSUME NEW w \in Sockets
               PROVE  got[w] \in [Ads -> Nat] /\ got'[w] \in [Ads -> Nat]
    OBVIOUS
  <2>1. got[w] \in [Ads -> Nat] /\ got[w][a] + 1 \in Nat
    BY <1>1
  <2>2. [got[w] EXCEPT ![a] = @ + 1] \in [Ads -> Nat]
    BY <2>1
  <2> QED BY <1>2, <2>1, <2>2
<1>4. got' \in [Sockets -> [Ads -> Nat]]
  BY <1>3 DEF Send
<1>5. shown' \in [Sockets -> Ads \cup {NoAd}]
  BY <1>1 DEF Send
<1>6. ASSUME NEW w \in Sockets, NEW b \in Ads, got'[w][b] > 0
      PROVE  got[w][b] > 0 \/ (w \in W /\ b = a)
  BY <1>2, <1>3, <1>6
<1> QED BY <1>4, <1>5, <1>6

LEMMA PopKeepsEntries ==
    ASSUME NEW t, NEW b
    PROVE  Active(Popped(t, b)) \subseteq Active(t)
BY DEF Active, Popped

(* The values a process starts and ends with.                              *)
LEMMA InitTyped == Init => Typed
<1> SUFFICES ASSUME Init PROVE Typed
  OBVIOUS
<1>1. EmptyTable \in Tables /\ Active(EmptyTable) = {} /\ IsDictionary(EmptyTable)
  BY EmptyTableFacts
<1>2. TypeOK
  BY <1>1, NoCastFacts, BulletinAssumption DEF Init, TypeOK
<1>3. Dictionaries /\ EntriesAreJoined
  BY <1>1 DEF Init, Dictionaries, EntriesAreJoined
<1>4. HandlersRun
  BY DEF Init, HandlersRun
<1> QED BY <1>2, <1>3, <1>4 DEF Typed

LEMMA JoinTyped ==
    ASSUME Typed, NEW w \in Sockets, NEW c \in Categories, Join(w, c)
    PROVE  Typed'
<1>1. TypeOK /\ pc[w] = "new"
  BY DEF Typed, Join
<1>2. BoardOf[w] \in Boards
  BY RegistryAssumption
<1>3. rows' \in [Categories -> Nat] /\ known' \subseteq Categories
  BY <1>1 DEF Join, GetCategoryManager, RowsWith, TypeOK
<1>4. boards' \in [Categories -> SUBSET Boards]
  BY <1>1, <1>2 DEF Join, TypeOK
<1>5. /\ pc' = [pc EXCEPT ![w] = "accepting"]
      /\ joined' = [joined EXCEPT ![w] = c]
      /\ client' = [client EXCEPT ![w] = "open"]
      /\ UNCHANGED <<store, up, crashes, ads, table, idx, at, got, shown,
                     sentTo, casts, overtaken>>
  BY DEF Join, process, requests
<1>6. TypeOK'
  BY <1>1, <1>3, <1>4, <1>5, BulletinAssumption DEF TypeOK
<1>7. \A d \in Categories : w \notin Active(table[d])
  BY <1>1 DEF Typed, EntriesAreJoined
<1>8. EntriesAreJoined'
  BY <1>1, <1>5, <1>7 DEF Typed, EntriesAreJoined, TypeOK, Active
<1>9. HandlersRun'
  BY <1>1, <1>5 DEF Typed, HandlersRun, TypeOK, Join
<1> QED BY <1>5, <1>6, <1>8, <1>9 DEF Typed, Dictionaries

(* The actions that only end a handler or a socket.                        *)
LEMMA EndingTyped ==
    ASSUME Typed, NEW w \in Sockets, AcceptFails(w) \/ ReplayRaises(w) \/ Close(w)
    PROVE  Typed'
<1>1. TypeOK
  BY DEF Typed
<1>2. /\ UNCHANGED <<durable, process, managers, joined, idx, at, got, shown, requests>>
      /\ client' = [client EXCEPT ![w] = "closed"]
      /\ \/ pc' = pc
         \/ pc[w] # "new" /\ pc' = [pc EXCEPT ![w] = "dead"]
  BY DEF AcceptFails, ReplayRaises, Close, Die, handlers
<1>3. TypeOK'
  BY <1>1, <1>2 DEF TypeOK, durable, process, managers, requests
<1>4. Dictionaries'
  BY <1>2 DEF Typed, Dictionaries, managers
<1>5. table' = table /\ joined' = joined
      /\ \A v \in Sockets : pc[v] \notin {"new", "accepting"} => pc'[v] \notin {"new", "accepting"}
  BY <1>1, <1>2 DEF managers, TypeOK
<1>6. EntriesAreJoined'
  BY <1>5 DEF Typed, EntriesAreJoined, Active
<1>7. HandlersRun'
  BY <1>1, <1>2 DEF Typed, HandlersRun, TypeOK, managers, process
<1> QED BY <1>3, <1>4, <1>6, <1>7 DEF Typed

(* One turn of a replay, over the table the registry has afterwards.       *)
LEMMA ReplayTypes ==
    ASSUME TypeOK, NEW w \in Sockets, joined[w] \in Categories, pc[w] # "new",
           NEW t \in Tables, NEW i \in 0..Len(ads[joined[w]]), Replay(w, t, i)
    PROVE  /\ pc' \in [Sockets -> {"new", "accepting", "replaying", "receiving",
                                   "gone", "dead"}]
           /\ idx' \in [Sockets -> Nat]
           /\ at' \in [Sockets -> Sockets \cup {NoSocket}]
           /\ client' \in [Sockets -> {"new", "open", "closed"}]
           /\ got' \in [Sockets -> [Ads -> Nat]]
           /\ shown' \in [Sockets -> Ads \cup {NoAd}]
           /\ \A v \in Sockets \ {w} : pc'[v] = pc[v]
           /\ pc'[w] \in {"replaying", "receiving", "dead"}
           /\ pc'[w] = "replaying" => idx'[w] <= Len(ads[joined[w]])
           /\ \A v \in Sockets \ {w} : idx'[v] = idx[v]
           /\ \A v \in Sockets, a \in Ads : got'[v][a] > 0 =>
                 \/ got[v][a] > 0
                 \/ v \in Holders(t, BoardOf[w]) /\ a \in Contents(ads[joined[w]])
<1> DEFINE history == ads[joined[w]]
           holders == Holders(t, BoardOf[w])
<1>1. /\ ads[joined[w]] \in Seq(Ads \cup Texts) /\ Len(history) \in Nat
      /\ holders \subseteq Sockets
      /\ pc \in [Sockets -> {"new", "accepting", "replaying", "receiving", "gone", "dead"}]
      /\ idx \in [Sockets -> Nat]
      /\ at \in [Sockets -> Sockets \cup {NoSocket}]
      /\ client \in [Sockets -> {"new", "open", "closed"}]
      /\ got \in [Sockets -> [Ads -> Nat]]
      /\ shown \in [Sockets -> Ads \cup {NoAd}]
  BY DEF TypeOK, Holders, Active
<1>2. CASE /\ pc' = [pc EXCEPT ![w] = "receiving"]
           /\ idx' = [idx EXCEPT ![w] = Len(history)]
           /\ at' = [at EXCEPT ![w] = NoSocket]
           /\ UNCHANGED pages
  BY <1>1, <1>2 DEF pages
<1>3. CASE Die(w) /\ UNCHANGED <<idx, at, got, shown>>
  BY <1>1, <1>3 DEF Die
<1>4. CASE /\ ~ReplayEnds(history, i)
           /\ ReplayNext(history, i) \in Ads
           /\ \E v \in holders : /\ Send({v}, ReplayNext(history, i))
                                /\ at' = [at EXCEPT ![w] = v]
           /\ pc' = [pc EXCEPT ![w] = "replaying"]
           /\ idx' = [idx EXCEPT ![w] = i + 1]
           /\ UNCHANGED client
  <2>1. PICK v \in holders : /\ Send({v}, ReplayNext(history, i))
                             /\ at' = [at EXCEPT ![w] = v]
    BY <1>4
  <2>2. i + 1 \in 1..Len(history) /\ i + 1 \in Nat
    BY <1>1, <1>4 DEF ReplayEnds
  <2>3. ReplayNext(history, i) \in Contents(history)
    BY <1>1, <2>2 DEF ReplayNext, Contents
  <2> HIDE DEF holders, history
  <2>4. {v} \in SUBSET Sockets
    BY <1>1
  <2>5. /\ got' \in [Sockets -> [Ads -> Nat]]
        /\ shown' \in [Sockets -> Ads \cup {NoAd}]
        /\ \A u \in Sockets, a \in Ads : got'[u][a] > 0 =>
              got[u][a] > 0 \/ (u \in {v} /\ a = ReplayNext(history, i))
    BY <1>4, <2>1, <2>4, SendTypes
  <2>6. \A u \in Sockets, a \in Ads : got'[u][a] > 0 =>
              got[u][a] > 0 \/ (u \in holders /\ a \in Contents(history))
    BY <2>3, <2>5
  <2>7. at' \in [Sockets -> Sockets \cup {NoSocket}]
    BY <1>1, <2>1
  <2>8. /\ pc' \in [Sockets -> {"new", "accepting", "replaying", "receiving",
                                "gone", "dead"}]
        /\ idx' \in [Sockets -> Nat]
        /\ pc'[w] = "replaying" /\ idx'[w] = i + 1
        /\ \A u \in Sockets \ {w} : pc'[u] = pc[u] /\ idx'[u] = idx[u]
        /\ client' = client
    BY <1>1, <1>4, <2>2
  <2> QED BY <1>1, <2>2, <2>5, <2>6, <2>7, <2>8 DEF holders, history
<1> QED BY <1>1, <1>2, <1>3, <1>4 DEF Replay

LEMMA ConnectTyped ==
    ASSUME Typed, NEW w \in Sockets, Connect(w)
    PROVE  Typed'
<1> DEFINE c == joined[w]
<1>1. /\ TypeOK /\ pc[w] = "accepting"
      /\ c \in Categories
      /\ table[c] \in Tables /\ IsDictionary(table[c])
      /\ 0 \in 0..Len(ads[c])
  BY DEF Typed, Dictionaries, Connect, TypeOK
<1>2. \A d \in Categories : w \notin Active(table[d])
  BY <1>1 DEF Typed, EntriesAreJoined
<1>3. PICK t \in Puts(table[c], w) : table' = [table EXCEPT ![c] = t] /\ Replay(w, t, 0)
  BY DEF Connect
<1>4. /\ casts' = [a \in Ads |->
              Disturbed(casts[a], sentTo[a] = c /\ NeedsRebuild(table[c], w))]
      /\ UNCHANGED <<durable, process, known, ads, boards, joined, sentTo, overtaken>>
  BY DEF Connect
<1> HIDE DEF c
<1>5. t \in Tables /\ IsDictionary(t) /\ Active(t) \subseteq Active(table[c]) \cup {w}
  BY <1>1, <1>2, <1>3, PutFacts
<1>6. /\ pc' \in [Sockets -> {"new", "accepting", "replaying", "receiving", "gone", "dead"}]
      /\ idx' \in [Sockets -> Nat]
      /\ at' \in [Sockets -> Sockets \cup {NoSocket}]
      /\ client' \in [Sockets -> {"new", "open", "closed"}]
      /\ got' \in [Sockets -> [Ads -> Nat]]
      /\ shown' \in [Sockets -> Ads \cup {NoAd}]
      /\ \A v \in Sockets \ {w} : pc'[v] = pc[v] /\ idx'[v] = idx[v]
      /\ pc'[w] \in {"replaying", "receiving", "dead"}
      /\ pc'[w] = "replaying" => idx'[w] <= Len(ads[c])
  BY <1>1, <1>3, <1>5, ReplayTypes DEF c
<1>7. \A a \in Ads : /\ casts'[a] \in Casts
                     /\ sentTo[a] = NoCategory => casts'[a] = NoCast
  <2> SUFFICES ASSUME NEW a \in Ads
               PROVE  casts'[a] \in Casts /\ (sentTo[a] = NoCategory => casts'[a] = NoCast)
    OBVIOUS
  <2>1. casts[a] \in Casts /\ (sentTo[a] = NoCategory => casts[a] = NoCast)
    BY <1>1 DEF TypeOK
  <2>2. casts'[a] = Disturbed(casts[a], sentTo[a] = c /\ NeedsRebuild(table[c], w))
    BY <1>4
  <2>3. casts'[a] \in Casts
    BY <2>1, <2>2 DEF Disturbed, Casts
  <2>4. NoCast.st # "sending"
    BY DEF NoCast
  <2> QED BY <2>1, <2>2, <2>3, <2>4 DEF Disturbed
<1>8. table' \in [Categories -> Tables]
  BY <1>1, <1>3, <1>5 DEF TypeOK
<1>9. \A v \in Sockets : joined'[v] = NoCategory <=> pc'[v] = "new"
  BY <1>1, <1>4, <1>6 DEF TypeOK
<1>10. casts' \in [Ads -> Casts]
  BY <1>4, <1>7
<1>11. TypeOK'
  BY <1>1, <1>4, <1>6, <1>7, <1>8, <1>9, <1>10 DEF TypeOK, durable, process
<1>12. Dictionaries'
  BY <1>1, <1>3, <1>5 DEF Typed, Dictionaries, TypeOK
<1>13. EntriesAreJoined'
  <2> SUFFICES ASSUME NEW d \in Categories, NEW v \in Active(table'[d])
               PROVE  joined'[v] = d /\ pc'[v] \notin {"new", "accepting"}
    BY DEF EntriesAreJoined
  <2>1. v \in Active(table[d]) \/ (d = c /\ v = w)
    BY <1>1, <1>3, <1>5 DEF TypeOK
  <2>2. joined[v] = d
    BY <2>1 DEF Typed, EntriesAreJoined, c
  <2>3. pc'[v] \notin {"new", "accepting"}
    BY <1>6, <2>1 DEF Typed, EntriesAreJoined, Active
  <2> QED BY <1>4, <2>2, <2>3
<1>14. HandlersRun'
  BY <1>1, <1>4, <1>6 DEF Typed, HandlersRun, process, c
<1> QED BY <1>11, <1>12, <1>13, <1>14 DEF Typed

LEMMA ReplayTurnTyped ==
    ASSUME Typed, NEW w \in Sockets, ReplayTurn(w)
    PROVE  Typed'
<1> DEFINE c == joined[w]
<1>1. /\ TypeOK /\ pc[w] = "replaying"
      /\ c \in Categories /\ table[c] \in Tables
      /\ idx[w] \in 0..Len(ads[c])
  BY DEF Typed, HandlersRun, ReplayTurn, TypeOK
<1>2. /\ Replay(w, table[c], idx[w])
      /\ UNCHANGED <<durable, process, managers, joined, requests>>
  BY DEF ReplayTurn
<1> HIDE DEF c
<1>3. /\ pc' \in [Sockets -> {"new", "accepting", "replaying", "receiving", "gone", "dead"}]
      /\ idx' \in [Sockets -> Nat]
      /\ at' \in [Sockets -> Sockets \cup {NoSocket}]
      /\ client' \in [Sockets -> {"new", "open", "closed"}]
      /\ got' \in [Sockets -> [Ads -> Nat]]
      /\ shown' \in [Sockets -> Ads \cup {NoAd}]
      /\ \A v \in Sockets \ {w} : pc'[v] = pc[v] /\ idx'[v] = idx[v]
      /\ pc'[w] \in {"replaying", "receiving", "dead"}
      /\ pc'[w] = "replaying" => idx'[w] <= Len(ads[c])
  BY <1>1, <1>2, ReplayTypes DEF c
<1>4. \A v \in Sockets : joined'[v] = NoCategory <=> pc'[v] = "new"
  BY <1>1, <1>2, <1>3 DEF TypeOK
<1>5. TypeOK'
  BY <1>1, <1>2, <1>3, <1>4 DEF TypeOK, durable, process, managers, requests
<1>6. Dictionaries'
  BY <1>2 DEF Typed, Dictionaries, managers
<1>7. EntriesAreJoined'
  BY <1>2, <1>3 DEF Typed, EntriesAreJoined, Active, managers
<1>8. HandlersRun'
  BY <1>1, <1>2, <1>3 DEF Typed, HandlersRun, managers, process, c
<1> QED BY <1>5, <1>6, <1>7, <1>8 DEF Typed

(* A history that grows keeps what is in it and what is being replayed.    *)
LEMMA AppendContents ==
    ASSUME NEW S, NEW s \in Seq(S), NEW x \in S
    PROVE  /\ Append(s, x) \in Seq(S)
           /\ Len(Append(s, x)) = Len(s) + 1
           /\ Contents(Append(s, x)) = Contents(s) \cup {x}
           /\ \A i \in DOMAIN s : i \in DOMAIN Append(s, x) /\ Append(s, x)[i] = s[i]
<1>1. /\ Append(s, x) \in Seq(S)
      /\ Len(s) \in Nat
      /\ DOMAIN s = 1..Len(s)
      /\ Len(Append(s, x)) = Len(s) + 1
      /\ DOMAIN Append(s, x) = 1..(Len(s) + 1)
      /\ \A i \in 1..Len(s) : Append(s, x)[i] = s[i]
      /\ Append(s, x)[Len(s) + 1] = x
  OBVIOUS
<1>2. \A y : y \in Contents(Append(s, x)) <=> y \in Contents(s) \/ y = x
  BY <1>1 DEF Contents
<1> QED BY <1>1, <1>2

LEMMA ReceiveTextTyped ==
    ASSUME Typed, NEW w \in Sockets, NEW x \in Texts, ReceiveText(w, x)
    PROVE  Typed'
<1> DEFINE c == joined[w]
<1>1. /\ TypeOK /\ pc[w] = "receiving" /\ c \in Categories
      /\ ads[c] \in Seq(Ads \cup Texts)
  BY DEF Typed, ReceiveText, TypeOK
<1>2. /\ ads' = [ads EXCEPT ![c] = Append(@, x)]
      /\ UNCHANGED <<durable, process, known, boards, table, joined, idx, at,
                     got, shown, requests>>
      /\ \/ UNCHANGED <<pc, client>>
         \/ pc' = [pc EXCEPT ![w] = "dead"] /\ client' = [client EXCEPT ![w] = "closed"]
  BY DEF ReceiveText, Die
<1> HIDE DEF c
<1>3. Append(ads[c], x) \in Seq(Ads \cup Texts) /\ Len(Append(ads[c], x)) = Len(ads[c]) + 1
  BY <1>1, AppendContents
<1>4. /\ ads' \in [Categories -> Seq(Ads \cup Texts)]
      /\ \A d \in Categories : Len(ads'[d]) >= Len(ads[d])
  <2>1. \A d \in Categories : ads'[d] = IF d = c THEN Append(ads[c], x) ELSE ads[d]
    BY <1>1, <1>2 DEF TypeOK
  <2>2. \A d \in Categories : ads[d] \in Seq(Ads \cup Texts) /\ Len(ads[d]) \in Nat
    BY <1>1 DEF TypeOK
  <2>3. ads' \in [Categories -> Seq(Ads \cup Texts)]
    BY <1>2, <1>3, <2>1, <2>2, <1>1 DEF TypeOK
  <2> QED BY <1>3, <2>1, <2>2, <2>3
<1>5. \A v \in Sockets : pc'[v] = pc[v] \/ (v = w /\ pc'[v] = "dead")
  BY <1>1, <1>2 DEF TypeOK
<1>6. TypeOK'
  BY <1>1, <1>2, <1>4 DEF TypeOK, durable, process, requests
<1>7. Dictionaries'
  BY <1>2 DEF Typed, Dictionaries
<1>8. EntriesAreJoined'
  BY <1>2, <1>5 DEF Typed, EntriesAreJoined, Active
<1>9. HandlersRun'
  <2>0. \A v \in Sockets : pc'[v] \in {"accepting", "replaying", "receiving"} => up'
    BY <1>2, <1>5 DEF Typed, HandlersRun, process
  <2> SUFFICES ASSUME NEW v \in Sockets, pc'[v] = "replaying"
               PROVE  idx'[v] <= Len(ads'[joined'[v]])
    BY <2>0 DEF HandlersRun
  <2>1. joined[v] \in Categories /\ idx[v] <= Len(ads[joined[v]]) /\ idx[v] \in Nat
    BY <1>1, <1>5 DEF Typed, HandlersRun, TypeOK
  <2>2. Len(ads[joined[v]]) \in Nat /\ Len(ads'[joined[v]]) \in Nat
    BY <1>1, <1>4, <2>1 DEF TypeOK
  <2> QED BY <1>2, <1>4, <2>1, <2>2
<1> QED BY <1>6, <1>7, <1>8, <1>9 DEF Typed

LEMMA HandleDisconnectTyped ==
    ASSUME Typed, NEW w \in Sockets, HandleDisconnect(w)
    PROVE  Typed'
<1> DEFINE c == joined[w]
           p == Popped(table[c], BoardOf[w])
<1>1. /\ TypeOK /\ pc[w] = "receiving" /\ c \in Categories
      /\ table[c] \in Tables /\ IsDictionary(table[c])
  BY DEF Typed, Dictionaries, HandleDisconnect, TypeOK
<1>2. /\ p \in Tables /\ IsDictionary(p) /\ Active(p) \subseteq Active(table[c])
  BY <1>1, PoppedFacts
<1>3. /\ boards' = [boards EXCEPT ![c] = DiscardedFrom(@, BoardOf[w])]
      /\ table' = [table EXCEPT ![c] = p]
      /\ \E s \in {"gone", "dead"} : pc' = [pc EXCEPT ![w] = s]
      /\ UNCHANGED <<durable, process, known, ads, joined, idx, at, pages, requests>>
  BY DEF HandleDisconnect
<1> HIDE DEF c, p
<1>4. /\ table' \in [Categories -> Tables]
      /\ boards' \in [Categories -> SUBSET Boards]
      /\ pc' \in [Sockets -> {"new", "accepting", "replaying", "receiving", "gone", "dead"}]
      /\ \A v \in Sockets : pc'[v] = pc[v] \/ (v = w /\ pc'[v] \in {"gone", "dead"})
  BY <1>1, <1>2, <1>3 DEF TypeOK, DiscardedFrom
<1>5. \A v \in Sockets : joined'[v] = NoCategory <=> pc'[v] = "new"
  BY <1>1, <1>3, <1>4 DEF TypeOK
<1>6. TypeOK'
  BY <1>1, <1>3, <1>4, <1>5 DEF TypeOK, durable, process, pages, requests
<1>7. Dictionaries'
  BY <1>1, <1>2, <1>3 DEF Typed, Dictionaries, TypeOK
<1>8. EntriesAreJoined'
  <2> SUFFICES ASSUME NEW d \in Categories, NEW v \in Active(table'[d])
               PROVE  joined'[v] = d /\ pc'[v] \notin {"new", "accepting"}
    BY DEF EntriesAreJoined
  <2>1. v \in Active(table[d])
    BY <1>1, <1>2, <1>3 DEF TypeOK
  <2> QED BY <1>3, <1>4, <2>1 DEF Typed, EntriesAreJoined, Active
<1>9. HandlersRun'
  BY <1>3, <1>4 DEF Typed, HandlersRun, process
<1> QED BY <1>6, <1>7, <1>8, <1>9 DEF Typed

(* The first turn of a broadcast, or a later one.                          *)
LEMMA BroadcastTurnTyped ==
    ASSUME Typed, NEW a \in Ads, BroadcastTurn(a)
    PROVE  Typed'
<1> DEFINE c == sentTo[a]
<1>1. /\ TypeOK /\ casts[a].st = "sending" /\ casts[a] \in Casts
      /\ casts \in [Ads -> Casts]
  BY DEF Typed, BroadcastTurn, TypeOK
<1>2. c \in Categories /\ table[c] \in Tables
  BY <1>1 DEF TypeOK, NoCast
<1>3. PICK k \in Turns(table[c], casts[a]) :
         casts' = [casts EXCEPT ![a] = k] /\ Send(WrittenBy(k), a)
  BY DEF BroadcastTurn
<1>4. UNCHANGED <<durable, process, managers, handlers, client, sentTo, overtaken>>
  BY DEF BroadcastTurn
<1> HIDE DEF c
<1>5. k \in Casts /\ WrittenBy(k) \in SUBSET Sockets
  BY <1>1, <1>2, <1>3, TurnTypes DEF Active
<1>6. got' \in [Sockets -> [Ads -> Nat]] /\ shown' \in [Sockets -> Ads \cup {NoAd}]
  BY <1>1, <1>3, <1>5, SendTypes
<1>7. casts' \in [Ads -> Casts] /\ \A b \in Ads \ {a} : casts'[b] = casts[b]
  BY <1>1, <1>3, <1>5
<1>8. sentTo[a] # NoCategory
  BY <1>2, BulletinAssumption DEF c
<1>9. TypeOK'
  BY <1>1, <1>4, <1>6, <1>7, <1>8 DEF TypeOK, durable, process, managers, handlers
<1> QED BY <1>4, <1>9 DEF Typed, Dictionaries, EntriesAreJoined, HandlersRun,
                          managers, handlers, process

LEMMA BroadcastRaisesTyped ==
    ASSUME Typed, NEW a \in Ads, BroadcastRaises(a)
    PROVE  Typed'
<1>1. TypeOK /\ casts[a].st = "sending" /\ casts[a] \in Casts
  BY DEF Typed, BroadcastRaises, TypeOK
<1>2. /\ casts' = [casts EXCEPT ![a] = CutShort(casts[a])]
      /\ UNCHANGED <<durable, process, managers, handlers, pages, sentTo, overtaken>>
  BY DEF BroadcastRaises
<1>3. CutShort(casts[a]) \in Casts
  BY <1>1 DEF CutShort, Casts
<1>4. sentTo[a] # NoCategory
  BY <1>1 DEF TypeOK, NoCast
<1>5. /\ casts' \in [Ads -> Casts]
      /\ \A b \in Ads : sentTo[b] = NoCategory => casts'[b] = NoCast
  BY <1>1, <1>2, <1>3, <1>4 DEF TypeOK
<1>6. TypeOK'
  BY <1>1, <1>2, <1>5 DEF TypeOK, durable, process, managers, handlers, pages
<1> QED BY <1>2, <1>6 DEF Typed, Dictionaries, EntriesAreJoined, HandlersRun,
                          managers, handlers, process

LEMMA PostAdTyped ==
    ASSUME Typed, NEW a \in Ads, NEW c \in Categories, PostAd(a, c)
    PROVE  Typed'
<1>1. /\ TypeOK /\ table[c] \in Tables /\ sentTo[a] = NoCategory
      /\ ads[c] \in Seq(Ads \cup Texts) /\ store[c] \in Seq(Ads)
  BY DEF Typed, PostAd, TypeOK
<1>2. PICK k \in Turns(table[c], Opened(table[c])) :
         casts' = [casts EXCEPT ![a] = k] /\ Send(WrittenBy(k), a)
  BY DEF PostAd
<1>3. /\ GetCategoryManager(c)
      /\ store' = [store EXCEPT ![c] = Append(@, a)]
      /\ ads' = [ads EXCEPT ![c] = Append(@, a)]
      /\ sentTo' = [sentTo EXCEPT ![a] = c]
      /\ overtaken' \subseteq overtaken \cup Ads
      /\ UNCHANGED <<process, boards, table, handlers, client>>
  BY DEF PostAd, StoreWith
<1>4. Opened(table[c]) \in Casts /\ Opened(table[c]).st = "sending"
  BY <1>1, OpenedFacts
<1>5. k \in Casts /\ WrittenBy(k) \in SUBSET Sockets
  BY <1>1, <1>2, <1>4, TurnTypes DEF Active
<1>6. got' \in [Sockets -> [Ads -> Nat]] /\ shown' \in [Sockets -> Ads \cup {NoAd}]
  BY <1>1, <1>2, <1>5, SendTypes
<1>7. rows' \in [Categories -> Nat] /\ known' \subseteq Categories
  BY <1>1, <1>3 DEF GetCategoryManager, RowsWith, TypeOK
<1>8. /\ Append(ads[c], a) \in Seq(Ads \cup Texts) /\ Len(Append(ads[c], a)) = Len(ads[c]) + 1
      /\ Append(store[c], a) \in Seq(Ads)
  BY <1>1, AppendContents
<1>9. ads' \in [Categories -> Seq(Ads \cup Texts)] /\ store' \in [Categories -> Seq(Ads)]
  BY <1>1, <1>3, <1>8 DEF TypeOK
<1>10. /\ casts' \in [Ads -> Casts]
       /\ \A b \in Ads : sentTo'[b] = NoCategory => casts'[b] = NoCast
  BY <1>1, <1>2, <1>3, <1>5, BulletinAssumption DEF TypeOK
<1>11. sentTo' \in [Ads -> Categories \cup {NoCategory}] /\ overtaken' \subseteq Ads
  BY <1>1, <1>3 DEF TypeOK
<1>12. TypeOK'
  BY <1>1, <1>3, <1>6, <1>7, <1>9, <1>10, <1>11 DEF TypeOK, process, handlers
<1>13. \A d \in Categories : Len(ads'[d]) >= Len(ads[d]) /\ Len(ads[d]) \in Nat
  <2>1. \A d \in Categories : ads'[d] = IF d = c THEN Append(ads[c], a) ELSE ads[d]
    BY <1>1, <1>3 DEF TypeOK
  <2>2. \A d \in Categories : Len(ads[d]) \in Nat
    BY <1>1 DEF TypeOK
  <2>3. Len(Append(ads[c], a)) >= Len(ads[c])
    BY <1>8, <2>2
  <2>4. ASSUME NEW d \in Categories PROVE Len(ads'[d]) >= Len(ads[d])
    <3>1. CASE d = c
      BY <2>1, <2>3, <3>1
    <3>2. CASE d # c
      <4>1. ads'[d] = ads[d] /\ Len(ads[d]) \in Nat
        BY <2>1, <2>2, <3>2
      <4>2. \A n \in Nat : n >= n
        OBVIOUS
      <4> QED BY <4>1, <4>2
    <3> QED BY <3>1, <3>2
  <2> QED BY <2>2, <2>4
<1>14. HandlersRun'
  <2>0. \A v \in Sockets : pc'[v] \in {"accepting", "replaying", "receiving"} => up'
    BY <1>3 DEF Typed, HandlersRun, process, handlers
  <2> SUFFICES ASSUME NEW v \in Sockets, pc'[v] = "replaying"
               PROVE  idx'[v] <= Len(ads'[joined'[v]])
    BY <2>0 DEF HandlersRun
  <2>1. joined[v] \in Categories /\ idx[v] <= Len(ads[joined[v]]) /\ idx[v] \in Nat
    BY <1>1, <1>3 DEF Typed, HandlersRun, TypeOK, handlers
  <2>2. Len(ads'[joined[v]]) \in Nat
    BY <1>9, <2>1
  <2> QED BY <1>3, <1>13, <2>1, <2>2 DEF handlers
<1> QED BY <1>3, <1>12, <1>14 DEF Typed, Dictionaries, EntriesAreJoined, handlers

LEMMA PostAdRefusedTyped ==
    ASSUME Typed, NEW a \in Ads, NEW c \in Categories, PostAdRefused(a, c)
    PROVE  Typed'
<1>1. TypeOK /\ sentTo[a] = NoCategory
  BY DEF Typed, PostAdRefused
<1>2. /\ GetCategoryManager(c)
      /\ sentTo' = [sentTo EXCEPT ![a] = c]
      /\ UNCHANGED <<store, process, ads, boards, table, handlers, pages, casts, overtaken>>
  BY DEF PostAdRefused
<1>3. rows' \in [Categories -> Nat] /\ known' \subseteq Categories
  BY <1>1, <1>2 DEF GetCategoryManager, RowsWith, TypeOK
<1>4. /\ sentTo' \in [Ads -> Categories \cup {NoCategory}]
      /\ \A b \in Ads : sentTo'[b] = NoCategory => sentTo[b] = NoCategory
  BY <1>1, <1>2, BulletinAssumption DEF TypeOK
<1>5. TypeOK'
  BY <1>1, <1>2, <1>3, <1>4 DEF TypeOK, process, handlers, pages
<1> QED BY <1>2, <1>5 DEF Typed, Dictionaries, EntriesAreJoined, HandlersRun,
                          handlers, process

(* The end of the process, with what was committed before it.              *)
LEMMA StopTyped ==
    ASSUME Typed, Stop,
           rows' \in [Categories -> Nat], store' \in [Categories -> Seq(Ads)],
           sentTo' \in [Ads -> Categories \cup {NoCategory}],
           \A a \in Ads : sentTo'[a] = NoCategory => sentTo[a] = NoCategory
    PROVE  Typed'
<1>1. TypeOK
  BY DEF Typed
<1>2. EmptyTable \in Tables /\ Active(EmptyTable) = {} /\ IsDictionary(EmptyTable)
  BY EmptyTableFacts
<1>3. up' = FALSE /\ crashes' \in 0..MaxCrashes
  BY <1>1, BulletinAssumption DEF Stop, TypeOK
<1>4. /\ known' = {}
      /\ ads' = [c \in Categories |-> <<>>]
      /\ boards' = [c \in Categories |-> {}]
      /\ table' = [c \in Categories |-> EmptyTable]
      /\ UNCHANGED <<joined, idx, at, got, shown, overtaken>>
  BY DEF Stop
<1>5. /\ pc' \in [Sockets -> {"new", "accepting", "replaying", "receiving", "gone", "dead"}]
      /\ \A w \in Sockets : /\ pc'[w] = "new" <=> pc[w] = "new"
                            /\ pc'[w] \notin {"accepting", "replaying", "receiving"}
  BY <1>1 DEF Stop, TypeOK
<1>6. client' \in [Sockets -> {"new", "open", "closed"}]
  BY <1>1 DEF Stop, TypeOK
<1>7. \A a \in Ads : /\ casts'[a] \in Casts
                     /\ casts[a] = NoCast => casts'[a] = NoCast
  <2> SUFFICES ASSUME NEW a \in Ads
               PROVE  casts'[a] \in Casts /\ (casts[a] = NoCast => casts'[a] = NoCast)
    OBVIOUS
  <2>1. casts[a] \in Casts /\ casts'[a] = CutShort(casts[a])
    BY <1>1 DEF Stop, TypeOK
  <2>2. CutShort(casts[a]) \in Casts
    BY <2>1 DEF CutShort, Casts
  <2>3. casts[a] = NoCast => CutShort(casts[a]) = NoCast
    BY DEF CutShort, NoCast
  <2> QED BY <2>1, <2>2, <2>3
<1>8. casts' \in [Ads -> Casts]
  BY <1>7 DEF Stop
<1>9. TypeOK'
  <2>1. /\ known' \subseteq Categories
        /\ ads' \in [Categories -> Seq(Ads \cup Texts)]
        /\ boards' \in [Categories -> SUBSET Boards]
        /\ table' \in [Categories -> Tables]
    BY <1>2, <1>4
  <2>2. \A w \in Sockets : joined'[w] = NoCategory <=> pc'[w] = "new"
    BY <1>1, <1>4, <1>5 DEF TypeOK
  <2>3. \A a \in Ads : sentTo'[a] = NoCategory => casts'[a] = NoCast
    BY <1>1, <1>7 DEF TypeOK
  <2> QED BY <1>1, <1>3, <1>4, <1>5, <1>6, <1>8, <2>1, <2>2, <2>3 DEF TypeOK
<1>10. Dictionaries' /\ EntriesAreJoined'
  BY <1>2, <1>4 DEF Dictionaries, EntriesAreJoined
<1> QED BY <1>5, <1>9, <1>10 DEF Typed, HandlersRun

LEMMA CrashTyped ==
    ASSUME Typed, Crash
    PROVE  Typed'
BY StopTyped DEF Crash, Typed, TypeOK

LEMMA CrashInLookupTyped ==
    ASSUME Typed, NEW c \in Categories, CrashInLookup(c)
    PROVE  Typed'
<1>1. rows' \in [Categories -> Nat]
  BY DEF Typed, CrashInLookup, RowsWith, TypeOK
<1> QED BY <1>1, StopTyped DEF CrashInLookup, Typed, TypeOK

LEMMA CrashInPostAdTyped ==
    ASSUME Typed, NEW a \in Ads, NEW c \in Categories, CrashInPostAd(a, c)
    PROVE  Typed'
<1>1. TypeOK /\ store[c] \in Seq(Ads)
  BY DEF Typed, TypeOK
<1>2. Append(store[c], a) \in Seq(Ads)
  BY <1>1, AppendContents
<1>3. /\ rows' \in [Categories -> Nat] /\ store' \in [Categories -> Seq(Ads)]
      /\ sentTo' \in [Ads -> Categories \cup {NoCategory}]
  <2>1. /\ rows' = RowsWith(c) /\ (store' = StoreWith(c, a) \/ store' = store)
        /\ sentTo' = [sentTo EXCEPT ![a] = c]
    BY DEF CrashInPostAd
  <2>2. rows' \in [Categories -> Nat]
    BY <1>1, <2>1 DEF RowsWith, TypeOK
  <2>3. store' \in [Categories -> Seq(Ads)]
    BY <1>1, <1>2, <2>1 DEF StoreWith, TypeOK
  <2>4. sentTo' \in [Ads -> Categories \cup {NoCategory}]
    BY <1>1, <2>1 DEF TypeOK
  <2> QED BY <2>2, <2>3, <2>4
<1>4. \A b \in Ads : sentTo'[b] = NoCategory => sentTo[b] = NoCategory
  BY <1>1, BulletinAssumption DEF CrashInPostAd, TypeOK
<1> QED BY <1>3, <1>4, StopTyped DEF CrashInPostAd

LEMMA RestartTyped ==
    ASSUME Typed, Restart
    PROVE  Typed'
<1>1. TypeOK
  BY DEF Typed
<1>2. /\ up' = TRUE /\ known' = KnownAtStart
      /\ ads' = [c \in Categories |-> Loaded(c)]
      /\ UNCHANGED <<durable, crashes, boards, table, handlers, pages, requests>>
  BY DEF Restart
<1>3. known' \subseteq Categories
  BY <1>2 DEF KnownAtStart
<1>4. ads' \in [Categories -> Seq(Ads \cup Texts)]
  BY <1>1, <1>2 DEF Loaded, TypeOK
<1>5. TypeOK'
  BY <1>1, <1>2, <1>3, <1>4 DEF TypeOK, durable, handlers, pages, requests
<1>6. HandlersRun'
  BY <1>2 DEF Typed, HandlersRun, Restart, handlers
<1> QED BY <1>2, <1>5, <1>6 DEF Typed, Dictionaries, EntriesAreJoined, handlers

LEMMA NextTyped ==
    ASSUME Typed, [Next]_vars
    PROVE  Typed'
<1>1. ASSUME NEW w \in Sockets, NEW c \in Categories, Join(w, c) PROVE Typed'
  BY <1>1, JoinTyped
<1>2. ASSUME NEW w \in Sockets, Connect(w) PROVE Typed'
  BY <1>2, ConnectTyped
<1>3. ASSUME NEW w \in Sockets, AcceptFails(w) \/ ReplayRaises(w) \/ Close(w) PROVE Typed'
  BY <1>3, EndingTyped
<1>4. ASSUME NEW w \in Sockets, ReplayTurn(w) PROVE Typed'
  BY <1>4, ReplayTurnTyped
<1>5. ASSUME NEW w \in Sockets, NEW x \in Texts, ReceiveText(w, x) PROVE Typed'
  BY <1>5, ReceiveTextTyped
<1>6. ASSUME NEW w \in Sockets, HandleDisconnect(w) PROVE Typed'
  BY <1>6, HandleDisconnectTyped
<1>7. ASSUME NEW a \in Ads, NEW c \in Categories, PostAd(a, c) PROVE Typed'
  BY <1>7, PostAdTyped
<1>8. ASSUME NEW a \in Ads, NEW c \in Categories, PostAdRefused(a, c) PROVE Typed'
  BY <1>8, PostAdRefusedTyped
<1>9. ASSUME NEW a \in Ads, NEW c \in Categories, CrashInPostAd(a, c) PROVE Typed'
  BY <1>9, CrashInPostAdTyped
<1>10. ASSUME NEW a \in Ads, BroadcastTurn(a) PROVE Typed'
  BY <1>10, BroadcastTurnTyped
<1>11. ASSUME NEW a \in Ads, BroadcastRaises(a) PROVE Typed'
  BY <1>11, BroadcastRaisesTyped
<1>12. ASSUME Crash PROVE Typed'
  BY <1>12, CrashTyped
<1>13. ASSUME Restart PROVE Typed'
  BY <1>13, RestartTyped
<1>14. ASSUME NEW c \in Categories, CrashInLookup(c) PROVE Typed'
  BY <1>14, CrashInLookupTyped
<1>15. ASSUME UNCHANGED vars PROVE Typed'
  BY <1>15 DEF vars, durable, process, managers, handlers, pages, requests,
               Typed, TypeOK, Dictionaries, EntriesAreJoined, HandlersRun
<1> QED BY <1>1, <1>2, <1>3, <1>4, <1>5, <1>6, <1>7, <1>8, <1>9, <1>10, <1>11, <1>12,
           <1>13, <1>14, <1>15 DEF Next

-----------------------------------------------------------------------------
(* The board stays in its types, its registries are dictionaries and its   *)
(* handlers replay within the history, for any number of everything.       *)
THEOREM StaysTyped == Spec => []Typed
<1>1. Init => Typed
  BY InitTyped
<1>2. Typed /\ [Next]_vars => Typed'
  BY NextTyped
<1> QED BY <1>1, <1>2, PTL DEF Spec

(* Tables, managers, handlers, requests and pages keep their types.        *)
THEOREM TypeCorrect == Spec => []TypeOK
<1>1. Typed => TypeOK
  BY DEF Typed
<1> QED BY <1>1, StaysTyped, PTL

-----------------------------------------------------------------------------
(* The tables only grow: every step leaves the ads of a category as they   *)
(* are or adds one at the end.                                             *)
LEMMA StoreStep ==
    ASSUME Typed, [Next]_vars, NEW c \in Categories
    PROVE  store'[c] = store[c] \/ \E a \in Ads : store'[c] = Append(store[c], a)
<1>1. store \in [Categories -> Seq(Ads)]
  BY DEF Typed, TypeOK
<1>2. CASE UNCHANGED store
  BY <1>2
<1>3. ASSUME NEW a \in Ads, NEW d \in Categories, store' = StoreWith(d, a)
      PROVE  store'[c] = store[c] \/ store'[c] = Append(store[c], a)
  BY <1>1, <1>3 DEF StoreWith
<1>4. \/ UNCHANGED store
      \/ \E a \in Ads, d \in Categories : store' = StoreWith(d, a)
  BY DEF Next, vars, durable, Join, Connect, AcceptFails, ReplayTurn, ReplayRaises,
         ReceiveText, HandleDisconnect, Close, PostAd, PostAdRefused, CrashInPostAd,
         BroadcastTurn, BroadcastRaises, Crash, CrashInLookup, Restart
<1> QED BY <1>2, <1>3, <1>4

(* add_ad appends and nothing is deleted or rewritten, by any request,     *)
(* failure, end or restart.                                                *)
THEOREM TablesOnlyGrow == Spec => StoreOnlyGrows
<1> DEFINE Grows == \A c \in Categories :
                      /\ Len(store'[c]) >= Len(store[c])
                      /\ \A i \in DOMAIN store[c] : store'[c][i] = store[c][i]
<1>1. Typed /\ [Next]_vars => Grows
  <2> SUFFICES ASSUME Typed, [Next]_vars, NEW c \in Categories
               PROVE  /\ Len(store'[c]) >= Len(store[c])
                      /\ \A i \in DOMAIN store[c] : store'[c][i] = store[c][i]
    OBVIOUS
  <2>1. store[c] \in Seq(Ads) /\ Len(store[c]) \in Nat
    BY DEF Typed, TypeOK
  <2>2. CASE store'[c] = store[c]
    <3>1. \A n \in Nat : n >= n
      OBVIOUS
    <3> QED BY <2>1, <2>2, <3>1
  <2>3. ASSUME NEW a \in Ads, store'[c] = Append(store[c], a)
        PROVE  /\ Len(store'[c]) >= Len(store[c])
               /\ \A i \in DOMAIN store[c] : store'[c][i] = store[c][i]
    BY <2>1, <2>3, AppendContents
  <2> QED BY <2>2, <2>3, StoreStep
<1>2. Typed /\ [Next]_vars => [Grows]_vars
  BY <1>1
<1> QED BY <1>2, StaysTyped, PTL DEF Spec, StoreOnlyGrows

-----------------------------------------------------------------------------
(* While the process runs, the categories with a manager are the ones with *)
(* a row: a category that is looked up is created if it has no row.        *)
ManagersAreRows ==
    up => \A c \in Categories : c \in known <=> rows[c] > 0

Catalogued == NoDuplicateCategory /\ ManagersAreRows

(* get_category_manager, in a process that goes on or ends after the row.  *)
LEMMA LookupKeepsCatalogue ==
    ASSUME Typed, Catalogued, up, NEW c \in Categories, rows' = RowsWith(c)
    PROVE  /\ NoDuplicateCategory'
           /\ \A d \in Categories : d \in known \cup {c} <=> rows'[d] > 0
<1>1. rows \in [Categories -> Nat]
  BY DEF Typed, TypeOK
<1>2. \A d \in Categories : rows'[d] = IF d = c /\ c \notin known
                                       THEN rows[d] + 1 ELSE rows[d]
  BY <1>1 DEF RowsWith
<1>3. \A d \in Categories : /\ rows[d] \in Nat /\ rows[d] <= 1
                            /\ d \in known <=> rows[d] > 0
  BY <1>1 DEF Catalogued, NoDuplicateCategory, ManagersAreRows
<1>4. ASSUME NEW d \in Categories
      PROVE  rows'[d] <= 1 /\ (d \in known \cup {c} <=> rows'[d] > 0)
  <2>1. CASE d = c /\ c \notin known
    BY <1>2, <1>3, <2>1
  <2>2. CASE ~(d = c /\ c \notin known)
    BY <1>2, <1>3, <2>2
  <2> QED BY <2>1, <2>2
<1> QED BY <1>4 DEF NoDuplicateCategory

LEMMA CatalogueStep ==
    ASSUME Typed, Catalogued, [Next]_vars
    PROVE  Catalogued'
<1>1. ASSUME up, up' = up, NEW c \in Categories, GetCategoryManager(c)
      PROVE  Catalogued'
  <2>1. rows' = RowsWith(c) /\ known' = known \cup {c}
    BY <1>1 DEF GetCategoryManager
  <2> QED BY <1>1, <2>1, LookupKeepsCatalogue DEF Catalogued, ManagersAreRows
<1>2. CASE UNCHANGED <<rows, known, up>>
  BY <1>2 DEF Catalogued, NoDuplicateCategory, ManagersAreRows
<1>3. ASSUME Crash PROVE Catalogued'
  BY <1>3 DEF Crash, Stop, Catalogued, NoDuplicateCategory, ManagersAreRows
<1>4. ASSUME NEW c \in Categories,
             CrashInLookup(c) \/ \E a \in Ads : CrashInPostAd(a, c)
      PROVE  Catalogued'
  <2>1. up /\ up' = FALSE /\ rows' = RowsWith(c)
    BY <1>4 DEF CrashInLookup, CrashInPostAd, Stop
  <2> QED BY <2>1, LookupKeepsCatalogue DEF Catalogued, ManagersAreRows
<1>5. ASSUME Restart PROVE Catalogued'
  <2>1. rows' = rows /\ known' = {c \in Categories : rows[c] > 0}
    BY <1>5 DEF Restart, KnownAtStart, durable
  <2> QED BY <2>1 DEF Catalogued, NoDuplicateCategory, ManagersAreRows
<1>6. \/ UNCHANGED <<rows, known, up>>
      \/ /\ up /\ up' = up
         /\ \E c \in Categories : GetCategoryManager(c)
      \/ Crash
      \/ \E c \in Categories : CrashInLookup(c) \/ \E a \in Ads : CrashInPostAd(a, c)
      \/ Restart
  BY DEF Next, vars, durable, process, managers, Join, Connect, AcceptFails, ReplayTurn,
         ReplayRaises, ReceiveText, HandleDisconnect, Close, PostAd, PostAdRefused,
         BroadcastTurn, BroadcastRaises
<1> QED BY <1>1, <1>2, <1>3, <1>4, <1>5, <1>6

(* GlobalCategoryManager creates no category twice, whether it is joined   *)
(* or posted to, loaded at a start, or left half made by an end.           *)
THEOREM CategoriesAreUnique == Spec => []NoDuplicateCategory
<1>1. Init => Catalogued
  BY DEF Init, Catalogued, NoDuplicateCategory, ManagersAreRows
<1>2. Typed /\ Catalogued /\ [Next]_vars => Catalogued'
  BY CatalogueStep
<1>3. Catalogued => NoDuplicateCategory
  BY DEF Catalogued
<1> QED BY <1>1, <1>2, <1>3, StaysTyped, PTL DEF Spec

-----------------------------------------------------------------------------
(* What is in a manager's history, and what is being broadcast, is in the  *)
(* ads table of that category.                                             *)
HistoryIsStored == \A c \in Categories : Contents(ads[c]) \cap Ads \subseteq Contents(store[c])

SentIsStored ==
    \A a \in Ads : casts[a].st = "sending" => a \in Contents(store[sentTo[a]])

Durable == HistoryIsStored /\ SentIsStored /\ ShownIsDurable

LEMMA StoredStays ==
    ASSUME Typed, [Next]_vars, NEW c \in Categories
    PROVE  Contents(store[c]) \subseteq Contents(store'[c])
<1>1. store[c] \in Seq(Ads)
  BY DEF Typed, TypeOK
<1>2. ASSUME NEW a \in Ads, store'[c] = Append(store[c], a)
      PROVE  Contents(store[c]) \subseteq Contents(store'[c])
  BY <1>1, <1>2, AppendContents
<1> QED BY <1>2, StoreStep

(* send_ad stores the ad before it is in the history or broadcast.         *)
LEMMA PostAdStores ==
    ASSUME Typed, NEW a \in Ads, NEW c \in Categories, PostAd(a, c)
    PROVE  /\ a \in Contents(store'[c])
           /\ sentTo'[a] = c
           /\ Contents(ads'[c]) = Contents(ads[c]) \cup {a}
           /\ \A d \in Categories \ {c} : ads'[d] = ads[d]
<1>1. /\ store \in [Categories -> Seq(Ads)] /\ ads \in [Categories -> Seq(Ads \cup Texts)]
      /\ sentTo \in [Ads -> Categories \cup {NoCategory}]
  BY DEF Typed, TypeOK
<1>2. /\ store'[c] = Append(store[c], a) /\ ads'[c] = Append(ads[c], a)
      /\ sentTo'[a] = c
      /\ \A d \in Categories \ {c} : ads'[d] = ads[d]
  BY <1>1 DEF PostAd, StoreWith
<1>3. store[c] \in Seq(Ads) /\ ads[c] \in Seq(Ads \cup Texts)
  BY <1>1
<1>4. /\ Contents(Append(store[c], a)) = Contents(store[c]) \cup {a}
      /\ Contents(Append(ads[c], a)) = Contents(ads[c]) \cup {a}
  BY <1>3, AppendContents
<1> QED BY <1>2, <1>4

LEMMA HistoryStep ==
    ASSUME Typed, HistoryIsStored, [Next]_vars
    PROVE  HistoryIsStored'
<1> SUFFICES ASSUME NEW c \in Categories
             PROVE  Contents(ads'[c]) \cap Ads \subseteq Contents(store'[c])
  BY DEF HistoryIsStored
<1>1. ads \in [Categories -> Seq(Ads \cup Texts)] /\ ads[c] \in Seq(Ads \cup Texts)
  BY DEF Typed, TypeOK
<1>2. /\ Contents(ads[c]) \cap Ads \subseteq Contents(store[c])
      /\ Contents(store[c]) \subseteq Contents(store'[c])
  BY StoredStays DEF HistoryIsStored
<1>3. CASE ads' = ads
  BY <1>2, <1>3
<1>4. ASSUME NEW w \in Sockets, NEW x \in Texts, ReceiveText(w, x)
      PROVE  Contents(ads'[c]) \cap Ads \subseteq Contents(store'[c])
  <2>1. ads'[c] = ads[c] \/ ads'[c] = Append(ads[c], x)
    BY <1>1, <1>4 DEF ReceiveText
  <2>2. Contents(Append(ads[c], x)) = Contents(ads[c]) \cup {x}
    BY <1>1, AppendContents
  <2> QED BY <1>2, <2>1, <2>2, BulletinAssumption
<1>5. ASSUME NEW a \in Ads, NEW d \in Categories, PostAd(a, d)
      PROVE  Contents(ads'[c]) \cap Ads \subseteq Contents(store'[c])
  BY <1>2, <1>5, PostAdStores
<1>6. ASSUME Stop PROVE Contents(ads'[c]) \cap Ads \subseteq Contents(store'[c])
  <2>1. ads'[c] = <<>>
    BY <1>6 DEF Stop
  <2>2. Contents(<<>>) = {}
    BY DEF Contents
  <2> QED BY <2>1, <2>2
<1>7. ASSUME Restart PROVE Contents(ads'[c]) \cap Ads \subseteq Contents(store'[c])
  <2>1. store' = store /\ (ads'[c] = store[c] \/ ads'[c] = <<>>)
    BY <1>7 DEF Restart, durable, Loaded
  <2>2. Contents(<<>>) = {}
    BY DEF Contents
  <2> QED BY <2>1, <2>2
<1>8. \/ ads' = ads
      \/ \E w \in Sockets, x \in Texts : ReceiveText(w, x)
      \/ \E a \in Ads, d \in Categories : PostAd(a, d)
      \/ Stop
      \/ Restart
  BY DEF Next, vars, managers, Join, Connect, AcceptFails, ReplayTurn, ReplayRaises,
         HandleDisconnect, Close, PostAdRefused, CrashInPostAd, BroadcastTurn,
         BroadcastRaises, Crash, CrashInLookup
<1> QED BY <1>3, <1>4, <1>5, <1>6, <1>7, <1>8

LEMMA SentStep ==
    ASSUME Typed, SentIsStored, [Next]_vars
    PROVE  SentIsStored'
<1> SUFFICES ASSUME NEW a \in Ads, casts'[a].st = "sending"
             PROVE  a \in Contents(store'[sentTo'[a]])
  BY DEF SentIsStored
<1>1. /\ casts \in [Ads -> Casts] /\ sentTo \in [Ads -> Categories \cup {NoCategory}]
      /\ sentTo[a] = NoCategory => casts[a] = NoCast
      /\ NoCast.st # "sending"
  BY DEF Typed, TypeOK, NoCast
<1>2. CASE casts[a].st = "sending" /\ sentTo'[a] = sentTo[a]
  <2>1. sentTo[a] \in Categories /\ a \in Contents(store[sentTo[a]])
    BY <1>1, <1>2 DEF SentIsStored
  <2> QED BY <1>2, <2>1, StoredStays
<1>3. CASE \E c \in Categories : PostAd(a, c)
  BY <1>3, PostAdStores
<1>4. casts' = casts /\ sentTo' = sentTo => casts[a].st = "sending" /\ sentTo'[a] = sentTo[a]
  OBVIOUS
<1>5. ASSUME NEW w \in Sockets, Connect(w)
      PROVE  casts[a].st = "sending" /\ sentTo'[a] = sentTo[a]
  BY <1>5 DEF Connect, Disturbed
<1>6. ASSUME NEW b \in Ads, NEW c \in Categories, PostAd(b, c), b # a
      PROVE  casts[a].st = "sending" /\ sentTo'[a] = sentTo[a]
  BY <1>1, <1>6 DEF PostAd
<1>7. ASSUME NEW b \in Ads, NEW c \in Categories, PostAdRefused(b, c)
      PROVE  casts[a].st = "sending" /\ sentTo'[a] = sentTo[a]
  BY <1>1, <1>7 DEF PostAdRefused
<1>8. ASSUME Stop PROVE FALSE
  <2>1. casts'[a] = CutShort(casts[a]) /\ casts[a] \in Casts
    BY <1>1, <1>8 DEF Stop
  <2> QED BY <2>1 DEF CutShort, Casts
<1>9. ASSUME NEW b \in Ads, BroadcastTurn(b)
      PROVE  casts[a].st = "sending" /\ sentTo'[a] = sentTo[a]
  BY <1>1, <1>9 DEF BroadcastTurn
<1>10. ASSUME NEW b \in Ads, BroadcastRaises(b)
       PROVE  casts[a].st = "sending" /\ sentTo'[a] = sentTo[a]
  BY <1>1, <1>10 DEF BroadcastRaises
<1>11. \/ casts' = casts /\ sentTo' = sentTo
       \/ \E w \in Sockets : Connect(w)
       \/ \E b \in Ads, c \in Categories : PostAd(b, c) \/ PostAdRefused(b, c)
       \/ Stop
       \/ \E b \in Ads : BroadcastTurn(b) \/ BroadcastRaises(b)
  BY DEF Next, vars, requests, Join, AcceptFails, ReplayTurn, ReplayRaises, ReceiveText,
         HandleDisconnect, Close, CrashInPostAd, Crash, CrashInLookup,
         Restart
<1> QED BY <1>2, <1>3, <1>4, <1>5, <1>6, <1>7, <1>8, <1>9, <1>10, <1>11

(* What a turn of a replay writes comes from the history of the category   *)
(* its board joined.                                                       *)
LEMMA ReplayShows ==
    ASSUME Typed, [Next]_vars, NEW w \in Sockets, Connect(w) \/ ReplayTurn(w),
           NEW v \in Sockets, NEW a \in Ads, got'[v][a] > 0
    PROVE  \/ got[v][a] > 0
           \/ \E c \in Categories : v \in Active(table'[c]) /\ a \in Contents(ads'[c])
<1> DEFINE c == joined[w]
<1>1. TypeOK /\ pc[w] \in {"accepting", "replaying"} /\ c \in Categories
  BY DEF Typed, Connect, ReplayTurn, TypeOK
<1>2. ads' = ads /\ table' \in [Categories -> Tables] /\ table'[c] \in Tables
  BY <1>1, NextTyped DEF Connect, ReplayTurn, managers, Typed, TypeOK
<1>3. \E i \in 0..Len(ads[c]) : Replay(w, table'[c], i)
  <2>1. Len(ads[c]) \in Nat
    BY <1>1 DEF TypeOK
  <2>2. CASE Connect(w)
    <3>1. PICK t \in Puts(table[c], w) : table' = [table EXCEPT ![c] = t] /\ Replay(w, t, 0)
      BY <2>2 DEF Connect
    <3>2. table'[c] = t
      BY <1>1, <3>1 DEF TypeOK
    <3> QED BY <2>1, <3>1, <3>2
  <2>3. CASE ReplayTurn(w)
    <3>1. table' = table /\ pc[w] = "replaying" /\ Replay(w, table[c], idx[w])
      BY <2>3 DEF ReplayTurn, managers
    <3>2. idx[w] \in 0..Len(ads[c])
      BY <1>1, <2>1, <3>1 DEF Typed, HandlersRun, TypeOK
    <3> QED BY <3>1, <3>2
  <2> QED BY <2>2, <2>3
<1>4. got[v][a] > 0 \/ (v \in Holders(table'[c], BoardOf[w]) /\ a \in Contents(ads[c]))
  BY <1>1, <1>2, <1>3, ReplayTypes
<1> QED BY <1>1, <1>2, <1>4 DEF Holders

(* A turn of a broadcast writes its ad to a board registered in the        *)
(* category the ad was sent to.                                            *)
LEMMA BroadcastShows ==
    ASSUME Typed, SentIsStored, [Next]_vars,
           NEW b \in Ads, BroadcastTurn(b) \/ \E c \in Categories : PostAd(b, c),
           NEW v \in Sockets, NEW a \in Ads, got'[v][a] > 0
    PROVE  \/ got[v][a] > 0
           \/ \E c \in Categories : v \in Active(table'[c]) /\ a \in Contents(store'[c])
<1>1. TypeOK /\ table \in [Categories -> Tables] /\ casts[b] \in Casts
  BY DEF Typed, TypeOK
<1>2. CASE BroadcastTurn(b)
  <2> DEFINE c == sentTo[b]
  <2>1. /\ casts[b].st = "sending" /\ c \in Categories /\ b \in Contents(store[c])
        /\ table' = table /\ store' = store
    BY <1>1, <1>2 DEF BroadcastTurn, SentIsStored, TypeOK, NoCast, managers, durable
  <2>2. PICK k \in Turns(table[c], casts[b]) : Send(WrittenBy(k), b)
    BY <1>2 DEF BroadcastTurn
  <2> HIDE DEF c
  <2>3. WrittenBy(k) \subseteq Active(table[c]) /\ WrittenBy(k) \in SUBSET Sockets
    BY <1>1, <2>1, <2>2, TurnTypes DEF Active
  <2>4. got[v][a] > 0 \/ (v \in WrittenBy(k) /\ a = b)
    BY <1>1, <2>2, <2>3, SendTypes
  <2> QED BY <2>1, <2>3, <2>4
<1>3. ASSUME NEW c \in Categories, PostAd(b, c)
      PROVE  \/ got[v][a] > 0
             \/ v \in Active(table'[c]) /\ a \in Contents(store'[c])
  <2>1. PICK k \in Turns(table[c], Opened(table[c])) : Send(WrittenBy(k), b)
    BY <1>3 DEF PostAd
  <2>2. Opened(table[c]) \in Casts /\ Opened(table[c]).st = "sending" /\ table[c] \in Tables
    BY <1>1, OpenedFacts
  <2>3. WrittenBy(k) \subseteq Active(table[c]) /\ WrittenBy(k) \in SUBSET Sockets
    BY <2>1, <2>2, TurnTypes DEF Active
  <2>4. got[v][a] > 0 \/ (v \in WrittenBy(k) /\ a = b)
    BY <1>1, <2>1, <2>3, SendTypes
  <2>5. table' = table /\ b \in Contents(store'[c])
    BY <1>3, PostAdStores DEF PostAd
  <2> QED BY <2>3, <2>4, <2>5
<1> QED BY <1>2, <1>3

LEMMA ShownStep ==
    ASSUME Typed, Durable, [Next]_vars
    PROVE  ShownIsDurable'
<1> SUFFICES ASSUME NEW v \in Sockets, NEW a \in Ads, got'[v][a] > 0
             PROVE  joined'[v] \in Categories /\ a \in Contents(store'[joined'[v]])
  BY DEF ShownIsDurable
<1>1. Typed' /\ HistoryIsStored'
  BY NextTyped, HistoryStep DEF Durable
<1>2. CASE got[v][a] > 0
  <2>1. joined[v] \in Categories /\ a \in Contents(store[joined[v]])
    BY <1>2 DEF Durable, ShownIsDurable
  <2>2. joined'[v] = joined[v]
    <3>1. joined \in [Sockets -> Categories \cup {NoCategory}]
          /\ \A w \in Sockets : joined[w] = NoCategory <=> pc[w] = "new"
      BY DEF Typed, TypeOK
    <3>2. ASSUME NEW w \in Sockets, NEW c \in Categories, Join(w, c)
          PROVE  joined'[v] = joined[v]
      BY <2>1, <3>1, <3>2, BulletinAssumption DEF Join
    <3>3. joined' = joined \/ \E w \in Sockets, c \in Categories : Join(w, c)
      BY DEF Next, vars, handlers, Connect, AcceptFails, ReplayTurn, ReplayRaises,
             ReceiveText, HandleDisconnect, Close, PostAd, PostAdRefused, CrashInPostAd,
             BroadcastTurn, BroadcastRaises, Crash, CrashInLookup, Restart, Stop
    <3> QED BY <3>2, <3>3
  <2> QED BY <2>1, <2>2, StoredStays
<1>3. CASE \E c \in Categories : v \in Active(table'[c]) /\ a \in Contents(store'[c])
  BY <1>1, <1>3 DEF Typed, EntriesAreJoined
<1>4. CASE \E c \in Categories : v \in Active(table'[c]) /\ a \in Contents(ads'[c])
  BY <1>1, <1>3, <1>4 DEF HistoryIsStored
<1>5. ASSUME NEW w \in Sockets, Connect(w) \/ ReplayTurn(w)
      PROVE  joined'[v] \in Categories /\ a \in Contents(store'[joined'[v]])
  BY <1>2, <1>4, <1>5, ReplayShows
<1>6. ASSUME NEW b \in Ads, BroadcastTurn(b) \/ \E c \in Categories : PostAd(b, c)
      PROVE  joined'[v] \in Categories /\ a \in Contents(store'[joined'[v]])
  BY <1>2, <1>3, <1>6, BroadcastShows DEF Durable
<1>7. \/ got' = got
      \/ \E w \in Sockets : Connect(w) \/ ReplayTurn(w)
      \/ \E b \in Ads : BroadcastTurn(b) \/ \E c \in Categories : PostAd(b, c)
  BY DEF Next, vars, pages, Join, AcceptFails, ReplayRaises, ReceiveText,
         HandleDisconnect, Close, PostAdRefused, CrashInPostAd, BroadcastRaises, Crash,
         CrashInLookup, Restart, Stop
<1> QED BY <1>2, <1>5, <1>6, <1>7

(* A board is only ever written ads that are in the table of its own       *)
(* category by then, and that a restarted server shows as well.            *)
THEOREM WhatIsShownIsStored == Spec => []ShownIsDurable
<1>1. Init => Durable
  BY DEF Init, Durable, HistoryIsStored, SentIsStored, ShownIsDurable, Contents, NoCast
<1>2. Typed /\ Durable /\ [Next]_vars => Durable'
  BY HistoryStep, SentStep, ShownStep DEF Durable
<1>3. Durable => ShownIsDurable
  BY DEF Durable
<1> QED BY <1>1, <1>2, <1>3, StaysTyped, PTL DEF Spec

-----------------------------------------------------------------------------
(* A history and the ads stored for its category go together.              *)
Matches(history, stored) ==
    /\ Cardinality(AdPlaces(history)) = Len(stored)
    /\ \A i \in AdPlaces(history) : history[i] = stored[RankOf(i, history)]

(* An ad of a history comes at one of the ranks there are.                 *)
LEMMA PlacesFacts ==
    ASSUME NEW h \in Seq(Ads \cup Texts)
    PROVE  /\ AdPlaces(h) \subseteq 1..Len(h)
           /\ IsFiniteSet(AdPlaces(h))
           /\ Cardinality(AdPlaces(h)) \in Nat
           /\ \A i \in AdPlaces(h) : RankOf(i, h) \in 1..Cardinality(AdPlaces(h))
<1>1. Len(h) \in Nat /\ AdPlaces(h) \subseteq 1..Len(h)
  BY DEF AdPlaces
<1>2. IsFiniteSet(1..Len(h)) /\ AdPlaces(h) \in SUBSET (1..Len(h))
  BY <1>1, FS_Interval
<1>3. IsFiniteSet(AdPlaces(h))
  BY <1>2, FS_Subset
<1>4. Cardinality(AdPlaces(h)) \in Nat
  BY <1>3, FS_CardinalityType
<1>5. ASSUME NEW i \in AdPlaces(h)
      PROVE  RankOf(i, h) \in 1..Cardinality(AdPlaces(h))
  <2> DEFINE P == {j \in AdPlaces(h) : j <= i}
  <2>1. P \in SUBSET AdPlaces(h) /\ i \in P
    BY <1>1
  <2>2. IsFiniteSet(P) /\ Cardinality(P) <= Cardinality(AdPlaces(h))
    BY <1>3, <2>1, FS_Subset
  <2>3. Cardinality(P) \in Nat /\ Cardinality(P) # 0
    <3>1. P # {}
      BY <2>1
    <3> HIDE DEF P
    <3> QED BY <2>2, <3>1, FS_CardinalityType, FS_EmptySet
  <2> QED BY <1>4, <2>2, <2>3 DEF RankOf
<1> QED BY <1>1, <1>3, <1>4, <1>5

(* What is appended to a history leaves the places before it alone.        *)
LEMMA PlacesOfAppend ==
    ASSUME NEW h \in Seq(Ads \cup Texts), NEW x \in Ads \cup Texts
    PROVE  /\ AdPlaces(Append(h, x)) =
                 IF x \in Ads THEN AdPlaces(h) \cup {Len(h) + 1} ELSE AdPlaces(h)
           /\ \A i \in AdPlaces(h) : /\ RankOf(i, Append(h, x)) = RankOf(i, h)
                                     /\ Append(h, x)[i] = h[i]
           /\ Append(h, x)[Len(h) + 1] = x
<1> DEFINE g == Append(h, x)
<1>1. /\ g \in Seq(Ads \cup Texts) /\ Len(h) \in Nat /\ Len(g) = Len(h) + 1
      /\ DOMAIN h = 1..Len(h) /\ DOMAIN g = 1..(Len(h) + 1)
      /\ \A i \in DOMAIN h : g[i] = h[i]
      /\ g[Len(h) + 1] = x
  OBVIOUS
<1> HIDE DEF g
<1>2. AdPlaces(g) = IF x \in Ads THEN AdPlaces(h) \cup {Len(h) + 1} ELSE AdPlaces(h)
  BY <1>1 DEF AdPlaces
<1>3. ASSUME NEW i \in AdPlaces(h) PROVE RankOf(i, g) = RankOf(i, h) /\ g[i] = h[i]
  <2>1. i \in 1..Len(h)
    BY <1>1 DEF AdPlaces
  <2>2. {j \in AdPlaces(g) : j <= i} = {j \in AdPlaces(h) : j <= i}
    BY <1>1, <1>2, <2>1
  <2> QED BY <1>1, <2>1, <2>2 DEF RankOf
<1> QED BY <1>1, <1>2, <1>3 DEF g

(* A text of a board leaves them together, and so does an ad that is added *)
(* to both.                                                                *)
LEMMA AppendsMatch ==
    ASSUME NEW h \in Seq(Ads \cup Texts), NEW s \in Seq(Ads), Matches(h, s)
    PROVE  /\ \A x \in Texts : Matches(Append(h, x), s)
           /\ \A a \in Ads : Matches(Append(h, a), Append(s, a))
<1>1. /\ Cardinality(AdPlaces(h)) = Len(s) /\ Len(s) \in Nat /\ Len(h) \in Nat
      /\ \A i \in AdPlaces(h) : h[i] = s[RankOf(i, h)] /\ RankOf(i, h) \in 1..Len(s)
      /\ AdPlaces(h) \subseteq 1..Len(h) /\ IsFiniteSet(AdPlaces(h))
  BY PlacesFacts DEF Matches
<1>2. ASSUME NEW x \in Texts PROVE Matches(Append(h, x), s)
  <2>1. x \notin Ads
    BY BulletinAssumption
  <2> QED BY <1>1, <2>1, PlacesOfAppend DEF Matches
<1>3. ASSUME NEW a \in Ads PROVE Matches(Append(h, a), Append(s, a))
  <2> DEFINE g == Append(h, a)
             n == Len(h) + 1
  <2>1. /\ AdPlaces(g) = AdPlaces(h) \cup {n} /\ g[n] = a
        /\ \A i \in AdPlaces(h) : RankOf(i, g) = RankOf(i, h) /\ g[i] = h[i]
    BY PlacesOfAppend
  <2>2. /\ Len(Append(s, a)) = Len(s) + 1 /\ Append(s, a)[Len(s) + 1] = a
        /\ \A r \in 1..Len(s) : Append(s, a)[r] = s[r]
    BY <1>1
  <2>3. n \notin AdPlaces(h) /\ \A j \in AdPlaces(h) \cup {n} : j <= n
    BY <1>1
  <2> HIDE DEF g, n
  <2>4. Cardinality(AdPlaces(g)) = Len(s) + 1
    BY <1>1, <2>1, <2>3, FS_AddElement
  <2>5. RankOf(n, g) = Len(s) + 1
    <3>1. {j \in AdPlaces(g) : j <= n} = AdPlaces(g)
      BY <2>1, <2>3
    <3> QED BY <2>4, <3>1 DEF RankOf
  <2>6. \A i \in AdPlaces(g) : g[i] = Append(s, a)[RankOf(i, g)]
    BY <1>1, <2>1, <2>2, <2>5
  <2> QED BY <2>2, <2>4, <2>6 DEF Matches, g
<1> QED BY <1>2, <1>3

(* What is loaded from the table goes together with the table.             *)
LEMMA LoadedMatches ==
    ASSUME NEW s \in Seq(Ads)
    PROVE  Matches(s, s)
<1>1. /\ Len(s) \in Nat /\ s \in Seq(Ads \cup Texts)
      /\ AdPlaces(s) = 1..Len(s)
  BY DEF AdPlaces
<1>2. ASSUME NEW n \in Nat PROVE Cardinality(1..n) = n
  <2>1. 1 \in Int /\ n \in Int /\ (1 > n => n = 0) /\ n - 1 + 1 = n
    OBVIOUS
  <2> QED BY <2>1, FS_Interval
<1>3. ASSUME NEW i \in AdPlaces(s) PROVE RankOf(i, s) = i
  <2>1. {j \in AdPlaces(s) : j <= i} = 1..i /\ i \in Nat
    BY <1>1
  <2> QED BY <1>2, <2>1 DEF RankOf
<1> QED BY <1>1, <1>2, <1>3 DEF Matches

(* The histories of a running process go together with the tables, and no  *)
(* ad is stored for a category without a row.                              *)
CacheInv ==
    /\ up => \A c \in Categories : Matches(ads[c], store[c])
    /\ \A c \in Categories : rows[c] = 0 => store[c] = <<>>

LEMMA CacheStep ==
    ASSUME Typed, Catalogued, CacheInv, [Next]_vars
    PROVE  CacheInv'
<1>1. /\ rows \in [Categories -> Nat] /\ store \in [Categories -> Seq(Ads)]
      /\ ads \in [Categories -> Seq(Ads \cup Texts)] /\ known \subseteq Categories
  BY DEF Typed, TypeOK
<1>2. ASSUME NEW c \in Categories, rows' = RowsWith(c), up
      PROVE  rows'[c] # 0 /\ \A d \in Categories \ {c} : rows'[d] = rows[d]
  BY <1>1, <1>2 DEF RowsWith, Catalogued, ManagersAreRows
<1>3. CASE UNCHANGED <<rows, store, ads, up>>
  BY <1>3 DEF CacheInv
<1>4. ASSUME NEW c \in Categories, GetCategoryManager(c), UNCHANGED <<store, ads, up>>, up
      PROVE  CacheInv'
  BY <1>2, <1>4 DEF CacheInv, GetCategoryManager
<1>5. ASSUME NEW w \in Sockets, NEW x \in Texts, ReceiveText(w, x)
      PROVE  CacheInv'
  <2>1. /\ UNCHANGED <<rows, store, up>> /\ ads' = [ads EXCEPT ![joined[w]] = Append(@, x)]
    BY <1>5 DEF ReceiveText, durable, process
  <2>2. \A d \in Categories : ads'[d] = ads[d] \/ ads'[d] = Append(ads[d], x)
    BY <1>1, <2>1
  <2>3. ASSUME up, NEW d \in Categories PROVE Matches(ads'[d], store[d])
    <3>1. Matches(ads[d], store[d]) /\ store[d] \in Seq(Ads) /\ ads[d] \in Seq(Ads \cup Texts)
      BY <1>1, <2>3 DEF CacheInv
    <3>2. Matches(Append(ads[d], x), store[d])
      BY <3>1, AppendsMatch
    <3> QED BY <2>2, <3>1, <3>2
  <2> QED BY <2>1, <2>3 DEF CacheInv
<1>6. ASSUME NEW a \in Ads, NEW c \in Categories, PostAd(a, c)
      PROVE  CacheInv'
  <2>1. /\ up /\ up' = up /\ rows' = RowsWith(c)
        /\ store' = StoreWith(c, a) /\ ads' = [ads EXCEPT ![c] = Append(@, a)]
    BY <1>6 DEF PostAd, GetCategoryManager, process
  <2>2. /\ store'[c] = Append(store[c], a) /\ ads'[c] = Append(ads[c], a)
        /\ \A d \in Categories \ {c} : store'[d] = store[d] /\ ads'[d] = ads[d]
    BY <1>1, <2>1 DEF StoreWith
  <2>3. Matches(ads'[c], store'[c])
    <3>1. Matches(ads[c], store[c]) /\ store[c] \in Seq(Ads) /\ ads[c] \in Seq(Ads \cup Texts)
      BY <1>1, <2>1 DEF CacheInv
    <3> QED BY <2>2, <3>1, AppendsMatch
  <2>4. \A d \in Categories : Matches(ads'[d], store'[d])
    BY <2>1, <2>2, <2>3 DEF CacheInv
  <2>5. \A d \in Categories : rows'[d] = 0 => store'[d] = <<>>
    BY <1>2, <2>1, <2>2 DEF CacheInv
  <2> QED BY <2>4, <2>5 DEF CacheInv
<1>7. ASSUME Crash PROVE CacheInv'
  BY <1>7 DEF Crash, Stop, CacheInv
<1>8. ASSUME NEW c \in Categories, CrashInLookup(c) PROVE CacheInv'
  BY <1>2, <1>8 DEF CrashInLookup, Stop, CacheInv
<1>9. ASSUME NEW a \in Ads, NEW c \in Categories, CrashInPostAd(a, c) PROVE CacheInv'
  <2>1. up /\ up' = FALSE /\ rows' = RowsWith(c)
    BY <1>9 DEF CrashInPostAd, Stop
  <2>2. \A d \in Categories \ {c} : store'[d] = store[d]
    BY <1>1, <1>9 DEF CrashInPostAd, StoreWith
  <2> QED BY <1>2, <2>1, <2>2 DEF CacheInv
<1>10. ASSUME Restart PROVE CacheInv'
  <2>1. rows' = rows /\ store' = store /\ ads' = [c \in Categories |-> Loaded(c)]
    BY <1>10 DEF Restart, durable
  <2>2. ASSUME NEW c \in Categories PROVE Matches(ads'[c], store[c])
    <3>1. rows[c] \in Nat /\ store[c] \in Seq(Ads) /\ ads'[c] = Loaded(c)
      BY <1>1, <2>1
    <3>2. ads'[c] = store[c]
      BY <3>1 DEF Loaded, CacheInv
    <3> QED BY <3>1, <3>2, LoadedMatches
  <2> QED BY <2>1, <2>2 DEF CacheInv
<1>11. \/ UNCHANGED <<rows, store, ads, up>>
       \/ /\ \E c \in Categories : GetCategoryManager(c)
          /\ UNCHANGED <<store, ads, up>> /\ up
       \/ \E w \in Sockets, x \in Texts : ReceiveText(w, x)
       \/ \E a \in Ads, c \in Categories : PostAd(a, c) \/ CrashInPostAd(a, c)
       \/ Crash
       \/ \E c \in Categories : CrashInLookup(c)
       \/ Restart
  BY DEF Next, vars, durable, process, managers, Join, Connect, AcceptFails, ReplayTurn,
         ReplayRaises, HandleDisconnect, Close, PostAdRefused, BroadcastTurn,
         BroadcastRaises
<1> QED BY <1>3, <1>4, <1>5, <1>6, <1>7, <1>8, <1>9, <1>10, <1>11

(* While a process runs, the managers are a faithful cache of the tables:  *)
(* one manager for each row, and in its history the stored ads in their    *)
(* order, although send_ad commits the row of the category, the row of the *)
(* ad and the history one after the other and may end between any two.     *)
THEOREM CacheIsCoherent == Spec => []CacheMatchesStore
<1>1. Init => Catalogued /\ CacheInv
  <2> SUFFICES ASSUME Init PROVE Catalogued /\ CacheInv
    OBVIOUS
  <2>1. <<>> \in Seq(Ads)
    OBVIOUS
  <2>2. Matches(<<>>, <<>>)
    BY <2>1, LoadedMatches
  <2>3. CacheInv
    BY <2>2 DEF Init, CacheInv
  <2> QED BY <2>3 DEF Init, Catalogued, NoDuplicateCategory, ManagersAreRows
<1>2. Typed /\ Catalogued /\ CacheInv /\ [Next]_vars => Catalogued' /\ CacheInv'
  BY CatalogueStep, CacheStep
<1>3. Typed /\ Catalogued /\ CacheInv => CacheMatchesStore
  BY DEF Typed, TypeOK, Catalogued, ManagersAreRows, CacheInv, Matches, KnownAtStart,
         CacheMatchesStore
<1> QED BY <1>1, <1>2, <1>3, StaysTyped, PTL DEF Spec

-----------------------------------------------------------------------------
(* Nobody else uses the board id of w.                                     *)
Alone(w) == \A v \in Sockets \ {w} : BoardOf[v] # BoardOf[w]

(* Its id is in boards from before the accept to the end of its entry, and *)
(* its entry is there from the accept to the end of its handler.           *)
ListedAs(w, c) ==
    /\ pc[w] \in {"accepting", "replaying", "receiving"} \/ w \in Active(table[c])
          => BoardOf[w] \in boards[c]
    /\ pc[w] \in {"replaying", "receiving"} => w \in Active(table[c])

Listed == \A w \in Sockets : Alone(w) /\ joined[w] # NoCategory => ListedAs(w, joined[w])

(* Registrations and disconnects of other boards leave both alone.         *)
LEMMA OthersKeepListed ==
    ASSUME Typed, Listed, [Next]_vars, NEW w \in Sockets, Alone(w), joined[w] # NoCategory,
           NEW v \in Sockets \ {w}, Connect(v) \/ HandleDisconnect(v)
    PROVE  ListedAs(w, joined[w])'
<1> DEFINE c == joined[w]
           d == joined[v]
<1>1. /\ TypeOK /\ c \in Categories /\ d \in Categories /\ joined' = joined
      /\ table \in [Categories -> Tables] /\ table[d] \in Tables /\ IsDictionary(table[d])
      /\ boards \in [Categories -> SUBSET Boards]
      /\ pc \in [Sockets -> {"new", "accepting", "replaying", "receiving", "gone", "dead"}]
      /\ ListedAs(w, c) /\ BoardOf[v] # BoardOf[w]
  <2>1. TypeOK /\ Dictionaries
    BY DEF Typed
  <2>2. /\ table \in [Categories -> Tables] /\ boards \in [Categories -> SUBSET Boards]
        /\ pc \in [Sockets -> {"new", "accepting", "replaying", "receiving", "gone", "dead"}]
        /\ joined \in [Sockets -> Categories \cup {NoCategory}]
        /\ \A u \in Sockets : joined[u] = NoCategory <=> pc[u] = "new"
    BY <2>1 DEF TypeOK
  <2>3. pc[v] # "new" /\ joined' = joined
    BY DEF Connect, HandleDisconnect
  <2>4. c \in Categories /\ d \in Categories
    BY <2>2, <2>3
  <2>5. ListedAs(w, c) /\ BoardOf[v] # BoardOf[w]
    BY DEF Listed, Alone
  <2> QED BY <2>1, <2>2, <2>3, <2>4, <2>5 DEF Dictionaries
<1> HIDE DEF c, d
<1>2. CASE Connect(v)
  <2>1. /\ pc[v] = "accepting" /\ boards' = boards /\ v \notin Active(table[d])
        /\ 0 \in 0..Len(ads[d])
    BY <1>1, <1>2 DEF Connect, Typed, EntriesAreJoined, TypeOK
  <2>2. PICK t \in Puts(table[d], v) : table' = [table EXCEPT ![d] = t] /\ Replay(v, t, 0)
    BY <1>2 DEF Connect, d
  <2>3. t \in Tables /\ Active(t) \subseteq Active(table[d]) \cup {v}
    BY <1>1, <2>1, <2>2, PutFacts
  <2>4. pc'[w] = pc[w]
    BY <1>1, <2>1, <2>2, <2>3, ReplayTypes DEF d
  <2>5. w \in Active(table[d]) => w \in Active(t)
    BY <1>1, <2>1, <2>2, PutKeepsOthers
  <2>6. w \in Active(table'[c]) <=> w \in Active(table[c])
    BY <1>1, <2>2, <2>3, <2>5
  <2> QED BY <1>1, <2>1, <2>4, <2>6 DEF ListedAs, c
<1>3. CASE HandleDisconnect(v)
  <2>1. /\ boards' = [boards EXCEPT ![d] = @ \ {BoardOf[v]}]
        /\ table' = [table EXCEPT ![d] = Popped(@, BoardOf[v])]
        /\ pc'[w] = pc[w]
    BY <1>1, <1>3 DEF HandleDisconnect, DiscardedFrom, d
  <2>2. Active(Popped(table[d], BoardOf[v])) = Active(table[d]) \ Holders(table[d], BoardOf[v])
    BY <1>1, PoppedFacts
  <2>3. w \in Active(table'[c]) <=> w \in Active(table[c])
    BY <1>1, <2>1, <2>2 DEF Holders
  <2>4. BoardOf[w] \in boards[c] => BoardOf[w] \in boards'[c]
    BY <1>1, <2>1
  <2> QED BY <1>1, <2>1, <2>3, <2>4 DEF ListedAs, c
<1> QED BY <1>2, <1>3

LEMMA ListedStep ==
    ASSUME Typed, Listed, [Next]_vars
    PROVE  Listed'
<1> SUFFICES ASSUME NEW w \in Sockets, Alone(w), joined'[w] # NoCategory
             PROVE  ListedAs(w, joined[w])'
  BY DEF Listed, Alone
<1>1. /\ TypeOK /\ table \in [Categories -> Tables]
      /\ boards \in [Categories -> SUBSET Boards]
      /\ pc \in [Sockets -> {"new", "accepting", "replaying", "receiving", "gone", "dead"}]
      /\ joined \in [Sockets -> Categories \cup {NoCategory}]
      /\ joined[w] = NoCategory <=> pc[w] = "new"
      /\ joined[w] # NoCategory => ListedAs(w, joined[w])
  BY DEF Typed, TypeOK, Listed
<1>2. CASE /\ UNCHANGED <<boards, table, joined>>
           /\ pc'[w] # pc[w] =>
                 \/ pc'[w] = "dead"
                 \/ pc[w] = "replaying" /\ pc'[w] \in {"replaying", "receiving"}
  BY <1>1, <1>2 DEF ListedAs
<1>3. ASSUME NEW v \in Sockets, NEW c \in Categories, Join(v, c)
      PROVE  ListedAs(w, joined[w])'
  <2>1. /\ boards' = [boards EXCEPT ![c] = @ \cup {BoardOf[v]}] /\ table' = table
        /\ pc' = [pc EXCEPT ![v] = "accepting"] /\ joined' = [joined EXCEPT ![v] = c]
    BY <1>3 DEF Join
  <2>2. CASE v = w
    <3>1. joined'[w] = c /\ pc'[w] = "accepting" /\ BoardOf[w] \in boards'[c]
      BY <1>1, <2>1, <2>2
    <3> QED BY <3>1 DEF ListedAs
  <2>3. CASE v # w
    <3>1. /\ joined'[w] = joined[w] /\ pc'[w] = pc[w] /\ joined[w] \in Categories
          /\ boards[joined[w]] \subseteq boards'[joined[w]]
      BY <1>1, <2>1, <2>3
    <3> QED BY <1>1, <2>1, <3>1 DEF ListedAs
  <2> QED BY <2>2, <2>3
<1>4. ASSUME Connect(w) PROVE ListedAs(w, joined[w])'
  <2> DEFINE c == joined[w]
  <2>1. /\ pc[w] = "accepting" /\ boards' = boards /\ joined' = joined
        /\ c \in Categories /\ table[c] \in Tables /\ IsDictionary(table[c])
        /\ w \in Sockets \ Active(table[c]) /\ BoardOf[w] \in boards[c]
    BY <1>1, <1>4 DEF Connect, Typed, Dictionaries, EntriesAreJoined, ListedAs
  <2>2. PICK t \in Puts(table[c], w) : table' = [table EXCEPT ![c] = t]
    BY <1>4 DEF Connect
  <2> HIDE DEF c
  <2>3. w \in Active(t)
    BY <2>1, <2>2, PutFacts
  <2>4. w \in Active(table'[c])
    BY <1>1, <2>1, <2>2, <2>3
  <2> QED BY <2>1, <2>4 DEF ListedAs, c
<1>5. ASSUME HandleDisconnect(w) PROVE ListedAs(w, joined[w])'
  <2> DEFINE c == joined[w]
  <2>1. /\ joined' = joined /\ c \in Categories
        /\ table[c] \in Tables /\ IsDictionary(table[c])
        /\ table' = [table EXCEPT ![c] = Popped(@, BoardOf[w])]
        /\ pc'[w] \in {"gone", "dead"}
    BY <1>1, <1>5 DEF HandleDisconnect, Typed, Dictionaries
  <2> HIDE DEF c
  <2>2. w \notin Active(table'[c])
    BY <1>1, <2>1, PoppedFacts DEF Holders
  <2> QED BY <2>1, <2>2 DEF ListedAs, c
<1>6. ASSUME NEW v \in Sockets \ {w}, Connect(v) \/ HandleDisconnect(v)
      PROVE  ListedAs(w, joined[w])'
  <2>1. joined' = joined
    BY <1>6 DEF Connect, HandleDisconnect
  <2> QED BY <1>6, <2>1, OthersKeepListed
<1>7. ASSUME Stop PROVE ListedAs(w, joined[w])'
  <2>1. /\ pc'[w] \notin {"accepting", "replaying", "receiving"}
        /\ joined' = joined /\ table' = [c \in Categories |-> EmptyTable]
    BY <1>1, <1>7 DEF Stop
  <2>2. joined'[w] \in Categories
    BY <1>1, <2>1
  <2> QED BY <2>1, <2>2, EmptyTableFacts DEF ListedAs
<1>8. ASSUME NEW v \in Sockets,
             \/ AcceptFails(v) \/ ReplayRaises(v) \/ ReplayTurn(v)
             \/ \E x \in Texts : ReceiveText(v, x)
      PROVE  pc'[w] # pc[w] =>
                \/ pc'[w] = "dead"
                \/ pc[w] = "replaying" /\ pc'[w] \in {"replaying", "receiving"}
  <2>1. \/ pc' = pc
        \/ pc' = [pc EXCEPT ![v] = "dead"]
        \/ /\ pc[v] = "replaying"
           /\ \E s \in {"replaying", "receiving"} : pc' = [pc EXCEPT ![v] = s]
    BY <1>8 DEF AcceptFails, ReplayRaises, ReplayTurn, ReceiveText, Replay, Die
  <2>2. CASE pc' = [pc EXCEPT ![v] = "dead"]
    BY <1>1, <2>2
  <2>3. ASSUME pc[v] = "replaying", NEW s \in {"replaying", "receiving"},
               pc' = [pc EXCEPT ![v] = s]
        PROVE  pc'[w] # pc[w] => pc[w] = "replaying" /\ pc'[w] \in {"replaying", "receiving"}
    BY <1>1, <2>3
  <2> QED BY <2>1, <2>2, <2>3
<1>9. \/ UNCHANGED <<boards, table, joined, pc>>
      \/ UNCHANGED <<boards, table, joined>>
         /\ \E v \in Sockets : \/ AcceptFails(v) \/ ReplayRaises(v) \/ ReplayTurn(v)
                               \/ \E x \in Texts : ReceiveText(v, x)
      \/ \E v \in Sockets : \/ \E c \in Categories : Join(v, c)
                            \/ Connect(v)
                            \/ HandleDisconnect(v)
      \/ Stop
  BY DEF Next, vars, managers, handlers, Close, PostAd, PostAdRefused, CrashInPostAd,
         BroadcastTurn, BroadcastRaises, Crash, CrashInLookup, Restart, AcceptFails,
         ReplayRaises, ReplayTurn, ReceiveText
<1> QED BY <1>2, <1>3, <1>4, <1>5, <1>6, <1>7, <1>8, <1>9

(* boards and active_connections of a category agree on a board whose id   *)
(* nobody else uses: add_to_category writes the one before its await and   *)
(* the other after it, remove_from_category takes both, and no step of     *)
(* another handler undoes either.                                          *)
THEOREM RegistrationsAgree == Spec => []RegisteredBoardIsListed
<1>1. Init => Listed
  BY DEF Init, Listed
<1>2. Typed /\ Listed /\ [Next]_vars => Listed'
  BY ListedStep
<1>3. Typed /\ Listed => RegisteredBoardIsListed
  BY DEF Typed, TypeOK, Listed, Alone, ListedAs, Listening, RegisteredBoardIsListed
<1> QED BY <1>1, <1>2, <1>3, StaysTyped, PTL DEF Spec
=============================================================================

---------------------- MODULE ConnectionManagerProofs ----------------------
(***************************************************************************)
(* Type correctness and the safety invariants of ConnectionManager, for    *)
(* any finite set of sockets and any sets of boards and advertisements.    *)
(* The lemmas about the table and its iterators are those of               *)
(* ActiveConnectionsProofs; what is left here is one step per action.      *)
(***************************************************************************)
EXTENDS ConnectionManager, ActiveConnectionsProofs

(* A socket that has not connected is known to nobody.                     *)
NewIsUnknown ==
    \A w \in Sockets : client[w] = "new" =>
        /\ w \notin Active(table)
        /\ \A a \in Ads : w \notin casts[a].audience /\ w \notin casts[a].heard

CastsOK == \A a \in Ads : CastOK(table, casts[a])

IInv ==
    /\ TypeOK
    /\ RegistryIsADictionary
    /\ NewIsUnknown
    /\ CastsOK

-----------------------------------------------------------------------------
LEMMA InitEstablishes == Init => IInv
<1> SUFFICES ASSUME Init PROVE IInv
  OBVIOUS
<1>1. EmptyTable \in Tables /\ Active(EmptyTable) = {} /\ IsDictionary(EmptyTable)
  BY EmptyTableFacts
<1>2. TypeOK
  BY <1>1, NoCastFacts DEF Init, TypeOK, Clients
<1>3. NewIsUnknown
  BY <1>1 DEF Init, NewIsUnknown, NoCast
<1>4. CastsOK
  BY NoCastFacts DEF Init, CastsOK
<1> QED BY <1>1, <1>2, <1>3, <1>4 DEF Init, IInv, RegistryIsADictionary

(* connect, the one action that can move entries under a broadcast.        *)
LEMMA ConnectKeeps ==
    ASSUME IInv, NEW w \in Sockets, Connect(w)
    PROVE  IInv'
<1>1. /\ table \in Tables /\ IsDictionary(table)
      /\ client \in [Sockets -> Clients] /\ client[w] = "new"
      /\ casts \in [Ads -> Casts]
      /\ \A a \in Ads : casts[a] \in Casts /\ CastOK(table, casts[a])
  BY DEF IInv, TypeOK, RegistryIsADictionary, CastsOK, Connect
<1>2. /\ w \in Sockets \ Active(table)
      /\ \A a \in Ads : w \notin casts[a].audience /\ w \notin casts[a].heard
  BY <1>1 DEF IInv, NewIsUnknown
<1>3. table' \in Puts(table, w)
  BY DEF Connect
<1>4. /\ table' \in Tables /\ IsDictionary(table')
      /\ Active(table') \subseteq Active(table) \cup {w}
  BY <1>1, <1>2, <1>3, PutFacts
<1>5. \A a \in Ads : casts'[a] = Disturbed(casts[a], NeedsRebuild(table, w))
  BY DEF Connect
<1>6. \A a \in Ads : /\ casts'[a] \in Casts
                     /\ CastOK(table', casts'[a])
                     /\ casts'[a].audience = casts[a].audience
                     /\ casts'[a].heard = casts[a].heard
  BY <1>1, <1>2, <1>3, <1>5, PutKeepsCast
<1>7. client' \in [Sockets -> Clients]
  BY <1>1 DEF Connect, Clients
<1>8. casts' \in [Ads -> Casts]
  BY <1>6 DEF Connect
<1>9. \A v \in Sockets : client'[v] = "new" => v # w /\ client[v] = "new"
  BY <1>1 DEF Connect
<1>10. NewIsUnknown'
  BY <1>4, <1>6, <1>9 DEF IInv, NewIsUnknown
<1>11. TypeOK'
  BY <1>4, <1>7, <1>8 DEF TypeOK
<1>12. CastsOK'
  BY <1>6 DEF CastsOK
<1> QED BY <1>4, <1>10, <1>11, <1>12 DEF IInv, RegistryIsADictionary

(* The actions that only close the far end of a socket.                    *)
LEMMA ClosingKeeps ==
    ASSUME IInv, NEW w \in Sockets, ConnectFails(w) \/ Close(w)
    PROVE  IInv'
<1>1. client \in [Sockets -> Clients] /\ table' = table /\ casts' = casts
  BY DEF IInv, TypeOK, ConnectFails, Close
<1>2. client' = [client EXCEPT ![w] = "closed"]
  BY DEF ConnectFails, Close
<1>3. TypeOK'
  BY <1>1, <1>2 DEF IInv, TypeOK, Clients
<1>4. NewIsUnknown'
  <2>1. \A v \in Sockets : client'[v] = "new" => client[v] = "new"
    BY <1>1, <1>2
  <2> QED BY <1>1, <2>1 DEF IInv, NewIsUnknown
<1> QED BY <1>1, <1>3, <1>4 DEF IInv, RegistryIsADictionary, CastsOK

LEMMA DisconnectKeeps ==
    ASSUME IInv, NEW b, Disconnect(b)
    PROVE  IInv'
<1>1. /\ table \in Tables /\ IsDictionary(table)
      /\ \A a \in Ads : casts[a] \in Casts /\ CastOK(table, casts[a])
  BY DEF IInv, TypeOK, RegistryIsADictionary, CastsOK
<1>2. table' = Popped(table, b) /\ client' = client /\ casts' = casts
  BY DEF Disconnect
<1>3. /\ table' \in Tables /\ IsDictionary(table')
      /\ Active(table') \subseteq Active(table)
  BY <1>1, <1>2, PoppedFacts
<1>4. CastsOK'
  BY <1>1, <1>2, PopKeepsCast DEF CastsOK
<1>5. NewIsUnknown'
  BY <1>2, <1>3 DEF IInv, NewIsUnknown
<1> QED BY <1>2, <1>3, <1>4, <1>5 DEF IInv, TypeOK, RegistryIsADictionary

(* A step of one broadcast that leaves it related to the table as before,  *)
(* and knowing only sockets it knew or that are registered.                *)
LEMMA CastStepKeeps ==
    ASSUME IInv, NEW a \in Ads, NEW k \in Casts,
           table' = table, client' = client,
           casts' = [casts EXCEPT ![a] = k],
           CastOK(table, k),
           k.audience \subseteq casts[a].audience \cup Active(table),
           k.heard \subseteq casts[a].heard \cup Active(table)
    PROVE  IInv'
<1>1. casts \in [Ads -> Casts] /\ \A b \in Ads : CastOK(table, casts[b])
  BY DEF IInv, TypeOK, CastsOK
<1>2. casts' \in [Ads -> Casts]
  BY <1>1
<1>3. \A b \in Ads : casts'[b] = IF b = a THEN k ELSE casts[b]
  BY <1>1
<1>4. CastsOK'
  BY <1>1, <1>3 DEF CastsOK
<1>5. NewIsUnknown'
  BY <1>3 DEF IInv, NewIsUnknown
<1> QED BY <1>2, <1>4, <1>5 DEF IInv, TypeOK, RegistryIsADictionary

LEMMA BroadcastKeeps ==
    ASSUME IInv, NEW a \in Ads, Broadcast(a)
    PROVE  IInv'
<1>1. table \in Tables /\ IsDictionary(table)
  BY DEF IInv, TypeOK, RegistryIsADictionary
<1>2. PICK k \in Turns(table, Opened(table)) : casts' = [casts EXCEPT ![a] = k]
  BY DEF Broadcast
<1>3. /\ Opened(table) \in Casts /\ Opened(table).st = "sending"
      /\ Opened(table).audience = Active(table) /\ Opened(table).heard = {}
      /\ CastOK(table, Opened(table))
  BY <1>1, OpenedFacts
<1>4. /\ k \in Casts /\ CastOK(table, k)
      /\ k.audience = Active(table) /\ k.heard \subseteq Active(table)
  BY <1>1, <1>3, TurnFacts
<1>5. table' = table /\ client' = client
  BY DEF Broadcast
<1> QED BY <1>2, <1>4, <1>5, CastStepKeeps

LEMMA BroadcastTurnKeeps ==
    ASSUME IInv, NEW a \in Ads, BroadcastTurn(a)
    PROVE  IInv'
<1>1. /\ table \in Tables /\ IsDictionary(table) /\ casts[a] \in Casts
      /\ casts[a].st = "sending" /\ CastOK(table, casts[a])
  BY DEF IInv, TypeOK, RegistryIsADictionary, CastsOK, BroadcastTurn
<1>2. PICK k \in Turns(table, casts[a]) : casts' = [casts EXCEPT ![a] = k]
  BY DEF BroadcastTurn
<1>3. /\ k \in Casts /\ CastOK(table, k)
      /\ k.audience = casts[a].audience
      /\ k.heard \subseteq casts[a].heard \cup Active(table)
  BY <1>1, TurnFacts
<1>4. table' = table /\ client' = client
  BY DEF BroadcastTurn
<1> QED BY <1>2, <1>3, <1>4, CastStepKeeps

LEMMA BroadcastRaisesKeeps ==
    ASSUME IInv, NEW a \in Ads, BroadcastRaises(a)
    PROVE  IInv'
<1>1. casts \in [Ads -> Casts] /\ casts[a] \in Casts /\ CastOK(table, casts[a])
  BY DEF IInv, TypeOK, CastsOK
<1>2. casts' = [casts EXCEPT ![a] = CutShort(casts[a])]
  BY <1>1 DEF BroadcastRaises
<1>3. table' = table /\ client' = client
  BY DEF BroadcastRaises
<1>4. /\ CutShort(casts[a]) \in Casts
      /\ CastOK(table, CutShort(casts[a]))
      /\ CutShort(casts[a]).audience = casts[a].audience
      /\ CutShort(casts[a]).heard = casts[a].heard
  BY <1>1, CutShortFacts
<1> QED BY <1>2, <1>3, <1>4, CastStepKeeps

(* The new process knows no board, whatever the old one was doing.         *)
LEMMA ResetKeeps ==
    ASSUME IInv, Reset
    PROVE  IInv'
<1>1. /\ client \in [Sockets -> Clients] /\ casts \in [Ads -> Casts]
      /\ \A a \in Ads : casts[a] \in Casts /\ CastOK(table, casts[a])
  BY DEF IInv, TypeOK, CastsOK
<1>2. /\ table' \in Tables /\ IsDictionary(table') /\ Active(table') = {}
      /\ table' = EmptyTable
  BY EmptyTableFacts DEF Reset
<1>3. \A a \in Ads : casts'[a] = CutShort(casts[a])
  BY DEF Reset
<1>4. \A a \in Ads : /\ casts'[a] \in Casts
                     /\ CastOK(table', casts'[a])
                     /\ casts'[a].audience = casts[a].audience
                     /\ casts'[a].heard = casts[a].heard
  BY <1>1, <1>2, <1>3, CutShortFacts
<1>5. casts' \in [Ads -> Casts]
  BY <1>4 DEF Reset
<1>6. /\ client' \in [Sockets -> Clients]
      /\ \A w \in Sockets : client'[w] = "new" => client[w] = "new"
  BY <1>1 DEF Reset, Clients
<1>7. NewIsUnknown'
  BY <1>2, <1>4, <1>6 DEF IInv, NewIsUnknown
<1>8. CastsOK'
  BY <1>4 DEF CastsOK
<1> QED BY <1>2, <1>5, <1>6, <1>7, <1>8 DEF IInv, TypeOK, RegistryIsADictionary

LEMMA NextKeeps ==
    ASSUME IInv, [Next]_vars
    PROVE  IInv'
<1>1. ASSUME NEW w \in Sockets, Connect(w) PROVE IInv'
  BY <1>1, ConnectKeeps
<1>2. ASSUME NEW w \in Sockets, ConnectFails(w) \/ Close(w) PROVE IInv'
  BY <1>2, ClosingKeeps
<1>3. ASSUME NEW b \in Boards, Disconnect(b) PROVE IInv'
  BY <1>3, DisconnectKeeps
<1>4. ASSUME NEW a \in Ads, Broadcast(a) PROVE IInv'
  BY <1>4, BroadcastKeeps
<1>5. ASSUME NEW a \in Ads, BroadcastTurn(a) PROVE IInv'
  BY <1>5, BroadcastTurnKeeps
<1>6. ASSUME NEW a \in Ads, BroadcastRaises(a) PROVE IInv'
  BY <1>6, BroadcastRaisesKeeps
<1>7. ASSUME Reset PROVE IInv'
  BY <1>7, ResetKeeps
<1>8. ASSUME UNCHANGED vars PROVE IInv'
  BY <1>8 DEF vars, IInv, TypeOK, RegistryIsADictionary, NewIsUnknown, CastsOK
<1> QED BY <1>1, <1>2, <1>3, <1>4, <1>5, <1>6, <1>7, <1>8 DEF Next

-----------------------------------------------------------------------------
(* The registry is at all times what the broadcasts and the theorems below *)
(* take it to be.                                                          *)
THEOREM Inductive == Spec => []IInv
<1>1. Init => IInv
  BY InitEstablishes
<1>2. IInv /\ [Next]_vars => IInv'
  BY NextKeeps
<1> QED BY <1>1, <1>2, PTL DEF Spec

(* connect, disconnect and broadcast keep the registry and the broadcasts  *)
(* over it in their types, for every number of boards.                     *)
THEOREM TypeCorrect == Spec => []TypeOK
<1>1. IInv => TypeOK
  BY DEF IInv
<1> QED BY <1>1, Inductive, PTL

(* active_connections stays a dictionary whose entries lie in insertion    *)
(* order, through overwritings, holes and rebuilds.                        *)
THEOREM StaysADictionary == Spec => []RegistryIsADictionary
<1>1. IInv => RegistryIsADictionary
  BY DEF IInv
<1> QED BY <1>1, Inductive, PTL

(* A broadcast that ends normally over a table that was not rebuilt has    *)
(* written to every board registered from its beginning to its end.        *)
THEOREM PassIsFull == Spec => []FullPass
<1>1. IInv => FullPass
  BY DEF IInv, CastsOK, CastOK, FullPass
<1> QED BY <1>1, Inductive, PTL

(* No broadcast comes back to a socket it has written to, even when the    *)
(* table is rebuilt under it.                                              *)
THEOREM HeardStayBehind == Spec => []HeardAreBehind
<1>1. IInv => HeardAreBehind
  BY DEF IInv, CastsOK, CastOK, HeardAreBehind
<1> QED BY <1>1, Inductive, PTL

(* A broadcast writes to no socket twice and to at most as many as were    *)
(* registered when it began.                                               *)
THEOREM SendsAreCounted == Spec => []OneSendEach
<1>1. IInv => OneSendEach
  BY DEF IInv, CastsOK, CastOK, OneSendEach
<1> QED BY <1>1, Inductive, PTL
=============================================================================

---------------------- MODULE ActiveConnectionsProofs ----------------------
(***************************************************************************)
(* What the operations on active_connections and the turns of a broadcast  *)
(* keep, for every set of sockets and every room of the tables.            *)
(***************************************************************************)
EXTENDS ActiveConnections, FiniteSetTheorems, TLAPS

(* The registered sockets are finitely many, no more than there are.       *)
LEMMA ActiveIsFinite ==
    ASSUME NEW t \in Tables
    PROVE  /\ IsFiniteSet(Active(t))
           /\ Cardinality(Active(t)) \in 0..Cardinality(Sockets)
           /\ \A S \in SUBSET Active(t) :
                 IsFiniteSet(S) /\ Cardinality(S) \in 0..Cardinality(Active(t))
<1>1. Active(t) \in SUBSET Sockets
  BY DEF Active
<1>2. IsFiniteSet(Active(t)) /\ Cardinality(Active(t)) <= Cardinality(Sockets)
  BY <1>1, FS_Subset, RegistryAssumption
<1>3. Cardinality(Active(t)) \in Nat /\ Cardinality(Sockets) \in Nat
  BY <1>2, FS_CardinalityType, RegistryAssumption
<1>4. ASSUME NEW S \in SUBSET Active(t)
      PROVE  IsFiniteSet(S) /\ Cardinality(S) \in 0..Cardinality(Active(t))
  <2>1. IsFiniteSet(S) /\ Cardinality(S) <= Cardinality(Active(t))
    BY <1>2, FS_Subset
  <2>2. Cardinality(S) \in Nat
    BY <2>1, FS_CardinalityType
  <2> QED BY <2>1, <2>2, <1>3
<1> QED BY <1>2, <1>3, <1>4

(* The empty dictionary of a new manager is one.                           *)
LEMMA EmptyTableFacts ==
    /\ EmptyTable \in Tables
    /\ Active(EmptyTable) = {}
    /\ IsDictionary(EmptyTable)
<1>1. 0 \in DOMAIN RoomFor
  BY FS_CardinalityType, RegistryAssumption
<1>2. RoomFor[0] \in Nat /\ RoomFor[0] > 0
  BY <1>1, RegistryAssumption
<1> QED BY <1>2 DEF EmptyTable, Tables, Active, IsDictionary

(* A rebuild moves no entry up, keeps their order, and leaves room.        *)
LEMMA RebuiltFacts ==
    ASSUME NEW t \in Tables, IsDictionary(t)
    PROVE  /\ Rebuilt(t) \in Tables
           /\ Active(Rebuilt(t)) = Active(t)
           /\ IsDictionary(Rebuilt(t))
           /\ Rebuilt(t).fill < Rebuilt(t).room
           /\ \A w \in Active(t) : Rebuilt(t).slot[w] <= t.slot[w]
<1> DEFINE UpTo(w) == {v \in Active(t) : t.slot[v] <= t.slot[w]}
           r == Rebuilt(t)
           n == Cardinality(Active(t))
<1>1. \A w \in Sockets : UpTo(w) \in SUBSET Active(t)
  OBVIOUS
<1>2. \A w \in Sockets : IsFiniteSet(UpTo(w)) /\ Cardinality(UpTo(w)) \in 0..n
  BY <1>1, ActiveIsFinite
<1>3. n \in 0..Cardinality(Sockets) /\ n \in Nat /\ Cardinality(Sockets) \in Nat
  BY ActiveIsFinite, FS_CardinalityType, RegistryAssumption
<1>4. RoomFor[n] \in Nat /\ n < RoomFor[n]
  <2> HIDE DEF n
  <2> QED BY <1>3, RegistryAssumption
<1>5. /\ r.slot = [w \in Sockets |-> Cardinality(UpTo(w))]
      /\ r.fill = n
      /\ r.room = RoomFor[n]
  BY DEF Rebuilt
<1>6. r \in Tables
  <2>1. r = [slot |-> [w \in Sockets |-> Cardinality(UpTo(w))],
             fill |-> n, room |-> RoomFor[n]]
    BY DEF Rebuilt
  <2>2. [w \in Sockets |-> Cardinality(UpTo(w))] \in [Sockets -> Nat]
    <3> HIDE DEF UpTo, n
    <3> QED BY <1>2, <1>3
  <2> HIDE DEF UpTo, n, r
  <2> QED BY <2>1, <2>2, <1>3, <1>4 DEF Tables
<1>7. \A w \in Sockets : t.slot[w] \in Nat
  BY DEF Tables
<1>8. ASSUME NEW w \in Active(t)
      PROVE  r.slot[w] \in 1..t.slot[w]
  <2>1. w \in UpTo(w) /\ w \in Sockets
    BY <1>7 DEF Active
  <2>2. Cardinality(UpTo(w)) # 0
    BY <2>1, <1>2, FS_EmptySet
  <2>3. IsFiniteSet(1..t.slot[w]) /\ Cardinality(1..t.slot[w]) = t.slot[w]
    <3>1. t.slot[w] \in Int /\ 1 \in Int /\ t.slot[w] > 0
      BY <1>7 DEF Active
    <3> QED BY <3>1, FS_Interval
  <2> DEFINE f == [v \in UpTo(w) |-> t.slot[v]]
  <2>4. f \in Injection(UpTo(w), 1..t.slot[w])
    <3>1. f \in [UpTo(w) -> 1..t.slot[w]]
      BY <1>7 DEF Active
    <3>2. \A u, v \in UpTo(w) : f[u] = f[v] => u = v
      BY DEF IsDictionary
    <3> HIDE DEF f
    <3> QED BY <3>1, <3>2 DEF Injection, IsInjective
  <2>5. Cardinality(UpTo(w)) <= t.slot[w]
    <3> HIDE DEF f, UpTo
    <3> QED BY <2>3, <2>4, FS_Injection
  <2>6. Cardinality(UpTo(w)) \in Nat /\ t.slot[w] \in Nat
    BY <2>1, <1>2, <1>3, <1>7
  <2>7. r.slot[w] = Cardinality(UpTo(w))
    BY <2>1, <1>5
  <2> HIDE DEF UpTo, r
  <2> QED BY <2>2, <2>5, <2>6, <2>7
<1>9. \A w \in Sockets \ Active(t) : r.slot[w] = 0
  <2> SUFFICES ASSUME NEW w \in Sockets \ Active(t) PROVE r.slot[w] = 0
    OBVIOUS
  <2>1. UpTo(w) = {}
    BY <1>7 DEF Active
  <2> QED BY <2>1, <1>5, FS_EmptySet
<1>10. Active(r) = Active(t)
  <2>1. \A w \in Active(t) : r.slot[w] > 0
    BY <1>7, <1>8 DEF Active
  <2>2. \A w \in Sockets : r.slot[w] > 0 <=> w \in Active(t)
    BY <2>1, <1>9
  <2> HIDE DEF r
  <2> QED BY <2>2 DEF Active
<1>11. ASSUME NEW v \in Active(t), NEW w \in Active(t), t.slot[v] < t.slot[w]
       PROVE  r.slot[v] # r.slot[w]
  <2>1. v \in Sockets /\ w \in Sockets
    BY DEF Active
  <2>2. UpTo(v) \in SUBSET UpTo(w) /\ w \in UpTo(w) /\ w \notin UpTo(v)
    <3>1. t.slot[v] \in Nat /\ t.slot[w] \in Nat /\ t.slot[v] < t.slot[w]
      BY <1>7, <1>11, <2>1
    <3>2. \A u \in Active(t) : t.slot[u] \in Nat
      BY <1>7 DEF Active
    <3> QED BY <3>1, <3>2
  <2>3. UpTo(v) # UpTo(w)
    BY <2>2
  <2>4. Cardinality(UpTo(v)) # Cardinality(UpTo(w))
    <3> HIDE DEF UpTo
    <3> QED BY <2>1, <2>2, <2>3, <1>2, FS_Subset
  <2> QED BY <2>1, <2>4, <1>5
<1>12. IsDictionary(r)
  <2>1. \A v, w \in Active(t) : v # w => r.slot[v] # r.slot[w]
    <3> SUFFICES ASSUME NEW v \in Active(t), NEW w \in Active(t), v # w
                 PROVE  r.slot[v] # r.slot[w]
      OBVIOUS
    <3>1. t.slot[v] # t.slot[w] /\ t.slot[v] \in Nat /\ t.slot[w] \in Nat
      BY <1>7 DEF IsDictionary, Active
    <3>2. CASE t.slot[v] < t.slot[w]
      BY <3>2, <1>11
    <3>3. CASE t.slot[w] < t.slot[v]
      BY <3>3, <1>11
    <3> QED BY <3>1, <3>2, <3>3
  <2>2. \A w \in Active(t) : r.slot[w] <= r.fill
    BY <1>2, <1>5 DEF Active
  <2>3. r.fill <= r.room
    <3> HIDE DEF n, r
    <3> QED BY <1>3, <1>4, <1>5
  <2>4. \A v, w \in Active(t) : v # w => BoardOf[v] # BoardOf[w]
    BY DEF IsDictionary
  <2> HIDE DEF r
  <2> QED BY <2>1, <2>2, <2>3, <2>4, <1>10 DEF IsDictionary
<1>13. \A w \in Active(t) : r.slot[w] <= t.slot[w]
  BY <1>7, <1>8 DEF Active
<1> QED BY <1>4, <1>5, <1>6, <1>10, <1>12, <1>13

(* A new entry comes last and disturbs no other.                           *)
LEMMA AppendedFacts ==
    ASSUME NEW t \in Tables, IsDictionary(t), NEW w \in Sockets,
           Holders(t, BoardOf[w]) = {}, t.fill < t.room
    PROVE  /\ Appended(t, w) \in Tables
           /\ IsDictionary(Appended(t, w))
           /\ Active(Appended(t, w)) = Active(t) \cup {w}
           /\ \A v \in Sockets \ {w} : Appended(t, w).slot[v] = t.slot[v]
<1> DEFINE a == Appended(t, w)
<1>1. t.slot \in [Sockets -> Nat] /\ t.fill \in Nat /\ t.room \in Nat
  BY DEF Tables
<1>2. /\ a.slot = [t.slot EXCEPT ![w] = t.fill + 1]
      /\ a.fill = t.fill + 1
      /\ a.room = t.room
      /\ a \in Tables
  <2>1. [t.slot EXCEPT ![w] = t.fill + 1] \in [Sockets -> Nat]
    BY <1>1
  <2> QED BY <1>1, <2>1 DEF Appended, Tables
<1>3. w \notin Active(t)
  BY DEF Holders
<1>4. Active(a) = Active(t) \cup {w}
  <2> HIDE DEF a
  <2> QED BY <1>1, <1>2 DEF Active
<1>5. IsDictionary(a)
  <2> HIDE DEF a
  <2>1. \A v \in Active(t) : a.slot[v] = t.slot[v] /\ t.slot[v] <= t.fill
    BY <1>1, <1>2, <1>3 DEF Active, IsDictionary
  <2>2. a.slot[w] = t.fill + 1
    BY <1>1, <1>2
  <2>3. \A v \in Active(t) : BoardOf[v] # BoardOf[w]
    BY DEF Holders
  <2>4. \A v \in Active(t) : t.slot[v] \in Nat
    BY <1>1 DEF Active
  <2> QED BY <2>1, <2>2, <2>3, <2>4, <1>1, <1>2, <1>4 DEF IsDictionary
<1>6. \A v \in Sockets \ {w} : a.slot[v] = t.slot[v]
  BY <1>1, <1>2
<1> QED BY <1>2, <1>4, <1>5, <1>6

(* Assigning a key that is there puts the new socket in the old one's place.*)
LEMMA OverwrittenFacts ==
    ASSUME NEW t \in Tables, IsDictionary(t), NEW w \in Sockets \ Active(t),
           NEW v \in Holders(t, BoardOf[w])
    PROVE  /\ Overwritten(t, v, w) \in Tables
           /\ IsDictionary(Overwritten(t, v, w))
           /\ Active(Overwritten(t, v, w)) = (Active(t) \ {v}) \cup {w}
           /\ \A u \in Active(t) \ {v} : Overwritten(t, v, w).slot[u] = t.slot[u]
<1> DEFINE o == Overwritten(t, v, w)
<1>1. t.slot \in [Sockets -> Nat] /\ t.fill \in Nat /\ t.room \in Nat
  BY DEF Tables
<1>2. v \in Active(t) /\ v \in Sockets /\ v # w /\ BoardOf[v] = BoardOf[w] /\ t.slot[v] > 0
  BY DEF Holders, Active
<1>3. /\ o.slot \in [Sockets -> Nat]
      /\ o.slot = [[t.slot EXCEPT ![v] = 0] EXCEPT ![w] = t.slot[v]]
      /\ o.fill = t.fill
      /\ o.room = t.room
      /\ o \in Tables
  BY <1>1, <1>2 DEF Overwritten, Tables
<1>4. /\ o.slot[v] = 0
      /\ o.slot[w] = t.slot[v]
      /\ \A u \in Sockets \ {v, w} : o.slot[u] = t.slot[u]
  BY <1>1, <1>2, <1>3
<1>5. Active(o) = (Active(t) \ {v}) \cup {w}
  <2> HIDE DEF o
  <2> QED BY <1>1, <1>2, <1>4 DEF Active
<1>6. \A u \in Active(t) \ {v} : u \in Sockets \ {v, w} /\ o.slot[u] = t.slot[u]
  BY <1>4 DEF Active
<1>7. IsDictionary(o)
  <2> HIDE DEF o
  <2> QED BY <1>2, <1>3, <1>4, <1>5, <1>6 DEF IsDictionary
<1> QED BY <1>3, <1>5, <1>6, <1>7

(* connect leaves a dictionary in which the socket has its entry; no entry *)
(* moves up, and none moves at all unless the table had to be rebuilt.     *)
LEMMA PutFacts ==
    ASSUME NEW t \in Tables, IsDictionary(t), NEW w \in Sockets \ Active(t),
           NEW p \in Puts(t, w)
    PROVE  /\ p \in Tables
           /\ IsDictionary(p)
           /\ w \in Active(p)
           /\ Active(p) \subseteq Active(t) \cup {w}
           /\ \A u \in Active(p) \ {w} : p.slot[u] <= t.slot[u]
           /\ ~NeedsRebuild(t, w) => \A u \in Active(p) \ {w} : p.slot[u] = t.slot[u]
<1>0. t.slot \in [Sockets -> Nat] /\ t.fill \in Nat /\ t.room \in Nat
  BY DEF Tables
<1>1. CASE Holders(t, BoardOf[w]) # {}
  <2>1. PICK v \in Holders(t, BoardOf[w]) : p = Overwritten(t, v, w)
    BY <1>1 DEF Puts
  <2>2. /\ p \in Tables
        /\ IsDictionary(p)
        /\ Active(p) = (Active(t) \ {v}) \cup {w}
        /\ \A u \in Active(t) \ {v} : p.slot[u] = t.slot[u]
    BY <2>1, OverwrittenFacts
  <2>3. \A u \in Active(p) \ {w} : p.slot[u] = t.slot[u] /\ t.slot[u] \in Nat
    BY <2>2, <1>0 DEF Active
  <2> QED BY <2>2, <2>3
<1>2. CASE Holders(t, BoardOf[w]) = {} /\ ~NeedsRebuild(t, w)
  <2>1. p = Appended(t, w) /\ t.fill < t.room
    BY <1>0, <1>2 DEF Puts, NeedsRebuild
  <2>2. /\ p \in Tables
        /\ IsDictionary(p)
        /\ Active(p) = Active(t) \cup {w}
        /\ \A v \in Sockets \ {w} : p.slot[v] = t.slot[v]
    BY <2>1, <1>2, AppendedFacts
  <2>3. \A u \in Active(p) \ {w} : p.slot[u] = t.slot[u] /\ t.slot[u] \in Nat
    BY <2>2, <1>0 DEF Active
  <2> QED BY <2>2, <2>3
<1>3. CASE Holders(t, BoardOf[w]) = {} /\ NeedsRebuild(t, w)
  <2> DEFINE r == Rebuilt(t)
  <2>1. p = Appended(r, w)
    BY <1>3 DEF Puts
  <2>2. /\ r \in Tables
        /\ Active(r) = Active(t)
        /\ IsDictionary(r)
        /\ r.fill < r.room
        /\ \A u \in Active(t) : r.slot[u] <= t.slot[u]
    BY RebuiltFacts
  <2> HIDE DEF r
  <2>3. Holders(r, BoardOf[w]) = {}
    BY <2>2, <1>3 DEF Holders
  <2>4. /\ p \in Tables
        /\ IsDictionary(p)
        /\ Active(p) = Active(r) \cup {w}
        /\ \A v \in Sockets \ {w} : p.slot[v] = r.slot[v]
    BY <2>1, <2>2, <2>3, AppendedFacts
  <2>5. \A u \in Active(p) \ {w} : p.slot[u] <= t.slot[u]
    BY <2>2, <2>4 DEF Active
  <2> QED BY <2>2, <2>4, <2>5, <1>3
<1> QED BY <1>1, <1>2, <1>3

(* A registration evicts nobody but who held the same board id.            *)
LEMMA PutKeepsOthers ==
    ASSUME NEW t \in Tables, IsDictionary(t), NEW w \in Sockets \ Active(t),
           NEW p \in Puts(t, w), NEW u \in Active(t), BoardOf[u] # BoardOf[w]
    PROVE  u \in Active(p)
<1>1. CASE Holders(t, BoardOf[w]) # {}
  <2>1. PICK v \in Holders(t, BoardOf[w]) : p = Overwritten(t, v, w)
    BY <1>1 DEF Puts
  <2>2. Active(p) = (Active(t) \ {v}) \cup {w}
    BY <2>1, OverwrittenFacts
  <2> QED BY <2>2 DEF Holders
<1>2. CASE Holders(t, BoardOf[w]) = {} /\ ~NeedsRebuild(t, w)
  <2>1. p = Appended(t, w) /\ t.fill < t.room
    BY <1>2 DEF Puts, NeedsRebuild, Tables
  <2> QED BY <1>2, <2>1, AppendedFacts
<1>3. CASE Holders(t, BoardOf[w]) = {} /\ NeedsRebuild(t, w)
  <2> DEFINE r == Rebuilt(t)
  <2>1. p = Appended(r, w)
    BY <1>3 DEF Puts
  <2>2. /\ r \in Tables /\ Active(r) = Active(t) /\ IsDictionary(r) /\ r.fill < r.room
    BY RebuiltFacts
  <2> HIDE DEF r
  <2>3. Holders(r, BoardOf[w]) = {}
    BY <1>3, <2>2 DEF Holders
  <2>4. Active(p) = Active(r) \cup {w}
    BY <2>1, <2>2, <2>3, AppendedFacts
  <2> QED BY <2>2, <2>4
<1> QED BY <1>1, <1>2, <1>3

(* disconnect takes the entry of the board id and moves no other.          *)
LEMMA PoppedFacts ==
    ASSUME NEW t \in Tables, IsDictionary(t), NEW b
    PROVE  /\ Popped(t, b) \in Tables
           /\ IsDictionary(Popped(t, b))
           /\ Active(Popped(t, b)) = Active(t) \ Holders(t, b)
           /\ \A u \in Active(Popped(t, b)) : Popped(t, b).slot[u] = t.slot[u]
<1> DEFINE p == Popped(t, b)
<1>1. t.slot \in [Sockets -> Nat] /\ t.fill \in Nat /\ t.room \in Nat
  BY DEF Tables
<1>2. /\ p.slot = [w \in Sockets |-> IF BoardOf[w] = b THEN 0 ELSE t.slot[w]]
      /\ p.fill = t.fill
      /\ p.room = t.room
      /\ p \in Tables
  BY <1>1 DEF Popped, Tables
<1> HIDE DEF p
<1>3. Active(p) = Active(t) \ Holders(t, b)
  BY <1>1, <1>2 DEF Active, Holders
<1>4. \A u \in Active(p) : p.slot[u] = t.slot[u]
  BY <1>2, <1>3 DEF Active, Holders
<1>5. IsDictionary(p)
  BY <1>2, <1>3, <1>4 DEF IsDictionary
<1> QED BY <1>2, <1>3, <1>4, <1>5 DEF p

-----------------------------------------------------------------------------
(* What a broadcast k and the table t have to do with each other: written  *)
(* to is behind the iterator, still to be written to is ahead of it, and   *)
(* the loop counts its sends; before it begins it is for nobody.           *)
CastOK(t, k) ==
    /\ k.st = "sending" => \A w \in k.heard \cap Active(t) : t.slot[w] < k.pos
    /\ k.st = "sending" /\ ~k.moved
          => \A w \in (k.audience \cap Active(t)) \ k.heard : t.slot[w] >= k.pos
    /\ k.st = "done" /\ ~k.moved => k.audience \cap Active(t) \subseteq k.heard
    /\ k.st # "idle" => Cardinality(k.heard) + k.left = Cardinality(k.audience)
    /\ k.st = "idle" => k.audience = {}

(* A broadcast that has not begun.                                         *)
LEMMA NoCastFacts ==
    NoCast \in Casts /\ \A t : CastOK(t, NoCast)
BY DEF NoCast, Casts, CastOK

(* Where an iteration begins, everyone registered is ahead.                *)
LEMMA OpenedFacts ==
    ASSUME NEW t \in Tables
    PROVE  /\ Opened(t) \in Casts
           /\ Opened(t).st = "sending"
           /\ Opened(t).audience = Active(t)
           /\ Opened(t).heard = {}
           /\ CastOK(t, Opened(t))
<1>1. Cardinality(Active(t)) \in Nat
  BY ActiveIsFinite
<1>2. Active(t) \in SUBSET Sockets /\ \A w \in Active(t) : t.slot[w] \in Nat /\ t.slot[w] > 0
  BY DEF Active, Tables
<1>3. Opened(t) = [st |-> "sending", pos |-> 1, used |-> Cardinality(Active(t)),
                   left |-> Cardinality(Active(t)), at |-> NoSocket,
                   audience |-> Active(t), heard |-> {}, moved |-> FALSE]
  BY DEF Opened
<1>4. Opened(t) \in Casts
  BY <1>1, <1>2, <1>3 DEF Casts
<1>5. CastOK(t, Opened(t))
  BY <1>1, <1>2, <1>3, FS_EmptySet DEF CastOK
<1> QED BY <1>3, <1>4, <1>5

(* A turn of the loop keeps what relates the broadcast to the table.       *)
LEMMA TurnFacts ==
    ASSUME NEW t \in Tables, IsDictionary(t),
           NEW k \in Casts, k.st = "sending", CastOK(t, k), NEW n \in Turns(t, k)
    PROVE  /\ n \in Casts
           /\ CastOK(t, n)
           /\ n.st # "idle"
           /\ n.audience = k.audience
           /\ n.heard \subseteq k.heard \cup Active(t)
           /\ n.moved = k.moved
<1>0. /\ k.pos \in Nat /\ k.left \in Nat /\ k.used \in Nat
      /\ k.audience \in SUBSET Sockets /\ k.heard \in SUBSET Sockets
      /\ k.moved \in BOOLEAN /\ k.at \in Sockets \cup {NoSocket}
  BY DEF Casts
<1>1. CASE n = [k EXCEPT !.st = "aborted"]
  <2>1. /\ n \in Casts /\ n.st = "aborted" /\ n.audience = k.audience
        /\ n.heard = k.heard /\ n.moved = k.moved /\ n.left = k.left
    BY <1>1 DEF Casts
  <2> QED BY <2>1 DEF CastOK
<1>2. CASE Ahead(t, k) = {} /\ n = [k EXCEPT !.st = "done"]
  <2>1. /\ n \in Casts /\ n.st = "done" /\ n.audience = k.audience
        /\ n.heard = k.heard /\ n.moved = k.moved /\ n.left = k.left
    BY <1>2 DEF Casts
  <2>2. ~k.moved => k.audience \cap Active(t) \subseteq k.heard
    BY <1>2 DEF CastOK, Ahead
  <2> QED BY <2>1, <2>2 DEF CastOK
<1>3. CASE /\ Ahead(t, k) # {} => k.left # 0
           /\ n \in {[k EXCEPT !.pos = t.slot[w] + 1, !.left = k.left - 1, !.at = w,
                               !.heard = k.heard \cup {w}] : w \in NextUp(t, k)}
  <2>1. PICK w \in NextUp(t, k) :
           n = [k EXCEPT !.pos = t.slot[w] + 1, !.left = k.left - 1, !.at = w,
                         !.heard = k.heard \cup {w}]
    BY <1>3
  <2>2. /\ w \in Active(t) /\ w \in Sockets /\ t.slot[w] \in Nat /\ t.slot[w] >= k.pos
        /\ \A v \in Active(t) : t.slot[v] >= k.pos => t.slot[w] <= t.slot[v]
        /\ k.left # 0
    BY <1>3 DEF NextUp, Ahead, Active, Tables
  <2>3. /\ n.pos = t.slot[w] + 1 /\ n.left = k.left - 1 /\ n.at = w
        /\ n.heard = k.heard \cup {w} /\ n.audience = k.audience
        /\ n.moved = k.moved /\ n.st = "sending" /\ n.used = k.used
    BY <2>1 DEF Casts
  <2>4. n \in Casts
    <3>1. /\ t.slot[w] + 1 \in Nat /\ k.left - 1 \in Nat
          /\ k.heard \cup {w} \in SUBSET Sockets
      BY <1>0, <2>2
    <3> QED BY <1>0, <2>1, <2>2, <3>1 DEF Casts
  <2>5. \A u \in Active(t) : t.slot[u] \in Nat
    BY DEF Active, Tables
  <2>6. \A u \in n.heard \cap Active(t) : t.slot[u] < n.pos
    BY <1>0, <2>2, <2>3, <2>5 DEF CastOK
  <2>7. ASSUME ~n.moved, NEW u \in (n.audience \cap Active(t)) \ n.heard
        PROVE  t.slot[u] >= n.pos
    <3>1. u \in Active(t) /\ u # w /\ t.slot[u] >= k.pos
      BY <2>3, <2>7 DEF CastOK
    <3>2. t.slot[u] # t.slot[w] /\ t.slot[w] <= t.slot[u]
      BY <2>2, <3>1 DEF IsDictionary
    <3> QED BY <2>2, <2>3, <2>5, <3>1, <3>2
  <2>8. Cardinality(n.heard) + n.left = Cardinality(n.audience)
    <3>1. w \notin k.heard
      BY <1>0, <2>2 DEF CastOK
    <3>2. IsFiniteSet(k.heard) /\ Cardinality(k.heard) \in Nat
      BY <1>0, FS_Subset, FS_CardinalityType, RegistryAssumption
    <3>3. Cardinality(k.heard \cup {w}) = Cardinality(k.heard) + 1
      BY <3>1, <3>2, FS_AddElement
    <3>4. Cardinality(k.heard) + k.left = Cardinality(k.audience)
      BY DEF CastOK
    <3> QED BY <1>0, <2>2, <2>3, <3>2, <3>3, <3>4
  <2>9. CastOK(t, n)
    BY <2>3, <2>6, <2>7, <2>8 DEF CastOK
  <2> QED BY <2>2, <2>3, <2>4, <2>9
<1>4. \/ n = [k EXCEPT !.st = "aborted"]
      \/ Ahead(t, k) = {} /\ n = [k EXCEPT !.st = "done"]
      \/ /\ Ahead(t, k) # {} => k.left # 0
         /\ n \in {[k EXCEPT !.pos = t.slot[w] + 1, !.left = k.left - 1, !.at = w,
                             !.heard = k.heard \cup {w}] : w \in NextUp(t, k)}
  BY DEF Turns
<1> QED BY <1>1, <1>2, <1>3, <1>4

(* A registration keeps it as well, or marks the broadcast as moved.       *)
LEMMA PutKeepsCast ==
    ASSUME NEW t \in Tables, IsDictionary(t), NEW w \in Sockets \ Active(t),
           NEW p \in Puts(t, w), NEW k \in Casts, CastOK(t, k),
           w \notin k.audience, w \notin k.heard
    PROVE  /\ Disturbed(k, NeedsRebuild(t, w)) \in Casts
           /\ CastOK(p, Disturbed(k, NeedsRebuild(t, w)))
           /\ Disturbed(k, NeedsRebuild(t, w)).audience = k.audience
           /\ Disturbed(k, NeedsRebuild(t, w)).heard = k.heard
<1> DEFINE d == Disturbed(k, NeedsRebuild(t, w))
<1>1. /\ d \in Casts
      /\ d.audience = k.audience /\ d.heard = k.heard /\ d.pos = k.pos
      /\ d.left = k.left /\ d.st = k.st
      /\ d.moved = (k.moved \/ (k.st = "sending" /\ NeedsRebuild(t, w)))
  <2>1. CASE k.st = "sending" /\ NeedsRebuild(t, w)
    BY <2>1 DEF Disturbed, Casts
  <2>2. CASE ~(k.st = "sending" /\ NeedsRebuild(t, w))
    BY <2>2 DEF Disturbed, Casts
  <2> QED BY <2>1, <2>2
<1>2. /\ p \in Tables
      /\ Active(p) \subseteq Active(t) \cup {w}
      /\ \A u \in Active(p) \ {w} : p.slot[u] <= t.slot[u]
      /\ ~NeedsRebuild(t, w) => \A u \in Active(p) \ {w} : p.slot[u] = t.slot[u]
  BY PutFacts
<1>3. k.pos \in Nat
  BY DEF Casts
<1>4. \A u \in Active(p) \ {w} : u \in Active(t) /\ p.slot[u] \in Nat /\ t.slot[u] \in Nat
  BY <1>2 DEF Active, Tables
<1> HIDE DEF d
<1>5. d.st = "sending" => \A u \in d.heard \cap Active(p) : p.slot[u] < d.pos
  <2> SUFFICES ASSUME d.st = "sending", NEW u \in d.heard \cap Active(p)
               PROVE  p.slot[u] < d.pos
    OBVIOUS
  <2>1. u \in Active(p) \ {w} /\ u \in k.heard
    BY <1>1
  <2>2. t.slot[u] < k.pos /\ p.slot[u] <= t.slot[u]
    BY <1>1, <1>2, <1>4, <2>1 DEF CastOK
  <2> QED BY <1>1, <1>3, <1>4, <2>1, <2>2
<1>6. d.st = "sending" /\ ~d.moved
         => \A u \in (d.audience \cap Active(p)) \ d.heard : p.slot[u] >= d.pos
  <2> SUFFICES ASSUME d.st = "sending", ~d.moved,
                      NEW u \in (d.audience \cap Active(p)) \ d.heard
               PROVE  p.slot[u] >= d.pos
    OBVIOUS
  <2>1. u \in Active(p) \ {w} /\ u \in (k.audience \cap Active(t)) \ k.heard
    BY <1>1, <1>4
  <2>2. t.slot[u] >= k.pos
    BY <1>1, <2>1 DEF CastOK
  <2> QED BY <1>1, <1>2, <2>1, <2>2
<1>7. d.st = "done" /\ ~d.moved => d.audience \cap Active(p) \subseteq d.heard
  BY <1>1, <1>2 DEF CastOK
<1>8. /\ d.st # "idle" => Cardinality(d.heard) + d.left = Cardinality(d.audience)
      /\ d.st = "idle" => d.audience = {}
  BY <1>1 DEF CastOK
<1>9. CastOK(p, d)
  BY <1>5, <1>6, <1>7, <1>8 DEF CastOK
<1> QED BY <1>1, <1>9 DEF d

(* So does a registration that ends: the other entries stay in place.      *)
LEMMA PopKeepsCast ==
    ASSUME NEW t \in Tables, IsDictionary(t), NEW b, NEW k \in Casts, CastOK(t, k)
    PROVE  CastOK(Popped(t, b), k)
<1>1. /\ Active(Popped(t, b)) \subseteq Active(t)
      /\ \A u \in Active(Popped(t, b)) : Popped(t, b).slot[u] = t.slot[u]
  BY PoppedFacts
<1> QED BY <1>1 DEF CastOK

(* A broadcast that is cut short has nothing ahead.                        *)
LEMMA CutShortFacts ==
    ASSUME NEW t, NEW k \in Casts, CastOK(t, k)
    PROVE  /\ CutShort(k) \in Casts
           /\ CastOK(t, CutShort(k))
           /\ CastOK(EmptyTable, CutShort(k))
           /\ CutShort(k).audience = k.audience
           /\ CutShort(k).heard = k.heard
           /\ CutShort(k).st # "sending"
<1>1. /\ CutShort(k) \in Casts
      /\ CutShort(k).audience = k.audience /\ CutShort(k).heard = k.heard
      /\ CutShort(k).left = k.left /\ CutShort(k).moved = k.moved
      /\ CutShort(k).st # "sending"
      /\ k.st # "sending" => CutShort(k).st = k.st
      /\ k.st = "sending" => CutShort(k).st = "failed"
  BY DEF CutShort, Casts
<1> QED BY <1>1, EmptyTableFacts DEF CastOK
=============================================================================

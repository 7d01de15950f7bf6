------------------------- MODULE ActiveConnections -------------------------
(***************************************************************************)
(* The dictionary active_connections of ConnectionManager and a running    *)
(* `for connection in self.active_connections.values()` over it.           *)
(*                                                                         *)
(* A dictionary keeps its entries in insertion order in a table with room  *)
(* for a fixed number of them.  An entry that is deleted leaves a hole, a  *)
(* key that is assigned again keeps its place, and an insertion that finds *)
(* the room used up first rebuilds the table without the holes.  None of   *)
(* this shows until a coroutine is suspended in the middle of an           *)
(* iteration, which broadcast does at each of its awaits: an iterator only *)
(* remembers an index and the size the dictionary had.                     *)
(***************************************************************************)
EXTENDS Naturals, FiniteSets

CONSTANTS
    Sockets,     \* the WebSocket objects: one for each connection a board opens
    Boards,      \* the board ids, the keys of active_connections
    BoardOf,     \* the board id in the path a socket was opened with
    RoomFor,     \* the room of a table built for n live entries
    NoSocket     \* in place of a socket where there is none

ASSUME RegistryAssumption ==
    /\ IsFiniteSet(Sockets)
    /\ NoSocket \notin Sockets
    /\ BoardOf \in [Sockets -> Boards]
    /\ RoomFor \in [0..Cardinality(Sockets) -> Nat]
    /\ \A n \in DOMAIN RoomFor : RoomFor[n] > n

-----------------------------------------------------------------------------
(* The table: slot[w] is the place of the entry whose value is w, 0 when w *)
(* is not registered; fill counts the places used up, holes included.      *)

Tables == [slot : [Sockets -> Nat], fill : Nat, room : Nat]

EmptyTable == [slot |-> [w \in Sockets |-> 0], fill |-> 0, room |-> RoomFor[0]]

Active(t) == {w \in Sockets : t.slot[w] > 0}

(* The entry of a board id: a set of at most one socket.                   *)
Holders(t, b) == {w \in Active(t) : BoardOf[w] = b}

Rebuilt(t) ==
    [slot |-> [w \in Sockets |->
                 Cardinality({v \in Active(t) : t.slot[v] <= t.slot[w]})],
     fill |-> Cardinality(Active(t)),
     room |-> RoomFor[Cardinality(Active(t))]]

(* A mutation: the new entry comes first.                                  *)
Prepended(t, w) ==
    [t EXCEPT !.slot = [v \in Sockets |-> IF v = w THEN 1
                                          ELSE IF @[v] > 0 THEN @[v] + 1 ELSE 0],
              !.fill = t.fill + 1]

Appended(t, w) ==
    [t EXCEPT !.slot = [@ EXCEPT ![w] = t.fill + 1], !.fill = t.fill + 1]

Overwritten(t, v, w) ==
    [t EXCEPT !.slot = [[@ EXCEPT ![v] = 0] EXCEPT ![w] = t.slot[v]]]

(* A mutation: the key is not looked up, a second entry is made.           *)
PutsBeside(t, w) == {Appended(IF t.fill >= t.room THEN Rebuilt(t) ELSE t, w)}

NeedsRebuild(t, w) == Holders(t, BoardOf[w]) = {} /\ t.fill >= t.room

(* active_connections[board_id] = websocket                                *)
Puts(t, w) ==
    IF Holders(t, BoardOf[w]) # {}
    THEN {Overwritten(t, v, w) : v \in Holders(t, BoardOf[w])}
    ELSE {Appended(IF NeedsRebuild(t, w) THEN Rebuilt(t) ELSE t, w)}

(* Mutations: the entries behind the deleted one move up, as in a list; or *)
(* the entry is left in the table.                                         *)
PoppedFromList(t, b) ==
    [t EXCEPT !.slot =
        [w \in Sockets |->
            IF BoardOf[w] = b THEN 0
            ELSE @[w] - Cardinality({v \in Holders(t, b) : t.slot[v] < t.slot[w]})]]

PoppedNothing(t, b) == t

(* active_connections.pop(board_id), for a key that is there               *)
Popped(t, b) ==
    [t EXCEPT !.slot = [w \in Sockets |-> IF BoardOf[w] = b THEN 0 ELSE @[w]]]

(* One entry for a board id, a place of its own for every entry, and no    *)
(* place beyond the ones used up.                                          *)
IsDictionary(t) ==
    /\ \A v, w \in Active(t) :
         v # w => BoardOf[v] # BoardOf[w] /\ t.slot[v] # t.slot[w]
    /\ \A w \in Active(t) : t.slot[w] <= t.fill
    /\ t.fill <= t.room

-----------------------------------------------------------------------------
(* A broadcast: the iterator it holds (pos, used, left), the socket whose  *)
(* send it awaits (at), and what it is judged by: who was registered when  *)
(* it began, whom it has written to, and whether the table was rebuilt     *)
(* under it.                                                               *)

Casts == [st : {"idle", "sending", "done", "aborted", "failed"},
          pos : Nat, used : Nat, left : Nat, at : Sockets \cup {NoSocket},
          audience : SUBSET Sockets, heard : SUBSET Sockets, moved : BOOLEAN]

NoCast == [st |-> "idle", pos |-> 1, used |-> 0, left |-> 0, at |-> NoSocket,
           audience |-> {}, heard |-> {}, moved |-> FALSE]

(* values() and iter(): nothing is visited yet                             *)
Opened(t) ==
    [st |-> "sending", pos |-> 1, used |-> Cardinality(Active(t)),
     left |-> Cardinality(Active(t)), at |-> NoSocket,
     audience |-> Active(t), heard |-> {}, moved |-> FALSE]

Ahead(t, k) == {w \in Active(t) : t.slot[w] >= k.pos}

NextUp(t, k) == {w \in Ahead(t, k) : \A v \in Ahead(t, k) : t.slot[w] <= t.slot[v]}

(* Mutations: an entry more than were counted is visited as well; the last *)
(* entry is not visited; or the iterator does not move on.                 *)
TurnsUncounted(t, k) ==
    IF Cardinality(Active(t)) # k.used THEN {[k EXCEPT !.st = "aborted"]}
    ELSE IF Ahead(t, k) = {} THEN {[k EXCEPT !.st = "done"]}
    ELSE {[k EXCEPT !.pos = t.slot[w] + 1, !.left = k.left - 1, !.at = w,
                    !.heard = k.heard \cup {w}] : w \in NextUp(t, k)}

TurnsButLast(t, k) ==
    IF Cardinality(Active(t)) # k.used THEN {[k EXCEPT !.st = "aborted"]}
    ELSE IF Cardinality(Ahead(t, k)) <= 1 THEN {[k EXCEPT !.st = "done"]}
    ELSE {[k EXCEPT !.pos = t.slot[w] + 1, !.left = k.left - 1, !.at = w,
                    !.heard = k.heard \cup {w}] : w \in NextUp(t, k)}

TurnsInPlace(t, k) ==
    IF Cardinality(Active(t)) # k.used THEN {[k EXCEPT !.st = "aborted"]}
    ELSE IF Ahead(t, k) = {} THEN {[k EXCEPT !.st = "done"]}
    ELSE {[k EXCEPT !.pos = t.slot[w], !.at = w,
                    !.heard = k.heard \cup {w}] : w \in NextUp(t, k)}

(* One call of next() and, if it yields a connection, the send to it.      *)
(* Other sizes than at the start, or one entry more than were counted,     *)
(* raise RuntimeError.                                                     *)
Turns(t, k) ==
    IF \/ Cardinality(Active(t)) # k.used
       \/ Ahead(t, k) # {} /\ k.left = 0
    THEN {[k EXCEPT !.st = "aborted"]}
    ELSE IF Ahead(t, k) = {}
    THEN {[k EXCEPT !.st = "done"]}
    ELSE {[k EXCEPT !.pos = t.slot[w] + 1, !.left = k.left - 1, !.at = w,
                    !.heard = k.heard \cup {w}] : w \in NextUp(t, k)}

(* The sockets the last turn has written to.                               *)
WrittenBy(k) == IF k.st = "sending" THEN {k.at} ELSE {}

(* What a registration does to the broadcasts that are running.            *)
Disturbed(k, rebuilt) ==
    IF k.st = "sending" /\ rebuilt THEN [k EXCEPT !.moved = TRUE] ELSE k

(* What the end of the process, or an exception of a send, leaves of one.  *)
CutShort(k) == IF k.st = "sending" THEN [k EXCEPT !.st = "failed"] ELSE k
=============================================================================

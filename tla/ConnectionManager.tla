------------------------- MODULE ConnectionManager -------------------------
(***************************************************************************)
(* project/managers/ConnectionManager.py, the registry of one category:    *)
(* connect, disconnect and broadcast as the event loop interleaves them.   *)
(* An action runs from one await to the next.  Whoever calls the manager   *)
(* is left open here: any socket may connect once, any board id may be     *)
(* disconnected, and broadcasts may overlap.  BulletinBoard restricts the  *)
(* callers to what the routers do and is shown to implement this module.   *)
(***************************************************************************)
EXTENDS ActiveConnections

CONSTANT Ads    \* the advertisements: one broadcast for each

VARIABLES
    table,      \* active_connections
    client,     \* the far end of each socket
    casts       \* the broadcast of each ad

vars == <<table, client, casts>>

Clients == {"new", "open", "closed"}

Init ==
    /\ table = EmptyTable
    /\ client = [w \in Sockets |-> "new"]
    /\ casts = [a \in Ads |-> NoCast]

-----------------------------------------------------------------------------
(* connect: accept() has been answered and the entry is written; the board *)
(* may be gone again by then.                                              *)
Connect(w) ==
    /\ client[w] = "new"
    /\ \E c \in {"open", "closed"} : client' = [client EXCEPT ![w] = c]
    /\ table' \in Puts(table, w)
    /\ casts' = [a \in Ads |-> Disturbed(casts[a], NeedsRebuild(table, w))]

(* connect: accept() raises, the entry is never written.                   *)
ConnectFails(w) ==
    /\ client[w] = "new"
    /\ client' = [client EXCEPT ![w] = "closed"]
    /\ UNCHANGED <<table, casts>>

(* disconnect of a board id that has an entry; without one pop raises and  *)
(* nothing changes.                                                        *)
Disconnect(b) ==
    /\ Holders(table, b) # {}
    /\ table' = Popped(table, b)
    /\ UNCHANGED <<client, casts>>

(* broadcast up to its first await, or to its end if it has none.          *)
Broadcast(a) ==
    /\ casts[a].st = "idle"
    /\ \E k \in Turns(table, Opened(table)) : casts' = [casts EXCEPT ![a] = k]
    /\ UNCHANGED <<table, client>>

(* The awaited send has returned: on to the next connection.               *)
BroadcastTurn(a) ==
    /\ casts[a].st = "sending"
    /\ \E k \in Turns(table, casts[a]) : casts' = [casts EXCEPT ![a] = k]
    /\ UNCHANGED <<table, client>>

(* The awaited send raises, as it may on a closed socket.                  *)
BroadcastRaises(a) ==
    /\ casts[a].st = "sending"
    /\ client[casts[a].at] = "closed"
    /\ casts' = [casts EXCEPT ![a] = CutShort(@)]
    /\ UNCHANGED <<table, client>>

(* The far end goes away, or the server closes a socket whose handler died.*)
Close(w) ==
    /\ client[w] = "open"
    /\ client' = [client EXCEPT ![w] = "closed"]
    /\ UNCHANGED <<table, casts>>

(* The process ends; the next one begins with an empty manager.            *)
Reset ==
    /\ table' = EmptyTable
    /\ \E H \in SUBSET {w \in Sockets : client[w] = "new"} :
          client' = [w \in Sockets |-> IF client[w] = "open" \/ w \in H
                                       THEN "closed" ELSE client[w]]
    /\ casts' = [a \in Ads |-> CutShort(casts[a])]

Next ==
    \/ \E w \in Sockets : Connect(w) \/ ConnectFails(w) \/ Close(w)
    \/ \E b \in Boards : Disconnect(b)
    \/ \E a \in Ads : Broadcast(a) \/ BroadcastTurn(a) \/ BroadcastRaises(a)
    \/ Reset

Spec == Init /\ [][Next]_vars

(* The event loop resumes a coroutine whose await is over.                 *)
FairSpec == Spec /\ \A a \in Ads : WF_vars(BroadcastTurn(a))

-----------------------------------------------------------------------------
(* Type correctness of the registry and of the broadcasts over it.         *)
TypeOK ==
    /\ table \in Tables
    /\ client \in [Sockets -> Clients]
    /\ casts \in [Ads -> Casts]

(* active_connections has one entry for a board id and every entry a place *)
(* of its own below the fill: what connect's overwriting, the holes left   *)
(* by disconnect and a rebuild of the table must all keep, and what a      *)
(* running broadcast relies on to visit the entries one by one.            *)
RegistryIsADictionary == IsDictionary(table)

(* broadcast ("Sends a message to all active connections"): when it ends   *)
(* normally and the table was not rebuilt under it, every board that was   *)
(* registered when it began and still is has been written to, whoever      *)
(* joined, left or reconnected at its awaits.                              *)
FullPass ==
    \A a \in Ads :
        casts[a].st = "done" /\ ~casts[a].moved
            => casts[a].audience \cap Active(table) \subseteq casts[a].heard

(* A socket one broadcast has written to is never ahead of its iterator    *)
(* again, wherever a rebuild moves the entries: no board shows one         *)
(* broadcast's ad twice.                                                   *)
HeardAreBehind ==
    \A a \in Ads : casts[a].st = "sending" =>
        \A w \in casts[a].heard \cap Active(table) : table.slot[w] < casts[a].pos

(* The loop writes to as many different sockets as it counts down: a send  *)
(* is never repeated within a broadcast, and it makes at most one send for *)
(* each board that was registered when it began.                           *)
OneSendEach ==
    \A a \in Ads : casts[a].st # "idle" =>
        Cardinality(casts[a].heard) + casts[a].left = Cardinality(casts[a].audience)

(* What the docstring of broadcast says: a broadcast that returned has     *)
(* written to every connection that was active and still is.               *)
BroadcastReachesAllActive ==
    \A a \in Ads :
        casts[a].st = "done"
            => casts[a].audience \cap Active(table) \subseteq casts[a].heard

(* A broadcast ends, however boards come and go at its awaits.             *)
BroadcastEnds == \A a \in Ads : casts[a].st = "sending" ~> casts[a].st # "sending"
=============================================================================

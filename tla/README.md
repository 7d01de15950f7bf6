# Verification of the OleOgłoszenia bulletin board and the network exercises

TLA+ modules, TLC configurations and TLAPS proofs for this repository. The
repository holds one larger program, the OleOgłoszenia bulletin board
(`project/`), and a set of network programming exercises in C and Python
(`c/`, `python/`). The bulletin board and the exercises that keep state are
modelled.

Paths in this document are relative to the repository.

## 1. Inventory

### A. OleOgłoszenia (`project/`)

One Python process: FastAPI on one asyncio event loop, sqlite behind it. Boards
are browser pages that open a WebSocket; users submit ads with `POST /send/`.

| part | state | operations | talks to |
|---|---|---|---|
| `ConnectionManager` | `active_connections`, board id → WebSocket, per category | `connect`, `disconnect`, `send_to_board`, `broadcast` | sockets |
| `CategoryManager` | `boards`, `ads`, its `ConnectionManager` | `add_to_category`, `broadcast`, `remove_from_category` | `ConnectionManager` |
| `GlobalCategoryManager` | `category_managers`, name → `CategoryManager` | `get_category_manager`, load at start | `DatabaseManager` |
| `DatabaseManager` | sqlite tables `categories`, `ads` | `add_category`, `add_ad`, the queries; each statement in a connection and commit of its own | sqlite |
| `board_router` | one coroutine per WebSocket | join, then receive texts until the disconnect | `GlobalCategoryManager`, `CategoryManager` |
| `send_router` | one coroutine per request | find or create the category, store the ad, broadcast it | the same, `DatabaseManager` |
| `board.html` | current ad, history, socket, one board id per page | register, unregister, show a message | `board_router` |

What is hard in it:

* Every `await` hands control to another coroutine. `broadcast` awaits a send
  inside a `for` over the live dictionary, `add_to_category` awaits sends inside
  a `for` over the live list of ads. Joining, leaving, reconnecting and posting
  happen there.
* The dictionary is keyed by board id, not by socket. A page that registers
  again keeps its id, so the late disconnect of its old socket acts on the entry
  of its new one.
* An exception out of `accept`, out of a send during the replay, or out of
  `broadcast` of a received `str` ends a handler without `remove_from_category`.
* Creating a category, storing an ad and broadcasting it are separate commits and
  steps; the process may end between any two. The managers are a cache of the
  tables, rebuilt at start.

What makes it correct: a broadcast reaches the boards that are there from its
beginning to its end and ends; replay and broadcast together leave no gap for a
board that registers meanwhile; a board shows the newest ad; a board's entry is
its own and goes with it; what a board was shown is stored; a category exists
once; after a restart the managers are what they were.

### B. Reliable UDP, C (`c/Z1/Z1.2`, `c/Z1/common`)

| part | state | operations | talks to |
|---|---|---|---|
| client `main` | the socket, a stack frame with `message_received` | send with a resender until something comes, confirm once, close, exit | server |
| client `resender` | reads that frame after every sleep | send, sleep, look | server, `main` |
| server `main` | `client_threads_data_list`: slots and occupied flags | a datagram opens a slot and a thread, a confirmation ends and frees it | clients, resenders |
| server resender, one per transmission | a pointer to its slot | send the slot's response from a socket of its own, sleep, look | clients, `main` |

Hard: lost, repeated and delayed packets against two resenders; a slot freed and
reused while its old thread sleeps; matching by packet id and IP, the comparison
of ports commented out (`client_threads_data.c:47-51`), with every client
numbering its datagram 1 (`client.c:119`); the confirmation is sent once; the
client does not join its resender (`client.c:84`), so it runs on while `main`
closes the socket and ends; `first_free_index` runs past the slots
(`sizeof(list->data)` is bytes). Correct would be: every client is answered, only a
client that was accepted thinks so, a transmission ends by its own confirmation,
the list is not overrun by packets alone.

### C. Stop-and-wait, Python (`python/Z1/Z1.2`)

Five second timeout on either side, one transmission, then the server ends. Hard:
any packet from the client's address counts as the answer.

### D. Sizes and plain UDP (`c/Z1/Z1.3a`, `c/Z1/Z1.1`, `python/Z1`)

Z1.3a: a client whose datagrams grow by a byte and an alarm that reports the
largest; correct would be a report of a size that arrived. The others are
iterative request and answer, with no state between datagrams.

### E. Lists over TCP (`c/Z2/common`, `c/Z2/Z2.1`, `Z2.2`, `python/Z2`)

| part | state | operations |
|---|---|---|
| `node.c` | nodes on the heap | create, set, append, print, delete a list |
| `serialize.c` | a buffer | `pack`, `unpack`, with 16 and 32 bit fields |
| C clients | a list, a buffer, a connection | build, print, pack, free, connect, write; 2.1 also reads |
| Python servers | one connection at a time | one `recv(1024)`, `unpack_data`, print, next |

Hard: widths and hand-counted sizes; nodes freed while they are walked; a `recv`
that returns a part of a list; a read for an answer that no server sends; going on
after a connect that failed. Correct would be: what is read is what was packed, a
list is printed whole or not at all, and every client ends.

### F. Buffers over TCP (`c/Z2/Z2.3`)

Clients that write as fast as they can, with a small send buffer; a server with a
small receive buffer that sleeps after every read and serves one connection at a
time. Hard: writes that fail or fall short and are reported all the same; the end of
data against data still buffered; the queue at its limit; SIGPIPE. Correct would be:
a connection is closed only when it was read to its end, everyone has a turn, and
the reports say what was sent.

Not program logic and not modelled: Docker files, CMake and Makefiles, recorded
logs, the two HTML GET handlers, `config.py`, the wording of answers and logs.

## 2. Modules

```
ActiveConnections          the dictionary and an iteration over it (operators)
  ConnectionManager        one category's registry, callers left open
    MCConnectionManager    instances for TLC
    ConnectionManagerProofs   (on ActiveConnectionsProofs)
  BulletinBoard            the whole board: routers, managers, tables, crashes
    BulletinBoardProofs       (on ActiveConnectionsProofs)
      DeliveryProofs          what a board is written, how often, in which order
    CategoryRegistry       refinement of ConnectionManager, one category
      MCBulletinBoard      instances for TLC
      BoardRefinementProofs   (on DeliveryProofs)
AdFeed                     what the board promises, abstractly

ReliableUdp                Lab 1.2, clients, server and network
  MCReliableUdp            instances for TLC
  ReliableUdpProofs
NodeList                   the heap and the serialised form (operators)
  ListTransfer             Labs 2.1 and 2.2 over TCP
    MCListTransfer         an instance for TLC
    ListTransferProofs     the list, and what a transfer does with it
PacedStream                Lab 2.3
  MCPacedStream            an instance for TLC
  PacedStreamProofs
SizeProbe                  Lab 1.3a
  MCSizeProbe              an instance for TLC
```

**ActiveConnections.** A Python dictionary, as CPython keeps it: entries in
insertion order in a table with room for a number of them (`slot`, `fill`,
`room`). Deleting leaves a hole, assigning to a present key keeps the place,
inserting into a full table first rebuilds it without the holes. An iteration
(`Casts`) has an index (`pos`), the size it started with (`used`) and the number
of entries it still expects (`left`). `Turns` is one `next()`: a changed size
raises, so does an entry more than counted; otherwise the next occupied place
is visited. `st = "aborted"` is the RuntimeError, `"failed"` an exception of a send
(or the end of the process), `"done"` the normal end. `audience`, `heard` and
`moved` are history, used by properties only.

**ConnectionManager.** `table` is `active_connections`, `casts[a]` the broadcast of
ad `a`. `Connect` is the part of `connect` after `accept`, `Broadcast` runs to the
first `await`, `BroadcastTurn` from one `await` to the next, `BroadcastRaises` is a
send that raises on a closed socket. Any socket may connect once, any board may
be disconnected at any time.

**BulletinBoard.** One variable per piece of state of the code (listed at their
declaration), one action per stretch of a coroutine between awaits:

| action | code |
|---|---|
| `Join` | `websocket_endpoint` and `add_to_category` up to `await websocket.accept()` |
| `Connect`, `AcceptFails` | `connect` after `accept`, with the first turn of the replay |
| `ReplayTurn`, `ReplayRaises` | `for ad in self.ads: await send_to_board` |
| `ReceiveText` | a `str` received from the board, broadcast as an ad |
| `HandleDisconnect` | `except WebSocketDisconnect: remove_from_category` |
| `Close` | the page unregisters or is lost |
| `PostAd`, `PostAdRefused` | `send_ad`; the INSERT succeeds or is refused by sqlite |
| `BroadcastTurn`, `BroadcastRaises` | the broadcast of a request |
| `Crash`, `CrashInLookup`, `CrashInPostAd` | the process ends, also after the commit of a new category's row or of an ad's row |
| `Restart` | a new process loads its managers from the tables |

sqlite calls do not await and are inside the action that makes them. A send to
an open socket is delivered at once; one to a closed socket is lost, and its
`await` may raise or return (both happen, depending on how far the close has
come). The socket of a handler that dies is closed by the server, and its entry
remains. `got` counts the copies written to a socket, `shown` is the ad the page
shows.

**CategoryRegistry** instantiates ConnectionManager for one category of the
board; `RegistrySpec` says the board's steps are steps of it. **AdFeed** is the
abstract promise: ads are published once and for good, displays are shown only
what is published in their category; `FeedSpec` says the board keeps it.

**ReliableUdp.** An element of `Clients` is one execution of the client program with a
port of its own; `ip` gives its host. `slot` is the server's list, `sending` and `asleep`
count the resender threads that hold a pointer to a slot, by where they are.

| action | code |
|---|---|
| `Start` | client `main` up to the blocking `receive_message`, resender created |
| `ResenderSends`, `ResenderWakes`, `ResenderFails` | `resender`: send and sleep; wake and look; `sendto` on the closed socket, which ends the process with `ERROR_FAILED_TO_SEND_A_MESSAGE` |
| `Answered` | a response comes, the confirmation goes, `send_message_with_retry` returns |
| `Close`, `Exit` | `close(sockfd)`, `return 0`, which takes the resender with it |
| `NewTransmission` | a datagram that matches no occupied slot |
| `Overrun` | the same with no slot free: an index past the slots is used |
| `HandleConfirmation` | a response packet that matches a slot: the flag, and the slot is free |
| `SlotSends`, `SlotWakes` | `one_use_socket_resender`, reading its slot as it is by then |
| `Lose` | the network drops a packet |

The network is a set: a packet stays until it is lost, so it can arrive late, out of
order and repeatedly. Responses to a client that no longer waits are not kept. A
duplicate, which the server answers with `continue`, changes nothing and is no
action. Once `send_message_with_retry` has returned, `message_received` lies in a frame
that is gone and the resender may read either value. After `Overrun` the behaviour is
undefined and the model stops the server. Left out: the pairs in a datagram; a
response torn by an overwriting of the slot while it is sent (to the network a lost
packet); the exit on a status other than 0, which the server never sends; the exit of
the C server on the Python client's 12 byte packets.

**NodeList** has the heap (`next`, `val`, the nodes that are `live`, and `bad` once a freed
node was used) with `CreateNode`, `SetValues`, `AddNode`, `DeleteList`, and the serialised
form with `Pack`, `Unpack` and the Python reader `UnpackData`, which has no result where
`struct.unpack_from` raises. Their loops are recursive functions of the number of turns, one
operator for a turn (`PackedNode`, `NodeRead`, `NextNode`, `DeleteNode`). `Base` stands for 256, so that 16 and 32 bits are two and
four digits: fields, sizes and counts wrap where the code's do. `AssignText` is `assign_text`,
which copies as much of a C string as its 16 bit length says: `unpack` passes it the text's
length plus one (`serialize.c:96`), and a text of 2^16 - 1 characters is lost there, a zero
byte ends a text early. `Garbled` are the texts that are not UTF-8, of which
`text.decode("utf-8")` raises (`server.py:33`). Texts are without their
terminator, which `pack` does not write either. (The example of `c/Z2/Z2.1/README.md:10-16`
shows a length 4 and `def\0`; the code writes 3 and `def`, and the 13 bytes of line 36
agree with the code.)

**ListTransfer** has both clients and the server of one of the two labs (`Readers` are the
clients of Lab 2.1, `Families` what the server listens on). `ListFits` is what the labs' list
satisfies with 256 and 10: its characters are bytes and ASCII, so none of its texts is
`Garbled`, and its size fits into two bytes.

| action | code |
|---|---|
| `InvalidIp` | Lab 2.2: `check_ip_type` and `exit` |
| `CreateHead`, `AppendNode` | the list of `main`: a head and a node for each turn |
| `PackList` | `print_nodes`, `pack`, `delete_list` |
| `Connect`, `ConnectFails` | `connect`; its failure is only logged |
| `Write`, `WriteKills` | `write`; on a socket that never connected it is EPIPE, whose SIGPIPE ends the process before the failure can be logged |
| `Finish` | Lab 2.1: the `read`, which returns when the connection ends; `close` |
| `Interrupt` | the process is stopped from outside |
| `StartServer`, `Accept` | `start_server` |
| `RecvNothing`, `RecvList`, `RecvRaises` | one `recv(1024)` of the first n bytes that there are: none, a list, or a list cut so that `unpack_data` raises and the server dies, its connections reset |

**PacedStream** counts amounts of data: `snd` and `rcv` are the fill of a connection's two
buffers, `pending` what the current `write` has still to copy, `sent` and `taken` history.

| action | code |
|---|---|
| `Connect`, `ConnectFails` | `connect`; refused, or timed out with the queue full |
| `Copy` | `write` copies a unit where there is room, and after the last the message is reported |
| `WriteFails` | a write cut by a reset returns a short count, the next -1; reported as messages |
| `WriteOnBrokenPipe` | the one after that, or the first without a connection: SIGPIPE |
| `Accept`, `Read`, `Wake`, `Close` | `start_server`; `Accept` also makes the receive buffer smaller |
| `Deliver` | TCP moves a unit to the receive buffer |
| `Refuse` | data for a server that has gone is answered with a reset |
| `Interrupt`, `Stop` | a client, the server is stopped from outside |

`Stop` closes the connections of the server: the one it serves with a FIN if everything that
arrived was read (`line` is `"half"`: the client still writes, until the first data is
refused and the next write is EPIPE), the others with a reset.

The client sends 255 messages (the counter starts at 1), not the 256 of its comment.
`read` returns -1 only for a reset, which no client here sends. A client host that
crashes would leave the server blocked for good; that is not modelled.

**SizeProbe** has the client's loop, its alarm and the server. `Lossy` and `Early` leave out
what would make a wrong report easy: the violation needs neither.

## 3. Runs

| run | question | instance |
|---|---|---|
| `registry` | does an iteration over the dictionary do its job whatever happens at its awaits, and end | 4 sockets, 3 boards (one reconnects), 1 broadcast, rooms n + 2 |
| `boards` | does anything fall between replay and broadcast, how often is an ad written; do history and table agree when an INSERT is refused; do closed connections go | 3 sockets, 2 boards (one reconnects), 1 ad and 1 refused |
| `delivery` | what does a board show in the end; do ads arrive | 2 boards, 2 overlapping broadcasts, a text from a board |
| `durability` | do managers and tables agree over crashes; refinement of AdFeed and ConnectionManager | 2 sockets, 2 categories, 2 ads, a text, 1 crash |
| `silent_skip` | violation: a broadcast that ends normally misses registered boards | 6 sockets, the table sizes of CPython |
| `join_mid_broadcast` | violation: one board leaving ends the broadcast for the others | 3 sockets |
| `reconnect_evicts` | violation: the old socket's disconnect takes the new registration | 2 sockets of one board |
| `reliable_udp` | do slots, resenders and handshakes stay in order whatever the network does; who is answered, what falls silent | 2 clients on 1 or 2 hosts, 1 slot, 2 resenders of a slot |
| `shared_host` | violation: a host's second client is not answered | the same |
| `list_transfer` | does a list survive packing, freeing and the network; does everybody end | 2 clients (one of each lab), base 6, 2 nodes behind the head |
| `paced_stream` | what do reports and closing say of the data; is everyone served | 3 clients, messages of 2 units, send buffer 2, receive buffer 1 (2 before `accept`), queue of 1 |
| `size_probe` | violation: the size reported did not arrive | sizes 2 to 7, limit 5 |

Bounds. Every socket connects at most once and every ad is submitted once, so the
sets of sockets and ads bound the runs; a reconnecting board is two sockets with
one board id. `Texts` and `MaxCrashes` bound the texts and the ends of the process.
Three sockets are what it takes for one to be ahead of an iterator, one behind
it and one to come (`boards`, which also has the reconnection). Two broadcasts are what it
takes for one to overtake another, and two boards for a broadcast to have a second send: its
first is made by `send_ad` itself, so only then does it await with a board still to come.
In `delivery` an older broadcast is reached that writes last, one that fails on a closed
socket or is aborted by a leave with a board behind, an ad submitted between two sends of a
replay, a board that registers between two sends of a broadcast.
`TightRoom` scales the dictionary's table down (rooms n + 1, n + 2) so that it is
rebuilt with three or four sockets; the rebuild does not depend on the numbers,
and `silent_skip` uses the true ones (5, 10, 21 usable entries). The proofs make
no assumption on the rooms beyond room for one more.

`reliable_udp`: a slot is reused under an old resender as soon as there is one slot and
two hosts, or a late datagram; a second resender on a slot is what `MaxResenders`
2 allows, and the overrun needs one host more than slots. The packets are bounded by
the clients, of which each uses one number. `list_transfer`: in base 6 one of the fields
takes two digits, so the order of the bytes shows; the list of 3 nodes
has a first, a middle and a last one to free, and its 32 bytes can be cut at every
offset. Every kind of address, both labs' clients and a server that is up, late or dead
meet. `Garbled` has a few short texts, which are no client's: the labs' readers do not raise of
them. `paced_stream`: three clients are one served, one waiting and one refused by
the queue; a message of two units can be cut in two, and with three messages a
client can fail a write, fail the next and be killed by the third.

No run checks for deadlock: with all sockets closed and all ads submitted, all
clients ended, the programs rest. `CHECK_DEADLOCK FALSE` is in every configuration
for that reason.

Fairness. `FairSpec` is weakly fair for the coroutines that are runnable: asyncio's
loop runs its ready queue in order, so a coroutine whose awaited send or accept
has completed is resumed. An await on a socket completes or raises, so
`ReplayTurn \/ ReplayRaises` is one fair action. There is no fairness for boards,
for users, for the end of the process or its restart.

`ReliableUdp`: threads that are not blocked run and a sleep of a second ends (weak
fairness); a packet that is sent again and again is received in the end (strong
fairness of the two receptions that matter, `NewTransmission \/ Overrun` and
`Answered`), and none stays under way for ever (weak fairness of `Lose`). There is none
for the confirmation: it is sent once. `ListTransfer` and `PacedStream`: a process that can
run does, and TCP delivers (weak fairness); nobody need start a server or stop
anything.

### What the violations show

* `silent_skip` contradicts the docstring of `broadcast` ("Sends a message to all
  active connections", `ConnectionManager.py:37`). A registration during an await
  rebuilds the table, the entries move up past the iterator's index, another
  board leaves so that the size is again the one at the start: the loop ends with
  no exception and boards that were registered throughout were not written to.
* `join_mid_broadcast` contradicts "Concurrent handling of multiple clients"
  (`README.md:53`): a board leaving during an await changes the size, the loop
  raises RuntimeError, and the boards behind never get the ad.
* `reconnect_evicts` contradicts the assertions of
  `test_CategoryManager.py:41-42` for a board that registers again before the
  disconnect of its previous socket is handled.
* `shared_host` contradicts what `client.c:50` and `README.md:77` promise of Lab 1.2. The
  first client of a host is answered and ends, its one confirmation is lost; its
  slot stays, and everything the host's next client sends is a duplicate of it.
* `size_probe` contradicts the message of `c/Z1/Z1.3a/client.c:35`: `packet_size` is the size
  still unanswered when the alarm goes off.

`CurrentAdIsNewest` excuses one thing more, which no run reaches and its proof brought to
light: it takes three sockets of one board and three ads, more than any run has. A
replay does not write to the socket it was started for, it writes to whatever socket its
board id stands for. When the page has registered again, the slow replay of its old
handler still runs, writes an old ad to the new socket, and dies of the next history entry
if that is a text: the page is left with an ad that is not the newest and that nothing will
correct. `LeftByReplay` says so.

The properties of the passing runs are stated around these: `FullPass` only for
tables that were not rebuilt, `NothingFallsBetween` except for boards a broadcast
`Missed` while they were in it from the start, `RegisteredBoardIsListed` for ids
used by one socket, `ClientAloneIsAnswered` for a host's only client.

### What the runs of the exercises show

* `reliable_udp`: a slot's resenders are never all told to end while its transmission
  is open, and all end when it is over, although the flag they look at is reset when the
  slot is reused; a client believes in a completed handshake only if it was accepted;
  another host's packets end no transmission; lost, late and repeated packets alone do
  not overrun the list, it takes more hosts than slots.
* `list_transfer`: `unpack` inverts `pack` on the clients' list; `delete_list` uses no
  freed node and leaves exactly the last one; the server prints a list whole or dies,
  and dies only of a cut; every client ends, also one that waits for an answer.
* `paced_stream`: reports are ahead of the server's reads by what the buffers hold, which
  is what the experiment measures, and at most a part of a message and one message
  more than was sent are ever reported; a connection is closed when everything was read.

## 4. Proofs

The proofs about the board are for any finite set of sockets and any sets of boards, ads,
categories and texts, any number of crashes, and any table sizes with room for one
more entry (`RegistryAssumption`, `BulletinAssumption`; CPython's sizes satisfy
it). Nothing else is assumed.

**ActiveConnectionsProofs** has the lemmas about the dictionary and its iterators:
what a registration, an overwriting, a rebuild and a removal do to the places of
the entries (`PutFacts`, `PoppedFacts`), and that each of them and each turn of an
iteration keeps `CastOK`, the relation between a broadcast and the table:
what was written to is behind the index, what is still to be written to is at
or ahead of it unless the table was rebuilt, and sends made plus sends left are
the boards registered at the start, and one that has not begun is for nobody. The step that needs thought is the rebuild:
an entry's new place is the number of entries up to it, which is never more than
its old place, so what was behind the index stays behind it, while what was ahead
may not stay ahead. That asymmetry is why `HeardAreBehind` and `OneSendEach` hold
always, `FullPass` only without a rebuild, and why `silent_skip` is a violation.

**ConnectionManagerProofs** proves with the inductive invariant
`IInv == TypeOK /\ RegistryIsADictionary /\ NewIsUnknown /\ CastsOK`:

| theorem | property |
|---|---|
| `TypeCorrect` | `TypeOK` |
| `StaysADictionary` | `RegistryIsADictionary` |
| `PassIsFull` | `FullPass` |
| `HeardStayBehind` | `HeardAreBehind` |
| `SendsAreCounted` | `OneSendEach` |

None of the last four is inductive alone. `OneSendEach` needs that the next
socket was not written to before, which is `HeardAreBehind`, which needs that a
socket that registers was not written to before, which is `NewIsUnknown`.

**BulletinBoardProofs** first proves `Typed`, the types together with three facts
the rest relies on (each registry is a dictionary, a registered socket joined
that category, a handler runs in a running process and within its history),
then in layers on top of it:

| theorem | property | invariant it takes besides `Typed` |
|---|---|---|
| `TypeCorrect` | `TypeOK` | none |
| `TablesOnlyGrow` | `StoreOnlyGrows` (action property) | none |
| `CategoriesAreUnique` | `NoDuplicateCategory` | `ManagersAreRows`: the managers are the rows while the process runs |
| `WhatIsShownIsStored` | `ShownIsDurable` | `HistoryIsStored`, `SentIsStored`: what a replay or a broadcast could write is stored |
| `CacheIsCoherent` | `CacheMatchesStore` | `ManagersAreRows`, `CacheInv` (histories and tables match): `send_ad` appends to both, a text to the history alone |
| `RegistrationsAgree` | `RegisteredBoardIsListed` | `Listed`: the id of such a board is in `boards` from before the accept to the end of its entry, and the entry is there from the accept to the end of the handler |

`CacheMatchesStore` says "the n-th ad of the history is the n-th stored" by counting
(`RankOf`), which a proof can follow through an append.

**DeliveryProofs** proves three theorems about what a board is written:

| theorem | property |
|---|---|
| `NothingIsLost` | `NothingFallsBetween` |
| `CopiesAreBounded` | `CopiesBounded` |
| `PageIsCurrent` | `CurrentAdIsNewest` |

`NothingFallsBetween` is not inductive: which entries are
ahead of an index says nothing of the board's position after a rebuild. The
invariant replaces "ahead of the index" by "in the audience and not written to"
(`Covered`): a board that listens has each ad of its history, or its own replay has
it still to take, or it was registered when the ad's broadcast began and has not
been written to. It needs, layer by layer:

| invariant | why |
|---|---|
| `Covered` | the two ways an ad can come; a new ad enters by `PostAd`'s audience, a new board by the replay it begins with its entry |
| `CastsAreOK` | `CastOK` of each ad's broadcast and its category's registry, which turns `Covered` back into the property: not moved means still ahead |
| `PendingAreUnknown` | a handler that has not registered is in no broadcast |
| `HistoryIsStored`, `StoredWasSent` | an ad in a history was sent to that category: a request cannot reset a broadcast some board waits for |
| `DownIsEmpty` | no board is registered when a new process loads its histories |

A listening board was listening before the step unless the step registered it
(`HasListened`), so each action is one lemma: `ConnectCovers`, `ReplayTurnCovers`,
`BroadcastTurnCovers`, `PostAdCovers`, and `QuietCovers` for the actions that write
nothing.

`CopiesBounded` bounds a count by the number of replays, and each step can only add one. The
invariant (`CopiesCounted`) splits the bound by who wrote: a socket has at most one copy
from the broadcast, once it is in `heard`, and one from each handler of its board id that is
past the ad's place in the history. That needs that the ad has one place there
(`AdsOnce`: it is submitted once and stored once), that an iteration comes to no socket
twice (`CastsAreOK`), and that an ad not yet submitted was written to nobody.

`CurrentAdIsNewest` is about order. The invariant (`Current`) says of each listening board that
a replay has left it with its ad (`LeftByReplay`) or that it is `Fresh`: each ad of the history is
followed there by the one shown, or is that one, or is still `Owed` by its broadcast, or the
one shown was overtaken. Writing an older ad must then be the work of a broadcast that was
overtaken, which is `RunningAreNewest`: a broadcast under way is of the newest ad of its
category, or overtaken. `DownIsQuiet` ends them with their process. A proof attempt for
the property without `LeftByReplay` failed at `ReplayTurn`, for the reason section 3 gives.

**BoardRefinementProofs** proves that the board implements what it promises and uses what it
was given. `ImplementsFeed` is `Spec => FeedSpec`: the published ads are the rows of the
tables, a display's ads the ones its socket was written; storing an ad is the step that
publishes it, a write is a step that shows one or repeats one, everything else is a
stutter. It takes `Durable` and `StoredWasSent`. `ImplementsRegistry` is `Spec => RegistrySpec`, for
any one category: each step of the board is a step of that category's ConnectionManager or a
stutter of it. It takes that a broadcast awaits a socket that was registered in the
category of its ad (`AwaitedIsJoined`). So everything proved of ConnectionManager with its
arbitrary callers holds of each category of the board.

**ReliableUdpProofs**, for any finite set of clients on any hosts, any number of slots and
of resenders (`ReliableUdpAssumption`):

| theorem | property |
|---|---|
| `TypeCorrect` | `TypeOK` |
| `OpenIsResent` | `OpenSlotIsResent` |
| `CompletionIsEarned` | `CompletedWasAccepted` |
| `OverrunIsByHosts` | `OverrunTakesHosts` |
| `EndsAreConfirmed` | `EndIsConfirmed` (action property) |

The invariant adds where packets and slots come from: nothing comes from a client not
started (`IdleIsSilent`), responses go to accepted clients and confirmations come from
answered ones (`PacketsAreEarned`), a slot that is open or has a resender is one of an
accepted client (`SlotsAreEarned`; a resender of an earlier owner sends what the slot
holds now), and no host has two open transmissions (`OneTransmissionPerHost`). When all
slots are taken, slot to host is then an injection that leaves the newcomer's host out,
and the pigeonhole principle gives `OverrunTakesHosts`.

**PacedStreamProofs**, for any number of clients, messages and any sizes with
`RcvBuf <= RcvDefault` (`PacedAssumption`):

| theorem | property |
|---|---|
| `TypeCorrect` | `TypeOK` |
| `ReportsFollowReads` | `AheadByTheBuffers` |
| `FalseReportsAreFew` | `FewFalseReports` |
| `ClosedWasReadOut` | `ClosedAfterAll` |

The invariant is the books of a connection (`Account`): while it lasts, what was copied is
what was read plus the two buffers, and also what was reported plus the part of a
message not yet reported. After a reset the two drift apart by a part of a message,
then by a whole one; after a FIN of the server what was reported keeps to what was copied
until the data is refused, and drifts by a part of a message then. `Members` and `Stopped`
say which connections the server holds.

**ListTransferProofs**, for any base above 5, any number of clients and any number of nodes
whose packed size fits into two bytes (`NodeListAssumption`, `TransferAssumption`,
`ListFits`), has first the list as such:

| theorem | what it says |
|---|---|
| `NodeSurvives` | `unpack` reads back what `pack` wrote for a node, and where the next one starts, wherever it is in the buffer |
| `ListSurvives` | `Unpack(Pack(list).buf) = list` for every list whose length and fields fit into their widths and whose texts fit with their terminator |
| `AllOrNothing` | the Python reader of the first m bytes of that buffer raises unless m is all of them and each text is UTF-8 (`Decodes`), and then has the list |

Their texts are C strings, of nonzero characters, and a length of at most 2^16 - 2: with one
more `NodeSurvives` is false of the code, since `unpack` loses that text. `AllOrNothing`
leaves `Garbled` open, so it holds whatever is UTF-8.

They are about loops, so they go by induction on the turns. The library's induction theorems
take an operator as a parameter and cannot be used here; `Induction` is the same rule with
a set in that place, `S` with `0 \in S` and `i \in S => i + 1 \in S`, and follows
from the well-founded order on the naturals (`LeastNat`). With it
`LoopExists` shows that there is a function with the equation a loop is defined by, and
`SameLoop` that two that satisfy one equation agree. `Layout` then says where the nodes lie: a
place for each, `PackedNode` of it between two of them; `PackLaysOut` shows it of `pack`'s
buffer, `UnpackOfLayout` and `UnpackBeginning` follow the readers along it. The counts enter
exactly once: a length that fits its field comes back as itself (`SmallMod`), and `TextIsKept`
is where the terminator must fit too. On the heap,
`ListHeap(list)` is the heap with this list and nothing else; `AppendedFacts`, `ListIsRead` and
`ListIsDeleted` say what the loops of `main`, `print_nodes`, `pack` and `delete_list` do with it.

| theorem | property |
|---|---|
| `TypeCorrect` | `TypeOK` |
| `UnpackInverts` | `UnpackInvertsPack` |
| `LeakIsTheLast` | `OnlyTheLastNodeLeaks` |
| `PrintsWhole` | `PrintedWhole` |
| `DiesOfACut` | `DiesOnlyOfACut` |

The inductive invariant says what these take for granted at each place of a client's
`main`: on the heap is the list built so far, or its last node once the list was freed
(`HeapIsList`), in the buffer what `Pack` makes of the whole list (`WireIsPacked`), on the
connection all of that or nothing (`StreamsAreWhole`). Without the last of them the server
could be reading something no client packed.

Only model-checked: liveness (`BroadcastEnds`, `EveryAdArrives`, `ClosedConnectionIsRemoved`,
`ClientAloneIsAnswered`, `EndedSlotFallsSilent`, `WrittenIsPrinted`, `EveryoneIsServed`, `ClientsEnd`),
for want of proof rules for fairness and ENABLED in the prover. Every invariant and every
action property of a passing run, and both refinements, are theorems. `SizeProbe` has no
theorem: its one property is violated.

## 5. Not modelled

* Within the board: ids and dates of ads (no code reads the ids), the texts of
  SQL, answers and logs, the page's form and its several sockets beyond the
  reconnection they cause, a POST without a category (it changes nothing).
* That a poisoned history (a `str` a board has sent) kills every later handler of
  the category is in the model (`ReceiveText`, `Replay`) and shapes
  `EveryAdArrives`, where such a handler's board is no longer listening.
* Reliable UDP: see the end of its description in section 2.
* Lists: the heap blocks of the texts, so neither the terminator written one past the
  block (`serialize.c:95`) nor the block that `unpack` does not free; what `unpack` reads when
  it is given no bytes of its own packing (the C reader has no other input); a list too
  long for the 1024 byte buffer (the clients' list has a fixed length).
* `c/Z2/Z2.1/server.c` is unfinished and does not compile.
* Python stop-and-wait (C): the plan has it. Z1.1 and the Python Z1.1 and Z1.3
  exercises keep no state from one datagram to the next.

## 6. Plan

Done, in this order: the board and its proofs; `ReliableUdp`, `NodeList`, `ListTransfer`,
`PacedStream`, `SizeProbe` and the proofs of the safety properties; the board's refinements
and the loops over lists.

1. Proofs: the facts the fairness arguments rest on, as far as they are safety (a measure
   that each fair step makes smaller: the turns left of an iteration, the ads left of a replay).
2. `StopAndWait` (C): does the Python server take a repeated datagram for the
   confirmation, and what does its client make of a lost answer.
3. `BoardPage`: one page, its sockets over time, register and unregister as
   `board.html` does them, composed with `BulletinBoard` by its reconnections.

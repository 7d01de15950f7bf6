---------------------------- MODULE ListTransfer ----------------------------
(***************************************************************************)
(* Labs 2.1 and 2.2: C clients build a list, pack it, free it and write it *)
(* to a Python server over TCP.  The server takes one recv for one list,   *)
(* and the client of Lab 2.1 then reads an answer that no server sends: it *)
(* waits for the connection to end.                                        *)
(***************************************************************************)
EXTENDS NodeList, FiniteSets

CONSTANTS Clients,
          Readers,     \* the clients of Lab 2.1, the others are of Lab 2.2
          Families,    \* the address families the server listens on
          NodeCount    \* 10 in the code

ASSUME TransferAssumption ==
    /\ IsFiniteSet(Clients)
    /\ Readers \subseteq Clients
    /\ Families \subseteq {"IPV4", "IPV6"}
    /\ NodeCount \in Nat

VARIABLES
    ip,        \* the kind of address a client was started with
    pc,        \* where a client's main is
    heap,      \* a client's nodes
    wire,      \* what pack left in a client's buf, and its size
    line,      \* a client's connection: "none", "open", "fin" (closed by
               \* the client), "shut" (by the server), "reset"
    stream,    \* bytes a client wrote that the server has not received
    server,    \* "down", "up", or "dead" of an exception
    queue,     \* connections the server has not accepted
    serving,   \* the connection it has accepted: a set of at most one
    printed,   \* the lists it has printed: <<client, list>>
    cut        \* clients whose list came in more pieces than one

vars == <<ip, pc, heap, wire, line, stream, server, queue, serving, printed, cut>>

clientVars == <<ip, heap, wire>>
serverVars == <<server, queue, serving, printed, cut>>

-----------------------------------------------------------------------------
(* The values of the list: (3, 4, "def") and NodeCount nodes (5, 6, "a.."),*)
(* each text longer by one.                                                *)
HeadValue == [a |-> 3, b |-> 4, text |-> <<3, 4, 5>>]
NodeValue(i) == [a |-> 5, b |-> 6, text |-> [k \in 1..i |-> 2]]
TheList == <<HeadValue>> \o [i \in 1..NodeCount |-> NodeValue(i)]

(* Its characters are bytes, ASCII ones, and its size fits into two bytes. *)
ASSUME ListFits ==
    /\ Base > 5
    /\ 2 + Len(PackedNodes(TheList)) < U16
    /\ \A i \in DOMAIN TheList : TheList[i].text \notin Garbled

Ended == {"done", "killed", "invalid_ip"}

Init ==
    /\ ip \in [Clients -> {"IPV4", "IPV6", "INVALID_IP"}]
    /\ pc = [c \in Clients |-> "start"]
    /\ heap = [c \in Clients |-> EmptyHeap]
    /\ wire = [c \in Clients |-> [buf |-> <<>>, size |-> 0]]
    /\ line = [c \in Clients |-> "none"]
    /\ stream = [c \in Clients |-> <<>>]
    /\ server = "down"
    /\ queue = <<>>
    /\ serving = {}
    /\ printed = {}
    /\ cut = {}

Goes(c, from, to) == pc[c] = from /\ pc' = [pc EXCEPT ![c] = to]

-----------------------------------------------------------------------------
(* The clients.                                                            *)

(* check_ip_type of Lab 2.2.                                               *)
InvalidIp(c) ==
    /\ c \notin Readers /\ ip[c] = "INVALID_IP"
    /\ Goes(c, "start", "invalid_ip")
    /\ UNCHANGED <<clientVars, line, stream, serverVars>>

CreateHead(c) ==
    /\ c \in Readers \/ ip[c] # "INVALID_IP"
    /\ Goes(c, "start", "building")
    /\ heap' = [heap EXCEPT ![c] = SetValues(CreateNode(@), NewNode(@), HeadValue)]
    /\ UNCHANGED <<ip, wire, line, stream, serverVars>>

(* A turn of the loop; the tail is the node of the turn before.            *)
AppendNode(c) ==
    LET h == heap[c]
        tail == Len(h.next)
        new == NewNode(h)
    IN /\ pc[c] = "building" /\ tail <= NodeCount
       /\ heap' = [heap EXCEPT ![c] =
                      AddNode(SetValues(CreateNode(h), new, NodeValue(tail)), tail, new)]
       /\ UNCHANGED <<ip, pc, wire, line, stream, serverVars>>

(* print_nodes, pack and delete_list.                                      *)
PackList(c) ==
    LET read == Used(heap[c], ToSet(Chain(heap[c], 1)))
    IN /\ Len(heap[c].next) = NodeCount + 1
       /\ Goes(c, "building", "packed")
       /\ wire' = [wire EXCEPT ![c] = Pack(ListOf(heap[c], 1))]
       /\ heap' = [heap EXCEPT ![c] = DeleteList(read, 1)]
       /\ UNCHANGED <<ip, line, stream, serverVars>>

Connect(c) ==
    /\ server = "up" /\ ip[c] \in Families
    /\ Goes(c, "packed", "connected")
    /\ line' = [line EXCEPT ![c] = "open"]
    /\ queue' = Append(queue, c)
    /\ UNCHANGED <<clientVars, stream, server, serving, printed, cut>>

(* connect fails; the failure is logged and main goes on.                  *)
ConnectFails(c) ==
    /\ server # "up" \/ ip[c] \notin Families
    /\ Goes(c, "packed", "unconnected")
    /\ UNCHANGED <<clientVars, line, stream, serverVars>>

(* The write on a socket that was never connected is EPIPE, and its        *)
(* SIGPIPE ends the process.                                               *)
WriteKills(c) ==
    /\ Goes(c, "unconnected", "killed")
    /\ UNCHANGED <<clientVars, line, stream, serverVars>>

(* write: a connection that was reset takes nothing, the error is logged.  *)
Write(c) ==
    /\ Goes(c, "connected", "written")
    /\ stream' = [stream EXCEPT ![c] =
                     IF line[c] = "open" THEN SubSeq(wire[c].buf, 1, wire[c].size)
                     ELSE <<>>]
    /\ UNCHANGED <<clientVars, line, serverVars>>

Closed(c) == IF line[c] = "open" THEN [line EXCEPT ![c] = "fin"] ELSE line

(* The read of Lab 2.1, which returns when the connection ends; close.     *)
Finish(c) ==
    /\ c \in Readers => line[c] \in {"shut", "reset"}
    /\ Goes(c, "written", "done")
    /\ line' = Closed(c)
    /\ UNCHANGED <<clientVars, stream, serverVars>>

(* The process is stopped from outside while its connection is open.       *)
Interrupt(c) ==
    /\ \E at \in {"connected", "written"} : Goes(c, at, "killed")
    /\ line' = Closed(c)
    /\ UNCHANGED <<clientVars, stream, serverVars>>

-----------------------------------------------------------------------------
(* The server.                                                             *)

StartServer ==
    /\ server = "down" /\ server' = "up"
    /\ UNCHANGED <<clientVars, pc, line, stream, queue, serving, printed, cut>>

Accept ==
    /\ server = "up" /\ serving = {} /\ queue # <<>>
    /\ serving' = {Head(queue)} /\ queue' = Tail(queue)
    /\ UNCHANGED <<clientVars, pc, line, stream, server, printed, cut>>

(* The connection's "with" ends.                                           *)
LineShut(c) == IF line[c] = "open" THEN [line EXCEPT ![c] = "shut"] ELSE line

(* recv returns no bytes when the client closed without a write.           *)
RecvNothing(c) ==
    /\ serving = {c} /\ stream[c] = <<>> /\ line[c] = "fin"
    /\ serving' = {} /\ line' = LineShut(c)
    /\ UNCHANGED <<clientVars, pc, stream, server, queue, printed, cut>>

(* Mutation: the server reads on until the client closes.                  *)
ServedToTheEnd(c) == [serving |-> serving, line |-> line]

(* After a list the connection is closed and the next one is accepted.     *)
Served(c) == [serving |-> {}, line |-> LineShut(c)]

(* recv(1024) returns the first n bytes there are: unpack_data,            *)
(* print_linked_list, and the next accept.                                 *)
RecvList(c, n) ==
    LET data == SubSeq(stream[c], 1, n)
    IN /\ serving = {c} /\ UnpackData(data).ok
       /\ printed' = printed \cup {<<c, UnpackData(data).list>>}
       /\ cut' = IF n < Len(stream[c]) THEN cut \cup {c} ELSE cut
       /\ stream' = [stream EXCEPT ![c] = <<>>]
       /\ serving' = Served(c).serving /\ line' = Served(c).line
       /\ UNCHANGED <<clientVars, pc, server, queue>>

(* unpack_data raises: the server ends, and with it every connection.      *)
RecvRaises(c, n) ==
    /\ serving = {c} /\ ~UnpackData(SubSeq(stream[c], 1, n)).ok
    /\ cut' = IF n < Len(stream[c]) THEN cut \cup {c} ELSE cut
    /\ server' = "dead" /\ queue' = <<>> /\ serving' = {}
    /\ stream' = [d \in Clients |-> <<>>]
    /\ line' = [d \in Clients |->
                  IF d \in serving \cup ToSet(queue) /\ line[d] = "open"
                  THEN "reset" ELSE line[d]]
    /\ UNCHANGED <<clientVars, pc, printed>>

Recv == \E c \in serving :
    \/ RecvNothing(c)
    \/ \E n \in 1..Len(stream[c]) : RecvList(c, n) \/ RecvRaises(c, n)

-----------------------------------------------------------------------------
Runs(c) ==
    \/ InvalidIp(c) \/ CreateHead(c) \/ AppendNode(c) \/ PackList(c)
    \/ Connect(c) \/ ConnectFails(c) \/ WriteKills(c) \/ Write(c) \/ Finish(c)

Next ==
    \/ \E c \in Clients : Runs(c) \/ Interrupt(c)
    \/ StartServer \/ Accept \/ Recv

Spec == Init /\ [][Next]_vars

(* Processes that can run do; nobody need start the server or stop a       *)
(* client.                                                                 *)
FairSpec ==
    /\ Spec
    /\ \A c \in Clients : WF_vars(Runs(c))
    /\ WF_vars(Accept) /\ WF_vars(Recv)

-----------------------------------------------------------------------------
(* Types: bytes are bytes, and one client is served at a time.             *)
TypeOK ==
    /\ ip \in [Clients -> {"IPV4", "IPV6", "INVALID_IP"}]
    /\ pc \in [Clients -> {"start", "building", "packed", "connected", "unconnected",
                           "written"} \cup Ended]
    /\ \A c \in Clients :
         /\ heap[c].live \subseteq DOMAIN heap[c].next
         /\ ToSet(heap[c].next) \subseteq {NULL} \cup DOMAIN heap[c].next
         /\ ToSet(wire[c].buf) \cup ToSet(stream[c]) \subseteq 0..(Base - 1)
         /\ wire[c].size <= Len(wire[c].buf)
    /\ line \in [Clients -> {"none", "open", "fin", "shut", "reset"}]
    /\ server \in {"down", "up", "dead"}
    /\ ToSet(queue) \subseteq Clients /\ serving \subseteq Clients
    /\ Cardinality(serving) <= 1
    /\ cut \subseteq Clients

(* README.md of Lab 2.1: unpack gives back the list that was packed.  It   *)
(* has to hold for the list of the clients, every field and every length.  *)
UnpackInvertsPack ==
    \A c \in Clients : pc[c] \notin {"start", "building", "invalid_ip"} =>
        Unpack(wire[c].buf) = TheList

(* node.c: building, printing, packing and freeing use no freed node, and  *)
(* what delete_list leaves behind is the last node alone.                  *)
OnlyTheLastNodeLeaks ==
    \A c \in Clients :
        /\ ~heap[c].bad
        /\ pc[c] \notin {"start", "building", "invalid_ip"} =>
               heap[c].live = {NodeCount + 1}

(* server.py: however TCP cuts a list, the server prints it whole or not   *)
(* at all.                                                                 *)
PrintedWhole == \A p \in printed : p[2] = TheList

(* server.py: the server ends only because a list was cut; a list that     *)
(* comes in one piece, or a client that sends nothing, does not end it.    *)
DiesOnlyOfACut == server = "dead" => cut # {}

(* server.py: a list that was written is printed, also when its client has *)
(* gone and others wait, unless a cut list ends the server.                *)
WrittenIsPrinted ==
    \A c \in Clients :
        stream[c] # <<>> ~> (server = "dead" \/ \E p \in printed : p[1] = c)

(* client.c: every client ends, that of Lab 2.1 although its read has no   *)
(* answer to wait for.                                                     *)
ClientsEnd == \A c \in Clients : <>(pc[c] \in Ended)
=============================================================================

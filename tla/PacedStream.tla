---------------------------- MODULE PacedStream ----------------------------
(***************************************************************************)
(* Lab 2.3: C clients write messages of one KB as fast as the connection   *)
(* takes them, to a C server that serves one connection at a time and      *)
(* sleeps after every read.  Only the amounts of data matter: a KB is KB   *)
(* units, a write blocks while the send buffer is full, data moves to the  *)
(* receive buffer while that has room.                                     *)
(***************************************************************************)
EXTENDS Integers, Sequences, SequencesExt, FiniteSets

CONSTANTS Clients,
          KB,           \* a message, and the server's read buffer: 1024 in the code
          Messages,     \* 255 in the code
          SndBuf,       \* a client's send buffer (argv[3])
          RcvBuf,       \* what the server asks for after it has accepted
          RcvDefault,   \* the receive buffer until then
          Backlog       \* of listen: 10 in the code

ASSUME PacedAssumption ==
    /\ IsFiniteSet(Clients)
    /\ KB \in Nat \ {0} /\ Messages \in Nat \ {0}
    /\ SndBuf \in Nat \ {0} /\ RcvBuf \in Nat \ {0}
    /\ RcvDefault \in Nat /\ RcvBuf <= RcvDefault
    /\ Backlog \in Nat

VARIABLES
    pc,         \* "start", "writing", "unconnected", "done", "killed"
    msg,        \* msg_counter: the messages before it have been reported
    pending,    \* what the current write has still to copy
    snd, rcv,   \* the fill of a connection's two buffers
    line,       \* "none", "open", "fin" (the client closed), "closed" (the
                \* server too), "half" (the server alone), "reset", "broken"
                \* (the next write is EPIPE)
    server,     \* "up", "asleep" in usleep, "stopped"
    queue,      \* connections not yet accepted
    serving,    \* the connection accepted: a set of at most one
    sent, taken \* history: what write copied, what read returned

vars == <<pc, msg, pending, snd, rcv, line, server, queue, serving, sent, taken>>

clientVars == <<pc, msg, pending>>
history == <<sent, taken>>
serverVars == <<server, queue, serving>>

Init ==
    /\ pc = [c \in Clients |-> "start"]
    /\ msg = [c \in Clients |-> 1]
    /\ pending = [c \in Clients |-> KB]
    /\ snd = [c \in Clients |-> 0]
    /\ rcv = [c \in Clients |-> 0]
    /\ line = [c \in Clients |-> "none"]
    /\ server = "up" /\ queue = <<>> /\ serving = {}
    /\ sent = [c \in Clients |-> 0]
    /\ taken = [c \in Clients |-> 0]

-----------------------------------------------------------------------------
(* The clients.                                                            *)

(* connect, while the server's queue has room (Linux takes one connection  *)
(* more than the backlog).                                                 *)
Connect(c) ==
    /\ pc[c] = "start" /\ server # "stopped" /\ Len(queue) <= Backlog
    /\ pc' = [pc EXCEPT ![c] = "writing"]
    /\ line' = [line EXCEPT ![c] = "open"]
    /\ queue' = Append(queue, c)
    /\ UNCHANGED <<msg, pending, snd, rcv, server, serving, history>>

(* connect is refused or times out; the failure is logged.                 *)
ConnectFails(c) ==
    /\ pc[c] = "start" /\ (server = "stopped" \/ Len(queue) > Backlog)
    /\ pc' = [pc EXCEPT ![c] = "unconnected"]
    /\ UNCHANGED <<msg, pending, snd, rcv, line, serverVars, history>>

(* The report of a message, the next turn of the loop, or its end at the   *)
(* last message with close.  l is the connection after the write.          *)
Report(c, l) ==
    /\ msg' = [msg EXCEPT ![c] = @ + 1]
    /\ pending' = [pending EXCEPT ![c] = KB]
    /\ \/ /\ msg[c] < Messages
          /\ line' = [line EXCEPT ![c] = l] /\ UNCHANGED pc
       \/ /\ msg[c] >= Messages
          /\ pc' = [pc EXCEPT ![c] = "done"]
          /\ line' = [line EXCEPT ![c] = IF l = "open" THEN "fin" ELSE l]

(* Mutation: the size of the send buffer is no limit.                      *)
AlwaysRoom(c) == TRUE

Room(c) == snd[c] < SndBuf

(* Mutation: a write that fills the buffer returns.                        *)
ShortWrite(c) == pending[c] = 1 \/ snd[c] + 1 = SndBuf

WriteReturns(c) == pending[c] = 1

(* write copies a unit into the send buffer, and returns after the last.   *)
Copy(c) ==
    /\ pc[c] = "writing" /\ line[c] \in {"open", "half"} /\ Room(c)
    /\ snd' = [snd EXCEPT ![c] = @ + 1]
    /\ sent' = [sent EXCEPT ![c] = @ + 1]
    /\ \/ WriteReturns(c) /\ Report(c, line[c])
       \/ /\ ~WriteReturns(c)
          /\ pending' = [pending EXCEPT ![c] = @ - 1]
          /\ UNCHANGED <<pc, msg, line>>
    /\ UNCHANGED <<rcv, serverVars, taken>>

(* A write on a connection that was reset: one that has copied something   *)
(* returns that, the next returns -1 unless it is EPIPE already.  Either   *)
(* is reported as a message.                                               *)
WriteFails(c) ==
    /\ pc[c] = "writing"
    /\ line[c] = "reset" \/ (line[c] = "broken" /\ pending[c] < KB)
    /\ Report(c, IF pending[c] < KB THEN line[c] ELSE "broken")
    /\ UNCHANGED <<snd, rcv, serverVars, history>>

(* Mutation: SIGPIPE is ignored, write returns -1 as before.               *)
PipeIgnored(c) == Report(c, "broken")

PipeKills(c) ==
    pc' = [pc EXCEPT ![c] = "killed"] /\ UNCHANGED <<msg, pending, line>>

(* The write after that, or the first on a socket that never connected, is *)
(* EPIPE.                                                                  *)
WriteOnBrokenPipe(c) ==
    /\ \/ pc[c] = "unconnected"
       \/ pc[c] = "writing" /\ line[c] = "broken" /\ pending[c] = KB
    /\ PipeKills(c)
    /\ UNCHANGED <<snd, rcv, serverVars, history>>

(* The process is stopped from outside; what is buffered is still sent.    *)
Interrupt(c) ==
    /\ pc[c] = "writing"
    /\ pc' = [pc EXCEPT ![c] = "killed"]
    /\ line' = [line EXCEPT ![c] = IF @ = "open" THEN "fin" ELSE @]
    /\ UNCHANGED <<msg, pending, snd, rcv, serverVars, history>>

-----------------------------------------------------------------------------
(* The connection and the server.                                          *)

Capacity(c) == IF c \in ToSet(queue) THEN RcvDefault ELSE RcvBuf

Deliver(c) ==
    /\ line[c] \in {"open", "fin"} /\ snd[c] > 0 /\ rcv[c] < Capacity(c)
    /\ snd' = [snd EXCEPT ![c] = @ - 1]
    /\ rcv' = [rcv EXCEPT ![c] = @ + 1]
    /\ UNCHANGED <<clientVars, line, serverVars, history>>

(* Data for a server that has gone is answered with a reset, which makes a *)
(* connection that it had closed before a broken pipe.                     *)
Refuse(c) ==
    /\ line[c] = "half" /\ snd[c] > 0
    /\ line' = [line EXCEPT ![c] = "broken"]
    /\ snd' = [snd EXCEPT ![c] = 0]
    /\ UNCHANGED <<clientVars, rcv, serverVars, history>>

(* accept, and the smaller receive buffer.                                 *)
Accept ==
    /\ server = "up" /\ serving = {} /\ queue # <<>>
    /\ serving' = {Head(queue)} /\ queue' = Tail(queue)
    /\ UNCHANGED <<clientVars, snd, rcv, line, server, history>>

(* read returns what there is, up to its buffer; usleep.                   *)
Read(c) ==
    LET n == IF rcv[c] < KB THEN rcv[c] ELSE KB
    IN /\ c \in serving /\ server = "up" /\ rcv[c] > 0
       /\ rcv' = [rcv EXCEPT ![c] = @ - n]
       /\ taken' = [taken EXCEPT ![c] = @ + n]
       /\ server' = "asleep"
       /\ UNCHANGED <<clientVars, snd, line, queue, serving, sent>>

Wake ==
    /\ server = "asleep" /\ server' = "up"
    /\ UNCHANGED <<clientVars, snd, rcv, line, queue, serving, history>>

(* Mutation: the loop ends when there is nothing to read at the moment.    *)
NothingYet(c) == rcv[c] = 0 /\ line[c] = "fin"

(* Mutation: the loop ends on an error only.                               *)
NoEnd(c) == FALSE

(* read returns 0.                                                         *)
EndOfData(c) == rcv[c] = 0 /\ snd[c] = 0 /\ line[c] = "fin"

(* break, close, and the next accept.                                      *)
Close(c) ==
    /\ c \in serving /\ server = "up" /\ EndOfData(c)
    /\ line' = [line EXCEPT ![c] = "closed"]
    /\ serving' = {}
    /\ UNCHANGED <<clientVars, snd, rcv, server, queue, history>>

(* The server is stopped from outside: a connection from which everything  *)
(* that arrived was read is closed, the others are reset.                  *)
Stop ==
    LET gone == serving \cup ToSet(queue)
        half == {c \in serving : line[c] = "open" /\ rcv[c] = 0}
    IN /\ server # "stopped" /\ server' = "stopped"
       /\ line' = [c \in Clients |-> IF c \in half THEN "half"
                                     ELSE IF c \in gone THEN "reset" ELSE line[c]]
       /\ snd' = [c \in Clients |-> IF c \in gone \ half THEN 0 ELSE snd[c]]
       /\ rcv' = [c \in Clients |-> IF c \in gone THEN 0 ELSE rcv[c]]
       /\ queue' = <<>> /\ serving' = {}
       /\ UNCHANGED <<clientVars, history>>

-----------------------------------------------------------------------------
Runs(c) ==
    \/ Connect(c) \/ ConnectFails(c)
    \/ Copy(c) \/ WriteFails(c) \/ WriteOnBrokenPipe(c)

Serves == Accept \/ Wake \/ \E c \in serving : Read(c) \/ Close(c)

Next ==
    \/ \E c \in Clients : Runs(c) \/ Interrupt(c) \/ Deliver(c) \/ Refuse(c)
    \/ Serves \/ Stop

Spec == Init /\ [][Next]_vars

(* The processes run and TCP delivers; nobody need stop anything.          *)
FairSpec ==
    /\ Spec
    /\ \A c \in Clients : WF_vars(Runs(c)) /\ WF_vars(Deliver(c)) /\ WF_vars(Refuse(c))
    /\ WF_vars(Serves)

-----------------------------------------------------------------------------
(* Types, and the buffers within their sizes.                              *)
TypeOK ==
    /\ pc \in [Clients -> {"start", "writing", "unconnected", "done", "killed"}]
    /\ msg \in [Clients -> 1..(Messages + 1)]
    /\ pending \in [Clients -> 1..KB]
    /\ snd \in [Clients -> 0..SndBuf]
    /\ rcv \in [Clients -> 0..RcvDefault]
    /\ line \in [Clients -> {"none", "open", "fin", "closed", "half", "reset", "broken"}]
    /\ server \in {"up", "asleep", "stopped"}
    /\ queue \in Seq(Clients)
    /\ serving \in SUBSET Clients
    /\ sent \in [Clients -> Nat] /\ taken \in [Clients -> Nat]

Reported(c) == KB * (msg[c] - 1)

(* client.c reports "time between send and ack" after each write: while    *)
(* the connection lasts, what is reported and not yet read by the server   *)
(* fits into the two buffers, so they are what the times measure.          *)
AheadByTheBuffers ==
    \A c \in Clients :
        line[c] \in {"open", "fin", "closed"} =>
            Reported(c) <= taken[c] + SndBuf + RcvDefault

(* client.c goes on after a failed write: for all that, at most a part of  *)
(* one message and one whole message are reported that were never sent.    *)
FewFalseReports == \A c \in Clients : Reported(c) < sent[c] + 2 * KB

(* server.c: a connection is closed after everything was read that its     *)
(* client sent, all messages if the client came to its end.                *)
ClosedAfterAll ==
    \A c \in Clients : line[c] = "closed" =>
        /\ taken[c] = sent[c]
        /\ pc[c] = "done" => taken[c] = KB * Messages

(* server.c: every client that connects is read to its end, however slow   *)
(* the server is and whoever was there before, unless it is stopped.       *)
EveryoneIsServed ==
    \A c \in Clients : line[c] = "open" ~> (line[c] = "closed" \/ server = "stopped")

(* client.c: no write blocks for ever, every client ends.                  *)
ClientsEnd == \A c \in Clients : <>(pc[c] \in {"done", "killed"})
=============================================================================

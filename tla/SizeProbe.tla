----------------------------- MODULE SizeProbe -----------------------------
(***************************************************************************)
(* Lab 1.3: a C client sends datagrams that grow by a byte, each after the *)
(* answer to the one before, until an alarm set at its start reports       *)
(* packet_size as the maximum and ends it.  The server answers whatever    *)
(* comes.                                                                  *)
(***************************************************************************)
EXTENDS Integers

CONSTANTS First,     \* 2000 in the code; the sizes are naturals
          Bound,     \* 1 << 16 in the code: the loop ends before it
          Limit,     \* the largest datagram that can arrive
          Lossy,     \* smaller datagrams and answers may be lost, too
          Early      \* the alarm may come while datagrams still get through;
                     \* Lossy and Early are Booleans

VARIABLES
    pc,            \* the client: "send", "receive", "exited", "done"
    packet_size,
    toServer,      \* sizes of the datagrams on their way
    toClient,      \* the number of answers on their way
    received,      \* the sizes the server has received
    report         \* what the alarm handler printed; 0 before

vars == <<pc, packet_size, toServer, toClient, received, report>>

Init ==
    /\ pc = "send" /\ packet_size = First
    /\ toServer = {} /\ toClient = 0 /\ received = {} /\ report = 0

(* sendto; a size that cannot be sent is refused, which nobody looks at.   *)
SendTo ==
    /\ pc = "send" /\ pc' = "receive"
    /\ toServer' = IF packet_size <= Limit THEN toServer \cup {packet_size} ELSE toServer
    /\ UNCHANGED <<packet_size, toClient, received, report>>

(* recvfrom returns an answer, whichever it is; the next size.             *)
RecvFrom ==
    /\ pc = "receive" /\ toClient > 0
    /\ toClient' = toClient - 1
    /\ packet_size' = packet_size + 1
    /\ pc' = IF packet_size + 1 < Bound THEN "send" ELSE "done"
    /\ UNCHANGED <<toServer, received, report>>

(* handle_idle.                                                            *)
HandleIdle ==
    /\ pc \in {"send", "receive"}
    /\ Early \/ (pc = "receive" /\ toServer = {} /\ toClient = 0)
    /\ report' = packet_size /\ pc' = "exited"
    /\ UNCHANGED <<packet_size, toServer, toClient, received>>

(* A turn of the server's loop.                                            *)
Serve ==
    \E n \in toServer :
        /\ toServer' = toServer \ {n}
        /\ received' = received \cup {n}
        /\ toClient' = toClient + 1
        /\ UNCHANGED <<pc, packet_size, report>>

Lose ==
    /\ Lossy
    /\ \/ \E n \in toServer : toServer' = toServer \ {n} /\ UNCHANGED toClient
       \/ toClient > 0 /\ toClient' = toClient - 1 /\ UNCHANGED toServer
    /\ UNCHANGED <<pc, packet_size, received, report>>

Next == SendTo \/ RecvFrom \/ HandleIdle \/ Serve \/ Lose

Spec == Init /\ [][Next]_vars

-----------------------------------------------------------------------------
(* client.c:35 "Maximum packet size is %d bytes.": the size reported is    *)
(* one that has arrived.  The code reports the size it is waiting for.     *)
ReportedSizeArrived == report # 0 => report \in received
=============================================================================

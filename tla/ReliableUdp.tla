---------------------------- MODULE ReliableUdp ----------------------------
(***************************************************************************)
(* c/Z1/Z1.2: a UDP handshake of clients and one server over a network     *)
(* that loses, duplicates and delays packets.  A client resends its        *)
(* datagram from a thread until a packet comes back, confirms it once and  *)
(* ends; the server keeps a slot and a resender thread for each            *)
(* transmission until it is confirmed.  An element of Clients is one       *)
(* execution of the client program, with a port of its own.  Every client  *)
(* numbers its datagram 1 (client.c:119), so the host is all that          *)
(* distinguishes two transmissions in the server's list.                   *)
(***************************************************************************)
EXTENDS Integers, FiniteSets

CONSTANTS
    Clients,        \* the executions of the client
    Hosts,          \* the hosts (IP addresses) they may run on
    MaxThreads,     \* the slots of the server's list
    MaxResenders,   \* bound on the resender threads of one slot
    Nobody          \* the owner of a slot that was never used

ASSUME ReliableUdpAssumption ==
    /\ IsFiniteSet(Clients)
    /\ MaxThreads \in Nat \ {0}
    /\ MaxResenders \in Nat \ {0}
    /\ Nobody \notin Clients

VARIABLES
    ip,         \* the host of each client
    main,       \* the main thread of each client
    resender,   \* its resender thread
    slot,       \* client_threads_data_list: data and data_array_index_occupied
    sending,    \* the resenders of each slot that are about to send
    asleep,     \* those in sleep(RESPONSE_WAIT_TIME_S)
    server,     \* "up", or "overrun" once an index past the slots was used
    net,        \* the packets under way
    accepted    \* history: the clients whose datagram opened a transmission

clientVars == <<ip, main, resender>>
serverVars == <<slot, sending, asleep, server, accepted>>
vars == <<clientVars, serverVars, net>>

(* main: blocked in receive_message ("waiting"), back from                 *)
(* send_message_with_retry ("returned"), its socket closed ("closed"),     *)
(* ended with 0 ("exited") or with ERROR_FAILED_TO_SEND_A_MESSAGE.         *)
Handshaken == {"returned", "closed", "exited", "failed"}
MainStates == {"idle", "waiting"} \cup Handshaken
ThreadStates == {"none", "sending", "asleep", "ended"}

Slots == 1..MaxThreads
SlotData == [occupied : BOOLEAN, owner : Clients \cup {Nobody}, confirmed : BOOLEAN]

Packets == [kind : {"datagram", "response", "confirmation"}, of : Clients]
Datagram(c) == [kind |-> "datagram", of |-> c]
Response(c) == [kind |-> "response", of |-> c]
Confirmation(c) == [kind |-> "confirmation", of |-> c]

(* The server is up, its list empty; no client has been started.           *)
Init ==
    /\ ip \in [Clients -> Hosts]
    /\ main = [c \in Clients |-> "idle"]
    /\ resender = [c \in Clients |-> "none"]
    /\ slot = [s \in Slots |-> [occupied |-> FALSE, owner |-> Nobody, confirmed |-> FALSE]]
    /\ sending = [s \in Slots |-> 0]
    /\ asleep = [s \in Slots |-> 0]
    /\ server = "up"
    /\ net = {}
    /\ accepted = {}

-----------------------------------------------------------------------------
(* The client.                                                             *)

(* main up to receive_message: the resender has been created.              *)
Start(c) ==
    /\ main[c] = "idle"
    /\ main' = [main EXCEPT ![c] = "waiting"]
    /\ resender' = [resender EXCEPT ![c] = "sending"]
    /\ UNCHANGED <<ip, serverVars, net>>

(* resender: send_message on an open socket, then sleep.                   *)
ResenderSends(c) ==
    /\ resender[c] = "sending"
    /\ main[c] # "closed"
    /\ resender' = [resender EXCEPT ![c] = "asleep"]
    /\ net' = net \cup {Datagram(c)}
    /\ UNCHANGED <<ip, main, serverVars>>

(* resender: main has closed the socket, send_message ends the process.    *)
ResenderFails(c) ==
    /\ resender[c] = "sending"
    /\ main[c] = "closed"
    /\ resender' = [resender EXCEPT ![c] = "ended"]
    /\ main' = [main EXCEPT ![c] = "failed"]
    /\ UNCHANGED <<ip, serverVars, net>>

(* resender: slept, reads message_received.  It lives in the frame of      *)
(* send_message_with_retry: once that has returned (its pthread_join is    *)
(* commented out) the read may give either value.                          *)
ResenderWakes(c) ==
    /\ resender[c] = "asleep"
    /\ \E t \in {"sending", "ended"} :
          /\ main[c] = "waiting" => t = "sending"
          /\ resender' = [resender EXCEPT ![c] = t]
    /\ UNCHANGED <<ip, main, serverVars, net>>

(* send_message_with_retry: the first packet to arrive is the response, it *)
(* is sent back once as the confirmation, and the function returns.  The   *)
(* server only ever answers with status 0, so the exit with another status *)
(* is not taken.  Further responses are not read by anybody.               *)
Answered(c) ==
    /\ main[c] = "waiting"
    /\ Response(c) \in net
    /\ main' = [main EXCEPT ![c] = "returned"]
    /\ net' = (net \ {Response(c)}) \cup {Confirmation(c)}
    /\ UNCHANGED <<ip, resender, serverVars>>

(* main: close(sockfd).                                                    *)
Close(c) ==
    /\ main[c] = "returned"
    /\ main' = [main EXCEPT ![c] = "closed"]
    /\ UNCHANGED <<ip, resender, serverVars, net>>

(* main: return 0 takes the resender with it.                              *)
Exit(c) ==
    /\ main[c] = "closed"
    /\ main' = [main EXCEPT ![c] = "exited"]
    /\ resender' = [resender EXCEPT ![c] = "ended"]
    /\ UNCHANGED <<ip, serverVars, net>>

-----------------------------------------------------------------------------
(* The server.                                                             *)

(* Mutations: the IPs are not compared; or no transmission is ever found.  *)
AnyTransmission(c) == {s \in Slots : slot[s].occupied}
NoTransmission(c) == {}

(* get_client_thread_data_index, as a set: the occupied slots of a client  *)
(* with the sender's IP; ports are not compared.                           *)
Transmissions(c) ==
    {s \in Slots : slot[s].occupied /\ ip[slot[s].owner] = ip[c]}

(* The indices first_free_index should choose from.                        *)
FreeSlots == {s \in Slots : ~slot[s].occupied}

First(S) == CHOOSE s \in S : \A t \in S : s <= t

(* Mutations: the flag of the slot's last transmission is kept; or only    *)
(* the IP of the address is.                                               *)
OpenedConfirmed(c) == [slot[First(FreeSlots)] EXCEPT !.occupied = TRUE, !.owner = c]
OpenedForIp(c) == [occupied |-> TRUE, owner |-> ip[c], confirmed |-> FALSE]

(* The contents a slot is given for a new transmission.                    *)
Opened(c) == [occupied |-> TRUE, owner |-> c, confirmed |-> FALSE]

(* Mutation: the slot is freed, the resender not told.                     *)
EndedUntold(d) == [d EXCEPT !.occupied = FALSE]

(* The contents it has after its confirmation: told and freed at once.     *)
Ended(d) == [d EXCEPT !.confirmed = TRUE, !.occupied = FALSE]

(* A datagram that belongs to no transmission in the list is entered in    *)
(* the first free slot and a resender for that slot is created.  One that  *)
(* belongs to a transmission is a duplicate and changes nothing.           *)
NewTransmission(c) ==
    /\ server = "up"
    /\ Datagram(c) \in net
    /\ Transmissions(c) = {}
    /\ FreeSlots # {}
    /\ LET s == First(FreeSlots) IN
          /\ sending[s] + asleep[s] < MaxResenders
          /\ slot' = [slot EXCEPT ![s] = Opened(c)]
          /\ sending' = [sending EXCEPT ![s] = @ + 1]
    /\ accepted' = accepted \cup {c}
    /\ UNCHANGED <<clientVars, asleep, server, net>>

(* The same with every slot taken: first_free_index goes on to             *)
(* sizeof(list->data), reads past the flags and returns an index that is   *)
(* no slot; data[index] overwrites the flags.  What the process does from  *)
(* then on is undefined; the model has it do nothing more.                 *)
Overrun(c) ==
    /\ server = "up"
    /\ Datagram(c) \in net
    /\ Transmissions(c) = {}
    /\ FreeSlots = {}
    /\ server' = "overrun"
    /\ UNCHANGED <<clientVars, slot, sending, asleep, net, accepted>>

(* A confirmation ends the transmission found for it; one for which none   *)
(* is found is a duplicate and changes nothing.                            *)
HandleConfirmation(c) ==
    /\ server = "up"
    /\ Confirmation(c) \in net
    /\ Transmissions(c) # {}
    /\ slot' = [slot EXCEPT ![First(Transmissions(c))] = Ended(@)]
    /\ UNCHANGED <<clientVars, sending, asleep, server, net, accepted>>

(* Mutation: the response goes to whatever client runs on that host.       *)
SlotSendsToHost(s) ==
    /\ server = "up"
    /\ sending[s] > 0
    /\ \E c \in Clients :
          /\ ip[c] = ip[slot[s].owner] /\ main[c] = "waiting"
          /\ net' = net \cup {Response(c)}
    /\ sending' = [sending EXCEPT ![s] = @ - 1]
    /\ asleep' = [asleep EXCEPT ![s] = @ + 1]
    /\ UNCHANGED <<clientVars, slot, server, accepted>>

(* one_use_socket_resender: the response of the slot to the address in the *)
(* slot, as they are by now.  To a client that no longer waits it is lost. *)
SlotSends(s) ==
    /\ server = "up"
    /\ sending[s] > 0
    /\ net' = net \cup {Response(c) : c \in {d \in {slot[s].owner} : main[d] = "waiting"}}
    /\ sending' = [sending EXCEPT ![s] = @ - 1]
    /\ asleep' = [asleep EXCEPT ![s] = @ + 1]
    /\ UNCHANGED <<clientVars, slot, server, accepted>>

(* Mutation: the resender ends after one response.                         *)
SlotWakesOnce(s) ==
    /\ server = "up"
    /\ asleep[s] > 0
    /\ asleep' = [asleep EXCEPT ![s] = @ - 1]
    /\ UNCHANGED <<clientVars, slot, sending, server, net, accepted>>

(* one_use_socket_resender: slept, reads the flag the slot has by now.     *)
SlotWakes(s) ==
    /\ server = "up"
    /\ asleep[s] > 0
    /\ asleep' = [asleep EXCEPT ![s] = @ - 1]
    /\ sending' = [sending EXCEPT ![s] = IF slot[s].confirmed THEN @ ELSE @ + 1]
    /\ UNCHANGED <<clientVars, slot, server, net, accepted>>

-----------------------------------------------------------------------------
(* The network: a packet stays until it is lost, so that it may arrive     *)
(* late, out of order and more than once.                                  *)
Lose(p) ==
    /\ p \in net
    /\ net' = net \ {p}
    /\ UNCHANGED <<clientVars, serverVars>>

Next ==
    \/ \E c \in Clients :
          \/ Start(c) \/ ResenderSends(c) \/ ResenderFails(c) \/ ResenderWakes(c)
          \/ Answered(c) \/ Close(c) \/ Exit(c)
          \/ NewTransmission(c) \/ Overrun(c) \/ HandleConfirmation(c)
    \/ \E s \in Slots : SlotSends(s) \/ SlotWakes(s)
    \/ \E p \in Packets : Lose(p)

Spec == Init /\ [][Next]_vars

(* Threads that are not blocked run on and a sleep of a second ends.  A    *)
(* packet that is sent again and again is received in the end; no packet   *)
(* stays under way for ever.                                               *)
FairSpec ==
    /\ Spec
    /\ \A c \in Clients :
          /\ WF_vars(ResenderSends(c)) /\ WF_vars(ResenderWakes(c))
          /\ SF_vars(NewTransmission(c) \/ Overrun(c)) /\ SF_vars(Answered(c))
    /\ \A s \in Slots : WF_vars(SlotSends(s)) /\ WF_vars(SlotWakes(s))
    /\ \A p \in Packets : WF_vars(Lose(p))

-----------------------------------------------------------------------------
(* Type correctness of the threads, the list and the packets.              *)
TypeOK ==
    /\ ip \in [Clients -> Hosts]
    /\ main \in [Clients -> MainStates]
    /\ resender \in [Clients -> ThreadStates]
    /\ slot \in [Slots -> SlotData]
    /\ sending \in [Slots -> Nat]
    /\ asleep \in [Slots -> Nat]
    /\ server \in {"up", "overrun"}
    /\ net \subseteq Packets
    /\ accepted \subseteq Clients

(* An open transmission is never told that it has ended and always has a   *)
(* resender, although slots are freed and reused under sleeping resenders  *)
(* (server.c:133-136, one_use_socket.c:91-95).                             *)
OpenSlotIsResent ==
    \A s \in Slots :
        slot[s].occupied => ~slot[s].confirmed /\ sending[s] + asleep[s] > 0

(* A client prints that its handshake is completed only if a datagram of   *)
(* its own opened a transmission: a resender left over from the slot's     *)
(* previous owner answers nobody who was not accepted.                     *)
CompletedWasAccepted == \A c \in Clients : main[c] \in Handshaken => c \in accepted

(* A transmission is ended only by a confirmation from its own host, sent  *)
(* by a client that had been answered: a late or repeated packet of        *)
(* another host never ends it (server.c:112-136).                          *)
EndIsConfirmed ==
    [][\A s \in Slots :
          slot[s].occupied /\ ~slot'[s].occupied =>
              \E c \in Clients : ip[c] = ip[slot[s].owner] /\ main[c] \in Handshaken]_vars

(* The list is overrun only when more hosts have started clients than it   *)
(* has slots: lost, late and repeated packets alone never fill it, whatever*)
(* transmissions they leave behind or open again.                          *)
OverrunTakesHosts ==
    server = "overrun" =>
        Cardinality({ip[c] : c \in {d \in Clients : main[d] # "idle"}}) > MaxThreads

Alone(c) == \A d \in Clients : ip[d] = ip[c] => d = c

(* A client that is the only one on its host is answered, whatever packets *)
(* are lost on the way and whatever the clients of other hosts leave in    *)
(* the list, as long as the list is not overrun.                           *)
ClientAloneIsAnswered ==
    \A c \in Clients :
        main[c] = "waiting" /\ Alone(c) ~> main[c] \in Handshaken \/ server = "overrun"

(* When a transmission has ended and its slot is not used again, the slot's*)
(* resenders all end, those revived by an earlier reuse included.          *)
EndedSlotFallsSilent ==
    \A s \in Slots :
        ~slot[s].occupied ~> \/ slot[s].occupied
                             \/ sending[s] + asleep[s] = 0
                             \/ server = "overrun"

(* README.md:77, "acknowledgement packets to mimic a TCP-like communication*)
(* reliability", and client.c:50, "if response is absent then periodically *)
(* resend": a client whose packets are not lost for ever is answered.      *)
EveryClientIsAnswered ==
    \A c \in Clients :
        main[c] = "waiting" ~> main[c] \in Handshaken \/ server = "overrun"

=============================================================================

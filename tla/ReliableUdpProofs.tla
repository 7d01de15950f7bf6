------------------------- MODULE ReliableUdpProofs -------------------------
(***************************************************************************)
(* The safety properties of ReliableUdp, for any finite set of clients on  *)
(* any hosts and any number of slots.                                      *)
(***************************************************************************)
EXTENDS ReliableUdp, FiniteSetTheorems, TLAPS

(* Nothing comes from a client that was not started.                       *)
IdleIsSilent ==
    \A c \in Clients : main[c] = "idle" =>
        resender[c] = "none" /\ Datagram(c) \notin net /\ c \notin accepted

(* Responses go to accepted clients, confirmations come from answered ones.*)
PacketsAreEarned ==
    \A c \in Clients :
        /\ Response(c) \in net => c \in accepted
        /\ Confirmation(c) \in net => main[c] \in Handshaken

(* A slot that is open or has a resender is one of an accepted client.     *)
SlotsAreEarned ==
    \A s \in Slots :
        slot[s].occupied \/ sending[s] + asleep[s] > 0 => slot[s].owner \in accepted

(* No host has two open transmissions.                                     *)
OneTransmissionPerHost ==
    \A s, t \in Slots :
        slot[s].occupied /\ slot[t].occupied /\ ip[slot[s].owner] = ip[slot[t].owner]
            => s = t

Started == {d \in Clients : main[d] # "idle"}

IInv ==
    /\ TypeOK
    /\ IdleIsSilent
    /\ PacketsAreEarned
    /\ SlotsAreEarned
    /\ OneTransmissionPerHost
    /\ OpenSlotIsResent
    /\ CompletedWasAccepted
    /\ OverrunTakesHosts

-----------------------------------------------------------------------------
LEMMA InitEstablishes == Init => IInv
  BY ReliableUdpAssumption
  DEF Init, IInv, TypeOK, IdleIsSilent, PacketsAreEarned, SlotsAreEarned,
      OneTransmissionPerHost, OpenSlotIsResent, CompletedWasAccepted, OverrunTakesHosts,
      MainStates, Handshaken, ThreadStates, SlotData, Packets, Slots

(* The three kinds of packets, and that a packet is one of a kind.         *)
LEMMA PacketFacts ==
    \A c, d \in Clients :
        /\ Datagram(c) \in Packets /\ Response(c) \in Packets /\ Confirmation(c) \in Packets
        /\ Datagram(c) # Response(d) /\ Datagram(c) # Confirmation(d)
        /\ Response(c) # Confirmation(d)
        /\ Datagram(c) = Datagram(d) => c = d
        /\ Response(c) = Response(d) => c = d
        /\ Confirmation(c) = Confirmation(d) => c = d
  BY DEF Packets, Datagram, Response, Confirmation

(* The hosts of the started clients are finitely many, also without one.   *)
LEMMA StartedHosts ==
    ASSUME NEW S \in SUBSET Clients
    PROVE  /\ IsFiniteSet({ip[c] : c \in S})
           /\ Cardinality({ip[c] : c \in S}) \in Nat
<1>1. IsFiniteSet(S)
  BY FS_Subset, ReliableUdpAssumption
<1> DEFINE f == [c \in S |-> ip[c]]
           T == {ip[c] : c \in S}
<1>2. f \in Surjection(S, T)
  BY DEF Surjection
<1>3. IsFiniteSet(T)
  BY <1>1, <1>2, FS_Surjection
<1> QED BY <1>3, FS_CardinalityType

(* Once overrun, the bound on the hosts stays exceeded: no client returns  *)
(* to "idle" and no client moves.                                          *)
LEMMA StartedOnlyGrow ==
    ASSUME OverrunTakesHosts, ip' = ip, server' = server,
           \A c \in Clients : main[c] # "idle" => main'[c] # "idle"
    PROVE  OverrunTakesHosts'
<1> DEFINE H == {ip[c] : c \in {d \in Clients : main[d] # "idle"}}
           G == {ip[c] : c \in {d \in Clients : main'[d] # "idle"}}
<1>1. H \subseteq G
  OBVIOUS
<1>2. IsFiniteSet(G) /\ Cardinality(G) \in Nat /\ Cardinality(H) \in Nat
  BY StartedHosts
<1>3. Cardinality(H) <= Cardinality(G)
  BY <1>1, <1>2, FS_Subset
<1>4. G = ({ip[c] : c \in {d \in Clients : main[d] # "idle"}})'
  OBVIOUS
<1> QED BY <1>2, <1>3, <1>4, ReliableUdpAssumption DEF OverrunTakesHosts

-----------------------------------------------------------------------------
LEMMA StartKeeps ==
    ASSUME IInv, NEW c \in Clients, Start(c)
    PROVE  IInv'
<1> USE DEF IInv, TypeOK, Start, serverVars
<1>1. TypeOK'
  BY DEF MainStates, ThreadStates
<1>2. IdleIsSilent' /\ PacketsAreEarned' /\ CompletedWasAccepted'
  BY DEF IdleIsSilent, PacketsAreEarned, CompletedWasAccepted, Handshaken
<1>3. SlotsAreEarned' /\ OneTransmissionPerHost' /\ OpenSlotIsResent'
  BY DEF SlotsAreEarned, OneTransmissionPerHost, OpenSlotIsResent
<1>4. OverrunTakesHosts'
  BY StartedOnlyGrow
<1> QED BY <1>1, <1>2, <1>3, <1>4

LEMMA ResenderKeeps ==
    ASSUME IInv, NEW c \in Clients, ResenderSends(c) \/ ResenderFails(c) \/ ResenderWakes(c)
    PROVE  IInv'
<1> USE DEF IInv, TypeOK, serverVars
<1>1. CASE ResenderSends(c)
  <2> USE <1>1 DEF ResenderSends
  <2>1. TypeOK'
    BY PacketFacts DEF ThreadStates
  <2>2. IdleIsSilent' /\ PacketsAreEarned' /\ CompletedWasAccepted'
    BY PacketFacts DEF IdleIsSilent, PacketsAreEarned, CompletedWasAccepted
  <2>3. SlotsAreEarned' /\ OneTransmissionPerHost' /\ OpenSlotIsResent'
    BY DEF SlotsAreEarned, OneTransmissionPerHost, OpenSlotIsResent
  <2>4. OverrunTakesHosts'
    BY StartedOnlyGrow
  <2> QED BY <2>1, <2>2, <2>3, <2>4
<1>2. CASE ResenderFails(c)
  <2> USE <1>2 DEF ResenderFails
  <2>1. TypeOK'
    BY DEF ThreadStates, MainStates, Handshaken
  <2>2. IdleIsSilent' /\ PacketsAreEarned' /\ CompletedWasAccepted'
    BY DEF IdleIsSilent, PacketsAreEarned, CompletedWasAccepted, Handshaken
  <2>3. SlotsAreEarned' /\ OneTransmissionPerHost' /\ OpenSlotIsResent'
    BY DEF SlotsAreEarned, OneTransmissionPerHost, OpenSlotIsResent
  <2>4. OverrunTakesHosts'
    BY StartedOnlyGrow
  <2> QED BY <2>1, <2>2, <2>3, <2>4
<1>3. CASE ResenderWakes(c)
  <2> USE <1>3 DEF ResenderWakes
  <2>1. TypeOK'
    BY DEF ThreadStates
  <2>2. IdleIsSilent' /\ PacketsAreEarned' /\ CompletedWasAccepted'
    BY DEF IdleIsSilent, PacketsAreEarned, CompletedWasAccepted
  <2>3. SlotsAreEarned' /\ OneTransmissionPerHost' /\ OpenSlotIsResent'
    BY DEF SlotsAreEarned, OneTransmissionPerHost, OpenSlotIsResent
  <2>4. OverrunTakesHosts'
    BY StartedOnlyGrow
  <2> QED BY <2>1, <2>2, <2>3, <2>4
<1> QED BY <1>1, <1>2, <1>3

(* What main does after it waited.                                         *)
LEMMA MainKeeps ==
    ASSUME IInv, NEW c \in Clients, Answered(c) \/ Close(c) \/ Exit(c)
    PROVE  IInv'
<1> USE DEF IInv, TypeOK, Answered, Close, Exit, serverVars
<1>1. main[c] # "idle" /\ main'[c] \in Handshaken /\ c \in accepted
  BY DEF Handshaken, PacketsAreEarned, CompletedWasAccepted
<1>2. /\ main' = [main EXCEPT ![c] = main'[c]]
      /\ net' \subseteq net \cup {Confirmation(c)}
      /\ resender' \in [Clients -> ThreadStates]
      /\ \A d \in Clients \ {c} : resender'[d] = resender[d]
  BY DEF ThreadStates
<1>3. TypeOK'
  BY <1>1, <1>2, PacketFacts DEF MainStates
<1>4. IdleIsSilent'
  BY <1>1, <1>2, PacketFacts DEF IdleIsSilent, Handshaken
<1>5. PacketsAreEarned' /\ CompletedWasAccepted'
  BY <1>1, <1>2, PacketFacts DEF PacketsAreEarned, CompletedWasAccepted
<1>6. SlotsAreEarned' /\ OneTransmissionPerHost' /\ OpenSlotIsResent'
  BY DEF SlotsAreEarned, OneTransmissionPerHost, OpenSlotIsResent
<1>7. OverrunTakesHosts'
  BY <1>1, <1>2, StartedOnlyGrow DEF Handshaken
<1> QED BY <1>3, <1>4, <1>5, <1>6, <1>7

LEMMA LoseKeeps ==
    ASSUME IInv, NEW p \in Packets, Lose(p)
    PROVE  IInv'
<1> USE DEF IInv, TypeOK, Lose, clientVars, serverVars
<1>1. TypeOK' /\ IdleIsSilent' /\ PacketsAreEarned' /\ CompletedWasAccepted'
  BY DEF IdleIsSilent, PacketsAreEarned, CompletedWasAccepted
<1>2. SlotsAreEarned' /\ OneTransmissionPerHost' /\ OpenSlotIsResent'
  BY DEF SlotsAreEarned, OneTransmissionPerHost, OpenSlotIsResent
<1>3. OverrunTakesHosts'
  BY StartedOnlyGrow
<1> QED BY <1>1, <1>2, <1>3

-----------------------------------------------------------------------------
(* A nonempty set of slots has a first one.                                *)
LEMMA FirstFacts ==
    ASSUME NEW S \in SUBSET Slots, S # {}
    PROVE  First(S) \in S
<1> DEFINE R == OpToRel(<, Nat)
<1>1. \A x, y \in Nat : <<x, y>> \in R <=> x < y
  BY DEF OpToRel
<1>2. S \subseteq Nat
  BY ReliableUdpAssumption DEF Slots
<1>3. IsWellFoundedOn(R, Nat)
  BY NatLessThanWellFounded
<1> HIDE DEF R
<1>4. \E s \in S : \A t \in S : ~(<<t, s>> \in R)
  BY <1>2, <1>3, WFMin, Zenon
<1>5. \E s \in S : \A t \in S : s <= t
  <2>1. PICK s \in S : \A t \in S : ~(<<t, s>> \in R)
    BY <1>4
  <2>2. ASSUME NEW t \in S PROVE s <= t
    <3>1. s \in Nat /\ t \in Nat /\ ~(<<t, s>> \in R)
      BY <1>2, <2>1
    <3>2. ~(t < s)
      BY <1>1, <3>1, Zenon
    <3> QED BY <3>1, <3>2
  <2> QED BY <2>2
<1> QED BY <1>5 DEF First

LEMMA NewTransmissionKeeps ==
    ASSUME IInv, NEW c \in Clients, NewTransmission(c)
    PROVE  IInv'
<1> USE DEF IInv, TypeOK, clientVars
<1> DEFINE s == First(FreeSlots)
<1>1. s \in Slots /\ ~slot[s].occupied
  <2>1. FreeSlots \in SUBSET Slots /\ FreeSlots # {}
    BY DEF NewTransmission, FreeSlots
  <2>2. s \in FreeSlots
    BY <2>1, FirstFacts
  <2> QED BY <2>2 DEF FreeSlots
<1>2. /\ slot' = [slot EXCEPT ![s] = Opened(c)]
      /\ sending' = [sending EXCEPT ![s] = @ + 1]
      /\ accepted' = accepted \cup {c}
      /\ UNCHANGED <<ip, main, resender, asleep, server, net>>
      /\ Datagram(c) \in net
      /\ \A t \in Slots : ~(slot[t].occupied /\ ip[slot[t].owner] = ip[c])
  BY DEF NewTransmission, Transmissions
<1>3. /\ Opened(c) \in SlotData /\ Opened(c).occupied /\ ~Opened(c).confirmed
      /\ Opened(c).owner = c
  BY DEF Opened, SlotData
<1>4. /\ sending'[s] + asleep'[s] > 0
      /\ \A t \in Slots \ {s} : slot'[t] = slot[t] /\ sending'[t] = sending[t]
      /\ slot'[s] = Opened(c)
  BY <1>1, <1>2
<1>5. TypeOK'
  BY <1>1, <1>2, <1>3
<1>6. IdleIsSilent' /\ PacketsAreEarned' /\ CompletedWasAccepted'
  BY <1>2 DEF IdleIsSilent, PacketsAreEarned, CompletedWasAccepted
<1>7. SlotsAreEarned' /\ OpenSlotIsResent'
  BY <1>2, <1>3, <1>4 DEF SlotsAreEarned, OpenSlotIsResent
<1>8. OneTransmissionPerHost'
  BY <1>2, <1>3, <1>4 DEF OneTransmissionPerHost
<1>9. OverrunTakesHosts'
  BY <1>2, StartedOnlyGrow
<1> QED BY <1>5, <1>6, <1>7, <1>8, <1>9

(* Every slot is taken, by transmissions of as many different hosts; the   *)
(* host whose datagram found none is one more.                             *)
LEMMA OverrunKeeps ==
    ASSUME IInv, NEW c \in Clients, Overrun(c)
    PROVE  IInv'
<1> USE DEF IInv, TypeOK, clientVars
<1>1. /\ UNCHANGED <<ip, main, resender, slot, sending, asleep, net, accepted>>
      /\ Datagram(c) \in net /\ server' = "overrun"
      /\ \A s \in Slots : slot[s].occupied /\ ip[slot[s].owner] # ip[c]
  BY DEF Overrun, Transmissions, FreeSlots
<1>2. /\ TypeOK' /\ IdleIsSilent' /\ PacketsAreEarned' /\ CompletedWasAccepted'
      /\ SlotsAreEarned' /\ OpenSlotIsResent' /\ OneTransmissionPerHost'
  BY <1>1 DEF IdleIsSilent, PacketsAreEarned, CompletedWasAccepted, SlotsAreEarned,
              OpenSlotIsResent, OneTransmissionPerHost
<1> DEFINE H == {ip[d] : d \in {e \in Clients : main[e] # "idle"}}
           f == [s \in 1..MaxThreads |-> ip[slot[s].owner]]
<1>3. main[c] # "idle" /\ ip[c] \in H
  BY <1>1 DEF IdleIsSilent
<1>4. \A s \in Slots : slot[s].owner \in Clients /\ main[slot[s].owner] # "idle"
  BY <1>1 DEF SlotsAreEarned, IdleIsSilent
<1>5. f \in Injection(1..MaxThreads, H \ {ip[c]})
  <2>1. f \in [1..MaxThreads -> H \ {ip[c]}]
    BY <1>1, <1>4 DEF Slots
  <2>2. \A s, t \in 1..MaxThreads : f[s] = f[t] => s = t
    BY <1>1 DEF OneTransmissionPerHost, Slots
  <2> HIDE DEF f
  <2> QED BY <2>1, <2>2 DEF Injection, IsInjective
<1>6. IsFiniteSet(H) /\ Cardinality(H) \in Nat
  BY StartedHosts
<1>7. IsFiniteSet(H \ {ip[c]}) /\ Cardinality(H \ {ip[c]}) = Cardinality(H) - 1
  BY <1>3, <1>6, FS_RemoveElement
<1>8. Cardinality(1..MaxThreads) = MaxThreads
  BY FS_Interval, ReliableUdpAssumption
<1>9. MaxThreads <= Cardinality(H) - 1
  BY <1>5, <1>7, <1>8, FS_Injection
<1>10. OverrunTakesHosts'
  <2>1. Cardinality({ip[d] : d \in {e \in Clients : main[e] # "idle"}}) > MaxThreads
    BY <1>6, <1>9, ReliableUdpAssumption
  <2>2. ip' = ip /\ main' = main
    BY <1>1
  <2> HIDE DEF IInv, TypeOK
  <2> QED BY <2>1, <2>2 DEF OverrunTakesHosts
<1> QED BY <1>2, <1>10

LEMMA HandleConfirmationKeeps ==
    ASSUME IInv, NEW c \in Clients, HandleConfirmation(c)
    PROVE  IInv'
<1> USE DEF IInv, TypeOK, clientVars
<1> DEFINE s == First(Transmissions(c))
<1>1. s \in Slots /\ slot[s].occupied
  <2>1. Transmissions(c) \in SUBSET Slots /\ Transmissions(c) # {}
    BY DEF HandleConfirmation, Transmissions
  <2>2. s \in Transmissions(c)
    BY <2>1, FirstFacts
  <2> QED BY <2>2 DEF Transmissions
<1>2. /\ slot' = [slot EXCEPT ![s] = Ended(@)]
      /\ UNCHANGED <<ip, main, resender, sending, asleep, server, net, accepted>>
  BY DEF HandleConfirmation
<1>3. slot[s] \in SlotData
  BY <1>1
<1>4. Ended(slot[s]) \in SlotData /\ ~Ended(slot[s]).occupied /\ Ended(slot[s]).owner = slot[s].owner
  BY <1>3 DEF Ended, SlotData
<1>5. slot'[s] = Ended(slot[s]) /\ \A t \in Slots \ {s} : slot'[t] = slot[t]
  BY <1>1, <1>2
<1>6. /\ TypeOK' /\ IdleIsSilent' /\ PacketsAreEarned' /\ CompletedWasAccepted'
  BY <1>2, <1>4 DEF IdleIsSilent, PacketsAreEarned, CompletedWasAccepted
<1>7. SlotsAreEarned' /\ OpenSlotIsResent' /\ OneTransmissionPerHost'
  BY <1>1, <1>2, <1>4, <1>5 DEF SlotsAreEarned, OpenSlotIsResent, OneTransmissionPerHost
<1>8. OverrunTakesHosts'
  BY <1>2, StartedOnlyGrow
<1> QED BY <1>6, <1>7, <1>8

LEMMA SlotKeeps ==
    ASSUME IInv, NEW s \in Slots, SlotSends(s) \/ SlotWakes(s)
    PROVE  IInv'
<1> USE DEF IInv, TypeOK, clientVars
<1>1. CASE SlotSends(s)
  <2> USE <1>1 DEF SlotSends
  <2>1. slot[s].owner \in accepted
    BY DEF SlotsAreEarned
  <2>2. net' \subseteq net \cup {Response(slot[s].owner)}
    OBVIOUS
  <2>3. TypeOK'
    BY <2>1, <2>2, PacketFacts
  <2>4. IdleIsSilent' /\ PacketsAreEarned' /\ CompletedWasAccepted'
    BY <2>1, <2>2, PacketFacts DEF IdleIsSilent, PacketsAreEarned, CompletedWasAccepted
  <2>5. SlotsAreEarned' /\ OpenSlotIsResent' /\ OneTransmissionPerHost'
    BY <2>1 DEF SlotsAreEarned, OpenSlotIsResent, OneTransmissionPerHost
  <2>6. OverrunTakesHosts'
    BY StartedOnlyGrow
  <2> QED BY <2>3, <2>4, <2>5, <2>6
<1>2. CASE SlotWakes(s)
  <2> USE <1>2 DEF SlotWakes
  <2>1. TypeOK' /\ IdleIsSilent' /\ PacketsAreEarned' /\ CompletedWasAccepted'
    BY DEF IdleIsSilent, PacketsAreEarned, CompletedWasAccepted
  <2>2. SlotsAreEarned' /\ OpenSlotIsResent' /\ OneTransmissionPerHost'
    BY DEF SlotsAreEarned, OpenSlotIsResent, OneTransmissionPerHost
  <2>3. OverrunTakesHosts'
    BY StartedOnlyGrow
  <2> QED BY <2>1, <2>2, <2>3
<1> QED BY <1>1, <1>2

-----------------------------------------------------------------------------
LEMMA NextKeeps == IInv /\ [Next]_vars => IInv'
<1> SUFFICES ASSUME IInv, [Next]_vars PROVE IInv'
  OBVIOUS
<1>1. CASE Next
  BY <1>1, StartKeeps, ResenderKeeps, MainKeeps, NewTransmissionKeeps, OverrunKeeps,
     HandleConfirmationKeeps, SlotKeeps, LoseKeeps DEF Next
<1>2. CASE UNCHANGED vars
  BY <1>2 DEF vars, clientVars, serverVars, IInv, TypeOK, IdleIsSilent, PacketsAreEarned,
     SlotsAreEarned, OneTransmissionPerHost, OpenSlotIsResent, CompletedWasAccepted,
     OverrunTakesHosts
<1> QED BY <1>1, <1>2

LEMMA Inductive == Spec => []IInv
  BY InitEstablishes, NextKeeps, PTL DEF Spec

(* Threads, list and packets are what the declarations say.                *)
THEOREM TypeCorrect == Spec => []TypeOK
  BY Inductive, PTL DEF IInv

(* An open transmission is resent until it is confirmed, however slots are *)
(* freed and reused under their resenders.                                 *)
THEOREM OpenIsResent == Spec => []OpenSlotIsResent
  BY Inductive, PTL DEF IInv

(* No client completes its handshake without having been accepted.         *)
THEOREM CompletionIsEarned == Spec => []CompletedWasAccepted
  BY Inductive, PTL DEF IInv

(* The server uses an index past its slots only for more hosts than slots. *)
THEOREM OverrunIsByHosts == Spec => []OverrunTakesHosts
  BY Inductive, PTL DEF IInv

(* Only an answered client's confirmation ends a transmission of its host. *)
THEOREM EndsAreConfirmed == Spec => EndIsConfirmed
<1> DEFINE A == \A s \in Slots :
                  slot[s].occupied /\ ~slot'[s].occupied =>
                      \E c \in Clients : ip[c] = ip[slot[s].owner] /\ main[c] \in Handshaken
<1>1. IInv /\ [Next]_vars => [A]_vars
  <2> SUFFICES ASSUME IInv, Next, NEW s \in Slots,
                      slot[s].occupied, ~slot'[s].occupied
               PROVE  \E c \in Clients : ip[c] = ip[slot[s].owner] /\ main[c] \in Handshaken
    OBVIOUS
  <2>1. slot' # slot
    OBVIOUS
  <2>2. \A c \in Clients : ~NewTransmission(c)
    <3> SUFFICES ASSUME NEW c \in Clients, NewTransmission(c) PROVE FALSE
      OBVIOUS
    <3>1. /\ First(FreeSlots) \in Slots /\ ~slot[First(FreeSlots)].occupied
          /\ slot' = [slot EXCEPT ![First(FreeSlots)] = Opened(c)]
      BY FirstFacts DEF NewTransmission, FreeSlots
    <3>2. slot'[s] = slot[s]
      BY <3>1 DEF IInv, TypeOK
    <3> QED BY <3>2
  <2>3. PICK c \in Clients : HandleConfirmation(c)
    BY <2>1, <2>2 DEF Next, Start, ResenderSends, ResenderFails, ResenderWakes, Answered,
       Close, Exit, Overrun, SlotSends, SlotWakes, Lose, serverVars
  <2>4. /\ First(Transmissions(c)) \in Slots
        /\ ip[slot[First(Transmissions(c))].owner] = ip[c]
        /\ slot' = [slot EXCEPT ![First(Transmissions(c))] = Ended(@)]
    BY <2>3, FirstFacts DEF HandleConfirmation, Transmissions
  <2>5. s = First(Transmissions(c))
    BY <2>4 DEF IInv, TypeOK
  <2>6. main[c] \in Handshaken
    BY <2>3 DEF HandleConfirmation, IInv, PacketsAreEarned
  <2> QED BY <2>4, <2>5, <2>6
<1> QED BY <1>1, Inductive, PTL DEF Spec, EndIsConfirmed
=============================================================================

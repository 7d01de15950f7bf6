------------------------- MODULE PacedStreamProofs -------------------------
(***************************************************************************)
(* The theorems about Lab 2.3, for any number of clients, messages and any *)
(* sizes of the buffers: the books of a connection.                        *)
(***************************************************************************)
EXTENDS PacedStream, TLAPS

USE PacedAssumption DEF PacedAssumption

(* Who is served or waits has a connection; a stopped server has none.     *)
Members ==
    \A c \in Clients : c \in serving \cup ToSet(queue) => line[c] \in {"open", "fin", "closed"}

Stopped ==
    /\ server = "stopped" => queue = <<>> /\ serving = {}
    /\ \A c \in Clients : line[c] \in {"half", "reset", "broken"} => server = "stopped"

(* What was copied is what was reported and the part of a message that was *)
(* not yet; after a reset the two drift apart once, and once more.         *)
Account(c) ==
    /\ line[c] \in {"open", "fin", "closed"} => sent[c] = taken[c] + snd[c] + rcv[c]
    /\ line[c] = "closed" => snd[c] = 0 /\ rcv[c] = 0
    /\ line[c] = "none" => /\ sent[c] = 0 /\ taken[c] = 0 /\ snd[c] = 0 /\ rcv[c] = 0
    /\ line[c] \in {"none", "open", "fin", "closed", "half"} =>
           sent[c] = Reported(c) + KB - pending[c]
    /\ line[c] = "reset" => /\ Reported(c) < sent[c] + pending[c]
                            /\ pending[c] < KB => sent[c] = Reported(c) + KB - pending[c]
    /\ line[c] = "broken" => /\ Reported(c) < sent[c] + 2 * KB
                             /\ pending[c] < KB => sent[c] = Reported(c) + KB - pending[c]
    /\ pc[c] \in {"start", "unconnected"} => line[c] = "none"
    /\ pc[c] = "writing" => msg[c] <= Messages
    /\ pc[c] = "done" => msg[c] = Messages + 1 /\ pending[c] = KB

IInv == TypeOK /\ Members /\ Stopped /\ \A c \in Clients : Account(c)

LEMMA OneMore == \A m \in Nat : KB * ((m + 1) - 1) = KB * (m - 1) + KB
    OBVIOUS

LEMMA InitInv == Init => IInv
<1> SUFFICES ASSUME Init PROVE IInv
    OBVIOUS
<1>1. TypeOK
    BY DEF Init, TypeOK
<1>2. Members /\ Stopped
    BY DEF Init, Members, Stopped, ToSet
<1>3. ASSUME NEW c \in Clients PROVE Account(c)
    BY DEF Init, Account, Reported
<1> QED
    BY <1>1, <1>2, <1>3 DEF IInv

LEMMA TypedAt ==
    ASSUME TypeOK, NEW c \in Clients
    PROVE  /\ msg[c] \in Nat /\ msg[c] >= 1 /\ msg[c] <= Messages + 1
           /\ pending[c] \in Nat /\ pending[c] >= 1 /\ pending[c] <= KB
           /\ snd[c] \in Nat /\ snd[c] <= SndBuf
           /\ rcv[c] \in Nat /\ rcv[c] <= RcvDefault
           /\ sent[c] \in Nat /\ taken[c] \in Nat
           /\ Reported(c) \in Int
    BY DEF TypeOK, Reported

LEMMA SequenceSets ==
    ASSUME NEW S, NEW q \in Seq(S), NEW e \in S
    PROVE  /\ Append(q, e) \in Seq(S)
           /\ ToSet(Append(q, e)) = ToSet(q) \cup {e}
           /\ q # <<>> => /\ Head(q) \in S /\ Tail(q) \in Seq(S)
                          /\ Head(q) \in ToSet(q) /\ ToSet(Tail(q)) \subseteq ToSet(q)
<1>1. Append(q, e) \in Seq(S)
    OBVIOUS
<1>2. ToSet(Append(q, e)) = ToSet(q) \cup {e}
  <2> DEFINE a == Append(q, e)
  <2>1. /\ DOMAIN q = 1..Len(q) /\ DOMAIN a = 1..(Len(q) + 1) /\ Len(q) \in Nat
        /\ \A i \in 1..Len(q) : a[i] = q[i]
        /\ a[Len(q) + 1] = e
    OBVIOUS
  <2>2. ASSUME NEW x \in ToSet(a) PROVE x \in ToSet(q) \cup {e}
    <3>1. PICK i \in DOMAIN a : x = a[i]
        BY <2>2 DEF ToSet
    <3> QED
        BY <2>1, <3>1 DEF ToSet
  <2>3. ASSUME NEW x \in ToSet(q) PROVE x \in ToSet(a)
    <3>1. PICK i \in DOMAIN q : x = q[i]
        BY <2>3 DEF ToSet
    <3>2. i \in DOMAIN a /\ x = a[i]
        BY <2>1, <3>1
    <3> QED
        BY <3>2 DEF ToSet
  <2>4. e \in ToSet(a)
    BY <2>1 DEF ToSet
  <2> QED
    BY <2>2, <2>3, <2>4
<1>3. ASSUME q # <<>>
      PROVE  /\ Head(q) \in S /\ Tail(q) \in Seq(S)
             /\ Head(q) \in ToSet(q) /\ ToSet(Tail(q)) \subseteq ToSet(q)
  <2>1. /\ Head(q) = q[1] /\ 1 \in DOMAIN q /\ q[1] \in S /\ Tail(q) \in Seq(S)
        /\ \A i \in DOMAIN Tail(q) : i + 1 \in DOMAIN q /\ Tail(q)[i] = q[i + 1]
    BY <1>3
  <2> QED
    BY <2>1 DEF ToSet
<1> QED
    BY <1>1, <1>2, <1>3

(* A step of one client leaves the books of the others as they are.        *)
Same(c) ==
    /\ pc'[c] = pc[c] /\ msg'[c] = msg[c] /\ pending'[c] = pending[c]
    /\ snd'[c] = snd[c] /\ rcv'[c] = rcv[c] /\ line'[c] = line[c]
    /\ sent'[c] = sent[c] /\ taken'[c] = taken[c]

LEMMA SameAccount ==
    ASSUME NEW c \in Clients, Account(c), Same(c) PROVE Account(c)'
    BY DEF Account, Same, Reported

LEMMA ConnectKeeps ==
    ASSUME IInv, NEW c \in Clients, Connect(c) PROVE IInv'
<1> USE DEF IInv
<1>1. TypeOK'
  <2>1. queue' \in Seq(Clients)
    BY DEF TypeOK, Connect
  <2>2. /\ pc' \in [Clients -> {"start", "writing", "unconnected", "done", "killed"}]
        /\ line' \in [Clients -> {"none", "open", "fin", "closed", "half", "reset", "broken"}]
    BY DEF TypeOK, Connect
  <2>3. UNCHANGED <<msg, pending, snd, rcv, server, serving, sent, taken>>
    BY DEF Connect, history
  <2> QED
    BY <2>1, <2>2, <2>3 DEF TypeOK
<1>2. ToSet(queue') = ToSet(queue) \cup {c}
    BY SequenceSets DEF TypeOK, Connect
<1>3. Members' /\ Stopped'
    BY <1>2 DEF TypeOK, Members, Stopped, Connect, history
<1>4. ASSUME NEW d \in Clients PROVE Account(d)'
  <2>1. CASE d = c
    BY <2>1 DEF TypeOK, Connect, history, Account, Reported
  <2>2. CASE d # c
    BY <2>2, SameAccount DEF TypeOK, Connect, history, Same
  <2> QED
    BY <2>1, <2>2
<1> QED
    BY <1>1, <1>3, <1>4

LEMMA CopyKeeps ==
    ASSUME IInv, NEW c \in Clients, Copy(c) PROVE IInv'
<1> USE DEF IInv
<1>n. msg[c] \in Nat /\ Messages \in Nat /\ (pc[c] = "writing" => msg[c] <= Messages)
    BY TypedAt DEF Account
<1> USE DEF Copy, Room, WriteReturns, serverVars
<1>0. msg[c] <= Messages /\ KB * ((msg[c] + 1) - 1) = KB * (msg[c] - 1) + KB
    BY OneMore, TypedAt DEF Account
<1>1. TypeOK'
  <2>1. snd[c] + 1 \in 0..SndBuf /\ sent[c] + 1 \in Nat
    BY TypedAt
  <2>2. /\ msg[c] + 1 \in 1..(Messages + 1)
        /\ pending[c] # 1 => pending[c] - 1 \in 1..KB
    BY TypedAt, <1>0
  <2>3. CASE WriteReturns(c)
    <3>0. /\ snd' \in [Clients -> 0..SndBuf] /\ sent' \in [Clients -> Nat]
        BY <2>1 DEF TypeOK
    <3>1. /\ msg' \in [Clients -> 1..(Messages + 1)] /\ pending' \in [Clients -> 1..KB]
      <4>1. msg' = [msg EXCEPT ![c] = @ + 1] /\ pending' = [pending EXCEPT ![c] = KB]
        BY <2>3 DEF Report
      <4>2. KB \in 1..KB /\ msg \in [Clients -> 1..(Messages + 1)] /\ pending \in [Clients -> 1..KB]
        BY DEF TypeOK
      <4> QED
        BY <2>2, <4>1, <4>2
    <3>2. /\ pc' \in [Clients -> {"start", "writing", "unconnected", "done", "killed"}]
          /\ line' \in [Clients -> {"none", "open", "fin", "closed", "half", "reset", "broken"}]
        BY <2>3 DEF TypeOK, Report
    <3> QED
        BY <3>0, <3>1, <3>2 DEF TypeOK
  <2>4. CASE ~WriteReturns(c)
    <3>1. snd' \in [Clients -> 0..SndBuf] /\ sent' \in [Clients -> Nat]
        BY <2>1 DEF TypeOK
    <3>2. pending' \in [Clients -> 1..KB]
        BY <2>2, <2>4 DEF TypeOK
    <3>3. UNCHANGED <<pc, msg, line, rcv, taken, server, queue, serving>>
        BY <2>4
    <3> QED
        BY <3>1, <3>2, <3>3 DEF TypeOK
  <2> QED
    BY <2>3, <2>4
<1>2. Members' /\ Stopped'
  <2>1. ASSUME NEW d \in Clients
        PROVE  line'[d] = line[d] \/ (line[d] = "open" /\ line'[d] = "fin")
    BY DEF TypeOK, Report
  <2>2. UNCHANGED <<server, queue, serving>>
    OBVIOUS
  <2> QED
    BY <2>1, <2>2 DEF Members, Stopped
<1>3. ASSUME NEW d \in Clients PROVE Account(d)'
  <2>1. CASE d = c /\ WriteReturns(c)
    <3>1. /\ snd'[c] = snd[c] + 1 /\ sent'[c] = sent[c] + 1 /\ rcv'[c] = rcv[c]
          /\ taken'[c] = taken[c] /\ msg'[c] = msg[c] + 1 /\ pending'[c] = KB
          /\ pending[c] = 1 /\ line[c] \in {"open", "half"}
        BY <2>1 DEF TypeOK, Report
    <3>2. \/ msg[c] < Messages /\ pc'[c] = "writing" /\ line'[c] = line[c]
          \/ /\ msg[c] = Messages /\ pc'[c] = "done"
             /\ line'[c] = (IF line[c] = "open" THEN "fin" ELSE line[c])
      <4>1. pc \in [Clients -> {"start", "writing", "unconnected", "done", "killed"}]
            /\ line \in [Clients -> {"none", "open", "fin", "closed", "half", "reset", "broken"}]
        BY DEF TypeOK
      <4>2. msg[c] < Messages \/ msg[c] = Messages
        BY <1>n
      <4> QED
        BY <2>1, <1>0, <4>1, <4>2, TypedAt DEF Report
    <3>3. Reported(c)' = Reported(c) + KB
        BY <1>0, <3>1 DEF Reported
    <3> QED
        BY <2>1, <3>1, <3>2, <3>3, TypedAt DEF Account
  <2>2. CASE d = c /\ ~WriteReturns(c)
    <3>1. /\ snd'[c] = snd[c] + 1 /\ sent'[c] = sent[c] + 1 /\ rcv'[c] = rcv[c]
          /\ taken'[c] = taken[c] /\ msg'[c] = msg[c] /\ pending'[c] = pending[c] - 1
          /\ pc'[c] = "writing" /\ line'[c] = line[c] /\ line[c] \in {"open", "half"}
        BY <2>2 DEF TypeOK
    <3>2. Reported(c)' = Reported(c)
        BY <3>1 DEF Reported
    <3>3. /\ pending[c] \in Nat /\ sent[c] \in Nat /\ taken[c] \in Nat
          /\ snd[c] \in Nat /\ rcv[c] \in Nat /\ Reported(c) \in Int
        BY <1>n, TypedAt DEF Reported
    <3>4. Account(c)
        OBVIOUS
    <3>5. msg[c] <= Messages
        BY <3>4, <1>n DEF Account
    <3> QED
      <4> HIDE DEF IInv, Copy, WriteReturns
      <4> QED
        BY <2>2, <3>1, <3>2, <3>3, <3>4, <3>5 DEF Account
  <2>3. CASE d # c
    BY <2>3, SameAccount DEF TypeOK, Same, Report
  <2> QED
    BY <2>1, <2>2, <2>3
<1> QED
    BY <1>1, <1>2, <1>3

LEMMA WriteFailsKeeps ==
    ASSUME IInv, NEW c \in Clients, WriteFails(c) PROVE IInv'
<1> USE DEF IInv
<1> USE DEF WriteFails, Report, serverVars, history
<1>0. msg[c] <= Messages /\ KB * ((msg[c] + 1) - 1) = KB * (msg[c] - 1) + KB
    BY OneMore, TypedAt DEF Account
<1>1. TypeOK'
  <2>1. msg[c] + 1 \in 1..(Messages + 1)
    BY TypedAt, <1>0
  <2>2. msg' \in [Clients -> 1..(Messages + 1)] /\ pending' \in [Clients -> 1..KB]
    BY <2>1 DEF TypeOK
  <2>3. /\ pc' \in [Clients -> {"start", "writing", "unconnected", "done", "killed"}]
        /\ line' \in [Clients -> {"none", "open", "fin", "closed", "half", "reset", "broken"}]
    BY DEF TypeOK
  <2> QED
    BY <2>2, <2>3 DEF TypeOK
<1>2. Members' /\ Stopped'
    BY DEF TypeOK, Members, Stopped
<1>3. ASSUME NEW d \in Clients PROVE Account(d)'
  <2>2. CASE d = c
    <3>1. /\ snd'[c] = snd[c] /\ sent'[c] = sent[c] /\ rcv'[c] = rcv[c]
          /\ taken'[c] = taken[c] /\ msg'[c] = msg[c] + 1 /\ pending'[c] = KB
          /\ line'[c] = (IF pending[c] < KB THEN line[c] ELSE "broken")
          /\ line[c] = "reset" \/ (line[c] = "broken" /\ pending[c] < KB)
        BY DEF TypeOK
    <3>2. \/ msg[c] < Messages /\ pc'[c] = "writing"
          \/ msg[c] = Messages /\ pc'[c] = "done"
      <4>1. pc \in [Clients -> {"start", "writing", "unconnected", "done", "killed"}]
        BY DEF TypeOK
      <4>2. msg[c] < Messages \/ msg[c] = Messages
        BY <1>0, TypedAt
      <4> QED
        BY <1>0, <4>1, <4>2, TypedAt
    <3>3. Reported(c)' = Reported(c) + KB
        BY <1>0, <3>1 DEF Reported
    <3>4. CASE pending[c] < KB
        BY <2>2, <3>1, <3>2, <3>3, <3>4, TypedAt DEF Account
    <3>5. CASE pending[c] >= KB
        BY <2>2, <3>1, <3>2, <3>3, <3>5, TypedAt DEF Account
    <3> QED
        BY <3>4, <3>5, TypedAt
  <2>1. CASE d # c
    BY <2>1, SameAccount DEF TypeOK, Same
  <2> QED
    BY <2>1, <2>2
<1> QED
    BY <1>1, <1>2, <1>3

(* The steps that change no more than where a client's main is.            *)
LEMMA MainMovesKeeps ==
    ASSUME IInv, NEW c \in Clients,
           ConnectFails(c) \/ WriteOnBrokenPipe(c) \/ Interrupt(c)
    PROVE  IInv'
<1> USE DEF IInv
<1> USE DEF ConnectFails, WriteOnBrokenPipe, PipeKills, Interrupt, serverVars, history
<1>1. TypeOK'
  <2>1. /\ pc' \in [Clients -> {"start", "writing", "unconnected", "done", "killed"}]
        /\ line' \in [Clients -> {"none", "open", "fin", "closed", "half", "reset", "broken"}]
    BY DEF TypeOK
  <2>2. UNCHANGED <<msg, pending, snd, rcv, server, queue, serving, sent, taken>>
    OBVIOUS
  <2> QED
    BY <2>1, <2>2 DEF TypeOK
<1>2. Members' /\ Stopped'
    BY DEF TypeOK, Members, Stopped
<1>3. ASSUME NEW d \in Clients PROVE Account(d)'
  <2>1. CASE d = c
    <3>1. /\ msg' = msg /\ pending' = pending /\ snd' = snd /\ rcv' = rcv
          /\ sent' = sent /\ taken' = taken /\ Reported(c)' = Reported(c)
        BY DEF Reported
    <3>2. line'[c] = line[c] \/ (line[c] = "open" /\ line'[c] = "fin")
        BY DEF TypeOK
    <3>3. /\ pc'[c] \in {"killed", "unconnected"}
          /\ pc'[c] = "unconnected" => line[c] = "none" /\ line'[c] = line[c]
        BY DEF TypeOK, Account
    <3>4. Account(c)
        OBVIOUS
    <3> QED
        BY <2>1, <3>1, <3>2, <3>3, <3>4 DEF Account
  <2>2. CASE d # c
    BY <2>2, SameAccount DEF TypeOK, Same
  <2> QED
    BY <2>1, <2>2
<1> QED
    BY <1>1, <1>2, <1>3

LEMMA DeliverKeeps ==
    ASSUME IInv, NEW c \in Clients, Deliver(c) PROVE IInv'
<1> USE DEF IInv
<1> USE DEF Deliver, Capacity, clientVars, serverVars, history
<1>1. TypeOK'
  <2>1. snd[c] - 1 \in 0..SndBuf /\ rcv[c] + 1 \in 0..RcvDefault
    BY TypedAt
  <2> QED
    BY <2>1 DEF TypeOK
<1>2. Members' /\ Stopped'
    BY DEF TypeOK, Members, Stopped
<1>3. ASSUME NEW d \in Clients PROVE Account(d)'
  <2>1. CASE d = c
    <3>1. /\ snd'[c] = snd[c] - 1 /\ rcv'[c] = rcv[c] + 1 /\ Reported(c)' = Reported(c)
        BY DEF TypeOK, Reported
    <3> QED
        BY <2>1, <3>1, TypedAt DEF Account
  <2>2. CASE d # c
    BY <2>2, SameAccount DEF TypeOK, Same
  <2> QED
    BY <2>1, <2>2
<1> QED
    BY <1>1, <1>2, <1>3

LEMMA RefuseKeeps ==
    ASSUME IInv, NEW c \in Clients, Refuse(c) PROVE IInv'
<1> USE DEF IInv
<1> USE DEF Refuse, clientVars, serverVars, history
<1>1. TypeOK'
  <2>1. snd' \in [Clients -> 0..SndBuf]
    BY DEF TypeOK
  <2>2. line' \in [Clients -> {"none", "open", "fin", "closed", "half", "reset", "broken"}]
    BY DEF TypeOK
  <2>3. UNCHANGED <<pc, msg, pending, rcv, server, queue, serving, sent, taken>>
    OBVIOUS
  <2> QED
    BY <2>1, <2>2, <2>3 DEF TypeOK
<1>2. Members' /\ Stopped'
    BY DEF TypeOK, Members, Stopped
<1>3. ASSUME NEW d \in Clients PROVE Account(d)'
  <2>1. CASE d = c
    <3>1. /\ line'[c] = "broken" /\ Reported(c)' = Reported(c)
          /\ pending'[c] = pending[c] /\ sent'[c] = sent[c] /\ pc'[c] = pc[c]
          /\ msg'[c] = msg[c]
        BY DEF TypeOK, Reported
    <3>2. sent[c] = Reported(c) + KB - pending[c]
        BY DEF Account
    <3>3. Reported(c) < sent[c] + 2 * KB
        BY <3>2, TypedAt
    <3> QED
        BY <2>1, <3>1, <3>2, <3>3 DEF Account
  <2>2. CASE d # c
    BY <2>2, SameAccount DEF TypeOK, Same
  <2> QED
    BY <2>1, <2>2
<1> QED
    BY <1>1, <1>2, <1>3

LEMMA AcceptKeeps ==
    ASSUME IInv, Accept PROVE IInv'
<1> USE DEF IInv
<1> USE DEF Accept, clientVars, history
<1>1. TypeOK'
  <2>1. Head(queue) \in Clients /\ Tail(queue) \in Seq(Clients)
    BY SequenceSets DEF TypeOK
  <2> QED
    BY <2>1 DEF TypeOK
<1>2. serving' \cup ToSet(queue') \subseteq serving \cup ToSet(queue)
    BY SequenceSets, SMTT(20) DEF TypeOK
<1>3. Members' /\ Stopped'
    BY <1>2 DEF Members, Stopped
<1>4. ASSUME NEW d \in Clients PROVE Account(d)'
    BY SameAccount DEF Same
<1> QED
    BY <1>1, <1>3, <1>4

LEMMA ReadKeeps ==
    ASSUME IInv, NEW c \in Clients, Read(c) PROVE IInv'
<1> USE DEF IInv
<1> USE DEF Read, clientVars
<1> DEFINE n == IF rcv[c] < KB THEN rcv[c] ELSE KB
<1>0. n \in Nat /\ n <= rcv[c]
    BY TypedAt
<1>1. TypeOK'
  <2>1. rcv[c] - n \in 0..RcvDefault /\ taken[c] + n \in Nat
    BY <1>0, TypedAt
  <2> HIDE DEF n
  <2>2. rcv' = [rcv EXCEPT ![c] = @ - n] /\ taken' = [taken EXCEPT ![c] = @ + n]
    BY DEF n
  <2>3. rcv' \in [Clients -> 0..RcvDefault] /\ taken' \in [Clients -> Nat]
    BY <2>1, <2>2 DEF TypeOK
  <2> QED
    BY <2>3 DEF TypeOK
<1>2. Members' /\ Stopped'
    BY DEF TypeOK, Members, Stopped
<1>3. ASSUME NEW d \in Clients PROVE Account(d)'
  <2>1. CASE d = c
    <3>1. /\ rcv'[c] = rcv[c] - n /\ taken'[c] = taken[c] + n /\ Reported(c)' = Reported(c)
        BY DEF TypeOK, Reported
    <3>2. line[c] # "closed" /\ line[c] # "none"
        BY TypedAt DEF Account, Members
    <3> HIDE DEF n
    <3> QED
        BY <2>1, <1>0, <3>1, <3>2, TypedAt DEF Account
  <2>2. CASE d # c
    BY <2>2, SameAccount DEF TypeOK, Same
  <2> QED
    BY <2>1, <2>2
<1> QED
    BY <1>1, <1>2, <1>3

LEMMA WakeKeeps ==
    ASSUME IInv, Wake PROVE IInv'
<1> USE DEF IInv
<1> USE DEF Wake, clientVars, history
<1>1. TypeOK' /\ Members' /\ Stopped'
    BY DEF TypeOK, Members, Stopped
<1>2. ASSUME NEW d \in Clients PROVE Account(d)'
    BY SameAccount DEF Same
<1> QED
    BY <1>1, <1>2

LEMMA CloseKeeps ==
    ASSUME IInv, NEW c \in Clients, Close(c) PROVE IInv'
<1> USE DEF IInv
<1> USE DEF Close, EndOfData, clientVars, history
<1>1. TypeOK'
    BY DEF TypeOK
<1>2. Members' /\ Stopped'
    BY DEF TypeOK, Members, Stopped
<1>3. ASSUME NEW d \in Clients PROVE Account(d)'
  <2>1. CASE d = c
    BY <2>1 DEF TypeOK, Account, Reported
  <2>2. CASE d # c
    BY <2>2, SameAccount DEF TypeOK, Same
  <2> QED
    BY <2>1, <2>2
<1> QED
    BY <1>1, <1>2, <1>3

LEMMA StopKeeps ==
    ASSUME IInv, Stop PROVE IInv'
<1> USE DEF IInv
<1> USE DEF Stop, clientVars, history
<1>1. TypeOK'
    BY DEF TypeOK
<1>2. ToSet(queue') = {}
    BY DEF ToSet
<1>3. Members' /\ Stopped'
    BY <1>2 DEF TypeOK, Members, Stopped
<1>4. ASSUME NEW d \in Clients PROVE Account(d)'
  <2>1. CASE d \in serving \cup ToSet(queue)
    <3>1. line[d] \in {"open", "fin", "closed"} /\ line'[d] \in {"half", "reset"}
        BY <2>1 DEF Members, TypeOK
    <3>2. pending[d] \in 1..KB /\ sent[d] \in Nat /\ msg[d] \in Nat
        BY DEF TypeOK
    <3>3. sent[d] = Reported(d) + KB - pending[d]
        BY <3>1 DEF Account
    <3>4. Reported(d)' = Reported(d) /\ pending'[d] = pending[d] /\ sent'[d] = sent[d]
        BY DEF Reported
    <3>5. Reported(d) \in Int
        BY <3>2 DEF Reported
    <3>6. Reported(d)' < sent'[d] + pending'[d]
        BY <3>2, <3>3, <3>4, <3>5
    <3> QED
        BY <3>1, <3>3, <3>4, <3>6 DEF Account
  <2>2. CASE d \notin serving \cup ToSet(queue)
    BY <2>2, SameAccount DEF TypeOK, Same
  <2> QED
    BY <2>1, <2>2
<1> QED
    BY <1>1, <1>3, <1>4

LEMMA NextInv == IInv /\ [Next]_vars => IInv'
<1> SUFFICES ASSUME IInv, [Next]_vars PROVE IInv'
    OBVIOUS
<1>1. ASSUME NEW c \in Clients, Runs(c) \/ Interrupt(c) \/ Deliver(c) \/ Refuse(c) PROVE IInv'
    BY <1>1, ConnectKeeps, CopyKeeps, WriteFailsKeeps, MainMovesKeeps, DeliverKeeps, RefuseKeeps
       DEF Runs
<1>2. CASE Serves
    BY <1>2, AcceptKeeps, WakeKeeps, ReadKeeps, CloseKeeps DEF Serves, IInv, TypeOK
<1>3. CASE Stop
    BY <1>3, StopKeeps
<1>4. CASE UNCHANGED vars
  <2>1. TypeOK' /\ Members' /\ Stopped'
    BY <1>4 DEF vars, IInv, TypeOK, Members, Stopped
  <2>2. ASSUME NEW c \in Clients PROVE Account(c)'
    BY <1>4, SameAccount DEF vars, IInv, Same
  <2> QED
    BY <2>1, <2>2 DEF IInv
<1> QED
    BY <1>1, <1>2, <1>3, <1>4 DEF Next

LEMMA AlwaysIInv == Spec => []IInv
    BY InitInv, NextInv, PTL DEF Spec

(* The buffers of every connection stay within their sizes, and a message  *)
(* counter within the messages: for any sizes.                             *)
THEOREM TypeCorrect == Spec => []TypeOK
<1>1. IInv => TypeOK
    BY DEF IInv
<1> QED
    BY <1>1, AlwaysIInv, PTL

(* client.c: while its connection lasts a client is ahead of the server's  *)
(* reads by no more than the two buffers.                                  *)
THEOREM ReportsFollowReads == Spec => []AheadByTheBuffers
<1>1. IInv => AheadByTheBuffers
  <2> SUFFICES ASSUME IInv, NEW c \in Clients, line[c] \in {"open", "fin", "closed"}
               PROVE  Reported(c) <= taken[c] + SndBuf + RcvDefault
    BY DEF AheadByTheBuffers
  <2>1. /\ pending[c] \in 1..KB /\ snd[c] \in 0..SndBuf /\ rcv[c] \in 0..RcvDefault
        /\ taken[c] \in Nat /\ sent[c] \in Nat /\ msg[c] \in Nat
    BY DEF IInv, TypeOK
  <2>2. Reported(c) \in Int
    BY <2>1 DEF Reported
  <2>3. sent[c] = Reported(c) + KB - pending[c] /\ sent[c] = taken[c] + snd[c] + rcv[c]
    BY DEF IInv, Account
  <2> QED
    BY <2>1, <2>2, <2>3
<1> QED
    BY <1>1, AlwaysIInv, PTL

(* client.c: the writes that failed and were reported all the same are     *)
(* less than two messages.                                                 *)
THEOREM FalseReportsAreFew == Spec => []FewFalseReports
<1>1. IInv => FewFalseReports
  <2> SUFFICES ASSUME IInv, NEW c \in Clients PROVE Reported(c) < sent[c] + 2 * KB
    BY DEF FewFalseReports
  <2>1. pending[c] \in 1..KB /\ sent[c] \in Nat /\ msg[c] \in Nat
    BY DEF IInv, TypeOK
  <2>2. Reported(c) \in Int
    BY <2>1 DEF Reported
  <2>3. line[c] \in {"none", "open", "fin", "closed", "half"} => sent[c] = Reported(c) + KB - pending[c]
    BY DEF IInv, Account
  <2>4. line[c] = "reset" => Reported(c) < sent[c] + pending[c]
    BY DEF IInv, Account
  <2>5. line[c] = "broken" => Reported(c) < sent[c] + 2 * KB
    BY DEF IInv, Account
  <2>6. line[c] \in {"none", "open", "fin", "closed", "half", "reset", "broken"}
    BY DEF IInv, TypeOK
  <2> QED
    BY <2>1, <2>2, <2>3, <2>4, <2>5, <2>6
<1> QED
    BY <1>1, AlwaysIInv, PTL

(* server.c: what is closed was read to its end.                           *)
THEOREM ClosedWasReadOut == Spec => []ClosedAfterAll
<1>1. IInv => ClosedAfterAll
  <2> SUFFICES ASSUME IInv, NEW c \in Clients, line[c] = "closed"
               PROVE  /\ taken[c] = sent[c]
                      /\ pc[c] = "done" => taken[c] = KB * Messages
    BY DEF ClosedAfterAll
  <2>1. sent[c] \in Nat /\ taken[c] \in Nat
    BY DEF IInv, TypeOK
  <2>2. sent[c] = taken[c] + snd[c] + rcv[c] /\ snd[c] = 0 /\ rcv[c] = 0
    BY DEF IInv, Account
  <2>3. taken[c] = sent[c]
    BY <2>1, <2>2
  <2>4. ASSUME pc[c] = "done" PROVE sent[c] = KB * Messages
    BY <2>4 DEF IInv, Account, Reported
  <2> QED
    BY <2>3, <2>4
<1> QED
    BY <1>1, AlwaysIInv, PTL
=============================================================================

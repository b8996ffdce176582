--------------------------- MODULE MqttLink_proofs ---------------------------
(***************************************************************************)
(* Proofs about MqttLink, for any pool of netconns and any number of       *)
(* publications, messages and faults.                                      *)
(***************************************************************************)
EXTENDS MqttLink, TLAPS

(***************************************************************************)
(* The inductive invariant.                                                *)
(***************************************************************************)
\* Where the packets of a type are.
OfType(s, t) == {i \in DOMAIN s : s[i].t = t}

Places == {"top", "delay", "delete", "disconnect", "open", "connect", "connack", "drop",
           "subscribe", "suback", "check", "yield", "pause"}

\* The type invariant, in the parts it is proved in.
ReaderType == rd \in [Threads -> [at : {"no", "enter", "blocked", "rest", "done"},
                                  got : Packets]]
SeqType == up \in Seq(Packets) /\ rx \in Seq(Packets)
NetType == /\ net \in [conn : {"none", "up", "closing", "down"}, whose : Threads \cup {"none"},
                       left : 0..Rest, torn : BOOLEAN]
           /\ opened \in 0..Pool
           /\ net.conn # "none" => opened > 0
ControlType ==
    /\ isconnected \in BOOLEAN /\ mutex \in Threads \cup {"none"}
    /\ sub \in [pc : Places, again : BOOLEAN]
    /\ pub \in {"sleep", "publish", "puback"}
CountType == /\ sent \in 0..MaxPub /\ acked \subseteq 1..MaxPub
             /\ cmds \in 0..MaxCmd /\ faults \in 0..MaxFault
             /\ broker \in [session : BOOLEAN, stored : SUBSET (1..MaxPub)]
             /\ pub = "publish" => sent < MaxPub
             /\ pub = "puback" => sent > 0

TypeInv == ReaderType /\ SeqType /\ NetType /\ ControlType /\ CountType

\* The lock is held by the thread that waits for an acknowledgement, and a thread
\* reads when it waits for one or yields.
LockInv ==
    /\ mutex = "pub" <=> pub = "puback"
    /\ mutex = "sub" <=> sub.pc \in {"connack", "suback"}
    /\ rd["pub"].at = "no" <=> pub # "puback"
    /\ rd["sub"].at = "no" <=> sub.pc \notin {"connack", "suback", "yield"}

\* A packet that tells the session is there is on its way, or read by the subscriber.
Connack == \/ OfType(rx, "CONNACK") # {}
           \/ /\ sub.pc = "connack" /\ rd["sub"].at \in {"rest", "done"}
              /\ rd["sub"].got.t = "CONNACK"

\* While the subscriber connects, nobody tears what it reads: the publisher finds no
\* packet before CONNECT is sent, and no lock after it.
SessionInv ==
    /\ isconnected \/ Connack => broker.session /\ net.conn # "none"
    /\ sub.pc \in {"connect", "connack", "delete", "drop"} =>
         ~isconnected /\ net.conn # "none"
    /\ net.conn = "closing" => sub.pc \in {"delete", "drop"}
    /\ sub.pc = "connect" => /\ rx = <<>> /\ net.left = 0 /\ ~broker.session
                             /\ OfType(up, "PUBACK") = DOMAIN up
    /\ sub.pc = "connack" /\ rd["sub"].at # "rest" => net.left = 0
    /\ sub.pc = "connack" /\ rd["sub"].at = "rest" => net.whose = "sub" /\ net.left = Rest

\* Publications and their acknowledgements on the way.
Pubs == OfType(up, "PUBLISH")
Acks == OfType(rx, "PUBACK")
NothingOnTheWay == Pubs = {} /\ Acks = {}

\* A thread has read an acknowledgement, at least its header.
HasAck(th) == rd[th].at \in {"rest", "done"} /\ rd[th].got.t = "PUBACK"

\* What is known of the numbers, torn or not.
NumberInv ==
    /\ \A i \in Pubs : up[i].n # 0
    /\ \A i \in Acks : rx[i].n # 0
    /\ HasAck("pub") /\ rd["pub"].got.n # 0 => sent \in broker.stored
    /\ sub.pc \in {"connect", "connack"} => NothingOnTheWay
    /\ acked \subseteq broker.stored

\* One publication at a time is on the way, or its acknowledgement, or the publisher
\* has read it: none is left when the publication succeeds.
OneInv ==
    ~net.torn =>
      /\ \A i, j \in Pubs : i = j
      /\ \A i, j \in Acks : i = j
      /\ Pubs = {} \/ Acks = {}
      /\ \A i \in Pubs : up[i].n = sent
      /\ Acks # {} => sent \in broker.stored
      /\ isconnected /\ pub # "puback" => NothingOnTheWay
      /\ isconnected /\ HasAck("pub") => NothingOnTheWay /\ rd["pub"].got.n # 0

LinkInv == TypeInv /\ LockInv /\ SessionInv /\ NumberInv /\ OneInv

-----------------------------------------------------------------------------
(***************************************************************************)
(* Packets and the sequences they travel in.                               *)
(***************************************************************************)
LEMMA PacketTypes ==
    /\ \A t \in FromBroker \cup ToBroker : Packet(t, 0) \in Packets
    /\ \A n \in 0..MaxPub :
         Packet("PUBLISH", n) \in Packets /\ Packet("PUBACK", n) \in Packets
    /\ Garbage \subseteq Packets /\ TimedOut \in Packets /\ Failed \in Packets
    /\ Unknown \in Packets
<1>1. MaxPub \in Nat
  BY LinkAssumption
<1>2. \A t \in FromBroker \cup ToBroker \cup {"timeout", "failed", "unknown"} :
          Packet(t, 0) \in Packets
  BY <1>1 DEF Packet, Packets
<1>3. \A n \in 0..MaxPub :
         Packet("PUBLISH", n) \in Packets /\ Packet("PUBACK", n) \in Packets
  BY <1>1 DEF Packet, Packets, FromBroker, ToBroker
<1>4. TimedOut \in Packets /\ Failed \in Packets /\ Unknown \in Packets
  BY <1>2 DEF TimedOut, Failed, Unknown
<1>5. Garbage \subseteq Packets
  BY <1>2, <1>4 DEF Garbage, Headers
<1>6. QED
  BY <1>2, <1>3, <1>4, <1>5

LEMMA EmptyPackets == <<>> \in Seq(Packets) /\ \A t : OfType(<<>>, t) = {}
BY DEF OfType

\* A packet that is sent comes last, the ones before it stay.
LEMMA AppendPackets ==
    ASSUME NEW s \in Seq(Packets), NEW p \in Packets, NEW t
    PROVE  /\ Append(s, p) \in Seq(Packets)
           /\ \A i \in OfType(s, t) : i \in OfType(Append(s, p), t) /\ Append(s, p)[i] = s[i]
           /\ \A i \in OfType(Append(s, p), t) :
                 \/ i \in OfType(s, t) /\ Append(s, p)[i] = s[i]
                 \/ p.t = t /\ i = Len(s) + 1 /\ Append(s, p)[i] = p
           /\ p.t # t => OfType(Append(s, p), t) = OfType(s, t)
<1>1. Append(s, p) \in Seq(Packets) /\ Len(s) \in Nat
  OBVIOUS
<1>2. DOMAIN s = 1..Len(s) /\ DOMAIN Append(s, p) = 1..Len(s) + 1
  OBVIOUS
<1>3. \A i \in DOMAIN s : i \in DOMAIN Append(s, p) /\ Append(s, p)[i] = s[i]
  BY <1>1, <1>2
<1>4. \A i \in DOMAIN Append(s, p) :
        i \in DOMAIN s \/ (i = Len(s) + 1 /\ Append(s, p)[i] = p)
  BY <1>1, <1>2
<1>5. QED
  BY <1>1, <1>3, <1>4 DEF OfType

\* A packet that is taken was the first, the others move up.
LEMMA TailPackets ==
    ASSUME NEW s \in Seq(Packets), s # <<>>, NEW t
    PROVE  /\ Tail(s) \in Seq(Packets) /\ Head(s) \in Packets
           /\ \A i \in OfType(Tail(s), t) : /\ i + 1 \in OfType(s, t) /\ i + 1 # 1
                                            /\ Tail(s)[i] = s[i + 1]
           /\ Head(s) = s[1] /\ (Head(s).t = t => 1 \in OfType(s, t))
           /\ OfType(Tail(s), t) \subseteq Nat /\ OfType(s, t) \subseteq Nat
<1>1. Len(s) \in Nat /\ Len(s) # 0 /\ DOMAIN s = 1..Len(s)
  OBVIOUS
<1>2. /\ Tail(s) \in Seq(Packets) /\ Head(s) \in Packets /\ Head(s) = s[1]
      /\ Len(Tail(s)) = Len(s) - 1 /\ DOMAIN Tail(s) = 1..Len(s) - 1
  BY <1>1
<1>3. \A i \in DOMAIN Tail(s) :
         i \in Nat /\ i + 1 \in DOMAIN s /\ i + 1 # 1 /\ Tail(s)[i] = s[i + 1]
  BY <1>1, <1>2
<1>4. 1 \in DOMAIN s /\ DOMAIN s \subseteq Nat
  BY <1>1
<1>5. QED
  BY <1>2, <1>3, <1>4 DEF OfType

-----------------------------------------------------------------------------
(***************************************************************************)
(* Types.                                                                  *)
(***************************************************************************)
LEMMA StepReader == LinkInv /\ [Next]_vars => ReaderType'
<1> SUFFICES ASSUME LinkInv, [Next]_vars PROVE ReaderType'
  OBVIOUS
<1> USE DEF ReaderType, Threads, Reader, ReadNext, StopReading, Entering, NotReading
<1>t. ReaderType /\ (rx # <<>> => Head(rx) \in Packets /\ Packet(Head(rx).t, 0) \in Packets)
  <2>1. rx # <<>> => Head(rx) \in Packets
    BY TailPackets DEF LinkInv, TypeInv, SeqType
  <2>2. \A p \in Packets : Packet(p.t, 0) \in Packets
    BY LinkAssumption DEF Packet, Packets
  <2>3. QED
    BY <2>1, <2>2 DEF LinkInv, TypeInv
<1>g. TimedOut \in Packets /\ Failed \in Packets /\ Garbage \subseteq Packets
  BY PacketTypes
<1>1. ASSUME NEW th \in Threads, Block(th) PROVE ReaderType'
  BY <1>1, <1>t, <1>g DEF Block, Reader
<1>2. ASSUME NEW th \in Threads, ReadHeader(th) PROVE ReaderType'
  <2>1. PICK back \in ReadBack(th, {Packet(Head(rx).t, 0)}) :
          Receive(th, "rest", IF net.torn THEN Packet(Head(rx).t, 0) ELSE Head(rx), back)
    BY <1>2 DEF ReadHeader
  <2>2. rx # <<>> /\ Other(th) \in Threads
    BY <1>2 DEF ReadHeader, Other
  <2>3. back \in Packets
    BY <2>2, <1>t DEF ReadBack
  <2>4. QED
    BY <2>1, <2>2, <2>3, <1>t DEF Receive
<1>3. ASSUME NEW th \in Threads, ReadRest(th) PROVE ReaderType'
  BY <1>3, <1>t, <1>g DEF ReadRest, Reader
<1>4. ASSUME NEW th \in Threads, ReadTorn(th) PROVE ReaderType'
  <2>1. PICK r \in Garbage : \E back \in ReadBack(th, Stored(th, r)) :
          Receive(th, "done", r, back)
    BY <1>4 DEF ReadTorn
  <2>2. Other(th) \in Threads /\ Stored(th, r) \subseteq Packets
    BY <1>g DEF Other, Garbage, Stored
  <2>3. ReadBack(th, Stored(th, r)) \subseteq Packets /\ r \in Packets
    BY <2>2, <1>t, <1>g DEF ReadBack
  <2>4. QED
    BY <2>1, <2>2, <2>3, <1>t DEF Receive
<1>5. ASSUME NEW th \in Threads, ReadTimeout(th) PROVE ReaderType'
  BY <1>5, <1>t, <1>g DEF ReadTimeout, Reader, CanFault
<1>6. ASSUME NEW th \in Threads, ReadError(th) PROVE ReaderType'
  BY <1>6, <1>t, <1>g DEF ReadError, Reader
<1>7. CASE SubTop
  BY <1>7, <1>t, <1>g DEF SubTop, SubTo
<1>8. CASE SubClose
  BY <1>8, <1>t, <1>g DEF SubClose, SubTo, DisconnectNetwork
<1>9. CASE MQTTDisconnect
  BY <1>9, <1>t, <1>g DEF MQTTDisconnect
<1>10. CASE ConnectNetwork
  BY <1>10, <1>t, <1>g DEF ConnectNetwork, SubTo, Returns, CanFault
<1>11. CASE MQTTConnect
  BY <1>11, <1>t, <1>g DEF MQTTConnect, SubTo, ReadNext, DisconnectNetwork, Returns,
     Entering, Writable
<1>12. CASE ConnectAnswer
  BY <1>12, <1>t, <1>g DEF ConnectAnswer, SubTo, Returns, StopReading, ReadNext,
     Answer, StayConnected, DisconnectNetwork, NotReading, Entering
<1>13. CASE MQTTSubscribe
  BY <1>13, <1>t, <1>g DEF MQTTSubscribe, SubTo, ReadNext, Returns, Entering, Writable
<1>14. CASE SubscribeAnswer
  BY <1>14, <1>t, <1>g DEF SubscribeAnswer, SubTo, Returns, StopReading, ReadNext,
     Answer, StayConnected, NotReading, Entering
<1>15. CASE SubCheck
  BY <1>15, <1>t, <1>g DEF SubCheck, SubTo, ReadNext, Entering
<1>16. CASE MQTTYield
  BY <1>16, <1>t, <1>g DEF MQTTYield, SubTo, StopReading, ReadNext, Answer,
     StayConnected, NotReading, Entering
<1>17. CASE SubPause
  BY <1>17, <1>t, <1>g DEF SubPause, SubTo
<1>18. CASE PubWake
  BY <1>18, <1>t, <1>g DEF PubWake
<1>19. CASE MQTTPublish
  BY <1>19, <1>t, <1>g DEF MQTTPublish, ReadNext, Entering, Writable
<1>20. CASE PublishAnswer
  BY <1>20, <1>t, <1>g DEF PublishAnswer, StopReading, ReadNext, Answer,
     StayConnected, NotReading, Entering
<1>21. CASE BrokerStep
  BY <1>21, <1>t, <1>g DEF BrokerStep
<1>22. CASE BrokerPublish
  BY <1>22, <1>t, <1>g DEF BrokerPublish
<1>23. CASE BrokerFault
  BY <1>23, <1>t, <1>g DEF BrokerFault, CanFault
<1>24. CASE Cut
  BY <1>24, <1>t, <1>g DEF Cut, CanFault
<1>25. CASE PubIdle \/ UNCHANGED vars
  BY <1>25, <1>t, <1>g DEF PubIdle, vars
<1>26. CASE SubDelete
  BY <1>26, <1>t, <1>g DEF SubDelete, SubTo, Returns
<1>27. ASSUME NEW th \in Threads, ReadNoRest(th) PROVE ReaderType'
  BY <1>27, <1>t, <1>g DEF ReadNoRest, Reader
<1>28. QED
  BY <1>1, <1>2, <1>3, <1>4, <1>5, <1>6, <1>7, <1>8, <1>9, <1>10, <1>11, <1>12, <1>13,
     <1>14, <1>15, <1>16, <1>17, <1>18, <1>19, <1>20, <1>21, <1>22, <1>23, <1>24,
     <1>25, <1>26, <1>27 DEF Next, SubStep, PubStep, ReadStep, Threads

LEMMA StepSeq == LinkInv /\ [Next]_vars => SeqType'
<1> SUFFICES ASSUME LinkInv, [Next]_vars PROVE SeqType'
  OBVIOUS
<1> USE DEF SeqType, FromBroker, ToBroker, Threads, link
<1>t. SeqType
  BY DEF LinkInv, TypeInv
<1>a. \A p \in Packets : Append(up, p) \in Seq(Packets) /\ Append(rx, p) \in Seq(Packets)
  BY <1>t, AppendPackets DEF SeqType
<1>b. /\ up # <<>> => Tail(up) \in Seq(Packets) /\ Head(up) \in Packets
      /\ rx # <<>> => Tail(rx) \in Seq(Packets)
  BY <1>t, TailPackets DEF SeqType
<1>c. <<>> \in Seq(Packets)
  OBVIOUS
<1>d. \A t \in FromBroker \cup ToBroker : Packet(t, 0) \in Packets
  BY PacketTypes
<1>e. \A th \in Threads, late \in BOOLEAN : Answer(th, late) => up' \in Seq(Packets)
  <2>1. Packet("PUBACK", 0) \in Packets
    BY <1>d DEF ToBroker
  <2>2. QED
    BY <2>1, <1>a, <1>t DEF Answer, Acknowledges, SeqType
<1>1. ASSUME NEW th \in Threads, Block(th) PROVE SeqType'
  BY <1>1, <1>t, <1>a, <1>b, <1>c, <1>d, <1>e DEF Block, Reader
<1>2. ASSUME NEW th \in Threads, ReadHeader(th) PROVE SeqType'
  BY <1>2, <1>t, <1>a, <1>b, <1>c, <1>d, <1>e DEF ReadHeader, Receive
<1>3. ASSUME NEW th \in Threads, ReadRest(th) PROVE SeqType'
  BY <1>3, <1>t, <1>a, <1>b, <1>c, <1>d, <1>e DEF ReadRest, Reader
<1>4. ASSUME NEW th \in Threads, ReadTorn(th) PROVE SeqType'
  BY <1>4, <1>t, <1>a, <1>b, <1>c, <1>d, <1>e DEF ReadTorn, Receive
<1>5. ASSUME NEW th \in Threads, ReadTimeout(th) PROVE SeqType'
  BY <1>5, <1>t, <1>a, <1>b, <1>c, <1>d, <1>e DEF ReadTimeout, Reader, CanFault
<1>6. ASSUME NEW th \in Threads, ReadError(th) PROVE SeqType'
  BY <1>6, <1>t, <1>a, <1>b, <1>c, <1>d, <1>e DEF ReadError, Reader
<1>7. CASE SubTop
  BY <1>7, <1>t, <1>a, <1>b, <1>c, <1>d, <1>e DEF SubTop, SubTo
<1>8. CASE SubClose
  BY <1>8, <1>t, <1>a, <1>b, <1>c, <1>d, <1>e DEF SubClose, SubTo, DisconnectNetwork
<1>9. CASE MQTTDisconnect
  BY <1>9, <1>t, <1>a, <1>b, <1>c, <1>d, <1>e DEF MQTTDisconnect
<1>10. CASE ConnectNetwork
  BY <1>10, <1>t, <1>a, <1>b, <1>c, <1>d, <1>e DEF ConnectNetwork, SubTo, Returns,
     CanFault
<1>11. CASE MQTTConnect
  BY <1>11, <1>t, <1>a, <1>b, <1>c, <1>d, <1>e DEF MQTTConnect, SubTo, ReadNext,
     DisconnectNetwork, Returns, Entering, Writable
<1>12. CASE ConnectAnswer
  BY <1>12, <1>t, <1>a, <1>b, <1>c, <1>d, <1>e DEF ConnectAnswer, SubTo, Returns,
     StopReading, ReadNext, Answer, StayConnected, DisconnectNetwork, NotReading,
     Entering
<1>13. CASE MQTTSubscribe
  BY <1>13, <1>t, <1>a, <1>b, <1>c, <1>d, <1>e DEF MQTTSubscribe, SubTo, ReadNext,
     Returns, Entering, Writable
<1>14. CASE SubscribeAnswer
  BY <1>14, <1>t, <1>a, <1>b, <1>c, <1>d, <1>e DEF SubscribeAnswer, SubTo, Returns,
     StopReading, ReadNext, Answer, StayConnected, NotReading, Entering
<1>15. CASE SubCheck
  BY <1>15, <1>t, <1>a, <1>b, <1>c, <1>d, <1>e DEF SubCheck, SubTo, ReadNext, Entering
<1>16. CASE MQTTYield
  BY <1>16, <1>t, <1>a, <1>b, <1>c, <1>d, <1>e DEF MQTTYield, SubTo, StopReading,
     ReadNext, Answer, StayConnected, NotReading, Entering
<1>17. CASE SubPause
  BY <1>17, <1>t, <1>a, <1>b, <1>c, <1>d, <1>e DEF SubPause, SubTo
<1>18. CASE PubWake
  BY <1>18, <1>t, <1>a, <1>b, <1>c, <1>d, <1>e DEF PubWake
<1>19. CASE MQTTPublish
  <2>1. sent + 1 \in 0..MaxPub
    BY <1>19, LinkAssumption DEF MQTTPublish, LinkInv, TypeInv, CountType
  <2>2. Packet("PUBLISH", sent + 1) \in Packets
    BY <2>1, PacketTypes
  <2>3. rx' = rx /\ (up' = up \/ up' = Append(up, Packet("PUBLISH", sent + 1)))
    BY <1>19 DEF MQTTPublish
  <2>4. QED
    BY <2>2, <2>3, <1>t, <1>a
<1>20. CASE PublishAnswer
  BY <1>20, <1>t, <1>a, <1>b, <1>c, <1>d, <1>e DEF PublishAnswer, StopReading,
     ReadNext, Answer, StayConnected, NotReading, Entering
<1>21. CASE BrokerStep
  <2>1. up # <<>> /\ up' = Tail(up) /\ Head(up).n \in 0..MaxPub
    BY <1>21, <1>b DEF BrokerStep, Packets
  <2>2. /\ Packet("CONNACK", 0) \in Packets /\ Packet("SUBACK", 0) \in Packets
        /\ Packet("PUBACK", Head(up).n) \in Packets
    BY <2>1, <1>d, PacketTypes
  <2>3. rx' = rx \/ \E p \in Packets : rx' = Append(rx, p)
    BY <1>21, <2>2 DEF BrokerStep
  <2>4. QED
    BY <2>1, <2>3, <1>t, <1>a, <1>b
<1>22. CASE BrokerPublish
  BY <1>22, <1>t, <1>a, <1>b, <1>c, <1>d, <1>e DEF BrokerPublish
<1>23. CASE BrokerFault
  BY <1>23, <1>t, <1>a, <1>b, <1>c, <1>d, <1>e DEF BrokerFault, CanFault
<1>24. CASE Cut
  BY <1>24, <1>t, <1>a, <1>b, <1>c, <1>d, <1>e DEF Cut, CanFault
<1>25. CASE PubIdle \/ UNCHANGED vars
  BY <1>25, <1>t, <1>a, <1>b, <1>c, <1>d, <1>e DEF PubIdle, vars
<1>26. CASE SubDelete
  BY <1>26, <1>t, <1>a, <1>b, <1>c, <1>d, <1>e DEF SubDelete, SubTo, Returns
<1>27. ASSUME NEW th \in Threads, ReadNoRest(th) PROVE SeqType'
  BY <1>27, <1>t, <1>a, <1>b, <1>c, <1>d, <1>e DEF ReadNoRest, Reader
<1>28. QED
  BY <1>1, <1>2, <1>3, <1>4, <1>5, <1>6, <1>7, <1>8, <1>9, <1>10, <1>11, <1>12, <1>13,
     <1>14, <1>15, <1>16, <1>17, <1>18, <1>19, <1>20, <1>21, <1>22, <1>23, <1>24,
     <1>25, <1>26, <1>27 DEF Next, SubStep, PubStep, ReadStep, Threads

LEMMA StepNet == LinkInv /\ [Next]_vars => NetType'
<1> SUFFICES ASSUME LinkInv, [Next]_vars PROVE NetType'
  OBVIOUS
<1> USE DEF NetType, Threads, link, Rest, DisconnectNetwork
<1>t. NetType /\ Pool \in Nat /\ Pool # 0
  BY LinkAssumption DEF LinkInv, TypeInv
<1>1. ASSUME NEW th \in Threads, Block(th) PROVE NetType'
  BY <1>1, <1>t DEF Block, Reader
<1>2. ASSUME NEW th \in Threads, ReadHeader(th) PROVE NetType'
  <2>1. PICK b \in BOOLEAN :
          net' = [net EXCEPT !.whose = th, !.left = Rest, !.torn = b]
    BY <1>2, <1>t DEF ReadHeader
  <2>2. th \in Threads \cup {"none"} /\ Rest \in 0..Rest /\ opened' = opened
    BY <1>2 DEF ReadHeader
  <2>3. QED
    BY <2>1, <2>2, <1>t
<1>3. ASSUME NEW th \in Threads, ReadRest(th) PROVE NetType'
  <2>1. net' = [net EXCEPT !.whose = "none", !.left = 0] /\ opened' = opened
    BY <1>3 DEF ReadRest
  <2>2. "none" \in Threads \cup {"none"} /\ 0 \in 0..Rest
    OBVIOUS
  <2>3. QED
    BY <2>1, <2>2, <1>t
<1>4. ASSUME NEW th \in Threads, ReadTorn(th) PROVE NetType'
  BY <1>4, <1>t DEF ReadTorn, Receive
<1>5. ASSUME NEW th \in Threads, ReadTimeout(th) PROVE NetType'
  BY <1>5, <1>t DEF ReadTimeout, Reader, CanFault
<1>6. ASSUME NEW th \in Threads, ReadError(th) PROVE NetType'
  BY <1>6, <1>t DEF ReadError, Reader
<1>7. CASE SubTop
  BY <1>7, <1>t DEF SubTop, SubTo
<1>8. CASE SubClose
  BY <1>8, <1>t DEF SubClose, SubTo, DisconnectNetwork
<1>9. CASE MQTTDisconnect
  BY <1>9, <1>t DEF MQTTDisconnect
<1>10. CASE ConnectNetwork
  <2>1. \/ /\ net' = [conn |-> "up", whose |-> "none", left |-> 0, torn |-> FALSE]
           /\ opened < Pool /\ opened' = opened + 1
        \/ /\ net' = [conn |-> "none", whose |-> "none", left |-> 0, torn |-> FALSE]
           /\ opened' = opened
    BY <1>10 DEF ConnectNetwork
  <2>2. net'.conn # "none" => opened' > 0
    BY <2>1, <1>t
  <2>3. opened' \in 0..Pool
    BY <2>1, <1>t
  <2>4. net' \in [conn : {"none", "up", "closing", "down"}, whose : Threads \cup {"none"},
                 left : 0..Rest, torn : BOOLEAN]
    <3>1. PICK c \in {"up", "none"} :
              net' = [conn |-> c, whose |-> "none", left |-> 0, torn |-> FALSE]
      BY <2>1
    <3>2. 0 \in 0..Rest
      OBVIOUS
    <3>3. QED
      BY <3>1, <3>2
  <2>5. QED
    BY <2>2, <2>3, <2>4
<1>11. CASE MQTTConnect
  BY <1>11, <1>t DEF MQTTConnect, SubTo, ReadNext, DisconnectNetwork, Returns,
     Entering, Writable
<1>12. CASE ConnectAnswer
  BY <1>12, <1>t DEF ConnectAnswer, SubTo, Returns, StopReading, ReadNext, Answer,
     StayConnected, DisconnectNetwork, NotReading, Entering
<1>13. CASE MQTTSubscribe
  BY <1>13, <1>t DEF MQTTSubscribe, SubTo, ReadNext, Returns, Entering, Writable
<1>14. CASE SubscribeAnswer
  BY <1>14, <1>t DEF SubscribeAnswer, SubTo, Returns, StopReading, ReadNext, Answer,
     StayConnected, NotReading, Entering
<1>15. CASE SubCheck
  BY <1>15, <1>t DEF SubCheck, SubTo, ReadNext, Entering
<1>16. CASE MQTTYield
  BY <1>16, <1>t DEF MQTTYield, SubTo, StopReading, ReadNext, Answer, StayConnected,
     NotReading, Entering
<1>17. CASE SubPause
  BY <1>17, <1>t DEF SubPause, SubTo
<1>18. CASE PubWake
  BY <1>18, <1>t DEF PubWake
<1>19. CASE MQTTPublish
  BY <1>19, <1>t DEF MQTTPublish, ReadNext, Entering, Writable
<1>20. CASE PublishAnswer
  BY <1>20, <1>t DEF PublishAnswer, StopReading, ReadNext, Answer, StayConnected,
     NotReading, Entering
<1>21. CASE BrokerStep
  BY <1>21, <1>t DEF BrokerStep
<1>22. CASE BrokerPublish
  BY <1>22, <1>t DEF BrokerPublish
<1>23. CASE BrokerFault
  BY <1>23, <1>t DEF BrokerFault, CanFault
<1>24. CASE Cut
  <2>1. net' = [net EXCEPT !.conn = "down"] /\ opened' = opened /\ net.conn # "none"
    BY <1>24 DEF Cut, Open
  <2>2. QED
    BY <2>1, <1>t
<1>25. CASE PubIdle \/ UNCHANGED vars
  BY <1>25, <1>t DEF PubIdle, vars
<1>26. CASE SubDelete
  <2>1. net.conn # "none"
    BY <1>26 DEF SubDelete, LinkInv, SessionInv
  <2>2. QED
    BY <1>26, <2>1, <1>t DEF SubDelete, SubTo, Returns
<1>27. ASSUME NEW th \in Threads, ReadNoRest(th) PROVE NetType'
  BY <1>27, <1>t DEF ReadNoRest, Reader
<1>28. QED
  BY <1>1, <1>2, <1>3, <1>4, <1>5, <1>6, <1>7, <1>8, <1>9, <1>10, <1>11, <1>12, <1>13,
     <1>14, <1>15, <1>16, <1>17, <1>18, <1>19, <1>20, <1>21, <1>22, <1>23, <1>24,
     <1>25, <1>26, <1>27 DEF Next, SubStep, PubStep, ReadStep, Threads

LEMMA StepControl == LinkInv /\ [Next]_vars => ControlType'
<1> SUFFICES ASSUME LinkInv, [Next]_vars PROVE ControlType'
  OBVIOUS
<1> USE DEF ControlType, Threads, Places, SubTo, Returns, StayConnected
<1>t. ControlType
  BY DEF LinkInv, TypeInv
<1>1. ASSUME NEW th \in Threads, Block(th) PROVE ControlType'
  BY <1>1, <1>t DEF Block, Reader
<1>2. ASSUME NEW th \in Threads, ReadHeader(th) PROVE ControlType'
  BY <1>2, <1>t DEF ReadHeader, Receive
<1>3. ASSUME NEW th \in Threads, ReadRest(th) PROVE ControlType'
  BY <1>3, <1>t DEF ReadRest, Reader
<1>4. ASSUME NEW th \in Threads, ReadTorn(th) PROVE ControlType'
  BY <1>4, <1>t DEF ReadTorn, Receive
<1>5. ASSUME NEW th \in Threads, ReadTimeout(th) PROVE ControlType'
  BY <1>5, <1>t DEF ReadTimeout, Reader, CanFault
<1>6. ASSUME NEW th \in Threads, ReadError(th) PROVE ControlType'
  BY <1>6, <1>t DEF ReadError, Reader
<1>7. CASE SubTop
  BY <1>7, <1>t DEF SubTop, SubTo
<1>8. CASE SubClose
  BY <1>8, <1>t DEF SubClose, SubTo, DisconnectNetwork
<1>9. CASE MQTTDisconnect
  BY <1>9, <1>t DEF MQTTDisconnect
<1>10. CASE ConnectNetwork
  BY <1>10, <1>t DEF ConnectNetwork, SubTo, Returns, CanFault
<1>11. CASE MQTTConnect
  BY <1>11, <1>t DEF MQTTConnect, SubTo, ReadNext, DisconnectNetwork, Returns,
     Entering, Writable
<1>12. CASE ConnectAnswer
  BY <1>12, <1>t DEF ConnectAnswer, SubTo, Returns, StopReading, ReadNext, Answer,
     StayConnected, DisconnectNetwork, NotReading, Entering
<1>13. CASE MQTTSubscribe
  BY <1>13, <1>t DEF MQTTSubscribe, SubTo, ReadNext, Returns, Entering, Writable
<1>14. CASE SubscribeAnswer
  BY <1>14, <1>t DEF SubscribeAnswer, SubTo, Returns, StopReading, ReadNext, Answer,
     StayConnected, NotReading, Entering
<1>15. CASE SubCheck
  <2>1. sub' = [sub EXCEPT !.pc = "yield"] \/ sub' = [pc |-> "open", again |-> TRUE]
    BY <1>15 DEF SubCheck
  <2>2. sub \in [pc : Places, again : BOOLEAN] /\ "yield" \in Places /\ "open" \in Places
    BY <1>t
  <2>3. sub' \in [pc : Places, again : BOOLEAN]
    <3>1. CASE sub' = [sub EXCEPT !.pc = "yield"]
      BY <2>2, <3>1
    <3>2. CASE sub' = [pc |-> "open", again |-> TRUE]
      BY <2>2, <3>2
    <3>3. QED
      BY <2>1, <3>1, <3>2
  <2>4. QED
    BY <1>15, <2>3, <1>t DEF SubCheck
<1>16. CASE MQTTYield
  BY <1>16, <1>t DEF MQTTYield, SubTo, StopReading, ReadNext, Answer, StayConnected,
     NotReading, Entering
<1>17. CASE SubPause
  BY <1>17, <1>t DEF SubPause, SubTo
<1>18. CASE PubWake
  BY <1>18, <1>t DEF PubWake
<1>19. CASE MQTTPublish
  BY <1>19, <1>t DEF MQTTPublish, ReadNext, Entering, Writable
<1>20. CASE PublishAnswer
  BY <1>20, <1>t DEF PublishAnswer, StopReading, ReadNext, Answer, StayConnected,
     NotReading, Entering
<1>21. CASE BrokerStep
  BY <1>21, <1>t DEF BrokerStep
<1>22. CASE BrokerPublish
  BY <1>22, <1>t DEF BrokerPublish
<1>23. CASE BrokerFault
  BY <1>23, <1>t DEF BrokerFault, CanFault
<1>24. CASE Cut
  BY <1>24, <1>t DEF Cut, CanFault
<1>25. CASE PubIdle \/ UNCHANGED vars
  BY <1>25, <1>t DEF PubIdle, vars
<1>26. CASE SubDelete
  BY <1>26, <1>t DEF SubDelete, SubTo, Returns
<1>27. ASSUME NEW th \in Threads, ReadNoRest(th) PROVE ControlType'
  BY <1>27, <1>t DEF ReadNoRest, Reader
<1>28. QED
  BY <1>1, <1>2, <1>3, <1>4, <1>5, <1>6, <1>7, <1>8, <1>9, <1>10, <1>11, <1>12, <1>13,
     <1>14, <1>15, <1>16, <1>17, <1>18, <1>19, <1>20, <1>21, <1>22, <1>23, <1>24,
     <1>25, <1>26, <1>27 DEF Next, SubStep, PubStep, ReadStep, Threads

LEMMA StepCount == LinkInv /\ [Next]_vars => CountType'
<1> SUFFICES ASSUME LinkInv, [Next]_vars PROVE CountType'
  OBVIOUS
<1> USE DEF CountType, count, link, CanFault
<1>t. CountType
  BY DEF LinkInv, TypeInv
<1>c. MaxPub \in Nat /\ MaxFault \in Nat /\ MaxCmd \in Nat
  BY LinkAssumption
<1>1. ASSUME NEW th \in Threads, Block(th) PROVE CountType'
  BY <1>1, <1>t, <1>c DEF Block, Reader
<1>2. ASSUME NEW th \in Threads, ReadHeader(th) PROVE CountType'
  BY <1>2, <1>t, <1>c DEF ReadHeader, Receive
<1>3. ASSUME NEW th \in Threads, ReadRest(th) PROVE CountType'
  BY <1>3, <1>t, <1>c DEF ReadRest, Reader
<1>4. ASSUME NEW th \in Threads, ReadTorn(th) PROVE CountType'
  BY <1>4, <1>t, <1>c DEF ReadTorn, Receive
<1>5. ASSUME NEW th \in Threads, ReadTimeout(th) PROVE CountType'
  BY <1>5, <1>t, <1>c DEF ReadTimeout, Reader, CanFault
<1>6. ASSUME NEW th \in Threads, ReadError(th) PROVE CountType'
  BY <1>6, <1>t, <1>c DEF ReadError, Reader
<1>7. CASE SubTop
  BY <1>7, <1>t, <1>c DEF SubTop, SubTo
<1>8. CASE SubClose
  BY <1>8, <1>t, <1>c DEF SubClose, SubTo, DisconnectNetwork
<1>9. CASE MQTTDisconnect
  BY <1>9, <1>t, <1>c DEF MQTTDisconnect
<1>10. CASE ConnectNetwork
  <2>1. broker' \in [session : BOOLEAN, stored : SUBSET (1..MaxPub)]
    BY <1>10, <1>t DEF ConnectNetwork
  <2>2. faults' \in 0..MaxFault
    BY <1>10, <1>t, <1>c DEF ConnectNetwork
  <2>3. QED
    BY <1>10, <2>1, <2>2, <1>t DEF ConnectNetwork
<1>11. CASE MQTTConnect
  BY <1>11, <1>t, <1>c DEF MQTTConnect, SubTo, ReadNext, DisconnectNetwork, Returns,
     Entering, Writable
<1>12. CASE ConnectAnswer
  BY <1>12, <1>t, <1>c DEF ConnectAnswer, SubTo, Returns, StopReading, ReadNext,
     Answer, StayConnected, DisconnectNetwork, NotReading, Entering
<1>13. CASE MQTTSubscribe
  BY <1>13, <1>t, <1>c DEF MQTTSubscribe, SubTo, ReadNext, Returns, Entering, Writable
<1>14. CASE SubscribeAnswer
  BY <1>14, <1>t, <1>c DEF SubscribeAnswer, SubTo, Returns, StopReading, ReadNext,
     Answer, StayConnected, NotReading, Entering
<1>15. CASE SubCheck
  BY <1>15, <1>t, <1>c DEF SubCheck, SubTo, ReadNext, Entering
<1>16. CASE MQTTYield
  BY <1>16, <1>t, <1>c DEF MQTTYield, SubTo, StopReading, ReadNext, Answer,
     StayConnected, NotReading, Entering
<1>17. CASE SubPause
  BY <1>17, <1>t, <1>c DEF SubPause, SubTo
<1>18. CASE PubWake
  BY <1>18, <1>t, <1>c DEF PubWake
<1>19. CASE MQTTPublish
  BY <1>19, <1>t, <1>c DEF MQTTPublish, ReadNext, Entering, Writable
<1>20. CASE PublishAnswer
  <2>1. acked' \subseteq 1..MaxPub
    <3>1. acked' = acked \/ acked' = acked \cup {sent}
      BY <1>20 DEF PublishAnswer
    <3>2. sent \in 1..MaxPub
      BY <1>20, <1>t, <1>c DEF PublishAnswer
    <3>3. QED
      BY <3>1, <3>2, <1>t
  <2>2. pub' # "publish" /\ (pub' = "puback" => pub = "puback")
    BY <1>20 DEF PublishAnswer
  <2>3. QED
    BY <1>20, <2>1, <2>2, <1>t DEF PublishAnswer
<1>21. CASE BrokerStep
  <2>1. Head(up).t = "PUBLISH" => Head(up).n \in 1..MaxPub
    <3>1. /\ up \in Seq(Packets) /\ up # <<>>
          /\ \A i \in Pubs : up[i].n # 0
      BY <1>21 DEF BrokerStep, LinkInv, TypeInv, SeqType, NumberInv
    <3>2. Head(up) \in Packets /\ (Head(up).t = "PUBLISH" => Head(up).n # 0)
      BY <3>1, TailPackets DEF Pubs
    <3>3. QED
      BY <3>2, <1>c DEF Packets
  <2>2. \/ broker' = broker
        \/ broker' = [broker EXCEPT !.session = TRUE]
        \/ /\ Head(up).t = "PUBLISH"
           /\ broker' = [broker EXCEPT !.stored = @ \cup {Head(up).n}]
    BY <1>21 DEF BrokerStep
  <2>3. broker' \in [session : BOOLEAN, stored : SUBSET (1..MaxPub)]
    <3>1. CASE broker' = broker \/ broker' = [broker EXCEPT !.session = TRUE]
      BY <3>1, <1>t
    <3>2. CASE /\ Head(up).t = "PUBLISH"
               /\ broker' = [broker EXCEPT !.stored = @ \cup {Head(up).n}]
      BY <3>2, <2>1, <1>t
    <3>3. QED
      BY <2>2, <3>1, <3>2
  <2>4. QED
    BY <1>21, <2>3, <1>t DEF BrokerStep
<1>22. CASE BrokerPublish
  BY <1>22, <1>t, <1>c DEF BrokerPublish
<1>23. CASE BrokerFault
  BY <1>23, <1>t, <1>c DEF BrokerFault, CanFault
<1>24. CASE Cut
  BY <1>24, <1>t, <1>c DEF Cut, CanFault
<1>25. CASE PubIdle \/ UNCHANGED vars
  BY <1>25, <1>t, <1>c DEF PubIdle, vars
<1>26. CASE SubDelete
  BY <1>26, <1>t, <1>c DEF SubDelete, SubTo, Returns
<1>27. ASSUME NEW th \in Threads, ReadNoRest(th) PROVE CountType'
  BY <1>27, <1>t, <1>c DEF ReadNoRest, Reader
<1>28. QED
  BY <1>1, <1>2, <1>3, <1>4, <1>5, <1>6, <1>7, <1>8, <1>9, <1>10, <1>11, <1>12, <1>13,
     <1>14, <1>15, <1>16, <1>17, <1>18, <1>19, <1>20, <1>21, <1>22, <1>23, <1>24,
     <1>25, <1>26, <1>27 DEF Next, SubStep, PubStep, ReadStep, Threads

-----------------------------------------------------------------------------
(***************************************************************************)
(* The lock. Whoever waits for an acknowledgement holds it.                *)
(***************************************************************************)
LEMMA StepLock == LinkInv /\ [Next]_vars => LockInv'
<1> SUFFICES ASSUME LinkInv, [Next]_vars PROVE LockInv'
  OBVIOUS
<1> USE DEF LockInv, ReaderType, ControlType, Places, Threads, Reader, SubTo,
    StopReading, ReadNext,
           NotReading, Entering, Returns
<1>t. LockInv /\ ReaderType /\ ControlType
  BY DEF LinkInv, TypeInv
<1>1. ASSUME NEW th \in Threads, Block(th) PROVE LockInv'
  BY <1>1, <1>t DEF Block, Reader
<1>2. ASSUME NEW th \in Threads, ReadHeader(th) PROVE LockInv'
  BY <1>2, <1>t DEF ReadHeader, Receive
<1>3. ASSUME NEW th \in Threads, ReadRest(th) PROVE LockInv'
  BY <1>3, <1>t DEF ReadRest, Reader
<1>4. ASSUME NEW th \in Threads, ReadTorn(th) PROVE LockInv'
  BY <1>4, <1>t DEF ReadTorn, Receive
<1>5. ASSUME NEW th \in Threads, ReadTimeout(th) PROVE LockInv'
  BY <1>5, <1>t DEF ReadTimeout, Reader, CanFault
<1>6. ASSUME NEW th \in Threads, ReadError(th) PROVE LockInv'
  BY <1>6, <1>t DEF ReadError, Reader
<1>7. CASE SubTop
  BY <1>7, <1>t DEF SubTop, SubTo
<1>8. CASE SubClose
  BY <1>8, <1>t DEF SubClose, SubTo, DisconnectNetwork
<1>9. CASE MQTTDisconnect
  BY <1>9, <1>t DEF MQTTDisconnect
<1>10. CASE ConnectNetwork
  BY <1>10, <1>t DEF ConnectNetwork, SubTo, Returns, CanFault
<1>11. CASE MQTTConnect
  BY <1>11, <1>t DEF MQTTConnect, SubTo, ReadNext, DisconnectNetwork, Returns,
     Entering, Writable
<1>12. CASE ConnectAnswer
  BY <1>12, <1>t DEF ConnectAnswer, SubTo, Returns, StopReading, ReadNext, Answer,
     StayConnected, DisconnectNetwork, NotReading, Entering
<1>13. CASE MQTTSubscribe
  BY <1>13, <1>t DEF MQTTSubscribe, SubTo, ReadNext, Returns, Entering, Writable
<1>14. CASE SubscribeAnswer
  BY <1>14, <1>t DEF SubscribeAnswer, SubTo, Returns, StopReading, ReadNext, Answer,
     StayConnected, NotReading, Entering
<1>15. CASE SubCheck
  BY <1>15, <1>t DEF SubCheck, SubTo, ReadNext, Entering
<1>16. CASE MQTTYield
  BY <1>16, <1>t DEF MQTTYield, SubTo, StopReading, ReadNext, Answer, StayConnected,
     NotReading, Entering
<1>17. CASE SubPause
  BY <1>17, <1>t DEF SubPause, SubTo
<1>18. CASE PubWake
  BY <1>18, <1>t DEF PubWake
<1>19. CASE MQTTPublish
  BY <1>19, <1>t DEF MQTTPublish, ReadNext, Entering, Writable
<1>20. CASE PublishAnswer
  BY <1>20, <1>t DEF PublishAnswer, StopReading, ReadNext, Answer, StayConnected,
     NotReading, Entering
<1>21. CASE BrokerStep
  BY <1>21, <1>t DEF BrokerStep
<1>22. CASE BrokerPublish
  BY <1>22, <1>t DEF BrokerPublish
<1>23. CASE BrokerFault
  BY <1>23, <1>t DEF BrokerFault, CanFault
<1>24. CASE Cut
  BY <1>24, <1>t DEF Cut, CanFault
<1>25. CASE PubIdle \/ UNCHANGED vars
  BY <1>25, <1>t DEF PubIdle, vars
<1>26. CASE SubDelete
  BY <1>26, <1>t DEF SubDelete, SubTo, Returns
<1>27. ASSUME NEW th \in Threads, ReadNoRest(th) PROVE LockInv'
  BY <1>27, <1>t DEF ReadNoRest, Reader
<1>28. QED
  BY <1>1, <1>2, <1>3, <1>4, <1>5, <1>6, <1>7, <1>8, <1>9, <1>10, <1>11, <1>12, <1>13,
     <1>14, <1>15, <1>16, <1>17, <1>18, <1>19, <1>20, <1>21, <1>22, <1>23, <1>24,
     <1>25, <1>26, <1>27 DEF Next, SubStep, PubStep, ReadStep, Threads

-----------------------------------------------------------------------------
(***************************************************************************)
(* The session.                                                            *)
(***************************************************************************)
\* A sequence of one type of packets stays one.
LEMMA AllOfType ==
    ASSUME NEW s \in Seq(Packets), NEW t, OfType(s, t) = DOMAIN s
    PROVE  /\ \A p \in Packets : p.t = t => OfType(Append(s, p), t) = DOMAIN Append(s, p)
           /\ s # <<>> => Head(s).t = t /\ OfType(Tail(s), t) = DOMAIN Tail(s)
<1>1. \A i \in DOMAIN s : s[i].t = t
  BY DEF OfType
<1>2. \A p \in Packets : p.t = t => \A i \in DOMAIN Append(s, p) : Append(s, p)[i].t = t
  BY <1>1
<1>3. s # <<>> => Head(s).t = t /\ \A i \in DOMAIN Tail(s) : Tail(s)[i].t = t
  BY <1>1
<1>4. QED
  BY <1>2, <1>3 DEF OfType

\* What the subscriber takes for a session is one.
LEMMA StepSession == LinkInv /\ [Next]_vars => SessionInv'
<1> SUFFICES ASSUME LinkInv, [Next]_vars PROVE SessionInv'
  OBVIOUS
<1> USE DEF SessionInv, Connack, LockInv, ReaderType, NetType, ControlType, Threads,
    Places, link
<1>t. /\ SessionInv /\ LockInv /\ ReaderType /\ NetType /\ ControlType
      /\ broker \in [session : BOOLEAN, stored : SUBSET (1..MaxPub)]
  BY DEF LinkInv, TypeInv, CountType
<1>s. up \in Seq(Packets) /\ rx \in Seq(Packets)
  BY DEF LinkInv, TypeInv, SeqType
<1>n. sub.pc \in {"connect", "connack"} => OfType(up, "PUBLISH") = {}
  BY DEF LinkInv, NumberInv, NothingOnTheWay, Pubs
<1>e. \A t : OfType(<<>>, t) = {}
  BY EmptyPackets
<1>h. rx # <<>> => /\ OfType(Tail(rx), "CONNACK") # {} => OfType(rx, "CONNACK") # {}
                   /\ Head(rx).t = "CONNACK" => OfType(rx, "CONNACK") # {}
  BY <1>s, TailPackets
<1>a. \A t \in {"SUBACK", "PUBACK", "REFUSED", "PUBLISH"}, n \in 0..MaxPub :
        OfType(Append(rx, Packet(t, n)), "CONNACK") = OfType(rx, "CONNACK")
  <2> TAKE t \in {"SUBACK", "PUBACK", "REFUSED", "PUBLISH"}, n \in 0..MaxPub
  <2>1. Packet(t, n) \in Packets /\ Packet(t, n).t # "CONNACK"
    BY DEF Packet, Packets, FromBroker
  <2>2. QED
    BY <1>s, <2>1, AppendPackets
<1>u. OfType(up, "PUBACK") = DOMAIN up =>
        /\ OfType(Append(up, Packet("PUBACK", 0)), "PUBACK")
             = DOMAIN Append(up, Packet("PUBACK", 0))
        /\ up # <<>> => Head(up).t = "PUBACK" /\ OfType(Tail(up), "PUBACK") = DOMAIN Tail(up)
  <2>1. Packet("PUBACK", 0) \in Packets /\ Packet("PUBACK", 0).t = "PUBACK"
    BY PacketTypes DEF FromBroker, Packet
  <2>2. QED
    BY <1>s, <2>1, AllOfType
<1>1. ASSUME NEW th \in Threads, Block(th) PROVE SessionInv'
  BY <1>1, <1>t, <1>e DEF Block, Reader
<1>2. ASSUME NEW th \in Threads, ReadHeader(th) PROVE SessionInv'
  <2>r. rx # <<>> /\ rx' = Tail(rx)
    BY <1>2 DEF ReadHeader
  <2>1. sub.pc # "connect" /\ (Head(rx).t = "CONNACK" => OfType(rx, "CONNACK") # {})
    BY <2>r, <1>h, <1>t
  <2>2. OfType(rx', "CONNACK") # {} => OfType(rx, "CONNACK") # {}
    BY <2>r, <1>h
  <2>3. rd'[th].got.t = Head(rx).t
    BY <1>2, <1>t DEF ReadHeader, Receive, Packet
  <2>4. Connack' => Connack
    BY <1>2, <2>1, <2>2, <2>3, <1>t DEF ReadHeader, Receive
  <2>5. QED
    BY <1>2, <2>1, <2>4, <1>t DEF ReadHeader, Receive
<1>3. ASSUME NEW th \in Threads, ReadRest(th) PROVE SessionInv'
  BY <1>3, <1>t, <1>e DEF ReadRest, Reader
<1>4. ASSUME NEW th \in Threads, ReadTorn(th) PROVE SessionInv'
  <2>1. ~(sub.pc = "connack")
    BY <1>4, <1>t DEF ReadTorn
  <2>2. OfType(rx', "CONNACK") # {} => OfType(rx, "CONNACK") # {}
    <3>1. rx' = rx \/ (rx # <<>> /\ rx' = Tail(rx))
      BY <1>4 DEF ReadTorn
    <3>2. QED
      BY <3>1, <1>h
  <2>3. sub.pc = "connect" => net'.left = 0 /\ rx' = rx
    BY <1>4, <1>t DEF ReadTorn
  <2>4. Connack' => Connack
    BY <1>4, <2>1, <2>2 DEF ReadTorn
  <2>5. net'.conn = net.conn /\ UNCHANGED <<isconnected, sub, up, broker>>
    BY <1>4, <1>t DEF ReadTorn
  <2>6. QED
    BY <2>1, <2>3, <2>4, <2>5, <1>t
<1>5. ASSUME NEW th \in Threads, ReadTimeout(th) PROVE SessionInv'
  <2>1. /\ rd'[th].got.t = "timeout" /\ rd' = [rd EXCEPT ![th] = rd'[th]]
        /\ rd'[th].at = "done" /\ rd[th].at = "blocked"
    BY <1>5, <1>t DEF ReadTimeout, Reader, TimedOut, Packet
  <2>2. Connack' => Connack
    BY <1>5, <2>1, <1>t DEF ReadTimeout
  <2>3. QED
    BY <1>5, <2>1, <2>2, <1>t DEF ReadTimeout
<1>6. ASSUME NEW th \in Threads, ReadError(th) PROVE SessionInv'
  <2>1. /\ rd'[th].got.t = "failed" /\ rd' = [rd EXCEPT ![th] = rd'[th]]
        /\ rd'[th].at = "done" /\ rd[th].at # "rest"
    BY <1>6, <1>t DEF ReadError, Reader, Failed, Packet
  <2>2. Connack' => Connack
    BY <1>6, <2>1, <1>t DEF ReadError
  <2>3. QED
    BY <1>6, <2>1, <2>2, <1>t DEF ReadError
<1>7. CASE SubTop
  BY <1>7, <1>t, <1>e DEF SubTop, SubTo
<1>8. CASE SubClose
  BY <1>8, <1>t, <1>e DEF SubClose, SubTo, DisconnectNetwork
<1>9. CASE MQTTDisconnect
  BY <1>9, <1>t, <1>e DEF MQTTDisconnect
<1>10. CASE ConnectNetwork
  <2>1. ~isconnected' /\ ~Connack' /\ sub'.pc # "connack"
    BY <1>10, <1>t, <1>e DEF ConnectNetwork, SubTo, Returns
  <2>2. rx' = <<>> /\ up' = <<>> /\ net'.left = 0 /\ ~broker'.session
    BY <1>10, <1>t DEF ConnectNetwork
  <2>3. OfType(up', "PUBACK") = DOMAIN up'
    BY <2>2, <1>e
  <2>4. /\ net'.conn \in {"up", "none"}
        /\ sub'.pc \in {"connect", "check", "pause"}
        /\ sub'.pc = "connect" => net'.conn = "up"
    BY <1>10, <1>t DEF ConnectNetwork, SubTo, Returns
  <2>5. QED
    BY <2>1, <2>2, <2>3, <2>4
<1>11. CASE MQTTConnect
  BY <1>11, <1>t, <1>e DEF MQTTConnect, SubTo, ReadNext, DisconnectNetwork, Returns,
     Entering, Writable
<1>12. CASE ConnectAnswer
  BY <1>12, <1>t, <1>e DEF ConnectAnswer, SubTo, Returns, StopReading, ReadNext,
     Answer, StayConnected, DisconnectNetwork, NotReading, Entering
<1>13. CASE MQTTSubscribe
  BY <1>13, <1>t, <1>e DEF MQTTSubscribe, SubTo, ReadNext, Returns, Entering, Writable
<1>14. CASE SubscribeAnswer
  BY <1>14, <1>t, <1>e DEF SubscribeAnswer, SubTo, Returns, StopReading, ReadNext,
     Answer, StayConnected, NotReading, Entering
<1>15. CASE SubCheck
  BY <1>15, <1>t, <1>e DEF SubCheck, SubTo, ReadNext, Entering
<1>16. CASE MQTTYield
  BY <1>16, <1>t, <1>e DEF MQTTYield, SubTo, StopReading, ReadNext, Answer,
     StayConnected, NotReading, Entering
<1>17. CASE SubPause
  BY <1>17, <1>t, <1>e DEF SubPause, SubTo
<1>18. CASE PubWake
  BY <1>18, <1>t, <1>e DEF PubWake
<1>19. CASE MQTTPublish
  BY <1>19, <1>t, <1>e DEF MQTTPublish, ReadNext, Entering, Writable
<1>20. CASE PublishAnswer
  <2>1. sub.pc # "connack" /\ (isconnected' => isconnected)
    BY <1>20, <1>t DEF PublishAnswer, StayConnected
  <2>2. up' = up \/ up' = Append(up, Packet("PUBACK", 0))
    BY <1>20 DEF PublishAnswer, Answer
  <2>3. sub.pc = "connect" => OfType(up', "PUBACK") = DOMAIN up'
    BY <2>2, <1>u, <1>t
  <2>4. UNCHANGED <<sub, net, rx, broker>>
    BY <1>20 DEF PublishAnswer
  <2>5. QED
    BY <2>1, <2>3, <2>4, <1>t
<1>21. CASE BrokerStep
  <2>1. CASE sub.pc = "connect"
    <3>1. Head(up).t = "PUBACK" /\ OfType(up', "PUBACK") = DOMAIN up'
      BY <1>21, <2>1, <1>u, <1>t DEF BrokerStep
    <3>2. UNCHANGED <<isconnected, rx, broker, net, sub>>
      BY <1>21, <3>1 DEF BrokerStep
    <3>3. QED
      BY <2>1, <3>1, <3>2, <1>t
  <2>2. CASE sub.pc # "connect"
    <3>1. \/ broker'.session
          \/ broker'.session = broker.session /\ rx' = rx
          \/ \E t \in {"SUBACK", "PUBACK"}, n \in 0..MaxPub :
               broker'.session = broker.session /\ rx' = Append(rx, Packet(t, n))
      <4>1. Head(up).n \in 0..MaxPub
        BY <1>21, <1>s, TailPackets DEF BrokerStep, Packets
      <4>2. 0 \in 0..MaxPub
        BY LinkAssumption
      <4>3. QED
        BY <1>21, <4>1, <4>2, <1>t DEF BrokerStep
    <3>2. \/ broker'.session
          \/ /\ broker'.session = broker.session
             /\ OfType(rx', "CONNACK") = OfType(rx, "CONNACK")
      <4>1. ASSUME NEW t \in {"SUBACK", "PUBACK"}, NEW n \in 0..MaxPub,
                   rx' = Append(rx, Packet(t, n))
            PROVE  OfType(rx', "CONNACK") = OfType(rx, "CONNACK")
        <5>1. OfType(Append(rx, Packet(t, n)), "CONNACK") = OfType(rx, "CONNACK")
          BY <1>a
        <5>2. QED
          BY <4>1, <5>1
      <4>2. QED
        BY <3>1, <4>1
    <3>3. net.conn # "none" /\ UNCHANGED <<isconnected, net, sub, rd>>
      BY <1>21 DEF BrokerStep, Open
    <3>4. QED
      BY <2>2, <3>2, <3>3, <1>t
  <2>3. QED
    BY <2>1, <2>2
<1>22. CASE BrokerPublish
  <2>1. sub.pc # "connect" /\ net.conn # "none" /\ broker.session
    BY <1>22, <1>t DEF BrokerPublish, Open
  <2>2. UNCHANGED <<isconnected, net, sub, rd, broker>>
    BY <1>22 DEF BrokerPublish
  <2>3. QED
    BY <2>1, <2>2, <1>t
<1>23. CASE BrokerFault
  <2>1. CASE sub.pc = "connect"
    <3>1. Head(up).t = "PUBACK" /\ OfType(up', "PUBACK") = DOMAIN up'
      BY <1>23, <2>1, <1>u, <1>t DEF BrokerFault
    <3>2. UNCHANGED <<isconnected, rx, broker, net, sub>>
      BY <1>23, <3>1 DEF BrokerFault
    <3>3. QED
      BY <2>1, <3>1, <3>2, <1>t
  <2>2. CASE sub.pc # "connect"
    <3>1. OfType(rx', "CONNACK") = OfType(rx, "CONNACK")
      <4>1. 0 \in 0..MaxPub
        BY LinkAssumption
      <4>2. rx' = rx \/ rx' = Append(rx, Packet("REFUSED", 0))
        BY <1>23 DEF BrokerFault
      <4>3. OfType(Append(rx, Packet("REFUSED", 0)), "CONNACK") = OfType(rx, "CONNACK")
        BY <4>1, <1>a
      <4>4. QED
        BY <4>2, <4>3
    <3>2. UNCHANGED <<isconnected, net, sub, rd, broker>>
      BY <1>23 DEF BrokerFault
    <3>3. QED
      BY <2>2, <3>1, <3>2, <1>t
  <2>3. QED
    BY <2>1, <2>2
<1>24. CASE Cut
  BY <1>24, <1>t, <1>e DEF Cut, CanFault
<1>25. CASE PubIdle \/ UNCHANGED vars
  BY <1>25, <1>t, <1>e DEF PubIdle, vars
<1>26. CASE SubDelete
  BY <1>26, <1>t, <1>e DEF SubDelete, SubTo, Returns
<1>27. ASSUME NEW th \in Threads, ReadNoRest(th) PROVE SessionInv'
  <2>1. UNCHANGED <<isconnected, sub, net, up, rx, broker>> /\ net.left = 0
    BY <1>27 DEF ReadNoRest
  <2>2. PICK r \in {TimedOut, Failed, rd[th].got} :
          rd' = [rd EXCEPT ![th] = [at |-> "done", got |-> r]] /\ rd[th].at = "rest"
    BY <1>27 DEF ReadNoRest, Reader
  <2>3. TimedOut.t # "CONNACK" /\ Failed.t # "CONNACK"
    BY DEF TimedOut, Failed, Packet
  <2>4. Connack' => Connack
    BY <2>1, <2>2, <2>3, <1>t
  <2>5. sub.pc = "connack" => rd'["sub"] = rd["sub"]
    BY <2>1, <2>2, <1>t DEF Rest
  <2>6. QED
    BY <2>1, <2>4, <2>5, <1>t
<1>28. QED
  BY <1>1, <1>2, <1>3, <1>4, <1>5, <1>6, <1>7, <1>8, <1>9, <1>10, <1>11, <1>12, <1>13,
     <1>14, <1>15, <1>16, <1>17, <1>18, <1>19, <1>20, <1>21, <1>22, <1>23, <1>24,
     <1>25, <1>26, <1>27 DEF Next, SubStep, PubStep, ReadStep, Threads

-----------------------------------------------------------------------------
(***************************************************************************)
(* What is on the way: only MQTTPublish adds a publication, and only the   *)
(* broker an acknowledgement.                                              *)
(***************************************************************************)
\* The packets of type t in r were in s.
Fewer(s, r, t) ==
    /\ \A i \in OfType(r, t) : \E j \in OfType(s, t) : r[i] = s[j]
    /\ (\A i, j \in OfType(s, t) : i = j) => (\A i, j \in OfType(r, t) : i = j)

LEMMA FewerPackets ==
    ASSUME NEW s \in Seq(Packets), NEW t
    PROVE  /\ Fewer(s, s, t) /\ Fewer(s, <<>>, t)
           /\ s # <<>> => Fewer(s, Tail(s), t)
           /\ \A p \in Packets : p.t # t => Fewer(s, Append(s, p), t)
<1>1. Fewer(s, s, t) /\ Fewer(s, <<>>, t)
  BY EmptyPackets DEF Fewer
<1>2. ASSUME s # <<>> PROVE Fewer(s, Tail(s), t)
  <2>1. \A i \in OfType(Tail(s), t) : i + 1 \in OfType(s, t) /\ Tail(s)[i] = s[i + 1]
    BY <1>2, TailPackets
  <2>2. OfType(Tail(s), t) \subseteq Nat
    BY <1>2, TailPackets
  <2>3. \A i \in OfType(Tail(s), t) : \E j \in OfType(s, t) : Tail(s)[i] = s[j]
    BY <2>1
  <2>4. ASSUME \A i, j \in OfType(s, t) : i = j,
               NEW i \in OfType(Tail(s), t), NEW j \in OfType(Tail(s), t)
        PROVE  i = j
    <3>1. i + 1 \in OfType(s, t) /\ j + 1 \in OfType(s, t) /\ i \in Nat /\ j \in Nat
      BY <2>1, <2>2
    <3>2. i + 1 = j + 1
      BY <2>4, <3>1
    <3>3. QED
      BY <3>1, <3>2
  <2>5. QED
    BY <2>3, <2>4 DEF Fewer
<1>3. ASSUME NEW p \in Packets, p.t # t PROVE Fewer(s, Append(s, p), t)
  <2>1. /\ OfType(Append(s, p), t) = OfType(s, t)
        /\ \A i \in OfType(s, t) : Append(s, p)[i] = s[i]
    BY <1>3, AppendPackets
  <2>2. QED
    BY <2>1 DEF Fewer
<1>4. QED
  BY <1>1, <1>2, <1>3

\* A packet that is added: the ones of a type are its like or were there before.
Adds(r, s, p) == r = Append(s, p)

LEMMA AddedPacket ==
    ASSUME NEW s \in Seq(Packets), NEW p \in Packets, NEW t, NEW r, Adds(r, s, p)
    PROVE  /\ \A i \in OfType(r, t) : r[i] = p \/ \E j \in OfType(s, t) : r[i] = s[j]
           /\ OfType(s, t) = {} => \A i, j \in OfType(r, t) : i = j /\ r[i] = p
<1>0. r = Append(s, p)
  BY DEF Adds
<1>1. Len(s) \in Nat /\ DOMAIN s = 1..Len(s)
  OBVIOUS
<1>2. DOMAIN r = 1..Len(s) + 1
  BY <1>0, <1>1
<1>3. \A i \in DOMAIN s : r[i] = s[i]
  BY <1>0, <1>1
<1>4. r[Len(s) + 1] = p
  BY <1>0, <1>1
<1>5. \A i \in DOMAIN r : (i \in DOMAIN s /\ r[i] = s[i]) \/ (i = Len(s) + 1 /\ r[i] = p)
  BY <1>1, <1>2, <1>3, <1>4
<1>6. \A i \in OfType(r, t) : 
        (i \in OfType(s, t) /\ r[i] = s[i]) \/ (i = Len(s) + 1 /\ r[i] = p)
  BY <1>5 DEF OfType
<1>7. QED
  BY <1>6

\* A publication is sent.
Publishes == /\ MQTTPublish /\ isconnected /\ Writable
             /\ up' = Append(up, Packet("PUBLISH", sent + 1))

\* The broker takes one and answers it.
Stores == /\ BrokerStep /\ Head(up).t = "PUBLISH"
          /\ rx' = Append(rx, Packet("PUBACK", Head(up).n))

\* How a step changes what goes to the broker.
UpStep == \/ up' = up \/ up' = <<>> \/ (up # <<>> /\ up' = Tail(up))
          \/ \E t \in {"PUBACK", "CONNECT", "SUBSCRIBE"} : up' = Append(up, Packet(t, 0))
          \/ Publishes

LEMMA StepUp == LinkInv /\ [Next]_vars => UpStep
<1> SUFFICES ASSUME LinkInv, [Next]_vars PROVE UpStep
  OBVIOUS
<1> USE DEF UpStep, Publishes, link, DisconnectNetwork, Answer, SubTo
<1>1. ASSUME NEW th \in Threads, Block(th) PROVE UpStep
  BY <1>1 DEF Block, Reader
<1>2. ASSUME NEW th \in Threads, ReadHeader(th) PROVE UpStep
  BY <1>2 DEF ReadHeader, Receive
<1>3. ASSUME NEW th \in Threads, ReadRest(th) PROVE UpStep
  BY <1>3 DEF ReadRest, Reader
<1>4. ASSUME NEW th \in Threads, ReadTorn(th) PROVE UpStep
  BY <1>4 DEF ReadTorn, Receive
<1>5. ASSUME NEW th \in Threads, ReadTimeout(th) PROVE UpStep
  BY <1>5 DEF ReadTimeout, Reader, CanFault
<1>6. ASSUME NEW th \in Threads, ReadError(th) PROVE UpStep
  BY <1>6 DEF ReadError, Reader
<1>7. CASE SubTop
  BY <1>7 DEF SubTop, SubTo
<1>8. CASE SubClose
  BY <1>8 DEF SubClose, SubTo, DisconnectNetwork
<1>9. CASE MQTTDisconnect
  BY <1>9 DEF MQTTDisconnect
<1>10. CASE ConnectNetwork
  BY <1>10 DEF ConnectNetwork, SubTo, Returns, CanFault
<1>11. CASE MQTTConnect
  BY <1>11 DEF MQTTConnect, SubTo, ReadNext, DisconnectNetwork, Returns, Entering,
     Writable
<1>12. CASE ConnectAnswer
  BY <1>12 DEF ConnectAnswer, SubTo, Returns, StopReading, ReadNext, Answer,
     StayConnected, DisconnectNetwork, NotReading, Entering
<1>13. CASE MQTTSubscribe
  BY <1>13 DEF MQTTSubscribe, SubTo, ReadNext, Returns, Entering, Writable
<1>14. CASE SubscribeAnswer
  BY <1>14 DEF SubscribeAnswer, SubTo, Returns, StopReading, ReadNext, Answer,
     StayConnected, NotReading, Entering
<1>15. CASE SubCheck
  BY <1>15 DEF SubCheck, SubTo, ReadNext, Entering
<1>16. CASE MQTTYield
  BY <1>16 DEF MQTTYield, SubTo, StopReading, ReadNext, Answer, StayConnected,
     NotReading, Entering
<1>17. CASE SubPause
  BY <1>17 DEF SubPause, SubTo
<1>18. CASE PubWake
  BY <1>18 DEF PubWake
<1>19. CASE MQTTPublish
  BY <1>19 DEF MQTTPublish, ReadNext, Entering, Writable
<1>20. CASE PublishAnswer
  BY <1>20 DEF PublishAnswer, StopReading, ReadNext, Answer, StayConnected,
     NotReading, Entering
<1>21. CASE BrokerStep
  BY <1>21 DEF BrokerStep
<1>22. CASE BrokerPublish
  BY <1>22 DEF BrokerPublish
<1>23. CASE BrokerFault
  BY <1>23 DEF BrokerFault, CanFault
<1>24. CASE Cut
  BY <1>24 DEF Cut, CanFault
<1>25. CASE PubIdle \/ UNCHANGED vars
  BY <1>25 DEF PubIdle, vars
<1>26. CASE SubDelete
  BY <1>26 DEF SubDelete, SubTo, Returns
<1>27. ASSUME NEW th \in Threads, ReadNoRest(th) PROVE UpStep
  BY <1>27 DEF ReadNoRest, Reader
<1>28. QED
  BY <1>1, <1>2, <1>3, <1>4, <1>5, <1>6, <1>7, <1>8, <1>9, <1>10, <1>11, <1>12, <1>13,
     <1>14, <1>15, <1>16, <1>17, <1>18, <1>19, <1>20, <1>21, <1>22, <1>23, <1>24,
     <1>25, <1>26, <1>27 DEF Next, SubStep, PubStep, ReadStep, Threads

LEMMA StepPubs ==
    ASSUME LinkInv, [Next]_vars
    PROVE  Fewer(up, up', "PUBLISH") \/ Publishes
<1>1. up \in Seq(Packets)
  BY DEF LinkInv, TypeInv, SeqType
<1>2. ASSUME NEW t \in {"PUBACK", "CONNECT", "SUBSCRIBE"}, up' = Append(up, Packet(t, 0))
      PROVE  Fewer(up, up', "PUBLISH")
  <2>1. Packet(t, 0) \in Packets /\ Packet(t, 0).t # "PUBLISH"
    <3>1. t \in FromBroker \cup ToBroker
      BY DEF FromBroker, ToBroker
    <3>2. QED
      BY <3>1, PacketTypes DEF Packet
  <2>2. Fewer(up, Append(up, Packet(t, 0)), "PUBLISH")
    BY <1>1, <2>1, FewerPackets
  <2>3. QED
    BY <1>2, <2>2
<1>3. CASE up' = up
  BY <1>1, <1>3, FewerPackets
<1>4. CASE up' = <<>>
  BY <1>1, <1>4, FewerPackets
<1>5. CASE up # <<>> /\ up' = Tail(up)
  <2>1. Fewer(up, Tail(up), "PUBLISH")
    BY <1>1, <1>5, FewerPackets
  <2>2. QED
    BY <1>5, <2>1
<1>6. UpStep
  BY StepUp
<1>7. QED
  BY <1>2, <1>3, <1>4, <1>5, <1>6 DEF UpStep

\* How a step changes what goes to the client.
RxStep == \/ rx' = rx \/ rx' = <<>> \/ (rx # <<>> /\ rx' = Tail(rx))
          \/ \E t \in {"PUBLISH", "REFUSED", "CONNACK", "SUBACK"} :
                rx' = Append(rx, Packet(t, 0))
          \/ Stores

LEMMA StepRx == LinkInv /\ [Next]_vars => RxStep
<1> SUFFICES ASSUME LinkInv, [Next]_vars PROVE RxStep
  OBVIOUS
<1> USE DEF RxStep, Stores, link, DisconnectNetwork, SubTo
<1>1. ASSUME NEW th \in Threads, Block(th) PROVE RxStep
  BY <1>1 DEF Block, Reader
<1>2. ASSUME NEW th \in Threads, ReadHeader(th) PROVE RxStep
  BY <1>2 DEF ReadHeader, Receive
<1>3. ASSUME NEW th \in Threads, ReadRest(th) PROVE RxStep
  BY <1>3 DEF ReadRest, Reader
<1>4. ASSUME NEW th \in Threads, ReadTorn(th) PROVE RxStep
  BY <1>4 DEF ReadTorn, Receive
<1>5. ASSUME NEW th \in Threads, ReadTimeout(th) PROVE RxStep
  BY <1>5 DEF ReadTimeout, Reader, CanFault
<1>6. ASSUME NEW th \in Threads, ReadError(th) PROVE RxStep
  BY <1>6 DEF ReadError, Reader
<1>7. CASE SubTop
  BY <1>7 DEF SubTop, SubTo
<1>8. CASE SubClose
  BY <1>8 DEF SubClose, SubTo, DisconnectNetwork
<1>9. CASE MQTTDisconnect
  BY <1>9 DEF MQTTDisconnect
<1>10. CASE ConnectNetwork
  BY <1>10 DEF ConnectNetwork, SubTo, Returns, CanFault
<1>11. CASE MQTTConnect
  BY <1>11 DEF MQTTConnect, SubTo, ReadNext, DisconnectNetwork, Returns, Entering,
     Writable
<1>12. CASE ConnectAnswer
  BY <1>12 DEF ConnectAnswer, SubTo, Returns, StopReading, ReadNext, Answer,
     StayConnected, DisconnectNetwork, NotReading, Entering
<1>13. CASE MQTTSubscribe
  BY <1>13 DEF MQTTSubscribe, SubTo, ReadNext, Returns, Entering, Writable
<1>14. CASE SubscribeAnswer
  BY <1>14 DEF SubscribeAnswer, SubTo, Returns, StopReading, ReadNext, Answer,
     StayConnected, NotReading, Entering
<1>15. CASE SubCheck
  BY <1>15 DEF SubCheck, SubTo, ReadNext, Entering
<1>16. CASE MQTTYield
  BY <1>16 DEF MQTTYield, SubTo, StopReading, ReadNext, Answer, StayConnected,
     NotReading, Entering
<1>17. CASE SubPause
  BY <1>17 DEF SubPause, SubTo
<1>18. CASE PubWake
  BY <1>18 DEF PubWake
<1>19. CASE MQTTPublish
  BY <1>19 DEF MQTTPublish, ReadNext, Entering, Writable
<1>20. CASE PublishAnswer
  BY <1>20 DEF PublishAnswer, StopReading, ReadNext, Answer, StayConnected,
     NotReading, Entering
<1>21. CASE BrokerStep
  BY <1>21 DEF BrokerStep
<1>22. CASE BrokerPublish
  BY <1>22 DEF BrokerPublish
<1>23. CASE BrokerFault
  BY <1>23 DEF BrokerFault, CanFault
<1>24. CASE Cut
  BY <1>24 DEF Cut, CanFault
<1>25. CASE PubIdle \/ UNCHANGED vars
  BY <1>25 DEF PubIdle, vars
<1>26. CASE SubDelete
  BY <1>26 DEF SubDelete, SubTo, Returns
<1>27. ASSUME NEW th \in Threads, ReadNoRest(th) PROVE RxStep
  BY <1>27 DEF ReadNoRest, Reader
<1>28. QED
  BY <1>1, <1>2, <1>3, <1>4, <1>5, <1>6, <1>7, <1>8, <1>9, <1>10, <1>11, <1>12, <1>13,
     <1>14, <1>15, <1>16, <1>17, <1>18, <1>19, <1>20, <1>21, <1>22, <1>23, <1>24,
     <1>25, <1>26, <1>27 DEF Next, SubStep, PubStep, ReadStep, Threads

LEMMA StepAcks ==
    ASSUME LinkInv, [Next]_vars
    PROVE  Fewer(rx, rx', "PUBACK") \/ Stores
<1>1. rx \in Seq(Packets)
  BY DEF LinkInv, TypeInv, SeqType
<1>2. ASSUME NEW t \in {"PUBLISH", "REFUSED", "CONNACK", "SUBACK"},
             rx' = Append(rx, Packet(t, 0))
      PROVE  Fewer(rx, rx', "PUBACK")
  <2>1. Packet(t, 0) \in Packets /\ Packet(t, 0).t # "PUBACK"
    <3>1. t \in FromBroker
      BY DEF FromBroker
    <3>2. QED
      BY <3>1, PacketTypes DEF Packet
  <2>2. Fewer(rx, Append(rx, Packet(t, 0)), "PUBACK")
    BY <1>1, <2>1, FewerPackets
  <2>3. QED
    BY <1>2, <2>2
<1>3. CASE rx' = rx
  BY <1>1, <1>3, FewerPackets
<1>4. CASE rx' = <<>>
  BY <1>1, <1>4, FewerPackets
<1>5. CASE rx # <<>> /\ rx' = Tail(rx)
  <2>1. Fewer(rx, Tail(rx), "PUBACK")
    BY <1>1, <1>5, FewerPackets
  <2>2. QED
    BY <1>5, <2>1
<1>6. RxStep
  BY StepRx
<1>7. QED
  BY <1>2, <1>3, <1>4, <1>5, <1>6 DEF RxStep

-----------------------------------------------------------------------------
(***************************************************************************)
(* The numbers of the publications.                                        *)
(***************************************************************************)
\* What a step does to the history and to the connection.
HistoryStep ==
    /\ broker.stored \subseteq broker'.stored
    /\ sent' = sent \/ Publishes
    /\ acked' = acked \/ ( /\ PublishAnswer /\ Whole(rd["pub"].got)
                           /\ acked' = acked \cup {sent})
    /\ net'.torn \/ net'.torn = net.torn \/ (rx' = <<>> /\ up' = <<>> /\ ~isconnected')
    /\ sub'.pc \in {"connect", "connack"} =>
         sub.pc \in {"connect", "connack"} \/ (rx' = <<>> /\ up' = <<>>)
    /\ isconnected' =>
         isconnected \/ (sub.pc = "connack" /\ rd' = [rd EXCEPT !["sub"] = NotReading])
    /\ isconnected' /\ pub = "puback" /\ pub' # "puback" => isconnected /\ HasAck("pub")

LEMMA StepHistory == LinkInv /\ [Next]_vars => HistoryStep
<1> SUFFICES ASSUME LinkInv, [Next]_vars PROVE HistoryStep
  OBVIOUS
<1> USE DEF HistoryStep, link, count, DisconnectNetwork
<1>t. /\ net \in [conn : {"none", "up", "closing", "down"}, whose : Threads \cup {"none"},
                  left : 0..Rest, torn : BOOLEAN]
      /\ broker \in [session : BOOLEAN, stored : SUBSET (1..MaxPub)]
      /\ isconnected \in BOOLEAN /\ sub \in [pc : Places, again : BOOLEAN]
  BY DEF LinkInv, TypeInv, NetType, CountType, ControlType
<1>1. ASSUME NEW th \in Threads, Block(th) PROVE HistoryStep
  BY <1>1, <1>t DEF Block, Reader
<1>2. ASSUME NEW th \in Threads, ReadHeader(th) PROVE HistoryStep
  BY <1>2, <1>t DEF ReadHeader, Receive
<1>3. ASSUME NEW th \in Threads, ReadRest(th) PROVE HistoryStep
  BY <1>3, <1>t DEF ReadRest, Reader
<1>4. ASSUME NEW th \in Threads, ReadTorn(th) PROVE HistoryStep
  BY <1>4, <1>t DEF ReadTorn, Receive
<1>5. ASSUME NEW th \in Threads, ReadTimeout(th) PROVE HistoryStep
  BY <1>5, <1>t DEF ReadTimeout, Reader, CanFault
<1>6. ASSUME NEW th \in Threads, ReadError(th) PROVE HistoryStep
  BY <1>6, <1>t DEF ReadError, Reader
<1>7. CASE SubTop
  BY <1>7, <1>t DEF SubTop, SubTo
<1>8. CASE SubClose
  BY <1>8, <1>t DEF SubClose, SubTo, DisconnectNetwork
<1>9. CASE MQTTDisconnect
  BY <1>9, <1>t DEF MQTTDisconnect
<1>10. CASE ConnectNetwork
  BY <1>10, <1>t DEF ConnectNetwork, SubTo, Returns, CanFault
<1>11. CASE MQTTConnect
  BY <1>11, <1>t DEF MQTTConnect, SubTo, ReadNext, DisconnectNetwork, Returns,
     Entering, Writable
<1>12. CASE ConnectAnswer
  BY <1>12, <1>t DEF ConnectAnswer, SubTo, Returns, StopReading, ReadNext, Answer,
     StayConnected, DisconnectNetwork, NotReading, Entering
<1>13. CASE MQTTSubscribe
  BY <1>13, <1>t DEF MQTTSubscribe, SubTo, ReadNext, Returns, Entering, Writable
<1>14. CASE SubscribeAnswer
  BY <1>14, <1>t DEF SubscribeAnswer, SubTo, Returns, StopReading, ReadNext, Answer,
     StayConnected, NotReading, Entering
<1>15. CASE SubCheck
  BY <1>15, <1>t DEF SubCheck, SubTo, ReadNext, Entering
<1>16. CASE MQTTYield
  BY <1>16, <1>t DEF MQTTYield, SubTo, StopReading, ReadNext, Answer, StayConnected,
     NotReading, Entering
<1>17. CASE SubPause
  BY <1>17, <1>t DEF SubPause, SubTo
<1>18. CASE PubWake
  BY <1>18, <1>t DEF PubWake
<1>19. CASE MQTTPublish
  <2>1. /\ UNCHANGED <<broker, acked, net, sub>>
        /\ pub = "publish" /\ (isconnected' => isconnected)
    BY <1>19 DEF MQTTPublish
  <2>2. \/ sent' = sent
        \/ isconnected /\ Writable /\ up' = Append(up, Packet("PUBLISH", sent + 1))
    BY <1>19 DEF MQTTPublish
  <2>3. sent' = sent \/ Publishes
    BY <1>19, <2>2 DEF Publishes
  <2>4. QED
    BY <2>1, <2>3
<1>20. CASE PublishAnswer
  <2>1. UNCHANGED <<broker, sent, net, sub>> /\ (isconnected' => isconnected)
    BY <1>20 DEF PublishAnswer, StayConnected
  <2>2. acked' = acked \/ (Whole(rd["pub"].got) /\ acked' = acked \cup {sent})
    BY <1>20 DEF PublishAnswer
  <2>3. isconnected' /\ pub' # "puback" => HasAck("pub")
    BY <1>20 DEF PublishAnswer, HasAck
  <2>4. QED
    BY <1>20, <2>1, <2>2, <2>3
<1>21. CASE BrokerStep
  <2>1. broker' = broker \/ broker' = [broker EXCEPT !.session = TRUE]
        \/ broker' = [broker EXCEPT !.stored = @ \cup {Head(up).n}]
    BY <1>21 DEF BrokerStep
  <2>2. broker.stored \subseteq broker'.stored
    BY <2>1, <1>t
  <2>3. UNCHANGED <<sent, acked, net, sub, isconnected, pub>>
    BY <1>21 DEF BrokerStep
  <2>4. QED
    BY <2>2, <2>3
<1>22. CASE BrokerPublish
  BY <1>22, <1>t DEF BrokerPublish
<1>23. CASE BrokerFault
  BY <1>23, <1>t DEF BrokerFault, CanFault
<1>24. CASE Cut
  BY <1>24, <1>t DEF Cut, CanFault
<1>25. CASE PubIdle \/ UNCHANGED vars
  BY <1>25, <1>t DEF PubIdle, vars
<1>26. CASE SubDelete
  BY <1>26, <1>t DEF SubDelete, SubTo, Returns
<1>27. ASSUME NEW th \in Threads, ReadNoRest(th) PROVE HistoryStep
  BY <1>27, <1>t DEF ReadNoRest, Reader
<1>28. QED
  BY <1>1, <1>2, <1>3, <1>4, <1>5, <1>6, <1>7, <1>8, <1>9, <1>10, <1>11, <1>12, <1>13,
     <1>14, <1>15, <1>16, <1>17, <1>18, <1>19, <1>20, <1>21, <1>22, <1>23, <1>24,
     <1>25, <1>26, <1>27 DEF Next, SubStep, PubStep, ReadStep, Threads

\* Where the publisher's acknowledgement comes from.
AckStep == HasAck("pub")' => \/ HasAck("pub") /\ rd'["pub"].got = rd["pub"].got
                             \/ ReadHeader("pub") \/ ReadTorn("pub")
                             \/ rd'["pub"].got.n = 0 /\ net'.torn

LEMMA StepAck == LinkInv /\ [Next]_vars => AckStep
<1> SUFFICES ASSUME LinkInv, [Next]_vars PROVE AckStep
  OBVIOUS
<1> USE DEF AckStep, HasAck, Threads, link, Reader, ReadNext, StopReading, Entering,
    NotReading, TimedOut, Failed, Packet
<1>t. /\ rd \in [Threads -> [at : {"no", "enter", "blocked", "rest", "done"},
                           got : Packets]]
      /\ net \in [conn : {"none", "up", "closing", "down"}, whose : Threads \cup {"none"},
                  left : 0..Rest, torn : BOOLEAN]
  BY DEF LinkInv, TypeInv, ReaderType, NetType
<1>1. ASSUME NEW th \in Threads, Block(th) PROVE AckStep
  BY <1>1, <1>t DEF Block, Reader
<1>2. ASSUME NEW th \in Threads, ReadHeader(th) PROVE AckStep
  <2>1. CASE th = "pub"
    BY <1>2, <2>1
  <2>2. CASE th = "sub"
    <3>1. PICK back \in ReadBack("sub", {Packet(Head(rx).t, 0)}) :
            /\ Receive("sub", "rest",
                       IF net.torn THEN Packet(Head(rx).t, 0) ELSE Head(rx), back)
            /\ net' = [net EXCEPT !.whose = "sub", !.left = Rest,
                                  !.torn = @ \/ back # rd["pub"].got]
      BY <1>2, <2>2 DEF ReadHeader, Other
    <3>2. /\ rd'["pub"].at = rd["pub"].at /\ rd'["pub"].got = back
          /\ back # rd["pub"].got => net'.torn
      BY <3>1, <1>t DEF Receive
    <3>3. back = rd["pub"].got \/ back.n = 0
      BY DEF ReadBack, Other
    <3>4. QED
      BY <3>2, <3>3
  <2>3. QED
    BY <2>1, <2>2 DEF Threads
<1>3. ASSUME NEW th \in Threads, ReadRest(th) PROVE AckStep
  BY <1>3, <1>t DEF ReadRest, Reader
<1>4. ASSUME NEW th \in Threads, ReadTorn(th) PROVE AckStep
  <2>1. CASE th = "pub"
    BY <1>4, <2>1
  <2>2. CASE th = "sub"
    <3>0. ReadTorn("sub")
      BY <1>4, <2>2
    <3>1. PICK r \in Garbage : \E back \in ReadBack("sub", Stored("sub", r)) :
            Receive("sub", "done", r, back)
      BY <3>0 DEF ReadTorn
    <3>2. PICK back \in ReadBack("sub", Stored("sub", r)) : Receive("sub", "done", r, back)
      BY <3>1
    <3>3. rd'["pub"].at = rd["pub"].at /\ rd'["pub"].got = back /\ net'.torn
      BY <3>0, <3>2, <1>t DEF ReadTorn, Receive
    <3>4. back = rd["pub"].got \/ back.n = 0
      BY DEF ReadBack, Other, Stored, Headers, Unknown, Packet
    <3>5. QED
      BY <3>3, <3>4
  <2>3. QED
    BY <2>1, <2>2 DEF Threads
<1>5. ASSUME NEW th \in Threads, ReadTimeout(th) PROVE AckStep
  BY <1>5, <1>t DEF ReadTimeout, Reader, CanFault
<1>6. ASSUME NEW th \in Threads, ReadError(th) PROVE AckStep
  BY <1>6, <1>t DEF ReadError, Reader
<1>7. CASE SubTop
  BY <1>7, <1>t DEF SubTop, SubTo
<1>8. CASE SubClose
  BY <1>8, <1>t DEF SubClose, SubTo, DisconnectNetwork
<1>9. CASE MQTTDisconnect
  BY <1>9, <1>t DEF MQTTDisconnect
<1>10. CASE ConnectNetwork
  BY <1>10, <1>t DEF ConnectNetwork, SubTo, Returns, CanFault
<1>11. CASE MQTTConnect
  BY <1>11, <1>t DEF MQTTConnect, SubTo, ReadNext, DisconnectNetwork, Returns,
     Entering, Writable
<1>12. CASE ConnectAnswer
  BY <1>12, <1>t DEF ConnectAnswer, SubTo, Returns, StopReading, ReadNext, Answer,
     StayConnected, DisconnectNetwork, NotReading, Entering
<1>13. CASE MQTTSubscribe
  BY <1>13, <1>t DEF MQTTSubscribe, SubTo, ReadNext, Returns, Entering, Writable
<1>14. CASE SubscribeAnswer
  BY <1>14, <1>t DEF SubscribeAnswer, SubTo, Returns, StopReading, ReadNext, Answer,
     StayConnected, NotReading, Entering
<1>15. CASE SubCheck
  BY <1>15, <1>t DEF SubCheck, SubTo, ReadNext, Entering
<1>16. CASE MQTTYield
  BY <1>16, <1>t DEF MQTTYield, SubTo, StopReading, ReadNext, Answer, StayConnected,
     NotReading, Entering
<1>17. CASE SubPause
  BY <1>17, <1>t DEF SubPause, SubTo
<1>18. CASE PubWake
  BY <1>18, <1>t DEF PubWake
<1>19. CASE MQTTPublish
  BY <1>19, <1>t DEF MQTTPublish, ReadNext, Entering, Writable
<1>20. CASE PublishAnswer
  BY <1>20, <1>t DEF PublishAnswer, StopReading, ReadNext, Answer, StayConnected,
     NotReading, Entering
<1>21. CASE BrokerStep
  BY <1>21, <1>t DEF BrokerStep
<1>22. CASE BrokerPublish
  BY <1>22, <1>t DEF BrokerPublish
<1>23. CASE BrokerFault
  BY <1>23, <1>t DEF BrokerFault, CanFault
<1>24. CASE Cut
  BY <1>24, <1>t DEF Cut, CanFault
<1>25. CASE PubIdle \/ UNCHANGED vars
  BY <1>25, <1>t DEF PubIdle, vars
<1>26. CASE SubDelete
  BY <1>26, <1>t DEF SubDelete, SubTo, Returns
<1>27. ASSUME NEW th \in Threads, ReadNoRest(th) PROVE AckStep
  BY <1>27, <1>t DEF ReadNoRest, Reader
<1>28. QED
  BY <1>1, <1>2, <1>3, <1>4, <1>5, <1>6, <1>7, <1>8, <1>9, <1>10, <1>11, <1>12, <1>13,
     <1>14, <1>15, <1>16, <1>17, <1>18, <1>19, <1>20, <1>21, <1>22, <1>23, <1>24,
     <1>25, <1>26, <1>27 DEF Next, SubStep, PubStep, ReadStep, Threads

\* The numbers stay right, whatever is torn.
LEMMA StepNumber == LinkInv /\ [Next]_vars => NumberInv'
<1> SUFFICES ASSUME LinkInv, [Next]_vars PROVE NumberInv'
  OBVIOUS
<1>t. /\ up \in Seq(Packets) /\ rx \in Seq(Packets) /\ sent \in Nat
      /\ LockInv /\ NumberInv /\ OneInv
      /\ sub.pc = "connect" => ~isconnected
      /\ rd \in [Threads -> [at : {"no", "enter", "blocked", "rest", "done"},
                        got : Packets]]
  BY LinkAssumption DEF LinkInv, TypeInv, SeqType, CountType, SessionInv, ReaderType
<1>h. HistoryStep
  BY StepHistory
<1>1. \A i \in Pubs' : up'[i].n # 0
  <2>1. CASE Fewer(up, up', "PUBLISH")
    BY <2>1, <1>t DEF Fewer, NumberInv, Pubs
  <2>2. CASE Publishes
    <3>1. sent + 1 \in 0..MaxPub /\ sent + 1 # 0
      BY <2>2, <1>t, LinkAssumption DEF Publishes, MQTTPublish, LinkInv, TypeInv, CountType
    <3>2. Packet("PUBLISH", sent + 1) \in Packets /\ Packet("PUBLISH", sent + 1).n # 0
      BY <3>1, PacketTypes DEF Packet
    <3>3. Adds(up', up, Packet("PUBLISH", sent + 1))
      BY <2>2 DEF Publishes, Adds
    <3>4. \A i \in OfType(up', "PUBLISH") :
            \/ up'[i] = Packet("PUBLISH", sent + 1)
            \/ \E j \in OfType(up, "PUBLISH") : up'[i] = up[j]
      BY <3>2, <3>3, <1>t, AddedPacket
    <3>5. QED
      BY <3>2, <3>4, <1>t DEF NumberInv, Pubs
  <2>3. QED
    BY <2>1, <2>2, StepPubs
<1>2. \A i \in Acks' : rx'[i].n # 0
  <2>1. CASE Fewer(rx, rx', "PUBACK")
    BY <2>1, <1>t DEF Fewer, NumberInv, Acks
  <2>2. CASE Stores
    <3>0. up # <<>> /\ Head(up).t = "PUBLISH"
      BY <2>2 DEF Stores, BrokerStep
    <3>1. 1 \in Pubs /\ Head(up) = up[1] /\ Head(up) \in Packets
      BY <3>0, <1>t, TailPackets DEF Pubs
    <3>2. Head(up).n # 0 /\ Head(up).n \in 0..MaxPub
      BY <3>1, <1>t DEF NumberInv, Packets
    <3> DEFINE p == Packet("PUBACK", Head(up).n)
    <3>3. p \in Packets /\ p.n # 0
      BY <3>2, PacketTypes DEF Packet
    <3> HIDE DEF p
    <3>4. Adds(rx', rx, p)
      BY <2>2 DEF Stores, p, Adds
    <3>5. \A i \in OfType(rx', "PUBACK") :
            rx'[i] = p \/ \E j \in OfType(rx, "PUBACK") : rx'[i] = rx[j]
      BY <3>3, <3>4, <1>t, AddedPacket
    <3>6. QED
      BY <3>3, <3>5, <1>t DEF NumberInv, Acks
  <2>3. QED
    BY <2>1, <2>2, StepAcks
<1>3. HasAck("pub")' /\ rd'["pub"].got.n # 0 => sent' \in broker'.stored
  <2> SUFFICES ASSUME HasAck("pub")', rd'["pub"].got.n # 0 PROVE sent' \in broker'.stored
    OBVIOUS
  <2>1. ~Publishes
    <3>1. ASSUME Publishes PROVE rd'["pub"].at \in {"enter"} \/ ~isconnected
      BY <3>1, <1>t DEF Publishes, MQTTPublish, ReadNext, Entering, Threads
    <3>2. ASSUME Publishes PROVE rd'["pub"].at # "enter"
      BY DEF HasAck
    <3>3. QED
      BY <3>1, <3>2 DEF Publishes
  <2>2. sent' = sent /\ broker.stored \subseteq broker'.stored
    BY <2>1, <1>h DEF HistoryStep
  <2>3. CASE HasAck("pub") /\ rd'["pub"].got = rd["pub"].got
    BY <2>2, <2>3, <1>t DEF NumberInv
  <2>4. CASE ReadHeader("pub")
    <3>1. rx # <<>> /\ rd'["pub"] = [at |-> "rest",
                           got |-> IF net.torn THEN Packet(Head(rx).t, 0) ELSE Head(rx)]
      BY <2>4, <1>t DEF ReadHeader, Receive, Threads
    <3>2. ~net.torn /\ Head(rx).t = "PUBACK"
      BY <3>1 DEF HasAck, Packet
    <3>3. Acks # {}
      BY <3>1, <3>2, <1>t, TailPackets DEF Acks
    <3>4. QED
      BY <3>2, <3>3, <2>2, <1>t DEF OneInv
  <2>5. CASE ReadTorn("pub")
    <3>1. PICK r \in Garbage : rd'["pub"].got = r
      BY <2>5, <1>t DEF ReadTorn, Receive, Threads
    <3>2. \A g \in Garbage : g.n = 0
      BY DEF Garbage, Headers, TimedOut, Failed, Unknown, Packet
    <3>3. QED
      BY <3>1, <3>2
  <2>6. QED
    BY <2>3, <2>4, <2>5, StepAck DEF AckStep
<1>4. sub'.pc \in {"connect", "connack"} => NothingOnTheWay'
  <2> SUFFICES ASSUME sub'.pc \in {"connect", "connack"} PROVE NothingOnTheWay'
    OBVIOUS
  <2>1. CASE rx' = <<>> /\ up' = <<>>
    BY <2>1, EmptyPackets DEF NothingOnTheWay, Pubs, Acks
  <2>2. CASE sub.pc \in {"connect", "connack"}
    <3>1. Pubs = {} /\ Acks = {}
      BY <2>2, <1>t DEF NumberInv, NothingOnTheWay
    <3>2. ~Publishes
      BY <2>2, <1>t DEF Publishes, MQTTPublish, LockInv
    <3>3. ~Stores
      <4>1. ASSUME Stores PROVE 1 \in Pubs
        BY <4>1, <1>t, TailPackets DEF Stores, BrokerStep, Pubs
      <4>2. QED
        BY <4>1, <3>1
    <3>4. Fewer(up, up', "PUBLISH") /\ Fewer(rx, rx', "PUBACK")
      BY <3>2, <3>3, StepPubs, StepAcks
    <3>5. QED
      BY <3>1, <3>4 DEF Fewer, NothingOnTheWay, Pubs, Acks
  <2>3. QED
    BY <2>1, <2>2, <1>h DEF HistoryStep
<1>5. acked' \subseteq broker'.stored
  <2>1. CASE acked' = acked
    BY <2>1, <1>h, <1>t DEF HistoryStep, NumberInv
  <2>2. CASE PublishAnswer /\ Whole(rd["pub"].got) /\ acked' = acked \cup {sent}
    <3>1. HasAck("pub") /\ rd["pub"].got.n # 0
      BY <2>2 DEF PublishAnswer, Whole, HasAck
    <3>2. QED
      BY <3>1, <2>2, <1>h, <1>t DEF HistoryStep, NumberInv
  <2>3. QED
    BY <2>1, <2>2, <1>h DEF HistoryStep
<1>6. QED
  BY <1>1, <1>2, <1>3, <1>4, <1>5 DEF NumberInv

-----------------------------------------------------------------------------
(***************************************************************************)
(* One publication at a time.                                              *)
(***************************************************************************)
\* When the connection is up outside a publication, or the publisher has read its
\* acknowledgement, nothing is on the way after the step.
LEMMA StepQuiet ==
    ASSUME LinkInv, [Next]_vars, ~net.torn, ~net'.torn, ~Publishes, ~Stores
    PROVE  /\ isconnected' /\ pub' # "puback" => NothingOnTheWay
           /\ isconnected' /\ HasAck("pub")' => NothingOnTheWay' /\ rd'["pub"].got.n # 0
<1>t. /\ up \in Seq(Packets) /\ rx \in Seq(Packets) /\ LockInv /\ NumberInv /\ OneInv
      /\ isconnected \in BOOLEAN
      /\ rd \in [Threads -> [at : {"no", "enter", "blocked", "rest", "done"},
                        got : Packets]]
      /\ net \in [conn : {"none", "up", "closing", "down"}, whose : Threads \cup {"none"},
                  left : 0..Rest, torn : BOOLEAN]
  BY DEF LinkInv, TypeInv, SeqType, ReaderType, ControlType, NetType
<1>h. HistoryStep
  BY StepHistory
<1>o. /\ \A i, j \in Pubs : i = j
      /\ \A i, j \in Acks : i = j
      /\ Pubs = {} \/ Acks = {}
      /\ isconnected /\ pub # "puback" => NothingOnTheWay
      /\ isconnected /\ HasAck("pub") => NothingOnTheWay /\ rd["pub"].got.n # 0
  BY <1>t DEF OneInv
<1>f. Fewer(up, up', "PUBLISH") /\ Fewer(rx, rx', "PUBACK")
  BY StepPubs, StepAcks
<1>k. NothingOnTheWay => NothingOnTheWay'
  BY <1>f DEF Fewer, NothingOnTheWay, Pubs, Acks
<1>c. isconnected' /\ ~isconnected => NothingOnTheWay /\ ~HasAck("pub")'
  <2> SUFFICES ASSUME isconnected', ~isconnected PROVE NothingOnTheWay /\ ~HasAck("pub")'
    OBVIOUS
  <2>1. sub.pc = "connack" /\ rd' = [rd EXCEPT !["sub"] = NotReading]
    BY <1>h DEF HistoryStep
  <2>2. rd["pub"].at = "no" /\ rd'["pub"] = rd["pub"]
    BY <2>1, <1>t DEF LockInv, Threads
  <2>3. QED
    BY <2>1, <2>2, <1>t DEF NumberInv, HasAck
<1>1. isconnected' /\ pub' # "puback" => NothingOnTheWay
  BY <1>c, <1>o, <1>h DEF HistoryStep
<1>2. ASSUME isconnected', HasAck("pub")'
      PROVE  NothingOnTheWay' /\ rd'["pub"].got.n # 0
  <2>1. CASE HasAck("pub") /\ rd'["pub"].got = rd["pub"].got
    BY <2>1, <1>2, <1>c, <1>o, <1>k
  <2>2. CASE ReadHeader("pub")
    <3>1. /\ rx # <<>> /\ rx' = Tail(rx) /\ up' = up
          /\ rd'["pub"] = [at |-> "rest", got |-> Head(rx)]
      BY <2>2, <1>t DEF ReadHeader, Receive, Threads
    <3>2. Head(rx).t = "PUBACK"
      BY <3>1, <1>2 DEF HasAck
    <3>3. 1 \in Acks /\ Head(rx) = rx[1]
      BY <3>1, <3>2, <1>t, TailPackets DEF Acks
    <3>4. \A i \in OfType(Tail(rx), "PUBACK") :
            i \in Nat /\ i + 1 \in OfType(rx, "PUBACK") /\ i + 1 # 1
      BY <3>1, <1>t, TailPackets
    <3>5. Acks' = {}
      BY <3>1, <3>3, <3>4, <1>o DEF Acks
    <3>6. Pubs' = {}
      BY <3>1, <3>3, <1>o DEF Pubs
    <3>7. rd'["pub"].got.n # 0
      BY <3>1, <3>3, <1>t DEF NumberInv
    <3>8. QED
      BY <3>5, <3>6, <3>7 DEF NothingOnTheWay
  <2>3. CASE ReadTorn("pub")
    BY <2>3, <1>t DEF ReadTorn
  <2>4. QED
    BY <1>2, <2>1, <2>2, <2>3, StepAck DEF AckStep
<1>3. QED
  BY <1>1, <1>2

LEMMA StepOne == LinkInv /\ [Next]_vars => OneInv'
<1> SUFFICES ASSUME LinkInv, [Next]_vars, ~net'.torn PROVE OneInv'
  BY DEF OneInv
<1>t. /\ up \in Seq(Packets) /\ rx \in Seq(Packets) /\ sent \in Nat
      /\ LockInv /\ NumberInv /\ OneInv
      /\ net.torn \in BOOLEAN
      /\ rd \in [Threads -> [at : {"no", "enter", "blocked", "rest", "done"},
                        got : Packets]]
  BY DEF LinkInv, TypeInv, SeqType, CountType, ReaderType, NetType
<1>h. HistoryStep
  BY StepHistory
<1>1. CASE net.torn
  <2>1. rx' = <<>> /\ up' = <<>> /\ ~isconnected'
    BY <1>1, <1>h, <1>t DEF HistoryStep
  <2>2. Pubs' = {} /\ Acks' = {}
    BY <2>1, EmptyPackets DEF Pubs, Acks
  <2>3. QED
    BY <2>1, <2>2 DEF OneInv
<1>o. ASSUME ~net.torn
      PROVE  /\ \A i, j \in Pubs : i = j
             /\ \A i, j \in Acks : i = j
             /\ Pubs = {} \/ Acks = {}
             /\ \A i \in Pubs : up[i].n = sent
             /\ Acks # {} => sent \in broker.stored
             /\ isconnected /\ pub # "puback" => NothingOnTheWay
             /\ isconnected /\ HasAck("pub") => NothingOnTheWay /\ rd["pub"].got.n # 0
  BY <1>o, <1>t DEF OneInv
<1>2. CASE ~net.torn /\ Publishes
  <2>1. NothingOnTheWay
    BY <1>2, <1>o DEF Publishes, MQTTPublish
  <2>2. rx' = rx /\ pub' = "puback" /\ rd'["pub"].at = "enter" /\ sent' = sent + 1
    BY <1>2, <1>t DEF Publishes, MQTTPublish, ReadNext, Entering, Threads
  <2>3. Packet("PUBLISH", sent + 1) \in Packets /\ Packet("PUBLISH", sent + 1).n = sent + 1
    <3>1. sent + 1 \in 0..MaxPub
      BY <1>2, <1>t, LinkAssumption DEF Publishes, MQTTPublish, LinkInv, TypeInv, CountType
    <3>2. QED
      BY <3>1, PacketTypes DEF Packet
  <2>4. Adds(up', up, Packet("PUBLISH", sent + 1))
    BY <1>2 DEF Publishes, Adds
  <2>5. \A i, j \in Pubs' : i = j /\ up'[i] = Packet("PUBLISH", sent + 1)
    <3>1. OfType(up, "PUBLISH") = {}
      BY <2>1 DEF NothingOnTheWay, Pubs
    <3>2. \A i, j \in OfType(up', "PUBLISH") : i = j /\ up'[i] = Packet("PUBLISH", sent + 1)
      BY <3>1, <2>3, <2>4, <1>t, AddedPacket
    <3>3. QED
      BY <3>2 DEF Pubs
  <2>6. Acks' = {}
    BY <2>1, <2>2 DEF NothingOnTheWay, Acks
  <2>7. \A i \in Pubs' : up'[i].n = sent'
    BY <2>5, <2>3, <2>2
  <2>8. QED
    BY <2>2, <2>5, <2>6, <2>7 DEF OneInv, HasAck
<1>3. CASE ~net.torn /\ Stores
  <2>1. up # <<>> /\ Head(up).t = "PUBLISH" /\ up' = Tail(up)
    BY <1>3 DEF Stores, BrokerStep
  <2>2. 1 \in Pubs /\ Head(up) = up[1] /\ Head(up) \in Packets
    BY <2>1, <1>t, TailPackets DEF Pubs
  <2>3. Acks = {} /\ Head(up).n = sent
    BY <2>2, <1>3, <1>o
  <2>4. \A i \in OfType(Tail(up), "PUBLISH") :
          i \in Nat /\ i + 1 \in OfType(up, "PUBLISH") /\ i + 1 # 1
    BY <2>1, <1>t, TailPackets
  <2>5. Pubs' = {}
    BY <2>1, <2>2, <2>4, <1>3, <1>o DEF Pubs
  <2> DEFINE p == Packet("PUBACK", Head(up).n)
  <2>6. p \in Packets
    <3>1. Head(up).n \in 0..MaxPub
      BY <2>2 DEF Packets
    <3>2. QED
      BY <3>1, PacketTypes
  <2> HIDE DEF p
  <2>7. Adds(rx', rx, p)
    BY <1>3 DEF Stores, Adds, p
  <2>8. \A i, j \in Acks' : i = j
    <3>1. OfType(rx, "PUBACK") = {}
      BY <2>3 DEF Acks
    <3>2. \A i, j \in OfType(rx', "PUBACK") : i = j
      BY <3>1, <2>6, <2>7, <1>t, AddedPacket
    <3>3. QED
      BY <3>2 DEF Acks
  <2>9. /\ sent' = sent /\ sent \in broker'.stored
        /\ UNCHANGED <<isconnected, pub, rd>>
    <3>1. UNCHANGED <<isconnected, pub, rd, sent>>
      BY <1>3 DEF Stores, BrokerStep, count
    <3>2. broker' = [broker EXCEPT !.stored = @ \cup {Head(up).n}]
      BY <1>3 DEF Stores, BrokerStep
    <3>3. broker \in [session : BOOLEAN, stored : SUBSET (1..MaxPub)]
      BY DEF LinkInv, TypeInv, CountType
    <3>4. QED
      BY <3>1, <3>2, <3>3, <2>3
  <2>10. (isconnected => pub = "puback") /\ ~(isconnected /\ HasAck("pub"))
    BY <2>2, <1>3, <1>o DEF NothingOnTheWay
  <2>11. (isconnected' => pub' = "puback") /\ ~(isconnected' /\ HasAck("pub")')
    BY <2>9, <2>10 DEF HasAck
  <2>12. QED
    BY <2>5, <2>8, <2>9, <2>11 DEF OneInv
<1>4. CASE ~net.torn /\ ~Publishes /\ ~Stores
  <2>1. Fewer(up, up', "PUBLISH") /\ Fewer(rx, rx', "PUBACK")
    BY <1>4, StepPubs, StepAcks
  <2>2. sent' = sent /\ broker.stored \subseteq broker'.stored
    BY <1>4, <1>h DEF HistoryStep
  <2>3. (\A i, j \in Pubs' : i = j) /\ (\A i, j \in Acks' : i = j)
    BY <2>1, <1>4, <1>o DEF Fewer, Pubs, Acks
  <2>4. (Pubs = {} => Pubs' = {}) /\ (Acks = {} => Acks' = {})
    BY <2>1 DEF Fewer, Pubs, Acks
  <2>5. \A i \in Pubs' : up'[i].n = sent'
    BY <2>1, <2>2, <1>4, <1>o DEF Fewer, Pubs
  <2>6. Acks' # {} => sent' \in broker'.stored
    BY <2>2, <2>4, <1>4, <1>o
  <2>7. Pubs' = {} \/ Acks' = {}
    BY <2>4, <1>4, <1>o
  <2>8. /\ isconnected' /\ pub' # "puback" => NothingOnTheWay'
        /\ isconnected' /\ HasAck("pub")' => NothingOnTheWay' /\ rd'["pub"].got.n # 0
    BY <1>4, <2>4, StepQuiet DEF NothingOnTheWay
  <2>9. QED
    BY <2>3, <2>5, <2>6, <2>7, <2>8 DEF OneInv
<1>5. QED
  BY <1>1, <1>2, <1>3, <1>4, <1>t

-----------------------------------------------------------------------------
(***************************************************************************)
(* The theorems.                                                           *)
(***************************************************************************)
LEMMA InitInv == Init => LinkInv
<1> SUFFICES ASSUME Init PROVE LinkInv
  OBVIOUS
<1>1. ReaderType
  BY PacketTypes DEF Init, ReaderType, NotReading, Threads
<1>2. SeqType
  BY DEF Init, SeqType
<1>3. NetType
  BY LinkAssumption DEF Init, NetType, Rest
<1>4. ControlType
  BY DEF Init, ControlType, Places
<1>5. CountType
  BY LinkAssumption DEF Init, CountType
<1>6. LockInv
  BY DEF Init, LockInv, NotReading, Threads
<1>7. Pubs = {} /\ Acks = {} /\ OfType(rx, "CONNACK") = {}
  BY EmptyPackets DEF Init, Pubs, Acks
<1>8. SessionInv
  BY <1>7 DEF Init, SessionInv, Connack
<1>9. NumberInv
  BY <1>7 DEF Init, NumberInv, NothingOnTheWay, HasAck, NotReading, Threads
<1>10. OneInv
  BY <1>7 DEF Init, OneInv, NothingOnTheWay
<1>11. QED
  BY <1>1, <1>2, <1>3, <1>4, <1>5, <1>6, <1>8, <1>9, <1>10 DEF LinkInv, TypeInv

\* The invariant holds whatever the two threads, the broker and the network do.
THEOREM Invariance == Spec => []LinkInv
<1>1. LinkInv /\ [Next]_vars => LinkInv'
  BY StepReader, StepSeq, StepNet, StepControl, StepCount, StepLock, StepSession,
     StepNumber, StepOne DEF LinkInv, TypeInv
<1>2. QED
  BY <1>1, InitInv, PTL DEF Spec

\* The variables keep their types; no more netconns are taken than the pool has.
THEOREM TypeCorrect == Spec => []TypeOK
<1>1. LinkInv => TypeOK
  BY DEF LinkInv, TypeInv, ReaderType, SeqType, NetType, ControlType, CountType,
         TypeOK, Places
<1>2. QED
  BY <1>1, Invariance, PTL

\* A client that takes itself for connected has a session on the connection it
\* holds: no stale or torn CONNACK, and no connection forgotten, deceives it.
THEOREM SessionIsRealHolds == Spec => []SessionIsReal
<1>1. LinkInv => SessionIsReal
  BY DEF LinkInv, TypeInv, NetType, SessionInv, SessionIsReal
<1>2. QED
  BY <1>1, Invariance, PTL

\* MQTTPublish returns MQTT_SUCCESS only for a publication the broker has, though
\* waitfor compares no identifiers.
THEOREM AckedIsStoredHolds == Spec => []AckedIsStored
<1>1. LinkInv => AckedIsStored
  BY DEF LinkInv, NumberInv, AckedIsStored
<1>2. QED
  BY <1>1, Invariance, PTL
=============================================================================

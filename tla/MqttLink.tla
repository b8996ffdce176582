------------------------------ MODULE MqttLink ------------------------------
(***************************************************************************)
(* The MQTT link: a subscriber thread that keeps the session with the      *)
(* broker and reads what comes in, and a publisher thread that sends the   *)
(* settings and the readings with QOS1 and waits for each acknowledgement. *)
(*                                                                         *)
(* They share one client, its buffers and its connection.  MutexMqtt is    *)
(* held by MQTTConnect, MQTTSubscribe, MQTTPublish and MQTTDisconnect, but *)
(* not by MQTTYield nor by the calls that open and delete the connection.  *)
(*                                                                         *)
(* A packet arrives in one netbuf and is read in two parts, the header     *)
(* byte and the rest; between them the rest waits in net.buf, where any    *)
(* thread finds it, and both threads put what they read in c->readbuf.  A  *)
(* packet of which two threads read parts, or whose header byte the other  *)
(* thread writes over, is torn: the bytes mean anything.                   *)
(***************************************************************************)
EXTENDS Naturals, Sequences

CONSTANTS
    Pool,       \* netconns there are for this link, MEMP_NUM_NETCONN at most
    MaxPub,     \* bound: publications of a behaviour
    MaxCmd,     \* bound: messages the broker publishes to the receiver
    MaxFault    \* bound: faults of the network and of the broker

ASSUME LinkAssumption ==
    Pool \in Nat \ {0} /\ MaxPub \in Nat /\ MaxCmd \in Nat /\ MaxFault \in Nat

Threads == {"sub", "pub"}

\* A packet; n is the publication a PUBACK of the broker is about, 0 in others, in
\* what a thread took for a packet, and in all it reads of a connection after that.
\* The client compares no identifiers.
Packet(t, n) == [t |-> t, n |-> n]
FromBroker == {"CONNACK", "REFUSED", "SUBACK", "PUBACK", "PUBLISH"}
ToBroker   == {"CONNECT", "SUBSCRIBE", "PUBLISH", "PUBACK"}
\* What readPacket returns when net_read timed out, and when it failed.
TimedOut == Packet("timeout", 0)
Failed   == Packet("failed", 0)
\* The rest of a packet, in the pieces a foreign reader takes it for.
Rest == 2
\* A type no broker sends.
Unknown  == Packet("unknown", 0)
\* What any byte passes for, taken for a header, and what comes of a packet that
\* begins with it.  (A REFUSED ends what a failure ends, and is else a CONNACK; a
\* type 0 or a short rest is for the caller a packet it does not wait for.)
Headers == {Packet(t, 0) : t \in FromBroker \ {"REFUSED"}} \cup {Unknown}
Garbage == Headers \cup {Failed}

VARIABLES
    isconnected,  \* mqttClient.isconnected
    mutex,        \* who holds MutexMqtt, or "none"
    sub,          \* MqttClientSubTask: pc, and `again`: in its second branch
    pub,          \* MqttClientPubTask: pc
    rd,           \* where a thread is in readPacket, and the packet it got
    net,          \* the Network: conn; what is left in buf, and of whose packet;
                  \* history: a packet of this connection was torn
    opened,       \* netconns taken from the pool and not deleted
    up, rx,       \* bytes on their way to the broker, and to the client
    broker,       \* the broker: this connection's session, publications stored
    sent,         \* the publication MQTTPublish sent last
    acked,        \* history: publications MQTTPublish returned MQTT_SUCCESS for,
                  \* on a connection of which no packet was torn
    cmds, faults  \* counters, bounded by the Max constants

link == <<net, opened, up, rx, broker>>
count == <<sent, acked, cmds, faults>>
vars == <<isconnected, mutex, sub, pub, rd, link, count>>

NotReading == [at |-> "no", got |-> TimedOut]
Entering   == [at |-> "enter", got |-> TimedOut]

Init == /\ isconnected = FALSE /\ mutex = "none"
        /\ sub = [pc |-> "top", again |-> FALSE] /\ pub = "sleep"
        /\ rd = [th \in Threads |-> NotReading]
        /\ net = [conn |-> "none", whose |-> "none", left |-> 0, torn |-> FALSE]
        /\ opened = 0 /\ up = <<>> /\ rx = <<>>
        /\ broker = [session |-> FALSE, stored |-> {}]
        /\ sent = 0 /\ acked = {} /\ cmds = 0 /\ faults = 0

CanFault == faults < MaxFault

\* net_write succeeds; "closing" is a connection whose sending half is shut down.
Writable == net.conn = "up"
Open     == net.conn \in {"up", "closing"}

SubTo(pc) == sub' = [sub EXCEPT !.pc = pc]
Other(th) == IF th = "sub" THEN "pub" ELSE "sub"
Reader(th, at, r) == rd' = [rd EXCEPT ![th] = [at |-> at, got |-> r]]
StopReading(th) == rd' = [rd EXCEPT ![th] = NotReading]
ReadNext(th) == rd' = [rd EXCEPT ![th] = Entering]

-----------------------------------------------------------------------------
(***************************************************************************)
(* readPacket and net_read, in either thread.                              *)
(***************************************************************************)

\* netconn_recv blocks: nothing has arrived.
Block(th) ==
    /\ rd[th].at = "enter" /\ net.left = 0 /\ Open /\ rx = <<>>
    /\ Reader(th, "blocked", TimedOut)
    /\ UNCHANGED <<isconnected, mutex, sub, pub, link, count>>

\* What the other thread takes its packet for, when th stores one of the headers S in
\* c->readbuf: it reads the type back from there once it has the rest.
ReadBack(th, S) ==
    LET o == rd[Other(th)] IN
    CASE o.at = "rest" /\ S # {} -> S
      [] o.at = "done" /\ o.got \notin {TimedOut, Failed} -> {o.got} \cup S
      [] OTHER -> {o.got}
Receive(th, at, r, back) ==
    rd' = [t \in Threads |-> IF t = th THEN [at |-> at, got |-> r]
                                       ELSE [rd[t] EXCEPT !.got = back]]

\* The header byte of the next packet; net.buf takes the rest, over the rest
\* another thread has still to read.
ReadHeader(th) ==
    /\ rd[th].at = "blocked" \/ (rd[th].at = "enter" /\ net.left = 0)
    /\ Open /\ rx # <<>>
    /\ \E back \in ReadBack(th, {Packet(Head(rx).t, 0)}) :
         /\ Receive(th, "rest", IF net.torn THEN Packet(Head(rx).t, 0) ELSE Head(rx), back)
         /\ net' = [net EXCEPT !.whose = th, !.left = Rest,
                               !.torn = @ \/ back # rd[Other(th)].got]
    /\ rx' = Tail(rx)
    /\ UNCHANGED <<isconnected, mutex, sub, pub, opened, up, broker, count>>

\* Remaining length and rest, as they were sent.
ReadRest(th) ==
    /\ rd[th].at = "rest" /\ net.whose = th /\ net.left = Rest
    /\ Reader(th, "done", rd[th].got)
    /\ net' = [net EXCEPT !.whose = "none", !.left = 0]
    /\ UNCHANGED <<isconnected, mutex, sub, pub, opened, up, rx, broker, count>>

\* The headers a torn packet may begin with, when it begins with one.
Stored(th, r) == {h \in Headers : rd[th].at = "enter" /\ r \in {h, Failed}}

\* A torn packet: the header is taken from the rest of another thread's packet, or
\* the rest was read or overwritten by the other thread.  What is left in net.buf
\* or arrives next is read as if it belonged here.
ReadTorn(th) ==
    /\ \/ rd[th].at = "enter" /\ net.left > 0
       \/ rd[th].at = "rest" /\ ~(net.whose = th /\ net.left = Rest)
    /\ \E left \in 0..Rest :
         /\ \/ left < net.left /\ UNCHANGED rx
            \/ Open /\ rx # <<>> /\ rx' = Tail(rx)
         /\ net' = [net EXCEPT !.whose = "none", !.left = left, !.torn = TRUE]
    /\ \E r \in Garbage : \E back \in ReadBack(th, Stored(th, r)) :
         Receive(th, "done", r, back)
    /\ UNCHANGED <<isconnected, mutex, sub, pub, opened, up, broker, count>>

\* The rest is gone, with the other thread or with an earlier connection, and nothing
\* arrives in its place.  A length that cannot be read is taken for 0: the header in
\* c->readbuf passes for the packet.
ReadNoRest(th) ==
    /\ rd[th].at = "rest" /\ net.left = 0 /\ rx = <<>>
    /\ \E r \in {TimedOut, Failed, rd[th].got} : Reader(th, "done", r)
    /\ UNCHANGED <<isconnected, mutex, sub, pub, link, count>>

\* The five seconds of netconn_set_recvtimeout are over.  An answer takes less,
\* unless the broker is slow, which counts as a fault.
ReadTimeout(th) ==
    /\ rd[th].at = "blocked" /\ rx = <<>>
    /\ \/ (mutex # th \/ up = <<>>) /\ UNCHANGED faults
       \/ mutex = th /\ up # <<>> /\ CanFault /\ faults' = faults + 1
    /\ Reader(th, "done", TimedOut)
    /\ UNCHANGED <<isconnected, mutex, sub, pub, link, sent, acked, cmds>>

\* The connection is closed, by the broker once it is shut down here, or deleted.
ReadError(th) ==
    /\ rd[th].at = "blocked" \/ (rd[th].at = "enter" /\ net.left = 0)
    /\ net.conn # "up" /\ rx = <<>>
    /\ Reader(th, "done", Failed)
    /\ UNCHANGED <<isconnected, mutex, sub, pub, link, count>>

\* cycle: a message is answered with a PUBACK; sendPacket does not send it when the
\* caller's timer is over (late), and cycle fails when it was not sent.  An unknown
\* type closes the session, and the caller reads on.
Acknowledges(th, late) == rd[th].got.t = "PUBLISH" /\ Writable /\ ~late
CycleFails(th, late) ==
    rd[th].got = Failed \/ (rd[th].got.t = "PUBLISH" /\ ~Acknowledges(th, late))
Answer(th, late) ==
    up' = IF Acknowledges(th, late) THEN Append(up, Packet("PUBACK", 0)) ELSE up
StayConnected(th) == isconnected' = (isconnected /\ rd[th].got # Unknown)

-----------------------------------------------------------------------------
(***************************************************************************)
(* The subscriber thread.                                                  *)
(***************************************************************************)

\* DisconnectNetwork, as far as its delay of 50 ms: the sending half is shut down.
DisconnectNetwork == net' = [net EXCEPT !.conn = IF @ = "up" THEN "closing" ELSE @]

SubTop ==
    /\ sub.pc = "top"
    /\ SubTo(IF isconnected THEN "check" ELSE "delay")
    /\ UNCHANGED <<isconnected, mutex, pub, rd, link, count>>

\* Mutated: no test for a connection that is NULL.
SubCloseAlways ==
    /\ sub.pc = "delay"
    /\ isconnected' = FALSE
    /\ DisconnectNetwork /\ SubTo("delete")
    /\ UNCHANGED <<mutex, pub, rd, opened, up, rx, broker, count>>

\* After the back-off delay: MQTTCloseSession and net_disconnect, without the lock.
SubClose ==
    /\ sub.pc = "delay"
    /\ isconnected' = FALSE
    /\ DisconnectNetwork /\ SubTo(IF net.conn = "none" THEN "disconnect" ELSE "delete")
    /\ UNCHANGED <<mutex, pub, rd, opened, up, rx, broker, count>>

\* Where MqttConnectBroker returns to.
Returns == IF sub.again THEN "pause" ELSE "check"

\* The rest of DisconnectNetwork, called by net_disconnect or by MqttConnectBroker:
\* the netconn is closed and deleted; net.buf stays.
SubDelete ==
    /\ \/ sub.pc = "delete" /\ SubTo("disconnect")
       \/ sub.pc = "drop" /\ SubTo(Returns)
    /\ net' = [net EXCEPT !.conn = "none"] /\ opened' = opened - 1
    /\ up' = <<>> /\ rx' = <<>>
    /\ broker' = [broker EXCEPT !.session = FALSE]
    /\ UNCHANGED <<isconnected, mutex, pub, rd, count>>

\* MQTTDisconnect: its packet finds no connection.
MQTTDisconnect ==
    /\ sub.pc = "disconnect" /\ mutex = "none"
    /\ isconnected' = FALSE
    /\ sub' = [pc |-> "open", again |-> FALSE]
    /\ UNCHANGED <<mutex, pub, rd, link, count>>

\* MqttConnectBroker: NewNetwork, which forgets a connection that is still open,
\* ConnectNetwork, MQTTClientInit.
ConnectNetwork ==
    /\ sub.pc = "open"
    /\ \/ /\ opened < Pool
          /\ net' = [conn |-> "up", whose |-> "none", left |-> 0, torn |-> FALSE]
          /\ opened' = opened + 1 /\ SubTo("connect") /\ UNCHANGED faults
       \/ /\ net' = [conn |-> "none", whose |-> "none", left |-> 0, torn |-> FALSE]
          /\ SubTo(Returns) /\ UNCHANGED opened
          /\ \/ opened = Pool /\ UNCHANGED faults
             \/ CanFault /\ faults' = faults + 1
    /\ isconnected' = FALSE
    /\ up' = <<>> /\ rx' = <<>> /\ broker' = [broker EXCEPT !.session = FALSE]
    /\ UNCHANGED <<mutex, pub, rd, sent, acked, cmds>>

\* MQTTConnect sends its packet, under the lock.
MQTTConnect ==
    /\ sub.pc = "connect" /\ mutex = "none"
    /\ IF ~isconnected /\ Writable
       THEN /\ mutex' = "sub" /\ SubTo("connack") /\ ReadNext("sub")
            /\ up' = Append(up, Packet("CONNECT", 0)) /\ UNCHANGED net
       ELSE DisconnectNetwork /\ SubTo("drop") /\ UNCHANGED <<mutex, rd, up>>
    /\ UNCHANGED <<isconnected, pub, opened, rx, broker, count>>

\* Mutated: the return code in the CONNACK is not looked at.
ConnectAnswerAny ==
    /\ sub.pc = "connack" /\ rd["sub"].at = "done"
    /\ \E late, over \in BOOLEAN : LET r == rd["sub"].got IN
       /\ late => over
       /\ Answer("sub", late)
       /\ IF r.t \in {"CONNACK", "REFUSED"} \/ r = TimedOut \/ CycleFails("sub", late) \/ over
          THEN /\ mutex' = "none" /\ StopReading("sub")
               /\ IF r.t \in {"CONNACK", "REFUSED"}
                  THEN isconnected' = TRUE /\ SubTo("subscribe") /\ UNCHANGED net
                  ELSE DisconnectNetwork /\ SubTo("drop") /\ UNCHANGED isconnected
          ELSE ReadNext("sub") /\ StayConnected("sub") /\ UNCHANGED <<mutex, sub, net>>
    /\ UNCHANGED <<pub, opened, rx, broker, count>>

\* waitfor CONNACK: the connection is given up when the broker refuses, cycle fails,
\* or the five seconds are over.
ConnectAnswer ==
    /\ sub.pc = "connack" /\ rd["sub"].at = "done"
    /\ \E late, over \in BOOLEAN : LET r == rd["sub"].got IN
       /\ late => over
       /\ Answer("sub", late)
       /\ IF r.t \in {"CONNACK", "REFUSED"} \/ r = TimedOut \/ CycleFails("sub", late) \/ over
          THEN /\ mutex' = "none" /\ StopReading("sub")
               /\ IF r.t = "CONNACK"
                  THEN isconnected' = TRUE /\ SubTo("subscribe") /\ UNCHANGED net
                  ELSE DisconnectNetwork /\ SubTo("drop") /\ UNCHANGED isconnected
          ELSE ReadNext("sub") /\ StayConnected("sub") /\ UNCHANGED <<mutex, sub, net>>
    /\ UNCHANGED <<pub, opened, rx, broker, count>>

\* MQTTSubscribe; MqttConnectBroker does not look at its result.
MQTTSubscribe ==
    /\ sub.pc = "subscribe" /\ mutex = "none"
    /\ IF isconnected /\ Writable
       THEN /\ mutex' = "sub" /\ SubTo("suback") /\ ReadNext("sub")
            /\ up' = Append(up, Packet("SUBSCRIBE", 0))
            /\ UNCHANGED isconnected
       ELSE /\ isconnected' = FALSE /\ SubTo(Returns)
            /\ UNCHANGED <<mutex, rd, up>>
    /\ UNCHANGED <<pub, net, opened, rx, broker, count>>

SubscribeAnswer ==
    /\ sub.pc = "suback" /\ rd["sub"].at = "done"
    /\ \E late, over \in BOOLEAN : LET r == rd["sub"].got IN
       /\ late => over
       /\ Answer("sub", late)
       /\ IF r.t = "SUBACK" \/ r = TimedOut \/ CycleFails("sub", late) \/ over
          THEN /\ isconnected' = (r.t = "SUBACK" /\ isconnected)
               /\ mutex' = "none" /\ SubTo(Returns) /\ StopReading("sub")
          ELSE ReadNext("sub") /\ StayConnected("sub") /\ UNCHANGED <<mutex, sub>>
    /\ UNCHANGED <<pub, net, opened, rx, broker, count>>

\* The second test of isconnected: MQTTYield, or the branch that connects anew
\* without net_disconnect.
SubCheck ==
    /\ sub.pc = "check"
    /\ IF isconnected THEN SubTo("yield") /\ ReadNext("sub")
       ELSE sub' = [pc |-> "open", again |-> TRUE] /\ UNCHANGED rd
    /\ UNCHANGED <<isconnected, mutex, pub, link, count>>

\* MQTTYield, without the lock: until its 200 ms are over, or cycle fails.  A read
\* takes up to five seconds, so that a message may well come late.
MQTTYield ==
    /\ sub.pc = "yield" /\ rd["sub"].at = "done"
    /\ \E late, over \in BOOLEAN :
       /\ late \/ rd["sub"].got = TimedOut => over
       /\ Answer("sub", late)
       /\ IF CycleFails("sub", late)
          THEN isconnected' = FALSE /\ SubTo("top") /\ StopReading("sub")
          ELSE /\ StayConnected("sub")
               /\ IF over THEN SubTo("pause") /\ StopReading("sub")
                          ELSE ReadNext("sub") /\ UNCHANGED sub
    /\ UNCHANGED <<mutex, pub, net, opened, rx, broker, count>>

\* osDelay(200).
SubPause ==
    /\ sub.pc = "pause" /\ SubTo("top")
    /\ UNCHANGED <<isconnected, mutex, pub, rd, link, count>>

-----------------------------------------------------------------------------
(***************************************************************************)
(* The publisher thread.                                                   *)
(***************************************************************************)
\* A pass of its loop in which nothing is published.
PubIdle == pub = "sleep" /\ UNCHANGED vars

PubWake ==
    /\ pub = "sleep" /\ isconnected /\ sent < MaxPub
    /\ pub' = "publish"
    /\ UNCHANGED <<isconnected, mutex, sub, rd, link, count>>

\* Mutated: the lock is not given back when the session is gone.
MQTTPublishKeepsLock ==
    /\ pub = "publish" /\ mutex = "none"
    /\ IF isconnected /\ Writable
       THEN /\ mutex' = "pub" /\ pub' = "puback" /\ ReadNext("pub")
            /\ sent' = sent + 1 /\ up' = Append(up, Packet("PUBLISH", sent'))
            /\ UNCHANGED isconnected
       ELSE /\ isconnected' = FALSE /\ pub' = "sleep" /\ mutex' = "pub"
            /\ UNCHANGED <<rd, sent, up>>
    /\ UNCHANGED <<sub, net, opened, rx, broker, acked, cmds, faults>>

\* MQTTPublish takes the lock, looks again, and sends its packet.
MQTTPublish ==
    /\ pub = "publish" /\ mutex = "none"
    /\ IF isconnected /\ Writable
       THEN /\ mutex' = "pub" /\ pub' = "puback" /\ ReadNext("pub")
            /\ sent' = sent + 1 /\ up' = Append(up, Packet("PUBLISH", sent'))
            /\ UNCHANGED isconnected
       ELSE /\ isconnected' = FALSE /\ pub' = "sleep"
            /\ UNCHANGED <<mutex, rd, sent, up>>
    /\ UNCHANGED <<sub, net, opened, rx, broker, acked, cmds, faults>>

\* History: a PUBACK read whole, on a connection of which no packet was torn.
Whole(r) == r.t = "PUBACK" /\ r.n # 0

\* Mutated: a time-out does not close the session.
PublishAnswerKeepsSession ==
    /\ pub = "puback" /\ rd["pub"].at = "done"
    /\ \E late, over \in BOOLEAN : LET r == rd["pub"].got IN
       /\ late => over
       /\ Answer("pub", late)
       /\ IF r.t = "PUBACK" \/ r = TimedOut \/ CycleFails("pub", late) \/ over
          THEN /\ isconnected' = (~CycleFails("pub", late) /\ isconnected)
               /\ acked' = IF Whole(r) THEN acked \cup {sent} ELSE acked
               /\ mutex' = "none" /\ pub' = "sleep" /\ StopReading("pub")
          ELSE ReadNext("pub") /\ StayConnected("pub") /\ UNCHANGED <<acked, mutex, pub>>
    /\ UNCHANGED <<sub, net, opened, rx, broker, sent, cmds, faults>>

\* Mutated: waitfor reads on after a time-out.
PublishAnswerWaits ==
    /\ pub = "puback" /\ rd["pub"].at = "done"
    /\ \E late \in BOOLEAN : LET r == rd["pub"].got IN
       /\ Answer("pub", late)
       /\ IF r.t = "PUBACK" \/ CycleFails("pub", late)
          THEN /\ isconnected' = (r.t = "PUBACK" /\ isconnected)
               /\ acked' = IF Whole(r) THEN acked \cup {sent} ELSE acked
               /\ mutex' = "none" /\ pub' = "sleep" /\ StopReading("pub")
          ELSE ReadNext("pub") /\ StayConnected("pub") /\ UNCHANGED <<acked, mutex, pub>>
    /\ UNCHANGED <<sub, net, opened, rx, broker, sent, cmds, faults>>

\* waitfor: any PUBACK is taken for the one it waits for; a failure, a time-out or
\* another packet that comes when the five seconds are over ends the session.
PublishAnswer ==
    /\ pub = "puback" /\ rd["pub"].at = "done"
    /\ \E late, over \in BOOLEAN : LET r == rd["pub"].got IN
       /\ late => over
       /\ Answer("pub", late)
       /\ IF r.t = "PUBACK" \/ r = TimedOut \/ CycleFails("pub", late) \/ over
          THEN /\ isconnected' = (r.t = "PUBACK" /\ isconnected)
               /\ acked' = IF Whole(r) THEN acked \cup {sent} ELSE acked
               /\ mutex' = "none" /\ pub' = "sleep" /\ StopReading("pub")
          ELSE ReadNext("pub") /\ StayConnected("pub") /\ UNCHANGED <<acked, mutex, pub>>
    /\ UNCHANGED <<sub, net, opened, rx, broker, sent, cmds, faults>>

-----------------------------------------------------------------------------
(***************************************************************************)
(* The broker and the network.                                             *)
(***************************************************************************)

\* The broker takes the next packet and answers it.
BrokerStep ==
    /\ Open /\ up # <<>>
    /\ LET p == Head(up) IN
       CASE p.t = "CONNECT" ->
              /\ broker' = [broker EXCEPT !.session = TRUE]
              /\ rx' = Append(rx, Packet("CONNACK", 0))
         [] p.t = "SUBSCRIBE" ->
              rx' = Append(rx, Packet("SUBACK", 0)) /\ UNCHANGED broker
         [] p.t = "PUBLISH" ->
              /\ broker' = [broker EXCEPT !.stored = @ \cup {p.n}]
              /\ rx' = Append(rx, Packet("PUBACK", p.n))
         [] OTHER -> UNCHANGED <<broker, rx>>
    /\ up' = Tail(up)
    /\ UNCHANGED <<isconnected, mutex, sub, pub, rd, net, opened, count>>

\* The broker publishes a message to the topic subscribed to.
BrokerPublish ==
    /\ Open /\ broker.session /\ cmds < MaxCmd
    /\ cmds' = cmds + 1 /\ rx' = Append(rx, Packet("PUBLISH", 0))
    /\ UNCHANGED <<isconnected, mutex, sub, pub, rd, net, opened, up, broker, sent,
                   acked, faults>>

\* The broker refuses the session, or does not answer.
BrokerFault ==
    /\ Open /\ up # <<>> /\ CanFault
    /\ \/ Head(up).t = "CONNECT" /\ rx' = Append(rx, Packet("REFUSED", 0))
       \/ UNCHANGED rx
    /\ up' = Tail(up) /\ faults' = faults + 1
    /\ UNCHANGED <<isconnected, mutex, sub, pub, rd, net, opened, broker, sent,
                   acked, cmds>>

\* The connection breaks.
Cut ==
    /\ Open /\ CanFault
    /\ net' = [net EXCEPT !.conn = "down"] /\ rx' = <<>> /\ up' = <<>>
    /\ faults' = faults + 1
    /\ UNCHANGED <<isconnected, mutex, sub, pub, rd, opened, broker, sent, acked,
                   cmds>>

ReadStep(th) == \/ Block(th) \/ ReadHeader(th) \/ ReadRest(th) \/ ReadTorn(th)
                \/ ReadNoRest(th) \/ ReadTimeout(th) \/ ReadError(th)
SubStep == \/ SubTop \/ SubClose \/ SubDelete \/ MQTTDisconnect \/ ConnectNetwork
           \/ MQTTConnect \/ ConnectAnswer \/ MQTTSubscribe \/ SubscribeAnswer \/ SubCheck
           \/ MQTTYield \/ SubPause \/ ReadStep("sub")
PubStep == PubWake \/ MQTTPublish \/ PublishAnswer \/ ReadStep("pub")

Next == SubStep \/ PubStep \/ PubIdle \/ BrokerStep \/ BrokerPublish
        \/ BrokerFault \/ Cut

\* Both threads are scheduled, their delays and time-outs end, and the broker
\* answers.  Its messages and the faults are under no obligation.
Fairness == WF_vars(SubStep) /\ WF_vars(PubStep) /\ WF_vars(BrokerStep)

Spec == Init /\ [][Next]_vars /\ Fairness

-----------------------------------------------------------------------------
(***************************************************************************)
(* Properties.                                                             *)
(***************************************************************************)
Packets == [t : FromBroker \cup ToBroker \cup {"timeout", "failed", "unknown"},
            n : 0..MaxPub]

TypeOK ==
    /\ isconnected \in BOOLEAN /\ mutex \in Threads \cup {"none"}
    /\ sub \in [pc : {"top", "delay", "delete", "disconnect", "open", "connect", "connack",
                      "drop", "subscribe", "suback", "check", "yield", "pause"},
                again : BOOLEAN]
    /\ pub \in {"sleep", "publish", "puback"}
    /\ rd \in [Threads -> [at : {"no", "enter", "blocked", "rest", "done"},
                           got : Packets]]
    /\ net \in [conn : {"none", "up", "closing", "down"}, whose : Threads \cup {"none"},
                left : 0..Rest, torn : BOOLEAN]
    /\ opened \in 0..Pool
    /\ up \in Seq(Packets) /\ rx \in Seq(Packets)
    /\ broker \in [session : BOOLEAN, stored : SUBSET (1..MaxPub)]
    /\ sent \in 0..MaxPub /\ acked \subseteq 1..MaxPub
    /\ cmds \in 0..MaxCmd /\ faults \in 0..MaxFault

\* ConnectNetwork cleans up a connection there was before, so that the link never
\* holds two netconns.  (MQTTInterface.c: "Cleanup prévio".)
OneConnection == opened <= 1

\* MQTTClient.h: MQTTPublish waits for all acknowledgements to complete.  When it
\* returns MQTT_SUCCESS the broker has this very publication, although waitfor
\* compares no identifiers, answers come late and the other thread steals them:
\* a failed publication is the last one of its connection.  (A connection of which
\* a packet was torn is excepted: bytes that look like a PUBACK end a publication,
\* and its true PUBACK ends the next one.)
AckedIsStored == acked \subseteq broker.stored

\* While the client thinks it is connected, the broker has accepted a session on
\* the connection that net holds, unless that broke.
SessionIsReal ==
    isconnected => net.conn = "down" \/ (net.conn = "up" /\ broker.session)

\* Whatever is stolen, lost or torn, every publication comes to an end: neither
\* the lock nor the read hold the publisher for ever.
PublishReturns == pub # "sleep" ~> pub = "sleep"

\* The link does not stay down for good: after every failure the subscriber thread
\* gets a session again, unless the netconns it has forgotten (OneConnection) were
\* the last ones.  A message that comes late in a yield is such a failure: its PUBACK
\* is not sent, and the client closes a session that was well.
Reconnects == []<>isconnected \/ <>[](opened = Pool /\ net.conn = "none")
=============================================================================

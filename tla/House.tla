-------------------------------- MODULE House --------------------------------
(***************************************************************************)
(* A whole house: sensor boxes, the gateway and the backend's ingester,    *)
(* joined by an ESP-NOW radio that loses packets and replies, and by an    *)
(* MQTT path that loses messages and keeps the order of the rest.          *)
(*                                                                         *)
(* A reply is heard only if the box is still listening on the gateway's    *)
(* channel when the receiver task gets round to it, so late replies - to a *)
(* retry, say, heard while the next reading is on the air - come from the  *)
(* interleaving of the two machines.  A box takes any frame for a reply.   *)
(***************************************************************************)
EXTENDS Sensor, Gateway

CONSTANTS
    Strangers,       \* TRUE: other houses are in radio range
    InfluxFaults,    \* TRUE: a database write may fail
    MaxRestarts      \* bound: restarts of the ingester

ASSUME HouseAssumption ==
    Strangers \in BOOLEAN /\ InfluxFaults \in BOOLEAN /\ MaxRestarts \in Nat

VARIABLES
    lastSeq, stored, accepted, restarts,   \* the ingester's
    heard                                  \* readings the gateway answered, for properties

Backend == INSTANCE Ingest WITH Source <- Device

ingestVars == <<lastSeq, stored, accepted, restarts>>

houseVars == <<sensorVars, gatewayVars, ingestVars, heard>>

HouseInit ==
    /\ SensorInit /\ GatewayInit /\ Backend!IngestInit
    /\ heard = [s \in Sensor |-> {}]

-----------------------------------------------------------------------------
(* A box broadcasts on its next channel; only on the gateway's channel can *)
(* the packet be heard, and even there it may be lost.                     *)
Transmit(s) ==
    /\ Hop(s)
    /\ \/ /\ NextChannel(s) = channel
          /\ OnRecv([device |-> s, reading |-> job[s].reading])
       \/ UNCHANGED gatewayVars
    /\ UNCHANGED <<ingestVars, heard>>

(* A packet of another house, or noise, takes a place in the queue.        *)
Noise == Strangers /\ OnRecv(Junk) /\ UNCHANGED <<sensorVars, ingestVars, heard>>

(* on_recv of a listening box takes any frame on its channel: that of      *)
(* another house, or what another box of this one has just broadcast.      *)
Overhear(s) ==
    /\ \/ Strangers
       \/ \E t \in Sensor \ {s} : pc[t] = "listen" /\ job[t].channel = job[s].channel
    /\ Hear(s, Foreign)
    /\ UNCHANGED <<gatewayVars, ingestVars, heard>>

(* The gateway answers a packet; the box hears it, or not.                 *)
Answer ==
    /\ RxReply
    /\ \/ \E signed \in BOOLEAN :
            /\ job[Packet.device].channel = channel
            /\ Hear(Packet.device, ReplyTo(Packet.reading, PacketOrder, signed))
       \/ UNCHANGED sensorVars
    /\ heard' = [heard EXCEPT ![Packet.device] = @ \cup {Packet.reading}]
    /\ UNCHANGED ingestVars

(* The publisher sends the oldest reading; it is lost or ingested.         *)
PublishOne ==
    /\ Publish
    /\ \/ Backend!OnMessage(Head(dataQueue).device, Head(dataQueue).reading)
       \/ UNCHANGED ingestVars
    /\ UNCHANGED <<sensorVars, heard>>

RestartIngest ==
    Backend!IngestRestart /\ UNCHANGED <<sensorVars, gatewayVars, heard>>

BoxStep ==
    /\ \E s \in Sensor : Wake(s) \/ WakeStep(s) \/ PowerLoss(s)
    /\ UNCHANGED <<gatewayVars, ingestVars, heard>>

GatewayStep ==
    /\ \/ RxReject \/ RxEnqueue \/ RxGiveUp \/ ReaderStep
       \/ \E s \in Sensor, o \in Order : QueueCommand(s, o)
       \/ ChangeChannel \/ GatewayRestart
    /\ UNCHANGED <<sensorVars, ingestVars, heard>>

HouseNext ==
    \/ \E s \in Sensor : Transmit(s) \/ Overhear(s)
    \/ Noise \/ Answer \/ PublishOne \/ RestartIngest \/ BoxStep \/ GatewayStep

HouseSpec == HouseInit /\ [][HouseNext]_houseVars

-----------------------------------------------------------------------------
(* Properties                                                              *)

HouseTypeOK ==
    /\ SensorTypeOK /\ GatewayTypeOK /\ Backend!IngestTypeOK
    /\ heard \in [Sensor -> SUBSET Reading]

(* No restart makes the backend throw real data away as a replay           *)
(* (seq_counter.h, "THE PROBLEM THIS SOLVES"): when the next reading to be *)
(* published would be dropped, it or one the box took later was accepted.  *)
NoFalseReplayOf(d) ==
    dataQueue # <<>> /\ Head(dataQueue).device = d =>
        LET r == Head(dataQueue).reading
        IN  Backend!IsReplay(d, r) => \E a \in accepted[d] : a.n >= r.n

NoFalseReplay == \A d \in Device : NoFalseReplayOf(d)

(* The place of the reading whose number the ingester remembers.           *)
Reached(d) ==
    IF lastSeq[d] = -1 THEN 0
    ELSE (CHOOSE r \in accepted[d] : r.seq = lastSeq[d]).n

(* The house keeps the promise of module ReadingFeed, whatever is lost,    *)
(* late, retried or restarted; a restarted ingester forgets where it was.  *)
Feed == INSTANCE ReadingFeed WITH
    Source <- Device,
    count <- [d \in Device |-> IF d = Self THEN self.n ELSE taken[d]],
    feed  <- [d \in Device |-> [i \in DOMAIN stored[d] |-> stored[d][i].n]],
    reached <- [d \in Device |-> Reached(d)]

FeedPromise == Feed!Spec

(* An order that restarts a box does so once, however often it is re-sent  *)
(* (EspNow.cpp: "a landed OTA is not re-applied on later check-ins").      *)
LandsOnce == \A s \in Sensor, o \in Order : landed[s][o] <= 1

(* A reading reported as delivered was heard by the gateway (EspNow.h:     *)
(* "true = the gateway replied (it heard us)").                            *)
DeliveredMeansHeard ==
    \A s \in Sensor : job[s].delivered => job[s].reading \in heard[s]

(* An order cleared because the boot count rose was obeyed by a box        *)
(* (EspNow.h: "the sensor has rebooted (i.e. it took the OTA)").           *)
ClearedMeansLanded ==
    \A o \in cleared : \E s \in Sensor : landed[s][o] > 0

=============================================================================

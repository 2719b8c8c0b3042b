------------------------------- MODULE Gateway -------------------------------
(***************************************************************************)
(* The always-on gateway: core/tasks.cpp with the gateway side of          *)
(* drivers/EspNow.cpp.  The WiFi driver's callback fills s_rx_queue; the   *)
(* receiver task answers each packet and hands the reading on; the sensor  *)
(* task adds the gateway's own readings; the publisher empties             *)
(* g_data_queue towards MQTT, and MQTT commands land in the command table. *)
(* The three tasks interleave at every blocking call.                      *)
(***************************************************************************)
EXTENDS CommandTable, Sequences

CONSTANTS
    Self,            \* the gateway as the device its own readings come from
    RX_QUEUE,        \* packets s_rx_queue holds; 8 in the firmware
    DATA_QUEUE_SIZE, \* readings g_data_queue holds
    Junk,            \* a packet that fails decryption, validation or house
    NoItem,          \* a task with no reading in hand
    GwChannels,      \* channels the access point may put the gateway on
    MaxOwn,          \* bound: readings the gateway takes of its own
    OnAir            \* readings that reach a gateway modelled on its own

ASSUME GatewayAssumption ==
    /\ Self \notin Sensor
    /\ RX_QUEUE \in Nat \ {0}
    /\ DATA_QUEUE_SIZE \in Nat \ {0}
    /\ GwChannels # {}
    /\ MaxOwn \in 0 .. MaxReadings
    /\ OnAir \subseteq Reading

Device == Sensor \cup {Self}

Packets == [device : Sensor, reading : Reading] \cup {Junk}

Item == [device : Device, reading : Reading]

ASSUME JunkAssumption == Junk \notin Item /\ NoItem \notin Item

VARIABLES
    rxQueue,    \* s_rx_queue
    rxItem,     \* the reading task_espnow_receiver wants to queue
    selfItem,   \* the reading task_sensor_reader wants to queue
    dataQueue,  \* g_data_queue
    table,      \* s_pending
    self,       \* seq_boot_base's boot count in flash, self_seq in RAM
    channel,    \* the channel the access point keeps the radio on
    \* what the properties remember, read by no step:
    issued,     \* orders queued so far
    handed,     \* how often each order was handed out
    cleared     \* orders cleared because the box restarted

gatewayVars == <<rxQueue, rxItem, selfItem, dataQueue, table, self, channel,
                 issued, handed, cleared>>

(* A slot in use holds an order that was queued; one never used is empty.  *)
SlotType ==
    [active : BOOLEAN, device : Sensor \cup {NoDevice},
     order : Order \cup {NoOrder}, tries : 0 .. PENDING_CMD_TRIES,
     boot : 0 .. HALF - 1]

GatewayTypeOK ==
    /\ rxQueue \in Seq(Packets)
    /\ Len(rxQueue) <= RX_QUEUE
    /\ rxItem \in Item \cup {NoItem}
    /\ selfItem \in Item \cup {NoItem}
    /\ dataQueue \in Seq(Item)
    /\ Len(dataQueue) <= DATA_QUEUE_SIZE
    /\ table \in [Slot -> SlotType]
    /\ self \in [boot : Nat, seq : Word, n : 0 .. MaxOwn]
    /\ channel \in GwChannels
    /\ issued \subseteq Order
    /\ handed \in [Order -> Nat]
    /\ cleared \subseteq Order

GatewayInit ==
    /\ rxQueue = <<>>
    /\ rxItem = NoItem
    /\ selfItem = NoItem
    /\ dataQueue = <<>>
    /\ table = EmptyTable
    /\ self = [boot |-> 1, seq |-> BootBase(1), n |-> 0]
    /\ channel \in GwChannels
    /\ issued = {}
    /\ handed = [o \in Order |-> 0]
    /\ cleared = {}

-----------------------------------------------------------------------------
(* Mutant: the queue has no limit.                                         *)
OnRecvUnbounded(packet) ==
    /\ rxQueue' = Append(rxQueue, packet)
    /\ UNCHANGED <<rxItem, selfItem, dataQueue, table, self, channel,
                   issued, handed, cleared>>

(* on_recv, gateway side: a full queue drops the packet.                   *)
OnRecv(packet) ==
    /\ rxQueue' = IF Len(rxQueue) < RX_QUEUE THEN Append(rxQueue, packet) ELSE rxQueue
    /\ UNCHANGED <<rxItem, selfItem, dataQueue, table, self, channel,
                   issued, handed, cleared>>

(* task_espnow_receiver, RX-1 to RX-3: not one of our readings.            *)
RxReject ==
    /\ rxItem = NoItem /\ rxQueue # <<>> /\ Head(rxQueue) = Junk
    /\ rxQueue' = Tail(rxQueue)
    /\ UNCHANGED <<rxItem, selfItem, dataQueue, table, self, channel,
                   issued, handed, cleared>>

Packet == Head(rxQueue)
PacketBoot == BootOf(Packet.reading.seq)

(* RX-4: take the box's order, if any, and reply.  The reply is            *)
(* ReplyTo(reading, PacketOrder, signed); whether it reaches the box is    *)
(* the environment's choice.                                               *)
PacketOrder == OrderFor(table, Packet.device, PacketBoot)

RxReply ==
    LET p == Packet
    IN  /\ rxItem = NoItem /\ rxQueue # <<>> /\ p # Junk
        /\ rxQueue' = Tail(rxQueue)
        /\ table' = Taken(table, p.device, PacketBoot)
        /\ rxItem' = p
        /\ handed' = [o \in Order |-> handed[o] + IF o = PacketOrder THEN 1 ELSE 0]
        /\ cleared' = cleared \cup ({ClearedFor(table, p.device, PacketBoot)} \ {NoOrder})
        /\ UNCHANGED <<selfItem, dataQueue, self, channel, issued>>

(* RX-5: hand the reading on, or drop it after a second of a full queue.   *)
HasRoom == Len(dataQueue) < DATA_QUEUE_SIZE

RxEnqueue ==
    /\ rxItem # NoItem /\ HasRoom
    /\ dataQueue' = Append(dataQueue, rxItem)
    /\ rxItem' = NoItem
    /\ UNCHANGED <<rxQueue, selfItem, table, self, channel,
                   issued, handed, cleared>>

(* Mutant: the receiver waits for room however long it takes.              *)
RxGiveUpNever ==
    /\ rxItem # NoItem /\ ~HasRoom
    /\ UNCHANGED gatewayVars

RxGiveUp ==
    /\ rxItem # NoItem /\ ~HasRoom
    /\ rxItem' = NoItem
    /\ UNCHANGED <<rxQueue, selfItem, dataQueue, table, self, channel,
                   issued, handed, cleared>>

-----------------------------------------------------------------------------
(* task_sensor_reader: the gateway's own reading, one every interval.      *)
OwnReading ==
    /\ selfItem = NoItem
    /\ self.n < MaxOwn /\ MessageLeft(self.seq)
    /\ LET r == [n |-> self.n + 1, seq |-> NextSeq(self.seq)]
       IN  /\ selfItem' = [device |-> Self, reading |-> r]
           /\ self' = [self EXCEPT !.n = r.n, !.seq = r.seq]
    /\ UNCHANGED <<rxQueue, rxItem, dataQueue, table, channel,
                   issued, handed, cleared>>

OwnEnqueue ==
    /\ selfItem # NoItem /\ HasRoom
    /\ dataQueue' = Append(dataQueue, selfItem)
    /\ selfItem' = NoItem
    /\ UNCHANGED <<rxQueue, rxItem, table, self, channel,
                   issued, handed, cleared>>

OwnGiveUp ==
    /\ selfItem # NoItem /\ ~HasRoom
    /\ selfItem' = NoItem
    /\ UNCHANGED <<rxQueue, rxItem, dataQueue, table, self, channel,
                   issued, handed, cleared>>

-----------------------------------------------------------------------------
(* task_publisher: the reading leaves the queue whether or not             *)
(* mqtt_publish_data succeeds.                                             *)
Publish ==
    /\ dataQueue # <<>>
    /\ dataQueue' = Tail(dataQueue)
    /\ UNCHANGED <<rxQueue, rxItem, selfItem, table, self, channel,
                   issued, handed, cleared>>

(* on_mqtt_command, relayed to a box: called from the publisher's          *)
(* mqtt_loop.                                                              *)
QueueCommand(s, o) ==
    /\ o \notin issued
    /\ table' = Queued(table, s, o)
    /\ issued' = issued \cup {o}
    /\ UNCHANGED <<rxQueue, rxItem, selfItem, dataQueue, self, channel,
                   handed, cleared>>

(* The access point moves to another channel and the gateway with it.      *)
ChangeChannel ==
    /\ channel' \in GwChannels \ {channel}
    /\ UNCHANGED <<rxQueue, rxItem, selfItem, dataQueue, table, self,
                   issued, handed, cleared>>

(* A REBOOT command, the watchdog or a power cut: everything in RAM goes,  *)
(* and the reader task starts the next boot's block of numbers.            *)
GatewayRestart ==
    /\ BootLeft(self.boot)
    /\ rxQueue' = <<>>
    /\ rxItem' = NoItem
    /\ selfItem' = NoItem
    /\ dataQueue' = <<>>
    /\ table' = EmptyTable
    /\ self' = [self EXCEPT !.boot = @ + 1, !.seq = BootBase(self.boot + 1)]
    /\ channel' \in GwChannels
    /\ UNCHANGED <<issued, handed, cleared>>

-----------------------------------------------------------------------------
ReceiverStep == RxReject \/ RxReply \/ RxEnqueue \/ RxGiveUp
ReaderStep   == OwnReading \/ OwnEnqueue \/ OwnGiveUp

(* Packets arrive from any box, and from strangers, at any time.           *)
Arrival == \E packet \in [device : Sensor, reading : OnAir] \cup {Junk} :
               OnRecv(packet)

GatewayNext ==
    \/ Arrival \/ ReceiverStep \/ ReaderStep \/ Publish
    \/ \E s \in Sensor, o \in Order : QueueCommand(s, o)
    \/ ChangeChannel \/ GatewayRestart

GatewaySpec == GatewayInit /\ [][GatewayNext]_gatewayVars

(* FreeRTOS runs the receiver (the highest priority) whenever it is ready; *)
(* nothing is asked of the publisher, whose network may be gone for good.  *)
GatewayFairSpec == GatewaySpec /\ WF_gatewayVars(ReceiverStep)

-----------------------------------------------------------------------------
(* Properties                                                              *)

(* A box never has two orders in the table: the first would hide the       *)
(* second, and each would count its own check-ins.                         *)
OneSlotPerBox ==
    \A i, j \in Slot :
        table[i].active /\ table[j].active /\ table[i].device = table[j].device
            => i = j

(* An order goes out on at most PENDING_CMD_TRIES check-ins, whatever boot *)
(* counts the check-ins carry and wherever the gateway restarts.           *)
HandedAtMost == \A o \in Order : handed[o] <= PENDING_CMD_TRIES

(* A box's mailbox: the order of its slot and the tries left of it.        *)
MailIn(t, s) ==
    LET own == SlotsOf(t, s)
    IN  IF own = {} THEN [order |-> NoOrder, left |-> 0]
        ELSE [order |-> t[First(own)].order, left |-> t[First(own)].tries]

(* The slots, tries and boot halves of espnow_queue_command and            *)
(* espnow_take_pending keep the promise of module Courier: no order is     *)
(* lost, withdrawn or turned away for any other reason than it names.      *)
Mail == INSTANCE Courier WITH
    Box <- Sensor, Room <- SLOTS, Tries <- PENDING_CMD_TRIES,
    waiting <- [s \in Sensor |-> MailIn(table, s)]

CourierPromise == Mail!Spec

(* A full receive queue drains even if nothing is ever published: the      *)
(* receiver does not wait for the publisher.                               *)
ReceiverNeverStuck == Len(rxQueue) = RX_QUEUE ~> Len(rxQueue) < RX_QUEUE

=============================================================================

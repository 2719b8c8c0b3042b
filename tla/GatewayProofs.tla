---------------------------- MODULE GatewayProofs ----------------------------
(***************************************************************************)
(* Proofs about Gateway, for any number of boxes, orders, slots and tries, *)
(* queues of any length and boot halves of any width: the types, that a    *)
(* box never has two slots, and that an order goes out on at most          *)
(* PENDING_CMD_TRIES check-ins.                                            *)
(*                                                                         *)
(* HandedAtMost rests on the budget of a slot: what was handed out and the *)
(* tries that are left never exceed PENDING_CMD_TRIES.  That an order sits *)
(* in one slot only keeps two slots from spending one budget.              *)
(*                                                                         *)
(* The refinement of Courier reads a box's mailbox off its slot.  It rests *)
(* on the same invariant and on SlotInUse: boxes that wait and slots in    *)
(* use then match one to one, and a box restarted after an order went out  *)
(* only if it did go out.                                                  *)
(*                                                                         *)
(* ClearedWasHanded rests on HandedInv: a slot that carries a boot count   *)
(* was handed out.                                                         *)
(***************************************************************************)
EXTENDS Gateway, CounterLemmas, FiniteSetTheorems

TableType == [Slot -> SlotType]

(* An order is queued for one box, once.                                   *)
OneSlotPerOrder ==
    \A i, j \in Slot :
        table[i].active /\ table[j].active /\ table[i].order = table[j].order
            => i = j

(* A slot in use holds an order that was queued, with tries left.          *)
SlotBudget ==
    \A i \in Slot : table[i].active =>
        /\ table[i].order \in issued
        /\ table[i].tries > 0
        /\ handed[table[i].order] + table[i].tries <= PENDING_CMD_TRIES

(* An order that was not queued was not handed out.                        *)
NotBeforeIssued == \A o \in Order \ issued : handed[o] = 0

TableInv ==
    OneSlotPerBox /\ OneSlotPerOrder /\ SlotBudget /\ NotBeforeIssued /\ HandedAtMost

GatewayInv == GatewayTypeOK /\ TableInv

-----------------------------------------------------------------------------
(* The command table                                                       *)

(* The first slot of some is one of them.                                  *)
LEMMA FirstIn == ASSUME NEW S \in SUBSET Slot, S # {} PROVE First(S) \in S
  <1>1. S \in SUBSET Nat
    BY TableAssumption DEF Slot
  <1>2. PICK c \in S : \A d \in S : c <= d
    BY <1>1, Smallest
  <1> QED BY <1>2 DEF First

(* Queueing an order changes one slot, the box's own if it has one, or none. *)
LEMMA QueuedCases ==
  ASSUME NEW t \in TableType, NEW s \in Sensor, NEW o \in Order
  PROVE  \/ Queued(t, s, o) = t
         \/ \E i \in Slot :
              /\ Queued(t, s, o) = [t EXCEPT ![i] = NewSlot(s, o)]
              /\ \A j \in Slot : t[j].active /\ t[j].device = s
                                   => t[i].active /\ t[i].device = s
  <1> DEFINE own == SlotsOf(t, s)
             candidates == IF own # {} THEN own ELSE FreeSlots(t)
  <1>1. candidates \in SUBSET Slot
    BY DEF SlotsOf, FreeSlots
  <1>2. CASE candidates = {}
    BY <1>2 DEF Queued
  <1>3. CASE candidates # {}
    <2>1. First(candidates) \in candidates
      BY <1>1, <1>3, FirstIn
    <2>2. Queued(t, s, o) = [t EXCEPT ![First(candidates)] = NewSlot(s, o)]
      BY <1>3 DEF Queued
    <2>3. ASSUME NEW j \in Slot, t[j].active, t[j].device = s
          PROVE  First(candidates) \in own
      BY <2>1, <2>3 DEF SlotsOf
    <2> QED BY <1>1, <2>1, <2>2, <2>3 DEF SlotsOf
  <1> QED BY <1>2, <1>3

(* A check-in of a box without an order changes nothing; otherwise one of  *)
(* the box's slots is cleared, or delivered once more.                     *)
LEMMA TakenCases ==
  ASSUME NEW t \in TableType, NEW dev \in Sensor, NEW boot \in 0 .. HALF - 1
  PROVE  \/ Taken(t, dev, boot) = t /\ OrderFor(t, dev, boot) = NoOrder
              /\ ClearedFor(t, dev, boot) = NoOrder
         \/ \E i \in Slot :
              /\ t[i].active
              /\ \/ /\ Taken(t, dev, boot) = [t EXCEPT ![i] = [t[i] EXCEPT !.active = FALSE]]
                    /\ OrderFor(t, dev, boot) = NoOrder
                    /\ ClearedFor(t, dev, boot) = t[i].order
                    /\ t[i].boot # BOOT_UNSET
                 \/ /\ Taken(t, dev, boot) = [t EXCEPT ![i] = Delivered(t[i], boot)]
                    /\ OrderFor(t, dev, boot) = t[i].order
                    /\ ClearedFor(t, dev, boot) = NoOrder
  <1> DEFINE own == SlotsOf(t, dev)
             i == First(own)
  <1>1. CASE own = {}
    BY <1>1 DEF Taken, OrderFor, ClearedFor
  <1>2. CASE own # {}
    <2>1. i \in Slot /\ t[i].active
      <3>1. own \in SUBSET Slot
        BY DEF SlotsOf
      <3> QED BY <3>1, <1>2, FirstIn DEF SlotsOf
    <2>2. CASE Landed(t[i], boot)
      BY <1>2, <2>1, <2>2 DEF Taken, OrderFor, ClearedFor, TableType, Landed
    <2>3. CASE ~Landed(t[i], boot)
      BY <1>2, <2>1, <2>3 DEF Taken, OrderFor, ClearedFor, TableType
    <2> QED BY <2>1, <2>2, <2>3
  <1> QED BY <1>1, <1>2

(* What a delivery does to a slot.                                         *)
LEMMA DeliveredSlot ==
  ASSUME NEW slot \in SlotType, NEW boot \in 0 .. HALF - 1
  PROVE  /\ Delivered(slot, boot) \in SlotType
         /\ Delivered(slot, boot).device = slot.device
         /\ Delivered(slot, boot).order = slot.order
         /\ slot.tries > 0 => Delivered(slot, boot).tries = slot.tries - 1
         /\ Delivered(slot, boot).active => Delivered(slot, boot).tries > 0
         /\ slot.tries > 0 => (Delivered(slot, boot).active <=> slot.tries # 1)
  <1> DEFINE left == IF slot.tries > 0 THEN slot.tries - 1 ELSE slot.tries
             more == left # 0
  <1>1. left \in 0 .. PENDING_CMD_TRIES /\ (more => left > 0)
    BY TableAssumption DEF SlotType
  <1>2. slot.tries > 0 => left = slot.tries - 1 /\ (more <=> slot.tries # 1)
    BY DEF SlotType
  <1>3. more \in BOOLEAN
    OBVIOUS
  <1>4. Delivered(slot, boot) = [slot EXCEPT !.boot = boot, !.tries = left, !.active = more]
    BY Zenon DEF Delivered
  <1> HIDE DEF left, more
  <1> QED BY <1>1, <1>2, <1>3, <1>4 DEF SlotType

LEMMA NewSlotTyped ==
  ASSUME NEW s \in Sensor, NEW o \in Order
  PROVE  NewSlot(s, o) \in SlotType
  BY TableAssumption, HalfAssumption DEF NewSlot, SlotType, BOOT_UNSET

LEMMA EmptyTableTyped == EmptyTable \in TableType
  BY TableAssumption, HalfAssumption
  DEF EmptyTable, EmptySlot, TableType, SlotType, BOOT_UNSET

-----------------------------------------------------------------------------
(* The types                                                               *)

LEMMA QueuedTyped ==
  ASSUME NEW t \in TableType, NEW s \in Sensor, NEW o \in Order
  PROVE  Queued(t, s, o) \in TableType
  BY QueuedCases, NewSlotTyped DEF TableType

LEMMA TakenTyped ==
  ASSUME NEW t \in TableType, NEW dev \in Sensor, NEW boot \in 0 .. HALF - 1
  PROVE  /\ Taken(t, dev, boot) \in TableType
         /\ OrderFor(t, dev, boot) \in Order \cup {NoOrder}
         /\ ClearedFor(t, dev, boot) \in Order \cup {NoOrder}
  <1>1. \A i \in Slot : t[i] \in SlotType /\ t[i].order \in Order \cup {NoOrder}
    BY DEF TableType, SlotType
  <1>2. \A i \in Slot : [t[i] EXCEPT !.active = FALSE] \in SlotType
    BY <1>1 DEF SlotType
  <1>3. \A i \in Slot : Delivered(t[i], boot) \in SlotType
    BY <1>1, DeliveredSlot
  <1> QED BY TakenCases, <1>1, <1>2, <1>3 DEF TableType

(* What the receiver finds at the head of its queue.                       *)
LEMMA PacketTyped ==
  ASSUME GatewayTypeOK, rxQueue # <<>>, Packet # Junk
  PROVE  /\ Packet \in [device : Sensor, reading : Reading]
         /\ Packet.device \in Sensor
         /\ PacketBoot \in 0 .. HALF - 1
  <1>1. Packet \in [device : Sensor, reading : Reading]
    BY DEF GatewayTypeOK, Packet, Packets
  <1>2. Packet.device \in Sensor /\ Packet.reading.seq \in Word
    BY <1>1 DEF Reading
  <1> QED BY <1>1, <1>2, BootOfWord DEF PacketBoot

LEMMA GatewayInitType == GatewayInit => GatewayTypeOK
  <1> SUFFICES ASSUME GatewayInit PROVE GatewayTypeOK
      OBVIOUS
  <1>1. self \in [boot : Nat, seq : Word, n : 0 .. MaxOwn]
    BY BaseIsWord, GatewayAssumption, MessagesAssumption DEF GatewayInit
  <1>2. table \in [Slot -> SlotType]
    BY EmptyTableTyped DEF GatewayInit, TableType
  <1> QED BY <1>1, <1>2, GatewayAssumption DEF GatewayInit, GatewayTypeOK

(* A queue with room takes one more, and a queue that is not empty gives   *)
(* one away.                                                               *)
LEMMA QueueTyped ==
  ASSUME NEW S, NEW q \in Seq(S), NEW limit \in Nat, Len(q) <= limit
  PROVE  /\ \A x \in S : Len(q) < limit =>
               Append(q, x) \in Seq(S) /\ Len(Append(q, x)) <= limit
         /\ q # <<>> => Head(q) \in S /\ Tail(q) \in Seq(S) /\ Len(Tail(q)) <= limit
  OBVIOUS

LEMMA ArrivalType == GatewayTypeOK /\ Arrival => GatewayTypeOK'
  <1> SUFFICES ASSUME GatewayTypeOK,
                      NEW packet \in [device : Sensor, reading : OnAir] \cup {Junk},
                      OnRecv(packet)
               PROVE  GatewayTypeOK'
      BY DEF Arrival
  <1>1. packet \in Packets
    BY GatewayAssumption DEF Packets
  <1>2. rxQueue' \in Seq(Packets) /\ Len(rxQueue') <= RX_QUEUE
    BY <1>1, QueueTyped, GatewayAssumption DEF OnRecv, GatewayTypeOK
  <1> QED BY <1>2 DEF OnRecv, GatewayTypeOK

LEMMA ReceiverType == GatewayTypeOK /\ ReceiverStep => GatewayTypeOK'
  <1> SUFFICES ASSUME GatewayTypeOK, ReceiverStep PROVE GatewayTypeOK'
      OBVIOUS
  <1> USE DEF GatewayTypeOK
  <1>1. rxQueue # <<>> => Tail(rxQueue) \in Seq(Packets) /\ Len(Tail(rxQueue)) <= RX_QUEUE
    BY QueueTyped, GatewayAssumption
  <1>2. CASE RxReject
    BY <1>1, <1>2 DEF RxReject
  <1>3. CASE RxReply
    <2>1. rxQueue # <<>> /\ Packet # Junk
      BY <1>3 DEF RxReply
    <2>2. /\ Packet \in [device : Sensor, reading : Reading]
          /\ Packet.device \in Sensor /\ PacketBoot \in 0 .. HALF - 1
      BY <2>1, PacketTyped
    <2>3. /\ Taken(table, Packet.device, PacketBoot) \in TableType
          /\ ClearedFor(table, Packet.device, PacketBoot) \in Order \cup {NoOrder}
      BY <2>2, TakenTyped DEF TableType
    <2>4. table' \in [Slot -> SlotType]
      BY <1>3, <2>3 DEF RxReply, TableType
    <2>5. rxItem' \in Item
      BY <1>3, <2>2 DEF RxReply, Item, Device
    <2>6. handed' \in [Order -> Nat]
      BY <1>3 DEF RxReply
    <2>7. cleared' \subseteq Order
      BY <1>3, <2>3 DEF RxReply
    <2> QED BY <1>1, <1>3, <2>1, <2>4, <2>5, <2>6, <2>7 DEF RxReply
  <1>4. CASE RxEnqueue
    <2>1. dataQueue' \in Seq(Item) /\ Len(dataQueue') <= DATA_QUEUE_SIZE
      BY <1>4, QueueTyped, GatewayAssumption DEF RxEnqueue, HasRoom
    <2> QED BY <1>4, <2>1 DEF RxEnqueue
  <1>5. CASE RxGiveUp
    BY <1>5 DEF RxGiveUp
  <1> QED BY <1>2, <1>3, <1>4, <1>5 DEF ReceiverStep

LEMMA ReaderType == GatewayTypeOK /\ ReaderStep => GatewayTypeOK'
  <1> SUFFICES ASSUME GatewayTypeOK, ReaderStep PROVE GatewayTypeOK'
      OBVIOUS
  <1> USE DEF GatewayTypeOK
  <1>1. CASE OwnReading
    <2> DEFINE r == [n |-> self.n + 1, seq |-> NextSeq(self.seq)]
    <2>1. r.n \in 1 .. MaxOwn /\ r.seq \in Word
      BY <1>1, NextIsWord, GatewayAssumption, MessagesAssumption DEF OwnReading
    <2>2. r \in Reading
      BY <2>1, GatewayAssumption, MessagesAssumption DEF Reading
    <2>3. selfItem' \in Item
      BY <1>1, <2>2 DEF OwnReading, Item, Device
    <2>4. self' = [self EXCEPT !.n = r.n, !.seq = r.seq]
      BY <1>1 DEF OwnReading
    <2>5. self' \in [boot : Nat, seq : Word, n : 0 .. MaxOwn]
      <3>1. r.n \in 0 .. MaxOwn
        BY <2>1
      <3> HIDE DEF r
      <3> QED BY <2>1, <2>4, <3>1
    <2> QED BY <1>1, <2>3, <2>5 DEF OwnReading
  <1>2. CASE OwnEnqueue
    <2>1. dataQueue' \in Seq(Item) /\ Len(dataQueue') <= DATA_QUEUE_SIZE
      BY <1>2, QueueTyped, GatewayAssumption DEF OwnEnqueue, HasRoom
    <2> QED BY <1>2, <2>1 DEF OwnEnqueue
  <1>3. CASE OwnGiveUp
    BY <1>3 DEF OwnGiveUp
  <1> QED BY <1>1, <1>2, <1>3 DEF ReaderStep

LEMMA RestartType == GatewayTypeOK /\ GatewayRestart => GatewayTypeOK'
  <1> SUFFICES ASSUME GatewayTypeOK, GatewayRestart PROVE GatewayTypeOK'
      OBVIOUS
  <1> USE DEF GatewayTypeOK
  <1>1. table' \in [Slot -> SlotType]
    BY EmptyTableTyped DEF GatewayRestart, TableType
  <1>2. self' \in [boot : Nat, seq : Word, n : 0 .. MaxOwn]
    <2> DEFINE boot == self.boot + 1
               seq == BootBase(boot)
    <2>1. boot \in Nat /\ seq \in Word
      BY BaseIsWord
    <2>2. self' = [self EXCEPT !.boot = boot, !.seq = seq]
      BY DEF GatewayRestart
    <2> HIDE DEF boot, seq
    <2> QED BY <2>1, <2>2
  <1> QED BY <1>1, <1>2, GatewayAssumption DEF GatewayRestart

(* Every step keeps the types; one case per action or task.                *)
LEMMA GatewayStepType == GatewayTypeOK /\ [GatewayNext]_gatewayVars => GatewayTypeOK'
  <1> SUFFICES ASSUME GatewayTypeOK, [GatewayNext]_gatewayVars PROVE GatewayTypeOK'
      OBVIOUS
  <1>1. CASE Publish
    <2>1. dataQueue' \in Seq(Item) /\ Len(dataQueue') <= DATA_QUEUE_SIZE
      BY <1>1, QueueTyped, GatewayAssumption DEF Publish, GatewayTypeOK
    <2> QED BY <1>1, <2>1 DEF Publish, GatewayTypeOK
  <1>2. ASSUME NEW s \in Sensor, NEW o \in Order, QueueCommand(s, o)
        PROVE  GatewayTypeOK'
    <2>1. table' \in [Slot -> SlotType]
      BY <1>2, QueuedTyped DEF QueueCommand, GatewayTypeOK, TableType
    <2> QED BY <1>2, <2>1 DEF QueueCommand, GatewayTypeOK
  <1>3. CASE ChangeChannel
    BY <1>3 DEF ChangeChannel, GatewayTypeOK
  <1>4. CASE UNCHANGED gatewayVars
    BY <1>4 DEF gatewayVars, GatewayTypeOK
  <1> QED BY <1>1, <1>2, <1>3, <1>4, ArrivalType, ReceiverType, ReaderType, RestartType
          DEF GatewayNext

-----------------------------------------------------------------------------
(* The table, the orders queued and the orders handed out                  *)

LEMMA GatewayInitInv == GatewayInit => GatewayInv
  <1> SUFFICES ASSUME GatewayInit PROVE TableInv
      BY GatewayInitType DEF GatewayInv
  <1>1. \A i \in Slot : ~table[i].active
    BY DEF GatewayInit, EmptyTable, EmptySlot
  <1>2. \A o \in Order : handed[o] = 0
    BY DEF GatewayInit
  <1> QED BY <1>1, <1>2, TableAssumption
          DEF TableInv, OneSlotPerBox, OneSlotPerOrder, SlotBudget, NotBeforeIssued,
              HandedAtMost

(* An order queued for the first time gets a slot with a whole budget.     *)
LEMMA QueueInv ==
  ASSUME GatewayInv, NEW s \in Sensor, NEW o \in Order, QueueCommand(s, o)
  PROVE  TableInv'
  <1> USE DEF GatewayInv, TableInv
  <1>1. table \in TableType /\ issued \subseteq Order /\ handed \in [Order -> Nat]
    BY DEF GatewayTypeOK, TableType
  <1>2. /\ table' = Queued(table, s, o) /\ o \notin issued
        /\ issued' = issued \cup {o} /\ handed' = handed
    BY DEF QueueCommand
  <1>3. NotBeforeIssued' /\ HandedAtMost'
    BY <1>2 DEF NotBeforeIssued, HandedAtMost
  <1>4. CASE table' = table
    BY <1>2, <1>3, <1>4 DEF OneSlotPerBox, OneSlotPerOrder, SlotBudget
  <1>5. ASSUME NEW i \in Slot,
               table' = [table EXCEPT ![i] = NewSlot(s, o)],
               \A j \in Slot : table[j].active /\ table[j].device = s
                                 => table[i].active /\ table[i].device = s
        PROVE  TableInv'
    <2>1. /\ table'[i] = NewSlot(s, o)
          /\ \A j \in Slot : j # i => table'[j] = table[j]
      BY <1>1, <1>5 DEF TableType
    <2>2. /\ table'[i].active /\ table'[i].device = s /\ table'[i].order = o
          /\ table'[i].tries = PENDING_CMD_TRIES
      BY <2>1 DEF NewSlot
    <2>3. \A j \in Slot : j # i /\ table[j].active => table[j].device # s
      BY <1>5 DEF OneSlotPerBox
    <2>4. \A j \in Slot : table[j].active => table[j].order # o
      BY <1>2 DEF SlotBudget
    <2>5. OneSlotPerBox'
      BY <2>1, <2>2, <2>3 DEF OneSlotPerBox
    <2>6. OneSlotPerOrder'
      BY <2>1, <2>2, <2>4 DEF OneSlotPerOrder
    <2>7. SlotBudget'
      <3> SUFFICES ASSUME NEW j \in Slot, table'[j].active
                   PROVE  /\ table'[j].order \in issued'
                          /\ table'[j].tries > 0
                          /\ handed'[table'[j].order] + table'[j].tries <= PENDING_CMD_TRIES
          BY DEF SlotBudget
      <3>1. CASE j = i
        <4>1. handed[o] = 0
          BY <1>2 DEF NotBeforeIssued
        <4> QED BY <1>2, <2>2, <3>1, <4>1, TableAssumption
      <3>2. CASE j # i
        BY <1>2, <2>1, <3>2 DEF SlotBudget
      <3> QED BY <3>1, <3>2
    <2> QED BY <1>3, <2>5, <2>6, <2>7
  <1> QED BY <1>1, <1>2, <1>4, <1>5, QueuedCases

(* A check-in clears a slot, or moves one try of it to the order's account. *)
LEMMA ReplyInv ==
  ASSUME GatewayInv, RxReply
  PROVE  TableInv'
  <1> USE DEF GatewayInv, TableInv
  <1> DEFINE dev == Packet.device
  <1>1. /\ table \in TableType /\ issued \subseteq Order /\ handed \in [Order -> Nat]
        /\ dev \in Sensor /\ PacketBoot \in 0 .. HALF - 1
    BY PacketTyped DEF GatewayTypeOK, TableType, RxReply
  <1>2. /\ table' = Taken(table, dev, PacketBoot) /\ issued' = issued
        /\ PacketOrder = OrderFor(table, dev, PacketBoot)
        /\ handed' = [o \in Order |-> handed[o] + IF o = PacketOrder THEN 1 ELSE 0]
    BY DEF RxReply, PacketOrder
  <1>3. CASE table' = table /\ PacketOrder = NoOrder
    <2>1. handed' = handed
      BY <1>1, <1>2, <1>3, MessagesAssumption
    <2> QED BY <1>2, <1>3, <2>1
            DEF OneSlotPerBox, OneSlotPerOrder, SlotBudget, NotBeforeIssued, HandedAtMost
  <1>4. ASSUME NEW i \in Slot, table[i].active, PacketOrder = NoOrder,
               table' = [table EXCEPT ![i] = [table[i] EXCEPT !.active = FALSE]]
        PROVE  TableInv'
    <2>1. handed' = handed
      BY <1>1, <1>2, <1>4, MessagesAssumption
    <2>2. /\ ~table'[i].active
          /\ \A j \in Slot : j # i => table'[j] = table[j]
      BY <1>1, <1>4 DEF TableType, SlotType
    <2> QED BY <1>2, <2>1, <2>2
            DEF OneSlotPerBox, OneSlotPerOrder, SlotBudget, NotBeforeIssued, HandedAtMost
  <1>5. ASSUME NEW i \in Slot, table[i].active, PacketOrder = table[i].order,
               table' = [table EXCEPT ![i] = Delivered(table[i], PacketBoot)]
        PROVE  TableInv'
    <2> DEFINE o == table[i].order
    <2>1. o \in issued /\ table[i].tries > 0 /\ handed[o] + table[i].tries <= PENDING_CMD_TRIES
      BY <1>5 DEF SlotBudget
    <2>2. table[i] \in SlotType /\ table[i].tries \in Nat /\ o \in Order
      BY <1>1, <2>1 DEF TableType, SlotType
    <2>3. /\ table'[i] = Delivered(table[i], PacketBoot)
          /\ \A j \in Slot : j # i => table'[j] = table[j]
      BY <1>1, <1>5 DEF TableType
    <2>4. /\ table'[i].device = table[i].device
          /\ table'[i].order = o
          /\ table'[i].tries = table[i].tries - 1
          /\ table'[i].active => table'[i].tries > 0
      BY <1>1, <2>1, <2>2, <2>3, DeliveredSlot
    <2>5. /\ handed'[o] = handed[o] + 1
          /\ \A p \in Order : p # o => handed'[p] = handed[p]
      BY <1>1, <1>2, <1>5, <2>2
    <2>6. OneSlotPerBox'
      BY <1>5, <2>3, <2>4 DEF OneSlotPerBox
    <2>7. OneSlotPerOrder'
      BY <1>5, <2>3, <2>4 DEF OneSlotPerOrder
    <2>8. SlotBudget'
      <3> SUFFICES ASSUME NEW j \in Slot, table'[j].active
                   PROVE  /\ table'[j].order \in issued'
                          /\ table'[j].tries > 0
                          /\ handed'[table'[j].order] + table'[j].tries <= PENDING_CMD_TRIES
          BY DEF SlotBudget
      <3>1. handed[o] \in Nat
        BY <1>1, <2>2
      <3>2. CASE j = i
        BY <1>2, <2>1, <2>2, <2>4, <2>5, <3>1, <3>2, TableAssumption
      <3>3. CASE j # i
        <4>1. table[j].active /\ table[j].order \in issued /\ table'[j] = table[j]
          BY <2>3, <3>3 DEF SlotBudget
        <4>2. table[j].order # o
          BY <1>5, <3>3, <4>1 DEF OneSlotPerOrder
        <4>3. handed'[table[j].order] = handed[table[j].order]
          BY <1>1, <2>5, <4>1, <4>2
        <4> QED BY <1>2, <4>1, <4>3 DEF SlotBudget
      <3> QED BY <3>2, <3>3
    <2>9. NotBeforeIssued'
      BY <1>2, <2>1, <2>5 DEF NotBeforeIssued
    <2>10. HandedAtMost'
      <3>1. handed[o] \in Nat
        BY <1>1, <2>2
      <3>2. handed'[o] <= PENDING_CMD_TRIES
        BY <2>1, <2>2, <2>5, <3>1, TableAssumption
      <3> QED BY <2>5, <3>2 DEF HandedAtMost
    <2> QED BY <2>6, <2>7, <2>8, <2>9, <2>10
  <1> QED BY <1>1, <1>2, <1>3, <1>4, <1>5, TakenCases

LEMMA RestartInv ==
  ASSUME GatewayInv, GatewayRestart
  PROVE  TableInv'
  <1>1. \A i \in Slot : ~table'[i].active
    BY DEF GatewayRestart, EmptyTable, EmptySlot
  <1>2. issued' = issued /\ handed' = handed
    BY DEF GatewayRestart
  <1> QED BY <1>1, <1>2
          DEF GatewayInv, TableInv, OneSlotPerBox, OneSlotPerOrder, SlotBudget,
              NotBeforeIssued, HandedAtMost

(* The other steps leave the table and both accounts alone.                *)
LEMMA OtherInv ==
  ASSUME GatewayInv, UNCHANGED <<table, issued, handed>>
  PROVE  TableInv'
  BY DEF GatewayInv, TableInv, OneSlotPerBox, OneSlotPerOrder, SlotBudget,
         NotBeforeIssued, HandedAtMost

LEMMA GatewayStepInv == GatewayInv /\ [GatewayNext]_gatewayVars => GatewayInv'
  <1> SUFFICES ASSUME GatewayInv, [GatewayNext]_gatewayVars PROVE TableInv'
      BY GatewayStepType DEF GatewayInv
  <1>1. CASE Arrival
    BY <1>1, OtherInv DEF Arrival, OnRecv
  <1>2. CASE ReceiverStep
    <2>1. CASE RxReject \/ RxEnqueue \/ RxGiveUp
      BY <2>1, OtherInv DEF RxReject, RxEnqueue, RxGiveUp
    <2> QED BY <1>2, <2>1, ReplyInv DEF ReceiverStep
  <1>3. CASE ReaderStep
    BY <1>3, OtherInv DEF ReaderStep, OwnReading, OwnEnqueue, OwnGiveUp
  <1>4. CASE Publish \/ ChangeChannel
    BY <1>4, OtherInv DEF Publish, ChangeChannel
  <1>5. CASE UNCHANGED gatewayVars
    BY <1>5, OtherInv DEF gatewayVars
  <1> QED BY <1>1, <1>2, <1>3, <1>4, <1>5, QueueInv, RestartInv DEF GatewayNext

LEMMA GatewayInvariant == GatewaySpec => []GatewayInv
  <1> QED BY GatewayInitInv, GatewayStepInv, PTL DEF GatewaySpec

-----------------------------------------------------------------------------
(* The variables of queues, tasks and table keep their types, whatever     *)
(* arrives on the air (tasks.cpp, EspNow.cpp).                             *)
THEOREM GatewayTypeCorrect == GatewaySpec => []GatewayTypeOK
  <1>1. GatewayInv => GatewayTypeOK
    BY DEF GatewayInv
  <1> QED BY <1>1, GatewayInvariant, PTL

(* espnow_queue_command and espnow_take_pending never give a box two slots. *)
THEOREM GatewayOneSlotPerBox == GatewaySpec => []OneSlotPerBox
  <1>1. GatewayInv => OneSlotPerBox
    BY DEF GatewayInv, TableInv
  <1> QED BY <1>1, GatewayInvariant, PTL

(* espnow_take_pending hands an order out PENDING_CMD_TRIES times at most, *)
(* whatever boot halves the check-ins carry and however often the gateway  *)
(* restarts.                                                               *)
THEOREM GatewayHandedAtMost == GatewaySpec => []HandedAtMost
  <1>1. GatewayInv => HandedAtMost
    BY DEF GatewayInv, TableInv
  <1> QED BY <1>1, GatewayInvariant, PTL

-----------------------------------------------------------------------------
(* The promise of Courier                                                  *)

(* A slot in use is a box's, and knows a boot count only once delivered.   *)
SlotInUse ==
    \A i \in Slot : table[i].active =>
        /\ table[i].device \in Sensor
        /\ table[i].boot # BOOT_UNSET => table[i].tries < PENDING_CMD_TRIES

(* The mailbox of a box with one slot, of one with none, and of one whose  *)
(* slots a step leaves alone.                                              *)
LEMMA MailOfOne ==
  ASSUME NEW t \in TableType, NEW s \in Sensor, NEW i \in Slot, SlotsOf(t, s) = {i}
  PROVE  MailIn(t, s) = [order |-> t[i].order, left |-> t[i].tries]
  <1>1. First(SlotsOf(t, s)) \in {i}
    BY FirstIn
  <1> QED BY <1>1 DEF MailIn

LEMMA MailKept ==
  ASSUME NEW t \in TableType, NEW u \in TableType, NEW s \in Sensor,
         SlotsOf(u, s) = SlotsOf(t, s),
         \A i \in SlotsOf(t, s) : u[i].order = t[i].order /\ u[i].tries = t[i].tries
  PROVE  MailIn(u, s) = MailIn(t, s)
  <1>1. SlotsOf(t, s) \in SUBSET Slot
    BY DEF SlotsOf
  <1>2. SlotsOf(t, s) # {} => First(SlotsOf(t, s)) \in SlotsOf(t, s)
    BY <1>1, FirstIn
  <1> QED BY <1>2 DEF MailIn

(* A mailbox is empty exactly when the box has no slot.                    *)
LEMMA MailEmpty ==
  ASSUME GatewayInv, NEW s \in Sensor
  PROVE  MailIn(table, s) = Mail!Nothing <=> SlotsOf(table, s) = {}
  <1> DEFINE i == First(SlotsOf(table, s))
  <1>1. CASE SlotsOf(table, s) = {}
    BY <1>1 DEF MailIn, Mail!Nothing
  <1>2. CASE SlotsOf(table, s) # {}
    <2>1. SlotsOf(table, s) \in SUBSET Slot
      BY DEF SlotsOf
    <2>2. i \in SlotsOf(table, s)
      BY <1>2, <2>1, FirstIn
    <2>3. i \in Slot /\ table[i].tries > 0
      BY <2>2 DEF SlotsOf, GatewayInv, TableInv, SlotBudget
    <2>4. MailIn(table, s).left > 0
      BY <1>2, <2>3 DEF MailIn
    <2>5. Mail!Nothing.left = 0
      BY DEF Mail!Nothing
    <2> QED BY <1>2, <2>4, <2>5
  <1> QED BY <1>1, <1>2

(* A box has at most one slot.                                             *)
LEMMA OwnSlot ==
  ASSUME GatewayInv, NEW s \in Sensor, NEW i \in SlotsOf(table, s)
  PROVE  SlotsOf(table, s) = {i}
  BY DEF SlotsOf, GatewayInv, TableInv, OneSlotPerBox

(* As many boxes wait as slots are in use: all mailboxes there is room for *)
(* are taken exactly when no slot is free.                                 *)
LEMMA SameCardinality == ASSUME NEW S PROVE Mail!Cardinality(S) = Cardinality(S)
  BY DEF Mail!Cardinality, Cardinality

LEMMA FullTable ==
  ASSUME GatewayInv, SlotInUse
  PROVE  Mail!Full <=> FreeSlots(table) = {}
  <1> DEFINE boxes == {s \in Sensor : MailIn(table, s) # Mail!Nothing}
             first == [s \in boxes |-> First(SlotsOf(table, s))]
  <1>1. \A s \in boxes : first[s] \in Slot /\ SlotsOf(table, s) = {first[s]}
    <2> SUFFICES ASSUME NEW s \in boxes
                 PROVE  first[s] \in Slot /\ SlotsOf(table, s) = {first[s]}
        OBVIOUS
    <2>1. SlotsOf(table, s) # {} /\ SlotsOf(table, s) \in SUBSET Slot
      BY MailEmpty DEF SlotsOf
    <2>2. first[s] \in SlotsOf(table, s)
      BY <2>1, FirstIn
    <2> QED BY <2>1, <2>2, OwnSlot
  <1>2. first \in Injection(boxes, Slot)
    <2>1. first \in [boxes -> Slot]
      BY <1>1
    <2>2. \A r, s \in boxes : first[r] = first[s] => r = s
      BY <1>1 DEF SlotsOf
    <2> HIDE DEF first, boxes
    <2> QED BY <2>1, <2>2 DEF Injection, IsInjective
  <1>3. IsFiniteSet(Slot) /\ Cardinality(Slot) = SLOTS
    BY FS_Interval, TableAssumption DEF Slot
  <1>4. Cardinality(boxes) = SLOTS <=> first \in Surjection(boxes, Slot)
    BY <1>2, <1>3, FS_Injection
  <1>5. first \in Surjection(boxes, Slot) <=> \A i \in Slot : \E s \in boxes : first[s] = i
    <2>1. first \in [boxes -> Slot]
      BY <1>1
    <2> HIDE DEF first, boxes
    <2> QED BY <2>1 DEF Surjection
  <1>6. ASSUME \A i \in Slot : \E s \in boxes : first[s] = i
        PROVE  FreeSlots(table) = {}
    <2>1. ASSUME NEW s \in boxes PROVE table[first[s]].active
      <3>1. first[s] \in SlotsOf(table, s)
        BY <1>1
      <3> QED BY <3>1 DEF SlotsOf
    <2> HIDE DEF first, boxes
    <2> QED BY <1>6, <2>1 DEF FreeSlots
  <1>7. ASSUME FreeSlots(table) = {}, NEW i \in Slot
        PROVE  \E s \in boxes : first[s] = i
    <2>1. table[i].active /\ table[i].device \in Sensor
      BY <1>7 DEF FreeSlots, SlotInUse
    <2>2. i \in SlotsOf(table, table[i].device)
      BY <2>1 DEF SlotsOf
    <2>3. table[i].device \in boxes
      BY <2>1, <2>2, MailEmpty
    <2> QED BY <1>1, <2>2, <2>3
  <1>8. Mail!Full <=> Cardinality(boxes) = SLOTS
    <2>1. \A s \in Sensor : [r \in Sensor |-> MailIn(table, r)][s] = MailIn(table, s)
      OBVIOUS
    <2>2. {s \in Sensor : [r \in Sensor |-> MailIn(table, r)][s] # Mail!Nothing} = boxes
      BY <2>1
    <2> HIDE DEF boxes
    <2> QED BY <2>2, SameCardinality DEF Mail!Full
  <1> QED BY <1>4, <1>5, <1>6, <1>7, <1>8

-----------------------------------------------------------------------------
(* The steps                                                               *)

MailInv == GatewayInv /\ SlotInUse

LEMMA MailInvInit == GatewayInit => MailInv
  BY GatewayInitInv DEF MailInv, SlotInUse, GatewayInit, EmptyTable, EmptySlot

(* A slot is filled with a box's order, and its boot count is known only   *)
(* after a delivery.                                                       *)
LEMMA SlotInUseStep == MailInv /\ [GatewayNext]_gatewayVars => SlotInUse'
  <1> SUFFICES ASSUME MailInv, [GatewayNext]_gatewayVars PROVE SlotInUse'
      OBVIOUS
  <1>0. table \in TableType /\ GatewayInv
    BY DEF MailInv, GatewayInv, GatewayTypeOK, TableType
  <1>1. CASE UNCHANGED table
    BY <1>1 DEF MailInv, SlotInUse
  <1>2. ASSUME NEW s \in Sensor, NEW o \in Order, QueueCommand(s, o)
        PROVE  SlotInUse'
    <2>1. table' = Queued(table, s, o)
      BY <1>2 DEF QueueCommand
    <2>2. ASSUME NEW i \in Slot, table' = [table EXCEPT ![i] = NewSlot(s, o)]
          PROVE  SlotInUse'
      <3>1. \A j \in Slot : table'[j] = IF j = i THEN NewSlot(s, o) ELSE table[j]
        BY <1>0, <2>2 DEF TableType
      <3>2. NewSlot(s, o).device = s /\ NewSlot(s, o).boot = BOOT_UNSET
        BY DEF NewSlot
      <3> QED BY <3>1, <3>2 DEF MailInv, SlotInUse
    <2> QED BY <1>0, <1>1, <2>1, <2>2, QueuedCases
  <1>3. CASE RxReply
    <2>1. /\ Packet.device \in Sensor /\ PacketBoot \in 0 .. HALF - 1
          /\ table' = Taken(table, Packet.device, PacketBoot)
      BY <1>0, <1>3, PacketTyped DEF GatewayInv, RxReply
    <2>2. ASSUME NEW i \in Slot, table[i].active,
                 table' = [table EXCEPT ![i] = [table[i] EXCEPT !.active = FALSE]]
          PROVE  SlotInUse'
      <3>1. \A j \in Slot : table'[j].active => j # i /\ table'[j] = table[j]
        BY <1>0, <2>2 DEF TableType, SlotType
      <3> QED BY <3>1 DEF MailInv, SlotInUse
    <2>3. ASSUME NEW i \in Slot, table[i].active,
                 table' = [table EXCEPT ![i] = Delivered(table[i], PacketBoot)]
          PROVE  SlotInUse'
      <3>1. table[i] \in SlotType /\ table[i].tries > 0
        BY <1>0, <2>3 DEF TableType, GatewayInv, TableInv, SlotBudget
      <3>2. /\ Delivered(table[i], PacketBoot).device = table[i].device
            /\ Delivered(table[i], PacketBoot).tries = table[i].tries - 1
        BY <2>1, <3>1, DeliveredSlot
      <3>3. table[i].tries \in 0 .. PENDING_CMD_TRIES
        BY <3>1 DEF SlotType
      <3>4. \A j \in Slot : table'[j] = IF j = i THEN Delivered(table[i], PacketBoot)
                                        ELSE table[j]
        BY <1>0, <2>3 DEF TableType
      <3> QED BY <2>3, <3>2, <3>3, <3>4, TableAssumption DEF MailInv, SlotInUse
    <2> QED BY <1>0, <1>1, <2>1, <2>2, <2>3, TakenCases
  <1>4. CASE GatewayRestart
    BY <1>4 DEF GatewayRestart, SlotInUse, EmptyTable, EmptySlot
  <1> QED BY <1>1, <1>2, <1>3, <1>4
          DEF GatewayNext, Arrival, OnRecv, ReceiverStep, RxReject, RxEnqueue, RxGiveUp,
              ReaderStep, OwnReading, OwnEnqueue, OwnGiveUp, Publish, ChangeChannel,
              gatewayVars

LEMMA MailInvStep == MailInv /\ [GatewayNext]_gatewayVars => MailInv'
  BY GatewayStepInv, SlotInUseStep DEF MailInv

Mailboxes == [s \in Sensor |-> MailIn(table, s)]

(* A change of one slot that holds no other box's order leaves the other   *)
(* mailboxes alone.                                                        *)
LEMMA OtherMail ==
  ASSUME NEW t \in TableType, NEW u \in TableType, NEW i \in Slot, NEW s \in Sensor,
         \A j \in Slot : j # i => u[j] = t[j],
         t[i].active => t[i].device = s,
         u[i].active => u[i].device = s,
         NEW r \in Sensor, r # s
  PROVE  MailIn(u, r) = MailIn(t, r)
  <1>1. SlotsOf(u, r) = SlotsOf(t, r)
    BY DEF SlotsOf
  <1>2. \A j \in SlotsOf(t, r) : u[j] = t[j]
    BY DEF SlotsOf
  <1> QED BY <1>1, <1>2, MailKept

(* espnow_queue_command, seen from outside.                                *)
LEMMA SendStep ==
  ASSUME MailInv, NEW s \in Sensor, NEW o \in Order, QueueCommand(s, o)
  PROVE  Mail!Send(s, o)
  <1> DEFINE own == SlotsOf(table, s)
             candidates == IF own # {} THEN own ELSE FreeSlots(table)
             i == First(candidates)
             mail == [order |-> o, left |-> PENDING_CMD_TRIES]
  <1>1. /\ table \in TableType /\ GatewayInv /\ SlotInUse
        /\ o \notin issued /\ issued' = issued \cup {o}
        /\ UNCHANGED <<handed, cleared>>
        /\ table' = Queued(table, s, o)
    BY DEF MailInv, GatewayInv, GatewayTypeOK, TableType, QueueCommand
  <1>2. table' \in TableType
    BY <1>1, QueuedTyped
  <1>3. candidates = {} <=> Mailboxes[s] = Mail!Nothing /\ Mail!Full
    BY <1>1, MailEmpty, FullTable DEF Mailboxes
  <1>4. candidates = {} => Mailboxes' = Mailboxes
    BY <1>1 DEF Queued, Mailboxes
  <1>5. ASSUME candidates # {}
        PROVE  Mailboxes' = [Mailboxes EXCEPT ![s] = mail]
    <2>1. i \in candidates /\ i \in Slot
      <3>1. candidates \in SUBSET Slot
        BY DEF SlotsOf, FreeSlots
      <3> QED BY <3>1, <1>5, FirstIn
    <2>2. table' = [table EXCEPT ![i] = NewSlot(s, o)]
      BY <1>1, <1>5 DEF Queued
    <2>3. /\ table'[i] = NewSlot(s, o)
          /\ \A j \in Slot : j # i => table'[j] = table[j]
      BY <1>1, <2>1, <2>2 DEF TableType
    <2>4. table[i].active => table[i].device = s
      BY <2>1 DEF SlotsOf, FreeSlots
    <2>5. \A j \in own : j = i
      <3>1. own # {} => i \in own
        BY <2>1
      <3> QED BY <1>1, <3>1, OwnSlot
    <2>6. NewSlot(s, o).active /\ NewSlot(s, o).device = s
          /\ NewSlot(s, o).order = o /\ NewSlot(s, o).tries = PENDING_CMD_TRIES
      BY DEF NewSlot
    <2>7. SlotsOf(table', s) = {i}
      BY <2>1, <2>3, <2>5, <2>6 DEF SlotsOf
    <2>8. MailIn(table', s) = mail
      BY <1>2, <2>1, <2>3, <2>6, <2>7, MailOfOne
    <2>9. \A r \in Sensor : r # s => MailIn(table', r) = MailIn(table, r)
      <3> HIDE DEF i
      <3> QED BY <1>1, <1>2, <2>1, <2>3, <2>4, <2>6, OtherMail
    <2> HIDE DEF mail
    <2> QED BY <2>8, <2>9 DEF Mailboxes
  <1> HIDE DEF candidates, i
  <1>6. Mailboxes' = IF Mailboxes[s] = Mail!Nothing /\ Mail!Full THEN Mailboxes
                     ELSE [Mailboxes EXCEPT ![s] = mail]
    BY <1>3, <1>4, <1>5
  <1> QED BY <1>1, <1>6 DEF Mail!Send, Mailboxes

(* espnow_take_pending, seen from outside: nothing, a withdrawal or one    *)
(* handing out.                                                            *)
LEMMA CheckInStep ==
  ASSUME MailInv, RxReply
  PROVE  LET s == Packet.device
         IN  \/ UNCHANGED <<table, issued, handed, cleared>>
             \/ Mail!Withdraw(s) \/ Mail!HandOut(s)
  <1> DEFINE s == Packet.device
             own == SlotsOf(table, s)
             i == First(own)
             o == table[i].order
  <1>1. /\ table \in TableType /\ GatewayInv /\ SlotInUse
        /\ s \in Sensor /\ PacketBoot \in 0 .. HALF - 1
        /\ handed \in [Order -> Nat] /\ issued \subseteq Order
    BY PacketTyped DEF MailInv, GatewayInv, GatewayTypeOK, TableType, RxReply
  <1>2. /\ table' = Taken(table, s, PacketBoot)
        /\ PacketOrder = OrderFor(table, s, PacketBoot)
        /\ handed' = [p \in Order |-> handed[p] + IF p = PacketOrder THEN 1 ELSE 0]
        /\ cleared' = cleared \cup ({ClearedFor(table, s, PacketBoot)} \ {NoOrder})
        /\ issued' = issued
    BY DEF RxReply, PacketOrder
  <1>3. table' \in TableType
    BY <1>1, <1>2, TakenTyped
  <1>4. PacketOrder = NoOrder => handed' = handed
    BY <1>1, <1>2, MessagesAssumption
  <1>5. CASE own = {}
    <2>1. table' = table /\ PacketOrder = NoOrder /\ ClearedFor(table, s, PacketBoot) = NoOrder
      BY <1>2, <1>5 DEF Taken, OrderFor, ClearedFor
    <2> QED BY <1>2, <1>4, <2>1
  <1>6. CASE own # {}
    <2>1. /\ i \in Slot /\ own = {i}
          /\ table[i].active /\ table[i].device = s
      <3>1. own \in SUBSET Slot
        BY DEF SlotsOf
      <3>2. i \in own
        BY <3>1, <1>6, FirstIn
      <3> QED BY <1>1, <3>2, OwnSlot DEF SlotsOf
    <2>2. /\ o \in Order /\ o # NoOrder /\ table[i].tries > 0
          /\ table[i] \in SlotType /\ table[i].tries \in 0 .. PENDING_CMD_TRIES
          /\ table[i].boot # BOOT_UNSET => table[i].tries < PENDING_CMD_TRIES
      BY <1>1, <2>1, MessagesAssumption
         DEF GatewayInv, TableInv, SlotBudget, SlotInUse, TableType, SlotType
    <2>3. Mailboxes[s] = [order |-> o, left |-> table[i].tries]
      BY <1>1, <2>1, MailOfOne DEF Mailboxes
    <2>4. Mailboxes[s] # Mail!Nothing
      BY <1>1, <1>6, MailEmpty DEF Mailboxes
    <2> HIDE DEF i
    <2>5. ASSUME NEW slot \in SlotType, table' = [table EXCEPT ![i] = slot],
                 slot.device = s
          PROVE  /\ \A r \in Sensor : r # s => MailIn(table', r) = MailIn(table, r)
                 /\ SlotsOf(table', s) = IF slot.active THEN {i} ELSE {}
      <3>1. /\ table'[i] = slot
            /\ \A j \in Slot : j # i => table'[j] = table[j]
            /\ table[i].active => table[i].device = s
            /\ table'[i].active => table'[i].device = s
        BY <1>1, <2>1, <2>5 DEF TableType
      <3> HIDE DEF s
      <3>2. \A r \in Sensor : r # s => MailIn(table', r) = MailIn(table, r)
        <4>1. table \in TableType /\ table' \in TableType /\ i \in Slot /\ s \in Sensor
          BY <1>1, <1>3, <2>1
        <4> HIDE DEF o, own
        <4> QED BY <4>1, <3>1, OtherMail
      <3>3. \A j \in Slot : j \in own <=> j = i
        BY <2>1
      <3>4. SlotsOf(table', s) = IF slot.active THEN {i} ELSE {}
        BY <2>1, <2>5, <3>1, <3>3 DEF SlotsOf
      <3> QED BY <3>2, <3>4
    <2>6. CASE Landed(table[i], PacketBoot)
      <3> DEFINE slot == [table[i] EXCEPT !.active = FALSE]
      <3>1. /\ table' = [table EXCEPT ![i] = slot]
            /\ PacketOrder = NoOrder
            /\ ClearedFor(table, s, PacketBoot) = o
        BY <1>1, <1>2, <1>6, <2>1, <2>6 DEF Taken, OrderFor, ClearedFor, TableType, i
      <3>2. slot \in SlotType /\ slot.device = s /\ ~slot.active
        BY <2>1, <2>2 DEF SlotType
      <3> HIDE DEF slot
      <3>3. MailIn(table', s) = Mail!Nothing
        BY <2>5, <3>1, <3>2 DEF MailIn, Mail!Nothing
      <3>4. Mailboxes' = [Mailboxes EXCEPT ![s] = Mail!Nothing]
        BY <2>5, <3>1, <3>2, <3>3 DEF Mailboxes
      <3>5. Mailboxes[s].left < PENDING_CMD_TRIES
        BY <2>2, <2>3, <2>6 DEF Landed
      <3>6. cleared' = cleared \cup {Mailboxes[s].order}
        BY <1>2, <2>2, <2>3, <3>1
      <3>7. Mail!Withdraw(s)
        BY <1>2, <1>4, <2>4, <3>1, <3>4, <3>5, <3>6 DEF Mail!Withdraw, Mailboxes
      <3> QED BY <3>7
    <2>7. CASE ~Landed(table[i], PacketBoot)
      <3> DEFINE slot == Delivered(table[i], PacketBoot)
      <3>1. /\ table' = [table EXCEPT ![i] = slot]
            /\ PacketOrder = o
            /\ ClearedFor(table, s, PacketBoot) = NoOrder
        BY <1>1, <1>2, <1>6, <2>1, <2>7 DEF Taken, OrderFor, ClearedFor, TableType, i
      <3>2. /\ slot \in SlotType /\ slot.device = s /\ slot.order = o
            /\ slot.tries = table[i].tries - 1
            /\ slot.active => slot.tries > 0
        BY <1>1, <2>1, <2>2, DeliveredSlot
      <3>3. slot.active <=> table[i].tries # 1
        BY <1>1, <2>2, DeliveredSlot
      <3> HIDE DEF slot
      <3>4. MailIn(table', s) = IF Mailboxes[s].left = 1 THEN Mail!Nothing
                                ELSE [order |-> Mailboxes[s].order,
                                      left |-> Mailboxes[s].left - 1]
        <4>1. CASE table[i].tries = 1
          <5>1. MailIn(table', s) = Mail!Nothing
            BY <2>5, <3>1, <3>2, <3>3, <4>1 DEF MailIn, Mail!Nothing
          <5> QED BY <2>3, <4>1, <5>1
        <4>2. CASE table[i].tries # 1
          <5>1. table'[i] = slot
            BY <1>1, <2>1, <3>1 DEF TableType
          <5>3. SlotsOf(table', s) = {i}
            BY <2>5, <3>1, <3>2, <3>3, <4>2
          <5>2. MailIn(table', s) = [order |-> o, left |-> table[i].tries - 1]
            BY <1>1, <1>3, <2>1, <3>2, <5>1, <5>3, MailOfOne
          <5> QED BY <2>3, <4>2, <5>2
        <4> QED BY <4>1, <4>2
      <3>5. Mailboxes' = [Mailboxes EXCEPT ![s] =
                             IF Mailboxes[s].left = 1 THEN Mail!Nothing
                             ELSE [order |-> Mailboxes[s].order,
                                   left |-> Mailboxes[s].left - 1]]
        <4>1. \A r \in Sensor : r # s => MailIn(table', r) = MailIn(table, r)
          BY <2>5, <3>1, <3>2
        <4> QED BY <3>4, <4>1 DEF Mailboxes
      <3>6. handed' = [handed EXCEPT ![Mailboxes[s].order] = @ + 1]
        <4>1. Mailboxes[s].order = o
          BY <2>3
        <4> HIDE DEF o
        <4>2. \A p \in Order : handed[p] + (IF p = o THEN 1 ELSE 0)
                                = [handed EXCEPT ![o] = @ + 1][p]
          BY <1>1, <2>2
        <4>3. handed' = [p \in Order |-> handed[p] + IF p = o THEN 1 ELSE 0]
          BY <1>2, <3>1
        <4>4. handed' = [handed EXCEPT ![o] = @ + 1]
          BY <1>1, <2>2, <4>2, <4>3
        <4> QED BY <4>1, <4>4
      <3>7. cleared' = cleared
        BY <1>2, <3>1
      <3>8. Mail!HandOut(s)
        BY <1>2, <2>4, <3>5, <3>6, <3>7 DEF Mail!HandOut, Mailboxes
      <3> QED BY <3>8
    <2> QED BY <2>6, <2>7
  <1> QED BY <1>5, <1>6

(* A restart empties every mailbox; the other steps touch none.            *)
LEMMA CourierStep ==
  ASSUME MailInv, [GatewayNext]_gatewayVars
  PROVE  [Mail!Next]_<<Mailboxes, issued, handed, cleared>>
  <1>1. CASE UNCHANGED <<table, issued, handed, cleared>>
    BY <1>1 DEF Mailboxes
  <1>2. ASSUME NEW s \in Sensor, NEW o \in Order, QueueCommand(s, o)
        PROVE  Mail!Next
    BY <1>2, SendStep DEF Mail!Next
  <1>3. CASE RxReply
    <2>1. Packet.device \in Sensor
      BY <1>3, PacketTyped DEF MailInv, GatewayInv, RxReply
    <2>2. Mail!Withdraw(Packet.device) \/ Mail!HandOut(Packet.device) => Mail!Next
      BY <2>1 DEF Mail!Next
    <2> QED BY <1>1, <1>3, <2>2, CheckInStep
  <1>4. CASE GatewayRestart
    <2>1. \A s \in Sensor : SlotsOf(table', s) = {}
      BY <1>4 DEF GatewayRestart, EmptyTable, EmptySlot, SlotsOf
    <2>2. Mailboxes' = [s \in Sensor |-> Mail!Nothing]
      BY <2>1 DEF Mailboxes, MailIn, Mail!Nothing
    <2>3. Mail!Forget
      BY <1>4, <2>2 DEF GatewayRestart, Mail!Forget, Mailboxes
    <2> QED BY <2>3 DEF Mail!Next
  <1> QED BY <1>1, <1>2, <1>3, <1>4
          DEF GatewayNext, Arrival, OnRecv, ReceiverStep, RxReject, RxEnqueue, RxGiveUp,
              ReaderStep, OwnReading, OwnEnqueue, OwnGiveUp, Publish, ChangeChannel,
              gatewayVars

(* At first every mailbox is empty.                                        *)
LEMMA CourierInit == GatewayInit => Mail!Init
  <1> SUFFICES ASSUME GatewayInit PROVE Mail!Init
      OBVIOUS
  <1>1. \A s \in Sensor : SlotsOf(table, s) = {}
    BY DEF GatewayInit, EmptyTable, EmptySlot, SlotsOf
  <1> QED BY <1>1 DEF GatewayInit, MailIn, Mail!Init, Mail!Nothing

(* The gateway keeps the promise of module Courier: an order sent to a box *)
(* waits in its slot until a newer one replaces it, it went out            *)
(* PENDING_CMD_TRIES times, the box restarted after it went out, or the    *)
(* gateway restarts; it is turned away only when other boxes hold every    *)
(* slot (espnow_queue_command, espnow_take_pending).                       *)
THEOREM GatewayCourierPromise == GatewaySpec => CourierPromise
  <1>1. MailInv /\ [GatewayNext]_gatewayVars => [Mail!Next]_Mail!vars
    BY CourierStep DEF Mailboxes, Mail!vars
  <1> QED BY <1>1, CourierInit, MailInvInit, MailInvStep, PTL
          DEF GatewaySpec, CourierPromise, Mail!Spec

-----------------------------------------------------------------------------
(* What is left of ClearedMeansLanded                                      *)

(* An order taken for landed was handed out before.                        *)
ClearedWasHanded == \A o \in cleared : handed[o] # 0

(* So was the order of a slot that knows a boot count.                     *)
HandedInv ==
    /\ \A i \in Slot : table[i].active /\ table[i].boot # BOOT_UNSET
                          => handed[table[i].order] # 0
    /\ ClearedWasHanded

LEMMA HandedInit == GatewayInit => HandedInv
  BY DEF GatewayInit, HandedInv, ClearedWasHanded, EmptyTable, EmptySlot

LEMMA HandedStep ==
  ASSUME GatewayInv, HandedInv, [GatewayNext]_gatewayVars
  PROVE  HandedInv'
  <1>0. table \in TableType /\ handed \in [Order -> Nat]
    BY DEF GatewayInv, GatewayTypeOK, TableType
  <1>1. CASE UNCHANGED <<table, handed, cleared>>
    BY <1>1 DEF HandedInv, ClearedWasHanded
  <1>2. ASSUME NEW s \in Sensor, NEW o \in Order, QueueCommand(s, o)
        PROVE  HandedInv'
    <2>1. table' = Queued(table, s, o) /\ UNCHANGED <<handed, cleared>>
      BY <1>2 DEF QueueCommand
    <2>2. ASSUME NEW i \in Slot, table' = [table EXCEPT ![i] = NewSlot(s, o)]
          PROVE  HandedInv'
      <3>1. \A j \in Slot : table'[j] = IF j = i THEN NewSlot(s, o) ELSE table[j]
        BY <1>0, <2>2 DEF TableType
      <3>2. NewSlot(s, o).boot = BOOT_UNSET
        BY DEF NewSlot
      <3> QED BY <2>1, <3>1, <3>2 DEF HandedInv, ClearedWasHanded
    <2> QED BY <1>0, <1>1, <2>1, <2>2, QueuedCases
  <1>3. CASE RxReply
    <2> DEFINE p == Packet.device
    <2>1. /\ p \in Sensor /\ PacketBoot \in 0 .. HALF - 1
          /\ table' = Taken(table, p, PacketBoot)
      BY <1>3, PacketTyped DEF GatewayInv, RxReply
    <2>2. /\ \A o \in Order : handed'[o] = handed[o] + IF o = PacketOrder THEN 1 ELSE 0
          /\ cleared' = cleared \cup ({ClearedFor(table, p, PacketBoot)} \ {NoOrder})
      BY <1>3 DEF RxReply
    <2>3. /\ \A o \in Order : handed[o] # 0 \/ o = PacketOrder => handed'[o] # 0
          /\ cleared \subseteq Order
      BY <1>0, <2>2 DEF GatewayInv, GatewayTypeOK
    <2>4. CASE ClearedFor(table, p, PacketBoot) = NoOrder /\ table' = table
      BY <2>2, <2>3, <2>4 DEF HandedInv, ClearedWasHanded, GatewayInv, GatewayTypeOK, TableInv,
                              SlotBudget
    <2>5. ASSUME NEW i \in Slot, table[i].active, ClearedFor(table, p, PacketBoot) = table[i].order,
                 table' = [table EXCEPT ![i] = [table[i] EXCEPT !.active = FALSE]],
                 table[i].boot # BOOT_UNSET
          PROVE  HandedInv'
      <3>1. \A j \in Slot : table'[j].active => j # i /\ table'[j] = table[j]
        BY <1>0, <2>5 DEF TableType, SlotType
      <3>2. \A j \in Slot : table[j].active => table[j].order \in Order
        BY DEF GatewayInv, GatewayTypeOK, TableInv, SlotBudget
      <3>3. handed[table[i].order] # 0
        BY <2>5 DEF HandedInv
      <3>4. \A o \in cleared' : handed'[o] # 0
        BY <2>2, <2>3, <2>5, <3>2, <3>3 DEF HandedInv, ClearedWasHanded
      <3> QED BY <2>3, <3>1, <3>2, <3>4 DEF HandedInv, ClearedWasHanded
    <2>6. ASSUME NEW i \in Slot, table[i].active, PacketOrder = table[i].order,
                 ClearedFor(table, p, PacketBoot) = NoOrder,
                 table' = [table EXCEPT ![i] = Delivered(table[i], PacketBoot)]
          PROVE  HandedInv'
      <3>1. Delivered(table[i], PacketBoot).order = table[i].order
        BY <1>0, <2>1, DeliveredSlot DEF TableType
      <3>2. \A j \in Slot : table'[j] = IF j = i THEN Delivered(table[i], PacketBoot)
                                        ELSE table[j]
        BY <1>0, <2>6 DEF TableType
      <3>3. \A j \in Slot : table[j].active => table[j].order \in Order
        BY DEF GatewayInv, GatewayTypeOK, TableInv, SlotBudget
      <3>4. handed'[table[i].order] # 0
        BY <2>3, <2>6, <3>3
      <3>5. \A j \in Slot : table'[j].active /\ table'[j].boot # BOOT_UNSET
                               => handed'[table'[j].order] # 0
        BY <2>3, <3>1, <3>2, <3>3, <3>4 DEF HandedInv
      <3>6. \A o \in cleared' : handed'[o] # 0
        BY <2>2, <2>3, <2>6 DEF HandedInv, ClearedWasHanded
      <3> QED BY <3>5, <3>6 DEF HandedInv, ClearedWasHanded
    <2> QED BY <1>0, <2>1, <2>4, <2>5, <2>6, TakenCases DEF PacketOrder
  <1>4. CASE GatewayRestart
    BY <1>4 DEF GatewayRestart, HandedInv, ClearedWasHanded, EmptyTable, EmptySlot
  <1> QED BY <1>1, <1>2, <1>3, <1>4
          DEF GatewayNext, Arrival, OnRecv, ReceiverStep, RxReject, RxEnqueue, RxGiveUp,
              ReaderStep, OwnReading, OwnEnqueue, OwnGiveUp, Publish, ChangeChannel,
              gatewayVars

(* An order is cleared as landed (EspNow.h: "it took the OTA") only after  *)
(* it went out: what holds where ClearedMeansLanded does not.              *)
THEOREM GatewayClearedWasHanded == GatewaySpec => []ClearedWasHanded
  <1>1. HandedInv => ClearedWasHanded
    BY DEF HandedInv
  <1> QED BY <1>1, HandedInit, HandedStep, GatewayInitInv, GatewayStepInv, PTL DEF GatewaySpec

=============================================================================

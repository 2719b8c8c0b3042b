---------------------------- MODULE CommandTable ----------------------------
(***************************************************************************)
(* drivers/EspNow.cpp: s_pending, the gateway's table of commands waiting  *)
(* for a sensor box to check in.  MQTT fills it (espnow_queue_command),    *)
(* the receiver task empties it (espnow_take_pending); both hold           *)
(* s_pending_mutex for their whole body, so each is one function from a    *)
(* table to a table.                                                       *)
(*                                                                         *)
(* A slot re-sends its order on up to PENDING_CMD_TRIES check-ins.  The    *)
(* boot half of the first check-in is remembered; a check-in with another  *)
(* boot half means the box restarted, which is taken for "the order has    *)
(* landed" and clears the slot without sending.                            *)
(***************************************************************************)
EXTENDS Messages, FiniteSets

CONSTANTS
    SLOTS,               \* slots of the table; 4 in the firmware
    PENDING_CMD_TRIES,   \* deliveries of one order; 4 in the firmware
    NoDevice             \* device of a slot never used

ASSUME TableAssumption ==
    /\ SLOTS \in Nat \ {0}
    /\ PENDING_CMD_TRIES \in Nat \ {0}
    /\ NoDevice \notin Sensor

Slot == 1 .. SLOTS

(* "Not delivered yet": 0xFFFF, the highest boot half of all.              *)
BOOT_UNSET == HALF - 1

EmptySlot == [active |-> FALSE, device |-> NoDevice, order |-> NoOrder,
              tries |-> 0, boot |-> BOOT_UNSET]

EmptyTable == [i \in Slot |-> EmptySlot]

SlotsOf(table, dev) == {i \in Slot : table[i].active /\ table[i].device = dev}
FreeSlots(table)    == {i \in Slot : ~table[i].active}

First(S) == CHOOSE i \in S : \A j \in S : i <= j

NewSlot(dev, order) ==
    [active |-> TRUE, device |-> dev, order |-> order,
     tries |-> PENDING_CMD_TRIES, boot |-> BOOT_UNSET]

(* Mutant: the box's own slot is not looked for.                           *)
QueuedAnew(table, dev, order) ==
    LET free == FreeSlots(table)
    IN  IF free = {} THEN table
        ELSE [table EXCEPT ![First(free)] = NewSlot(dev, order)]

(* espnow_queue_command: the box's own slot is reused, else the first free *)
(* one is taken, else the command is dropped.                              *)
Queued(table, dev, order) ==
    LET own  == SlotsOf(table, dev)
        free == FreeSlots(table)
        candidates == IF own # {} THEN own ELSE free
    IN  IF candidates = {} THEN table
        ELSE [table EXCEPT ![First(candidates)] = NewSlot(dev, order)]

(* Mutant: re-sent until the tries are used up.                            *)
LandedNever(slot, boot) == FALSE

(* Mutant: a slot never delivered has not got "no boot count yet".         *)
LandedUnset(slot, boot) == boot # slot.boot

(* The slot stops because the box restarted since its first delivery.      *)
Landed(slot, boot) == slot.boot # BOOT_UNSET /\ boot # slot.boot

(* Mutant: the tries are not counted.                                      *)
DeliveredUncounted(slot, boot) == [slot EXCEPT !.boot = boot]

(* One more delivery of a slot at a check-in with this boot half.          *)
Delivered(slot, boot) ==
    LET left == IF slot.tries > 0 THEN slot.tries - 1 ELSE slot.tries
    IN  [slot EXCEPT !.boot = boot, !.tries = left, !.active = left # 0]

(* espnow_take_pending: the table after a check-in, ...                    *)
Taken(table, dev, boot) ==
    LET own == SlotsOf(table, dev)
        i   == First(own)
    IN  IF own = {} THEN table
        ELSE [table EXCEPT ![i] =
                IF Landed(@, boot) THEN [@ EXCEPT !.active = FALSE]
                ELSE Delivered(@, boot)]

(* ... and the order it hands out.                                         *)
OrderFor(table, dev, boot) ==
    LET own == SlotsOf(table, dev)
    IN  IF own = {} \/ Landed(table[First(own)], boot) THEN NoOrder
        ELSE table[First(own)].order

(* The order a check-in clears as landed, without sending it.              *)
ClearedFor(table, dev, boot) ==
    LET own == SlotsOf(table, dev)
    IN  IF own # {} /\ Landed(table[First(own)], boot)
        THEN table[First(own)].order ELSE NoOrder

=============================================================================

------------------------------ MODULE Messages ------------------------------
(***************************************************************************)
(* What travels through the house: readings going up, orders and replies   *)
(* coming down.  The bytes (AES envelope, JSON, HMAC text) are abstracted  *)
(* to what the code can tell apart.                                        *)
(***************************************************************************)
EXTENDS SeqCounter

CONSTANTS
    Sensor,       \* the sensor boxes, known by their device id
    Order,        \* commands the operator queues for sensors: [id, cmd]
    NoOrder,      \* no command: the reply is a plain ACK
    NoReading,    \* no payload
    MaxReadings   \* bound: readings a device takes

Command == {"OTA", "PING", "REBOOT", "PAIR"}

Word == 0 .. HALF * HALF - 1

(* A reading is its place in the device's life (n, which no code sees) and *)
(* the sequence number it was given.                                       *)
Reading == [n : 1 .. MaxReadings, seq : Word]

(* A reply carries an order signed for the seq in tag, or none: an ACK.    *)
Reply == [order : Order \cup {NoOrder}, tag : Word]

ASSUME MessagesAssumption ==
    /\ Order \subseteq [id : Nat, cmd : Command]
    /\ NoOrder \notin Order
    /\ NoReading \notin Reading
    /\ MaxReadings \in Nat

CommandOf(o) == IF o = NoOrder THEN "NONE" ELSE o.cmd

(* parse_downlink: an order counts only if it was signed for this seq.     *)
ParseDownlink(reply, seq) ==
    IF reply.tag = seq THEN reply.order ELSE NoOrder

(* The reply of task_espnow_receiver, step RX-4: the order signed for the  *)
(* reading's seq, or an ACK when there is none or it could not be signed.  *)
ReplyTo(reading, order, signed) ==
    [order |-> IF signed THEN order ELSE NoOrder, tag |-> reading.seq]

(* What is left of two replies written over each other.                    *)
Torn == [order |-> NoOrder, tag |-> 0]

(* A frame that is no reply of the gateway: nothing in it verifies either. *)
Foreign == Torn

=============================================================================

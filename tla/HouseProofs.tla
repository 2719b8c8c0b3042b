----------------------------- MODULE HouseProofs -----------------------------
(***************************************************************************)
(* Proofs about House, for any number of boxes, channels, slots and tries, *)
(* queues of any length and any bounds.                                    *)
(*                                                                         *)
(* What holds of a box or of the gateway alone is carried over first       *)
(* (PartsInv).  What needs both follows: no reading is taken for a replay  *)
(* (RankInv), an order restarts its box once (OnceInv) and is obeyed by no *)
(* other box (MeantInv).  What a box overhears carries no order.  Where a  *)
(* result rests on flash it asks for one thing only, that boot counts were *)
(* stored.                                                                 *)
(***************************************************************************)
EXTENDS House, SensorProofs, GatewayProofs

-----------------------------------------------------------------------------
(* What is on the air is a reading.                                        *)
SentAt(s) == pc[s] \in {"try", "listen"} => job[s].reading # NoReading

SentInv == \A s \in Sensor : SentAt(s)

(* The reply of the receiver is one a box may hear.                        *)
LEMMA ReplyTyped ==
  ASSUME GatewayTypeOK, rxQueue # <<>>, Packet # Junk, NEW signed \in BOOLEAN
  PROVE  ReplyTo(Packet.reading, PacketOrder, signed) \in Reply
  <1>1. Packet.reading.seq \in Word /\ Packet.device \in Sensor /\ PacketBoot \in 0 .. HALF - 1
    BY PacketTyped DEF Reading
  <1>2. PacketOrder \in Order \cup {NoOrder}
    BY <1>1, TakenTyped DEF PacketOrder, GatewayTypeOK, TableType
  <1> QED BY <1>1, <1>2 DEF ReplyTo, Reply

(* A stranger's frame is a reply without an order.                         *)
LEMMA ForeignIs == Foreign \in Reply /\ Foreign.order = NoOrder
  BY ZeroWord DEF Foreign, Torn, Reply

(* To each box the house is a gateway that may answer anything.            *)
LEMMA BoxSteps ==
  ASSUME GatewayTypeOK, [HouseNext]_houseVars
  PROVE  [SensorNext]_sensorVars
  <1>1. CASE \E s \in Sensor : Transmit(s)
    BY <1>1 DEF Transmit, SensorNext
  <1>2. CASE Noise \/ PublishOne \/ RestartIngest \/ GatewayStep
    BY <1>2 DEF Noise, PublishOne, RestartIngest, GatewayStep
  <1>3. CASE Answer
    <2>1. rxQueue # <<>> /\ Packet # Junk
      BY <1>3 DEF Answer, RxReply
    <2>2. Packet.device \in Sensor
      BY <2>1, PacketTyped
    <2> QED BY <1>3, <2>1, <2>2, ReplyTyped DEF Answer, SensorNext
  <1>4. CASE BoxStep
    BY <1>4 DEF BoxStep, SensorNext
  <1>5. CASE UNCHANGED houseVars
    BY <1>5 DEF houseVars
  <1>6. CASE \E s \in Sensor : Overhear(s)
    BY <1>6, ForeignIs DEF Overhear, SensorNext
  <1> QED BY <1>1, <1>2, <1>3, <1>4, <1>5, <1>6 DEF HouseNext

LEMMA SentStep ==
  ASSUME SensorInv, SentInv, [SensorNext]_sensorVars
  PROVE  SentInv'
  <1> SensorTypeOK
    BY DEF SensorInv
  <1>0. CASE UNCHANGED sensorVars
    BY <1>0 DEF sensorVars, SentInv, SentAt
  <1> SUFFICES ASSUME NEW s \in Sensor,
                      Quiet(s) \/ Sample(s) \/ Restart(s) \/ PowerLoss(s),
                      NEW t \in Sensor
               PROVE  SentAt(t)'
    BY <1>0, StepKinds DEF SentInv
  <1>1. SentAt(t)
    BY DEF SentInv
  <1>2. CASE t # s
    BY <1>1, <1>2, OthersKept DEF SentAt
  <1>3. CASE t = s /\ (Restart(s) \/ PowerLoss(s) \/ Sleep(s))
    BY <1>3 DEF Restart, PowerLoss, Sleep, Reset, PowerDown, SensorTypeOK, SentAt
  <1>4. CASE t = s /\ Sample(s)
    <2>1. CanRead(s)
      BY <1>4 DEF SensorInv, ControlInv, ControlAt, BeforeSample, Sample, SampleWith, Goto
    <2>2. PICK boot \in 0 .. HALF - 1, put \in 0 .. HALF - 1 :
            SampleWith(s, boot, put)
      BY <1>4 DEF Sample
    <2>3. job'[s].reading = [n |-> taken[s] + 1, seq |-> FreshSeq(s, boot)]
      BY <2>1, <2>2, SampleDoes
    <2>4. taken[s] + 1 \in 1 .. MaxReadings
      BY <2>1, MessagesAssumption DEF SensorTypeOK, CanRead
    <2>5. job'[s].reading \in Reading
      BY <2>1, <2>3, <2>4, FreshSeqValue DEF Reading
    <2> QED BY <1>4, <2>5, ReadingIsSomething DEF SentAt
  <1>5. CASE t = s /\ Quiet(s)
    <2>1. CASE SendPending(s)
      <3>1. nvs[s].pending /\ job'[s].reading = nvs[s].reading
        BY <2>1 DEF SendPending, NewJob, SensorTypeOK
      <3> QED BY <1>5, <3>1 DEF SensorInv, ReadingInv, ReadingAt, TakenBefore, SentAt
    <2>2. CASE Hop(s)
      <3>1. pc[s] = "try" /\ job'[s].reading = job[s].reading
        BY <2>2 DEF Hop, Goto, SensorTypeOK
      <3> QED BY <1>1, <1>5, <3>1 DEF SentAt
    <2>3. CASE ListenTimeout(s) \/ \E reply \in Reply : Hear(s, reply)
      <3>1. pc[s] = "listen" /\ job' = job
        BY <2>3 DEF ListenTimeout, Hear, Goto
      <3> QED BY <1>1, <1>5, <3>1 DEF SentAt
    <2>4. CASE ~(SendPending(s) \/ Hop(s) \/ ListenTimeout(s)
                   \/ (\E reply \in Reply : Hear(s, reply)))
      <3>1. pc'[s] \notin {"try", "listen"}
        BY <1>5, <2>4
        DEF Quiet, Wake, NothingPending, GiveUpPending, Answered, RetryMissed, FreshMissed,
            SaveReading, SaveFlag, SaveRetry, ClearFlag, ClearRetry, AfterStorage, Sleep,
            PowerDown, Goto, SensorTypeOK
      <3> QED BY <1>5, <3>1 DEF SentAt
    <2> QED BY <2>1, <2>2, <2>3, <2>4
  <1> QED BY <1>2, <1>3, <1>4, <1>5

-----------------------------------------------------------------------------
(* To the gateway the house is a set of boxes and strangers.               *)
LEMMA GatewaySteps ==
  ASSUME GatewayTypeOK, SensorTypeOK, SentInv, [HouseNext]_houseVars
  PROVE  \/ [GatewayNext]_gatewayVars
         \/ \E packet \in Packets : OnRecv(packet)
  <1>1. CASE \E s \in Sensor : Transmit(s)
    <2>1. PICK s \in Sensor : Transmit(s)
      BY <1>1
    <2>2. job[s].reading \in Reading
      BY <2>1 DEF Transmit, Hop, Goto, SentInv, SentAt, SensorTypeOK
    <2>3. [device |-> s, reading |-> job[s].reading] \in Packets
      BY <2>2 DEF Packets
    <2> QED BY <2>1, <2>3 DEF Transmit
  <1>2. CASE Noise
    BY <1>2 DEF Noise, Packets
  <1>3. CASE Answer \/ PublishOne \/ GatewayStep
    BY <1>3 DEF Answer, PublishOne, GatewayStep, GatewayNext, ReceiverStep
  <1>4. CASE RestartIngest \/ BoxStep \/ (\E s \in Sensor : Overhear(s))
               \/ UNCHANGED houseVars
    BY <1>4 DEF RestartIngest, BoxStep, Overhear, houseVars
  <1> QED BY <1>1, <1>2, <1>3, <1>4 DEF HouseNext

LEMMA GatewayPart ==
  ASSUME GatewayInv, SensorTypeOK, SentInv, [HouseNext]_houseVars
  PROVE  GatewayInv'
  <1> GatewayTypeOK
    BY DEF GatewayInv
  <1>1. CASE [GatewayNext]_gatewayVars
    BY <1>1, GatewayStepInv
  <1>2. ASSUME NEW packet \in Packets, OnRecv(packet)
        PROVE  GatewayInv'
    <2>1. rxQueue' \in Seq(Packets) /\ Len(rxQueue') <= RX_QUEUE
      BY <1>2, QueueTyped, GatewayAssumption DEF OnRecv, GatewayTypeOK
    <2>2. GatewayTypeOK'
      BY <1>2, <2>1 DEF OnRecv, GatewayTypeOK
    <2> QED BY <1>2, <2>2, OtherInv DEF OnRecv, GatewayInv
  <1> QED BY <1>1, <1>2, GatewaySteps

(* What the publisher takes out of the queue.                              *)
LEMMA PublishedTyped ==
  ASSUME GatewayTypeOK, dataQueue # <<>>
  PROVE  Head(dataQueue).device \in Device /\ Head(dataQueue).reading \in Reading
  <1>1. Head(dataQueue) \in Item
    BY QueueTyped, GatewayAssumption DEF GatewayTypeOK
  <1> QED BY <1>1 DEF Item

(* What onMessage does to the map, the database and the account.           *)
LEMMA OnMessageCases ==
  ASSUME NEW d \in Device, NEW r \in Reading, Backend!OnMessage(d, r)
  PROVE  \/ UNCHANGED ingestVars
         \/ /\ ~Backend!IsReplay(d, r)
            /\ lastSeq' = [lastSeq EXCEPT ![d] = r.seq]
            /\ accepted' = [accepted EXCEPT ![d] = accepted[d] \cup {r}]
            /\ \/ stored' = stored
               \/ stored' = [stored EXCEPT ![d] = Append(stored[d], r)]
               \/ /\ Len(stored[d]) # 0
                  /\ stored' = [stored EXCEPT ![d] = [stored[d] EXCEPT ![Len(stored[d])] = r]]
            /\ restarts' = restarts
  <1>1. CASE Backend!IsReplay(d, r)
    BY <1>1 DEF Backend!OnMessage, Backend!ingestVars, ingestVars
  <1>2. CASE ~Backend!IsReplay(d, r)
    <2>1. /\ lastSeq' = [lastSeq EXCEPT ![d] = r.seq]
          /\ accepted' = [accepted EXCEPT ![d] = @ \cup {r}]
          /\ \/ \E series \in Backend!Written(stored[d], r) :
                  stored' = [stored EXCEPT ![d] = series]
             \/ UNCHANGED stored
          /\ UNCHANGED restarts
      BY <1>2 DEF Backend!OnMessage
    <2>2. \A series \in Backend!Written(stored[d], r) :
             \/ series = Append(stored[d], r)
             \/ Len(stored[d]) # 0 /\ series = [stored[d] EXCEPT ![Len(stored[d])] = r]
      BY DEF Backend!Written
    <2> QED BY <1>2, <2>1, <2>2
  <1> QED BY <1>1, <1>2

(* IngestTypeOK in the words of the house.                                 *)
IngestTypes ==
    /\ lastSeq \in [Device -> Word \cup {-1}]
    /\ stored \in [Device -> Seq(Reading)]
    /\ accepted \in [Device -> SUBSET Reading]
    /\ restarts \in 0 .. MaxRestarts

LEMMA IngestWords == Backend!IngestTypeOK <=> IngestTypes
  BY DEF Backend!IngestTypeOK, IngestTypes, Backend!Word, Word, Backend!Reading, Reading

LEMMA IngestStep ==
  ASSUME IngestTypes, GatewayTypeOK, [HouseNext]_houseVars
  PROVE  IngestTypes'
  <1> USE DEF IngestTypes
  <1>1. CASE UNCHANGED ingestVars
    BY <1>1 DEF ingestVars
  <1>2. CASE RestartIngest
    BY <1>2, HouseAssumption DEF RestartIngest, Backend!IngestRestart
  <1>3. CASE PublishOne
    <2> DEFINE d == Head(dataQueue).device
               r == Head(dataQueue).reading
    <2>1. dataQueue # <<>>
      BY <1>3 DEF PublishOne, Publish
    <2>2. d \in Device /\ r \in Reading /\ r.seq \in Word
      BY <2>1, PublishedTyped DEF Reading
    <2>3. UNCHANGED ingestVars \/ Backend!OnMessage(d, r)
      BY <1>3 DEF PublishOne
    <2> HIDE DEF d, r
    <2>4. stored[d] \in Seq(Reading)
      BY <2>2
    <2>5. /\ Append(stored[d], r) \in Seq(Reading)
          /\ Len(stored[d]) # 0
                => [stored[d] EXCEPT ![Len(stored[d])] = r] \in Seq(Reading)
      BY <2>2, <2>4
    <2>6. CASE Backend!OnMessage(d, r) /\ ~UNCHANGED ingestVars
      <3>1. /\ lastSeq' = [lastSeq EXCEPT ![d] = r.seq]
            /\ accepted' = [accepted EXCEPT ![d] = accepted[d] \cup {r}]
            /\ \/ stored' = stored
               \/ stored' = [stored EXCEPT ![d] = Append(stored[d], r)]
               \/ /\ Len(stored[d]) # 0
                  /\ stored' = [stored EXCEPT ![d] = [stored[d] EXCEPT ![Len(stored[d])] = r]]
            /\ restarts' = restarts
        BY <2>2, <2>6, OnMessageCases
      <3>2. accepted' \in [Device -> SUBSET Reading]
        BY <2>2, <3>1
      <3>3. stored' \in [Device -> Seq(Reading)]
        BY <2>2, <2>5, <3>1
      <3> QED BY <2>2, <3>1, <3>2, <3>3
    <2> QED BY <1>1, <2>3, <2>6
  <1> QED BY <1>1, <1>2, <1>3
          DEF HouseNext, Transmit, Overhear, Noise, Answer, BoxStep, GatewayStep, houseVars,
              ingestVars

HeardType == heard \in [Sensor -> SUBSET Reading]

LEMMA HeardStep ==
  ASSUME HeardType, GatewayTypeOK, [HouseNext]_houseVars
  PROVE  HeardType'
  <1>1. CASE Answer
    <2>1. rxQueue # <<>> /\ Packet # Junk
      BY <1>1 DEF Answer, RxReply
    <2>2. Packet.device \in Sensor /\ Packet.reading \in Reading
      BY <2>1, PacketTyped
    <2> QED BY <1>1, <2>2 DEF Answer, HeardType
  <1>2. CASE UNCHANGED heard
    BY <1>2 DEF HeardType
  <1> QED BY <1>1, <1>2
          DEF HouseNext, Transmit, Overhear, Noise, PublishOne, RestartIngest, BoxStep,
              GatewayStep, houseVars

(* What every part keeps by itself, and what one part hands the next.      *)
PartsInv == SensorInv /\ SentInv /\ GatewayInv /\ IngestTypes /\ HeardType

LEMMA PartsInit == HouseInit => PartsInv
  <1> SUFFICES ASSUME HouseInit PROVE PartsInv
    OBVIOUS
  <1>1. SensorInv /\ GatewayInv
    BY SensorInitInv, GatewayInitInv DEF HouseInit
  <1>2. SentInv
    BY DEF HouseInit, SensorInit, SentInv, SentAt
  <1>3. IngestTypes
    BY HouseAssumption DEF HouseInit, Backend!IngestInit, IngestTypes
  <1>4. HeardType
    BY DEF HouseInit, HeardType
  <1> QED BY <1>1, <1>2, <1>3, <1>4 DEF PartsInv

LEMMA PartsStep ==
  ASSUME PartsInv, [HouseNext]_houseVars
  PROVE  PartsInv'
  <1>1. SensorInv /\ SentInv /\ GatewayInv /\ IngestTypes /\ HeardType
    BY DEF PartsInv
  <1>2. SensorTypeOK /\ GatewayTypeOK
    BY <1>1 DEF SensorInv, GatewayInv
  <1>3. [SensorNext]_sensorVars
    BY <1>2, BoxSteps
  <1>4. SensorInv' /\ SentInv'
    BY <1>1, <1>3, SensorStepInv, SentStep
  <1>5. GatewayInv'
    BY <1>1, <1>2, GatewayPart
  <1>6. IngestTypes' /\ HeardType'
    BY <1>1, <1>2, IngestStep, HeardStep
  <1> QED BY <1>4, <1>5, <1>6 DEF PartsInv

(* The types of the whole house.                                           *)
THEOREM HouseTypeCorrect == HouseSpec => []HouseTypeOK
  <1>1. PartsInv /\ [HouseNext]_houseVars => PartsInv'
    BY PartsStep
  <1>2. PartsInv => HouseTypeOK
    BY IngestWords DEF PartsInv, SensorInv, GatewayInv, HeardType, HouseTypeOK
  <1> QED BY <1>1, <1>2, PartsInit, PTL DEF HouseSpec

(* The house implements its boxes: what holds of a box whose gateway may   *)
(* answer anything at any time holds of a box in a house.                  *)
THEOREM HouseImplementsBoxes == HouseSpec => SensorSpec
  <1>1. PartsInv /\ [HouseNext]_houseVars => PartsInv'
    BY PartsStep
  <1>2. PartsInv /\ [HouseNext]_houseVars => [SensorNext]_sensorVars
    BY BoxSteps DEF PartsInv, GatewayInv
  <1>3. HouseInit => SensorInit
    BY DEF HouseInit
  <1> QED BY <1>1, <1>2, <1>3, PartsInit, PTL DEF HouseSpec, SensorSpec

(* Storing an unanswered reading and keeping it (storage.h) do not depend  *)
(* on what the gateway of the house does.                                  *)
THEOREM HouseUnansweredIsSaved ==
  ASSUME ~NvsFaults PROVE HouseSpec => UnansweredIsSaved
  BY HouseImplementsBoxes, SensorUnansweredIsSaved, PTL

THEOREM HouseSavedUntilNewer ==
  ASSUME ~NvsFaults PROVE HouseSpec => SavedUntilNewer
  BY HouseImplementsBoxes, SensorSavedUntilNewer, PTL

(* Nor does it matter to the length of a wake, or to the numbers of the    *)
(* readings and the slot they wait in (run_sensor_mode, seq_counter.h).    *)
THEOREM HouseBoxes == HouseSpec => SeqRises /\ []SlotReadable /\ WakeRunsDown
  BY HouseImplementsBoxes, SensorSeqRises, SensorSlotReadable, SensorWakeRunsDown, PTL

(* No traffic of boxes and strangers upsets the command table of           *)
(* EspNow.cpp: one order per box, handed out PENDING_CMD_TRIES times.      *)
THEOREM HouseTable == HouseSpec => [](OneSlotPerBox /\ HandedAtMost)
  <1>1. PartsInv /\ [HouseNext]_houseVars => PartsInv'
    BY PartsStep
  <1>2. PartsInv => OneSlotPerBox /\ HandedAtMost
    <2>1. GatewayInv => OneSlotPerBox /\ HandedAtMost
      BY DEF GatewayInv, TableInv, OneSlotPerBox
    <2> QED BY <2>1 DEF PartsInv
  <1> QED BY <1>1, <1>2, PartsInit, PTL DEF HouseSpec

(* A packet that arrives only joins the queue: no slot, no order changes.  *)
LEMMA MailPart ==
  ASSUME MailInv, SensorTypeOK, SentInv, [HouseNext]_houseVars
  PROVE  MailInv' /\ [Mail!Next]_<<Mailboxes, issued, handed, cleared>>
  <1>1. GatewayInv /\ GatewayTypeOK
    BY DEF MailInv, GatewayInv
  <1>2. CASE [GatewayNext]_gatewayVars
    BY <1>2, MailInvStep, CourierStep
  <1>3. ASSUME NEW packet \in Packets, OnRecv(packet)
        PROVE  MailInv' /\ UNCHANGED <<Mailboxes, issued, handed, cleared>>
    <2>1. UNCHANGED <<table, issued, handed, cleared>>
      BY <1>3 DEF OnRecv
    <2>2. SlotInUse' /\ UNCHANGED <<Mailboxes, issued, handed, cleared>>
      BY <2>1 DEF MailInv, SlotInUse, Mailboxes
    <2> QED BY <1>1, <2>2, GatewayPart DEF MailInv
  <1> QED BY <1>1, <1>2, <1>3, GatewaySteps

(* In the house, too, the gateway keeps the promise of module Courier.     *)
THEOREM HouseCourierPromise == HouseSpec => CourierPromise
  <1>1. PartsInv /\ [HouseNext]_houseVars => PartsInv'
    BY PartsStep
  <1>2. PartsInv /\ MailInv /\ [HouseNext]_houseVars
            => MailInv' /\ [Mail!Next]_Mail!vars
    BY MailPart DEF PartsInv, SensorInv, Mailboxes, Mail!vars
  <1>3. HouseInit => MailInv /\ Mail!Init
    BY MailInvInit, CourierInit DEF HouseInit
  <1> QED BY <1>1, <1>2, <1>3, PartsInit, PTL
          DEF HouseSpec, CourierPromise, Mail!Spec

-----------------------------------------------------------------------------
(* D: devices whose boot counts were all stored, whatever else failed in   *)
(* their flash and whatever happened to other devices.  The readings of    *)
(* such a device, wherever in the house they are, rank by their numbers as *)
(* they rank by age, and the next one ranks above them all.                *)
ItemOf(d, r) == [device |-> d, reading |-> r]

Elements(q) == {q[i] : i \in 1 .. Len(q)}

Carried == Elements(rxQueue) \cup Elements(dataQueue) \cup {rxItem, selfItem}

BoxHolds(s) == {job[s].reading, nvs[s].reading} \ {NoReading}

InHouse(d) ==
    {r \in Reading : \/ d \in Sensor /\ r \in BoxHolds(d)
                    \/ ItemOf(d, r) \in Carried
                    \/ r \in accepted[d]}

Life(d) == IF d = Self THEN self.n ELSE taken[d]
Top(d)  == IF d = Self THEN self.seq ELSE topSeq[d]

RankAt(d) ==
    /\ \A r \in InHouse(d) : r.n <= Life(d) /\ r.seq <= Top(d)
    /\ \A a, b \in InHouse(d) : a.seq <= b.seq <=> a.n <= b.n

RankInv(D) == \A d \in D : RankAt(d)

(* The last number of a device is that of a reading the ingester let in.   *)
LastAt(d) ==
    /\ \A r \in accepted[d] : r.seq <= lastSeq[d]
    /\ lastSeq[d] # -1 => \E r \in accepted[d] : r.seq = lastSeq[d]

LastInv == \A d \in Device : LastAt(d)

(* The boot count of this boot was stored; that of the last one as well.   *)
BootsStored(D) == \A s \in Sensor \cap D : ~bootErr[s].now

SoundInv(D) == \A s \in Sensor \cap D : ~bootErr[s].now /\ ~bootErr[s].before

(* The gateway's own numbers stay within the block of its boot.            *)
SelfInv ==
    /\ self.boot \in 1 .. HALF - 1
    /\ self.boot * HALF <= self.seq /\ self.seq < (self.boot + 1) * HALF

HouseInv(D) == PartsInv /\ RankInv(D) /\ LastInv /\ SoundInv(D) /\ SelfInv

LEMMA HouseInitInv ==
  ASSUME NEW D \in SUBSET Device, HouseInit
  PROVE  HouseInv(D)
  <1>1. PartsInv
    BY PartsInit
  <1>2. \A d \in Device : InHouse(d) = {}
    <2> SUFFICES ASSUME NEW d \in Device PROVE InHouse(d) = {}
      OBVIOUS
    <2>1. \A r \in Reading : ItemOf(d, r) \in Item
      BY DEF ItemOf, Item
    <2>2. Carried = {NoItem}
      BY DEF HouseInit, GatewayInit, Carried, Elements
    <2>3. d \in Sensor => BoxHolds(d) = {}
      BY DEF HouseInit, SensorInit, NoJob, BoxHolds
    <2>4. accepted[d] = {}
      BY DEF HouseInit, Backend!IngestInit
    <2> QED BY <2>1, <2>2, <2>3, <2>4, JunkAssumption DEF InHouse
  <1>3. RankInv(D)
    BY <1>2 DEF RankInv, RankAt
  <1>4. LastInv
    BY DEF HouseInit, Backend!IngestInit, LastInv, LastAt
  <1>5. SoundInv(D)
    BY DEF HouseInit, SensorInit, SoundInv
  <1>6. SelfInv
    <2>1. self.boot = 1 /\ self.seq = HALF
      BY BaseOf, HalfAssumption DEF HouseInit, GatewayInit
    <2> QED BY <2>1, HalfAssumption DEF SelfInv
  <1> QED BY <1>1, <1>3, <1>4, <1>5, <1>6 DEF HouseInv

-----------------------------------------------------------------------------
(* Sound boot counts                                                       *)

LEMMA SoundStep ==
  ASSUME NEW D \in SUBSET Device, BootsStored(D)', SensorInv, SoundInv(D),
         [SensorNext]_sensorVars
  PROVE  SoundInv(D)'
  <1> SensorTypeOK
    BY DEF SensorInv
  <1>0. CASE UNCHANGED sensorVars
    BY <1>0 DEF sensorVars, SoundInv
  <1> SUFFICES ASSUME NEW s \in Sensor,
                      Quiet(s) \/ Sample(s) \/ Restart(s) \/ PowerLoss(s)
               PROVE  SoundInv(D)'
    BY <1>0, StepKinds
  <1>1. CASE Quiet(s) \/ Restart(s) \/ PowerLoss(s)
    BY <1>1, QuietKeeps, ResetKeeps DEF SoundInv
  <1>2. CASE Sample(s)
    <2>1. PICK boot \in 0 .. HALF - 1, put \in 0 .. HALF - 1 :
            SampleWith(s, boot, put)
      BY <1>2 DEF Sample
    <2>2. s \in D => ~bootErr'[s].now /\ ~bootErr'[s].before
      <3>1. CASE rtc[s].seq = 0
        BY <2>1, <3>1, SampleErrors DEF SoundInv, BootsStored
      <3>2. CASE rtc[s].seq # 0
        BY <2>1, <3>2 DEF SampleWith, SoundInv
      <3> QED BY <3>1, <3>2
    <2>3. \A t \in Sensor : t # s => bootErr'[t] = bootErr[t]
      BY <2>1, SampleOthers
    <2> QED BY <2>2, <2>3 DEF SoundInv
  <1> QED BY <1>1, <1>2

(* The gateway's own numbers                                               *)
LEMMA OwnNumber ==
  ASSUME GatewayTypeOK, SelfInv, OwnReading
  PROVE  /\ self'.boot = self.boot
         /\ self'.n = self.n + 1
         /\ self'.seq = self.seq + 1
         /\ self'.seq < (self.boot + 1) * HALF
         /\ selfItem' = [device |-> Self, reading |-> [n |-> self.n + 1, seq |-> self.seq + 1]]
  <1>1. self.boot \in Nat /\ self.seq \in Nat /\ self.n \in Nat
    BY HalfSquare DEF GatewayTypeOK, Word
  <1>2. self.seq + 1 < (self.boot + 1) * HALF
    BY <1>1, InBlock DEF OwnReading, SelfInv
  <1>3. (self.boot + 1) * HALF <= HALF * HALF
    BY <1>1, Mono, HalfAssumption DEF SelfInv
  <1>4. NextSeq(self.seq) = self.seq + 1
    <2>1. self.seq + 1 \in 0 .. HALF * HALF - 1
      BY <1>1, <1>2, <1>3, HalfSquare, HalfAssumption
    <2> QED BY <2>1, HalfSquare DEF NextSeq
  <1>5. /\ self' = [self EXCEPT !.n = self.n + 1, !.seq = self.seq + 1]
        /\ selfItem' = [device |-> Self, reading |-> [n |-> self.n + 1, seq |-> self.seq + 1]]
    BY <1>4 DEF OwnReading
  <1> QED BY <1>2, <1>5 DEF GatewayTypeOK

LEMMA RestartNumber ==
  ASSUME GatewayTypeOK, SelfInv, GatewayRestart
  PROVE  /\ self'.boot = self.boot + 1 /\ self'.boot \in 1 .. HALF - 1
         /\ self'.n = self.n
         /\ self'.seq = self'.boot * HALF
         /\ self'.seq > self.seq
  <1>1. self.boot \in Nat /\ self.seq \in Nat
    BY HalfSquare DEF GatewayTypeOK, Word
  <1>2. self.boot + 1 \in 1 .. HALF - 1
    BY <1>1, HalfAssumption DEF GatewayRestart, BootLeft
  <1>3. BootBase(self.boot + 1) = (self.boot + 1) * HALF
    BY <1>2, BaseOf
  <1>4. self' = [self EXCEPT !.boot = self.boot + 1, !.seq = (self.boot + 1) * HALF]
    BY <1>3 DEF GatewayRestart
  <1>5. /\ self'.boot = self.boot + 1 /\ self'.n = self.n
        /\ self'.seq = (self.boot + 1) * HALF
    BY <1>4 DEF GatewayTypeOK
  <1> QED BY <1>1, <1>2, <1>5, HalfAssumption DEF SelfInv

-----------------------------------------------------------------------------
(* Where readings go                                                       *)

(* A box keeps, loses or copies the readings it has, Sample aside.         *)
LEMMA BoxKeeps ==
  ASSUME SensorInv, NEW s \in Sensor, NEW t \in Sensor,
         Quiet(s) \/ Restart(s) \/ PowerLoss(s)
  PROVE  BoxHolds(t)' \subseteq BoxHolds(t)
  <1> SensorTypeOK
    BY DEF SensorInv
  <1>1. CASE t # s
    BY <1>1, OthersKept DEF BoxHolds
  <1>2. CASE t = s /\ (Restart(s) \/ PowerLoss(s) \/ Sleep(s))
    <2>1. job'[s] = NoJob /\ nvs' = nvs
      BY <1>2 DEF Restart, PowerLoss, Sleep, Reset, PowerDown, SensorTypeOK
    <2> QED BY <1>2, <2>1 DEF NoJob, BoxHolds
  <1>3. CASE t = s /\ Quiet(s) /\ ~Sleep(s)
    <2>1. CASE \/ Wake(s) \/ NothingPending(s) \/ GiveUpPending(s) \/ ListenTimeout(s)
               \/ FreshMissed(s) \/ \E reply \in Reply : Hear(s, reply)
      BY <2>1 DEF Wake, NothingPending, GiveUpPending, ListenTimeout, FreshMissed, Hear, BoxHolds
    <2>2. CASE SendPending(s) \/ Hop(s) \/ Answered(s)
      <3>1. job'[s].reading \in {job[s].reading, nvs[s].reading} /\ nvs' = nvs
        BY <2>2 DEF SendPending, NewJob, Hop, Answered, SensorTypeOK
      <3> QED BY <1>3, <3>1 DEF BoxHolds
    <2>3. CASE RetryMissed(s) \/ SaveReading(s) \/ SaveFlag(s) \/ SaveRetry(s)
               \/ ClearFlag(s) \/ ClearRetry(s)
      <3>1. nvs'[s].reading \in {job[s].reading, nvs[s].reading} /\ job' = job
        BY <2>3 DEF RetryMissed, SaveReading, SaveFlag, SaveRetry, ClearFlag, ClearRetry,
                    NvsPut, SensorTypeOK
      <3> QED BY <1>3, <3>1 DEF BoxHolds
    <2> QED BY <1>3, <2>1, <2>2, <2>3 DEF Quiet
  <1> QED BY <1>1, <1>2, <1>3

(* What a queue holds after it was written and after it was read.          *)
LEMMA QueueElements ==
  ASSUME NEW S, NEW q \in Seq(S)
  PROVE  /\ \A x \in S : Elements(Append(q, x)) = Elements(q) \cup {x}
         /\ q # <<>> => Head(q) \in Elements(q) /\ Elements(Tail(q)) \subseteq Elements(q)
         /\ Elements(<<>>) = {}
  <1>1. ASSUME NEW x \in S
        PROVE  Elements(Append(q, x)) = Elements(q) \cup {x}
    <2>1. /\ Len(q) \in Nat /\ Len(Append(q, x)) = Len(q) + 1
          /\ \A i \in 1 .. Len(q) : Append(q, x)[i] = q[i]
          /\ Append(q, x)[Len(q) + 1] = x
      OBVIOUS
    <2>2. 1 .. Len(q) + 1 = (1 .. Len(q)) \cup {Len(q) + 1}
      BY <2>1
    <2> HIDE DEF Elements
    <2>3. Elements(Append(q, x)) = {Append(q, x)[i] : i \in (1 .. Len(q)) \cup {Len(q) + 1}}
      BY <2>1, <2>2 DEF Elements
    <2>4. \A y : y \in Elements(Append(q, x)) <=> y \in Elements(q) \/ y = x
      BY <2>1, <2>3 DEF Elements
    <2> QED BY <2>4
  <1>2. ASSUME q # <<>>
        PROVE  Head(q) \in Elements(q) /\ Elements(Tail(q)) \subseteq Elements(q)
    <2>1. Len(q) \in Nat \ {0} /\ Head(q) = q[1]
      BY <1>2
    <2>2. Len(Tail(q)) = Len(q) - 1 /\ \A i \in 1 .. Len(q) - 1 : Tail(q)[i] = q[i + 1]
      BY <1>2
    <2>3. \A i \in 1 .. Len(q) - 1 : i + 1 \in 1 .. Len(q)
      BY <2>1
    <2> QED BY <2>1, <2>2, <2>3 DEF Elements
  <1>3. Elements(<<>>) = {}
    BY DEF Elements
  <1> QED BY <1>1, <1>2, <1>3

(* The gateway hands readings on and drops them; it has new ones from      *)
(* on_recv and from its own sensor only.                                   *)
LEMMA ArrivalCarries ==
  ASSUME GatewayTypeOK, NEW packet \in Packets, OnRecv(packet)
  PROVE  Carried' \subseteq Carried \cup {packet}
  <1>1. rxQueue \in Seq(Packets)
    BY DEF GatewayTypeOK
  <1>2. Elements(Append(rxQueue, packet)) = Elements(rxQueue) \cup {packet}
    BY <1>1, QueueElements
  <1> QED BY <1>2 DEF OnRecv, Carried

LEMMA GatewayCarries ==
  ASSUME GatewayTypeOK,
         \/ RxReject \/ RxReply \/ RxEnqueue \/ RxGiveUp \/ OwnEnqueue \/ OwnGiveUp
         \/ Publish \/ ChangeChannel \/ GatewayRestart
         \/ \E s \in Sensor, o \in Order : QueueCommand(s, o)
  PROVE  Carried' \subseteq Carried \cup {NoItem}
  <1>1. rxQueue \in Seq(Packets) /\ dataQueue \in Seq(Item)
    BY DEF GatewayTypeOK
  <1>2. CASE RxReject \/ RxReply
    <2>1. rxQueue # <<>> /\ rxQueue' = Tail(rxQueue)
      BY <1>2 DEF RxReject, RxReply
    <2>2. Head(rxQueue) \in Elements(rxQueue) /\ Elements(Tail(rxQueue)) \subseteq Elements(rxQueue)
      BY <1>1, <2>1, QueueElements
    <2>3. /\ dataQueue' = dataQueue /\ selfItem' = selfItem
          /\ rxItem' \in {rxItem, Head(rxQueue)}
      BY <1>2 DEF RxReject, RxReply, Packet
    <2>4. Elements(rxQueue)' = Elements(Tail(rxQueue)) /\ Elements(dataQueue)' = Elements(dataQueue)
      BY <2>1, <2>3 DEF Elements
    <2> QED BY <2>2, <2>3, <2>4 DEF Carried
  <1>3. CASE RxEnqueue
    <2>1. rxItem \in Item
      BY <1>3 DEF RxEnqueue, GatewayTypeOK
    <2> QED BY <1>1, <1>3, <2>1, QueueElements DEF RxEnqueue, Carried
  <1>4. CASE OwnEnqueue
    <2>1. selfItem \in Item
      BY <1>4 DEF OwnEnqueue, GatewayTypeOK
    <2> QED BY <1>1, <1>4, <2>1, QueueElements DEF OwnEnqueue, Carried
  <1>5. CASE RxGiveUp \/ OwnGiveUp
    BY <1>5 DEF RxGiveUp, OwnGiveUp, Carried
  <1>6. CASE Publish
    BY <1>1, <1>6, QueueElements DEF Publish, Carried
  <1>7. CASE GatewayRestart
    BY <1>1, <1>7, QueueElements DEF GatewayRestart, Carried
  <1>8. CASE ChangeChannel \/ \E s \in Sensor, o \in Order : QueueCommand(s, o)
    BY <1>8 DEF ChangeChannel, QueueCommand, Carried
  <1> QED BY <1>2, <1>3, <1>4, <1>5, <1>6, <1>7, <1>8

-----------------------------------------------------------------------------
(* The ranking                                                             *)

RankTypes(d) ==
    /\ Life(d) \in Nat /\ Top(d) \in Int
    /\ \A r \in InHouse(d) : r \in Reading /\ r.n \in Nat /\ r.seq \in Nat

LEMMA RankTyped == PartsInv => \A d \in Device : RankTypes(d)
  <1> SUFFICES ASSUME PartsInv, NEW d \in Device PROVE RankTypes(d)
    OBVIOUS
  <1>1. \A w \in Word : w \in Nat
    BY HalfSquare DEF Word
  <1>2. SensorTypeOK /\ GatewayTypeOK
    BY DEF PartsInv, SensorInv, GatewayInv
  <1>3. Life(d) \in Nat /\ Top(d) \in Int
    <2>1. self.n \in Nat /\ self.seq \in Word
      <3>1. self \in [boot : Nat, seq : Word, n : 0 .. MaxOwn]
        BY <1>2 DEF GatewayTypeOK
      <3> QED BY <3>1, GatewayAssumption
    <2>2. d # Self => taken[d] \in Nat /\ topSeq[d] \in Int
      BY <1>1, <1>2, MessagesAssumption DEF SensorTypeOK, Device
    <2> QED BY <1>1, <2>1, <2>2 DEF Life, Top
  <1>4. \A r \in InHouse(d) : r \in Reading /\ r.n \in Nat /\ r.seq \in Nat
    <2>1. \A r \in Reading : r.n \in Nat /\ r.seq \in Nat
      BY <1>1, MessagesAssumption DEF Reading
    <2> QED BY <2>1 DEF InHouse
  <1> QED BY <1>3, <1>4 DEF RankTypes

LEMMA RankTypedNext == PartsInv' => (\A d \in Device : RankTypes(d))'
  <1>1. PartsInv => \A d \in Device : RankTypes(d)
    BY RankTyped
  <1> QED BY <1>1, PTL

(* Readings that move through the house, or vanish, keep their ranks.      *)
LEMMA RankKept ==
  ASSUME PartsInv, PartsInv', NEW d \in Device, RankAt(d),
         InHouse(d)' \subseteq InHouse(d),
         Life(d) <= Life(d)', Top(d) <= Top(d)'
  PROVE  RankAt(d)'
  <1>1. Life(d) \in Nat /\ Life(d)' \in Nat /\ Top(d) \in Int /\ Top(d)' \in Int
    BY RankTyped, RankTypedNext DEF RankTypes
  <1>2. \A r \in InHouse(d) : r.n \in Nat /\ r.seq \in Nat
    BY RankTyped DEF RankTypes
  <1>3. \A r \in InHouse(d)' : r.n <= Life(d)' /\ r.seq <= Top(d)'
    BY <1>1, <1>2 DEF RankAt
  <1>4. \A a, b \in InHouse(d)' : a.seq <= b.seq <=> a.n <= b.n
    BY DEF RankAt
  <1> QED BY <1>3, <1>4 DEF RankAt

(* A new reading that is younger than all others and outnumbers them.      *)
LEMMA RankFresh ==
  ASSUME PartsInv, PartsInv', NEW d \in Device, RankAt(d),
         NEW f, f.n \in Nat, f.seq \in Nat, InHouse(d)' \subseteq InHouse(d) \cup {f},
         f.n = Life(d) + 1, Life(d)' = Life(d) + 1,
         f.seq > Top(d), Top(d)' >= f.seq
  PROVE  RankAt(d)'
  <1>1. Life(d) \in Nat /\ Life(d)' \in Nat /\ Top(d) \in Int /\ Top(d)' \in Int
    BY RankTyped, RankTypedNext DEF RankTypes
  <1>2. \A r \in InHouse(d) : r.n \in Nat /\ r.seq \in Nat
    BY RankTyped DEF RankTypes
  <1>3. \A r \in InHouse(d) : r.n < f.n /\ r.seq < f.seq
    BY <1>1, <1>2 DEF RankAt
  <1>4. \A r \in InHouse(d)' : r.n <= Life(d)' /\ r.seq <= Top(d)'
    BY <1>1, <1>2, <1>3
  <1>5. ASSUME NEW a \in InHouse(d)', NEW b \in InHouse(d)'
        PROVE  a.seq <= b.seq <=> a.n <= b.n
    <2>1. CASE a \in InHouse(d) /\ b \in InHouse(d)
      BY <2>1 DEF RankAt
    <2>2. CASE a = f /\ b \in InHouse(d)
      BY <1>2, <1>3, <2>2
    <2>3. CASE a \in InHouse(d) /\ b = f
      BY <1>2, <1>3, <2>3
    <2>4. CASE a = f /\ b = f
      BY <2>4
    <2> QED BY <1>5, <2>1, <2>2, <2>3, <2>4
  <1> QED BY <1>4, <1>5 DEF RankAt

(* Nothing new in the house of a device.                                   *)
LEMMA NothingNew ==
  ASSUME NEW d \in Device, d \in Sensor => BoxHolds(d)' \subseteq BoxHolds(d),
         \A r \in Reading : ItemOf(d, r) \in Carried' => r \in InHouse(d),
         \A r \in Reading : r \in accepted'[d] => r \in InHouse(d)
  PROVE  InHouse(d)' \subseteq InHouse(d)
  BY DEF InHouse, ItemOf

(* What the queues lose and the markers that stand for no reading.         *)
LEMMA CarriedKept ==
  ASSUME NEW d \in Device, Carried' \subseteq Carried \cup {NoItem, Junk}
  PROVE  \A r \in Reading : ItemOf(d, r) \in Carried' => r \in InHouse(d)
  <1>1. \A r \in Reading : ItemOf(d, r) \in Item
    BY DEF ItemOf, Item
  <1> QED BY <1>1, JunkAssumption DEF InHouse

(* A fresh reading of a box with sound flash is younger than all others of *)
(* the box and outnumbers them.                                            *)
LEMMA FreshReading ==
  ASSUME NEW D \in SUBSET Device, SensorInv, SoundInv(D)',
         NEW s \in Sensor \cap D, Sample(s)
  PROVE  \E f \in Reading :
            /\ f.n \in Nat /\ f.seq \in Nat
            /\ BoxHolds(s)' \subseteq BoxHolds(s) \cup {f}
            /\ f.n = taken[s] + 1 /\ taken'[s] = taken[s] + 1
            /\ f.seq > topSeq[s] /\ topSeq'[s] = f.seq
  <1>1. SensorTypeOK /\ ControlInv /\ CounterInv
    BY DEF SensorInv
  <1>2. CanRead(s)
    BY <1>1 DEF ControlInv, ControlAt, BeforeSample, Sample, SampleWith, Goto
  <1>3. PICK boot \in 0 .. HALF - 1, put \in 0 .. HALF - 1 : SampleWith(s, boot, put)
    BY DEF Sample
  <1> DEFINE f == [n |-> taken[s] + 1, seq |-> FreshSeq(s, boot)]
  <1>4. /\ job'[s].reading = f /\ nvs'[s].reading = nvs[s].reading
        /\ taken'[s] = taken[s] + 1 /\ topSeq'[s] = Higher(topSeq[s], f.seq)
    BY <1>1, <1>2, <1>3, SampleDoes
  <1>5. /\ taken[s] \in Nat /\ taken[s] + 1 \in 1 .. MaxReadings
        /\ FreshSeq(s, boot) \in Word
    BY <1>1, <1>2, FreshSeqValue, MessagesAssumption DEF SensorTypeOK, CanRead
  <1>6. FreshSeq(s, boot) \in Nat /\ topSeq[s] \in Int
    BY <1>1, <1>5, HalfSquare DEF SensorTypeOK, Word
  <1>7. f \in Reading /\ f.n \in Nat /\ f.seq \in Nat
    BY <1>5, <1>6 DEF Reading
  <1>8. topSeq'[s] > topSeq[s]
    <2>1. [SensorNext]_sensorVars /\ taken'[s] # taken[s]
      BY <1>4, <1>5 DEF SensorNext, WakeStep
    <2> QED BY <1>1, <2>1, TopRises DEF SoundInv
  <1>9. f.seq > topSeq[s] /\ topSeq'[s] = f.seq
    BY <1>4, <1>6, <1>8 DEF Higher
  <1> QED BY <1>4, <1>7, <1>9 DEF BoxHolds

(* Whatever the boxes do while the gateway takes no reading of its own.    *)
LEMMA BoxRank ==
  ASSUME NEW D \in SUBSET Device, PartsInv, PartsInv', SoundInv(D)', RankInv(D),
         [SensorNext]_sensorVars, self' = self,
         \A d \in Device : \A r \in Reading :
            ItemOf(d, r) \in Carried' \/ r \in accepted'[d] => r \in InHouse(d)
  PROVE  RankInv(D)'
  <1> SUFFICES ASSUME NEW d \in D PROVE RankAt(d)'
    BY DEF RankInv
  <1>1. RankAt(d) /\ SensorInv /\ SensorTypeOK
    BY DEF RankInv, PartsInv, SensorInv
  <1>2. Life(d) \in Nat /\ Top(d) \in Int
    BY RankTyped DEF RankTypes
  <1>3. ASSUME Life(d)' = Life(d), Top(d)' = Top(d),
               d \in Sensor => BoxHolds(d)' \subseteq BoxHolds(d)
        PROVE  RankAt(d)'
    BY <1>1, <1>2, <1>3, NothingNew, RankKept
  <1>4. CASE d = Self
    BY <1>3, <1>4, GatewayAssumption DEF Life, Top
  <1>5. CASE d \in Sensor
    <2>1. d # Self
      BY <1>5, GatewayAssumption
    <2>2. CASE UNCHANGED sensorVars
      BY <1>3, <2>1, <2>2 DEF sensorVars, Life, Top, BoxHolds
    <2>3. ASSUME NEW s \in Sensor, Quiet(s) \/ Restart(s) \/ PowerLoss(s)
          PROVE  RankAt(d)'
      <3>1. UNCHANGED <<taken, topSeq>>
        BY <1>1, <2>3, QuietKeeps, ResetKeeps
      <3>2. BoxHolds(d)' \subseteq BoxHolds(d)
        BY <1>1, <1>5, <2>3, BoxKeeps
      <3> QED BY <1>3, <2>1, <3>1, <3>2 DEF Life, Top
    <2>4. ASSUME NEW s \in Sensor, Sample(s), s # d
          PROVE  RankAt(d)'
      <3>1. /\ taken'[d] = taken[d] /\ topSeq'[d] = topSeq[d]
            /\ job'[d] = job[d] /\ nvs'[d] = nvs[d]
        BY <1>1, <1>5, <2>4, SampleOthers DEF Sample
      <3> QED BY <1>3, <2>1, <3>1 DEF Life, Top, BoxHolds
    <2>5. ASSUME Sample(d)
          PROVE  RankAt(d)'
      <3>1. PICK f \in Reading :
              /\ f.n \in Nat /\ f.seq \in Nat
              /\ BoxHolds(d)' \subseteq BoxHolds(d) \cup {f}
              /\ f.n = taken[d] + 1 /\ taken'[d] = taken[d] + 1
              /\ f.seq > topSeq[d] /\ topSeq'[d] = f.seq
        BY <1>1, <1>5, <2>5, FreshReading
      <3>2. InHouse(d)' \subseteq InHouse(d) \cup {f}
        BY <1>5, <3>1 DEF InHouse, ItemOf
      <3>3. /\ f.n = Life(d) + 1 /\ Life(d)' = Life(d) + 1
            /\ f.seq > Top(d) /\ Top(d)' = f.seq
        BY <2>1, <3>1 DEF Life, Top
      <3>4. Top(d)' >= f.seq
        BY <3>1, <3>3
      <3> QED BY <1>1, <3>1, <3>2, <3>3, <3>4, RankFresh
    <2> QED BY <2>2, <2>3, <2>4, <2>5, StepKinds
  <1> QED BY <1>4, <1>5 DEF Device

(* The gateway takes a reading of its own, or restarts.                    *)
LEMMA OwnRank ==
  ASSUME NEW D \in SUBSET Device, PartsInv, PartsInv', RankInv(D), SelfInv, OwnReading \/ GatewayRestart,
         UNCHANGED <<sensorVars, accepted>>
  PROVE  RankInv(D)'
  <1> SUFFICES ASSUME NEW d \in D PROVE RankAt(d)'
    BY DEF RankInv
  <1>1. RankAt(d) /\ GatewayTypeOK
    BY DEF RankInv, PartsInv, GatewayInv
  <1>2. Life(d) \in Nat /\ Top(d) \in Int /\ Top(d)' \in Int
    BY RankTyped, RankTypedNext DEF RankTypes
  <1>3. d \in Sensor => BoxHolds(d)' = BoxHolds(d)
    BY DEF sensorVars, BoxHolds
  <1>4. CASE GatewayRestart
    <2>1. Life(d)' = Life(d) /\ Top(d) <= Top(d)'
      BY <1>1, <1>2, <1>4, RestartNumber DEF Life, Top, sensorVars
    <2>2. Carried' \subseteq Carried \cup {NoItem, Junk}
      BY <1>1, <1>4, GatewayCarries
    <2>3. InHouse(d)' \subseteq InHouse(d)
      BY <1>3, <2>2, CarriedKept, NothingNew DEF InHouse
    <2> QED BY <1>1, <1>2, <2>1, <2>3, RankKept
  <1>5. CASE OwnReading
    <2> DEFINE f == [n |-> self.n + 1, seq |-> self.seq + 1]
    <2>1. /\ self'.n = self.n + 1 /\ self'.seq = self.seq + 1
          /\ selfItem' = ItemOf(Self, f)
      BY <1>1, <1>5, OwnNumber DEF ItemOf
    <2>2. /\ rxQueue' = rxQueue /\ dataQueue' = dataQueue /\ rxItem' = rxItem
      BY <1>5 DEF OwnReading
    <2>3. Carried' \subseteq Carried \cup {ItemOf(Self, f)}
      BY <2>1, <2>2 DEF Carried, Elements
    <2>4. \A r \in Reading : ItemOf(d, r) = ItemOf(Self, f) => d = Self /\ r = f
      BY DEF ItemOf
    <2>5. InHouse(d)' \subseteq InHouse(d) \cup (IF d = Self THEN {f} ELSE {})
      BY <1>3, <2>3, <2>4 DEF InHouse
    <2>6. CASE d # Self
      <3>1. Life(d)' = Life(d) /\ Top(d)' = Top(d)
        BY <2>6 DEF Life, Top, sensorVars
      <3> QED BY <1>1, <1>2, <2>5, <2>6, <3>1, RankKept
    <2>7. CASE d = Self
      <3>1. /\ Life(d) = self.n /\ Top(d) = self.seq
            /\ Life(d)' = Life(d) + 1 /\ Top(d)' = Top(d) + 1
        BY <2>1, <2>7 DEF Life, Top
      <3>2. self.n \in Nat /\ self.seq \in Nat
        BY <1>1, HalfSquare, GatewayAssumption DEF GatewayTypeOK, Word
      <3>3. /\ f.n \in Nat /\ f.seq \in Nat /\ f.n = Life(d) + 1
            /\ f.seq > Top(d) /\ Top(d)' >= f.seq
        BY <3>1, <3>2
      <3> QED BY <1>1, <2>5, <2>7, <3>1, <3>3, RankFresh
    <2> QED BY <2>6, <2>7
  <1> QED BY <1>4, <1>5

(* What the queues and the ingester have after a step of the house, they   *)
(* have from the house.                                                    *)
OwnStep == GatewayStep /\ (OwnReading \/ GatewayRestart)

LEMMA NoneForged ==
  ASSUME PartsInv, [HouseNext]_houseVars, ~OwnStep,
         NEW d \in Device, NEW r \in Reading,
         ItemOf(d, r) \in Carried' \/ r \in accepted'[d]
  PROVE  r \in InHouse(d)
  <1>1. GatewayTypeOK /\ IngestTypes /\ SensorTypeOK
    BY DEF PartsInv, GatewayInv, SensorInv
  <1>2. ItemOf(d, r) \in Carried \/ r \in accepted[d] => r \in InHouse(d)
    BY DEF InHouse
  <1>3. ItemOf(d, r) # NoItem /\ ItemOf(d, r) # Junk
    BY JunkAssumption DEF ItemOf, Item
  <1>4. CASE UNCHANGED houseVars \/ BoxStep \/ \E s \in Sensor : Overhear(s)
    BY <1>2, <1>4 DEF houseVars, BoxStep, Overhear, gatewayVars, ingestVars, Carried, Elements
  <1>5. CASE \E s \in Sensor : Transmit(s)
    <2>1. PICK s \in Sensor : Transmit(s)
      BY <1>5
    <2>2. accepted' = accepted /\ Hop(s)
      BY <2>1 DEF Transmit, ingestVars
    <2>3. CASE UNCHANGED gatewayVars
      BY <1>2, <2>2, <2>3 DEF gatewayVars, Carried, Elements
    <2>4. CASE OnRecv(ItemOf(s, job[s].reading))
      <3>1. job[s].reading \in Reading
        BY <2>2 DEF Hop, Goto, PartsInv, SentInv, SentAt, SensorInv, SensorTypeOK
      <3>2. ItemOf(s, job[s].reading) \in Packets
        BY <3>1 DEF ItemOf, Packets
      <3>3. Carried' \subseteq Carried \cup {ItemOf(s, job[s].reading)}
        BY <1>1, <2>4, <3>2, ArrivalCarries
      <3>4. ItemOf(d, r) = ItemOf(s, job[s].reading) => d = s /\ r = job[s].reading
        BY DEF ItemOf
      <3>5. d = s /\ r = job[s].reading => r \in InHouse(d)
        BY <3>1, ReadingIsSomething DEF InHouse, BoxHolds
      <3> QED BY <1>2, <2>2, <3>3, <3>4, <3>5
    <2> QED BY <2>1, <2>3, <2>4 DEF Transmit, ItemOf
  <1>6. CASE Noise
    <2>1. Carried' \subseteq Carried \cup {Junk}
      BY <1>1, <1>6, ArrivalCarries DEF Noise, Packets
    <2> QED BY <1>2, <1>3, <1>6, <2>1 DEF Noise, ingestVars
  <1>7. CASE Answer \/ GatewayStep
    <2>1. Carried' \subseteq Carried \cup {NoItem} /\ accepted' = accepted
      BY <1>1, <1>7, GatewayCarries DEF Answer, GatewayStep, OwnStep, ReaderStep, ingestVars
    <2> QED BY <1>2, <1>3, <2>1
  <1>8. CASE PublishOne
    <2>1. Carried' \subseteq Carried \cup {NoItem} /\ dataQueue # <<>>
      BY <1>1, <1>8, GatewayCarries DEF PublishOne, Publish
    <2> DEFINE i == Head(dataQueue)
    <2>2. i \in Item /\ i \in Carried
      BY <1>1, <2>1, QueueElements DEF GatewayTypeOK, Carried
    <2>3. i = ItemOf(i.device, i.reading) /\ i.device \in Device /\ i.reading \in Reading
      BY <2>2 DEF Item, ItemOf
    <2>4. UNCHANGED ingestVars \/ Backend!OnMessage(i.device, i.reading)
      BY <1>8 DEF PublishOne
    <2> HIDE DEF i
    <2>5. \/ accepted' = accepted
          \/ accepted' = [accepted EXCEPT ![i.device] = accepted[i.device] \cup {i.reading}]
      BY <2>3, <2>4, OnMessageCases DEF ingestVars
    <2>6. r \in accepted'[d] => r \in accepted[d] \/ (d = i.device /\ r = i.reading)
      BY <1>1, <2>5 DEF IngestTypes
    <2> QED BY <1>2, <1>3, <2>1, <2>2, <2>3, <2>6
  <1>9. CASE RestartIngest
    <2>1. accepted'[d] = {} /\ UNCHANGED gatewayVars
      BY <1>9 DEF RestartIngest, Backend!IngestRestart
    <2> QED BY <1>2, <2>1 DEF gatewayVars, Carried, Elements
  <1> QED BY <1>4, <1>5, <1>6, <1>7, <1>8, <1>9 DEF HouseNext

LEMMA RankStep ==
  ASSUME NEW D \in SUBSET Device, PartsInv, PartsInv', RankInv(D), SoundInv(D)', SelfInv,
         [HouseNext]_houseVars
  PROVE  RankInv(D)' /\ SelfInv'
  <1>1. GatewayTypeOK
    BY DEF PartsInv, GatewayInv
  <1>2. CASE OwnStep
    <2>1. RankInv(D)'
      BY <1>2, OwnRank DEF OwnStep, GatewayStep, ingestVars
    <2>2. ASSUME OwnReading PROVE SelfInv'
      <3>1. /\ self'.boot = self.boot /\ self'.seq = self.seq + 1
            /\ self'.seq < (self.boot + 1) * HALF
        BY <1>1, <2>2, OwnNumber
      <3>2. self.seq \in Nat /\ self.boot * HALF \in Nat
        BY <1>1, HalfSquare, HalfAssumption DEF GatewayTypeOK, Word
      <3> QED BY <3>1, <3>2 DEF SelfInv
    <2>3. ASSUME GatewayRestart PROVE SelfInv'
      <3>1. self'.boot \in 1 .. HALF - 1 /\ self'.seq = self'.boot * HALF
        BY <1>1, <2>3, RestartNumber
      <3>2. \A b \in Nat : b * HALF <= b * HALF /\ b * HALF < (b + 1) * HALF
        BY HalfAssumption
      <3> QED BY <3>1, <3>2, HalfAssumption DEF SelfInv
    <2> QED BY <1>2, <2>1, <2>2, <2>3 DEF OwnStep
  <1>3. CASE ~OwnStep
    <2>1. self' = self
      BY <1>3 DEF HouseNext, OwnStep, GatewayStep, Transmit, Overhear, Noise, Answer, PublishOne,
         RestartIngest, BoxStep, houseVars, gatewayVars, OnRecv, RxReply, Publish, RxReject,
         RxEnqueue, RxGiveUp, ReaderStep, OwnEnqueue, OwnGiveUp, QueueCommand, ChangeChannel
    <2>2. [SensorNext]_sensorVars
      BY <1>1, BoxSteps
    <2>3. RankInv(D)'
      BY <1>3, <2>1, <2>2, NoneForged, BoxRank
    <2> QED BY <2>1, <2>3 DEF SelfInv
  <1> QED BY <1>2, <1>3

LEMMA LastStep ==
  ASSUME PartsInv, LastInv, [HouseNext]_houseVars
  PROVE  LastInv'
  <1>1. GatewayTypeOK /\ IngestTypes
    BY DEF PartsInv, GatewayInv
  <1>2. CASE UNCHANGED ingestVars
    BY <1>2 DEF ingestVars, LastInv, LastAt
  <1>3. CASE RestartIngest
    BY <1>3 DEF RestartIngest, Backend!IngestRestart, LastInv, LastAt
  <1>4. CASE PublishOne /\ ~UNCHANGED ingestVars
    <2>1. PICK d \in Device, r \in Reading : Backend!OnMessage(d, r)
      BY <1>1, <1>4, PublishedTyped DEF PublishOne, Publish
    <2>2. /\ ~(r.seq <= lastSeq[d])
          /\ lastSeq' = [lastSeq EXCEPT ![d] = r.seq]
          /\ accepted' = [accepted EXCEPT ![d] = accepted[d] \cup {r}]
      BY <1>4, <2>1, OnMessageCases DEF Backend!IsReplay
    <2>3. \A a \in Reading : a.seq \in Nat
      BY HalfSquare DEF Reading, Word
    <2>4. lastSeq[d] \in Int /\ accepted[d] \subseteq Reading /\ r.seq \in Nat
      BY <1>1, <2>1, <2>3, HalfSquare DEF IngestTypes, Word
    <2>5. LastAt(d)'
      <3>1. lastSeq'[d] = r.seq /\ accepted'[d] = accepted[d] \cup {r}
        BY <1>1, <2>1, <2>2 DEF IngestTypes
      <3>2. \A a \in accepted[d] : a.seq <= r.seq
        BY <2>1, <2>2, <2>3, <2>4 DEF LastInv, LastAt
      <3> QED BY <2>4, <3>1, <3>2 DEF LastAt
    <2>6. ASSUME NEW e \in Device, e # d
          PROVE  LastAt(e)'
      <3>1. lastSeq'[e] = lastSeq[e] /\ accepted'[e] = accepted[e]
        BY <1>1, <2>2, <2>6 DEF IngestTypes
      <3> QED BY <3>1 DEF LastInv, LastAt
    <2> QED BY <2>5, <2>6 DEF LastInv
  <1> QED BY <1>2, <1>3, <1>4
          DEF HouseNext, Transmit, Overhear, Noise, Answer, BoxStep, GatewayStep, houseVars,
              ingestVars

LEMMA HouseStepInv ==
  ASSUME NEW D \in SUBSET Device, BootsStored(D)', HouseInv(D), [HouseNext]_houseVars
  PROVE  HouseInv(D)'
  <1>1. PartsInv /\ PartsInv'
    BY PartsStep DEF HouseInv
  <1>2. SensorInv /\ [SensorNext]_sensorVars
    BY <1>1, BoxSteps DEF PartsInv, GatewayInv
  <1>3. SoundInv(D)'
    BY <1>2, SoundStep DEF HouseInv
  <1>4. RankInv(D)' /\ SelfInv'
    BY <1>1, <1>3, RankStep DEF HouseInv
  <1>5. LastInv'
    BY <1>1, LastStep DEF HouseInv
  <1> QED BY <1>1, <1>3, <1>4, <1>5 DEF HouseInv

(* A reading the ingester would drop is that of a number it let in, or      *)
(* older.                                                                  *)
LEMMA FalseReplay ==
  ASSUME NEW D \in SUBSET Device, HouseInv(D), NEW d \in D
  PROVE  NoFalseReplayOf(d)
  <1> SUFFICES ASSUME dataQueue # <<>>, Head(dataQueue).device = d,
                      NEW r, r = Head(dataQueue).reading,
                      Backend!IsReplay(d, r)
               PROVE  \E a \in accepted[d] : a.n >= r.n
    BY DEF NoFalseReplayOf
  <1>1. PartsInv /\ GatewayTypeOK /\ IngestTypes
    BY DEF HouseInv, PartsInv, GatewayInv
  <1>2. d \in Device /\ r \in Reading
    BY <1>1, PublishedTyped
  <1>3. RankAt(d) /\ LastAt(d)
    BY <1>2 DEF HouseInv, RankInv, LastInv
  <1>4. r \in InHouse(d)
    <2>1. Head(dataQueue) \in Carried /\ Head(dataQueue) \in Item
      BY <1>1, QueueElements DEF GatewayTypeOK, Carried
    <2>2. Head(dataQueue) = ItemOf(d, r)
      BY <2>1 DEF Item, ItemOf
    <2> QED BY <1>2, <2>1, <2>2 DEF InHouse
  <1>5. r.seq \in Nat /\ r.n \in Nat /\ r.seq <= lastSeq[d]
    BY <1>1, <1>2, <1>4, RankTyped DEF RankTypes, Backend!IsReplay
  <1>6. PICK a \in accepted[d] : a.seq = lastSeq[d]
    BY <1>3, <1>5 DEF LastAt
  <1>7. a \in InHouse(d) /\ a.n \in Nat
    <2>1. a \in Reading
      BY <1>1, <1>2, <1>6 DEF IngestTypes
    <2> QED BY <1>1, <1>2, <2>1, RankTyped DEF InHouse, RankTypes
  <1>8. a.n >= r.n
    BY <1>3, <1>4, <1>5, <1>6, <1>7 DEF RankAt
  <1> QED BY <1>8

(* Boot counts are always stored when no access to flash ever fails.       *)
LEMMA SoundFlash ==
  ASSUME ~NvsFaults
  PROVE  HouseSpec => []BootsStored(Device)
  <1>1. HouseInit => PartsInv /\ BootsStored(Device)
    BY PartsInit DEF HouseInit, SensorInit, BootsStored
  <1>2. PartsInv /\ BootsStored(Device) /\ [HouseNext]_houseVars
          => PartsInv' /\ BootsStored(Device)'
    <2> SUFFICES ASSUME PartsInv, BootsStored(Device), [HouseNext]_houseVars
                 PROVE  BootsStored(Device)'
      BY PartsStep
    <2>1. SensorInv /\ SensorTypeOK /\ [SensorNext]_sensorVars
      BY BoxSteps DEF PartsInv, SensorInv, GatewayInv
    <2>2. CASE UNCHANGED sensorVars
      BY <2>2 DEF sensorVars, BootsStored
    <2>3. ASSUME NEW s \in Sensor, Quiet(s) \/ Restart(s) \/ PowerLoss(s)
          PROVE  BootsStored(Device)'
      BY <2>1, <2>3, QuietKeeps, ResetKeeps DEF BootsStored
    <2>4. ASSUME NEW s \in Sensor, Sample(s)
          PROVE  BootsStored(Device)'
      <3>1. PICK boot \in 0 .. HALF - 1, put \in 0 .. HALF - 1 : SampleWith(s, boot, put)
        BY <2>4 DEF Sample
      <3>2. ~bootErr[s].now
        BY DEF BootsStored, Device
      <3>3. ~bootErr'[s].now
        <4>1. CASE rtc[s].seq = 0
          <5>1. put # nvs[s].boot
            BY <2>1, <3>1, <4>1, HalfAssumption DEF SampleWith, BootStart, SensorTypeOK
          <5> QED BY <2>1, <3>1, <4>1, <5>1, SampleErrors
        <4>2. CASE rtc[s].seq # 0
          BY <3>1, <3>2, <4>2 DEF SampleWith
        <4> QED BY <4>1, <4>2
      <3>4. \A t \in Sensor : t # s => bootErr'[t] = bootErr[t]
        BY <2>1, <3>1, SampleOthers
      <3> QED BY <3>3, <3>4 DEF BootsStored
    <2> QED BY <2>1, <2>2, <2>3, <2>4, StepKinds
  <1> QED BY <1>1, <1>2, PTL DEF HouseSpec

(* A device whose boot counts were all stored loses nothing to the         *)
(* ingester's replay check (seq_counter.h), whatever other flash accesses  *)
(* of it fail and whatever becomes of the counters of other boxes.         *)
THEOREM HouseNoFalseReplayEach ==
  ASSUME NEW d \in Device
  PROVE  HouseSpec /\ []BootsStored({d}) => []NoFalseReplayOf(d)
  <1>1. {d} \in SUBSET Device
    OBVIOUS
  <1>2. HouseInv({d}) => NoFalseReplayOf(d)
    BY <1>1, FalseReplay
  <1>3. HouseInit => HouseInv({d})
    BY <1>1, HouseInitInv
  <1>4. HouseInv({d}) /\ BootsStored({d})' /\ [HouseNext]_houseVars => HouseInv({d})'
    BY <1>1, HouseStepInv
  <1> QED BY <1>2, <1>3, <1>4, PTL DEF HouseSpec

(* No restart makes the backend drop real data, while every boot count     *)
(* could be stored.                                                        *)
THEOREM HouseNoFalseReplay == HouseSpec /\ []BootsStored(Device) => []NoFalseReplay
  <1>1. HouseInv(Device) => NoFalseReplay
    BY FalseReplay DEF NoFalseReplay
  <1>2. HouseInit => HouseInv(Device)
    BY HouseInitInv
  <1>3. HouseInv(Device) /\ BootsStored(Device)' /\ [HouseNext]_houseVars => HouseInv(Device)'
    BY HouseStepInv
  <1> QED BY <1>1, <1>2, <1>3, PTL DEF HouseSpec

-----------------------------------------------------------------------------
(* The promise of ReadingFeed                                              *)

Places(q) == [i \in DOMAIN q |-> q[i].n]

CountMap   == [d \in Device |-> IF d = Self THEN self.n ELSE taken[d]]
FeedMap    == [d \in Device |-> Places(stored[d])]
ReachedMap == [d \in Device |-> Reached(d)]

(* LetIn in the words of the house.                                        *)
LEMMA LetInWords ==
  ASSUME NEW d, NEW n,
         ReachedMap[d] < n, n <= CountMap[d],
         ReachedMap' = [ReachedMap EXCEPT ![d] = n],
         \/ FeedMap' = FeedMap
         \/ FeedMap' = [FeedMap EXCEPT ![d] = Append(FeedMap[d], n)]
         \/ /\ FeedMap[d] # <<>>
            /\ FeedMap' = [FeedMap EXCEPT ![d] = [FeedMap[d] EXCEPT ![Len(FeedMap[d])] = n]],
         CountMap' = CountMap
  PROVE  Feed!LetIn(d, n)
  BY Zenon DEF Feed!LetIn, CountMap, FeedMap, ReachedMap, Places

(* The places of the stored readings follow what is written.               *)
LEMMA PlacesWritten ==
  ASSUME NEW q \in Seq(Reading), NEW r \in Reading
  PROVE  /\ Places(Append(q, r)) = Append(Places(q), r.n)
         /\ Len(q) # 0 =>
              /\ Places(q) # <<>>
              /\ Places([q EXCEPT ![Len(q)] = r]) = [Places(q) EXCEPT ![Len(Places(q))] = r.n]
  <1>1. \A a \in Reading : a.n \in Nat
    BY MessagesAssumption DEF Reading
  <1>2. Len(q) \in Nat /\ DOMAIN q = 1 .. Len(q) /\ \A i \in 1 .. Len(q) : q[i] \in Reading
    OBVIOUS
  <1>3. Places(q) \in Seq(Nat) /\ Len(Places(q)) = Len(q)
    BY <1>1, <1>2 DEF Places
  <1>4. Places(Append(q, r)) = Append(Places(q), r.n)
    <2>1. /\ DOMAIN Append(q, r) = 1 .. Len(q) + 1
          /\ \A i \in 1 .. Len(q) : Append(q, r)[i] = q[i]
          /\ Append(q, r)[Len(q) + 1] = r
      BY <1>2
    <2>2. /\ DOMAIN Append(Places(q), r.n) = 1 .. Len(q) + 1
          /\ \A i \in 1 .. Len(q) : Append(Places(q), r.n)[i] = q[i].n
          /\ Append(Places(q), r.n)[Len(q) + 1] = r.n
      BY <1>1, <1>2, <1>3 DEF Places
    <2>3. \A i \in 1 .. Len(q) + 1 : Append(q, r)[i].n = Append(Places(q), r.n)[i]
      BY <1>2, <2>1, <2>2
    <2>4. Append(Places(q), r.n) = [i \in 1 .. Len(q) + 1 |-> Append(Places(q), r.n)[i]]
      BY <1>1, <1>3, <2>2
    <2> QED BY <2>1, <2>3, <2>4 DEF Places
  <1>5. ASSUME Len(q) # 0
        PROVE  /\ Places(q) # <<>>
               /\ Places([q EXCEPT ![Len(q)] = r]) = [Places(q) EXCEPT ![Len(Places(q))] = r.n]
    <2>1. Places(q) # <<>>
      BY <1>3, <1>5
    <2>2. Places([q EXCEPT ![Len(q)] = r]) = [Places(q) EXCEPT ![Len(q)] = r.n]
      BY <1>2, <1>5 DEF Places
    <2> QED BY <1>3, <2>1, <2>2
  <1> QED BY <1>4, <1>5

(* A remembered number is that of one place.                               *)
LEMMA ReachedIs ==
  PartsInv /\ RankInv(Device) => \A d \in Device : \A r \in accepted[d] :
        r.seq = lastSeq[d] => Reached(d) = r.n
  <1> SUFFICES ASSUME PartsInv, RankInv(Device), NEW d \in Device, NEW r \in accepted[d],
                      r.seq = lastSeq[d]
               PROVE  Reached(d) = r.n
    OBVIOUS
  <1> DEFINE a == CHOOSE x \in accepted[d] : x.seq = lastSeq[d]
  <1>1. a \in accepted[d] /\ a.seq = r.seq
    OBVIOUS
  <1>2. accepted[d] \subseteq Reading
    BY DEF PartsInv, IngestTypes
  <1>3. a \in InHouse(d) /\ r \in InHouse(d)
    BY <1>1, <1>2 DEF InHouse
  <1> HIDE DEF a
  <1>4. a.n \in Nat /\ r.n \in Nat /\ r.seq \in Nat
    BY <1>3, RankTyped DEF RankTypes
  <1>5. a.n = r.n
    BY <1>1, <1>3, <1>4 DEF RankInv, RankAt
  <1>6. lastSeq[d] # -1
    BY <1>4
  <1> QED BY <1>5, <1>6 DEF Reached, a

LEMMA ReachedIsNext ==
  (PartsInv /\ RankInv(Device))' => (\A d \in Device : \A r \in accepted[d] :
        r.seq = lastSeq[d] => Reached(d) = r.n)'
  BY ReachedIs, PTL

(* The ingester lets a reading in: after all older ones.                   *)
LEMMA LetInStep ==
  ASSUME HouseInv(Device), HouseInv(Device)', NEW d \in Device, NEW r \in Reading,
         ItemOf(d, r) \in Carried, ~Backend!IsReplay(d, r), Backend!OnMessage(d, r),
         \A e \in Device : Life(e)' = Life(e)
  PROVE  r.n \in 1 .. Life(d) /\ Feed!LetIn(d, r.n)
  <1>1. /\ PartsInv /\ RankInv(Device) /\ LastInv /\ PartsInv' /\ RankInv(Device)'
        /\ IngestTypes
    BY DEF HouseInv, PartsInv
  <1>2. /\ lastSeq' = [lastSeq EXCEPT ![d] = r.seq]
        /\ accepted' = [accepted EXCEPT ![d] = accepted[d] \cup {r}]
        /\ \/ stored' = stored
           \/ stored' = [stored EXCEPT ![d] = Append(stored[d], r)]
           \/ /\ Len(stored[d]) # 0
              /\ stored' = [stored EXCEPT ![d] = [stored[d] EXCEPT ![Len(stored[d])] = r]]
    <2>1. lastSeq' = [lastSeq EXCEPT ![d] = r.seq] /\ r.seq # lastSeq[d]
      BY <1>1, HalfSquare DEF Backend!OnMessage, Backend!IsReplay, IngestTypes, Reading, Word
    <2>2. ~UNCHANGED ingestVars
      BY <1>1, <2>1 DEF IngestTypes, ingestVars
    <2> QED BY <2>2, OnMessageCases
  <1>3. r \in InHouse(d) /\ r.n \in Nat /\ r.seq \in Nat /\ Life(d) \in Nat
    BY <1>1, RankTyped DEF InHouse, RankTypes
  <1>4. r.n >= 1 /\ r.n <= Life(d)
    BY <1>1, <1>3, MessagesAssumption DEF RankInv, RankAt, Reading
  <1>5. Reached(d) < r.n
    <2>1. CASE lastSeq[d] = -1
      BY <1>3, <1>4, <2>1 DEF Reached
    <2>2. CASE lastSeq[d] # -1
      <3>1. PICK a \in accepted[d] : a.seq = lastSeq[d]
        BY <1>1, <2>2 DEF LastInv, LastAt
      <3>2. a \in InHouse(d) /\ a.n \in Nat /\ a.seq \in Nat
        <4>1. a \in Reading
          BY <1>1, <3>1 DEF IngestTypes
        <4> QED BY <1>1, <4>1, RankTyped DEF InHouse, RankTypes
      <3>3. ~(r.seq <= a.seq)
        BY <3>1 DEF Backend!IsReplay
      <3>4. a.n < r.n
        BY <1>1, <1>3, <3>2, <3>3 DEF RankInv, RankAt
      <3> QED BY <1>1, <3>1, <3>4, ReachedIs
    <2> QED BY <2>1, <2>2
  <1>6. Reached(d)' = r.n
    <2>1. r \in accepted'[d] /\ r.seq = lastSeq'[d]
      BY <1>1, <1>2 DEF IngestTypes
    <2> QED BY <1>1, <2>1, ReachedIsNext
  <1>7. \A e \in Device : e # d => Reached(e)' = Reached(e)
    BY <1>1, <1>2 DEF IngestTypes, Reached
  <1>8. \A e \in Device : e # d => stored'[e] = stored[e]
    BY <1>1, <1>2 DEF IngestTypes
  <1>9. /\ \/ Places(stored[d])' = Places(stored[d])
           \/ Places(stored[d])' = Append(Places(stored[d]), r.n)
           \/ /\ Places(stored[d]) # <<>>
              /\ Places(stored[d])' = [Places(stored[d]) EXCEPT ![Len(Places(stored[d]))] = r.n]
    <2>1. stored[d] \in Seq(Reading)
      BY <1>1 DEF IngestTypes
    <2>2. \/ stored'[d] = stored[d]
          \/ stored'[d] = Append(stored[d], r)
          \/ Len(stored[d]) # 0 /\ stored'[d] = [stored[d] EXCEPT ![Len(stored[d])] = r]
      BY <1>1, <1>2 DEF IngestTypes
    <2>3. Places(stored[d])' = Places(stored'[d])
      BY DEF Places
    <2> QED BY <2>1, <2>2, <2>3, PlacesWritten
  <1>10. CountMap' = CountMap /\ CountMap[d] = Life(d)
    BY DEF CountMap, Life
  <1>11. ReachedMap[d] = Reached(d) /\ ReachedMap' = [ReachedMap EXCEPT ![d] = r.n]
    BY <1>6, <1>7 DEF ReachedMap
  <1>12. /\ FeedMap[d] = Places(stored[d])
         /\ \/ FeedMap' = FeedMap
            \/ FeedMap' = [FeedMap EXCEPT ![d] = Append(FeedMap[d], r.n)]
            \/ /\ FeedMap[d] # <<>>
               /\ FeedMap' = [FeedMap EXCEPT ![d] = [FeedMap[d] EXCEPT ![Len(FeedMap[d])] = r.n]]
    <2>1. \A e \in Device : e # d => Places(stored[e])' = Places(stored[e])
      BY <1>8 DEF Places
    <2> QED BY <1>9, <2>1 DEF FeedMap
  <1>13. r.n \in 1 .. Life(d)
    BY <1>3, <1>4
  <1>14. ReachedMap[d] < r.n /\ r.n <= CountMap[d]
    BY <1>4, <1>5, <1>10, <1>11
  <1> QED BY <1>10, <1>11, <1>12, <1>13, <1>14, LetInWords

(* The other steps: a reading taken, everything forgotten, nothing.        *)
LEMMA TakeStep ==
  ASSUME NEW d \in Device, CountMap' = [CountMap EXCEPT ![d] = CountMap[d] + 1],
         FeedMap' = FeedMap, ReachedMap' = ReachedMap
  PROVE  Feed!Take(d)
  BY Zenon DEF Feed!Take, CountMap, FeedMap, ReachedMap, Places

LEMMA ForgetStep ==
  ASSUME CountMap' = CountMap, FeedMap' = FeedMap, RestartIngest
  PROVE  Feed!Forget
  <1>1. \A d \in Device : Reached(d)' = 0
    BY DEF RestartIngest, Backend!IngestRestart, Reached
  <1>2. ReachedMap' = [d \in Device |-> 0]
    BY <1>1 DEF ReachedMap
  <1> QED BY <1>2, Zenon DEF Feed!Forget, CountMap, FeedMap, ReachedMap, Places

LEMMA StillStep ==
  ASSUME CountMap' = CountMap, FeedMap' = FeedMap, ReachedMap' = ReachedMap
  PROVE  UNCHANGED Feed!vars
  BY Zenon DEF Feed!vars, CountMap, FeedMap, ReachedMap, Places

LEMMA IngestStill ==
  ASSUME UNCHANGED ingestVars
  PROVE  FeedMap' = FeedMap /\ ReachedMap' = ReachedMap
  BY DEF ingestVars, FeedMap, ReachedMap, Reached, Places

(* A step takes at most one reading.                                       *)
LEMMA CountStep ==
  ASSUME PartsInv, [HouseNext]_houseVars
  PROVE  \/ CountMap' = CountMap
         \/ /\ UNCHANGED ingestVars
            /\ \E d \in Device : CountMap' = [CountMap EXCEPT ![d] = CountMap[d] + 1]
  <1>1. GatewayTypeOK /\ SensorTypeOK
    BY DEF PartsInv, GatewayInv, SensorInv
  <1>2. self'.n = self.n \/ (self'.n = self.n + 1 /\ GatewayStep)
    BY <1>1 DEF HouseNext, GatewayStep, Transmit, Overhear, Noise, Answer, PublishOne, RestartIngest,
       BoxStep, houseVars, gatewayVars, OnRecv, RxReply, Publish, RxReject, RxEnqueue, RxGiveUp,
       ReaderStep, OwnReading, OwnEnqueue, OwnGiveUp, QueueCommand, ChangeChannel,
       GatewayRestart, GatewayTypeOK
  <1>3. taken' = taken \/ (self' = self /\ BoxStep /\ \E s \in Sensor : Sample(s))
    <2>1. CASE \E s \in Sensor : Sample(s)
      <3>1. CASE BoxStep
        BY <2>1, <3>1 DEF BoxStep, gatewayVars
      <3>2. CASE ~BoxStep
        BY <1>1, <3>2 DEF HouseNext, GatewayStep, Transmit, Overhear, Noise, Answer, PublishOne,
           RestartIngest, houseVars, sensorVars, Hop, Hear
      <3> QED BY <2>1, <3>1, <3>2
    <2>2. CASE ~\E s \in Sensor : Sample(s)
      BY <1>1, <2>2, BoxSteps, StepKinds, QuietKeeps, ResetKeeps DEF sensorVars
    <2> QED BY <2>1, <2>2
  <1>4. CASE taken' = taken /\ self'.n = self.n
    BY <1>4 DEF CountMap
  <1>5. CASE self'.n = self.n + 1 /\ GatewayStep
    <2>1. taken' = taken /\ UNCHANGED ingestVars
      BY <1>5 DEF GatewayStep, sensorVars
    <2>2. CountMap' = [CountMap EXCEPT ![Self] = CountMap[Self] + 1]
      BY <1>5, <2>1 DEF CountMap, Device
    <2> QED BY <2>1, <2>2 DEF Device
  <1>6. CASE self' = self /\ BoxStep /\ \E s \in Sensor : Sample(s)
    <2>1. PICK s \in Sensor : Sample(s)
      BY <1>6
    <2>2. taken' = [taken EXCEPT ![s] = taken[s] + 1]
      BY <2>1 DEF Sample, SampleWith
    <2>3. s # Self /\ s \in Device
      BY GatewayAssumption DEF Device
    <2>4. CountMap' = [CountMap EXCEPT ![s] = CountMap[s] + 1]
      BY <1>1, <1>6, <2>2, <2>3, GatewayAssumption DEF CountMap, Device, SensorTypeOK
    <2> QED BY <1>6, <2>3, <2>4 DEF BoxStep
  <1> QED BY <1>2, <1>3, <1>4, <1>5, <1>6

LEMMA FeedStep ==
  ASSUME HouseInv(Device), HouseInv(Device)', [HouseNext]_houseVars
  PROVE  [Feed!Next]_(Feed!vars)
  <1>1. PartsInv /\ GatewayTypeOK
    BY DEF HouseInv, PartsInv, GatewayInv
  <1>2. CASE UNCHANGED ingestVars
    <2>1. FeedMap' = FeedMap /\ ReachedMap' = ReachedMap
      BY <1>2, IngestStill
    <2>2. CASE CountMap' = CountMap
      BY <2>1, <2>2, StillStep
    <2>3. ASSUME NEW d \in Device, CountMap' = [CountMap EXCEPT ![d] = CountMap[d] + 1]
          PROVE  Feed!Next
      <3>1. Feed!Take(d)
        BY <2>1, <2>3, TakeStep
      <3> QED BY <3>1 DEF Feed!Next
    <2> QED BY <1>1, <2>2, <2>3, CountStep
  <1>3. CASE RestartIngest
    <2>1. CountMap' = CountMap
      BY <1>3 DEF RestartIngest, sensorVars, gatewayVars, CountMap
    <2>2. FeedMap' = FeedMap
      BY <1>3 DEF RestartIngest, Backend!IngestRestart, FeedMap, Places
    <2> QED BY <1>3, <2>1, <2>2, ForgetStep DEF Feed!Next
  <1>4. CASE PublishOne /\ ~UNCHANGED ingestVars
    <2>1. dataQueue # <<>> /\ dataQueue \in Seq(Item)
      BY <1>1, <1>4 DEF PublishOne, Publish, GatewayTypeOK
    <2>2. PICK d \in Device, r \in Reading : Head(dataQueue) = ItemOf(d, r)
      <3>1. Head(dataQueue) \in Item
        BY <2>1
      <3>2. \A i \in Item : i.device \in Device /\ i.reading \in Reading
                              /\ i = ItemOf(i.device, i.reading)
        BY DEF Item, ItemOf
      <3> QED BY <3>1, <3>2
    <2>3. ItemOf(d, r) \in Carried
      BY <2>1, <2>2, QueueElements DEF Carried
    <2>4. Backend!OnMessage(d, r)
      BY <1>4, <2>2 DEF PublishOne, ItemOf
    <2>5. ~Backend!IsReplay(d, r)
      BY <1>4, <2>4 DEF Backend!OnMessage, Backend!ingestVars, ingestVars
    <2>6. \A e \in Device : Life(e)' = Life(e)
      BY <1>4 DEF PublishOne, Publish, sensorVars, Life
    <2>7. r.n \in 1 .. Life(d) /\ Feed!LetIn(d, r.n)
      BY <2>3, <2>4, <2>5, <2>6, LetInStep
    <2> QED BY <2>7 DEF Feed!Next, Life
  <1> QED BY <1>2, <1>3, <1>4
          DEF HouseNext, Transmit, Overhear, Noise, Answer, BoxStep, GatewayStep, houseVars,
              ingestVars

LEMMA FeedInit == HouseInit => Feed!Init
  <1> SUFFICES ASSUME HouseInit PROVE Feed!Init
    OBVIOUS
  <1>1. \A d \in Device : /\ (IF d = Self THEN self.n ELSE taken[d]) = 0
                           /\ stored[d] = <<>> /\ Reached(d) = 0
    BY DEF HouseInit, GatewayInit, SensorInit, Backend!IngestInit, Reached, Device
  <1>2. [i \in DOMAIN <<>> |-> <<>>[i].n] = <<>>
    OBVIOUS
  <1> QED BY <1>1, <1>2 DEF Feed!Init

(* The house keeps the promise of ReadingFeed, while every boot count      *)
(* could be stored.                                                        *)
THEOREM HouseFeedPromise == HouseSpec /\ []BootsStored(Device) => FeedPromise
  <1>1. HouseInv(Device) /\ HouseInv(Device)' /\ [HouseNext]_houseVars
          => [Feed!Next]_(Feed!vars)
    BY FeedStep
  <1>2. HouseInit => HouseInv(Device)
    BY HouseInitInv
  <1>3. HouseInv(Device) /\ BootsStored(Device)' /\ [HouseNext]_houseVars => HouseInv(Device)'
    BY HouseStepInv
  <1> QED BY <1>1, <1>2, <1>3, FeedInit, PTL DEF HouseSpec, FeedPromise, Feed!Spec

-----------------------------------------------------------------------------
(* With boot counts stored: an order restarts its box once.                *)

(* A fresh reading at work carries the counter's number.                   *)
FreshAt(s) == job[s].fresh => rtc[s].seq # 0 /\ job[s].reading.seq = rtc[s].seq

(* The boot half b of a box is over: no fresh reading has it any more.     *)
Spent(s, b) == b <= nvs[s].boot /\ (rtc[s].seq # 0 => b < BootOf(rtc[s].seq))

Held(i, s, o) == table[i].active /\ table[i].device = s /\ table[i].order = o

Heard(s, o) == mailbox[s] \in Reply /\ mailbox[s].order = o

(* What a box has of an order was handed out, and a slot whose order was   *)
(* handed out has a boot half the box has reached.                         *)
CarriedAt(s, o) ==
    /\ order[s] = o \/ Heard(s, o) \/ landed[s][o] # 0 => handed[o] # 0
    /\ handed[o] # 0 => \A i \in Slot : Held(i, s, o) => table[i].boot <= nvs[s].boot

(* What is left of a landed order belongs to a boot that is over.          *)
LandedAt(s, o) ==
    landed[s][o] # 0 =>
      /\ landed[s][o] = 1
      /\ order[s] # o
      /\ Heard(s, o) => Spent(s, BootOf(mailbox[s].tag))
      /\ \A i \in Slot : Held(i, s, o) => Spent(s, table[i].boot)

OnceAt(s) == FreshAt(s) /\ \A o \in Order : CarriedAt(s, o) /\ LandedAt(s, o)

OnceInv(D) == \A s \in Sensor \cap D : OnceAt(s)

(* A number below the end of a block belongs to it or to one before.       *)
LEMMA BootBelow == \A x, k \in Nat : x < (k + 1) * HALF => BootOf(x) <= k
  <1> SUFFICES ASSUME NEW x \in Nat, NEW k \in Nat, x < (k + 1) * HALF, BootOf(x) > k
               PROVE  FALSE
    BY DivMod DEF BootOf
  <1> DEFINE q == x \div HALF
  <1>1. q \in Nat /\ x = HALF * q + (x % HALF) /\ x % HALF \in Nat /\ k + 1 <= q
    BY DivMod DEF BootOf
  <1>2. (k + 1) * HALF <= q * HALF
    BY Mono, <1>1, HalfAssumption
  <1> QED BY <1>1, <1>2, HalfAssumption

(* A number past the start of a block belongs to it or to one after.       *)
LEMMA BootAbove == \A x, k \in Nat : k * HALF <= x => k <= BootOf(x)
  <1> SUFFICES ASSUME NEW x \in Nat, NEW k \in Nat, k * HALF <= x, BootOf(x) < k
               PROVE  FALSE
    BY DivMod DEF BootOf
  <1> DEFINE q == x \div HALF
  <1>1. q \in Nat /\ x = HALF * q + (x % HALF) /\ x % HALF < HALF /\ q + 1 <= k
    BY DivMod, HalfAssumption DEF BootOf
  <1>2. (q + 1) * HALF <= k * HALF
    BY Mono, <1>1, HalfAssumption
  <1> QED BY <1>1, <1>2, HalfAssumption

(* A box's numbers of its boot and a packet's boot half.                   *)
LEMMA BootReached ==
  ASSUME NEW D \in SUBSET Device, HouseInv(D), NEW s \in Sensor \cap D
  PROVE  /\ nvs[s].boot \in 0 .. HALF - 1 /\ rtc[s].seq \in Nat
         /\ rtc[s].seq # 0 => BootOf(rtc[s].seq) <= nvs[s].boot
         /\ \A r \in InHouse(s) : BootOf(r.seq) <= nvs[s].boot
  <1>1. SensorTypeOK /\ CounterAt(s) /\ ~bootErr[s].now /\ ~bootErr[s].before /\ RankAt(s)
    BY DEF HouseInv, PartsInv, SensorInv, CounterInv, SoundInv, RankInv, Device
  <1>2. nvs[s].boot \in 0 .. HALF - 1 /\ rtc[s].seq \in Nat /\ topSeq[s] \in Int
    BY <1>1, HalfSquare DEF SensorTypeOK, Word
  <1>3. nvs[s].boot \in Nat
    BY <1>2, HalfAssumption
  <1>4. topSeq[s] < (nvs[s].boot + 1) * HALF
    BY <1>1 DEF CounterAt
  <1>5. rtc[s].seq # 0 => rtc[s].seq < (nvs[s].boot + 1) * HALF
    BY <1>1, <1>2, <1>4 DEF CounterAt
  <1>6. ASSUME NEW r \in InHouse(s)
        PROVE  BootOf(r.seq) <= nvs[s].boot
    <2>1. r.seq \in Nat
      BY HalfSquare DEF InHouse, Reading, Word
    <2>2. s # Self
      BY GatewayAssumption
    <2>3. r.seq <= topSeq[s]
      BY <1>1, <2>2 DEF RankAt, Top
    <2>4. (nvs[s].boot + 1) * HALF \in Nat
      BY <1>3, HalfAssumption
    <2>5. r.seq < (nvs[s].boot + 1) * HALF
      BY <1>2, <1>4, <2>1, <2>3, <2>4
    <2> QED BY <1>3, <2>1, <2>5, BootBelow
  <1> QED BY <1>2, <1>3, <1>5, <1>6, BootBelow

LEMMA PacketReached ==
  ASSUME NEW D \in SUBSET Device, HouseInv(D), rxQueue # <<>>, Packet # Junk
  PROVE  /\ Packet.device \in Sensor /\ PacketBoot \in 0 .. HALF - 1
         /\ Packet.device \in D => PacketBoot <= nvs[Packet.device].boot
  <1>1. GatewayTypeOK
    BY DEF HouseInv, PartsInv, GatewayInv
  <1>2. /\ Packet \in [device : Sensor, reading : Reading] /\ Packet.device \in Sensor
        /\ PacketBoot \in 0 .. HALF - 1
    BY <1>1, PacketTyped
  <1>3. Packet = ItemOf(Packet.device, Packet.reading) /\ Packet.reading \in Reading
    BY <1>2 DEF ItemOf
  <1>4. Packet \in Elements(rxQueue)
    BY <1>1, QueueElements DEF GatewayTypeOK, Packet
  <1>5. Packet.reading \in InHouse(Packet.device)
    BY <1>3, <1>4 DEF InHouse, Carried
  <1> QED BY <1>2, <1>5, BootReached DEF PacketBoot

(* The table after a check-in: a slot still in use is as it was, or it has *)
(* given its order out to its own box once more.                           *)
LEMMA AfterTaken ==
  ASSUME NEW t \in TableType, NEW dev \in Sensor, NEW boot \in 0 .. HALF - 1,
         NEW j \in Slot, Taken(t, dev, boot)[j].active
  PROVE  \/ Taken(t, dev, boot)[j] = t[j]
         \/ /\ t[j].active /\ t[j].device = dev /\ OrderFor(t, dev, boot) = t[j].order
            /\ t[j].boot \in {BOOT_UNSET, boot}
            /\ Taken(t, dev, boot)[j].device = dev
            /\ Taken(t, dev, boot)[j].order = t[j].order
            /\ Taken(t, dev, boot)[j].boot = boot
  <1> DEFINE own == SlotsOf(t, dev)
             i == First(own)
  <1>1. CASE own = {}
    BY <1>1 DEF Taken
  <1>2. CASE own # {}
    <2>1. i \in Slot /\ t[i].active /\ t[i].device = dev
      <3>1. own \in SUBSET Slot
        BY DEF SlotsOf
      <3> QED BY <3>1, <1>2, FirstIn DEF SlotsOf
    <2>2. CASE Landed(t[i], boot)
      <3>1. Taken(t, dev, boot) = [t EXCEPT ![i] = [t[i] EXCEPT !.active = FALSE]]
        BY <1>2, <2>2 DEF Taken
      <3>2. ~[t[i] EXCEPT !.active = FALSE].active
        BY <2>1 DEF TableType, SlotType
      <3> QED BY <2>1, <3>1, <3>2 DEF TableType
    <2>3. CASE ~Landed(t[i], boot)
      <3>1. /\ Taken(t, dev, boot) = [t EXCEPT ![i] = Delivered(t[i], boot)]
            /\ OrderFor(t, dev, boot) = t[i].order
        BY <1>2, <2>3 DEF Taken, OrderFor
      <3>2. CASE j # i
        BY <2>1, <3>1, <3>2 DEF TableType
      <3>3. CASE j = i
        <4>1. Taken(t, dev, boot)[j] = Delivered(t[j], boot)
          BY <2>1, <3>1, <3>3 DEF TableType
        <4>2. t[j] \in SlotType
          BY DEF TableType
        <4>3. Delivered(t[j], boot).boot = boot
          BY <4>2, Zenon DEF Delivered, SlotType
        <4> QED BY <2>1, <2>3, <3>1, <3>3, <4>1, <4>2, <4>3, DeliveredSlot DEF Landed
      <3> QED BY <3>2, <3>3
    <2> QED BY <2>2, <2>3
  <1> QED BY <1>1, <1>2

(* An order that is handed out comes from a slot of the box.               *)
LEMMA FromSlot ==
  ASSUME NEW t \in TableType, NEW dev \in Sensor, NEW boot \in 0 .. HALF - 1,
         OrderFor(t, dev, boot) # NoOrder
  PROVE  \E j \in Slot : /\ t[j].active /\ t[j].device = dev
                         /\ OrderFor(t, dev, boot) = t[j].order
                         /\ t[j].boot \in {BOOT_UNSET, boot}
  <1> DEFINE own == SlotsOf(t, dev)
  <1>1. own # {} /\ ~Landed(t[First(own)], boot)
        /\ OrderFor(t, dev, boot) = t[First(own)].order
    BY DEF OrderFor
  <1>2. First(own) \in own
    <2>1. own \in SUBSET Slot
      BY DEF SlotsOf
    <2> QED BY <1>1, <2>1, FirstIn
  <1> QED BY <1>1, <1>2 DEF SlotsOf, Landed

(* After it the slot has the box's boot half.                              *)
LEMMA SlotMarked ==
  ASSUME NEW t \in TableType, NEW dev \in Sensor, NEW boot \in 0 .. HALF - 1,
         OrderFor(t, dev, boot) # NoOrder
  PROVE  \E j \in Slot : /\ t[j].active /\ t[j].device = dev
                         /\ OrderFor(t, dev, boot) = t[j].order
                         /\ Taken(t, dev, boot)[j].boot = boot
  <1> DEFINE own == SlotsOf(t, dev)
             i == First(own)
  <1>1. own # {} /\ ~Landed(t[i], boot) /\ OrderFor(t, dev, boot) = t[i].order
    BY DEF OrderFor
  <1>2. i \in Slot /\ t[i].active /\ t[i].device = dev
    <2>1. own \in SUBSET Slot
      BY DEF SlotsOf
    <2> QED BY <1>1, <2>1, FirstIn DEF SlotsOf
  <1>3. Taken(t, dev, boot) = [t EXCEPT ![i] = Delivered(t[i], boot)]
    BY <1>1 DEF Taken
  <1>4. t[i] \in SlotType
    BY <1>2 DEF TableType
  <1>5. Delivered(t[i], boot).boot = boot
    BY <1>4, Zenon DEF Delivered, SlotType
  <1> QED BY <1>1, <1>2, <1>3, <1>5 DEF TableType

(* The boot half rises with the number.                                    *)
LEMMA BootRises == \A x, y \in Nat : x <= y => BootOf(x) <= BootOf(y)
  <1> SUFFICES ASSUME NEW x \in Nat, NEW y \in Nat, x <= y
               PROVE  BootOf(x) <= BootOf(y)
    OBVIOUS
  <1>1. BootOf(x) \in Nat /\ BootOf(x) * HALF \in Nat /\ BootOf(x) * HALF <= x
    <2> DEFINE q == x \div HALF
    <2>1. q \in Nat /\ x = HALF * q + (x % HALF) /\ x % HALF \in Nat
      BY DivMod
    <2> HIDE DEF q
    <2>2. q * HALF \in Nat /\ q * HALF = HALF * q
      BY <2>1, HalfAssumption
    <2> QED BY <2>1, <2>2 DEF BootOf, q
  <1>2. BootOf(x) * HALF <= y
    BY <1>1
  <1> QED BY <1>1, <1>2, BootAbove

(* What is over stays over.                                                *)
LEMMA SpentKept ==
  ASSUME NEW D \in SUBSET Device, HouseInv(D), SoundInv(D)', NEW s \in Sensor \cap D, NEW b \in Nat,
         Spent(s, b),
         Quiet(s) \/ Sample(s) \/ Restart(s) \/ PowerLoss(s)
  PROVE  Spent(s, b)'
  <1>1. SensorTypeOK /\ ControlAt(s)
    BY DEF HouseInv, PartsInv, SensorInv, ControlInv
  <1>2. CASE Quiet(s)
    BY <1>1, <1>2, QuietKeeps DEF Spent
  <1>3. CASE Restart(s) \/ PowerLoss(s)
    BY <1>1, <1>3, ResetKeeps DEF Spent
  <1>4. CASE Sample(s)
    <2>1. CanRead(s)
      BY <1>1, <1>4 DEF ControlAt, BeforeSample, Sample, SampleWith, Goto
    <2>2. PICK boot \in 0 .. HALF - 1, put \in 0 .. HALF - 1 : SampleWith(s, boot, put)
      BY <1>4 DEF Sample
    <2>3. rtc'[s].seq = FreshSeq(s, boot) /\ nvs'[s].boot = put
      BY <1>1, <2>1, <2>2, SampleDoes
    <2>4. nvs[s].boot \in Nat /\ rtc[s].seq \in Nat /\ boot \in Nat /\ boot * HALF \in Nat
      BY <1>1, BootReached, HalfAssumption DEF SensorTypeOK
    <2>5. FreshSeq(s, boot) = IF rtc[s].seq = 0 THEN boot * HALF + 1 ELSE rtc[s].seq + 1
      BY <1>1, <2>1, FreshSeqValue
    <2>6. CASE rtc[s].seq = 0
      <3>1. put # nvs[s].boot
        BY <1>1, <2>2, <2>6, SampleErrors DEF SoundInv
      <3>2. boot = nvs[s].boot + 1 /\ put = boot
        BY <2>2, <2>6, <3>1 DEF SampleWith, BootStart
      <3>3. boot <= BootOf(boot * HALF + 1)
        BY <2>4, BootAbove
      <3>4. BootOf(boot * HALF + 1) \in Nat
        BY <2>4, DivMod DEF BootOf
      <3> QED BY <2>3, <2>4, <2>5, <2>6, <3>2, <3>3, <3>4 DEF Spent
    <2>7. CASE rtc[s].seq # 0
      <3>1. put = nvs[s].boot
        BY <2>2, <2>7 DEF SampleWith
      <3>2. BootOf(rtc[s].seq) <= BootOf(rtc[s].seq + 1)
        BY <2>4, BootRises
      <3>3. BootOf(rtc[s].seq) \in Nat /\ BootOf(rtc[s].seq + 1) \in Nat
        BY <2>4, DivMod DEF BootOf
      <3> QED BY <2>3, <2>5, <2>7, <3>1, <3>2, <3>3 DEF Spent
    <2> QED BY <2>6, <2>7
  <1> QED BY <1>2, <1>3, <1>4

(* A step of a box leaves what the other boxes have alone.                 *)
LEMMA OthersHave ==
  ASSUME SensorTypeOK, NEW s \in Sensor, NEW t \in Sensor, t # s,
         Quiet(s) \/ Sample(s) \/ Restart(s) \/ PowerLoss(s)
  PROVE  mailbox'[t] = mailbox[t] /\ order'[t] = order[t] /\ landed'[t] = landed[t]
  BY DEF SensorTypeOK, Quiet, Wake, NothingPending, GiveUpPending, SendPending, Hop,
     ListenTimeout, Answered, RetryMissed, FreshMissed, SaveReading, SaveFlag, SaveRetry,
     ClearFlag, ClearRetry, Sleep, Hear, Sample, SampleWith, Restart, PowerLoss, Reset,
     PowerDown

(* What a box does by itself, a restart and a fresh reading aside.         *)
LEMMA QuietDoes ==
  ASSUME SensorTypeOK, NEW s \in Sensor, Quiet(s),
         ~\E reply \in Reply : Hear(s, reply)
  PROVE  /\ landed' = landed
         /\ job'[s].fresh => job[s].fresh /\ job'[s].reading = job[s].reading
         /\ mailbox'[s] \in {mailbox[s], NoReply}
         /\ \/ order'[s] \in {order[s], NoOrder}
            \/ /\ job[s].fresh /\ mailbox[s] \in Reply
               /\ mailbox[s].tag = job[s].reading.seq /\ order'[s] = mailbox[s].order
  <1>1. landed' = landed
    BY DEF Quiet, Wake, NothingPending, GiveUpPending, SendPending, Hop,
       ListenTimeout, Answered, RetryMissed, FreshMissed, SaveReading, SaveFlag, SaveRetry,
       ClearFlag, ClearRetry, Sleep, Hear
  <1>2. job'[s].fresh => job[s].fresh /\ job'[s].reading = job[s].reading
    <2>1. CASE SendPending(s)
      BY <2>1 DEF SendPending, NewJob, SensorTypeOK
    <2>2. CASE Sleep(s)
      BY <2>2 DEF Sleep, PowerDown, NoJob, SensorTypeOK
    <2>3. CASE Hop(s)
      <3>1. job' = [job EXCEPT ![s].channel = NextChannel(s),
                               ![s].left = job[s].left \ {NextChannel(s)}]
        BY <2>3 DEF Hop
      <3>2. job'[s].fresh = job[s].fresh /\ job'[s].reading = job[s].reading
        BY <3>1 DEF SensorTypeOK
      <3> QED BY <3>2
    <2>5. CASE Answered(s)
      BY <2>5 DEF Answered, SensorTypeOK
    <2>4. CASE job' = job
      BY <2>4
    <2> QED BY <2>1, <2>2, <2>3, <2>4, <2>5
            DEF Quiet, Wake, NothingPending, GiveUpPending, ListenTimeout, RetryMissed,
                FreshMissed, SaveReading, SaveFlag, SaveRetry, ClearFlag, ClearRetry, Hear
  <1>3. mailbox'[s] \in {mailbox[s], NoReply}
    BY DEF SensorTypeOK, Quiet, Wake, NothingPending, GiveUpPending, SendPending, Hop,
       ListenTimeout, Answered, RetryMissed, FreshMissed, SaveReading, SaveFlag, SaveRetry,
       ClearFlag, ClearRetry, Sleep, PowerDown
  <1>4. \/ order'[s] \in {order[s], NoOrder}
        \/ /\ job[s].fresh /\ mailbox[s] \in Reply
           /\ mailbox[s].tag = job[s].reading.seq /\ order'[s] = mailbox[s].order
    <2>1. CASE Answered(s)
      BY <2>1 DEF Answered, ParseDownlink, SensorTypeOK
    <2>2. CASE Sleep(s)
      BY <2>2 DEF Sleep, PowerDown, SensorTypeOK
    <2>3. CASE ~Answered(s) /\ ~Sleep(s)
      <3>1. order' = order
        BY <2>3 DEF Quiet, Wake, NothingPending, GiveUpPending, SendPending, Hop,
           ListenTimeout, RetryMissed, FreshMissed, SaveReading, SaveFlag, SaveRetry,
           ClearFlag, ClearRetry
      <3> QED BY <3>1
    <2> QED BY <2>1, <2>2, <2>3
  <1> QED BY <1>1, <1>2, <1>3, <1>4

(* Nothing the invariant speaks of has changed.                            *)
LEMMA OnceStill ==
  ASSUME NEW s \in Sensor, OnceAt(s), UNCHANGED <<table, handed>>,
         job'[s] = job[s], rtc'[s].seq = rtc[s].seq, nvs'[s].boot = nvs[s].boot,
         mailbox'[s] = mailbox[s] \/ mailbox'[s] = Foreign,
         order'[s] = order[s], landed'[s] = landed[s]
  PROVE  OnceAt(s)'
  <1>1. CASE mailbox'[s] = mailbox[s]
    BY <1>1 DEF OnceAt, FreshAt, CarriedAt, LandedAt, Held, Heard, Spent
  <1>2. CASE mailbox'[s] = Foreign
    <2>1. \A o \in Order : ~Heard(s, o)'
      BY <1>2, ForeignIs, MessagesAssumption DEF Heard
    <2> QED BY <1>2, <2>1 DEF OnceAt, FreshAt, CarriedAt, LandedAt, Held, Spent
  <1> QED BY <1>1, <1>2

(* A box takes a reading, obeys, sleeps, loses power: everything but to    *)
(* hear a reply.                                                           *)
LEMMA OnceBox ==
  ASSUME NEW D \in SUBSET Device, HouseInv(D), SoundInv(D)', NEW s \in Sensor \cap D,
         OnceAt(s), UNCHANGED <<table, handed>>,
         \/ Quiet(s) /\ ~\E reply \in Reply : Hear(s, reply)
         \/ Sample(s) \/ Restart(s) \/ PowerLoss(s)
  PROVE  OnceAt(s)'
  <1>1. /\ SensorTypeOK /\ ControlAt(s) /\ GatewayTypeOK
        /\ landed[s] \in [Order -> Nat] /\ handed \in [Order -> Nat]
        /\ table \in TableType
    BY DEF HouseInv, PartsInv, SensorInv, ControlInv, GatewayInv, SensorTypeOK,
           GatewayTypeOK, TableType
  <1>2. FreshAt(s) /\ \A o \in Order : CarriedAt(s, o) /\ LandedAt(s, o)
    BY DEF OnceAt
  <1>3. \A b \in Nat : Spent(s, b) => Spent(s, b)'
    BY SpentKept
  <1>4. \A i \in Slot : table[i].boot \in Nat
    BY <1>1, HalfAssumption DEF TableType, SlotType
  <1>5. ASSUME NEW o \in Order, Heard(s, o)
        PROVE  BootOf(mailbox[s].tag) \in Nat
    BY <1>5, BootOfWord, HalfAssumption DEF Heard, Reply
  <1>6. \A b \in Nat : b <= nvs[s].boot => b <= nvs'[s].boot
    <2>1. CASE Quiet(s)
      BY <1>1, <2>1, QuietKeeps
    <2>2. CASE Restart(s) \/ PowerLoss(s)
      BY <1>1, <2>2, ResetKeeps
    <2>3. CASE Sample(s)
      <3>1. CanRead(s)
        BY <1>1, <2>3 DEF ControlAt, BeforeSample, Sample, SampleWith, Goto
      <3>2. PICK boot \in 0 .. HALF - 1, put \in 0 .. HALF - 1 : SampleWith(s, boot, put)
        BY <2>3 DEF Sample
      <3>3. put = nvs[s].boot \/ put = nvs[s].boot + 1
        BY <3>2 DEF SampleWith, BootStart
      <3>4. nvs'[s].boot = put
        BY <1>1, <3>1, <3>2, SampleDoes
      <3>5. nvs[s].boot \in Nat
        BY BootReached, HalfAssumption
      <3> QED BY <3>3, <3>4, <3>5
    <2> QED BY <2>1, <2>2, <2>3
  <1>7. CASE Quiet(s) /\ ~\E reply \in Reply : Hear(s, reply)
    <2>1. /\ landed' = landed
          /\ job'[s].fresh => job[s].fresh /\ job'[s].reading = job[s].reading
          /\ mailbox'[s] \in {mailbox[s], NoReply}
          /\ \/ order'[s] \in {order[s], NoOrder}
             \/ /\ job[s].fresh /\ mailbox[s] \in Reply
                /\ mailbox[s].tag = job[s].reading.seq /\ order'[s] = mailbox[s].order
      BY <1>1, <1>7, QuietDoes
    <2>2. rtc'[s].seq = rtc[s].seq /\ nvs'[s].boot = nvs[s].boot
      BY <1>1, <1>7, QuietKeeps
    <2>3. FreshAt(s)'
      BY <1>2, <2>1, <2>2 DEF FreshAt
    <2>4. ASSUME NEW o \in Order
          PROVE  CarriedAt(s, o)' /\ LandedAt(s, o)'
      <3>1. Heard(s, o)' => Heard(s, o) /\ mailbox'[s] = mailbox[s]
        BY <2>1, NoReplyAssumption DEF Heard
      <3>2. order'[s] = o =>
              \/ order[s] = o
              \/ Heard(s, o) /\ job[s].fresh /\ mailbox[s].tag = job[s].reading.seq
        <4>1. NoOrder # o
          BY MessagesAssumption
        <4>2. CASE order'[s] \in {order[s], NoOrder}
          <5>1. order'[s] = o => order[s] = o
            BY <4>1, <4>2
          <5> QED BY <5>1
        <4>3. CASE order'[s] \notin {order[s], NoOrder}
          <5>1. /\ job[s].fresh /\ mailbox[s] \in Reply
                /\ mailbox[s].tag = job[s].reading.seq /\ order'[s] = mailbox[s].order
            BY <2>1, <4>3
          <5> QED BY <5>1 DEF Heard
        <4> QED BY <4>2, <4>3
      <3>3. CarriedAt(s, o)'
        BY <1>2, <2>1, <2>2, <3>1, <3>2 DEF CarriedAt, Held
      <3>4. landed[s][o] # 0 => order'[s] # o
        <4>1. landed[s][o] # 0 /\ Heard(s, o) => Spent(s, BootOf(mailbox[s].tag))
          BY <1>2 DEF LandedAt
        <4>2. rtc[s].seq # 0 /\ Heard(s, o) /\ mailbox[s].tag = rtc[s].seq
                => ~Spent(s, BootOf(mailbox[s].tag))
          BY <1>5 DEF Spent
        <4> QED BY <1>2, <3>2, <4>1, <4>2 DEF LandedAt, FreshAt
      <3>5. LandedAt(s, o)'
        BY <1>2, <2>1, <2>2, <3>1, <3>4 DEF LandedAt, Held, Spent
      <3> QED BY <3>3, <3>5
    <2> QED BY <2>3, <2>4 DEF OnceAt
  <1>8. CASE Sample(s)
    <2>1. CanRead(s)
      BY <1>1, <1>8 DEF ControlAt, BeforeSample, Sample, SampleWith, Goto
    <2>2. PICK boot \in 0 .. HALF - 1, put \in 0 .. HALF - 1 : SampleWith(s, boot, put)
      BY <1>8 DEF Sample
    <2>3. rtc'[s].seq = FreshSeq(s, boot) /\ job'[s].reading.seq = FreshSeq(s, boot)
      <3>1. /\ rtc'[s].seq = FreshSeq(s, boot)
            /\ job'[s].reading = [n |-> taken[s] + 1, seq |-> FreshSeq(s, boot)]
        BY <1>1, <2>1, <2>2, SampleDoes
      <3> QED BY <3>1
    <2>4. FreshSeq(s, boot) # 0
      <3>1. rtc[s].seq \in Nat /\ boot * HALF \in Nat
        BY BootReached, HalfAssumption
      <3> QED BY <1>1, <2>1, <3>1, FreshSeqValue
    <2>5. UNCHANGED <<mailbox, order, landed>>
      BY <2>2 DEF SampleWith
    <2>6. ASSUME NEW o \in Order
          PROVE  CarriedAt(s, o)' /\ LandedAt(s, o)'
      <3>1. CarriedAt(s, o)'
        BY <1>2, <1>4, <1>6, <2>5 DEF CarriedAt, Held, Heard
      <3>2. Heard(s, o)' => Heard(s, o)
        BY <2>5 DEF Heard
      <3>3. LandedAt(s, o)'
        BY <1>2, <1>3, <1>4, <1>5, <2>5, <3>2 DEF LandedAt, Held, Spent
      <3> QED BY <3>1, <3>3
    <2> QED BY <2>3, <2>4, <2>6 DEF OnceAt, FreshAt
  <1>9. CASE Restart(s) \/ PowerLoss(s)
    <2>1. ~job'[s].fresh /\ mailbox'[s] = NoReply /\ order'[s] = NoOrder
      BY <1>1, <1>9 DEF Restart, PowerLoss, Reset, PowerDown, NoJob, SensorTypeOK
    <2>2. nvs' = nvs /\ rtc'[s].seq = 0
      BY <1>1, <1>9, ResetKeeps
    <2>3. ASSUME NEW o \in Order
          PROVE  CarriedAt(s, o)' /\ LandedAt(s, o)'
      <3>1. \/ landed'[s][o] = landed[s][o]
            \/ order[s] = o /\ landed'[s][o] = landed[s][o] + 1
        <4>1. CASE PowerLoss(s)
          BY <4>1 DEF PowerLoss
        <4>2. CASE Restart(s)
          BY <1>1, <4>2 DEF Restart, SensorTypeOK
        <4> QED BY <1>9, <4>1, <4>2
      <3>2. ~Heard(s, o)' /\ order'[s] # o
        BY <2>1, NoReplyAssumption, MessagesAssumption DEF Heard
      <3>3. landed'[s][o] # 0 => handed[o] # 0
        BY <1>2, <3>1 DEF CarriedAt
      <3>4. CarriedAt(s, o)'
        BY <1>2, <2>2, <3>2, <3>3 DEF CarriedAt, Held
      <3>5. landed'[s][o] # 0 => landed'[s][o] = 1
        BY <1>1, <1>2, <3>1 DEF LandedAt
      <3>6. landed'[s][o] # 0 => \A i \in Slot : Held(i, s, o) => Spent(s, table[i].boot)'
        BY <2>2, <1>2, <3>3 DEF CarriedAt, Spent
      <3> QED BY <3>2, <3>4, <3>5, <3>6 DEF LandedAt, Held
    <2> QED BY <2>1, <2>3 DEF OnceAt, FreshAt
  <1> QED BY <1>7, <1>8, <1>9

(* An order put into a slot was never handed out before.                   *)
LEMMA OnceQueued ==
  ASSUME PartsInv, NEW s \in Sensor, OnceAt(s), UNCHANGED sensorVars,
         NEW u \in Sensor, NEW c \in Order, QueueCommand(u, c)
  PROVE  OnceAt(s)'
  <1>1. table \in TableType /\ handed[c] = 0 /\ handed' = handed /\ NewSlot(u, c) \in SlotType
    BY NewSlotTyped
       DEF PartsInv, GatewayInv, GatewayTypeOK, TableType, TableInv,
           NotBeforeIssued, QueueCommand
  <1>2. UNCHANGED <<rtc, nvs, job, mailbox, order, landed>>
    BY DEF sensorVars
  <1>3. ASSUME NEW j \in Slot, NEW o \in Order, o # c, Held(j, s, o)'
        PROVE  Held(j, s, o) /\ table'[j] = table[j]
    <2>1. table' = Queued(table, u, c)
      BY DEF QueueCommand
    <2>2. CASE table' = table
      BY <1>3, <2>2 DEF Held
    <2>3. ASSUME NEW i \in Slot, table' = [table EXCEPT ![i] = NewSlot(u, c)]
          PROVE  Held(j, s, o) /\ table'[j] = table[j]
      <3>1. NewSlot(u, c).order = c
        BY DEF NewSlot
      <3>2. j # i
        BY <1>1, <1>3, <2>3, <3>1 DEF Held, TableType
      <3>3. table'[j] = table[j]
        BY <1>1, <2>3, <3>2 DEF TableType
      <3> QED BY <1>3, <3>3 DEF Held
    <2> QED BY <1>1, <2>1, <2>2, <2>3, QueuedCases
  <1>4. ASSUME NEW o \in Order
        PROVE  CarriedAt(s, o)' /\ LandedAt(s, o)'
    <2>1. CarriedAt(s, o) /\ LandedAt(s, o)
      BY DEF OnceAt
    <2>2. Heard(s, o)' <=> Heard(s, o)
      BY <1>2 DEF Heard
    <2>3. CASE o = c
      BY <1>1, <1>2, <2>1, <2>2, <2>3 DEF CarriedAt, LandedAt
    <2>4. CASE o # c
      <3>1. CarriedAt(s, o)'
        BY <1>1, <1>2, <1>3, <2>1, <2>2, <2>4 DEF CarriedAt
      <3>2. LandedAt(s, o)'
        BY <1>2, <1>3, <2>1, <2>2, <2>4 DEF LandedAt, Spent
      <3> QED BY <3>1, <3>2
    <2> QED BY <2>3, <2>4
  <1> QED BY <1>2, <1>4 DEF OnceAt, FreshAt

(* A restarted gateway has no order left.                                  *)
LEMMA OnceForgotten ==
  ASSUME NEW s \in Sensor, OnceAt(s), UNCHANGED sensorVars, GatewayRestart
  PROVE  OnceAt(s)'
  <1>1. handed' = handed /\ \A i \in Slot : ~table'[i].active
    BY DEF GatewayRestart, EmptyTable, EmptySlot
  <1>2. UNCHANGED <<rtc, nvs, job, mailbox, order, landed>>
    BY DEF sensorVars
  <1>3. \A i \in Slot, o \in Order : ~Held(i, s, o)'
    BY <1>1 DEF Held
  <1> QED BY <1>1, <1>2, <1>3 DEF OnceAt, FreshAt, CarriedAt, LandedAt, Heard, Spent

(* A slot not delivered yet belongs to no boot before the packet's.        *)
LEMMA SpentPacket ==
  ASSUME NEW D \in SUBSET Device, HouseInv(D), rxQueue # <<>>, Packet # Junk,
         Packet.device \in D, NEW b \in {BOOT_UNSET, PacketBoot}, Spent(Packet.device, b)
  PROVE  Spent(Packet.device, PacketBoot)
  <1> DEFINE s == Packet.device
  <1>1. s \in Sensor /\ PacketBoot \in 0 .. HALF - 1 /\ PacketBoot <= nvs[s].boot
    BY PacketReached
  <1>2. CASE b = BOOT_UNSET
    <2>1. /\ nvs[s].boot \in 0 .. HALF - 1 /\ rtc[s].seq \in Nat
          /\ rtc[s].seq # 0 => BootOf(rtc[s].seq) <= nvs[s].boot
      BY <1>1, BootReached
    <2>2. BootOf(rtc[s].seq) \in Nat
      BY <2>1, DivMod DEF BootOf
    <2>3. rtc[s].seq = 0
      BY <1>2, <2>1, <2>2, HalfAssumption DEF Spent, BOOT_UNSET
    <2> QED BY <1>1, <2>3 DEF Spent
  <1> QED BY <1>2

(* A reply, heard or not.                                                  *)
LEMMA OnceAnswered ==
  ASSUME NEW D \in SUBSET Device, HouseInv(D), NEW s \in Sensor \cap D, OnceAt(s), Answer
  PROVE  OnceAt(s)'
  <1> DEFINE p == Packet.device
  <1>1. rxQueue # <<>> /\ Packet # Junk
    BY DEF Answer, RxReply
  <1>2. /\ p \in Sensor /\ PacketBoot \in 0 .. HALF - 1
        /\ s = p => PacketBoot <= nvs[p].boot
    BY <1>1, PacketReached
  <1>3. /\ SensorTypeOK /\ GatewayTypeOK /\ OneSlotPerOrder
        /\ table \in TableType /\ handed \in [Order -> Nat]
    BY DEF HouseInv, PartsInv, SensorInv, GatewayInv, GatewayTypeOK, TableInv, TableType
  <1>4. /\ table' = Taken(table, p, PacketBoot)
        /\ \A o \in Order : handed'[o] = handed[o] + IF o = PacketOrder THEN 1 ELSE 0
    BY DEF Answer, RxReply
  <1>5. UNCHANGED <<rtc, nvs, job, order, landed>>
    BY DEF Answer, sensorVars, Hear
  <1>6. \/ mailbox'[s] = mailbox[s]
        \/ mailbox'[s] = Torn
        \/ /\ s = p
           /\ \E signed \in BOOLEAN :
                mailbox'[s] = ReplyTo(Packet.reading, PacketOrder, signed)
    BY <1>3 DEF Answer, sensorVars, Hear, SensorTypeOK
  <1>7. ASSUME NEW o \in Order, Heard(s, o)'
        PROVE  \/ Heard(s, o) /\ mailbox'[s] = mailbox[s]
               \/ s = p /\ PacketOrder = o /\ mailbox'[s].tag = Packet.reading.seq
    <2>1. CASE mailbox'[s] = mailbox[s]
      BY <1>7, <2>1 DEF Heard
    <2>2. CASE mailbox'[s] = Torn
      BY <1>7, <2>2, MessagesAssumption DEF Heard, Torn
    <2>3. ASSUME s = p, NEW signed \in BOOLEAN,
                 mailbox'[s] = ReplyTo(Packet.reading, PacketOrder, signed)
          PROVE  s = p /\ PacketOrder = o /\ mailbox'[s].tag = Packet.reading.seq
      BY <1>7, <2>3, MessagesAssumption DEF Heard, ReplyTo
    <2> QED BY <1>6, <2>1, <2>2, <2>3
  <1>8. ASSUME NEW j \in Slot, NEW o \in Order, Held(j, s, o)'
        PROVE  /\ Held(j, s, o)
               /\ \/ table'[j] = table[j]
                  \/ /\ s = p /\ PacketOrder = o /\ table'[j].boot = PacketBoot
                     /\ table[j].boot \in {BOOT_UNSET, PacketBoot}
    <2>1. \/ table'[j] = table[j]
          \/ /\ table[j].active /\ table[j].device = p /\ PacketOrder = table[j].order
             /\ table[j].boot \in {BOOT_UNSET, PacketBoot}
             /\ table'[j].device = p /\ table'[j].order = table[j].order
             /\ table'[j].boot = PacketBoot
      BY <1>2, <1>3, <1>4, <1>8, AfterTaken DEF Held, PacketOrder
    <2> QED BY <1>8, <2>1 DEF Held
  <1>9. ASSUME NEW o \in Order, PacketOrder = o
        PROVE  \E j \in Slot : /\ Held(j, p, o) /\ table'[j].boot = PacketBoot
                               /\ table[j].boot \in {BOOT_UNSET, PacketBoot}
    <2>1. PacketOrder # NoOrder
      BY <1>9, MessagesAssumption
    <2>2. PICK j \in Slot : /\ table[j].active /\ table[j].device = p
                            /\ PacketOrder = table[j].order
                            /\ table'[j].boot = PacketBoot
      BY <1>2, <1>3, <1>4, <2>1, SlotMarked DEF PacketOrder
    <2>3. PICK i \in Slot : /\ table[i].active /\ table[i].device = p
                            /\ PacketOrder = table[i].order
                            /\ table[i].boot \in {BOOT_UNSET, PacketBoot}
      BY <1>2, <1>3, <2>1, FromSlot DEF PacketOrder
    <2>4. i = j
      BY <1>3, <2>2, <2>3 DEF OneSlotPerOrder
    <2> QED BY <1>9, <2>2, <2>3, <2>4 DEF Held
  <1>10. ASSUME NEW o \in Order
         PROVE  CarriedAt(s, o)' /\ LandedAt(s, o)'
    <2>1. CarriedAt(s, o) /\ LandedAt(s, o)
      BY DEF OnceAt
    <2>2. handed[o] \in Nat
      BY <1>3
    <2>3. handed[o] # 0 \/ PacketOrder = o <=> handed'[o] # 0
      BY <1>4, <2>2
    <2>4. order'[s] = o \/ Heard(s, o)' \/ landed'[s][o] # 0 => handed'[o] # 0
      BY <1>5, <1>7, <2>1, <2>3 DEF CarriedAt
    <2>5. ASSUME handed'[o] # 0, NEW j \in Slot, Held(j, s, o)'
          PROVE  table'[j].boot <= nvs[s].boot
      <3>1. CASE table'[j] # table[j]
        BY <1>2, <1>8, <2>5, <3>1
      <3>2. CASE table'[j] = table[j] /\ handed[o] # 0
        BY <1>8, <2>1, <2>5, <3>2 DEF CarriedAt
      <3>3. CASE handed[o] = 0
        <4>1. PacketOrder = o /\ Held(j, s, o)
          BY <1>8, <2>3, <2>5, <3>3
        <4>2. PICK i \in Slot : Held(i, p, o) /\ table'[i].boot = PacketBoot
          BY <1>9, <4>1
        <4>3. i = j
          BY <1>3, <4>1, <4>2 DEF Held, OneSlotPerOrder
        <4> QED BY <1>2, <4>1, <4>2, <4>3 DEF Held
      <3> QED BY <3>1, <3>2, <3>3
    <2>6. CarriedAt(s, o)'
      BY <1>5, <2>4, <2>5 DEF CarriedAt
    <2>7. ASSUME landed[s][o] # 0, PacketOrder = o, s = p
          PROVE  Spent(s, PacketBoot)
      <3>1. PICK j \in Slot : /\ Held(j, s, o)
                              /\ table[j].boot \in {BOOT_UNSET, PacketBoot}
        BY <1>9, <2>7
      <3>2. Spent(p, table[j].boot)
        BY <2>1, <2>7, <3>1 DEF LandedAt
      <3> QED BY <1>1, <2>7, <3>1, <3>2, SpentPacket
    <2>8. ASSUME landed[s][o] # 0, Heard(s, o)'
          PROVE  Spent(s, BootOf(mailbox'[s].tag))
      <3>1. CASE Heard(s, o) /\ mailbox'[s] = mailbox[s]
        BY <2>1, <2>8, <3>1 DEF LandedAt
      <3>2. CASE s = p /\ PacketOrder = o /\ mailbox'[s].tag = Packet.reading.seq
        BY <2>7, <2>8, <3>2 DEF PacketBoot
      <3> QED BY <1>7, <2>8, <3>1, <3>2
    <2>9. ASSUME landed[s][o] # 0, NEW j \in Slot, Held(j, s, o)'
          PROVE  Spent(s, table'[j].boot)
      <3>1. CASE table'[j] = table[j]
        BY <1>8, <2>1, <2>9, <3>1 DEF LandedAt
      <3>2. CASE table'[j] # table[j]
        BY <1>8, <2>7, <2>9, <3>2
      <3> QED BY <3>1, <3>2
    <2>10. LandedAt(s, o)'
      BY <1>5, <2>1, <2>8, <2>9 DEF LandedAt, Spent
    <2> QED BY <2>6, <2>10
  <1> QED BY <1>5, <1>10 DEF OnceAt, FreshAt

(* The steps of the house, as an order sees them.                          *)
LEMMA OrderKinds ==
  ASSUME SensorTypeOK, [HouseNext]_houseVars
  PROVE  \/ UNCHANGED <<sensorVars, table, handed, issued>>
         \/ /\ UNCHANGED <<table, handed, issued>>
            /\ \E u \in Sensor : \/ Quiet(u) /\ ~\E reply \in Reply : Hear(u, reply)
                                 \/ Sample(u) \/ Restart(u) \/ PowerLoss(u)
         \/ Answer
         \/ UNCHANGED <<table, handed, issued>> /\ \E u \in Sensor : Hear(u, Foreign)
         \/ UNCHANGED sensorVars /\ \E u \in Sensor, c \in Order : QueueCommand(u, c)
         \/ UNCHANGED sensorVars /\ GatewayRestart
  <1>1. \A u \in Sensor, reply \in Reply : Hear(u, reply) => pc' = pc /\ pc[u] = "listen"
    BY DEF Hear
  <1>2. CASE \E u \in Sensor : Transmit(u)
    <2>1. PICK u \in Sensor : Transmit(u)
      BY <1>2
    <2>2. Hop(u) /\ pc'[u] = "listen" /\ pc[u] = "try"
      BY <2>1 DEF Transmit, Hop, Goto, SensorTypeOK
    <2>3. UNCHANGED <<table, handed, issued>>
      BY <2>1 DEF Transmit, OnRecv, gatewayVars
    <2> QED BY <1>1, <2>2, <2>3 DEF Quiet
  <1>3. CASE BoxStep
    <2>1. PICK u \in Sensor : Wake(u) \/ WakeStep(u) \/ PowerLoss(u)
      BY <1>3 DEF BoxStep
    <2>2. UNCHANGED <<table, handed, issued>>
      BY <1>3 DEF BoxStep, gatewayVars
    <2>3. CASE Sample(u) \/ Restart(u) \/ PowerLoss(u)
      BY <2>2, <2>3
    <2>4. CASE ~(Sample(u) \/ Restart(u) \/ PowerLoss(u))
      <3>1. pc'[u] # pc[u]
        BY <2>1, <2>4
        DEF WakeStep, Wake, NothingPending, GiveUpPending, SendPending, ListenTimeout, Answered,
            RetryMissed, FreshMissed, SaveReading, SaveFlag, SaveRetry, ClearFlag, ClearRetry,
            AfterStorage, Sleep, PowerDown, Goto, SensorTypeOK
      <3>2. Quiet(u)
        BY <2>1, <2>4 DEF WakeStep, Quiet
      <3> QED BY <1>1, <2>2, <3>1, <3>2
    <2> QED BY <2>3, <2>4
  <1>4. CASE GatewayStep
    BY <1>4 DEF GatewayStep, RxReject, RxEnqueue, RxGiveUp, ReaderStep, OwnReading,
                OwnEnqueue, OwnGiveUp, ChangeChannel
  <1>5. CASE Noise \/ PublishOne \/ RestartIngest \/ UNCHANGED houseVars
    BY <1>5
    DEF Noise, OnRecv, PublishOne, Publish, RestartIngest, gatewayVars, houseVars
  <1>6. CASE \E u \in Sensor : Overhear(u)
    BY <1>6 DEF Overhear, gatewayVars
  <1> QED BY <1>2, <1>3, <1>4, <1>5, <1>6 DEF HouseNext

(* What a box overhears carries no order.                                  *)
LEMMA OverhearDoes ==
  ASSUME SensorTypeOK, NEW u \in Sensor, Hear(u, Foreign), NEW s \in Sensor
  PROVE  /\ UNCHANGED <<job, rtc, nvs, order, landed>>
         /\ mailbox'[s] = mailbox[s] \/ mailbox'[s] = Foreign
  BY DEF Hear, SensorTypeOK, Foreign

LEMMA OnceStep ==
  ASSUME NEW D \in SUBSET Device, HouseInv(D), SoundInv(D)', OnceInv(D),
         [HouseNext]_houseVars
  PROVE  OnceInv(D)'
  <1> SUFFICES ASSUME NEW s \in Sensor \cap D PROVE OnceAt(s)'
    BY DEF OnceInv
  <1>1. OnceAt(s) /\ SensorTypeOK /\ PartsInv
    BY DEF OnceInv, HouseInv, PartsInv, SensorInv
  <1>2. ASSUME UNCHANGED <<sensorVars, table, handed>>
        PROVE  OnceAt(s)'
    <2>1. UNCHANGED <<job, rtc, nvs, mailbox, order, landed>>
      BY <1>2 DEF sensorVars
    <2> QED BY <1>1, <1>2, <2>1, OnceStill
  <1>3. ASSUME NEW u \in Sensor, UNCHANGED <<table, handed>>,
               \/ Quiet(u) /\ ~\E reply \in Reply : Hear(u, reply)
               \/ Sample(u) \/ Restart(u) \/ PowerLoss(u)
        PROVE  OnceAt(s)'
    <2>1. CASE u = s
      BY <1>1, <1>3, <2>1, OnceBox
    <2>2. CASE u # s
      <3>1. Quiet(u) \/ Sample(u) \/ Restart(u) \/ PowerLoss(u)
        BY <1>3
      <3>2. job'[s] = job[s] /\ nvs'[s] = nvs[s] /\ rtc'[s] = rtc[s]
        BY <1>1, <2>2, <3>1, OthersKept
      <3>3. mailbox'[s] = mailbox[s] /\ order'[s] = order[s] /\ landed'[s] = landed[s]
        BY <1>1, <2>2, <3>1, OthersHave
      <3> QED BY <1>1, <1>3, <3>2, <3>3, OnceStill
    <2> QED BY <2>1, <2>2
  <1>4. ASSUME UNCHANGED sensorVars, NEW u \in Sensor, NEW c \in Order, QueueCommand(u, c)
        PROVE  OnceAt(s)'
    BY <1>1, <1>4, OnceQueued
  <1>5. ASSUME UNCHANGED <<table, handed>>, NEW u \in Sensor, Hear(u, Foreign)
        PROVE  OnceAt(s)'
    <2>1. /\ UNCHANGED <<job, rtc, nvs, order, landed>>
          /\ mailbox'[s] = mailbox[s] \/ mailbox'[s] = Foreign
      BY <1>1, <1>5, OverhearDoes
    <2> QED BY <1>1, <1>5, <2>1, OnceStill
  <1> QED BY <1>1, <1>2, <1>3, <1>4, <1>5, OnceAnswered, OnceForgotten, OrderKinds

LEMMA OnceInit ==
  ASSUME NEW D \in SUBSET Device, HouseInit
  PROVE  OnceInv(D)
  <1> SUFFICES ASSUME NEW s \in Sensor PROVE OnceAt(s)
    BY DEF OnceInv
  <1>1. /\ ~job[s].fresh /\ order[s] = NoOrder /\ mailbox[s] = NoReply
        /\ \A o \in Order : landed[s][o] = 0 /\ handed[o] = 0
    BY DEF HouseInit, SensorInit, GatewayInit, NoJob
  <1> QED BY <1>1, NoReplyAssumption, MessagesAssumption
          DEF OnceAt, FreshAt, CarriedAt, LandedAt, Heard

(* What an order did to a box, of which the boot counts are stored.        *)
OnceHouse(D) == HouseInv(D) /\ OnceInv(D)

LEMMA OnceHouseInit ==
  ASSUME NEW D \in SUBSET Device, HouseInit
  PROVE  OnceHouse(D)
  BY HouseInitInv, OnceInit DEF OnceHouse

LEMMA OnceHouseStep ==
  ASSUME NEW D \in SUBSET Device, OnceHouse(D), BootsStored(D)', [HouseNext]_houseVars
  PROVE  OnceHouse(D)'
  <1>1. HouseInv(D) /\ HouseInv(D)' /\ OnceInv(D)
    BY HouseStepInv DEF OnceHouse
  <1>2. OnceInv(D)'
    BY <1>1, OnceStep DEF HouseInv
  <1> QED BY <1>1, <1>2 DEF OnceHouse

LEMMA LandedOnce ==
  ASSUME NEW D \in SUBSET Device, OnceHouse(D), NEW s \in Sensor \cap D
  PROVE  \A o \in Order : landed[s][o] <= 1
  <1>1. landed \in [Sensor -> [Order -> Nat]]
    BY DEF OnceHouse, HouseInv, PartsInv, SensorInv, SensorTypeOK
  <1> QED BY <1>1 DEF OnceHouse, OnceInv, OnceAt, LandedAt

(* A box whose boot counts were all stored obeys an order once, however    *)
(* other boxes lose count and whatever other flash accesses fail.          *)
THEOREM HouseLandsOnceEach ==
  ASSUME NEW s \in Sensor
  PROVE  HouseSpec /\ []BootsStored({s}) => [](\A o \in Order : landed[s][o] <= 1)
  <1>1. {s} \in SUBSET Device
    BY DEF Device
  <1>2. OnceHouse({s}) => \A o \in Order : landed[s][o] <= 1
    BY <1>1, LandedOnce
  <1>3. HouseInit => OnceHouse({s})
    BY <1>1, OnceHouseInit
  <1>4. OnceHouse({s}) /\ BootsStored({s})' /\ [HouseNext]_houseVars => OnceHouse({s})'
    BY <1>1, OnceHouseStep
  <1> QED BY <1>2, <1>3, <1>4, PTL DEF HouseSpec

(* A landed OTA is not re-applied on later check-ins (EspNow.cpp), while   *)
(* every boot count could be stored: whatever is lost, late, torn or       *)
(* re-sent, an order that restarts a box does so once.                     *)
THEOREM HouseLandsOnce == HouseSpec /\ []BootsStored(Device) => []LandsOnce
  <1>1. OnceHouse(Device) => LandsOnce
    BY LandedOnce DEF LandsOnce, Device
  <1>2. HouseInit => OnceHouse(Device)
    BY OnceHouseInit
  <1>3. OnceHouse(Device) /\ BootsStored(Device)' /\ [HouseNext]_houseVars
          => OnceHouse(Device)'
    BY OnceHouseStep
  <1> QED BY <1>1, <1>2, <1>3, PTL DEF HouseSpec

(* With sound flash, as in the runs, all three hold of the house as it is. *)
THEOREM HouseWithSoundFlash ==
  ASSUME ~NvsFaults
  PROVE  HouseSpec => []NoFalseReplay /\ []LandsOnce /\ FeedPromise
  BY SoundFlash, HouseNoFalseReplay, HouseLandsOnce, HouseFeedPromise, PTL

-----------------------------------------------------------------------------
(* Whose order it is: no assumption on flash, packets or replies.          *)

(* What a box obeys or has obeyed; with what it heard; with what waits.    *)
Obeys(s, o) == order[s] = o \/ landed[s][o] # 0

Has(s, o) == Obeys(s, o) \/ Heard(s, o)

Meant(s, o) == Has(s, o) \/ \E i \in Slot : Held(i, s, o)

(* No box obeys an order queued for another one, or never handed out.      *)
OneBoxObeys ==
    \A o \in Order, s, t \in Sensor : Obeys(s, o) /\ Obeys(t, o) => s = t

ObeyedWasHanded == \A o \in Order, s \in Sensor : Obeys(s, o) => handed[o] # 0

MeantInv ==
    /\ \A s \in Sensor, o \in Order :
         (Meant(s, o) => o \in issued) /\ (Has(s, o) => handed[o] # 0)
    /\ \A o \in Order, s, t \in Sensor : Meant(s, o) /\ Meant(t, o) => s = t

(* A box has of orders what it had; it obeys what it heard.                *)
LEMMA MeantBox ==
  ASSUME SensorTypeOK, UNCHANGED <<table, handed, issued>>, NEW u \in Sensor,
         \/ Quiet(u) /\ ~\E reply \in Reply : Hear(u, reply)
         \/ Sample(u) \/ Restart(u) \/ PowerLoss(u),
         NEW s \in Sensor, NEW o \in Order, Has(s, o)'
  PROVE  Has(s, o)
  <1> USE DEF Has, Obeys, Heard
  <1>1. CASE s # u
    <2>1. mailbox'[s] = mailbox[s] /\ order'[s] = order[s] /\ landed'[s] = landed[s]
      BY <1>1, OthersHave
    <2> QED BY <2>1
  <1>2. CASE s = u /\ Quiet(u) /\ ~\E reply \in Reply : Hear(u, reply)
    BY <1>2, QuietDoes, MessagesAssumption, NoReplyAssumption
  <1>3. CASE s = u /\ Sample(u)
    <2>1. UNCHANGED <<mailbox, order, landed>>
      BY <1>3 DEF Sample, SampleWith
    <2> QED BY <2>1
  <1>4. CASE s = u /\ (Restart(u) \/ PowerLoss(u))
    <2>1. order'[s] = NoOrder /\ mailbox'[s] = NoReply
      BY <1>4 DEF Restart, PowerLoss, Reset, PowerDown, SensorTypeOK
    <2>2. landed'[s][o] # 0 => landed[s][o] # 0 \/ order[s] = o
      BY <1>4 DEF Restart, PowerLoss, SensorTypeOK
    <2> QED BY <2>1, <2>2, MessagesAssumption, NoReplyAssumption
  <1> QED BY <1>1, <1>2, <1>3, <1>4

(* A reply carries the order of a slot of the box it goes to, and marks it *)
(* as handed out.                                                          *)
LEMMA MeantAnswered ==
  ASSUME PartsInv, Answer, NEW s \in Sensor, NEW o \in Order
  PROVE  /\ Has(s, o)' => Has(s, o) \/ (PacketOrder = o /\ \E i \in Slot : Held(i, s, o))
         /\ \A i \in Slot : Held(i, s, o)' => Held(i, s, o)
         /\ handed[o] # 0 \/ PacketOrder = o => handed'[o] # 0
  <1> DEFINE p == Packet.device
  <1>1. SensorTypeOK /\ GatewayTypeOK /\ rxQueue # <<>> /\ Packet # Junk
    BY DEF PartsInv, SensorInv, GatewayInv, Answer, RxReply
  <1>2. p \in Sensor /\ PacketBoot \in 0 .. HALF - 1
    BY <1>1, PacketTyped
  <1>3. /\ table \in TableType /\ table' = Taken(table, p, PacketBoot)
        /\ handed \in [Order -> Nat]
        /\ handed'[o] = handed[o] + IF o = PacketOrder THEN 1 ELSE 0
    BY <1>1 DEF Answer, RxReply, GatewayTypeOK, TableType
  <1>4. UNCHANGED <<order, landed>>
    BY DEF Answer, sensorVars, Hear
  <1>5. \/ mailbox'[s] = mailbox[s]
        \/ mailbox'[s] = Torn
        \/ /\ s = p
           /\ \E signed \in BOOLEAN :
                mailbox'[s] = ReplyTo(Packet.reading, PacketOrder, signed)
    BY <1>1 DEF Answer, sensorVars, Hear, SensorTypeOK
  <1>6. Heard(s, o)' => Heard(s, o) \/ (s = p /\ PacketOrder = o)
    <2> SUFFICES ASSUME Heard(s, o)' PROVE Heard(s, o) \/ (s = p /\ PacketOrder = o)
        OBVIOUS
    <2>1. CASE mailbox'[s] = mailbox[s]
      BY <2>1 DEF Heard
    <2>2. CASE mailbox'[s] = Torn
      BY <2>2, MessagesAssumption DEF Heard, Torn
    <2>3. ASSUME s = p, NEW signed \in BOOLEAN,
                 mailbox'[s] = ReplyTo(Packet.reading, PacketOrder, signed)
          PROVE  s = p /\ PacketOrder = o
      BY <2>3, MessagesAssumption DEF Heard, ReplyTo
    <2> QED BY <1>5, <2>1, <2>2, <2>3
  <1>7. ASSUME PacketOrder = o PROVE \E i \in Slot : Held(i, p, o)
    <2>1. OrderFor(table, p, PacketBoot) # NoOrder
      BY <1>7, MessagesAssumption DEF PacketOrder
    <2> QED BY <1>2, <1>3, <1>7, <2>1, FromSlot DEF PacketOrder, Held
  <1>8. ASSUME NEW i \in Slot, Held(i, s, o)' PROVE Held(i, s, o)
    BY <1>2, <1>3, <1>8, AfterTaken DEF Held
  <1>9. handed[o] # 0 \/ PacketOrder = o => handed'[o] # 0
    BY <1>3
  <1> QED BY <1>4, <1>6, <1>7, <1>8, <1>9 DEF Has, Obeys

(* Queueing an order fills one slot, of one box.                           *)
LEMMA MeantQueued ==
  ASSUME GatewayTypeOK, NEW u \in Sensor, NEW c \in Order, QueueCommand(u, c),
         NEW s \in Sensor, NEW o \in Order, NEW i \in Slot, Held(i, s, o)'
  PROVE  Held(i, s, o) \/ (s = u /\ o = c)
  <1>1. table \in TableType /\ table' = Queued(table, u, c)
    BY DEF QueueCommand, GatewayTypeOK, TableType
  <1>2. CASE table' = table
    BY <1>2 DEF Held
  <1>3. ASSUME NEW j \in Slot, table' = [table EXCEPT ![j] = NewSlot(u, c)]
        PROVE  Held(i, s, o) \/ (s = u /\ o = c)
    <2>1. table'[i] = IF i = j THEN NewSlot(u, c) ELSE table[i]
      BY <1>1, <1>3 DEF TableType
    <2>2. NewSlot(u, c).device = u /\ NewSlot(u, c).order = c
      BY DEF NewSlot
    <2> QED BY <2>1, <2>2 DEF Held
  <1> QED BY <1>1, <1>2, <1>3, QueuedCases

LEMMA MeantStep ==
  ASSUME PartsInv, MeantInv, [HouseNext]_houseVars
  PROVE  MeantInv'
  <1>1. SensorTypeOK /\ GatewayTypeOK /\ GatewayInv
    BY DEF PartsInv, SensorInv, GatewayInv
  <1>2. ASSUME UNCHANGED <<table, handed, issued>>,
               \A s \in Sensor, o \in Order : Has(s, o)' => Has(s, o)
        PROVE  MeantInv'
    <2>1. \A s \in Sensor, o \in Order : Meant(s, o)' => Meant(s, o)
      BY <1>2 DEF Meant, Held
    <2> QED BY <1>2, <2>1 DEF MeantInv
  <1>3. CASE UNCHANGED <<sensorVars, table, handed, issued>>
    <2>1. \A s \in Sensor, o \in Order : Has(s, o)' <=> Has(s, o)
      BY <1>3 DEF sensorVars, Has, Obeys, Heard
    <2> QED BY <1>2, <1>3, <2>1
  <1>4. ASSUME NEW u \in Sensor, UNCHANGED <<table, handed, issued>>,
               \/ Quiet(u) /\ ~\E reply \in Reply : Hear(u, reply)
               \/ Sample(u) \/ Restart(u) \/ PowerLoss(u)
        PROVE  MeantInv'
    BY <1>1, <1>2, <1>4, MeantBox
  <1>5. CASE Answer
    <2>1. issued' = issued
      BY <1>5 DEF Answer, RxReply
    <2>2. \A s \in Sensor, o \in Order : Meant(s, o)' => Meant(s, o)
      BY <1>5, MeantAnswered DEF Meant
    <2>3. \A s \in Sensor, o \in Order : Has(s, o)' => handed'[o] # 0
      BY <1>5, MeantAnswered DEF MeantInv
    <2> QED BY <2>1, <2>2, <2>3 DEF MeantInv
  <1>6. ASSUME UNCHANGED sensorVars, NEW u \in Sensor, NEW c \in Order, QueueCommand(u, c)
        PROVE  MeantInv'
    <2>1. c \notin issued /\ issued' = issued \cup {c} /\ handed' = handed
      BY <1>6 DEF QueueCommand
    <2>2. \A s \in Sensor, o \in Order : Has(s, o)' <=> Has(s, o)
      BY <1>6 DEF sensorVars, Has, Obeys, Heard
    <2>3. \A s \in Sensor, o \in Order : Meant(s, o)' => Meant(s, o) \/ (s = u /\ o = c)
      BY <1>1, <1>6, <2>2, MeantQueued DEF Meant
    <2>4. \A s \in Sensor : ~Meant(s, c)
      BY <2>1 DEF MeantInv
    <2>5. \A o \in Order, s, t \in Sensor : Meant(s, o)' /\ Meant(t, o)' => s = t
      BY <2>3, <2>4 DEF MeantInv
    <2> QED BY <2>1, <2>2, <2>3, <2>5 DEF MeantInv
  <1>7. CASE UNCHANGED sensorVars /\ GatewayRestart
    <2>1. UNCHANGED <<handed, issued>> /\ \A i \in Slot : ~table'[i].active
      BY <1>7 DEF GatewayRestart, EmptyTable, EmptySlot
    <2>2. \A s \in Sensor, o \in Order : Has(s, o)' <=> Has(s, o)
      BY <1>7 DEF sensorVars, Has, Obeys, Heard
    <2>3. \A s \in Sensor, o \in Order : Meant(s, o)' => Meant(s, o)
      BY <2>1, <2>2 DEF Meant, Held
    <2> QED BY <2>1, <2>2, <2>3 DEF MeantInv
  <1>8. ASSUME UNCHANGED <<table, handed, issued>>, NEW u \in Sensor, Hear(u, Foreign)
        PROVE  MeantInv'
    <2>1. ASSUME NEW s \in Sensor, NEW o \in Order, Has(s, o)'
          PROVE  Has(s, o)
      <3>1. /\ UNCHANGED <<order, landed>>
            /\ mailbox'[s] = mailbox[s] \/ mailbox'[s] = Foreign
        BY <1>1, <1>8, OverhearDoes
      <3> QED BY <2>1, <3>1, ForeignIs, MessagesAssumption DEF Has, Obeys, Heard
    <2> QED BY <1>2, <1>8, <2>1
  <1> QED BY <1>1, <1>3, <1>4, <1>5, <1>6, <1>7, <1>8, OrderKinds

LEMMA MeantInit == HouseInit => MeantInv
  <1> SUFFICES ASSUME HouseInit PROVE MeantInv
    OBVIOUS
  <1>1. ASSUME NEW s \in Sensor, NEW o \in Order PROVE ~Meant(s, o)
    <2>1. order[s] = NoOrder /\ mailbox[s] = NoReply /\ landed[s][o] = 0
      BY DEF HouseInit, SensorInit
    <2>2. \A i \in Slot : ~table[i].active
      BY DEF HouseInit, GatewayInit, EmptyTable, EmptySlot
    <2> QED BY <2>1, <2>2, MessagesAssumption, NoReplyAssumption
            DEF Meant, Has, Obeys, Heard, Held
  <1> QED BY <1>1 DEF MeantInv, Meant

(* An order reaches the box it was queued for and no other, whatever the   *)
(* tables, late or torn replies, restarts and failing flash do             *)
(* (espnow_take_pending by device id, the reply to the sender's address).  *)
THEOREM HouseOneBoxObeys == HouseSpec => [](OneBoxObeys /\ ObeyedWasHanded)
  <1>1. PartsInv /\ [HouseNext]_houseVars => PartsInv'
    BY PartsStep
  <1>2. PartsInv /\ MeantInv /\ [HouseNext]_houseVars => MeantInv'
    BY MeantStep
  <1>3. MeantInv => OneBoxObeys /\ ObeyedWasHanded
    BY DEF MeantInv, Meant, Has, OneBoxObeys, ObeyedWasHanded
  <1> QED BY <1>1, <1>2, <1>3, PartsInit, MeantInit, PTL DEF HouseSpec

-----------------------------------------------------------------------------
(* What is left of a claim that fails                                      *)

(* The receiver of the house keeps HandedInv as the gateway alone does.    *)
LEMMA HandedPart ==
  ASSUME PartsInv, HandedInv, [HouseNext]_houseVars
  PROVE  HandedInv'
  <1>1. GatewayInv /\ GatewayTypeOK /\ SensorTypeOK /\ SentInv
    BY DEF PartsInv, GatewayInv, SensorInv
  <1>2. ASSUME NEW packet \in Packets, OnRecv(packet)
        PROVE  HandedInv'
    BY <1>2 DEF OnRecv, HandedInv, ClearedWasHanded
  <1> QED BY <1>1, <1>2, GatewaySteps, HandedStep

(* EspNow.h's "it took the OTA" holds of an order that went out, not of    *)
(* one that was obeyed.  Of "it heard us" nothing is left: a box may have  *)
(* overheard what no gateway sent.                                         *)
THEOREM HouseClearedWasHanded == HouseSpec => []ClearedWasHanded
  <1>1. PartsInv /\ [HouseNext]_houseVars => PartsInv'
    BY PartsStep
  <1>2. PartsInv /\ HandedInv /\ [HouseNext]_houseVars => HandedInv'
    BY HandedPart
  <1>3. HouseInit => HandedInv
    BY HandedInit DEF HouseInit
  <1>4. HandedInv => ClearedWasHanded
    BY DEF HandedInv
  <1> QED BY <1>1, <1>2, <1>3, <1>4, PartsInit, PTL DEF HouseSpec

=============================================================================

----------------------------- MODULE SensorProofs -----------------------------
(***************************************************************************)
(* Proofs about Sensor, for any number of boxes, channels, retries and     *)
(* readings and any width of the two halves: the types, that a pending     *)
(* flag always has a reading behind it, that sequence numbers rise, that   *)
(* an unanswered reading is kept, and that a wake runs down to its sleep.  *)
(*                                                                         *)
(* SeqRises rests on CounterInv: whatever was used lies below the end of   *)
(* the next boot's block, and below the end of the stored boot's own block *)
(* unless the last store failed.                                           *)
(***************************************************************************)
EXTENDS Sensor, CounterLemmas, FiniteSetTheorems

-----------------------------------------------------------------------------
(* The invariant                                                           *)

(* The types of flash, of RTC memory, of the noted errors and of a send.   *)
NvsType ==
    [Sensor -> [boot : 0 .. HALF - 1, reading : Reading \cup {NoReading},
                pending : BOOLEAN, retry : 0 .. STORAGE_MAX_RETRIES]]

RtcType == [Sensor -> [seq : Word, channel : 0 .. CHANNEL_MAX]]

ErrType == [Sensor -> [now : BOOLEAN, before : BOOLEAN]]

JobType ==
    [Sensor -> [reading : Reading \cup {NoReading}, fresh : BOOLEAN,
                left : SUBSET Channel, channel : 0 .. CHANNEL_MAX,
                delivered : BOOLEAN]]

(* The fresh reading of this wake is still to be taken.                    *)
BeforeSample(s) ==
    \/ pc[s] \in {"retry", "sample"}
    \/ pc[s] \in {"try", "listen", "clear_flag", "clear_retry"} /\ ~job[s].fresh

ControlAt(s) ==
    /\ BeforeSample(s) => CanRead(s)
    /\ pc[s] \in {"try", "listen"} /\ ~job[s].fresh
          => nvs[s].retry < STORAGE_MAX_RETRIES
    /\ pc[s] \in {"asleep", "retry"} => job[s] = NoJob

ControlInv == \A s \in Sensor : ControlAt(s)

(* Every reading on its way to flash is one the box took.                  *)
TakenBefore(s, r) == r # NoReading /\ r.n <= taken[s]

ReadingAt(s) ==
    /\ job[s].fresh => TakenBefore(s, job[s].reading)
    /\ pc[s] = "save_reading" => job[s].fresh
    /\ pc[s] = "save_flag" \/ nvs[s].pending => TakenBefore(s, nvs[s].reading)

ReadingInv == \A s \in Sensor : ReadingAt(s)

(* Where the numbers used so far lie.                                      *)
CounterAt(s) ==
    /\ rtc[s].seq <= topSeq[s] \/ rtc[s].seq = 0
    /\ topSeq[s] < (nvs[s].boot + 2) * HALF
    /\ ~bootErr[s].now => topSeq[s] < (nvs[s].boot + 1) * HALF
    /\ rtc[s].seq # 0 /\ ~bootErr[s].now /\ ~bootErr[s].before
          => topSeq[s] = rtc[s].seq

CounterInv == \A s \in Sensor : CounterAt(s)

SensorInv == SensorTypeOK /\ ControlInv /\ ReadingInv /\ CounterInv

-----------------------------------------------------------------------------
LEMMA SensorInitInv == SensorInit => SensorInv
  <1> SUFFICES ASSUME SensorInit PROVE SensorInv
      OBVIOUS
  <1> USE SensorAssumption, HalfAssumption, MessagesAssumption DEF SensorInit
  <1>1. SensorTypeOK
    <2>1. 0 \in Word /\ 0 \in 0 .. HALF - 1
        BY ZeroWord
    <2> QED BY <2>1 DEF SensorTypeOK, Phase, NoJob, Word, Channel
  <1>2. ControlInv
      BY DEF ControlInv, ControlAt, BeforeSample
  <1>3. ReadingInv
      BY DEF ReadingInv, ReadingAt, NoJob
  <1>4. CounterInv
      BY DEF CounterInv, CounterAt
  <1> QED BY <1>1, <1>2, <1>3, <1>4 DEF SensorInv

(* The number a fresh reading gets.                                        *)
LEMMA FreshSeqValue ==
  ASSUME SensorTypeOK, NEW s \in Sensor, CanRead(s), NEW boot \in 0 .. HALF - 1
  PROVE  /\ FreshSeq(s, boot) \in Word
         /\ FreshSeq(s, boot) =
              IF rtc[s].seq = 0 THEN boot * HALF + 1 ELSE rtc[s].seq + 1
  <1> DEFINE seq == rtc[s].seq
  <1>1. seq \in Nat /\ seq < HALF * HALF
      BY HalfAssumption, HalfSquare DEF SensorTypeOK, Word
  <1>2. CASE seq = 0
    <2>1. FreshSeq(s, boot) = (boot * HALF + 1) % (HALF * HALF)
        BY <1>2, BaseOf DEF FreshSeq, NextSeq
    <2>2. boot * HALF <= (HALF - 1) * HALF
        BY Mono, HalfAssumption
    <2>3. boot * HALF + 1 \in 0 .. HALF * HALF - 1
        BY <2>2, HalfAssumption
    <2>4. (boot * HALF + 1) % (HALF * HALF) = boot * HALF + 1
        BY <2>3, HalfSquare
    <2> QED BY <1>2, <2>1, <2>3, <2>4 DEF Word
  <1>3. CASE seq # 0
    <2>1. FreshSeq(s, boot) = (seq + 1) % (HALF * HALF)
        BY <1>3 DEF FreshSeq, NextSeq
    <2>2. seq + 1 < HALF * HALF
        BY <1>1, <1>3, InBlock, HalfAssumption DEF CanRead
    <2>3. (seq + 1) % (HALF * HALF) = seq + 1
        BY <1>1, <2>2, HalfSquare
    <2> QED BY <1>1, <1>3, <2>1, <2>2, <2>3, HalfSquare DEF Word
  <1> QED BY <1>2, <1>3

LEMMA NextChannelIsLeft ==
  ASSUME SensorTypeOK, NEW s \in Sensor, job[s].left # {}
  PROVE  NextChannel(s) \in job[s].left
  <1>1. job[s].left \in SUBSET Nat
      BY SensorAssumption DEF SensorTypeOK, Channel
  <1>2. \E c \in job[s].left : \A d \in job[s].left : c <= d
      BY <1>1, Smallest
  <1> QED BY <1>2 DEF NextChannel

-----------------------------------------------------------------------------
(* A write to one field of flash, or of the send, keeps the type.          *)
LEMMA NvsBoot ==
  ASSUME nvs \in NvsType, NEW s \in Sensor, NEW b \in 0 .. HALF - 1
  PROVE  [nvs EXCEPT ![s].boot = b] \in NvsType
  BY DEF NvsType

LEMMA NvsReading ==
  ASSUME nvs \in NvsType, NEW s \in Sensor, NEW r \in Reading \cup {NoReading}
  PROVE  [nvs EXCEPT ![s].reading = r] \in NvsType
  BY DEF NvsType

LEMMA NvsPending ==
  ASSUME nvs \in NvsType, NEW s \in Sensor
  PROVE  /\ [nvs EXCEPT ![s].pending = TRUE] \in NvsType
         /\ [nvs EXCEPT ![s].pending = FALSE] \in NvsType
  BY DEF NvsType

LEMMA NvsRetry ==
  ASSUME nvs \in NvsType, NEW s \in Sensor, NEW n \in 0 .. STORAGE_MAX_RETRIES
  PROVE  [nvs EXCEPT ![s].retry = n] \in NvsType
  BY DEF NvsType

LEMMA RtcUpdate ==
  ASSUME rtc \in RtcType, NEW s \in Sensor
  PROVE  \A q \in Word : [rtc EXCEPT ![s].seq = q] \in RtcType
  BY DEF RtcType

LEMMA JobUpdate ==
  ASSUME job \in JobType, NEW s \in Sensor
  PROVE  /\ \A c \in Channel, l \in SUBSET Channel :
              [job EXCEPT ![s].channel = c, ![s].left = l] \in JobType
         /\ [job EXCEPT ![s].delivered = TRUE] \in JobType
  <1>1. ASSUME NEW c \in Channel, NEW l \in SUBSET Channel
        PROVE  [job EXCEPT ![s].channel = c, ![s].left = l] \in JobType
    <2>1. c \in 0 .. CHANNEL_MAX
      BY SensorAssumption DEF Channel
    <2>2. [job EXCEPT ![s].channel = c] \in JobType
      BY <2>1 DEF JobType
    <2> DEFINE j == [job EXCEPT ![s].channel = c]
    <2>3. [j EXCEPT ![s].left = l] \in JobType
      BY <2>2 DEF JobType
    <2>4. [j EXCEPT ![s].left = l] = [job EXCEPT ![s].channel = c, ![s].left = l]
      BY DEF JobType
    <2> QED BY <2>3, <2>4
  <1>2. [job EXCEPT ![s].delivered = TRUE] \in JobType
    BY DEF JobType
  <1> QED BY <1>1, <1>2

(* Every step keeps the types; one case per action.                        *)
LEMMA TypeStep ==
  ASSUME SensorTypeOK, ControlInv, [SensorNext]_sensorVars
  PROVE  SensorTypeOK'
  <1> USE SensorAssumption, HalfAssumption, MessagesAssumption DEF SensorTypeOK
  <1>0. CASE UNCHANGED sensorVars
      BY <1>0 DEF sensorVars
  <1> SUFFICES ASSUME NEW s \in Sensor,
                      \/ Wake(s) \/ WakeStep(s) \/ Hop(s) \/ PowerLoss(s)
                      \/ \E reply \in Reply : Hear(s, reply)
               PROVE  SensorTypeOK'
      BY <1>0 DEF SensorNext
  <1>nvs. nvs \in NvsType
      BY DEF NvsType
  <1>rtc. rtc \in RtcType
      BY DEF RtcType
  <1>job. job \in JobType
      BY DEF JobType
  <1>1. CASE Wake(s)
      BY <1>1 DEF Wake, Goto, Phase
  <1>2. CASE NothingPending(s) \/ GiveUpPending(s) \/ ListenTimeout(s) \/ FreshMissed(s)
      BY <1>2 DEF NothingPending, GiveUpPending, ListenTimeout, FreshMissed, Goto, Phase
  <1>3. CASE SendPending(s)
      BY <1>3 DEF SendPending, NewJob, Goto, Phase
  <1>4. CASE Sample(s)
    <2>1. CanRead(s)
        BY <1>4 DEF ControlInv, ControlAt, BeforeSample, Sample, SampleWith, Goto
    <2>2. PICK boot \in 0 .. HALF - 1, stored \in 0 .. HALF - 1 :
            SampleWith(s, boot, stored)
        BY <1>4 DEF Sample
    <2> DEFINE r == [n |-> taken[s] + 1, seq |-> FreshSeq(s, boot)]
    <2>3. FreshSeq(s, boot) \in Word
        BY <2>1, FreshSeqValue
    <2>4. taken[s] + 1 \in 1 .. MaxReadings
        BY <2>1 DEF CanRead
    <2>5. r \in Reading
        BY <2>3, <2>4 DEF Reading
    <2>6. nvs' \in NvsType
        BY <2>2, <1>nvs, NvsBoot DEF SampleWith
    <2>7. job' \in JobType
        BY <2>2, <2>5 DEF SampleWith, NewJob, JobType
    <2>8. rtc' \in RtcType
        BY <2>2, <2>3, <1>rtc, RtcUpdate DEF SampleWith
    <2>9. topSeq' \in [Sensor -> Word \cup {-1}]
        BY <2>2, <2>3 DEF SampleWith, Higher
    <2>10. bootErr' \in ErrType
      <3>1. CASE rtc[s].seq # 0
          BY <3>1, <2>2 DEF SampleWith, ErrType
      <3>2. CASE rtc[s].seq = 0 /\ stored = nvs[s].boot
        <4>1. bootErr' = [bootErr EXCEPT ![s] = [now |-> TRUE, before |-> bootErr[s].now]]
            BY <3>2, <2>2 DEF SampleWith
        <4> QED BY <4>1 DEF ErrType
      <3>3. CASE rtc[s].seq = 0 /\ stored # nvs[s].boot
        <4>1. bootErr' = [bootErr EXCEPT ![s] = [now |-> FALSE, before |-> bootErr[s].now]]
            BY <3>3, <2>2 DEF SampleWith
        <4> QED BY <4>1 DEF ErrType
      <3> QED BY <3>1, <3>2, <3>3
    <2>11. taken' \in [Sensor -> 0 .. MaxReadings]
        BY <2>2, <2>4 DEF SampleWith
    <2>12. pc' \in [Sensor -> Phase]
        BY <2>2 DEF SampleWith, Goto, Phase
    <2> QED
        BY <2>2, <2>6, <2>7, <2>8, <2>9, <2>10, <2>11, <2>12
        DEF SampleWith, NvsType, JobType, RtcType, ErrType
  <1>5. CASE Hop(s)
    <2>1. NextChannel(s) \in job[s].left
        BY <1>5, NextChannelIsLeft DEF Hop
    <2>2. job' = [job EXCEPT ![s].channel = NextChannel(s),
                             ![s].left = @ \ {NextChannel(s)}]
        BY <1>5 DEF Hop
    <2>3. NextChannel(s) \in Channel
        BY <2>1
    <2>4. job' \in JobType
        BY <2>1, <2>2, <1>job, JobUpdate
    <2> QED BY <1>5, <2>4 DEF JobType, Hop, Goto, Phase
  <1>6. ASSUME NEW reply \in Reply, Hear(s, reply) PROVE SensorTypeOK'
    <2>1. Torn \in Reply
        BY ZeroWord DEF Torn, Reply
    <2> QED BY <1>6, <2>1 DEF Hear
  <1>7. CASE Answered(s)
    <2>1. ParseDownlink(mailbox[s], job[s].reading.seq) \in Order \cup {NoOrder}
        BY <1>7 DEF Answered, ParseDownlink, Reply
    <2>2. order' \in [Sensor -> Order \cup {NoOrder}]
        BY <1>7, <2>1 DEF Answered
    <2>3. job' \in JobType
        BY <1>7, <1>job, JobUpdate DEF Answered
    <2>4. rtc' \in [Sensor -> [seq : Word, channel : 0 .. CHANNEL_MAX]]
        BY <1>7 DEF Answered
    <2> QED BY <1>7, <2>2, <2>3, <2>4 DEF JobType, Answered, Goto, Phase
  <1>8. CASE RetryMissed(s)
    <2>1. nvs[s].retry + 1 \in 0 .. STORAGE_MAX_RETRIES
        BY <1>8 DEF RetryMissed, ControlInv, ControlAt, Goto
    <2>2. nvs' \in NvsType
        BY <1>8, <2>1, <1>nvs, NvsRetry DEF RetryMissed, NvsPut
    <2> QED BY <1>8, <2>2 DEF NvsType, RetryMissed, Goto, Phase
  <1>9. CASE SaveReading(s)
    <2>0. job[s].reading \in Reading \cup {NoReading}
        OBVIOUS
    <2>1. nvs' = nvs \/ nvs' = [nvs EXCEPT ![s].reading = job[s].reading]
        BY <1>9 DEF SaveReading
    <2>2. nvs' \in NvsType
      <3>1. [nvs EXCEPT ![s].reading = job[s].reading] \in NvsType
          BY <2>0, <1>nvs, NvsReading
      <3> QED BY ONLY <2>1, <1>nvs, <3>1
    <2> QED BY <1>9, <2>2 DEF NvsType, SaveReading, Goto, Phase
  <1>10. CASE SaveFlag(s) \/ SaveRetry(s) \/ ClearFlag(s) \/ ClearRetry(s)
    <2>1. \/ nvs' = nvs
          \/ nvs' = [nvs EXCEPT ![s].pending = TRUE]
          \/ nvs' = [nvs EXCEPT ![s].pending = FALSE]
          \/ nvs' = [nvs EXCEPT ![s].retry = 0]
        BY <1>10 DEF SaveFlag, SaveRetry, ClearFlag, ClearRetry, NvsPut
    <2>2. 0 \in 0 .. STORAGE_MAX_RETRIES
        BY SensorAssumption
    <2>3. nvs' \in NvsType
      <3>1. CASE nvs' = nvs
          BY <3>1, <1>nvs
      <3>2. CASE \/ nvs' = [nvs EXCEPT ![s].pending = TRUE]
                 \/ nvs' = [nvs EXCEPT ![s].pending = FALSE]
        <4>1. /\ [nvs EXCEPT ![s].pending = TRUE] \in NvsType
              /\ [nvs EXCEPT ![s].pending = FALSE] \in NvsType
            BY <1>nvs, NvsPending
        <4> QED BY ONLY <3>2, <4>1
      <3>3. CASE nvs' = [nvs EXCEPT ![s].retry = 0]
          BY <3>3, <2>2, <1>nvs, NvsRetry
      <3> QED BY <2>1, <3>1, <3>2, <3>3
    <2> QED BY <1>10, <2>3 DEF NvsType, SaveFlag, SaveRetry, ClearFlag, ClearRetry,
                               AfterStorage, Goto, Phase
  <1>11. CASE Sleep(s)
      BY <1>11 DEF Sleep, PowerDown, NoJob, Phase
  <1>reset. Reset(s) => (/\ pc' \in [Sensor -> Phase]
                         /\ radio' \in [Sensor -> BOOLEAN]
                         /\ rtc' \in [Sensor -> [seq : Word, channel : 0 .. CHANNEL_MAX]]
                         /\ job' \in JobType
                         /\ mailbox' \in [Sensor -> Reply \cup {NoReply}]
                         /\ order' \in [Sensor -> Order \cup {NoOrder}])
      BY ZeroWord DEF Reset, PowerDown, NoJob, JobType, Phase
  <1>12. CASE Restart(s)
    <2>1. order[s] \in Order
        BY <1>12 DEF Restart, CommandOf
    <2>2. landed' \in [Sensor -> [Order -> Nat]]
        BY <1>12, <2>1 DEF Restart
    <2> QED BY <1>12, <1>reset, <2>2 DEF Restart, JobType
  <1>13. CASE PowerLoss(s)
      BY <1>13, <1>reset DEF PowerLoss, JobType
  <1> QED
      BY <1>1, <1>2, <1>3, <1>4, <1>5, <1>6, <1>7, <1>8, <1>9, <1>10, <1>11, <1>12, <1>13
      DEF WakeStep

-----------------------------------------------------------------------------
(* Steps that touch no counter, and steps that only lose RTC memory.       *)
Quiet(s) ==
    \/ Wake(s) \/ NothingPending(s) \/ GiveUpPending(s) \/ SendPending(s)
    \/ Hop(s) \/ ListenTimeout(s) \/ Answered(s) \/ RetryMissed(s) \/ FreshMissed(s)
    \/ SaveReading(s) \/ SaveFlag(s) \/ SaveRetry(s) \/ ClearFlag(s) \/ ClearRetry(s)
    \/ Sleep(s)
    \/ \E reply \in Reply : Hear(s, reply)

LEMMA StepKinds ==
  ASSUME [SensorNext]_sensorVars
  PROVE  \/ UNCHANGED sensorVars
         \/ \E s \in Sensor : Quiet(s) \/ Sample(s) \/ Restart(s) \/ PowerLoss(s)
  BY DEF SensorNext, WakeStep, Quiet

LEMMA BootKept ==
  ASSUME nvs \in NvsType, NEW s \in Sensor, NEW t \in Sensor, NEW v
  PROVE  /\ [nvs EXCEPT ![s].reading = v][t].boot = nvs[t].boot
         /\ [nvs EXCEPT ![s].pending = v][t].boot = nvs[t].boot
         /\ [nvs EXCEPT ![s].retry = v][t].boot = nvs[t].boot
  BY DEF NvsType

LEMMA QuietKeeps ==
  ASSUME SensorTypeOK, NEW s \in Sensor, Quiet(s), NEW t \in Sensor
  PROVE  /\ rtc'[t].seq = rtc[t].seq
         /\ nvs'[t].boot = nvs[t].boot
         /\ UNCHANGED <<taken, topSeq, bootErr>>
  <1>nvs. nvs \in NvsType
      BY DEF SensorTypeOK, NvsType
  <1>1. CASE Answered(s)
      BY <1>1 DEF Answered, SensorTypeOK
  <1>2. CASE RetryMissed(s) \/ SaveReading(s)
             \/ SaveFlag(s) \/ SaveRetry(s) \/ ClearFlag(s) \/ ClearRetry(s)
    <2>1. \/ nvs' = nvs
          \/ nvs' = [nvs EXCEPT ![s].retry = nvs[s].retry + 1]
          \/ nvs' = [nvs EXCEPT ![s].retry = 0]
          \/ nvs' = [nvs EXCEPT ![s].reading = job[s].reading]
          \/ nvs' = [nvs EXCEPT ![s].pending = TRUE]
          \/ nvs' = [nvs EXCEPT ![s].pending = FALSE]
        BY <1>2 DEF RetryMissed, SaveReading, SaveFlag, SaveRetry, ClearFlag, ClearRetry, NvsPut
    <2>2. /\ [nvs EXCEPT ![s].retry = nvs[s].retry + 1][t].boot = nvs[t].boot
          /\ [nvs EXCEPT ![s].retry = 0][t].boot = nvs[t].boot
          /\ [nvs EXCEPT ![s].reading = job[s].reading][t].boot = nvs[t].boot
          /\ [nvs EXCEPT ![s].pending = TRUE][t].boot = nvs[t].boot
          /\ [nvs EXCEPT ![s].pending = FALSE][t].boot = nvs[t].boot
        BY <1>nvs, BootKept
    <2>3. nvs'[t].boot = nvs[t].boot
        BY ONLY <2>1, <2>2
    <2> QED
        BY <1>2, <2>3
        DEF RetryMissed, SaveReading, SaveFlag, SaveRetry, ClearFlag, ClearRetry
  <1>5. CASE UNCHANGED <<rtc, nvs, taken, topSeq, bootErr>>
      BY <1>5
  <1> QED
      BY <1>1, <1>2, <1>5
      DEF Quiet, Wake, NothingPending, GiveUpPending, SendPending, Hop, ListenTimeout,
          FreshMissed, Sleep, Hear

LEMMA ResetKeeps ==
  ASSUME SensorTypeOK, NEW s \in Sensor, Restart(s) \/ PowerLoss(s), NEW t \in Sensor
  PROVE  /\ rtc'[t].seq = IF t = s THEN 0 ELSE rtc[t].seq
         /\ UNCHANGED <<nvs, taken, topSeq, bootErr>>
  BY DEF Restart, PowerLoss, Reset, SensorTypeOK

(* What a fresh reading does to its box and to the others.                 *)
LEMMA SampleDoes ==
  ASSUME SensorTypeOK, NEW s \in Sensor, CanRead(s),
         NEW boot \in 0 .. HALF - 1, NEW stored \in 0 .. HALF - 1,
         SampleWith(s, boot, stored)
  PROVE  /\ rtc'[s].seq = FreshSeq(s, boot)
         /\ nvs'[s].boot = stored
         /\ nvs'[s].pending = nvs[s].pending /\ nvs'[s].reading = nvs[s].reading
         /\ taken'[s] = taken[s] + 1
         /\ topSeq'[s] = Higher(topSeq[s], FreshSeq(s, boot))
         /\ job'[s].fresh = TRUE /\ job'[s].reading.n = taken[s] + 1
         /\ job'[s].reading = [n |-> taken[s] + 1, seq |-> FreshSeq(s, boot)]
         /\ pc'[s] \in {"try", "save_reading"}
  <1>2. /\ rtc'[s].seq = FreshSeq(s, boot)
        /\ taken'[s] = taken[s] + 1
        /\ topSeq'[s] = Higher(topSeq[s], FreshSeq(s, boot))
        /\ pc'[s] \in {"try", "save_reading"}
      BY DEF SampleWith, SensorTypeOK, Goto
  <1>3. /\ nvs'[s].boot = stored
        /\ nvs'[s].pending = nvs[s].pending /\ nvs'[s].reading = nvs[s].reading
      BY DEF SampleWith, SensorTypeOK
  <1>4. job'[s] = NewJob([n |-> taken[s] + 1, seq |-> FreshSeq(s, boot)], TRUE)
      BY DEF SampleWith, SensorTypeOK
  <1>5. /\ job'[s].fresh = TRUE /\ job'[s].reading.n = taken[s] + 1
        /\ job'[s].reading = [n |-> taken[s] + 1, seq |-> FreshSeq(s, boot)]
      BY <1>4 DEF NewJob
  <1> QED BY <1>2, <1>3, <1>5

LEMMA SampleOthers ==
  ASSUME SensorTypeOK, NEW s \in Sensor, NEW t \in Sensor, t # s,
         NEW boot, NEW stored, SampleWith(s, boot, stored)
  PROVE  /\ rtc'[t] = rtc[t] /\ nvs'[t] = nvs[t] /\ taken'[t] = taken[t]
         /\ topSeq'[t] = topSeq[t] /\ bootErr'[t] = bootErr[t]
         /\ job'[t] = job[t] /\ pc'[t] = pc[t]
  <1>1. /\ rtc'[t] = rtc[t] /\ nvs'[t] = nvs[t] /\ taken'[t] = taken[t]
        /\ topSeq'[t] = topSeq[t] /\ job'[t] = job[t] /\ pc'[t] = pc[t]
      BY DEF SampleWith, SensorTypeOK, Goto
  <1>2. bootErr'[t] = bootErr[t]
      BY DEF SampleWith, SensorTypeOK
  <1> QED BY <1>1, <1>2

(* What a fresh reading does to the noted errors.                          *)
LEMMA SampleErrors ==
  ASSUME SensorTypeOK, NEW s \in Sensor,
         NEW boot \in 0 .. HALF - 1, NEW stored \in 0 .. HALF - 1,
         SampleWith(s, boot, stored), rtc[s].seq = 0
  PROVE  /\ stored = nvs[s].boot => bootErr'[s].now
         /\ stored # nvs[s].boot => /\ ~bootErr'[s].now
                                    /\ bootErr'[s].before <=> bootErr[s].now
  <1>1. CASE stored = nvs[s].boot
    <2>1. bootErr' = [bootErr EXCEPT ![s] = [now |-> TRUE, before |-> bootErr[s].now]]
        BY <1>1 DEF SampleWith
    <2>2. bootErr'[s] = [now |-> TRUE, before |-> bootErr[s].now]
        BY <2>1 DEF SensorTypeOK
    <2> QED BY <1>1, <2>2
  <1>2. CASE stored # nvs[s].boot
    <2>1. bootErr' = [bootErr EXCEPT ![s] = [now |-> FALSE, before |-> bootErr[s].now]]
        BY <1>2 DEF SampleWith
    <2>2. bootErr'[s] = [now |-> FALSE, before |-> bootErr[s].now]
        BY <2>1 DEF SensorTypeOK
    <2> QED BY <1>2, <2>2
  <1> QED BY <1>1, <1>2

LEMMA CounterStep ==
  ASSUME SensorTypeOK, ControlInv, CounterInv, [SensorNext]_sensorVars
  PROVE  CounterInv'
  <1>0. CASE UNCHANGED sensorVars
      BY <1>0 DEF sensorVars, CounterInv, CounterAt
  <1> SUFFICES ASSUME NEW s \in Sensor,
                      Quiet(s) \/ Sample(s) \/ Restart(s) \/ PowerLoss(s),
                      NEW t \in Sensor
               PROVE  CounterAt(t)'
      BY <1>0, StepKinds DEF CounterInv
  <1>1. CounterAt(t)
      BY DEF CounterInv
  <1>2. CASE Quiet(s)
      BY <1>1, <1>2, QuietKeeps DEF CounterAt
  <1>3. CASE Restart(s) \/ PowerLoss(s)
      BY <1>1, <1>3, ResetKeeps DEF CounterAt
  <1>4. CASE Sample(s)
    <2>1. CanRead(s)
        BY <1>4 DEF ControlInv, ControlAt, BeforeSample, Sample, SampleWith, Goto
    <2>2. PICK boot \in 0 .. HALF - 1, stored \in 0 .. HALF - 1 :
            SampleWith(s, boot, stored)
        BY <1>4 DEF Sample
    <2>3. CASE t # s
      <3>1. /\ rtc'[t] = rtc[t] /\ nvs'[t] = nvs[t]
            /\ topSeq'[t] = topSeq[t] /\ bootErr'[t] = bootErr[t]
          BY <2>2, <2>3, SampleOthers
      <3> QED BY ONLY <1>1, <3>1 DEF CounterAt
    <2>4. CASE t = s
      <3> DEFINE seq == FreshSeq(s, boot)
                 B == nvs[s].boot
      <3>1. /\ rtc'[s].seq = seq
            /\ nvs'[s].boot = stored
            /\ topSeq'[s] = Higher(topSeq[s], seq)
          BY <2>1, <2>2, SampleDoes
      <3>2. /\ B \in Nat /\ topSeq[s] \in Int /\ rtc[s].seq \in Nat
            /\ bootErr[s].now \in BOOLEAN /\ bootErr[s].before \in BOOLEAN
          BY HalfAssumption DEF SensorTypeOK, Word
      <3>3. CASE rtc[s].seq # 0
        <4>1. seq = rtc[s].seq + 1 /\ stored = B /\ bootErr' = bootErr
            BY <3>3, <2>1, <2>2, FreshSeqValue DEF SampleWith
        <4>2. MessageLeft(rtc[s].seq)
            BY <2>1, <3>3 DEF CanRead
        <4>3. /\ rtc[s].seq < (B + 2) * HALF
              /\ ~bootErr[s].now => rtc[s].seq < (B + 1) * HALF
            BY <1>1, <2>4, <3>2, <3>3, HalfAssumption DEF CounterAt
        <4>4. /\ rtc[s].seq + 1 < (B + 2) * HALF
              /\ ~bootErr[s].now => rtc[s].seq + 1 < (B + 1) * HALF
            BY <4>2, <4>3, <3>2, InBlock
        <4> HIDE DEF seq, B
        <4> QED
            BY <4>1, <4>4, <3>1, <3>2, <3>3, <1>1, <2>4 DEF CounterAt, Higher, B
      <3>4. CASE rtc[s].seq = 0 /\ stored # B
        <4>1. seq = (B + 1) * HALF + 1 /\ stored = B + 1
            BY <3>4, <2>1, <2>2, FreshSeqValue DEF SampleWith, BootStart
        <4>2. ~bootErr'[s].now /\ (bootErr'[s].before <=> bootErr[s].now)
            BY <3>4, <2>2, SampleErrors
        <4>3. /\ seq < (stored + 1) * HALF
              /\ seq < (stored + 2) * HALF
              /\ topSeq[s] < (stored + 1) * HALF
              /\ topSeq[s] < (stored + 2) * HALF
              /\ ~bootErr[s].now => topSeq[s] < seq
            BY <4>1, <3>2, <1>1, <2>4, HalfAssumption DEF CounterAt
        <4> HIDE DEF seq, B
        <4> QED
            BY <4>1, <4>2, <4>3, <3>1, <3>2, <2>4, HalfAssumption DEF CounterAt, Higher
      <3>5. CASE rtc[s].seq = 0 /\ stored = B
        <4>1. seq = 1 \/ seq = (B + 1) * HALF + 1
          <5>1. seq = boot * HALF + 1
              BY <3>5, <2>1, FreshSeqValue
          <5>2. boot = 0 \/ boot = B + 1
              BY <3>5, <2>2, <3>2 DEF SampleWith, BootStart
          <5> QED BY <5>1, <5>2, HalfAssumption
        <4>2. bootErr'[s].now
            BY <3>5, <2>2, SampleErrors
        <4>3. seq < (B + 2) * HALF /\ topSeq[s] < (B + 2) * HALF
            BY <4>1, <3>2, <1>1, <2>4, HalfAssumption DEF CounterAt
        <4> HIDE DEF seq, B
        <4> QED
            BY <4>1, <4>2, <4>3, <3>1, <3>2, <3>5, <2>4, HalfAssumption DEF CounterAt, Higher
      <3> QED BY <3>3, <3>4, <3>5
    <2> QED BY <2>3, <2>4
  <1> QED BY <1>2, <1>3, <1>4

-----------------------------------------------------------------------------
(* A step of one box leaves the others alone.                              *)
LEMMA OthersKept ==
  ASSUME SensorTypeOK, NEW s \in Sensor, NEW t \in Sensor, t # s,
         Quiet(s) \/ Sample(s) \/ Restart(s) \/ PowerLoss(s)
  PROVE  /\ pc'[t] = pc[t] /\ job'[t] = job[t] /\ nvs'[t] = nvs[t]
         /\ rtc'[t] = rtc[t] /\ taken'[t] = taken[t]
  <1>1. CASE Sample(s)
      BY <1>1, SampleOthers DEF Sample
  <1>2. CASE Restart(s) \/ PowerLoss(s)
      BY <1>2 DEF Restart, PowerLoss, Reset, PowerDown, SensorTypeOK
  <1>3. CASE \/ Wake(s) \/ NothingPending(s) \/ GiveUpPending(s) \/ SendPending(s)
             \/ Hop(s) \/ ListenTimeout(s) \/ Answered(s) \/ FreshMissed(s)
             \/ Sleep(s) \/ \E reply \in Reply : Hear(s, reply)
      BY <1>3
      DEF Wake, NothingPending, GiveUpPending, SendPending, Hop, ListenTimeout, Answered,
          FreshMissed, Sleep, Hear, PowerDown, Goto, SensorTypeOK
  <1>4. CASE RetryMissed(s) \/ SaveReading(s)
             \/ SaveFlag(s) \/ SaveRetry(s) \/ ClearFlag(s) \/ ClearRetry(s)
      BY <1>4
      DEF RetryMissed, SaveReading, SaveFlag, SaveRetry, ClearFlag, ClearRetry, NvsPut,
          AfterStorage, Goto, SensorTypeOK
  <1> QED BY <1>1, <1>2, <1>3, <1>4 DEF Quiet

LEMMA ControlStep ==
  ASSUME SensorTypeOK, ControlInv, [SensorNext]_sensorVars
  PROVE  ControlInv'
  <1> USE DEF BeforeSample
  <1>0. CASE UNCHANGED sensorVars
      BY <1>0 DEF sensorVars, ControlInv, ControlAt, CanRead
  <1> SUFFICES ASSUME NEW s \in Sensor,
                      Quiet(s) \/ Sample(s) \/ Restart(s) \/ PowerLoss(s),
                      NEW t \in Sensor
               PROVE  ControlAt(t)'
      BY <1>0, StepKinds DEF ControlInv
  <1>1. ControlAt(t)
      BY DEF ControlInv
  <1>2. CASE t # s
      BY <1>1, <1>2, OthersKept DEF ControlAt, CanRead
  <1>3. CASE t = s /\ (Restart(s) \/ PowerLoss(s))
      BY <1>3 DEF Restart, PowerLoss, Reset, PowerDown, SensorTypeOK, ControlAt
  <1>4. CASE t = s /\ Sample(s)
    <2>1. CanRead(s)
        BY <1>4, <1>1 DEF ControlAt, Sample, SampleWith, Goto
    <2>2. pc'[s] \in {"try", "save_reading"} /\ job'[s].fresh = TRUE
        BY <1>4, <2>1, SampleDoes DEF Sample
    <2> QED BY <1>4, <2>2 DEF ControlAt
  <1>5. CASE t = s /\ Quiet(s)
    <2>1. CanRead(s)' <=> CanRead(s)
        BY <1>5, QuietKeeps DEF CanRead
    <2>2. CASE Wake(s)
        BY <1>1, <1>5, <2>1, <2>2 DEF Wake, Goto, ControlAt, SensorTypeOK
    <2>3. CASE NothingPending(s)
        BY <1>1, <1>5, <2>1, <2>3 DEF NothingPending, Goto, ControlAt, SensorTypeOK
    <2>4. CASE GiveUpPending(s)
        BY <1>1, <1>5, <2>1, <2>4 DEF GiveUpPending, Goto, ControlAt, SensorTypeOK
    <2>5. CASE SendPending(s)
        BY <1>1, <1>5, <2>1, <2>5 DEF SendPending, NewJob, Goto, ControlAt, SensorTypeOK
    <2>6. CASE Hop(s)
        BY <1>1, <1>5, <2>1, <2>6 DEF Hop, Goto, ControlAt, SensorTypeOK
    <2>7. CASE ListenTimeout(s)
        BY <1>1, <1>5, <2>1, <2>7 DEF ListenTimeout, Goto, ControlAt, SensorTypeOK
    <2>8. CASE Answered(s)
        BY <1>1, <1>5, <2>1, <2>8 DEF Answered, Goto, ControlAt, SensorTypeOK
    <2>9. CASE RetryMissed(s)
        BY <1>1, <1>5, <2>1, <2>9 DEF RetryMissed, Goto, ControlAt, SensorTypeOK
    <2>10. CASE FreshMissed(s)
        BY <1>5, <2>10 DEF FreshMissed, Goto, ControlAt, SensorTypeOK
    <2>11. CASE SaveReading(s) \/ SaveFlag(s) \/ SaveRetry(s)
        BY <1>5, <2>11 DEF SaveReading, SaveFlag, SaveRetry, Goto, ControlAt, SensorTypeOK
    <2>12. CASE ClearFlag(s)
        BY <1>1, <1>5, <2>1, <2>12 DEF ClearFlag, Goto, ControlAt, SensorTypeOK
    <2>13. CASE ClearRetry(s)
        BY <1>1, <1>5, <2>1, <2>13 DEF ClearRetry, AfterStorage, Goto, ControlAt, SensorTypeOK
    <2>14. CASE Sleep(s)
        BY <1>5, <2>14 DEF Sleep, PowerDown, ControlAt, SensorTypeOK
    <2>15. CASE \E reply \in Reply : Hear(s, reply)
        BY <1>1, <1>5, <2>1, <2>15 DEF Hear, ControlAt
    <2> QED
        BY <1>5, <2>2, <2>3, <2>4, <2>5, <2>6, <2>7, <2>8, <2>9, <2>10, <2>11, <2>12,
           <2>13, <2>14, <2>15
        DEF Quiet
  <1> QED BY <1>2, <1>3, <1>4, <1>5

(* A reading is never the empty slot.                                      *)
LEMMA ReadingIsSomething == NoReading \notin Reading
  BY MessagesAssumption

LEMMA ReadingStep ==
  ASSUME SensorTypeOK, ControlInv, ReadingInv, [SensorNext]_sensorVars
  PROVE  ReadingInv'
  <1> USE DEF TakenBefore
  <1>0. CASE UNCHANGED sensorVars
      BY <1>0 DEF sensorVars, ReadingInv, ReadingAt
  <1> SUFFICES ASSUME NEW s \in Sensor,
                      Quiet(s) \/ Sample(s) \/ Restart(s) \/ PowerLoss(s),
                      NEW t \in Sensor
               PROVE  ReadingAt(t)'
      BY <1>0, StepKinds DEF ReadingInv
  <1>1. ReadingAt(t)
      BY DEF ReadingInv
  <1>2. CASE t # s
      BY <1>1, <1>2, OthersKept DEF ReadingAt
  <1>3. CASE t = s /\ (Restart(s) \/ PowerLoss(s))
      BY <1>1, <1>3 DEF Restart, PowerLoss, Reset, PowerDown, NoJob, SensorTypeOK, ReadingAt
  <1>4. CASE t = s /\ Sample(s)
    <2>1. CanRead(s)
        BY <1>4 DEF ControlInv, ControlAt, BeforeSample, Sample, SampleWith, Goto
    <2>2. PICK boot \in 0 .. HALF - 1, stored \in 0 .. HALF - 1 :
            SampleWith(s, boot, stored)
        BY <1>4 DEF Sample
    <2>3. /\ nvs'[s].pending = nvs[s].pending /\ nvs'[s].reading = nvs[s].reading
          /\ taken'[s] = taken[s] + 1
          /\ job'[s].reading = [n |-> taken[s] + 1, seq |-> FreshSeq(s, boot)]
          /\ job'[s].fresh = TRUE
          /\ pc'[s] \in {"try", "save_reading"}
        BY <2>1, <2>2, SampleDoes
    <2>4. taken[s] \in Nat /\ taken[s] + 1 \in 1 .. MaxReadings
        BY <2>1, MessagesAssumption DEF SensorTypeOK, CanRead
    <2>5. job'[s].reading \in Reading
        BY <2>1, <2>3, <2>4, FreshSeqValue DEF Reading
    <2>6. job'[s].reading # NoReading /\ job'[s].reading.n = taken[s] + 1
        BY <2>3, <2>5, ReadingIsSomething
    <2>7. nvs[s].pending => nvs[s].reading # NoReading /\ nvs[s].reading.n <= taken[s] + 1
      <3>1. nvs[s].reading \in Reading \cup {NoReading}
          BY DEF SensorTypeOK
      <3>2. nvs[s].reading \in Reading => nvs[s].reading.n \in Int
          BY DEF Reading
      <3> QED BY <1>1, <1>4, <2>4, <3>1, <3>2 DEF ReadingAt
    <2> QED BY <1>4, <2>3, <2>4, <2>6, <2>7 DEF ReadingAt
  <1>5. CASE t = s /\ Quiet(s)
    <2>1. taken'[s] = taken[s]
        BY <1>5, QuietKeeps
    <2>2. CASE Wake(s)
        BY <1>1, <1>5, <2>1, <2>2 DEF Wake, Goto, ReadingAt, SensorTypeOK
    <2>3. CASE NothingPending(s) \/ GiveUpPending(s) \/ ListenTimeout(s)
        BY <1>1, <1>5, <2>1, <2>3
        DEF NothingPending, GiveUpPending, ListenTimeout, Goto, ReadingAt, SensorTypeOK
    <2>4. CASE SendPending(s)
        BY <1>1, <1>5, <2>1, <2>4 DEF SendPending, NewJob, Goto, ReadingAt, SensorTypeOK
    <2>5. CASE Hop(s)
        BY <1>1, <1>5, <2>1, <2>5 DEF Hop, Goto, ReadingAt, SensorTypeOK
    <2>6. CASE Answered(s)
        BY <1>1, <1>5, <2>1, <2>6 DEF Answered, Goto, ReadingAt, SensorTypeOK
    <2>7. CASE RetryMissed(s)
      <3>1. /\ nvs'[s].reading = nvs[s].reading /\ nvs'[s].pending = nvs[s].pending
            /\ pc'[s] = "sample"
          BY <2>7 DEF RetryMissed, NvsPut, Goto, SensorTypeOK
      <3>2. job'[s] = job[s]
          BY <2>7 DEF RetryMissed
      <3> QED BY <1>1, <1>5, <2>1, <3>1, <3>2 DEF ReadingAt
    <2>8. CASE FreshMissed(s)
        BY <1>1, <1>5, <2>1, <2>8 DEF FreshMissed, Goto, ReadingAt, SensorTypeOK
    <2>9. CASE SaveReading(s)
      <3>1. TakenBefore(s, job[s].reading)
          BY <1>1, <1>5, <2>9 DEF SaveReading, Goto, ReadingAt
      <3>2. \/ pc'[s] = "save_flag" /\ nvs'[s].reading = job[s].reading
            \/ pc'[s] = "act" /\ nvs' = nvs
          BY <2>9 DEF SaveReading, Goto, SensorTypeOK
      <3>3. job'[s] = job[s]
          BY <2>9 DEF SaveReading
      <3> QED BY <1>1, <1>5, <2>1, <3>1, <3>2, <3>3 DEF ReadingAt
    <2>10. CASE SaveFlag(s)
      <3>1. nvs'[s].reading = nvs[s].reading /\ pc[s] = "save_flag" /\ pc'[s] = "save_retry"
          BY <2>10 DEF SaveFlag, NvsPut, Goto, SensorTypeOK
      <3>2. job'[s] = job[s]
          BY <2>10 DEF SaveFlag
      <3> QED BY <1>1, <1>5, <2>1, <3>1, <3>2 DEF ReadingAt
    <2>11. CASE SaveRetry(s) \/ ClearRetry(s)
      <3>1. /\ nvs'[s].reading = nvs[s].reading /\ nvs'[s].pending = nvs[s].pending
            /\ pc'[s] \in {"act", "sample"}
          BY <2>11 DEF SaveRetry, ClearRetry, AfterStorage, NvsPut, Goto, SensorTypeOK
      <3>2. job'[s] = job[s]
          BY <2>11 DEF SaveRetry, ClearRetry
      <3> QED BY <1>1, <1>5, <2>1, <3>1, <3>2 DEF ReadingAt
    <2>12. CASE ClearFlag(s)
      <3>1. /\ nvs'[s].reading = nvs[s].reading
            /\ nvs' = nvs \/ nvs'[s].pending = FALSE
            /\ pc'[s] = "clear_retry"
          BY <2>12 DEF ClearFlag, NvsPut, Goto, SensorTypeOK
      <3>2. job'[s] = job[s]
          BY <2>12 DEF ClearFlag
      <3> QED BY <1>1, <1>5, <2>1, <3>1, <3>2 DEF ReadingAt
    <2>13. CASE Sleep(s)
        BY <1>1, <1>5, <2>1, <2>13 DEF Sleep, PowerDown, NoJob, ReadingAt, SensorTypeOK
    <2>14. CASE \E reply \in Reply : Hear(s, reply)
        BY <1>1, <1>5, <2>1, <2>14 DEF Hear, ReadingAt
    <2> QED
        BY <1>5, <2>2, <2>3, <2>4, <2>5, <2>6, <2>7, <2>8, <2>9, <2>10, <2>11, <2>12,
           <2>13, <2>14
        DEF Quiet
  <1> QED BY <1>2, <1>3, <1>4, <1>5

-----------------------------------------------------------------------------
LEMMA SensorStepInv ==
  ASSUME SensorInv, [SensorNext]_sensorVars
  PROVE  SensorInv'
  <1>1. SensorTypeOK /\ ControlInv /\ ReadingInv /\ CounterInv
      BY DEF SensorInv
  <1>2. SensorTypeOK'
      BY <1>1, TypeStep
  <1>3. ControlInv'
      BY <1>1, ControlStep
  <1>4. ReadingInv'
      BY <1>1, ReadingStep
  <1>5. CounterInv'
      BY <1>1, CounterStep
  <1> QED BY <1>2, <1>3, <1>4, <1>5 DEF SensorInv

(* The invariant of the specification.                                     *)
LEMMA SensorAlwaysInv == SensorSpec => []SensorInv
  <1>1. SensorInv /\ [SensorNext]_sensorVars => SensorInv'
      BY SensorStepInv
  <1> QED BY <1>1, SensorInitInv, PTL DEF SensorSpec

(* Every variable of a box keeps to its type: in particular the retry      *)
(* count of storage.cpp never passes STORAGE_MAX_RETRIES, and no number of *)
(* seq_counter.cpp leaves its 32 bits while the documented life lasts.     *)
THEOREM SensorTypeCorrect == SensorSpec => []SensorTypeOK
  <1>1. SensorInv => SensorTypeOK
      BY DEF SensorInv
  <1> QED BY <1>1, SensorAlwaysInv, PTL

(* However power fails between the puts of storage_save_pending and        *)
(* storage_clear_pending, a pending flag has a reading of this box behind  *)
(* it.                                                                     *)
THEOREM SensorSlotReadable == SensorSpec => []SlotReadable
  <1>1. SensorInv => SlotReadable
      BY DEF SensorInv, ReadingInv, ReadingAt, TakenBefore, SlotReadable
  <1> QED BY <1>1, SensorAlwaysInv, PTL

(* A step that takes a reading raises the top number, unless flash failed  *)
(* at this boot or the one before.                                         *)
LEMMA TopRises ==
  ASSUME SensorTypeOK, ControlInv, CounterInv, [SensorNext]_sensorVars,
         NEW t \in Sensor, taken'[t] # taken[t]
  PROVE  topSeq'[t] > topSeq[t] \/ bootErr'[t].now \/ bootErr'[t].before
  <1>0. ~ UNCHANGED sensorVars
      BY DEF sensorVars
  <1>1. PICK s \in Sensor : Quiet(s) \/ Sample(s) \/ Restart(s) \/ PowerLoss(s)
      BY <1>0, StepKinds
  <1>2. t = s /\ Sample(s)
      BY <1>1, QuietKeeps, ResetKeeps, OthersKept
  <1>3. CanRead(s)
      BY <1>2 DEF ControlInv, ControlAt, BeforeSample, Sample, SampleWith, Goto
  <1>4. PICK boot \in 0 .. HALF - 1, stored \in 0 .. HALF - 1 :
          SampleWith(s, boot, stored)
      BY <1>2 DEF Sample
  <1> DEFINE seq == FreshSeq(s, boot)
             B == nvs[s].boot
  <1>5. topSeq'[s] = Higher(topSeq[s], seq)
      BY <1>3, <1>4, SampleDoes
  <1>6. /\ B \in Nat /\ topSeq[s] \in Int /\ rtc[s].seq \in Nat
        /\ CounterAt(s)
      BY HalfAssumption DEF SensorTypeOK, Word, CounterInv
  <1>7. CASE rtc[s].seq # 0
    <2>1. seq = rtc[s].seq + 1 /\ bootErr' = bootErr
        BY <1>7, <1>3, <1>4, FreshSeqValue DEF SampleWith
    <2> HIDE DEF seq
    <2> QED BY <2>1, <1>2, <1>5, <1>6, <1>7 DEF Higher, CounterAt
  <1>8. CASE rtc[s].seq = 0 /\ stored = B
      BY <1>8, <1>2, <1>4, SampleErrors
  <1>9. CASE rtc[s].seq = 0 /\ stored # B
    <2>1. seq = (B + 1) * HALF + 1
        BY <1>9, <1>3, <1>4, FreshSeqValue DEF SampleWith, BootStart
    <2>2. bootErr'[s].before <=> bootErr[s].now
        BY <1>9, <1>4, SampleErrors
    <2>3. bootErr[s].now \/ topSeq[s] < seq
        BY <2>1, <1>6, HalfAssumption DEF CounterAt
    <2>4. seq \in Nat
        BY <2>1, <1>6, HalfAssumption
    <2> HIDE DEF seq, B
    <2> QED BY <2>2, <2>3, <2>4, <1>2, <1>5, <1>6 DEF Higher
  <1> QED BY <1>7, <1>8, <1>9

(* Sequence numbers rise over power losses, restarts and wakes.            *)
THEOREM SensorSeqRises == SensorSpec => SeqRises
  <1>1. SensorInv /\ [SensorNext]_sensorVars =>
          [\A s \in Sensor : taken'[s] # taken[s] =>
             \/ topSeq'[s] > topSeq[s]
             \/ bootErr'[s].now \/ bootErr'[s].before]_sensorVars
      BY TopRises DEF SensorInv
  <1> QED BY <1>1, SensorAlwaysInv, PTL DEF SensorSpec, SeqRises

-----------------------------------------------------------------------------
(* With sound flash: how far an unanswered reading has got into it.        *)
SavedAt(s) ==
    /\ pc[s] \in {"clear_flag", "clear_retry"} /\ job[s].fresh => job[s].delivered
    /\ pc[s] \in {"save_flag", "save_retry"} => nvs[s].reading = job[s].reading
    /\ pc[s] = "save_retry" => nvs[s].pending
    /\ pc[s] = "act" /\ ~job[s].delivered
          => nvs[s].pending /\ nvs[s].reading = job[s].reading

SavedInv == \A s \in Sensor : SavedAt(s)

LEMMA SavedStep ==
  ASSUME ~NvsFaults, SensorInv, SavedInv, [SensorNext]_sensorVars
  PROVE  SavedInv'
  <1> SensorTypeOK
      BY DEF SensorInv
  <1>0. CASE UNCHANGED sensorVars
      BY <1>0 DEF sensorVars, SavedInv, SavedAt
  <1> SUFFICES ASSUME NEW s \in Sensor,
                      Quiet(s) \/ Sample(s) \/ Restart(s) \/ PowerLoss(s),
                      NEW t \in Sensor
               PROVE  SavedAt(t)'
      BY <1>0, StepKinds DEF SavedInv
  <1>1. SavedAt(t)
      BY DEF SavedInv
  <1>2. CASE t # s
      BY <1>1, <1>2, OthersKept DEF SavedAt
  <1>3. CASE t = s /\ (Restart(s) \/ PowerLoss(s) \/ Sleep(s))
      BY <1>3 DEF Restart, PowerLoss, Sleep, Reset, PowerDown, SensorTypeOK, SavedAt
  <1>4. CASE t = s /\ Sample(s)
      BY <1>4 DEF Sample, SampleWith, Goto, SensorTypeOK, SavedAt
  <1>5. CASE t = s /\ Quiet(s)
    <2>1. CASE Wake(s)
        BY <1>5, <2>1 DEF Wake, Goto, SavedAt, SensorTypeOK
    <2>2. CASE NothingPending(s) \/ ListenTimeout(s) \/ FreshMissed(s)
        BY <1>5, <2>2
        DEF NothingPending, ListenTimeout, FreshMissed, Goto, SavedAt, SensorTypeOK
    <2>3. CASE GiveUpPending(s)
      <3>1. job[s] = NoJob
          BY <1>5, <2>3 DEF SensorInv, ControlInv, ControlAt, GiveUpPending, Goto
      <3> QED BY <1>5, <2>3, <3>1 DEF GiveUpPending, NoJob, Goto, SavedAt, SensorTypeOK
    <2>4. CASE SendPending(s) \/ Hop(s)
        BY <1>5, <2>4 DEF SendPending, Hop, Goto, SavedAt, SensorTypeOK
    <2>5. CASE Answered(s)
      <3>1. pc'[s] = "clear_flag" /\ job'[s].delivered = TRUE
          BY <2>5 DEF Answered, Goto, SensorTypeOK
      <3> QED BY <1>5, <3>1 DEF SavedAt
    <2>6. CASE RetryMissed(s)
        BY <1>5, <2>6 DEF RetryMissed, Goto, SavedAt, SensorTypeOK
    <2>7. CASE SaveReading(s)
      <3>1. pc'[s] = "save_flag" /\ nvs'[s].reading = job[s].reading /\ job' = job
          BY <2>7 DEF SaveReading, Goto, SensorTypeOK
      <3> QED BY <1>5, <3>1 DEF SavedAt
    <2>8. CASE SaveFlag(s)
      <3>1. /\ pc[s] = "save_flag" /\ pc'[s] = "save_retry" /\ job' = job
            /\ nvs'[s].pending = TRUE /\ nvs'[s].reading = nvs[s].reading
          BY <2>8 DEF SaveFlag, NvsPut, Goto, SensorTypeOK
      <3> QED BY <1>1, <1>5, <3>1 DEF SavedAt
    <2>9. CASE SaveRetry(s)
      <3>1. /\ pc[s] = "save_retry" /\ pc'[s] = "act" /\ job' = job
            /\ nvs'[s].pending = nvs[s].pending /\ nvs'[s].reading = nvs[s].reading
          BY <2>9 DEF SaveRetry, NvsPut, Goto, SensorTypeOK
      <3> QED BY <1>1, <1>5, <3>1 DEF SavedAt
    <2>10. CASE ClearFlag(s)
      <3>1. pc[s] = "clear_flag" /\ pc'[s] = "clear_retry" /\ job' = job
          BY <2>10 DEF ClearFlag, Goto, SensorTypeOK
      <3> QED BY <1>1, <1>5, <3>1 DEF SavedAt
    <2>11. CASE ClearRetry(s)
      <3>1. /\ pc[s] = "clear_retry" /\ job' = job
            /\ pc'[s] = IF job[s].fresh THEN "act" ELSE "sample"
          BY <2>11 DEF ClearRetry, AfterStorage, Goto, SensorTypeOK
      <3> QED BY <1>1, <1>5, <3>1 DEF SavedAt
    <2>12. CASE \E reply \in Reply : Hear(s, reply)
        BY <1>1, <1>5, <2>12 DEF Hear, SavedAt
    <2> QED
        BY <1>3, <1>5, <2>1, <2>2, <2>3, <2>4, <2>5, <2>6, <2>7, <2>8, <2>9, <2>10, <2>11, <2>12
        DEF Quiet
  <1> QED BY <1>2, <1>3, <1>4, <1>5

(* A box with sound flash that goes to sleep without an answer has its     *)
(* reading in the slot, whatever was in it before and whatever it heard.   *)
THEOREM SensorUnansweredIsSaved ==
  ASSUME ~NvsFaults PROVE SensorSpec => UnansweredIsSaved
  <1>1. SensorInit => SavedInv
      BY DEF SensorInit, SavedInv, SavedAt
  <1>2. SensorInv /\ SavedInv /\ [SensorNext]_sensorVars => SavedInv'
      BY SavedStep
  <1>3. SensorInv /\ SavedInv /\ [SensorNext]_sensorVars =>
          [\A s \in Sensor :
             pc[s] = "act" /\ ~job[s].delivered /\ Sleep(s)
               => nvs'[s].pending /\ nvs'[s].reading = job[s].reading]_sensorVars
      BY DEF Sleep, SavedInv, SavedAt
  <1> QED BY <1>1, <1>2, <1>3, SensorAlwaysInv, PTL DEF SensorSpec, UnansweredIsSaved

-----------------------------------------------------------------------------
(* With sound flash: how what is sent relates to what is saved.  The fresh *)
(* reading is newer than the saved one, the retried one is the saved one,  *)
(* and a slot is cleared with an answer or after the last retry.           *)
KeptAt(s) ==
    /\ nvs[s].pending /\ job[s].fresh
          /\ pc[s] \in {"try", "listen", "clear_flag", "save_reading"}
          => nvs[s].reading.n < job[s].reading.n
    /\ ~job[s].fresh /\ pc[s] \in {"try", "listen"} => job[s].reading = nvs[s].reading
    /\ ~job[s].fresh /\ pc[s] = "clear_flag" /\ job[s].delivered
          => job[s].reading = nvs[s].reading
    /\ pc[s] = "clear_flag" => job[s].delivered \/ nvs[s].retry >= STORAGE_MAX_RETRIES

KeptInv == \A s \in Sensor : KeptAt(s)

LEMMA KeptStep ==
  ASSUME ~NvsFaults, SensorInv, KeptInv, [SensorNext]_sensorVars
  PROVE  KeptInv'
  <1> SensorTypeOK
      BY DEF SensorInv
  <1>0. CASE UNCHANGED sensorVars
      BY <1>0 DEF sensorVars, KeptInv, KeptAt
  <1> SUFFICES ASSUME NEW s \in Sensor,
                      Quiet(s) \/ Sample(s) \/ Restart(s) \/ PowerLoss(s),
                      NEW t \in Sensor
               PROVE  KeptAt(t)'
      BY <1>0, StepKinds DEF KeptInv
  <1>1. KeptAt(t)
      BY DEF KeptInv
  <1>2. CASE t # s
      BY <1>1, <1>2, OthersKept DEF KeptAt
  <1>3. CASE t = s /\ (Restart(s) \/ PowerLoss(s) \/ Sleep(s))
      BY <1>3 DEF Restart, PowerLoss, Sleep, Reset, PowerDown, SensorTypeOK, KeptAt
  <1>4. CASE t = s /\ Sample(s)
    <2>1. CanRead(s)
        BY <1>4 DEF SensorInv, ControlInv, ControlAt, BeforeSample, Sample, SampleWith, Goto
    <2>2. PICK boot \in 0 .. HALF - 1, stored \in 0 .. HALF - 1 :
            SampleWith(s, boot, stored)
        BY <1>4 DEF Sample
    <2>3. /\ nvs'[s].pending = nvs[s].pending /\ nvs'[s].reading = nvs[s].reading
          /\ job'[s].fresh = TRUE /\ job'[s].reading.n = taken[s] + 1
          /\ pc'[s] \in {"try", "save_reading"}
        BY <2>1, <2>2, SampleDoes
    <2>4. nvs[s].pending => nvs[s].reading.n < taken[s] + 1
      <3>1. nvs[s].reading \in Reading \cup {NoReading} /\ taken[s] \in Nat
          BY MessagesAssumption DEF SensorTypeOK
      <3>2. nvs[s].reading \in Reading => nvs[s].reading.n \in Int
          BY DEF Reading
      <3>3. nvs[s].pending => nvs[s].reading # NoReading /\ nvs[s].reading.n <= taken[s]
          BY DEF SensorInv, ReadingInv, ReadingAt, TakenBefore
      <3> QED BY <3>1, <3>2, <3>3
    <2> QED BY <1>4, <2>3, <2>4 DEF KeptAt
  <1>5. CASE t = s /\ Quiet(s)
    <2>1. CASE Wake(s)
        BY <1>5, <2>1 DEF Wake, Goto, KeptAt, SensorTypeOK
    <2>2. CASE NothingPending(s)
        BY <1>5, <2>2 DEF NothingPending, Goto, KeptAt, SensorTypeOK
    <2>3. CASE GiveUpPending(s)
      <3>1. job[s] = NoJob
          BY <1>5, <2>3 DEF SensorInv, ControlInv, ControlAt, GiveUpPending, Goto
      <3> QED BY <1>5, <2>3, <3>1 DEF GiveUpPending, NoJob, Goto, KeptAt, SensorTypeOK
    <2>4. CASE SendPending(s)
      <3>1. /\ pc'[s] = "try" /\ nvs' = nvs
            /\ job'[s].fresh = FALSE /\ job'[s].reading = nvs[s].reading
          BY <2>4 DEF SendPending, NewJob, Goto, SensorTypeOK
      <3> QED BY <1>5, <3>1 DEF KeptAt
    <2>5. CASE Hop(s)
      <3>1. /\ pc[s] = "try" /\ pc'[s] = "listen" /\ nvs' = nvs
            /\ job'[s].fresh = job[s].fresh /\ job'[s].reading = job[s].reading
          BY <2>5 DEF Hop, Goto, SensorTypeOK
      <3> QED BY <1>1, <1>5, <3>1 DEF KeptAt
    <2>6. CASE ListenTimeout(s)
      <3>1. pc[s] = "listen" /\ pc'[s] = "try" /\ nvs' = nvs /\ job' = job
          BY <2>6 DEF ListenTimeout, Goto, SensorTypeOK
      <3> QED BY <1>1, <1>5, <3>1 DEF KeptAt
    <2>7. CASE Answered(s)
      <3>1. /\ pc[s] = "listen" /\ pc'[s] = "clear_flag" /\ nvs' = nvs
            /\ job'[s].delivered = TRUE
            /\ job'[s].fresh = job[s].fresh /\ job'[s].reading = job[s].reading
          BY <2>7 DEF Answered, Goto, SensorTypeOK
      <3> QED BY <1>1, <1>5, <3>1 DEF KeptAt
    <2>8. CASE RetryMissed(s)
        BY <1>5, <2>8 DEF RetryMissed, Goto, KeptAt, SensorTypeOK
    <2>9. CASE FreshMissed(s)
      <3>1. /\ pc[s] = "try" /\ pc'[s] = "save_reading" /\ nvs' = nvs /\ job' = job
          BY <2>9 DEF FreshMissed, Goto, SensorTypeOK
      <3> QED BY <1>1, <1>5, <3>1 DEF KeptAt
    <2>10. CASE SaveReading(s) \/ SaveFlag(s) \/ SaveRetry(s) \/ ClearFlag(s)
      <3>1. pc'[s] \in {"save_flag", "save_retry", "act", "clear_retry"}
          BY <2>10 DEF SaveReading, SaveFlag, SaveRetry, ClearFlag, Goto, SensorTypeOK
      <3> QED BY <1>5, <3>1 DEF KeptAt
    <2>11. CASE ClearRetry(s)
      <3>1. pc'[s] \in {"act", "sample"}
          BY <2>11 DEF ClearRetry, AfterStorage, Goto, SensorTypeOK
      <3> QED BY <1>5, <3>1 DEF KeptAt
    <2>12. CASE \E reply \in Reply : Hear(s, reply)
        BY <1>1, <1>5, <2>12 DEF Hear, KeptAt
    <2> QED
        BY <1>3, <1>5, <2>1, <2>2, <2>3, <2>4, <2>5, <2>6, <2>7, <2>8, <2>9, <2>10, <2>11, <2>12
        DEF Quiet
  <1> QED BY <1>2, <1>3, <1>4, <1>5

(* The slot changes in two places: ClearFlag empties it, SaveReading fills *)
(* it.                                                                     *)
LEMMA SlotChanges ==
  ASSUME ~NvsFaults, SensorInv, KeptInv, [SensorNext]_sensorVars, NEW t \in Sensor,
         nvs[t].pending, ~nvs'[t].pending \/ nvs'[t].reading # nvs[t].reading
  PROVE  \/ job[t].delivered /\ job[t].reading.n >= nvs[t].reading.n
         \/ nvs[t].retry >= STORAGE_MAX_RETRIES
         \/ nvs'[t].pending /\ nvs'[t].reading.n > nvs[t].reading.n
  <1> SensorTypeOK
      BY DEF SensorInv
  <1>0. ~ UNCHANGED sensorVars
      BY DEF sensorVars
  <1>1. PICK s \in Sensor : Quiet(s) \/ Sample(s) \/ Restart(s) \/ PowerLoss(s)
      BY <1>0, StepKinds
  <1>2. t = s
      BY <1>1, OthersKept
  <1>3. KeptAt(t) /\ ReadingAt(t)
      BY DEF KeptInv, SensorInv, ReadingInv
  <1>4. /\ nvs[t].reading \in Reading /\ nvs[t].reading.n \in Int
        /\ job[t].fresh => job[t].reading.n \in Int
    <2>1. /\ nvs[t].reading \in Reading \cup {NoReading}
          /\ job[t].reading \in Reading \cup {NoReading}
        BY DEF SensorTypeOK
    <2>2. /\ nvs[t].reading # NoReading
          /\ job[t].fresh => job[t].reading # NoReading
        BY <1>3 DEF ReadingAt, TakenBefore
    <2> QED BY <2>1, <2>2 DEF Reading
  <1>5. CASE ClearFlag(t)
    <2>1. pc[t] = "clear_flag"
        BY <1>5 DEF ClearFlag, Goto
    <2> QED BY <1>3, <1>4, <2>1 DEF KeptAt
  <1>6. CASE SaveReading(t)
    <2>1. /\ pc[t] = "save_reading" /\ nvs'[t].pending = nvs[t].pending
          /\ nvs'[t].reading = job[t].reading
      <3>1. pc[t] = "save_reading" /\ nvs' = [nvs EXCEPT ![t].reading = job[t].reading]
          BY <1>6 DEF SaveReading, Goto
      <3> QED BY <3>1 DEF SensorTypeOK
    <2>2. job[t].fresh
        BY <1>3, <2>1 DEF ReadingAt
    <2> QED BY <1>3, <1>4, <2>1, <2>2 DEF KeptAt
  <1>7. CASE RetryMissed(t) \/ SaveFlag(t) \/ SaveRetry(t) \/ ClearRetry(t)
    <2>1. nvs'[t].reading = nvs[t].reading
        BY <1>7 DEF RetryMissed, SaveFlag, SaveRetry, ClearRetry, NvsPut, SensorTypeOK
    <2>2. CASE SaveFlag(t)
        BY <2>1, <2>2 DEF SaveFlag, NvsPut, SensorTypeOK
    <2>3. CASE RetryMissed(t) \/ SaveRetry(t) \/ ClearRetry(t)
      <3>1. \E n : nvs' = [nvs EXCEPT ![t].retry = n]
          BY <2>3 DEF RetryMissed, SaveRetry, ClearRetry, NvsPut
      <3>2. nvs'[t].pending = nvs[t].pending
          BY <3>1 DEF SensorTypeOK
      <3> QED BY <2>1, <3>2
    <2> QED BY <1>7, <2>2, <2>3
  <1>8. CASE Sample(t)
    <2>1. nvs'[t].reading = nvs[t].reading /\ nvs'[t].pending = nvs[t].pending
        BY <1>8 DEF Sample, SampleWith, SensorTypeOK
    <2> QED BY <2>1
  <1>9. CASE UNCHANGED nvs
      BY <1>9
  <1>10. \/ ClearFlag(t) \/ SaveReading(t) \/ RetryMissed(t) \/ SaveFlag(t)
         \/ SaveRetry(t) \/ ClearRetry(t) \/ Sample(t) \/ UNCHANGED nvs
      BY <1>1, <1>2
      DEF Quiet, Wake, NothingPending, GiveUpPending, SendPending, Hop, ListenTimeout,
          Answered, FreshMissed, Sleep, Hear, Restart, PowerLoss
  <1> QED BY <1>5, <1>6, <1>7, <1>8, <1>9, <1>10

(* With sound flash a saved reading is given up only for an answer, after  *)
(* the last retry or for a newer reading, also when power fails between    *)
(* the puts of storage.cpp.                                                *)
THEOREM SensorSavedUntilNewer ==
  ASSUME ~NvsFaults PROVE SensorSpec => SavedUntilNewer
  <1>1. SensorInit => KeptInv
      BY DEF SensorInit, KeptInv, KeptAt
  <1>2. SensorInv /\ KeptInv /\ [SensorNext]_sensorVars => KeptInv'
      BY KeptStep
  <1>3. SensorInv /\ KeptInv /\ [SensorNext]_sensorVars =>
          [\A s \in Sensor :
             nvs[s].pending /\ (~nvs'[s].pending \/ nvs'[s].reading # nvs[s].reading)
               => \/ job[s].delivered /\ job[s].reading.n >= nvs[s].reading.n
                  \/ nvs[s].retry >= STORAGE_MAX_RETRIES
                  \/ nvs'[s].pending /\ nvs'[s].reading.n > nvs[s].reading.n]_sensorVars
      BY SlotChanges
  <1> QED BY <1>1, <1>2, <1>3, SensorAlwaysInv, PTL DEF SensorSpec, SavedUntilNewer

-----------------------------------------------------------------------------
(* The length of a wake                                                    *)

(* A channel that was tried is one fewer to try.                           *)
LEMMA ChannelsLeft ==
  ASSUME NEW L \in SUBSET Channel
  PROVE  /\ Cardinality(L) \in Nat /\ Cardinality(L) <= CHANNEL_MAX
         /\ Cardinality(Channel) = CHANNEL_MAX
         /\ \A c \in L : Cardinality(L \ {c}) = Cardinality(L) - 1
  <1>1. IsFiniteSet(Channel) /\ Cardinality(Channel) = CHANNEL_MAX
    BY FS_Interval, SensorAssumption DEF Channel
  <1>2. IsFiniteSet(L) /\ Cardinality(L) \in Nat /\ Cardinality(L) <= CHANNEL_MAX
    BY <1>1, FS_Subset, FS_CardinalityType
  <1>3. ASSUME NEW c \in L PROVE Cardinality(L \ {c}) = Cardinality(L) - 1
    BY <1>2, FS_RemoveElement
  <1> QED BY <1>1, <1>2, <1>3

(* What a step does to the place in the wake: it ends it, goes on in the   *)
(* straight part, gives one channel its turn, or starts a sweep.           *)
Straight(s) ==
    /\ job'[s].fresh = job[s].fresh /\ job'[s].left = job[s].left
    /\ \/ pc[s] = "retry" /\ pc'[s] \in {"sample", "clear_flag"}
       \/ pc[s] = "listen" /\ pc'[s] \in {"try", "clear_flag"}
       \/ pc[s] = "try" /\ pc'[s] = IF job[s].fresh THEN "save_reading" ELSE "sample"
       \/ pc[s] = "save_reading" /\ pc'[s] \in {"save_flag", "act"}
       \/ pc[s] = "save_flag" /\ pc'[s] = "save_retry"
       \/ pc[s] = "save_retry" /\ pc'[s] = "act"
       \/ pc[s] = "clear_flag" /\ pc'[s] = "clear_retry"
       \/ pc[s] = "clear_retry" /\ pc'[s] = AfterStorage(s)

OneChannel(s) ==
    /\ pc[s] = "try" /\ pc'[s] = "listen" /\ job'[s].fresh = job[s].fresh
    /\ \E c \in job[s].left : job'[s].left = job[s].left \ {c}

NewSweep(s) ==
    /\ job'[s].left = Channel
    /\ \/ pc[s] = "retry" /\ pc'[s] = "try" /\ ~job'[s].fresh
       \/ pc[s] = "sample" /\ pc'[s] \in {"try", "save_reading"} /\ job'[s].fresh

LEMMA WakeMoves ==
  ASSUME SensorTypeOK, NEW s \in Sensor, pc[s] # "asleep",
         Quiet(s) \/ Sample(s) \/ Restart(s) \/ PowerLoss(s)
  PROVE  \/ pc'[s] = pc[s] /\ job'[s] = job[s]
         \/ pc'[s] = "asleep"
         \/ Straight(s) \/ OneChannel(s) \/ NewSweep(s)
  <1>1. CASE NothingPending(s) \/ GiveUpPending(s)
    BY <1>1 DEF NothingPending, GiveUpPending, Goto, Straight, SensorTypeOK
  <1>2. CASE SendPending(s)
    BY <1>2 DEF SendPending, NewJob, Goto, NewSweep, SensorTypeOK
  <1>3. CASE Sample(s)
    BY <1>3 DEF Sample, SampleWith, NewJob, Goto, NewSweep, SensorTypeOK
  <1>4. CASE Hop(s)
    <2>1. NextChannel(s) \in job[s].left
      BY <1>4, NextChannelIsLeft DEF Hop
    <2>2. job'[s].left = job[s].left \ {NextChannel(s)} /\ job'[s].fresh = job[s].fresh
      BY <1>4 DEF Hop, SensorTypeOK
    <2>3. pc[s] = "try" /\ pc'[s] = "listen"
      BY <1>4 DEF Hop, Goto, SensorTypeOK
    <2> QED BY <2>1, <2>2, <2>3 DEF OneChannel
  <1>5. CASE ListenTimeout(s) \/ FreshMissed(s) \/ RetryMissed(s)
    BY <1>5 DEF ListenTimeout, FreshMissed, RetryMissed, Goto, Straight, SensorTypeOK
  <1>6. CASE Answered(s)
    BY <1>6 DEF Answered, Goto, Straight, SensorTypeOK
  <1>7. CASE SaveReading(s) \/ SaveFlag(s) \/ SaveRetry(s)
    BY <1>7 DEF SaveReading, SaveFlag, SaveRetry, Goto, Straight, SensorTypeOK
  <1>8. CASE ClearFlag(s) \/ ClearRetry(s)
    BY <1>8 DEF ClearFlag, ClearRetry, Goto, Straight, SensorTypeOK
  <1>9. CASE Sleep(s) \/ Restart(s) \/ PowerLoss(s)
    BY <1>9 DEF Sleep, Restart, PowerLoss, Reset, PowerDown, SensorTypeOK
  <1>10. CASE Wake(s) \/ \E reply \in Reply : Hear(s, reply)
    BY <1>10 DEF Wake, Goto, Hear
  <1> QED BY <1>1, <1>2, <1>3, <1>4, <1>5, <1>6, <1>7, <1>8, <1>9, <1>10 DEF Quiet

RunsDown(s) ==
    pc[s] # "asleep" =>
        IF pc'[s] = pc[s] THEN StepsLeft(s)' = StepsLeft(s)
        ELSE StepsLeft(s)' < StepsLeft(s)

LEMMA WakeDown ==
  ASSUME SensorTypeOK, NEW s \in Sensor, pc[s] # "asleep",
         Quiet(s) \/ Sample(s) \/ Restart(s) \/ PowerLoss(s)
  PROVE  RunsDown(s)
  <1> DEFINE k == Cardinality(job[s].left)
             l == Cardinality(job'[s].left)
  <1>1. job[s].left \in SUBSET Channel /\ job[s].fresh \in BOOLEAN /\ pc[s] \in Phase
    BY DEF SensorTypeOK
  <1>2. /\ k \in Nat /\ k <= CHANNEL_MAX /\ Cardinality(Channel) = CHANNEL_MAX
        /\ \A c \in job[s].left : Cardinality(job[s].left \ {c}) = k - 1
        /\ CHANNEL_MAX \in Nat
    BY <1>1, ChannelsLeft, SensorAssumption
  <1>3. CASE pc'[s] = pc[s] /\ job'[s] = job[s]
    BY <1>3 DEF RunsDown, StepsLeft
  <1>4. CASE pc'[s] = "asleep"
    <2>1. StepsLeft(s)' = 0
      BY <1>4 DEF StepsLeft
    <2>2. StepsLeft(s) > 0
      BY <1>1, <1>2 DEF StepsLeft, Phase
    <2> QED BY <1>4, <2>1, <2>2 DEF RunsDown
  <1>5. CASE Straight(s)
    <2>1. l = k /\ job'[s].fresh = job[s].fresh
      BY <1>5 DEF Straight
    <2> QED BY <1>2, <1>5, <2>1 DEF Straight, AfterStorage, RunsDown, StepsLeft
  <1>6. CASE OneChannel(s)
    <2>1. l = k - 1 /\ job'[s].fresh = job[s].fresh
      BY <1>2, <1>6 DEF OneChannel
    <2> QED BY <1>2, <1>6, <2>1 DEF OneChannel, RunsDown, StepsLeft
  <1>7. CASE NewSweep(s)
    <2>1. l = CHANNEL_MAX
      BY <1>2, <1>7 DEF NewSweep
    <2> QED BY <1>2, <1>7, <2>1 DEF NewSweep, RunsDown, StepsLeft
  <1> QED BY <1>3, <1>4, <1>5, <1>6, <1>7, WakeMoves

(* A wake takes a number of steps known when it begins: every one of them  *)
(* brings the end nearer and nothing the gateway does postpones it         *)
(* (run_sensor_mode, espnow_send_payload: each channel once).              *)
THEOREM SensorWakeRunsDown == SensorSpec => WakeRunsDown
  <1>1. ASSUME SensorInv, [SensorNext]_sensorVars, NEW s \in Sensor
        PROVE  RunsDown(s)
    <2>1. SensorTypeOK
      BY <1>1 DEF SensorInv
    <2>2. CASE UNCHANGED sensorVars
      BY <2>2 DEF sensorVars, RunsDown, StepsLeft
    <2>3. ASSUME NEW t \in Sensor, Quiet(t) \/ Sample(t) \/ Restart(t) \/ PowerLoss(t)
          PROVE  RunsDown(s)
      <3>1. CASE t = s
        BY <2>1, <2>3, <3>1, WakeDown DEF RunsDown
      <3>2. CASE t # s
        <4>1. pc'[s] = pc[s] /\ job'[s] = job[s]
          BY <2>1, <2>3, <3>2, OthersKept
        <4> QED BY <4>1 DEF RunsDown, StepsLeft
      <3> QED BY <3>1, <3>2
    <2> QED BY <1>1, <2>2, <2>3, StepKinds
  <1>2. SensorInv /\ [SensorNext]_sensorVars => \A s \in Sensor : RunsDown(s)
    BY <1>1
  <1> QED BY <1>2, SensorAlwaysInv, PTL DEF SensorSpec, WakeRunsDown, RunsDown

=============================================================================

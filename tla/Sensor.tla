------------------------------- MODULE Sensor -------------------------------
(***************************************************************************)
(* A battery sensor box, main.cpp run_sensor_mode with core/storage.cpp,   *)
(* core/seq_counter.cpp and the sensor side of drivers/EspNow.cpp.         *)
(*                                                                         *)
(* Every wake re-sends the one reading left in flash by a failed wake,     *)
(* takes a fresh reading, sends it, saves it when nobody answered, obeys   *)
(* the command the reply carried and goes back to deep sleep.  Power may   *)
(* fail between any two steps: flash (nvs) survives, RTC memory does not.  *)
(*                                                                         *)
(* The radio is the environment: Hop is the moment a packet leaves, Hear   *)
(* the receive callback.  Module House joins both with the gateway.        *)
(***************************************************************************)
EXTENDS Messages, FiniteSets

CONSTANTS
    CHANNEL_MAX,          \* WiFi channels swept; 13 in the firmware
    STORAGE_MAX_RETRIES,  \* 5 in the firmware
    NoReply,              \* s_reply_pending = false
    NvsFaults             \* TRUE: a put, or reading a saved reading, may fail

ASSUME SensorAssumption ==
    /\ CHANNEL_MAX \in Nat \ {0}
    /\ STORAGE_MAX_RETRIES \in Nat
    /\ NvsFaults \in BOOLEAN

Channel == 1 .. CHANNEL_MAX

ASSUME NoReplyAssumption == NoReply \notin Reply

VARIABLES
    pc,         \* where the wake is
    radio,      \* espnow_init succeeded in this wake
    rtc,        \* RTC memory: g_sensor_seq, s_last_good_channel
    nvs,        \* flash: boot count, pending reading, its flag, retry count
    job,        \* the send under way: reading, kind, channels left, SendResult
    mailbox,    \* s_reply_buf / s_reply_pending
    order,      \* send.downlink
    \* what the properties remember, read by no step:
    taken,      \* readings taken so far
    topSeq,     \* highest seq used so far, -1 before the first
    bootErr,    \* the boot count could not be stored: this boot, the one before
    landed      \* how often each order made the box restart

sensorVars == <<pc, radio, rtc, nvs, job, mailbox, order,
                taken, topSeq, bootErr, landed>>

Phase == {"asleep", "retry", "sample", "try", "listen",
          "clear_flag", "clear_retry",
          "save_reading", "save_flag", "save_retry", "act"}

NoJob == [reading |-> NoReading, fresh |-> FALSE, left |-> {}, channel |-> 0,
          delivered |-> FALSE]

SensorTypeOK ==
    /\ pc \in [Sensor -> Phase]
    /\ radio \in [Sensor -> BOOLEAN]
    /\ rtc \in [Sensor -> [seq : Word, channel : 0 .. CHANNEL_MAX]]
    /\ nvs \in [Sensor -> [boot : 0 .. HALF - 1, reading : Reading \cup {NoReading},
                           pending : BOOLEAN, retry : 0 .. STORAGE_MAX_RETRIES]]
    /\ job \in [Sensor -> [reading : Reading \cup {NoReading}, fresh : BOOLEAN,
                           left : SUBSET Channel, channel : 0 .. CHANNEL_MAX,
                           delivered : BOOLEAN]]
    /\ mailbox \in [Sensor -> Reply \cup {NoReply}]
    /\ order \in [Sensor -> Order \cup {NoOrder}]
    /\ taken \in [Sensor -> 0 .. MaxReadings]
    /\ topSeq \in [Sensor -> Word \cup {-1}]
    /\ bootErr \in [Sensor -> [now : BOOLEAN, before : BOOLEAN]]
    /\ landed \in [Sensor -> [Order -> Nat]]

SensorInit ==
    /\ pc = [s \in Sensor |-> "asleep"]
    /\ radio = [s \in Sensor |-> FALSE]
    /\ rtc = [s \in Sensor |-> [seq |-> 0, channel |-> 0]]
    /\ nvs = [s \in Sensor |-> [boot |-> 0, reading |-> NoReading,
                                pending |-> FALSE, retry |-> 0]]
    /\ job = [s \in Sensor |-> NoJob]
    /\ mailbox = [s \in Sensor |-> NoReply]
    /\ order = [s \in Sensor |-> NoOrder]
    /\ taken = [s \in Sensor |-> 0]
    /\ topSeq = [s \in Sensor |-> -1]
    /\ bootErr = [s \in Sensor |-> [now |-> FALSE, before |-> FALSE]]
    /\ landed = [s \in Sensor |-> [o \in Order |-> 0]]

-----------------------------------------------------------------------------
Goto(s, from, to) == pc[s] = from /\ pc' = [pc EXCEPT ![s] = to]

(* A put whose result nobody looks at.                                     *)
NvsPut(after) ==
    \/ nvs' = after
    \/ NvsFaults /\ UNCHANGED nvs

(* A send starts with every channel to try.                                *)
NewJob(reading, fresh) ==
    [reading |-> reading, fresh |-> fresh, left |-> Channel, channel |-> 0,
     delivered |-> FALSE]

(* The wake is over: RAM is lost and the radio is off.                     *)
PowerDown(s) ==
    /\ pc' = [pc EXCEPT ![s] = "asleep"]
    /\ radio' = [radio EXCEPT ![s] = FALSE]
    /\ job' = [job EXCEPT ![s] = NoJob]
    /\ mailbox' = [mailbox EXCEPT ![s] = NoReply]
    /\ order' = [order EXCEPT ![s] = NoOrder]

(* A reset that is not a wake from deep sleep also reloads RTC memory.     *)
Reset(s) ==
    /\ PowerDown(s)
    /\ rtc' = [rtc EXCEPT ![s] = [seq |-> 0, channel |-> 0]]

(* One more reading fits the documented life of the counters and the bound. *)
CanRead(s) ==
    /\ taken[s] < MaxReadings
    /\ IF rtc[s].seq = 0 THEN BootLeft(nvs[s].boot) ELSE MessageLeft(rtc[s].seq)

(* Steps 1-5 of run_sensor_mode: the radio may fail to start, and only     *)
(* with a radio is a stuck reading retried.                                *)
Wake(s) ==
    /\ CanRead(s)
    /\ \E ok \in BOOLEAN :
         /\ radio' = [radio EXCEPT ![s] = ok]
         /\ Goto(s, "asleep", IF ok THEN "retry" ELSE "sample")
    /\ UNCHANGED <<rtc, nvs, job, mailbox, order,
                   taken, topSeq, bootErr, landed>>

(* retry_pending_payload: nothing saved, or the flag cannot be read; ...   *)
NothingPending(s) ==
    /\ NvsFaults \/ ~nvs[s].pending
    /\ Goto(s, "retry", "sample")
    /\ UNCHANGED <<radio, rtc, nvs, job, mailbox, order,
                   taken, topSeq, bootErr, landed>>

(* ... unreadable, or out of retries: it is cleared unsent; ...            *)
GiveUpPending(s) ==
    /\ nvs[s].pending
    /\ NvsFaults \/ nvs[s].retry >= STORAGE_MAX_RETRIES
    /\ Goto(s, "retry", "clear_flag")
    /\ UNCHANGED <<radio, rtc, nvs, job, mailbox, order,
                   taken, topSeq, bootErr, landed>>

(* Mutant: one retry too many.                                             *)
SendPendingOffByOne(s) ==
    /\ nvs[s].pending
    /\ nvs[s].retry <= STORAGE_MAX_RETRIES
    /\ Goto(s, "retry", "try")
    /\ job' = [job EXCEPT ![s] = NewJob(nvs[s].reading, FALSE)]
    /\ UNCHANGED <<radio, rtc, nvs, mailbox, order,
                   taken, topSeq, bootErr, landed>>

(* ... or it is sent again, under the seq it was first sent with.          *)
SendPending(s) ==
    /\ nvs[s].pending
    /\ nvs[s].retry < STORAGE_MAX_RETRIES
    /\ Goto(s, "retry", "try")
    /\ job' = [job EXCEPT ![s] = NewJob(nvs[s].reading, FALSE)]
    /\ UNCHANGED <<radio, rtc, nvs, mailbox, order,
                   taken, topSeq, bootErr, landed>>

(* seq_boot_base, called only when the RTC counter was lost: the boot count *)
(* is bumped in flash.  Flash that does not open gives the base of boot 0,  *)
(* and a put that fails goes unnoticed.                                     *)
BootStart(s, boot, stored) ==
    \/ /\ boot = nvs[s].boot + 1
       /\ stored = boot
    \/ /\ NvsFaults
       /\ boot \in {0, nvs[s].boot + 1}
       /\ stored = nvs[s].boot

(* Mutant: a plain counter, no boot count.                                 *)
FreshSeqPlain(s, boot) == NextSeq(rtc[s].seq)

(* The number of the next reading: one more than the RTC counter, or the    *)
(* first of a boot's block.                                                 *)
FreshSeq(s, boot) ==
    NextSeq(IF rtc[s].seq = 0 THEN BootBase(boot) ELSE rtc[s].seq)

Higher(a, b) == IF a > b THEN a ELSE b

(* Steps 6-7: a fresh reading gets the next number; with no radio it goes  *)
(* straight to flash.  (A reading that cannot be encrypted is a send that  *)
(* no channel answers.)                                                    *)
SampleWith(s, boot, stored) ==
    LET r == [n |-> taken[s] + 1, seq |-> FreshSeq(s, boot)]
    IN  /\ Goto(s, "sample", IF radio[s] THEN "try" ELSE "save_reading")
        /\ IF rtc[s].seq = 0
           THEN /\ BootStart(s, boot, stored)
                /\ bootErr' = [bootErr EXCEPT ![s] =
                     [now |-> stored = nvs[s].boot, before |-> @.now]]
           ELSE boot = 0 /\ stored = nvs[s].boot /\ UNCHANGED bootErr
        /\ nvs' = [nvs EXCEPT ![s].boot = stored]
        /\ rtc' = [rtc EXCEPT ![s].seq = r.seq]
        /\ job' = [job EXCEPT ![s] = NewJob(r, TRUE)]
        /\ taken' = [taken EXCEPT ![s] = r.n]
        /\ topSeq' = [topSeq EXCEPT ![s] = Higher(@, r.seq)]
        /\ UNCHANGED <<radio, mailbox, order, landed>>

Sample(s) == \E boot, stored \in 0 .. HALF - 1 : SampleWith(s, boot, stored)

-----------------------------------------------------------------------------
(* espnow_send_payload                                                     *)

(* The channel that answered last is tried first, the rest in order.       *)
NextChannel(s) ==
    IF rtc[s].channel \in job[s].left THEN rtc[s].channel
    ELSE CHOOSE c \in job[s].left : \A d \in job[s].left : c <= d

(* Mutant: the sweep starts over instead of going on.                      *)
HopAgain(s) ==
    /\ job[s].left # {}
    /\ Goto(s, "try", "listen")
    /\ job' = [job EXCEPT ![s].channel = NextChannel(s)]
    /\ mailbox' = [mailbox EXCEPT ![s] = NoReply]
    /\ UNCHANGED <<radio, rtc, nvs, order, taken, topSeq, bootErr, landed>>

(* try_channel, steps 1-2: hop, forget any earlier reply, broadcast.       *)
Hop(s) ==
    /\ job[s].left # {}
    /\ Goto(s, "try", "listen")
    /\ job' = [job EXCEPT ![s].channel = NextChannel(s),
                          ![s].left = @ \ {NextChannel(s)}]
    /\ mailbox' = [mailbox EXCEPT ![s] = NoReply]
    /\ UNCHANGED <<radio, rtc, nvs, order, taken, topSeq, bootErr, landed>>

(* on_recv, sensor side.  A reply heard outside of a listening window is   *)
(* forgotten by the next Hop, so only one heard inside matters.  A second  *)
(* reply overwrites the buffer, possibly while it is being read: a torn    *)
(* text never verifies and counts as an ACK.                               *)
Hear(s, reply) ==
    /\ pc[s] = "listen"
    /\ \E r \in IF mailbox[s] = NoReply THEN {reply}
                ELSE {mailbox[s], reply, Torn} :
         mailbox' = [mailbox EXCEPT ![s] = r]
    /\ UNCHANGED <<pc, radio, rtc, nvs, job, order,
                   taken, topSeq, bootErr, landed>>

(* try_channel, step 3: nobody answered within the window.                 *)
ListenTimeout(s) ==
    /\ mailbox[s] = NoReply
    /\ Goto(s, "listen", "try")
    /\ UNCHANGED <<radio, rtc, nvs, job, mailbox, order,
                   taken, topSeq, bootErr, landed>>

(* A reply: any reply means delivered.  run_sensor_mode keeps the command  *)
(* of a fresh reading; retry_pending_payload throws it away.               *)
Answered(s) ==
    /\ mailbox[s] # NoReply
    /\ Goto(s, "listen", "clear_flag")
    /\ mailbox' = [mailbox EXCEPT ![s] = NoReply]
    /\ rtc' = [rtc EXCEPT ![s].channel = job[s].channel]
    /\ order' = [order EXCEPT ![s] =
                   IF job[s].fresh
                   THEN ParseDownlink(mailbox[s], job[s].reading.seq)
                   ELSE NoOrder]
    /\ job' = [job EXCEPT ![s].delivered = TRUE]
    /\ UNCHANGED <<radio, nvs, taken, topSeq, bootErr, landed>>

(* Mutant: the saved reading is given up with the first retry.             *)
RetryMissedCleared(s) ==
    /\ ~job[s].fresh /\ job[s].left = {}
    /\ Goto(s, "try", "clear_flag")
    /\ UNCHANGED <<radio, rtc, nvs, job, mailbox, order,
                   taken, topSeq, bootErr, landed>>

(* No reply on any channel: the retry is counted, ...                      *)
RetryMissed(s) ==
    /\ ~job[s].fresh /\ job[s].left = {}
    /\ Goto(s, "try", "sample")
    /\ NvsPut([nvs EXCEPT ![s].retry = @ + 1])
    /\ UNCHANGED <<radio, rtc, job, mailbox, order,
                   taken, topSeq, bootErr, landed>>

(* Mutant: the unanswered reading is forgotten.                            *)
FreshMissedUnsaved(s) ==
    /\ job[s].fresh /\ job[s].left = {}
    /\ Goto(s, "try", "act")
    /\ UNCHANGED <<radio, rtc, nvs, job, mailbox, order,
                   taken, topSeq, bootErr, landed>>

(* ... the fresh reading is saved.                                         *)
FreshMissed(s) ==
    /\ job[s].fresh /\ job[s].left = {}
    /\ Goto(s, "try", "save_reading")
    /\ UNCHANGED <<radio, rtc, nvs, job, mailbox, order,
                   taken, topSeq, bootErr, landed>>

-----------------------------------------------------------------------------
(* core/storage.cpp: each put is a flash write of its own.                 *)

AfterStorage(s) == IF job[s].fresh THEN "act" ELSE "sample"

(* Mutant: the result of the put is not looked at.                         *)
SaveReadingUnchecked(s) ==
    /\ Goto(s, "save_reading", "save_flag")
    /\ NvsPut([nvs EXCEPT ![s].reading = job[s].reading])
    /\ UNCHANGED <<radio, rtc, job, mailbox, order,
                   taken, topSeq, bootErr, landed>>

(* storage_save_pending: the bytes first, which may fail and end it, ...   *)
SaveReading(s) ==
    /\ \/ /\ Goto(s, "save_reading", "save_flag")
          /\ nvs' = [nvs EXCEPT ![s].reading = job[s].reading]
       \/ /\ NvsFaults
          /\ Goto(s, "save_reading", "act")
          /\ UNCHANGED nvs
    /\ UNCHANGED <<radio, rtc, job, mailbox, order,
                   taken, topSeq, bootErr, landed>>

(* ... then the flag, ...                                                  *)
SaveFlag(s) ==
    /\ Goto(s, "save_flag", "save_retry")
    /\ NvsPut([nvs EXCEPT ![s].pending = TRUE])
    /\ UNCHANGED <<radio, rtc, job, mailbox, order,
                   taken, topSeq, bootErr, landed>>

(* ... then the retry count.                                               *)
SaveRetry(s) ==
    /\ Goto(s, "save_retry", "act")
    /\ NvsPut([nvs EXCEPT ![s].retry = 0])
    /\ UNCHANGED <<radio, rtc, job, mailbox, order,
                   taken, topSeq, bootErr, landed>>

(* storage_clear_pending: the flag, then the retry count.                  *)
ClearFlag(s) ==
    /\ Goto(s, "clear_flag", "clear_retry")
    /\ NvsPut([nvs EXCEPT ![s].pending = FALSE])
    /\ UNCHANGED <<radio, rtc, job, mailbox, order,
                   taken, topSeq, bootErr, landed>>

ClearRetry(s) ==
    /\ Goto(s, "clear_retry", AfterStorage(s))
    /\ NvsPut([nvs EXCEPT ![s].retry = 0])
    /\ UNCHANGED <<radio, rtc, job, mailbox, order,
                   taken, topSeq, bootErr, landed>>

-----------------------------------------------------------------------------
(* Steps 8-12: handle_downlink, then deep sleep.                           *)

(* No command, a PING, or an OTA that failed: back to sleep.               *)
Sleep(s) ==
    /\ pc[s] = "act"
    /\ CommandOf(order[s]) \in {"NONE", "PING", "OTA"}
    /\ PowerDown(s)
    /\ UNCHANGED <<rtc, nvs, taken, topSeq, bootErr, landed>>

(* REBOOT, PAIR when pairing is over, an OTA that succeeded: restart.      *)
Restart(s) ==
    /\ pc[s] = "act"
    /\ CommandOf(order[s]) \in {"OTA", "REBOOT", "PAIR"}
    /\ Reset(s)
    /\ landed' = [landed EXCEPT ![s][order[s]] = @ + 1]
    /\ UNCHANGED <<nvs, taken, topSeq, bootErr>>

(* Power fails: between any two steps, asleep or awake.                    *)
PowerLoss(s) ==
    /\ Reset(s)
    /\ UNCHANGED <<nvs, taken, topSeq, bootErr, landed>>

-----------------------------------------------------------------------------
(* What a box does without a word from outside, the packet of Hop aside.   *)
WakeStep(s) ==
    \/ NothingPending(s) \/ GiveUpPending(s) \/ SendPending(s) \/ Sample(s)
    \/ ListenTimeout(s) \/ Answered(s) \/ RetryMissed(s) \/ FreshMissed(s)
    \/ SaveReading(s) \/ SaveFlag(s) \/ SaveRetry(s)
    \/ ClearFlag(s) \/ ClearRetry(s) \/ Sleep(s) \/ Restart(s)

SensorNext ==
    \E s \in Sensor :
        \/ Wake(s) \/ WakeStep(s) \/ Hop(s) \/ PowerLoss(s)
        \/ \E reply \in Reply : Hear(s, reply)

(* A box whose gateway may answer anything at any time.                    *)
SensorSpec == SensorInit /\ [][SensorNext]_sensorVars

(* The firmware runs a wake to its end as long as it has power; the timer  *)
(* starts the next one.                                                    *)
SensorFairness ==
    \A s \in Sensor : WF_sensorVars(WakeStep(s) \/ Hop(s))

SensorFairSpec == SensorSpec /\ SensorFairness

-----------------------------------------------------------------------------
(* Properties                                                              *)

(* Every reading carries a higher number than all readings before it,      *)
(* whatever power losses and restarts lie between: what seq_counter.h asks *)
(* for, and what keeps the backend from dropping real data as a replay.    *)
(* Only flash that failed at this boot, or at the one before, may break it *)
(* (seq_counter.cpp: "the worst case is a single boot's data").            *)
SeqRises ==
    [][\A s \in Sensor : taken'[s] # taken[s] =>
         \/ topSeq'[s] > topSeq[s]
         \/ bootErr'[s].now \/ bootErr'[s].before]_sensorVars

(* A power loss or a failed put in the middle of storage_save_pending or   *)
(* storage_clear_pending never leaves a flag without a reading behind it,  *)
(* and the reading left for the next wake is one the box took.             *)
SlotReadable ==
    \A s \in Sensor : nvs[s].pending =>
        nvs[s].reading # NoReading /\ nvs[s].reading.n <= taken[s]

(* While its flash and its power are sound, a wake that went to sleep      *)
(* without an answer for its reading left that reading in flash.           *)
UnansweredIsSaved ==
    [][\A s \in Sensor :
         pc[s] = "act" /\ ~job[s].delivered /\ Sleep(s)
           => nvs'[s].pending /\ nvs'[s].reading = job[s].reading]_sensorVars

(* Whatever the gateway answers, a wake comes to an end: a box with a      *)
(* battery never stays awake listening.                                    *)
WakeEnds == \A s \in Sensor : pc[s] # "asleep" ~> pc[s] = "asleep"

(* The steps a box may still take in this wake.  A retry of the saved      *)
(* reading and then the fresh one sweep all channels, two steps a channel. *)
StepsLeft(s) ==
    LET sweep == 2 * Cardinality(job[s].left)
        fresh == 6 + 2 * CHANNEL_MAX
        then  == IF job[s].fresh THEN 0 ELSE fresh
    IN  CASE pc[s] = "asleep" -> 0
          [] pc[s] = "act" -> 1
          [] pc[s] = "save_retry" -> 2
          [] pc[s] = "save_flag" -> 3
          [] pc[s] = "save_reading" -> 4
          [] pc[s] = "clear_retry" -> then + 2
          [] pc[s] = "clear_flag" -> then + 3
          [] pc[s] = "try" -> then + 5 + sweep
          [] pc[s] = "listen" -> then + 6 + sweep
          [] pc[s] = "sample" -> fresh
          [] pc[s] = "retry" -> fresh + 6 + 2 * CHANNEL_MAX

(* Every step of a wake brings its end nearer, and no reply, noise or      *)
(* other box pushes it away again: the battery pays for a number of steps  *)
(* known when the box wakes (run_sensor_mode: two sweeps, then sleep).     *)
WakeRunsDown ==
    [][\A s \in Sensor : pc[s] # "asleep" =>
         IF pc'[s] = pc[s] THEN StepsLeft(s)' = StepsLeft(s)
         ELSE StepsLeft(s)' < StepsLeft(s)]_sensorVars

(* storage.h: a saved reading leaves its slot, also over power losses, for *)
(* a send that was answered, its own or that of a newer reading, after     *)
(* STORAGE_MAX_RETRIES retries, or to make room for a newer reading.       *)
SavedUntilNewer ==
    [][\A s \in Sensor :
         nvs[s].pending /\ (~nvs'[s].pending \/ nvs'[s].reading # nvs[s].reading)
           => \/ job[s].delivered /\ job[s].reading.n >= nvs[s].reading.n
              \/ nvs[s].retry >= STORAGE_MAX_RETRIES
              \/ nvs'[s].pending /\ nvs'[s].reading.n > nvs[s].reading.n]_sensorVars

=============================================================================

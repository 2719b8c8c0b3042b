# Verification of the ACHAS / STAYCOOL room-climate firmware

TLA+ models, TLC runs and TLAPS proofs for the ESP32 firmware in `src/` and the Go
ingester in `go-ingest/`. One firmware binary runs every box; its profile makes it a
battery **sensor** or the always-on **gateway** of a house.

    sensor --ESP-NOW--> gateway --MQTT--> ingester --> InfluxDB
           <--reply----         <--commands--

## 1. Inventory

| Component | State | Operations | Talks to |
|---|---|---|---|
| Sensor wake (`main.cpp`, `storage.cpp`) | RTC memory: `g_sensor_seq`, `s_last_good_channel`; flash: one pending reading, flag, retry count | retry the saved reading, read, send on up to 13 channels, save or clear, obey the downlink, sleep | gateway over ESP-NOW; flash |
| Sequence counter (`seq_counter.cpp`) | boot count in flash | `seq_boot_base` | sensor, gateway, command table |
| ESP-NOW, gateway side (`EspNow.cpp`) | `s_rx_queue` (8), `s_pending` (4 slots, mutex) | receive callback, reply, queue / take a command | receiver task, MQTT task |
| Gateway tasks (`tasks.cpp`) | `g_data_queue` (20), the reading each task has in hand, `self_seq` | receiver, reader, publisher, command handler, watchdog | ESP-NOW, MQTT client |
| Ingester (`ingest.go`) | `lastSeq`, key and room caches | `onMessage` | broker, InfluxDB |
| Over-the-air update (`ota_manager.cpp`, `ota_remote.cpp`) | two app partitions, boot selection | download, digest, signature, commit, reboot | HTTPS server |
| Commissioning profile (`commission.cpp`) | nine keys in flash | load, autofill, validate, save, wipe | setup, portal, pairing |
| Boot (`main.cpp` `setup`, `handle_boot_button`) | the loaded profile | choose role, portal or pairing | all |
| Web portal (`portal_provision.cpp`) | form fields, `g_go`, `g_state` | submit, enrol, reboot, time out | operator, fleet API |
| BLE pairing (`ble_pairing.cpp`, `prov_session.cpp`) | buffers and flags, session | callbacks of the BLE task, polling main loop | phone |
| Device certificate (`device_cert.cpp`) | private key, certificate in flash | make the key, build the CSR, store and load the certificate | boot, portal, pairing, MQTT |
| WiFi link and policy (`wifi_manager.cpp`, `wifi_policy.cpp`) | the station, the security last seen | join, scan, refuse, reconnect, set ESP-NOW up again | setup, publisher, ESP-NOW |
| MQTT client (`mqtt_handler.cpp`) | TLS session, last will, retained status | connect, announce, loop, publish | setup, publisher, broker |
| Crypto, payload codec, drivers, self-test, identity, log | little or none | conversions, I/O | everybody |

What is hard here: flash is written key by key and power may fail between any two writes; RTC
memory survives deep sleep but no reset; replies can be late, lost or overwritten; three
gateway tasks and two callbacks interleave over two bounded queues and one table; the number
in a reading serves as anti-replay and as reboot detector at once; the BLE task writes the
buffers the main loop reads; WiFi and ESP-NOW share one radio, and joining an access point
silently ends the sending side of ESP-NOW; broker, access point and gateway come and go in any
order; the server of an update is not trusted. `PROJECT.json` lists each hazard at its line.

What makes each component correct:
* sensor: its retry slot is readable after any crash, its numbers rise, an unanswered
  reading is kept, every wake ends;
* gateway: one order per box, bounded re-sending, a receiver that no network can block;
* house: nothing genuine is dropped as a replay, an order lands once, the stored series is a
  subsequence of the measured one;
* update: what boots is whole, signed and asked for, wherever power fails;
* provisioning: no role on half a profile, reported success is not taken back while flash
  works, a save reported as good has its key and numbers in flash, and no blob a phone wrote
  is forgotten;
* certificate: only whole certificates are stored, a gateway in its role has the one of its
  key, a transfer that is repeated gets through;
* uplink: replies to sensors work on every link the code made, nothing is published over a
  network nobody looked at, whatever failed, the gateway comes back when the network does, and
  without a broker it still answers its sensors.

## 2. Modules

| Module | Models | Notes |
|---|---|---|
| `SeqCounter` | arithmetic of the 32-bit number | no state; a half has `HALF` values |
| `Messages` | readings, orders, replies | a reading is its place `n` in the device's life and its number; the tag of an order is the number it was signed for |
| `CommandTable` | `s_pending` | functions from table to table: both operations hold the mutex throughout |
| `Sensor` | a box from wake to sleep | one action per blocking step and per flash write |
| `Gateway` | receive queue, tasks, table | one action per point where a task can be preempted with visible state |
| `Ingest` | `onMessage`, restart | |
| `House` | all of these together, radio and broker | `Transmit` joins `Hop` and `OnRecv`, `Answer` joins `RxReply` and `Hear`, `PublishOne` joins `Publish` and `OnMessage` |
| `ReadingFeed` | abstract: what a reader of the database may rely on | implemented by `House` (`FeedPromise`) |
| `Courier` | abstract: what an operator's orders may rely on, one mailbox for each box | implemented by `Gateway` and by `House` (`CourierPromise`) |
| `OtaUpdate` | both update flows, which have the same steps | |
| `Firmware` | abstract: the image changes only to one signed and asked for | implemented by `OtaUpdate` (`FirmwarePromise`) |
| `Commission` | profile, autofill, validation, order of the puts | no state |
| `Provision` | boot, portal, pairing, save put by put | |
| `DeviceCert` | key, CSR and certificate over boot, portal and BLE | the BLE callbacks interleave with the check, the put and the wipe of `process_cert_write` |
| `Uplink` | setup and publisher against access point, broker and WiFi driver | readings are counted, `House` tells them apart |
| `MCSensor`, `MCGateway`, `MCHouse`, `MCProvision` | small sets for TLC | |
| `CounterLemmas` | arithmetic of the two halves of the number, proved once | |
| `SensorProofs`, `GatewayProofs`, `HouseProofs`, `OtaProofs`, `DeviceCertProofs`, `UplinkProofs`, `ProvisionProofs` | theorems | |

State and code. `Sensor`: `pc` is the place in `run_sensor_mode`, `rtc` and `nvs` the two
kinds of memory, `job` the `SendResult` and the channels left, `mailbox` `s_reply_buf` with
`s_reply_pending`. `Gateway`: `rxItem` and `selfItem` are the readings a task holds while it
waits in `xQueueSend`. `OtaUpdate`: `flash` is the two app partitions, `boot` the choice of
the bootloader, `running` the partition in use. `Provision`: `cd` is the `CommissionData` in
scope, `job` the progress of `commission_save`, `ble` what the callbacks buffered.
`DeviceCert`: a key is its generation and a certificate the generation of the key it
certifies; `ble` is `s_cert_accum`, `s_cert_payload` and `s_cert_pending`; `app` says how the
phone behaves: whether its writes are shorter than the BEGIN marker, and whether it writes
again before the box is done. `Uplink`: `pc` and `phase` are the place in `run_gateway_mode`
or `task_publisher`, `link` the station, `sender` whether `esp_now_send` works, `session`
what the client believes and `tcp` what is true, `will` and `status` the broker's.
The last variables of each list, marked in the modules, are history: no step reads them.

Names of the form `...OffByOne`, `...Unchecked`, `...Again` and so on, marked "Mutant" in
the modules, are plausible mistakes. Each property is run against one of them and fails, so
each is known to say something about the code.

### What is merged or left out

* Crypto is what its callers rely on: a tag fits one number, signatures exist only for
  images in `Signed`, digests do not collide, a BLE blob opens only in the session of the
  phone that wrote it. A reading that cannot be encrypted is a send nobody answers.
* The reply is made and heard in one step of `House`; it may come late all the same, because
  the packet it answers can wait in the receive queue. A torn reply counts as an ACK.
* A listening box takes any frame on its channel for a reply (`EspNow.cpp:188-198`,
  `303-307`): `Overhear`, with a frame of another house or with the broadcast of another box.
  No such frame carries a tag that verifies, so it counts as an ACK. The model allows a little
  more than the radio: a box may overhear another one as long as that one listens, also if it
  came to the channel just after the broadcast.
* In `House` the time in which `espnow_gateway_reinit` has not run is a reply that is not
  heard; when that time ends is the subject of `Uplink`.
* A publication is lost or ingested at once; the broker keeps the order of a device's
  messages (one connection, QoS 0, a handler that blocks).
* InfluxDB keeps one point per device and second: a write may take the place of the one
  before it. That points of the same second have their fields merged is left out; every
  reading writes the same fields.
* The committed ingester knows no house key before a house is activated; `House` starts with
  an activated house.
* The boot count of the gateway is bumped in the restart step, and its flash does not fail.
* With `NvsFaults`, every put and the reads of a saved reading, of the boot count and of the
  profile may fail; reading the retry count does not. A boot count cannot be read only when
  its flash does not open, and then it is not stored either.
* A reset by the watchdog is a power loss or a gateway restart (an action of its own in
  `Uplink`); time is not modelled, a timeout may come at any moment it is possible.
* A save of a reading that power cuts after its bytes leaves the retry count of an older one
  in flash; `SavedUntilNewer` lets the newer reading go when that count is worn out.
* `Provision` leaves out labels and WiFi credentials, takes house numbers to fit 16 bits,
  and takes a certificate as one write that is good or bad; its chunks are in `DeviceCert`.
  Forms and blobs come from the constants `Form` and `Payload`.
* In `DeviceCert` the fleet API and a CA sign whatever CSR they are given, and the profile is
  one write (`Provision` has its puts).
* `Uplink` leaves out NTP, which decides nothing, and what makes a network strong: a scan
  accepts or refuses. A connect may fail whether the broker is there or not (`ConnectFails`:
  no way to it, a refused login, a handshake that fails, no certificate to show).

## 3. Runs

`DeviceCert` and `Uplink` are checked for deadlock. The other runs set
`CHECK_DEADLOCK FALSE`: the bounds on readings, boots and messages end every behaviour
sooner or later.

| Configuration | Properties | What it shows |
|---|---|---|
| `MCSensor` | `SensorTypeOK`, `SlotReadable`, `SeqRises`, `WakeEnds`, `WakeRunsDown` | failing flash and power, a gateway that may answer anything: slot readable, numbers rise, every wake ends after a number of steps known when it begins |
| `MCGateway` | `GatewayTypeOK`, `OneSlotPerBox`, `HandedAtMost`, `ReceiverNeverStuck`, `CourierPromise` | packets with any boot count, both queues at their limit; the table as one mailbox for each box |
| `MCHouse` | `HouseTypeOK`, `NoFalseReplay`, `LandsOnce`, `FeedPromise`, `UnansweredIsSaved`, `SavedUntilNewer` | one channel, a REBOOT order, losses, late replies, restarts; what becomes of an unanswered reading |
| `MCHouseAir` | `NoFalseReplay`, `FeedPromise` | channel changes, strangers that fill the queue and are taken for replies, database failures, points that overwrite each other, a restart of the ingester, the gateway's own readings |
| `OtaUpdate` | `OtaTypeOK`, `BootsWholeSigned`, `FirmwarePromise`, `UpdateEnds` | any server, power loss anywhere |
| `MCProvision` | `ProvisionTypeOK`, `RoleIsOneSave`, `ReportedIsSound`, `SuccessIsForGood`, `NoBlobForgotten` | failing flash, power loss between the puts of a save, a phone and an operator at work |
| `DeviceCert` | `DeviceCertTypeOK`, `WholeCertificate`, `RoleHasIdentity`, `OkMeansStored`, `TransferHeals` | failing flash, broken transfers, power loss, four kinds of phone |
| `Uplink` | `UplinkTypeOK`, `SenderFollowsLink`, `OnlyVerified`, `KeptWhileDown`, `AliveIsWatched`, `ComesBack`, `GoneIsOffline`, `ServesWithoutBroker` | access point, broker and driver come and go under setup and publisher; a broker that is there may refuse |

Four runs end in a counterexample, each to something the sources say of themselves:

| Configuration | Property | Disagreement |
|---|---|---|
| `MCHouseHeard` | `DeliveredMeansHeard` | `EspNow.h:103` "(it heard us)"; the late reply to a reading that a power loss cut off is taken, in the next wake, for the answer to the fresh one |
| `MCHouseLanded` | `ClearedMeansLanded` | `ARCHITECTURE.md:244-245` "proof an OTA landed"; a power loss of the box clears the order as well |
| `MCProvisionOwnId` | `SuccessIsForGood` | `portal_provision.h:40` "On success the device reboots into its role"; the box with id 0001, the portal's placeholder, is sent back to the portal |
| `UplinkRejoin` | `EveryReconnect` | `wifi_manager.cpp:53-54` "this covers EVERY later reconnect too"; the WiFi library rejoins by itself, and then nobody sets ESP-NOW up again |

In the trace of `MCHouseHeard` nothing was saved or retried: the box loses power while it
listens, and the gateway gets to its first packet when the box is already listening for the
answer to its second. A reply to a retried reading, or a foreign frame (`Overhear`; the run has
neither another box nor `Strangers`), does the same.

Names of properties say what holds; where the code falls short of its words, the property
that is checked has the exception spelled out. Such disagreements, met while modelling and
without a run of their own:

* `storage.h:20-22` gives a saved reading up to `STORAGE_MAX_RETRIES` retries; the slot is
  single, and the next unanswered reading takes it (`main.cpp:345`): third case of
  `SavedUntilNewer`.
* `seq_counter.h` and `storage.h:12-13`: a reading overtaken by a newer one of its box (power
  lost between the answer and the clearing of the slot) is dropped as a replay although it
  was never accepted itself: `NoFalseReplay` speaks of it or a later one.
* `device_cert.cpp:10` "written to NVS once": flash that does not open reads as no key, and a
  new one is written over it (`device_cert.cpp:57`, `:95`): `rekeyed` in `RoleHasIdentity`.
* `ble_pairing.cpp:188` "starts a new transfer": the BEGIN marker is looked for within one
  write only, so a phone with short writes never empties the gathering after a transfer that
  was broken off: `~app.short` in `TransferHeals`.
* `ble_pairing.cpp:204` "validate + store": the callback may overwrite `s_cert_payload`
  between the parse and the put of `device_cert.cpp:207-215`: `~app.hasty` in
  `WholeCertificate`, `OkMeansStored` and `RoleHasIdentity`.
* `main.cpp:393` "background retry": a broker that accepts the connection and stalls keeps
  setup in the handshake until the watchdog bites (`tasks.cpp:367`): the premise of
  `ServesWithoutBroker`.
* `config.h:239` "how many readings can wait to be published": a connection lost during a
  round costs all that wait (`tasks.cpp:317-323`); `KeptWhileDown` holds of rounds that begin
  without one.
* `commission.cpp:216-220` compares the results of `putString` with `>= 0`, which always
  holds: `ReportedIsSound` speaks of the key, the numbers and the flag only. It also costs a
  success that was shown: a sensor whose gateway id was not written is reported as provisioned
  (`portal_provision.h:40` "On success the device reboots into its role") and, if flash holds no
  other valid id, rejected by the checks of setup at `main.cpp:485`. It is the third exception
  of `SuccessIsForGood`; without that disjunct `MCProvision` finds this behaviour.
* `main.cpp:496` speaks of going back to BLE pairing where the code opens the web portal, and
  `portal_provision.h:40-41` says the portal returns on timeout where it restarts the box.

### Bounds

* `HALF` 3 or 4 for 65536: enough for several boots and several messages in one. `CanRead`,
  `OwnReading` and `GatewayRestart` stop at the limits `seq_counter.h` documents for a
  device's life, through `BootLeft` and `MessageLeft`. In `MCGateway` the boot halves include
  the value of `BOOT_UNSET`.
* `MaxReadings` 2 or 3: a saved reading, the fresh one that meets it, and one after a reset.
* `CHANNEL_MAX` 1 or 2 for 13: a cached channel and another one. `STORAGE_MAX_RETRIES` 2 in
  `MCHouse`, 1 in `MCHouseAir`: with 1 a reading whose first retry is missed is
  already worn out, and clearing it too early would go unnoticed.
* `RX_QUEUE`, `DATA_QUEUE_SIZE` 1 or 2: both queues fill; in `MCHouse` two packets wait, as a
  late reply needs. `SLOTS` and `PENDING_CMD_TRIES` at most 2, with two boxes and two orders
  in `MCGateway`. An order that `Courier` turns away because all slots are taken needs a third
  box: that instance (three boxes, three orders, two slots; 5,960,304 states) keeps
  `CourierPromise` too, but takes longer than the other runs together and is not one of them.
  The theorem covers it.
* `MaxOwn`, `MaxRestarts` 0 or 1: the gateway's own series, one restart of the ingester.
* `SIZE` 2 chunks, `MAX_TOTAL` 3, four images: two updates in a row, an unsigned image, an
  announced length beyond the image.
* `MCProvision`: two houses, a gateway and a sensor form and a wrong one, one phone with a
  full blob, one that leaves the slot out and one without role and key.
* `DeviceCert`: a certificate of 3 chunks with room for 4, so that the rest of a broken
  transfer and the next one do not fit together; 2 flash faults and 2 broken transfers per
  behaviour.
* `Uplink`: a queue of 2, 3 readings, 1 order, 1 power cut; the network may change without
  limit.

### Fairness

* A sensor has weak fairness on its own steps (`WakeStep`, `Hop`): a sequential program that
  runs as long as it has power. Nothing is asked of the gateway, and the timer need not fire.
* The gateway has it on `ReceiverStep`: the receiver has the highest priority of the three
  tasks (`tasks.cpp:376-378`) and its only wait is limited to a second. Nothing is
  asked of the publisher, whose network may be gone.
* The update has it on `FlowStep`: every wait in it has a timeout.
* `DeviceCert`: the pairing loop runs, and the phone goes on with what it began; the property
  asks for a window that stays open.
* `Uplink`: setup and publisher run, as every wait has a limit; a network that is there
  again and again is joined and found at last, a broker that is there again and again accepts
  at last, and a dead connection is noticed at last (strong fairness: each may fail any number
  of times before); the broker keeps its time. That the broker accepts at last is asked of a
  gateway with a certificate: setup sends one without to the portal (`main.cpp:498`). A broker
  that refuses for good, or a certificate that is never readable again, is outside `ComesBack`;
  `ServesWithoutBroker` asks no broker to be there.

`House` and `Provision` have no fairness: they are checked for safety only.

## 4. Proofs

Every theorem holds for any values of the constants within the named assumptions of its
modules.

**`SensorProofs`**, with failing flash or not: `SensorTypeCorrect`, `SensorSlotReadable`,
`SensorSeqRises`, `SensorWakeRunsDown`; with sound flash `SensorUnansweredIsSaved` and
`SensorSavedUntilNewer`.

The inductive invariant is `SensorInv`. `SlotReadable` is not inductive: a flag is set one
step after the bytes, so `ControlInv` and `ReadingInv` say which job is under way at each
`pc`, that its reading has been taken, and that the bytes are in flash before the flag is
set. `SeqRises` needs `CounterInv`, which relates the highest number used to the boot count
in flash and to the RTC counter, with the exceptions that a failed put leaves. The arithmetic
of the two halves is in `CounterLemmas`. `SavedInv` and `KeptInv` say how far an unanswered
reading has got into its slot, and how old what is in the slot may be at each `pc`.

`WakeRunsDown` is what liveness leaves to prove: `StepsLeft` bounds what is left of a wake, and
every step of the box lowers it, whatever is heard (`WakeMoves` lists the ways a step can move
the box, `ChannelsLeft` counts the channels). `WakeEnds` then only needs that the box goes on
while it has power, the fairness under which TLC checks it.

**`GatewayProofs`**: `GatewayTypeCorrect`, `GatewayOneSlotPerBox`, `GatewayHandedAtMost`,
`GatewayCourierPromise`, `GatewayClearedWasHanded`.

`HandedAtMost` counts deliveries and says nothing of the slot that could make one more. The
invariant `TableInv` adds the budget of a slot, that deliveries and tries left together never
exceed `PENDING_CMD_TRIES`; that an order sits in one slot only, so that two slots do not
share a budget; and that an order not yet queued was not delivered.

`Courier` knows no slots, packets or boot counts. `MailIn` reads a box's mailbox off its slot;
the refinement needs that slots in use and boxes that wait match one to one (`SlotInUse`,
with `OneSlotPerBox`), so that the table is full just when `Room` boxes wait, and that an order
is cleared only after it went out.

**`HouseProofs`** puts the parts together. `PartsInv` keeps the invariants of box and gateway
in the house: to a box the house is a gateway that may answer anything
(`HouseImplementsBoxes`, a refinement of `SensorSpec`), and to the gateway a box is a source
of packets. What was proved of the parts carries over: `HouseTypeCorrect`, `HouseTable`,
`HouseBoxes`, `HouseUnansweredIsSaved`, `HouseSavedUntilNewer`, `HouseCourierPromise`. Three
results rest on flash. They do not ask that it never fails, only that the boot counts it was
given were stored (`BootsStored`): a lost reading, flag or retry count costs no uniqueness.
(`MCHouse` with `NvsFaults` and one retry, its states limited to those of `BootsStored`, keeps
its three invariants as well: 4,702,772 states.)

* `HouseNoFalseReplay`: the ingester drops a reading only if it, or one the box took
  later, was accepted;
* `HouseFeedPromise`: the house implements `ReadingFeed`.

Neither is inductive. (`HouseNoFalseReplayEach` and `HouseLandsOnceEach` say the same of each
device by itself, whatever flash does to the others; `HouseWithSoundFlash` says that flash
which does not fail, as in the runs, meets the assumption.) `RankInv` is the reason they hold:
of all readings of a device, wherever they are (in a box's job or slot, in either queue, in a
task's hand, past the ingester), a higher number belongs to a younger reading, and none is
above the number and the age the device has reached. A fresh reading keeps it by `TopRises` of
`SensorProofs` (a gateway's by `SelfInv`, which keeps its number within the block of its boot)
and every other step only moves, copies or loses readings (`NoneForged`). `LastInv` ties the
number the ingester remembers to a reading it let in, and `SoundInv` says that no boot count
was stored in vain.

* `HouseLandsOnce`: an order restarts a box once.

What is left of an order that landed - a reply still in the mailbox, a slot that would send it
again - must not be obeyed. `OnceInv` says why it is not. A reply is signed for one number,
and a box obeys it only while its fresh reading has that number (`FreshAt`); a restart makes
the boot half of every such reply one that no later reading has (`Spent`, kept by every step
because a lost RTC counter starts a new block, `SpentKept`). The slot is either marked with a
boot half that is spent too, and is cleared at the next check-in, or not marked at all, which
`CarriedAt` rules out for an order that was handed out; in the last boot of all, whose boot
half is the mark for "not delivered" itself, there is no later number to obey (`SpentPacket`).
`HandedAtMost` alone would allow `PENDING_CMD_TRIES` restarts.

With flash that fails in any way:

* `HouseOneBoxObeys`: no box obeys an order queued for another box, or one that was not handed
  out. `MeantInv` follows an order from its slot over a late or torn reply to the box's memory:
  all places that hold it belong to one box.
* `HouseClearedWasHanded`: what is left of the claim that `house_landed` refutes. An order
  cleared as landed was handed out at least once. Of the claim that `house_heard` refutes
  nothing is left: with a foreign frame a box may report a reading as delivered that was never
  heard by any gateway.

**`OtaProofs`** (assumption `OtaAssumption`): `OtaTypeCorrect`, `OtaSafe`
(`BootsWholeSigned`), `OtaImplementsFirmware` (`FirmwarePromise`) and `OtaUpdateRunsDown`: an update is over after `SIZE` + 8 steps at most,
the safety half of `UpdateEnds`. The invariant adds that the boot partition is the running one
until `End`, that behind the digest check the spare partition holds exactly the commanded
image, and that behind the signature check this image is signed.

**`DeviceCertProofs`** (assumption `DeviceCertAssumption`): `DeviceCertTypeCorrect`,
`DeviceCertWhole`, `DeviceCertRoleHasIdentity`, `DeviceCertOkMeansStored`. `CertInv`, of a
phone that waits, relates certificate, key and `rekeyed` (`CrtInv`, `OwnInv`, `RoleInv`) and
says that what is pending is what the phone sent last and that nothing is overwritten between
check and put (`IdleInv`, `TransferInv`); `PatientInv` is what is left of it for any phone.

**`UplinkProofs`** (assumption `UplinkAssumption`): `UplinkTypeCorrect`,
`UplinkSenderFollowsLink`, `UplinkOnlyVerified`, `UplinkKeptWhileDown`,
`UplinkAliveIsWatched`. `UplinkInv` says in
which states of the link each place of the code is reached (`LinkInv`), that a re-init lies
between a join and the publisher's work (`SenderInv`), and that a round that serves had a
session (`MetInv`). `AliveIsWatched` is the safety half of `GoneIsOffline`: whatever is left on
the status topic, the broker holds the will that corrects it (`WatchInv`).

**`ProvisionProofs`**, with failing flash unless it says otherwise: `ProvisionTypeCorrect`,
`ProvisionReportedIsSound`, `ProvisionRoleIsOneSave`, `ProvisionNoBlobForgotten`, and

* `ProvisionSuccessIsForGood`, on a box whose id is not the portal's placeholder: a profile the
  portal reported as saved is sent back to the portal only by the three flash failures that the
  property names;
* `ProvisionOnlyOwnIdFails`, with flash that works: the counterexample of `provision_own_id`, a
  sensor that would name itself as its gateway, is the only way a success is taken back;
* `ProvisionPromisedIsRun`: after the portal showed success, mixed flash or not, what runs is
  what it reported, but for the gateway id of a sensor, whose put may have failed unnoticed.

`promised` is the profile of every success the portal shows, however its puts went; it ends
with the next save or with a wipe. `RoleIsOneSave` speaks of the end of setup, long after the
save it is about. `ProvisionInv` carries it there: `PutsInv` says which fields the puts made so
far have written, `FlashInv` that flash which is not mixed has no key, is what was saved last,
or is just being saved over, and `BootedInv` that what setup has at hand is what flash has.
`Same` leaves out a gateway's id, which setup corrects by a save of its own. `PromiseInv` ties
what was promised to flash: `KeptInv` that flash has every field of it but, perhaps, a gateway
id, `AtHandInv` that setup loads just that or nothing, `UnderwayInv` that a save under way has
taken the promise back or only corrects a gateway's own id, and `SoundFlashInv` that with flash
that works nothing is missing.

Only model-checked: `WakeEnds`, `ReceiverNeverStuck`, `UpdateEnds`, `TransferHeals`,
`ComesBack`, `GoneIsOffline`, `ServesWithoutBroker` (liveness under fairness is beyond the
prover, and so is `ENABLED`). For `WakeEnds`, `UpdateEnds` and `GoneIsOffline` a theorem holds
the safety half, a bound that only falls or a will that is always there; for the others no
such bound exists, as the network, the phone or the packets on the air may begin anew at any
time. Every safety property and all three refinements of the passing runs have a theorem.

## 5. Plan

Done, in this order: `SeqCounter`, `Messages`, `Sensor`; `CommandTable`, `Gateway`; `Ingest`,
`House`, `ReadingFeed`; `OtaUpdate`, `Firmware`; `SensorProofs`, `OtaProofs`; `Commission`,
`Provision`; `GatewayProofs`; `DeviceCert`, `Uplink` and their proofs; `HouseProofs`,
`ProvisionProofs`; `Courier`, and the theorems on failing flash and on bounded wakes and
updates.

Next:

1. `Provision` as the implementation of an abstract commissioning service (a profile is either
   the one promised or none), as `OtaUpdate` implements `Firmware`; it needs an account of
   mixed flash that the abstract specification does not have yet.
2. `House` with a gateway whose reply path may be dead (`espnow_gateway_reinit` in `Uplink`)
   and with a box's certificate transfer beside its role, composed instead of apart.
3. Two boxes at two check-ins each in `MCHouse`: the theorems hold for any number of boxes,
   but the run only has room for one.

### Not modelled

Crypto mathematics, payload conversion, pages and captive DNS of the portal: pure functions
or presentation, taken at their callers' word (section 2). Drivers, self-test, LED, logging,
identity: sequential I/O with no state that other parts rely on. Factory images and guides:
not code of the system. NTP, labels and WiFi credentials decide nothing the properties see.

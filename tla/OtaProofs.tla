------------------------------ MODULE OtaProofs ------------------------------
(***************************************************************************)
(* Proofs about OtaUpdate: for every set of images, every image size and   *)
(* every announced length, what a box boots next is whole and signed, the  *)
(* running partition is not touched, the update implements Firmware, and   *)
(* it is over after a number of steps known when it starts.                *)
(*                                                                         *)
(* The inductive invariant adds to BootsWholeSigned what each stage has    *)
(* established: until Update.end the box boots what it runs, past the      *)
(* digest check the spare partition holds the wanted image, past the       *)
(* signature check that image is one of ours.                              *)
(***************************************************************************)
EXTENDS OtaUpdate, TLAPS

(* Until the last step the spare partition is not the one to boot.         *)
BootsRunning == pc # "restart" => boot = running

(* What the checks have established about the spare partition.             *)
SpareChecked ==
    /\ pc \in {"sign", "end"} => flash[Spare] = Whole(want)
    /\ pc = "end" => want \in Signed

(* An update under way was commanded.                                      *)
WantedIsAsked == pc # "idle" => want \in asked

OtaInv == OtaTypeOK /\ BootsWholeSigned /\ BootsRunning /\ SpareChecked /\ WantedIsAsked

-----------------------------------------------------------------------------
LEMMA OtherPartition ==
    \A p \in Partition : Other(p) \in Partition /\ Other(p) # p
  BY DEF Partition, Other

LEMMA OtaInitInv == OtaInit => OtaInv
  BY OtaAssumption
  DEF OtaInit, OtaInv, OtaTypeOK, BootsWholeSigned, BootsRunning, SpareChecked,
      WantedIsAsked, Stage, Partition, Content, Whole

(* One step of the flow keeps the invariant; one case per action.          *)
LEMMA OtaStepInv == OtaInv /\ [OtaNext]_otaVars => OtaInv'
  <1> SUFFICES ASSUME OtaInv, [OtaNext]_otaVars PROVE OtaInv'
      OBVIOUS
  <1> USE OtaAssumption, OtherPartition
      DEF OtaInv, OtaTypeOK, BootsRunning, SpareChecked, WantedIsAsked, Stage, Spare
  <1>fail. ASSUME NEW at, at # "restart", Fail(at) PROVE OtaInv'
      BY <1>fail DEF Fail, BootsWholeSigned
  <1>1. ASSUME NEW i \in Image, NEW https \in BOOLEAN, NEW hex \in BOOLEAN,
               Start(i, https, hex)
        PROVE  OtaInv'
      BY <1>1 DEF Start, BootsWholeSigned
  <1>2. CASE Connect
      BY <1>2, <1>fail DEF Connect, BootsWholeSigned
  <1>3. CASE HttpGet
    <2>1. CASE Fail("get") BY <2>1, <1>fail
    <2>2. CASE ~Fail("get")
        BY <1>3, <2>2 DEF HttpGet, BootsWholeSigned
    <2> QED BY <2>1, <2>2
  <1>4. CASE Begin
    <2>1. CASE Fail("begin") BY <2>1, <1>fail
    <2>2. CASE ~Fail("begin")
      <3>1. PICK i \in Image : flash' = [flash EXCEPT ![Other(running)] = [image |-> i, len |-> 0]]
          BY <1>4, <2>2 DEF Begin
      <3>2. pc = "begin" /\ pc' = "stream" /\ UNCHANGED <<want, total, boot, running, asked>>
          BY <1>4, <2>2 DEF Begin
      <3>3. flash' \in [Partition -> Content]
          BY <3>1 DEF Content
      <3>4. flash'[boot] = flash[boot]
          BY <3>1, <3>2
      <3> QED BY <3>2, <3>3, <3>4 DEF BootsWholeSigned
    <2> QED BY <2>1, <2>2
  <1>5. CASE Chunk
    <2>1. flash' = [flash EXCEPT ![Other(running)].len = @ + 1]
        BY <1>5 DEF Chunk
    <2>2. /\ pc = "stream" /\ flash[Other(running)].len < SIZE
          /\ UNCHANGED <<pc, want, total, boot, running, asked>>
        BY <1>5 DEF Chunk
    <2>3. flash' \in [Partition -> Content]
        BY <2>1, <2>2 DEF Content
    <2>4. flash'[boot] = flash[boot]
        BY <2>1, <2>2
    <2> QED BY <2>2, <2>3, <2>4 DEF BootsWholeSigned
  <1>6. CASE StreamFailed
      BY <1>6, <1>fail DEF StreamFailed
  <1>7. CASE StreamEnds
      BY <1>7 DEF StreamEnds, BootsWholeSigned
  <1>8. CASE CheckDigest
      BY <1>8 DEF CheckDigest, DigestMatches, BootsWholeSigned, Whole
  <1>9. CASE CheckSignature
    <2>1. CASE Fail("sign") BY <2>1, <1>fail
    <2>2. CASE ~Fail("sign")
        BY <1>9, <2>2 DEF CheckSignature, SignatureValid, BootsWholeSigned, Whole
    <2> QED BY <2>1, <2>2
  <1>10. CASE End
    <2>1. CASE Fail("end") BY <2>1, <1>fail
    <2>2. CASE ~Fail("end")
        BY <1>10, <2>2 DEF End, BootsWholeSigned, Whole
    <2> QED BY <2>1, <2>2
  <1>11. CASE Reboot
      BY <1>11 DEF Reboot, BootsWholeSigned
  <1>12. CASE UNCHANGED otaVars
      BY <1>12 DEF otaVars, BootsWholeSigned
  <1> QED
      BY <1>1, <1>2, <1>3, <1>4, <1>5, <1>6, <1>7, <1>8, <1>9, <1>10, <1>11, <1>12
      DEF OtaNext, FlowStep

LEMMA OtaAlwaysInv == OtaSpec => []OtaInv
  BY OtaInitInv, OtaStepInv, PTL DEF OtaSpec

-----------------------------------------------------------------------------
(* The types of the update's state: ota_remote_run, ota_self_update_https. *)
THEOREM OtaTypeCorrect == OtaSpec => []OtaTypeOK
  BY OtaAlwaysInv, PTL DEF OtaInv

(* Power may fail anywhere in an update: the partition that boots next is  *)
(* whole and signed by us.                                                 *)
THEOREM OtaSafe == OtaSpec => []BootsWholeSigned
  BY OtaAlwaysInv, PTL DEF OtaInv

-----------------------------------------------------------------------------
(* A step of the update is a step of Firmware, or changes nothing of it.   *)
LEMMA OtaStepRefines ==
    OtaInv /\ [OtaNext]_otaVars => [Promise!Next]_<<flash[boot].image, asked>>
  <1> SUFFICES ASSUME OtaInv, [OtaNext]_otaVars
               PROVE  [Promise!Next]_<<flash[boot].image, asked>>
      OBVIOUS
  <1> USE OtherPartition DEF OtaInv, OtaTypeOK, BootsRunning, Spare
  <1>1. ASSUME NEW i \in Image, NEW https \in BOOLEAN, NEW hex \in BOOLEAN,
               Start(i, https, hex)
        PROVE  Promise!Next
      BY <1>1 DEF Start, Promise!Next, Promise!Ask
  <1>2. CASE Begin
    <2>1. flash'[boot] = flash[boot]
        BY <1>2 DEF Begin, Fail
    <2> QED BY <2>1, <1>2 DEF Begin, Fail
  <1>3. CASE Chunk
    <2>1. flash'[boot] = flash[boot]
        BY <1>3 DEF Chunk
    <2> QED BY <2>1, <1>3 DEF Chunk
  <1>4. CASE End
    <2>1. CASE Fail("end") BY <2>1 DEF Fail
    <2>2. CASE ~Fail("end")
      <3>1. flash[Other(running)].image = want /\ want \in Signed /\ want \in asked
          BY <1>4, <2>2 DEF End, SpareChecked, WantedIsAsked, Whole
      <3>2. flash'[boot'].image = want /\ asked' = asked
          BY <1>4, <2>2, <3>1 DEF End
      <3>3. want \in Image
          OBVIOUS
      <3> QED BY <3>1, <3>2, <3>3 DEF Promise!Next, Promise!Install
    <2> QED BY <2>1, <2>2
  <1>5. CASE UNCHANGED <<flash, boot, asked>>
      BY <1>5
  <1> QED
      BY <1>1, <1>2, <1>3, <1>4, <1>5
      DEF OtaNext, FlowStep, Connect, HttpGet, StreamFailed, StreamEnds,
          CheckDigest, CheckSignature, Reboot, Fail, otaVars

(* The update keeps the promise of module Firmware: what a box boots       *)
(* changes only to an image that was signed and asked for.                 *)
THEOREM OtaImplementsFirmware == OtaSpec => FirmwarePromise
  <1>1. OtaInit => Promise!Init
      BY DEF OtaInit, Promise!Init, Whole, Partition
  <1> QED
      BY <1>1, OtaAlwaysInv, OtaStepRefines, PTL
      DEF OtaSpec, FirmwarePromise, Promise!Spec

-----------------------------------------------------------------------------
(* The safety half of UpdateEnds                                           *)

(* The steps an update may still take; a download counts its chunks.       *)
FlowLeft ==
    CASE pc = "idle" -> 0
      [] pc = "restart" -> 1
      [] pc = "end" -> 2
      [] pc = "sign" -> 3
      [] pc = "hash" -> 4
      [] pc = "stream" -> 5 + (SIZE - flash[Spare].len)
      [] pc = "begin" -> SIZE + 6
      [] pc = "get" -> SIZE + 7
      [] pc = "connect" -> SIZE + 8

(* Nothing the server sends, and no failure, makes an update longer.       *)
UpdateRunsDown == [][pc # "idle" => FlowLeft' < FlowLeft]_otaVars

LEMMA FlowLeftBound == OtaTypeOK => FlowLeft \in 0 .. SIZE + 8
  <1> SUFFICES ASSUME OtaTypeOK PROVE FlowLeft \in 0 .. SIZE + 8
      OBVIOUS
  <1>1. SIZE \in Nat /\ SIZE - flash[Spare].len \in 0 .. SIZE
      BY OtaAssumption, OtherPartition DEF OtaTypeOK, Spare, Content
  <1>2. pc \in Stage
      BY DEF OtaTypeOK
  <1>3. CASE pc = "stream"
      BY <1>1, <1>3 DEF FlowLeft
  <1>4. CASE pc # "stream"
      BY <1>1, <1>2, <1>4 DEF FlowLeft, Stage
  <1> QED BY <1>3, <1>4

(* An update is over after at most SIZE + 8 steps, whatever the server     *)
(* announces, sends or leaves out (ota_remote_run, ota_self_update_https:  *)
(* each stage is passed once).                                             *)
THEOREM OtaUpdateRunsDown ==
    OtaSpec => [](FlowLeft \in 0 .. SIZE + 8) /\ UpdateRunsDown
  <1>1. OtaInv /\ [OtaNext]_otaVars => [pc # "idle" => FlowLeft' < FlowLeft]_otaVars
    <2> SUFFICES ASSUME OtaInv, OtaNext, pc # "idle" PROVE FlowLeft' < FlowLeft
        BY DEF otaVars
    <2> USE OtaAssumption, OtherPartition DEF OtaInv, OtaTypeOK, Spare, Stage, Content
    <2>left. FlowLeft \in Nat /\ FlowLeft > 0
        BY DEF FlowLeft
    <2>idle. CASE pc' = "idle"
        BY <2>idle, <2>left DEF FlowLeft
    <2>1. CASE Connect /\ pc' # "idle"
        BY <2>1 DEF Connect, Fail, FlowLeft
    <2>2. CASE HttpGet /\ pc' # "idle"
        BY <2>2 DEF HttpGet, Fail, FlowLeft
    <2>3. CASE Begin /\ pc' # "idle"
      <3>1. PICK i \in Image : flash' = [flash EXCEPT ![Other(running)] = [image |-> i, len |-> 0]]
          BY <2>3 DEF Begin, Fail
      <3>2. pc = "begin" /\ pc' = "stream" /\ running' = running
          BY <2>3 DEF Begin, Fail
      <3>3. flash'[Spare'].len = 0
          BY <3>1, <3>2
      <3> QED BY <3>2, <3>3 DEF FlowLeft
    <2>4. CASE Chunk
      <3>1. flash' = [flash EXCEPT ![Other(running)].len = @ + 1]
          BY <2>4 DEF Chunk
      <3>2. pc = "stream" /\ pc' = "stream" /\ running' = running
          BY <2>4 DEF Chunk
      <3>3. flash'[Spare'].len = flash[Spare].len + 1 /\ flash[Spare].len \in Nat
          BY <3>1, <3>2
      <3> QED BY <3>2, <3>3 DEF FlowLeft
    <2>5. CASE StreamEnds
      <3>1. flash[Spare].len \in 0 .. SIZE
          OBVIOUS
      <3> QED BY <2>5, <3>1 DEF StreamEnds, FlowLeft
    <2>6. CASE (CheckDigest \/ CheckSignature \/ End) /\ pc' # "idle"
        BY <2>6 DEF CheckDigest, CheckSignature, End, Fail, FlowLeft
    <2> QED
        BY <2>idle, <2>1, <2>2, <2>3, <2>4, <2>5, <2>6
        DEF OtaNext, FlowStep, Start, StreamFailed, Fail, Reboot
  <1>2. OtaInv => FlowLeft \in 0 .. SIZE + 8
      BY FlowLeftBound DEF OtaInv
  <1> QED BY <1>1, <1>2, OtaAlwaysInv, PTL DEF OtaSpec, UpdateRunsDown

=============================================================================

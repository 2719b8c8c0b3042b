------------------------------ MODULE OtaUpdate ------------------------------
(***************************************************************************)
(* An over-the-air update, core/ota_remote.cpp ota_remote_run (sensor) and *)
(* core/ota_manager.cpp ota_self_update_https (gateway): the same flow on  *)
(* both.  The image is streamed into the spare partition while its SHA-256 *)
(* is computed, the digest is compared with the commanded one, a detached  *)
(* signature is fetched and verified, and only then does Update.end make   *)
(* the spare partition the one to boot.                                    *)
(*                                                                         *)
(* The server is not trusted: it may serve any image, announce any length, *)
(* stop in the middle or answer nothing.  Power, or the watchdog, may end  *)
(* the flow between any two steps.  Digests are taken to be collision-free *)
(* and signatures to exist only for the images in Signed.                  *)
(***************************************************************************)
EXTENDS Naturals

CONSTANTS
    Image,      \* firmware images anybody may serve
    Signed,     \* the ones our key signed
    Factory,    \* the one flashed at the factory
    SIZE,       \* chunks of an image
    MAX_TOTAL   \* OTA_MAX_FIRMWARE_BYTES, in chunks

ASSUME OtaAssumption ==
    /\ Signed \subseteq Image
    /\ Factory \in Signed
    /\ SIZE \in Nat \ {0}
    /\ MAX_TOTAL \in Nat

Partition == {"app0", "app1"}
Other(p) == IF p = "app0" THEN "app1" ELSE "app0"

(* The first len chunks of an image.                                       *)
Content == [image : Image, len : 0 .. SIZE]
Whole(i) == [image |-> i, len |-> SIZE]

VARIABLES
    pc,        \* where the flow is
    want,      \* the commanded SHA-256: the image it is the digest of
    total,     \* Content-Length
    flash,     \* what the two app partitions hold
    boot,      \* the partition the bootloader will start
    running,   \* the partition this boot started from
    asked      \* images updates were commanded for

otaVars == <<pc, want, total, flash, boot, running, asked>>

Stage == {"idle", "connect", "get", "begin", "stream", "hash", "sign", "end", "restart"}

OtaTypeOK ==
    /\ pc \in Stage
    /\ want \in Image
    /\ total \in 0 .. MAX_TOTAL
    /\ flash \in [Partition -> Content]
    /\ boot \in Partition
    /\ running \in Partition
    /\ asked \subseteq Image

OtaInit ==
    /\ pc = "idle"
    /\ want = Factory
    /\ total = 0
    /\ flash = [p \in Partition |-> Whole(Factory)]
    /\ boot = "app0"
    /\ running = "app0"
    /\ asked = {}

-----------------------------------------------------------------------------
(* The partition Update writes to.                                         *)
Spare == Other(running)

(* Every failure gives up in the same way: nothing written is booted.      *)
Fail(at) ==
    /\ pc = at
    /\ pc' = "idle"
    /\ UNCHANGED <<want, total, flash, boot, running, asked>>

(* The policy gates: only an https URL with 64 hex digits gets here.       *)
Start(i, https, hex) ==
    /\ pc = "idle"
    /\ https /\ hex
    /\ pc' = "connect"
    /\ want' = i
    /\ asked' = asked \cup {i}
    /\ UNCHANGED <<total, flash, boot, running>>

(* WiFi credentials and WPA2 link on a sensor, link status on a gateway.   *)
Connect ==
    \/ Fail("connect")
    \/ /\ pc = "connect"
       /\ pc' = "get"
       /\ UNCHANGED <<want, total, flash, boot, running, asked>>

(* Mutant: any length is taken.                                            *)
HttpGetAnyLength ==
    \/ Fail("get")
    \/ /\ pc = "get"
       /\ \E n \in 0 .. MAX_TOTAL + 1 : total' = n
       /\ pc' = "begin"
       /\ UNCHANGED <<want, flash, boot, running, asked>>

(* HTTP GET: status and Content-Length; none and too long are refused.     *)
HttpGet ==
    \/ Fail("get")
    \/ /\ pc = "get"
       /\ \E n \in 0 .. MAX_TOTAL + 1 : n # 0 /\ n <= MAX_TOTAL /\ total' = n
       /\ pc' = "begin"
       /\ UNCHANGED <<want, flash, boot, running, asked>>

(* Update.begin erases the spare partition; the server starts to send some *)
(* image into it.                                                          *)
Begin ==
    \/ Fail("begin")
    \/ /\ pc = "begin"
       /\ \E i \in Image : flash' = [flash EXCEPT ![Spare] = [image |-> i, len |-> 0]]
       /\ pc' = "stream"
       /\ UNCHANGED <<want, total, boot, running, asked>>

(* Stream and hash in one pass.  A stall or a short write fails.           *)
Chunk ==
    /\ pc = "stream"
    /\ flash[Spare].len < total /\ flash[Spare].len < SIZE
    /\ flash' = [flash EXCEPT ![Spare].len = @ + 1]
    /\ UNCHANGED <<pc, want, total, boot, running, asked>>

StreamFailed == Fail("stream")

(* Content-Length bytes have come, or the server closed the connection.    *)
StreamEnds ==
    /\ pc = "stream"
    /\ pc' = "hash"
    /\ UNCHANGED <<want, total, flash, boot, running, asked>>

(* Mutant: the digest is not compared.                                     *)
DigestIgnored == TRUE

(* The digest of what was written against the commanded one.               *)
DigestMatches == flash[Spare] = Whole(want)

(* Mutant: a wrong image is downloaded again.                              *)
CheckDigestAgain ==
    /\ pc = "hash"
    /\ pc' = IF DigestMatches THEN "sign" ELSE "get"
    /\ UNCHANGED <<want, total, flash, boot, running, asked>>

(* A wrong image ends the update.                                          *)
CheckDigest ==
    /\ pc = "hash"
    /\ pc' = IF DigestMatches THEN "sign" ELSE "idle"
    /\ UNCHANGED <<want, total, flash, boot, running, asked>>

(* Mutant: a genuine signature, of whatever image.                         *)
SignatureGenuine(genuine) == genuine

(* Fetch <url>.sig and verify it over the digest: a genuine signature      *)
(* exists only for a signed image.                                         *)
SignatureValid(genuine) == genuine /\ flash[Spare].image \in Signed

CheckSignature ==
    \/ Fail("sign")
    \/ /\ pc = "sign"
       /\ \E genuine \in BOOLEAN :
            pc' = IF SignatureValid(genuine) THEN "end" ELSE "idle"
       /\ UNCHANGED <<want, total, flash, boot, running, asked>>

(* Update.end(true): the spare partition becomes the one to boot.          *)
End ==
    \/ Fail("end")
    \/ /\ pc = "end"
       /\ boot' = Spare
       /\ pc' = "restart"
       /\ UNCHANGED <<want, total, flash, running, asked>>

(* ESP.restart, a power cut, the watchdog: the bootloader decides.         *)
Reboot ==
    /\ pc' = "idle"
    /\ running' = boot
    /\ UNCHANGED <<want, total, flash, boot, asked>>

FlowStep ==
    \/ Connect \/ HttpGet \/ Begin
    \/ Chunk \/ StreamFailed \/ StreamEnds
    \/ CheckDigest \/ CheckSignature \/ End
    \/ pc = "restart" /\ Reboot

OtaNext ==
    \/ \E i \in Image, https, hex \in BOOLEAN : Start(i, https, hex)
    \/ FlowStep
    \/ Reboot

OtaSpec == OtaInit /\ [][OtaNext]_otaVars

(* The flow runs to its end while there is power.                          *)
OtaFairSpec == OtaSpec /\ WF_otaVars(FlowStep)

-----------------------------------------------------------------------------
(* Properties                                                              *)

(* Whenever power fails, the partition that boots next holds a whole image *)
(* of ours ("ANY failure keeps the OLD firmware", ota_manager.cpp).        *)
BootsWholeSigned ==
    /\ flash[boot] = Whole(flash[boot].image)
    /\ flash[boot].image \in Signed

(* The update implements module Firmware.                                  *)
Promise == INSTANCE Firmware WITH image <- flash[boot].image

FirmwarePromise == Promise!Spec

(* Every update comes to an end: a sensor goes back to sleep, a gateway    *)
(* back to publishing.                                                     *)
UpdateEnds == pc # "idle" ~> pc = "idle"

=============================================================================

----------------------------- MODULE MCGateway -----------------------------
(***************************************************************************)
(* The gateway alone, against boxes that send anything at any time.        *)
(***************************************************************************)
EXTENDS Gateway

MCOrder == {[id |-> 1, cmd |-> "OTA"], [id |-> 2, cmd |-> "PING"]}

(* One reading of boot 0 and one of the boot whose half is BOOT_UNSET:     *)
(* the boot half is all the gateway reads of a seq.                        *)
MCOnAir == {[n |-> 1, seq |-> BootBase(b) + 1] : b \in {0, BOOT_UNSET}}

=============================================================================

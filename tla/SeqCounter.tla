----------------------------- MODULE SeqCounter -----------------------------
(***************************************************************************)
(* core/seq_counter.cpp: the anti-replay sequence number every reading     *)
(* carries.  It is a 32-bit word made of two halves,                       *)
(*                                                                         *)
(*     seq = [ boot count ][ messages since that boot ]                    *)
(*                                                                         *)
(* The boot count is kept in flash (NVS) and bumped whenever the counter   *)
(* in RAM was lost; the number of messages is counted in RAM.  The module  *)
(* has no state: it holds the arithmetic shared by the sensor, the gateway *)
(* and the proofs.                                                         *)
(***************************************************************************)
EXTENDS Integers

CONSTANT HALF     \* values of one half of the word; 65536 in the firmware

ASSUME HalfAssumption == HALF \in Nat /\ HALF > 1

(* Base of a boot's block: (boot & 0xFFFF) << 16.                          *)
BootBase(boot) == (boot % HALF) * HALF

(* seq++ on a uint32_t.                                                    *)
NextSeq(seq) == (seq + 1) % (HALF * HALF)

(* The boot half, (uint16_t)(seq >> 16): what the gateway reads.           *)
BootOf(seq) == seq \div HALF

(* The documented limits of seq_counter.h: a device sees fewer than HALF   *)
(* boots in its life and sends fewer than HALF messages between two.       *)
BootLeft(boot)   == boot < HALF - 1
MessageLeft(seq) == seq % HALF < HALF - 1

=============================================================================

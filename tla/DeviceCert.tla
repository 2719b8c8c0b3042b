------------------------------ MODULE DeviceCert ------------------------------
(***************************************************************************)
(* The X.509 identity of a gateway: core/device_cert.cpp, the certificate  *)
(* channel of core/ble_pairing.cpp, the certificate steps of do_enroll     *)
(* (core/portal_provision.cpp) and the safety net of main.cpp setup.  A    *)
(* key pair is known by its generation, a certificate by the generation of *)
(* the key it certifies.  A phone reads the CSR, has it signed and writes  *)
(* the certificate back in chunks, to callbacks on the BLE task, while the *)
(* main task checks and stores what was gathered.                          *)
(***************************************************************************)
EXTENDS Integers, Sequences

CONSTANTS
    Chunks,      \* writes a certificate is cut into
    Cap,         \* chunks that fit into s_cert_payload
    FlashFaults, \* flash accesses that fail, per behaviour
    LinkTrouble  \* transfers broken off or not a certificate, per behaviour

ASSUME DeviceCertAssumption ==
    /\ Chunks \in Nat \ {0, 1} /\ Cap \in Nat /\ Chunks <= Cap
    /\ FlashFaults \in Nat /\ LinkTrouble \in Nat

VARIABLES
    pc,           \* where setup or the pairing loop is
    commissioned, \* the profile in flash is a gateway's
    key,          \* flash: the generation of the private key, 0 for none
    crt,          \* flash: the key the certificate certifies, 0 for none
    csr,          \* the CSR characteristic: the key it asks for, 0 if empty
    ble,          \* s_cert_accum, s_cert_payload, s_cert_pending
    phone,        \* the certificate it holds, its transfer, the answer
    app,          \* how the phone writes, the same throughout: chunks shorter
                  \* than the BEGIN marker; again before the box is done
    left,         \* faults that may still come
    rekeyed       \* read by no step: a key took the place of another one and
                  \* no certificate was stored since

certVars == <<pc, commissioned, key, crt, csr, ble, phone, app, left, rekeyed>>
flash == <<commissioned, key, crt, rekeyed>>

NotACert == 0  \* a text with both markers that does not parse
Torn == -1     \* stored text that is no certificate
Chunk == [text : Nat, at : 1 .. Chunks]
Quiet == [accum |-> <<>>, payload |-> <<>>, pending |-> FALSE]
NoPhone == [signed |-> 0, text |-> NotACert, next |-> 0, heard |-> "none"]
Window == {"window", "check", "put", "wipe"}

DeviceCertTypeOK ==
    /\ pc \in {"off", "boot", "portal", "enrol", "house", "role"} \cup Window
    /\ commissioned \in BOOLEAN /\ rekeyed \in BOOLEAN
    /\ key \in Nat /\ csr \in Nat /\ crt \in Nat \cup {Torn}
    /\ ble \in [accum : Seq(Chunk), payload : Seq(Chunk), pending : BOOLEAN]
    /\ Len(ble.accum) <= Cap /\ Len(ble.payload) <= Cap
    /\ phone \in [signed : Nat, text : Nat, next : 0 .. Chunks + 1,
                  heard : {"none", "OK", "ERR"}]
    /\ app \in [short : BOOLEAN, hasty : BOOLEAN]
    /\ left \in [flash : 0 .. FlashFaults, link : 0 .. LinkTrouble]

DeviceCertInit ==
    /\ pc = "off"
    /\ commissioned = FALSE /\ key = 0 /\ crt = 0 /\ rekeyed = FALSE
    /\ csr = 0 /\ ble = Quiet /\ phone = NoPhone
    /\ app \in [short : BOOLEAN, hasty : BOOLEAN]
    /\ left = [flash |-> FlashFaults, link |-> LinkTrouble]

(* A flash access fails, a transfer goes wrong.                            *)
FlashFails == left.flash > 0 /\ left' = [left EXCEPT !.flash = @ - 1]
LinkFails == left.link > 0 /\ left' = [left EXCEPT !.link = @ - 1]

-----------------------------------------------------------------------------
(* What a buffer holds: junk before the marker is skipped, a second marker *)
(* inside or anything missing does not parse.                              *)
Begins(b) ==
    {i \in 1 .. Len(b) : /\ b[i].at = 1
                         /\ app.short => i < Len(b) /\ b[i + 1].at = 2}

WholeFrom(b, i) ==
    /\ Begins(b) = {i}
    /\ i + Chunks - 1 <= Len(b)
    /\ \A j \in 1 .. Chunks : b[i + j - 1] = [text |-> b[i].text, at |-> j]

Holds(b) ==
    IF \E i \in Begins(b) : WholeFrom(b, i)
    THEN b[CHOOSE i \in Begins(b) : WholeFrom(b, i)].text
    ELSE NotACert

(* Mutants: no marker empties the gathering; nor does anything limit it.   *)
GatheredOn(b, c) == IF Len(b) < Cap THEN Append(b, c) ELSE b

GatheredAny(b, c) == Append(b, c)

(* CertWriteCB: a chunk with the whole BEGIN marker empties the gathering, *)
(* a chunk that does not fit is dropped, the END marker hands it over.     *)
Gathered(b, c) ==
    LET fresh == IF c.at = 1 /\ ~app.short THEN <<>> ELSE b
    IN  IF Len(fresh) < Cap THEN Append(fresh, c) ELSE fresh

Ended(b) == \E i \in 1 .. Len(b) : b[i].at = Chunks

Receive(c) ==
    LET accum == Gathered(ble.accum, c)
    IN  ble' = [accum |-> accum,
                payload |-> IF Ended(accum) THEN accum ELSE ble.payload,
                pending |-> ble.pending \/ Ended(accum)]

-----------------------------------------------------------------------------
(* Boot                                                                    *)

(* Mutant: a key is made at every boot.                                    *)
MakeKeyAlways == key' = key + 1 /\ UNCHANGED <<rekeyed, left>>

(* device_cert_init: a key is made where none is read.  Flash that does    *)
(* not open for reading looks like flash without a key, and the new key    *)
(* goes over the old one; flash that does not take it leaves what it held. *)
MakeKey ==
    \/ /\ key' = IF key = 0 THEN 1 ELSE key
       /\ UNCHANGED <<rekeyed, left>>
    \/ /\ FlashFails
       /\ UNCHANGED <<key, rekeyed>>
    \/ /\ FlashFails
       /\ key # 0
       /\ key' = key + 1
       /\ rekeyed' = TRUE

Boot ==
    /\ pc = "off" /\ pc' = "boot"
    /\ MakeKey
    /\ UNCHANGED <<commissioned, crt, csr, ble, phone, app>>

PowerDown ==
    /\ pc' = "off"
    /\ csr' = 0 /\ ble' = Quiet /\ phone' = NoPhone

(* Power fails, the box resets or sleeps.                                  *)
PowerLoss == pc # "off" /\ PowerDown /\ UNCHANGED <<flash, app, left>>

(* handle_boot_button, 10 s: the profile goes, key and certificate stay,   *)
(* and the box restarts.                                                   *)
WipeProfile ==
    /\ pc = "boot"
    /\ commissioned' = FALSE
    /\ PowerDown
    /\ UNCHANGED <<key, crt, app, left, rekeyed>>

(* device_cert_has_cert sends a commissioned gateway to its role, to the   *)
(* portal if there is no certificate, or none that can be read.            *)
ToRole ==
    /\ pc = "boot" /\ commissioned /\ crt # 0
    /\ pc' = "role"
    /\ UNCHANGED <<flash, app, csr, ble, phone, left>>

ToPortal ==
    /\ pc = "boot"
    /\ \/ (~commissioned \/ crt = 0) /\ UNCHANGED left
       \/ FlashFails
    /\ pc' = "portal"
    /\ UNCHANGED <<flash, app, csr, ble, phone>>

(* ble_pairing_run: the CSR is built from the key in flash, and stays      *)
(* empty when there is none or it is not read.                             *)
ToPairing ==
    /\ pc = "boot"
    /\ pc' = "window"
    /\ \/ csr' = key /\ UNCHANGED left
       \/ FlashFails /\ csr' = 0
    /\ UNCHANGED <<flash, app, ble, phone>>

-----------------------------------------------------------------------------
(* do_enroll, for a gateway                                                *)

EnrolInit ==
    /\ pc = "portal" /\ pc' = "enrol"
    /\ MakeKey
    /\ UNCHANGED <<commissioned, crt, csr, ble, phone, app>>

(* The certificate that is there is kept ...                               *)
EnrolKeep ==
    /\ pc = "enrol" /\ crt # 0
    /\ pc' = "house"
    /\ UNCHANGED <<flash, app, csr, ble, phone, left>>

(* ... or one is signed for the key in flash, also over one that could not *)
(* be read.                                                                *)
EnrolSign ==
    /\ pc = "enrol" /\ key # 0
    /\ \/ crt = 0 /\ UNCHANGED left
       \/ FlashFails
    /\ crt' = key /\ rekeyed' = FALSE
    /\ pc' = "house"
    /\ UNCHANGED <<commissioned, key, csr, ble, phone, app>>

(* House and profile; the gateway restarts from the page of success.       *)
EnrolSave ==
    /\ pc = "house"
    /\ commissioned' = TRUE
    /\ PowerDown
    /\ UNCHANGED <<key, crt, app, left, rekeyed>>

(* The API or the flash says no: the portal opens again.                   *)
EnrolFails ==
    /\ pc \in {"enrol", "house"}
    /\ pc' = "portal"
    /\ UNCHANGED <<flash, app, csr, ble, phone, left>>

-----------------------------------------------------------------------------
(* The phone                                                               *)

(* It reads the CSR and the CA signs it.                                   *)
ReadCsr ==
    /\ pc \in Window /\ csr # 0 /\ phone.signed # csr
    /\ phone' = [phone EXCEPT !.signed = csr]
    /\ UNCHANGED <<pc, flash, app, csr, ble, left>>

(* A transfer starts: the signed certificate until it was answered OK, or  *)
(* some other text.  Unless it is hasty the phone leaves the box the time  *)
(* to finish with what it wrote before.                                    *)
MayStart ==
    /\ pc \in Window
    /\ phone.heard # "OK"
    /\ phone.next \in IF app.hasty THEN {0, Chunks + 1} ELSE {0}
    /\ app.hasty \/ (pc = "window" /\ ~ble.pending)

StartTransfer ==
    /\ MayStart
    /\ \/ phone.signed # 0 /\ UNCHANGED left
          /\ phone' = [phone EXCEPT !.text = phone.signed, !.next = 1, !.heard = "none"]
       \/ /\ LinkFails
          /\ phone' = [phone EXCEPT !.text = NotACert, !.next = 1, !.heard = "none"]
    /\ UNCHANGED <<pc, flash, app, csr, ble>>

WriteChunk ==
    /\ pc \in Window /\ phone.next \in 1 .. Chunks
    /\ Receive([text |-> phone.text, at |-> phone.next])
    /\ phone' = [phone EXCEPT !.next = @ + 1]
    /\ UNCHANGED <<pc, flash, app, csr, left>>

(* The phone gives up in the middle and will start anew.                   *)
BreakOff ==
    /\ pc \in Window /\ phone.next \in 2 .. Chunks
    /\ LinkFails
    /\ phone' = [phone EXCEPT !.next = 0]
    /\ UNCHANGED <<pc, flash, app, csr, ble>>

-----------------------------------------------------------------------------
(* The pairing loop and process_cert_write, on the main task               *)

Poll ==
    /\ pc = "window" /\ ble.pending
    /\ pc' = "check"
    /\ ble' = [ble EXCEPT !.pending = FALSE]
    /\ UNCHANGED <<flash, app, csr, phone, left>>

(* The answer is for whoever waits.                                        *)
Answer(word) ==
    phone' = IF phone.next = Chunks + 1
             THEN [phone EXCEPT !.next = 0, !.heard = word] ELSE phone

(* Mutant: the text is not parsed.                                         *)
CheckCertBlind ==
    /\ pc = "check"
    /\ pc' = IF Begins(ble.payload) # {} THEN "put" ELSE "wipe"
    /\ IF Begins(ble.payload) # {} THEN UNCHANGED phone ELSE Answer("ERR")
    /\ UNCHANGED <<flash, app, csr, ble, left>>

(* device_cert_store_cert parses the text in s_cert_payload ...            *)
CheckCert ==
    /\ pc = "check"
    /\ IF Holds(ble.payload) # NotACert
       THEN pc' = "put" /\ UNCHANGED phone
       ELSE pc' = "wipe" /\ Answer("ERR")
    /\ UNCHANGED <<flash, app, csr, ble, left>>

Stored(b) == IF Holds(b) = NotACert THEN Torn ELSE Holds(b)

(* Mutant: the put's failure goes unnoticed.                               *)
PutCertUnchecked ==
    /\ pc = "put" /\ pc' = "wipe"
    /\ \/ /\ crt' = Stored(ble.payload) /\ rekeyed' = (rekeyed /\ crt' # key)
          /\ UNCHANGED left
       \/ FlashFails /\ UNCHANGED <<crt, rekeyed>>
    /\ Answer("OK")
    /\ UNCHANGED <<commissioned, key, csr, ble, app>>

(* ... and then stores what s_cert_payload holds by now.                   *)
PutCert ==
    /\ pc = "put" /\ pc' = "wipe"
    /\ \/ /\ crt' = Stored(ble.payload)
          /\ rekeyed' = (rekeyed /\ crt' # key)
          /\ Answer("OK")
          /\ UNCHANGED left
       \/ /\ FlashFails
          /\ Answer("ERR")
          /\ UNCHANGED <<crt, rekeyed>>
    /\ UNCHANGED <<commissioned, key, csr, ble, app>>

(* The gathering is emptied, whatever the BLE task has put there since.    *)
Wipe ==
    /\ pc = "wipe" /\ pc' = "window"
    /\ ble' = [ble EXCEPT !.accum = <<>>]
    /\ UNCHANGED <<flash, app, csr, phone, left>>

(* A profile comes over BLE and the box restarts; or the window ends.      *)
PairCommission ==
    /\ pc = "window"
    /\ commissioned' = TRUE
    /\ PowerDown
    /\ UNCHANGED <<key, crt, app, left, rekeyed>>

-----------------------------------------------------------------------------
DeviceCertNext ==
    \/ Boot \/ WipeProfile \/ ToRole \/ ToPortal \/ ToPairing
    \/ EnrolInit \/ EnrolKeep \/ EnrolSign \/ EnrolSave \/ EnrolFails
    \/ ReadCsr \/ StartTransfer \/ WriteChunk \/ BreakOff
    \/ Poll \/ CheckCert \/ PutCert \/ Wipe
    \/ PairCommission \/ PowerLoss

(* The pairing loop runs, and the phone goes on.                           *)
DeviceCertFairness ==
    /\ WF_certVars(Poll) /\ WF_certVars(CheckCert)
    /\ WF_certVars(PutCert) /\ WF_certVars(Wipe)
    /\ WF_certVars(ReadCsr) /\ WF_certVars(StartTransfer) /\ WF_certVars(WriteChunk)

DeviceCertSpec ==
    DeviceCertInit /\ [][DeviceCertNext]_certVars /\ DeviceCertFairness

-----------------------------------------------------------------------------
(* Properties                                                              *)

(* What mqtt_connect needs of device_cert_load_tls: both texts there, and  *)
(* the certificate that of the key.                                        *)
CanConnect == key # 0 /\ crt = key

(* process_cert_write "validate + store": what a phone breaks off, sends   *)
(* garbled or starts anew never ends in flash, only a whole certificate,   *)
(* as long as the phone waits for the box.                                 *)
WholeCertificate == ~app.hasty => crt # Torn

(* The answer "OK cert stored" is about the transfer the phone waits for:  *)
(* what it sent is in flash, whatever was broken off or failed before.     *)
OkMeansStored ==
    [][~app.hasty /\ phone.heard # "OK" /\ phone'.heard = "OK"
         => crt' = phone.text]_certVars

(* The safety net of setup: a gateway in its role can show the broker a    *)
(* certificate of its own key, unless a key that was not read was replaced *)
(* and no certificate was issued since.                                    *)
RoleHasIdentity == ~app.hasty /\ pc = "role" => rekeyed \/ CanConnect

(* A pairing window that stays open long enough ends with the certificate  *)
(* in flash, and the phone told so, however many transfers went wrong, if  *)
(* its writes are long enough to hold the marker.                          *)
TransferHeals ==
    ~app.short /\ ~app.hasty /\ <>[](pc \in Window /\ csr # 0)
        => <>(phone.heard = "OK" /\ crt = csr)

=============================================================================

------------------------------ MODULE Provision ------------------------------
(***************************************************************************)
(* How a box gets its profile and finds its role: main.cpp setup and       *)
(* handle_boot_button, core/portal_provision.cpp, core/ble_pairing.cpp.    *)
(* The operator submits forms and presses the button; a phone writes over  *)
(* BLE from a task of its own; the fleet API answers or does not.  Power   *)
(* may fail between any two steps, in the middle of commission_save too.   *)
(***************************************************************************)
EXTENDS Commission

CONSTANTS
    Self,         \* the id of this box
    Placeholder,  \* the gateway id the portal gives a sensor, "0001"
    Form,         \* forms operators submit
    Payload,      \* commissioning blobs phones write
    Phone,        \* phones, each with a key pair of its own
    NoPhone,
    NoPayload,
    NvsFaults     \* TRUE: a flash access may fail

ASSUME ProvisionAssumption ==
    /\ {Self, Placeholder} \subseteq Id
    /\ Form \subseteq [role : {"gateway", "sensor"}, house : House \cup {0},
                       box : 0 .. 4, filled : BOOLEAN]
    /\ Payload \subseteq [phone : Phone, house : House \cup {0}, box : -1 .. 3,
                          role : Role, gateway : Id \cup {NoId}, key : House \cup {0}]
    /\ NoPhone \notin Phone
    /\ NoPayload \notin Payload
    /\ NvsFaults \in BOOLEAN

VARIABLES
    pc,        \* where setup is
    profile,   \* flash, namespace commission
    key, cert, \* flash, namespace devcert: the private key, the certificate
    cd,        \* the CommissionData at work, Blank when it is out of scope
    job,       \* commission_save: the next put, its ok, where it returns
    portal,    \* the form fields, g_go, g_state
    ble,       \* what the callbacks buffered, the session
    \* what the properties remember, read by no step:
    whole,     \* the profile that was last saved to its end
    mixed,     \* flash holds parts of several saves
    promised   \* the profile the portal last reported as saved, Blank: none

provisionVars == <<pc, profile, key, cert, cd, job, portal, ble,
                   whole, mixed, promised>>

NoForm == [role |-> "sensor", house |-> 0, box |-> 0, filled |-> FALSE]
FreshPortal == [form |-> NoForm, go |-> FALSE, page |-> "form"]
FreshBle == [session |-> NoPhone, peer |-> NoPhone, text |-> NoPayload,
             pending |-> FALSE, cert |-> "none", received |-> FALSE]
NoSave == [at |-> 1, ok |-> TRUE, landed |-> TRUE, over |-> FALSE, back |-> "boot"]

Poll == {"poll_session", "poll_payload", "read_payload", "poll_cert", "poll_done"}

ProvisionTypeOK ==
    /\ pc \in {"off", "decide", "portal", "grace", "enroll", "save", "saved",
              "role"} \cup Poll
    /\ profile \in Profile /\ cd \in Profile /\ whole \in Profile
    /\ key \in BOOLEAN /\ cert \in BOOLEAN
    /\ job \in [at : 1 .. Len(Puts), ok : BOOLEAN, landed : BOOLEAN,
                over : BOOLEAN, back : {"boot", "portal", "ble"}]
    /\ portal \in [form : Form \cup {NoForm}, go : BOOLEAN,
                   page : {"form", "working", "gateway_done", "error"}]
    /\ ble \in [session : Phone \cup {NoPhone}, peer : Phone \cup {NoPhone},
                text : Payload \cup {NoPayload}, pending : BOOLEAN,
                cert : {"none", "good", "bad"}, received : BOOLEAN]
    /\ mixed \in BOOLEAN /\ promised \in Profile

ProvisionInit ==
    /\ pc = "off"
    /\ profile = Blank /\ key = FALSE /\ cert = FALSE
    /\ cd = Blank /\ job = NoSave /\ portal = FreshPortal /\ ble = FreshBle
    /\ whole = Blank /\ mixed = FALSE /\ promised = Blank

-----------------------------------------------------------------------------
PowerDown ==
    /\ pc' = "off"
    /\ cd' = Blank /\ job' = NoSave /\ portal' = FreshPortal /\ ble' = FreshBle

(* ESP.restart and deep sleep: the box boots again.                        *)
Restart == PowerDown /\ UNCHANGED <<profile, key, cert, whole, mixed, promised>>

(* device_cert_init: the private key is made once; it may fail.            *)
MakeKey == key' = TRUE \/ (NvsFaults /\ UNCHANGED key)

(* setup with no button held: the profile is loaded, empty when it cannot  *)
(* be read.                                                                *)
Boot ==
    /\ pc = "off"
    /\ pc' = "decide"
    /\ MakeKey
    /\ \/ cd' = Autofill(profile)
       \/ NvsFaults /\ cd' = Autofill(Blank)
    /\ UNCHANGED <<profile, cert, job, portal, ble, whole, mixed, promised>>

(* handle_boot_button, 10 s: only the commissioning profile is wiped.      *)
BootReset ==
    /\ pc = "off"
    /\ MakeKey
    /\ \/ /\ profile' = Blank /\ whole' = Blank
          /\ mixed' = FALSE /\ promised' = Blank
       \/ NvsFaults /\ UNCHANGED <<profile, whole, mixed, promised>>
    /\ UNCHANGED <<pc, cert, cd, job, portal, ble>>

(* handle_boot_button, 3 s: ble_pairing_run forgets all it had buffered.   *)
BootPair ==
    /\ pc = "off"
    /\ MakeKey
    /\ pc' = "poll_session"
    /\ ble' = FreshBle
    /\ UNCHANGED <<profile, cert, cd, job, portal, whole, mixed, promised>>

(* commission_save: refused before the first put when not valid.           *)
SaveRefused(c) == NvsFaults \/ ~Valid(Autofill(c))

SaveBegin(c, back) ==
    /\ Valid(Autofill(c))
    /\ pc' = "save"
    /\ cd' = Autofill(c)
    /\ job' = [NoSave EXCEPT !.back = back, !.over = profile.key # 0]

OpenPortal == pc' = "portal" /\ portal' = FreshPortal

(* What sends setup to the portal instead of a role.                       *)
NeedsPortal ==
    \/ cd.house = 0
    \/ ~IsGateway(cd) /\ cd.gateway = Self
    \/ ~Valid(cd)
    \/ IsGateway(cd) /\ ~cert

(* setup: a gateway whose profile names another box corrects it in RAM and *)
(* in flash, then goes on whatever came of the save.                       *)
NamesOther == cd.house # 0 /\ IsGateway(cd) /\ cd.gateway # Self

OwnGateway ==
    /\ pc = "decide" /\ NamesOther
    /\ LET own == [cd EXCEPT !.gateway = Self]
       IN  \/ SaveBegin(own, "boot")
           \/ SaveRefused(own) /\ cd' = own /\ UNCHANGED <<pc, job>>
    /\ UNCHANGED <<profile, key, cert, portal, ble, whole, mixed, promised>>

ToPortal ==
    /\ pc = "decide" /\ ~NamesOther
    /\ OpenPortal
    /\ \/ NeedsPortal
       \/ NvsFaults /\ IsGateway(cd)   \* the certificate is not readable
    /\ cd' = Blank
    /\ UNCHANGED <<profile, key, cert, job, ble, whole, mixed, promised>>

(* The role runs until power fails or the sensor sleeps; a self-test that  *)
(* fails puts the box to sleep.                                            *)
ToRole ==
    /\ pc = "decide" /\ ~NamesOther /\ ~NeedsPortal
    /\ pc' = "role"
    /\ UNCHANGED <<profile, key, cert, cd, job, portal, ble, whole, mixed, promised>>

CryptoFails == pc = "decide" /\ ~NamesOther /\ ~NeedsPortal /\ Restart

-----------------------------------------------------------------------------
(* commission_save                                                         *)

(* Mutant: one put too many.                                               *)
SavePutOnward(done) ==
    LET field == Puts[job.at]
    IN  /\ pc = "save"
        /\ done \/ NvsFaults
        /\ profile' = IF done THEN [profile EXCEPT ![field] = cd[field]] ELSE profile
        /\ job' = [job EXCEPT !.at = @ + 1, !.ok = @ /\ (done \/ ~Noticed(field)),
                              !.landed = @ /\ done]
        /\ UNCHANGED <<pc, key, cert, cd, portal, ble, whole, mixed, promised>>

(* One put.  All puts are made even when one of them fails.                *)
SavePut(done) ==
    LET field == Puts[job.at]
        last == job.at = Len(Puts)
    IN  /\ pc = "save"
        /\ done \/ NvsFaults
        /\ profile' = IF done THEN [profile EXCEPT ![field] = cd[field]] ELSE profile
        /\ job' = [job EXCEPT !.at = IF last THEN @ ELSE @ + 1,
                              !.ok = @ /\ (done \/ ~Noticed(field)),
                              !.landed = @ /\ done]
        /\ pc' = IF last THEN "saved" ELSE pc
        /\ IF job.back = "boot" THEN UNCHANGED <<whole, mixed>>
           ELSE /\ mixed' = IF last /\ job'.landed THEN FALSE ELSE mixed \/ ~done
                /\ whole' = IF last /\ job'.landed THEN cd ELSE whole
        /\ UNCHANGED <<key, cert, cd, portal, ble, promised>>

Saved(back) == pc = "saved" /\ job.back = back /\ job' = NoSave

(* setup goes on; ...                                                      *)
SavedBoot ==
    /\ Saved("boot")
    /\ pc' = "decide"
    /\ UNCHANGED <<profile, key, cert, cd, portal, ble, whole, mixed, promised>>

(* ... portal_provision_run shows the House ID of a gateway, or the error, *)
(* and opens the portal again; ...                                         *)
SavedPortal ==
    /\ Saved("portal")
    /\ ~(job.ok /\ portal.form.role = "sensor")
    /\ pc' = "portal"
    /\ portal' = [portal EXCEPT !.page = IF job.ok THEN "gateway_done" ELSE "error"]
    /\ promised' = IF job.ok THEN cd ELSE Blank
    /\ cd' = Blank
    /\ UNCHANGED <<profile, key, cert, ble, whole, mixed>>

(* ... and restarts a sensor into its role; ...                            *)
SavedSensor ==
    /\ Saved("portal")
    /\ job.ok /\ portal.form.role = "sensor"
    /\ PowerDown
    /\ promised' = cd
    /\ UNCHANGED <<profile, key, cert, whole, mixed>>

(* ... the pairing window answers the phone.                               *)
SavedBle ==
    /\ Saved("ble")
    /\ pc' = "poll_cert"
    /\ ble' = [ble EXCEPT !.received = job.ok]
    /\ cd' = Blank
    /\ UNCHANGED <<profile, key, cert, portal, whole, mixed, promised>>

(* Power fails.  A save cut between its first and last put leaves parts of *)
(* two profiles behind if the flash held a whole one.                      *)
PowerLoss ==
    /\ pc # "off"
    /\ PowerDown
    /\ mixed' = (mixed \/ (pc = "save" /\ job.back # "boot" /\ job.over /\ job.at > 1))
    /\ UNCHANGED <<profile, key, cert, whole, promised>>

-----------------------------------------------------------------------------
(* The web portal                                                          *)

(* The minimal validation of handleSubmit.                                 *)
FormOk(f) ==
    /\ f.filled
    /\ f.house \in House
    /\ f.role = "sensor" => f.box \in 1 .. 3

(* handleSubmit: the fields are taken over before they are looked at, also *)
(* in the half second in which the last pages are still served.            *)
Submit(f) ==
    /\ pc \in {"portal", "grace"}
    /\ portal' = [portal EXCEPT !.form = f,
                    !.page = IF FormOk(f) THEN "working" ELSE "error",
                    !.go = @ \/ FormOk(f)]
    /\ UNCHANGED <<pc, profile, key, cert, cd, job, ble, whole, mixed, promised>>

(* portal_provision_run finds g_go set.                                    *)
TakeForm ==
    /\ pc = "portal" /\ portal.go
    /\ pc' = "grace"
    /\ portal' = [portal EXCEPT !.go = FALSE]
    /\ UNCHANGED <<profile, key, cert, cd, job, ble, whole, mixed, promised>>

(* stopAP: the radio leaves the hotspot for do_enroll.                     *)
StopAP ==
    /\ pc = "grace"
    /\ pc' = "enroll"
    /\ UNCHANGED <<profile, key, cert, cd, job, portal, ble, whole, mixed, promised>>

(* do_enroll gives up: no WiFi, the API says no, or the save is refused.   *)
EnrollFails ==
    /\ pc = "enroll"
    /\ pc' = "portal"
    /\ portal' = [portal EXCEPT !.page = "error"]
    /\ MakeKey \/ UNCHANGED key
    /\ UNCHANGED <<profile, cert, cd, job, ble, whole, mixed, promised>>

(* A gateway without a certificate gets one signed, and stores it.         *)
EnrollCert ==
    /\ pc = "enroll" /\ portal.form.role = "gateway" /\ ~cert
    /\ key' = TRUE /\ cert' = TRUE
    /\ UNCHANGED <<pc, profile, cd, job, portal, ble, whole, mixed, promised>>

(* The profile do_enroll makes of the form.  A gateway that names no house *)
(* gets one from the API, which has no key for house 0.                    *)
Enrolled(house) ==
    [house |-> house, key |-> house,
     box |-> IF portal.form.role = "gateway" THEN 0 ELSE portal.form.box,
     role |-> portal.form.role,
     gateway |-> IF portal.form.role = "gateway" THEN Self ELSE Placeholder]

(* Mutant: the certificate is left for later.                              *)
EnrollProfileEarly ==
    /\ pc = "enroll"
    /\ \E house \in House :
         /\ \/ house = portal.form.house
            \/ portal.form.role = "gateway" /\ portal.form.house = 0
         /\ SaveBegin(Enrolled(house), "portal")
    /\ promised' = Blank
    /\ UNCHANGED <<profile, key, cert, portal, ble, whole, mixed>>

(* House and key are there: the profile is saved.                          *)
EnrollProfile ==
    /\ pc = "enroll"
    /\ portal.form.role = "gateway" => cert
    /\ \E house \in House :
         /\ \/ house = portal.form.house
            \/ portal.form.role = "gateway" /\ portal.form.house = 0
         /\ SaveBegin(Enrolled(house), "portal")
    /\ promised' = Blank
    /\ UNCHANGED <<profile, key, cert, portal, ble, whole, mixed>>

(* handleReboot on any page, and the end of the portal's window.           *)
LeavePortal == pc \in {"portal", "grace"} /\ Restart

-----------------------------------------------------------------------------
(* The pairing window: callbacks of the BLE task, polled by ble_pairing_run *)

Pairing == pc \in Poll \/ (pc \in {"save", "saved"} /\ job.back = "ble")

(* SessionWriteCB, CommissionWriteCB, CertWriteCB only buffer.             *)
WriteKey(p) ==
    /\ Pairing
    /\ ble' = [ble EXCEPT !.peer = p]
    /\ UNCHANGED <<pc, profile, key, cert, cd, job, portal, whole, mixed, promised>>

WriteProfile(x) ==
    /\ Pairing
    /\ ble' = [ble EXCEPT !.text = x, !.pending = TRUE]
    /\ UNCHANGED <<pc, profile, key, cert, cd, job, portal, whole, mixed, promised>>

WriteCert(c) ==
    /\ Pairing
    /\ ble' = [ble EXCEPT !.cert = c]
    /\ UNCHANGED <<pc, profile, key, cert, cd, job, portal, whole, mixed, promised>>

(* process_session_start: any attempt ends the session before.  It fails   *)
(* without a private key or on a bad point.                                *)
PollSession ==
    /\ pc = "poll_session"
    /\ pc' = "poll_payload"
    /\ IF ble.peer = NoPhone THEN UNCHANGED ble
       ELSE \E s \in IF key THEN {ble.peer, NoPhone} ELSE {NoPhone} :
              ble' = [ble EXCEPT !.session = s, !.peer = NoPhone]
    /\ UNCHANGED <<profile, key, cert, cd, job, portal, whole, mixed, promised>>

(* s_payload_pending is cleared before the buffer is read.                 *)
PollPayload ==
    /\ pc = "poll_payload"
    /\ pc' = IF ble.pending THEN "read_payload" ELSE "poll_cert"
    /\ ble' = [ble EXCEPT !.pending = FALSE]
    /\ UNCHANGED <<profile, key, cert, cd, job, portal, whole, mixed, promised>>

(* prov_session_open: only what the phone of the session wrote decrypts.   *)
Opens(x) == x # NoPayload /\ ble.session # NoPhone /\ x.phone = ble.session

(* The fields the phone gave over the ones flash has; a gateway that names *)
(* nobody names itself.                                                    *)
Merge(c, x) ==
    LET m == Autofill(
               [house |-> x.house,
                box |-> IF x.box = -1 THEN c.box ELSE x.box,
                role |-> IF x.role = "unset" THEN c.role ELSE x.role,
                gateway |-> IF x.gateway = NoId THEN c.gateway ELSE x.gateway,
                key |-> IF x.key = 0 THEN c.key ELSE x.key])
    IN  IF IsGateway(m) /\ m.gateway = NoId THEN [m EXCEPT !.gateway = Self] ELSE m

(* Mutant: the flag is cleared after the blob was read, not before.        *)
ForgetTextLate ==
    ble' = [ble EXCEPT !.pending = FALSE, !.text = IF ble.pending THEN @ ELSE NoPayload]

(* A text that was read is never read again.                               *)
ForgetText == ble' = IF ble.pending THEN ble ELSE [ble EXCEPT !.text = NoPayload]

(* process_commission_write: the profile is applied and saved, ...         *)
ApplyPayload ==
    /\ pc = "read_payload"
    /\ Opens(ble.text)
    /\ ble.text.house # 0
    /\ \E c \in {Autofill(profile)} \cup (IF NvsFaults THEN {Autofill(Blank)} ELSE {}) :
         SaveBegin(Merge(c, ble.text), "ble")
    /\ promised' = Blank
    /\ ForgetText
    /\ UNCHANGED <<profile, key, cert, portal, whole, mixed>>

(* ... or refused: no session, another phone's, a buffer written to while  *)
(* it was read, a profile that is not valid, flash that does not open.     *)
RefusePayload ==
    /\ pc = "read_payload"
    /\ \/ ~Opens(ble.text)
       \/ ble.pending
       \/ ble.text.house = 0
       \/ SaveRefused(Merge(Autofill(profile), ble.text))
    /\ pc' = "poll_cert"
    /\ ForgetText
    /\ UNCHANGED <<profile, key, cert, cd, job, portal, whole, mixed, promised>>

(* process_cert_write: stored if it parses, which a certificate that was   *)
(* written to while it was read need not.                                  *)
PollCert ==
    /\ pc = "poll_cert"
    /\ pc' = "poll_done"
    /\ \E stored \in IF ble.cert = "good" THEN BOOLEAN ELSE {FALSE} :
         cert' = (cert \/ stored)
    /\ ble' = [ble EXCEPT !.cert = "none"]
    /\ UNCHANGED <<profile, key, cd, job, portal, whole, mixed, promised>>

(* A saved commission restarts the box; otherwise the window goes on until *)
(* its time is over, and the box sleeps.                                   *)
PollAgain ==
    /\ pc = "poll_done" /\ ~ble.received
    /\ pc' = "poll_session"
    /\ UNCHANGED <<profile, key, cert, cd, job, portal, ble, whole, mixed, promised>>

PairingOver ==
    /\ \/ pc = "poll_done" /\ ble.received
       \/ pc = "poll_session"
    /\ Restart

-----------------------------------------------------------------------------
ProvisionNext ==
    \/ Boot \/ BootReset \/ BootPair
    \/ OwnGateway \/ ToPortal \/ ToRole \/ CryptoFails
    \/ \E done \in BOOLEAN : SavePut(done)
    \/ SavedBoot \/ SavedPortal \/ SavedSensor \/ SavedBle
    \/ \E f \in Form : Submit(f)
    \/ TakeForm \/ StopAP \/ EnrollFails \/ EnrollCert \/ EnrollProfile \/ LeavePortal
    \/ \E p \in Phone : WriteKey(p)
    \/ \E x \in Payload : WriteProfile(x)
    \/ \E c \in {"good", "bad"} : WriteCert(c)
    \/ PollSession \/ PollPayload \/ ApplyPayload \/ RefusePayload \/ PollCert
    \/ PollAgain \/ PairingOver
    \/ PowerLoss

ProvisionSpec == ProvisionInit /\ [][ProvisionNext]_provisionVars

-----------------------------------------------------------------------------
(* Properties                                                              *)

(* A gateway runs under its own id.                                        *)
Owned(c) == IF IsGateway(c) THEN [c EXCEPT !.gateway = Self] ELSE c

(* However often power fails between the puts of commission_save, a box    *)
(* that started from wiped flash never takes up a role with half a         *)
(* profile: what it runs is what one save wrote to its end.  Only a put    *)
(* that failed, or a cut save over an older whole profile, leaves a mix.   *)
RoleIsOneSave == pc = "role" => mixed \/ cd = Owned(whole)

(* "On success the device reboots into its role" (portal_provision.h): a   *)
(* profile the portal reported as saved sends no later boot back to the    *)
(* portal.  Three failures of flash are excepted: the profile cannot be    *)
(* read at this boot, the certificate cannot, or the put of a sensor's     *)
(* gateway id failed, which commission_save does not notice: setup rejects *)
(* that profile although the portal reported its success.                  *)
SuccessIsForGood ==
    [][pc = "decide" /\ pc' = "portal" /\ promised # Blank =>
         \/ cd.house = 0 /\ profile.house # 0
         \/ ~NeedsPortal
         \/ ~IsGateway(promised) /\ profile.gateway # promised.gateway]_provisionVars

(* A blob a phone wrote while ble_pairing_run was busy with an earlier one *)
(* is not forgotten: as long as the window is open its text is flagged or  *)
(* about to be read.                                                       *)
NoBlobForgotten == ble.text # NoPayload => ble.pending \/ pc = "read_payload"

(* "saved to NVS" (commission_save): when a save reports success, over     *)
(* whatever profile and after whatever puts, house, slot, role and key in  *)
(* flash are those of the profile.  The gateway id need not be: a put of   *)
(* it that failed goes unnoticed.                                          *)
ReportedIsSound ==
    pc = "saved" /\ job.ok =>
        \A field \in {"house", "box", "role", "key"} : profile[field] = cd[field]

=============================================================================

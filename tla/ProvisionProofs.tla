--------------------------- MODULE ProvisionProofs ---------------------------
(***************************************************************************)
(* Proofs about Provision, for any houses, ids, forms, phones and blobs,   *)
(* with failing flash or not.                                              *)
(***************************************************************************)
EXTENDS Provision, TLAPS

-----------------------------------------------------------------------------
(* Profiles                                                                *)

LEMMA PutsAre ==
  /\ Len(Puts) = 5
  /\ Puts[1] = "house" /\ Puts[2] = "box" /\ Puts[3] = "role"
  /\ Puts[4] = "gateway" /\ Puts[5] = "key"
  BY DEF Puts

LEMMA BlankTyped == Blank \in Profile
  BY DEF Blank, Profile, Role

LEMMA EqualProfiles ==
  ASSUME NEW a \in Profile, NEW b \in Profile,
         a.house = b.house, a.box = b.box, a.role = b.role, a.gateway = b.gateway,
         a.key = b.key
  PROVE  a = b
  BY DEF Profile

(* What forms and blobs make: a slot need not be one of the four.          *)
Rough ==
    [house : House \cup {0}, box : 0 .. 4, role : Role, gateway : Id \cup {NoId},
     key : House \cup {0}]

(* Autofill settles role and slot and keeps the rest.                      *)
LEMMA AutofillIs ==
  ASSUME NEW c \in Rough
  PROVE  /\ Autofill(c) \in Profile
         /\ Autofill(c).house = c.house /\ Autofill(c).key = c.key
         /\ Autofill(c).gateway = c.gateway
         /\ IsGateway(c) => Autofill(c).role = "gateway" /\ Autofill(c).box = 0
         /\ ~IsGateway(c) => /\ Autofill(c).role = "sensor"
                             /\ Autofill(c).box \in 1 .. 3
                             /\ c.box \in 1 .. 3 => Autofill(c).box = c.box
  <1> DEFINE r == IF IsGateway(c) THEN "gateway" ELSE "sensor"
             n == IF IsGateway(c) THEN 0 ELSE IF c.box \in 1 .. 3 THEN c.box ELSE 1
  <1>1. Autofill(c) = [c EXCEPT !.role = r, !.box = n]
      BY Zenon DEF Autofill, Rough
  <1>2. r \in {"gateway", "sensor"} /\ n \in 0 .. 3
      OBVIOUS
  <1>3. /\ IsGateway(c) => r = "gateway" /\ n = 0
        /\ ~IsGateway(c) => r = "sensor" /\ n \in 1 .. 3
        /\ ~IsGateway(c) /\ c.box \in 1 .. 3 => n = c.box
      OBVIOUS
  <1> HIDE DEF r, n
  <1>4. /\ Autofill(c) = [house |-> c.house, box |-> n, role |-> r,
                          gateway |-> c.gateway, key |-> c.key]
        /\ c.house \in House \cup {0} /\ c.gateway \in Id \cup {NoId}
        /\ c.key \in House \cup {0}
      BY <1>1 DEF Rough
  <1> QED BY <1>2, <1>3, <1>4 DEF Profile, Role

LEMMA ProfileIsRough == Profile \subseteq Rough
  BY DEF Profile, Rough

LEMMA AutofillTwice ==
  ASSUME NEW c \in Rough
  PROVE  Autofill(Autofill(c)) = Autofill(c)
  <1> DEFINE a == Autofill(c)
  <1>1. /\ a \in Profile /\ a \in Rough /\ Autofill(a) \in Profile
      BY AutofillIs, ProfileIsRough
  <1>2. IsGateway(a) <=> IsGateway(c)
      BY AutofillIs DEF IsGateway
  <1>3. /\ Autofill(a).house = a.house /\ Autofill(a).key = a.key
        /\ Autofill(a).gateway = a.gateway
      BY <1>1, AutofillIs
  <1>4. Autofill(a).role = a.role /\ Autofill(a).box = a.box
    <2>1. CASE IsGateway(c)
        BY <1>1, <1>2, <2>1, AutofillIs
    <2>2. CASE ~IsGateway(c)
      <3>1. a.box \in 1 .. 3 /\ a.role = "sensor"
          BY <2>2, AutofillIs
      <3> QED BY <1>1, <1>2, <2>2, <3>1, AutofillIs
    <2> QED BY <2>1, <2>2
  <1> QED BY <1>1, <1>3, <1>4, EqualProfiles

(* What Autofill leaves alone is known by its role and its slot.           *)
LEMMA Settled ==
  ASSUME NEW c \in Profile, Autofill(c) = c
  PROVE  \/ IsGateway(c) /\ c.role = "gateway" /\ c.box = 0
         \/ ~IsGateway(c) /\ c.role = "sensor" /\ c.box \in 1 .. 3
  BY AutofillIs, ProfileIsRough

LEMMA OwnIsSettled ==
  ASSUME NEW c \in Profile, Autofill(c) = c, IsGateway(c)
  PROVE  /\ [c EXCEPT !.gateway = Self] \in Profile
         /\ Autofill([c EXCEPT !.gateway = Self]) = [c EXCEPT !.gateway = Self]
         /\ IsGateway([c EXCEPT !.gateway = Self])
  <1> DEFINE own == [c EXCEPT !.gateway = Self]
  <1>1. own \in Profile
      BY ProvisionAssumption DEF Profile
  <1>2. /\ own.house = c.house /\ own.box = c.box /\ own.role = c.role
        /\ own.key = c.key /\ own.gateway = Self
      BY DEF Profile
  <1>3. c.role = "gateway" /\ c.box = 0
      BY Settled
  <1>4. IsGateway(own)
      BY <1>2, <1>3 DEF IsGateway
  <1>5. Autofill(own) = own
    <2> HIDE DEF own
    <2>1. own \in Rough
        BY <1>1, ProfileIsRough
    <2>2. Autofill(own) \in Profile
        BY <2>1, AutofillIs
    <2>3. /\ Autofill(own).house = own.house /\ Autofill(own).key = own.key
          /\ Autofill(own).gateway = own.gateway
          /\ Autofill(own).role = "gateway" /\ Autofill(own).box = 0
        BY <1>4, <2>1, AutofillIs
    <2> QED BY <1>1, <1>2, <1>3, <2>2, <2>3, EqualProfiles
  <1> QED BY <1>1, <1>4, <1>5

-----------------------------------------------------------------------------
(* The inductive invariant                                                 *)

(* Two profiles that make the same box: a gateway's own id is corrected at *)
(* its boot, whatever the profile says.                                    *)
Same(a, b) ==
    /\ a.house = b.house /\ a.box = b.box /\ a.role = b.role /\ a.key = b.key
    /\ IsGateway(a) \/ a.gateway = b.gateway

Saving == pc \in {"save", "saved"}

(* The data at work in setup and in commission_save went through autofill. *)
FilledInv == pc = "decide" \/ Saving => Autofill(cd) = cd

(* What the puts made so far did: the gateway id may be missing unnoticed. *)
PutsInv ==
    pc = "save" =>
      /\ job.landed \/ job.ok =>
           /\ job.at > 1 => profile.house = cd.house
           /\ job.at > 2 => profile.box = cd.box
           /\ job.at > 3 => profile.role = cd.role
      /\ job.landed /\ job.at > 4 => profile.gateway = cd.gateway
      /\ job.over <=> profile.key # 0
      /\ job.back # "boot" /\ ~job.landed => mixed

(* Flash that is not mixed has no key, is what was saved last, or is being *)
(* saved over.                                                             *)
FlashInv ==
    \/ mixed
    \/ profile.key = 0
    \/ Same(Autofill(profile), whole)
    \/ pc = "save" /\ job.back # "boot" /\ job.over /\ job.at > 1

(* What setup has at hand is what flash has, the gateway's id apart.       *)
BootedInv ==
    pc = "decide" \/ (Saving /\ job.back = "boot") =>
      \/ mixed
      \/ cd.house = 0
      \/ cd.key = profile.key /\ (cd.key = 0 \/ Same(cd, whole))

(* setup saves a gateway's valid profile only.                             *)
CorrectingInv ==
    Saving /\ job.back = "boot" => IsGateway(cd) /\ cd.house # 0 /\ cd.key # 0

Rest == FilledInv /\ PutsInv /\ FlashInv /\ BootedInv /\ CorrectingInv
        /\ RoleIsOneSave /\ ReportedIsSound

ProvisionInv == ProvisionTypeOK /\ Rest

-----------------------------------------------------------------------------
(* Types                                                                   *)

JobType == [at : 1 .. Len(Puts), ok : BOOLEAN, landed : BOOLEAN, over : BOOLEAN,
            back : {"boot", "portal", "ble"}]
PortalType == [form : Form \cup {NoForm}, go : BOOLEAN,
               page : {"form", "working", "gateway_done", "error"}]
BleType == [session : Phone \cup {NoPhone}, peer : Phone \cup {NoPhone},
            text : Payload \cup {NoPayload}, pending : BOOLEAN,
            cert : {"none", "good", "bad"}, received : BOOLEAN]

LEMMA TypesAre ==
  ProvisionTypeOK <=>
    /\ pc \in {"off", "decide", "portal", "grace", "enroll", "save", "saved",
               "role"} \cup Poll
    /\ profile \in Profile /\ cd \in Profile /\ whole \in Profile
    /\ key \in BOOLEAN /\ cert \in BOOLEAN
    /\ job \in JobType /\ portal \in PortalType /\ ble \in BleType
    /\ mixed \in BOOLEAN /\ promised \in Profile
  BY DEF ProvisionTypeOK, JobType, PortalType, BleType

LEMMA FreshTyped ==
  NoSave \in JobType /\ FreshPortal \in PortalType /\ FreshBle \in BleType
  BY PutsAre DEF NoSave, FreshPortal, FreshBle, JobType, PortalType, BleType

LEMMA SaveBeginTyped ==
  ASSUME ProvisionTypeOK, NEW c \in Rough, NEW back \in {"boot", "portal", "ble"},
         SaveBegin(c, back)
  PROVE  /\ pc' = "save" /\ cd' \in Profile /\ job' \in JobType
         /\ cd' = Autofill(c) /\ Autofill(cd') = cd' /\ Valid(cd')
         /\ job'.back = back /\ job'.at = 1 /\ (job'.over <=> profile.key # 0)
         /\ job'.landed /\ job'.ok
  <1>1. pc' = "save" /\ cd' = Autofill(c) /\ Valid(cd')
      BY DEF SaveBegin
  <1>2. job' = [at |-> 1, ok |-> TRUE, landed |-> TRUE, over |-> profile.key # 0,
                back |-> back]
      BY DEF SaveBegin, NoSave
  <1>3. job' \in JobType
      BY <1>2, PutsAre DEF JobType
  <1> QED BY <1>1, <1>2, <1>3, AutofillIs, AutofillTwice

LEMMA EnrolledRough ==
  ASSUME ProvisionTypeOK, NEW house \in House
  PROVE  Enrolled(house) \in Rough
  <1>1. portal.form.role \in Role /\ portal.form.box \in 0 .. 4
      BY TypesAre, ProvisionAssumption DEF PortalType, NoForm, Role
  <1> QED BY <1>1, ProvisionAssumption DEF Enrolled, Rough

LEMMA MergeTyped ==
  ASSUME NEW c \in Profile, NEW x \in Payload
  PROVE  Merge(c, x) \in Profile
  <1> DEFINE raw == [house |-> x.house,
                     box |-> IF x.box = -1 THEN c.box ELSE x.box,
                     role |-> IF x.role = "unset" THEN c.role ELSE x.role,
                     gateway |-> IF x.gateway = NoId THEN c.gateway ELSE x.gateway,
                     key |-> IF x.key = 0 THEN c.key ELSE x.key]
  <1>1. raw \in Profile
      BY ProvisionAssumption DEF Profile
  <1>2. Merge(c, x) = IF IsGateway(Autofill(raw)) /\ Autofill(raw).gateway = NoId
                      THEN [Autofill(raw) EXCEPT !.gateway = Self]
                      ELSE Autofill(raw)
      BY DEF Merge
  <1> HIDE DEF raw
  <1>3. Autofill(raw) \in Profile
      BY <1>1, AutofillIs, ProfileIsRough
  <1>4. [Autofill(raw) EXCEPT !.gateway = Self] \in Profile
      BY <1>3, ProvisionAssumption DEF Profile
  <1> QED BY <1>2, <1>3, <1>4

LEMMA PutIs ==
  ASSUME ProvisionTypeOK, NEW done \in BOOLEAN, SavePut(done)
  PROVE  /\ profile' \in Profile
         /\ profile'.house = IF done /\ job.at = 1 THEN cd.house ELSE profile.house
         /\ profile'.box = IF done /\ job.at = 2 THEN cd.box ELSE profile.box
         /\ profile'.role = IF done /\ job.at = 3 THEN cd.role ELSE profile.role
         /\ profile'.gateway = IF done /\ job.at = 4 THEN cd.gateway ELSE profile.gateway
         /\ profile'.key = IF done /\ job.at = 5 THEN cd.key ELSE profile.key
  <1>1. profile \in Profile /\ cd \in Profile /\ job.at \in 1 .. 5
      BY TypesAre, PutsAre DEF JobType
  <1>2. CASE ~done
      BY <1>1, <1>2 DEF SavePut
  <1>3. CASE done
    <2>1. profile' = [profile EXCEPT ![Puts[job.at]] = cd[Puts[job.at]]]
        BY <1>3 DEF SavePut
    <2>2. CASE job.at = 1
        BY <1>1, <1>3, <2>1, <2>2, PutsAre DEF Profile
    <2>3. CASE job.at = 2
        BY <1>1, <1>3, <2>1, <2>3, PutsAre DEF Profile
    <2>4. CASE job.at = 3
        BY <1>1, <1>3, <2>1, <2>4, PutsAre DEF Profile
    <2>5. CASE job.at = 4
        BY <1>1, <1>3, <2>1, <2>5, PutsAre DEF Profile
    <2>6. CASE job.at = 5
        BY <1>1, <1>3, <2>1, <2>6, PutsAre DEF Profile
    <2> QED BY <1>1, <2>2, <2>3, <2>4, <2>5, <2>6
  <1> QED BY <1>2, <1>3

LEMMA JobIs ==
  ASSUME ProvisionTypeOK, NEW done \in BOOLEAN, SavePut(done)
  PROVE  /\ job' \in JobType
         /\ job'.at = IF job.at = 5 THEN 5 ELSE job.at + 1
         /\ job'.ok <=> job.ok /\ (done \/ ~Noticed(Puts[job.at]))
         /\ job'.landed <=> job.landed /\ done
         /\ job'.over <=> job.over
         /\ job'.back = job.back
  <1>1. job \in JobType /\ job.at \in 1 .. 5
      BY TypesAre, PutsAre DEF JobType
  <1> DEFINE good == job.ok /\ (done \/ ~Noticed(Puts[job.at]))
             all == job.landed /\ done
             next == IF job.at = Len(Puts) THEN job.at ELSE job.at + 1
  <1>2. job' = [job EXCEPT !.at = next, !.ok = good, !.landed = all]
      BY Zenon, <1>1 DEF SavePut, JobType
  <1>3. good \in BOOLEAN /\ all \in BOOLEAN /\ next \in 1 .. 5
      BY <1>1, PutsAre DEF JobType
  <1>4. next = IF job.at = 5 THEN 5 ELSE job.at + 1
      BY PutsAre
  <1> HIDE DEF good, all, next
  <1>5. job' = [at |-> next, ok |-> good, landed |-> all, over |-> job.over,
                back |-> job.back]
      BY <1>1, <1>2 DEF JobType
  <1>6. job' \in JobType
      BY <1>1, <1>3, <1>5, PutsAre DEF JobType
  <1>7. /\ job'.at = next /\ job'.ok = good /\ job'.landed = all
        /\ job'.over = job.over /\ job'.back = job.back
      BY <1>5
  <1> QED BY <1>4, <1>6, <1>7 DEF good, all

LEMMA DownTyped ==
  ASSUME ProvisionTypeOK, PowerDown
  PROVE  pc' = "off" /\ cd' \in Profile /\ job' \in JobType /\ portal' \in PortalType
         /\ ble' \in BleType
  BY FreshTyped, BlankTyped DEF PowerDown

(* The types by variable, as a conjunction the steps prove.                *)
Typed ==
    /\ pc \in {"off", "decide", "portal", "grace", "enroll", "save", "saved",
               "role"} \cup Poll
    /\ profile \in Profile /\ cd \in Profile /\ whole \in Profile
    /\ key \in BOOLEAN /\ cert \in BOOLEAN
    /\ job \in JobType /\ portal \in PortalType /\ ble \in BleType
    /\ mixed \in BOOLEAN /\ promised \in Profile

LEMMA TypeStep ==
  ASSUME ProvisionTypeOK, [ProvisionNext]_provisionVars
  PROVE  Typed'
  <1>1. Typed
      BY TypesAre DEF Typed
  <1>2. \A c \in Profile : Autofill(c) \in Profile
      BY AutofillIs, ProfileIsRough
  <1> USE <1>1
  <1>3. CASE Boot
      BY <1>2, <1>3, BlankTyped DEF Boot, Typed, MakeKey
  <1>4. CASE BootReset
      BY <1>4, BlankTyped, ProvisionAssumption DEF BootReset, Typed, MakeKey
  <1>5. CASE BootPair
      BY <1>5, FreshTyped DEF BootPair, Typed, MakeKey, Poll
  <1>6. CASE OwnGateway
    <2> DEFINE own == [cd EXCEPT !.gateway = Self]
    <2>1. own \in Profile
        BY ProvisionAssumption DEF Typed, Profile
    <2>2. own \in Rough
        BY <2>1, ProfileIsRough
    <2>3. \/ SaveBegin(own, "boot")
          \/ cd' = own /\ UNCHANGED <<pc, job>>
        BY <1>6 DEF OwnGateway
    <2>4. UNCHANGED <<profile, key, cert, portal, ble, whole, mixed, promised>>
        BY <1>6 DEF OwnGateway
    <2> HIDE DEF own
    <2>5. CASE SaveBegin(own, "boot")
        BY <2>2, <2>4, <2>5, SaveBeginTyped DEF Typed
    <2>6. CASE cd' = own /\ UNCHANGED <<pc, job>>
        BY <2>1, <2>4, <2>6 DEF Typed
    <2> QED BY <2>3, <2>5, <2>6
  <1>7. CASE ToPortal
      BY <1>7, FreshTyped, BlankTyped DEF ToPortal, OpenPortal, Typed
  <1>8. CASE ToRole
      BY <1>8 DEF ToRole, Typed
  <1>9. CASE CryptoFails \/ LeavePortal \/ PairingOver
    <2>1. Restart
        BY <1>9 DEF CryptoFails, LeavePortal, PairingOver
    <2> QED BY <2>1, DownTyped DEF Restart, Typed
  <1>10. ASSUME NEW done \in BOOLEAN, SavePut(done)
         PROVE  Typed'
    <2>1. profile' \in Profile /\ job' \in JobType
        BY <1>10, PutIs, JobIs
    <2>2. whole' \in Profile /\ mixed' \in BOOLEAN /\ pc' \in {pc, "saved"}
        BY <1>10 DEF SavePut, Typed
    <2>3. UNCHANGED <<key, cert, cd, portal, ble, promised>>
        BY <1>10 DEF SavePut
    <2> QED BY <2>1, <2>2, <2>3 DEF Typed
  <1>11. CASE SavedBoot
      BY <1>11, FreshTyped DEF SavedBoot, Saved, Typed
  <1>12. CASE SavedPortal
    <2>1. portal' \in PortalType /\ promised' \in Profile
        BY <1>12, BlankTyped DEF SavedPortal, Typed, PortalType, JobType
    <2> QED BY <1>12, <2>1, FreshTyped, BlankTyped DEF SavedPortal, Saved, Typed
  <1>13. CASE SavedSensor
      BY <1>13, DownTyped DEF SavedSensor, Typed, JobType
  <1>14. CASE SavedBle
    <2>1. ble' \in BleType
        BY <1>14 DEF SavedBle, Typed, BleType, JobType
    <2> QED BY <1>14, <2>1, FreshTyped, BlankTyped DEF SavedBle, Saved, Typed, Poll
  <1>15. ASSUME NEW f \in Form, Submit(f)
         PROVE  Typed'
    <2>1. portal' \in PortalType
      <3> DEFINE page == IF FormOk(f) THEN "working" ELSE "error"
                 go == portal.go \/ FormOk(f)
      <3>1. page \in {"working", "error"} /\ go \in BOOLEAN
          OBVIOUS
      <3>2. portal' = [portal EXCEPT !.form = f, !.page = page, !.go = go]
          BY Zenon, <1>15 DEF Submit, Typed, PortalType
      <3> HIDE DEF page, go
      <3> QED BY <3>1, <3>2 DEF PortalType, Typed
    <2> QED BY <1>15, <2>1 DEF Submit, Typed
  <1>16. CASE TakeForm
      BY <1>16 DEF TakeForm, Typed, PortalType
  <1>17. CASE StopAP
      BY <1>17 DEF StopAP, Typed
  <1>18. CASE EnrollFails
      BY <1>18 DEF EnrollFails, Typed, PortalType, MakeKey
  <1>19. CASE EnrollCert
      BY <1>19 DEF EnrollCert, Typed
  <1>20. CASE EnrollProfile
    <2>1. PICK house \in House : SaveBegin(Enrolled(house), "portal")
        BY <1>20 DEF EnrollProfile
    <2>2. Enrolled(house) \in Rough
        BY EnrolledRough
    <2> QED BY <1>20, <2>1, <2>2, SaveBeginTyped, BlankTyped DEF EnrollProfile, Typed
  <1>21. ASSUME NEW p \in Phone, WriteKey(p)
         PROVE  Typed'
      BY <1>21 DEF WriteKey, Typed, BleType
  <1>22. ASSUME NEW x \in Payload, WriteProfile(x)
         PROVE  Typed'
      BY <1>22 DEF WriteProfile, Typed, BleType
  <1>23. ASSUME NEW c \in {"good", "bad"}, WriteCert(c)
         PROVE  Typed'
      BY <1>23 DEF WriteCert, Typed, BleType
  <1>24. CASE PollSession
    <2>1. ble' \in BleType
        BY <1>24 DEF PollSession, Typed, BleType
    <2> QED BY <1>24, <2>1 DEF PollSession, Typed, Poll
  <1>25. CASE PollPayload
      BY <1>25 DEF PollPayload, Typed, BleType, Poll
  <1>26. CASE ApplyPayload
    <2>1. ble.text \in Payload
        BY <1>26 DEF ApplyPayload, Opens, Typed, BleType
    <2>2. PICK c \in Profile : SaveBegin(Merge(c, ble.text), "ble")
        BY <1>2, <1>26, BlankTyped DEF ApplyPayload, Typed
    <2>3. Merge(c, ble.text) \in Rough
        BY <2>1, MergeTyped, ProfileIsRough
    <2>4. ble' \in BleType
        BY <1>26 DEF ApplyPayload, ForgetText, Typed, BleType
    <2> QED BY <1>26, <2>2, <2>3, <2>4, SaveBeginTyped, BlankTyped DEF ApplyPayload, Typed
  <1>27. CASE RefusePayload
      BY <1>27 DEF RefusePayload, ForgetText, Typed, BleType, Poll
  <1>28. CASE PollCert
      BY <1>28 DEF PollCert, Typed, BleType, Poll
  <1>29. CASE PollAgain
      BY <1>29 DEF PollAgain, Typed, Poll
  <1>30. CASE PowerLoss
    <2>1. mixed' \in BOOLEAN
        BY <1>30 DEF PowerLoss, Typed
    <2> QED BY <1>30, <2>1, DownTyped DEF PowerLoss, Typed
  <1>31. CASE UNCHANGED provisionVars
      BY <1>31 DEF provisionVars, Typed
  <1> QED BY <1>3, <1>4, <1>5, <1>6, <1>7, <1>8, <1>9, <1>10, <1>11, <1>12, <1>13,
             <1>14, <1>15, <1>16, <1>17, <1>18, <1>19, <1>20, <1>21, <1>22, <1>23,
             <1>24, <1>25, <1>26, <1>27, <1>28, <1>29, <1>30, <1>31
             DEF ProvisionNext

-----------------------------------------------------------------------------
(* Steps                                                                   *)

(* Nothing the invariant reads changes.                                    *)
LEMMA SameWork ==
  ASSUME Rest, UNCHANGED <<pc, profile, cd, job, whole, mixed>>
  PROVE  Rest'
  BY Zenon DEF Rest, FilledInv, PutsInv, FlashInv, BootedInv, CorrectingInv, RoleIsOneSave,
         ReportedIsSound, Saving

(* Flash stays as it is and no one works on a profile afterwards.          *)
LEMMA Aside ==
  ASSUME Rest, UNCHANGED <<profile, whole, mixed>>, pc # "save",
         pc' \notin {"decide", "save", "saved", "role"}
  PROVE  Rest'
  BY DEF Rest, FilledInv, PutsInv, FlashInv, BootedInv, CorrectingInv, RoleIsOneSave,
         ReportedIsSound, Saving

(* A save begins that is not setup's own.                                  *)
LEMMA SaveStarts ==
  ASSUME ProvisionTypeOK, Rest, NEW c \in Rough, NEW back \in {"portal", "ble"},
         SaveBegin(c, back), pc # "save", UNCHANGED <<profile, whole, mixed>>
  PROVE  Rest'
  <1>1. /\ pc' = "save" /\ Autofill(cd') = cd' /\ job'.back = back /\ job'.at = 1
        /\ (job'.over <=> profile.key # 0) /\ job'.landed
      BY SaveBeginTyped
  <1>2. FilledInv' /\ PutsInv' /\ CorrectingInv' /\ RoleIsOneSave' /\ ReportedIsSound'
      BY <1>1 DEF FilledInv, PutsInv, CorrectingInv, RoleIsOneSave, ReportedIsSound, Saving
  <1>3. FlashInv'
      BY <1>1 DEF Rest, FlashInv
  <1>4. BootedInv'
      BY <1>1 DEF BootedInv, Saving
  <1> QED BY <1>2, <1>3, <1>4 DEF Rest

(* Settled profiles that agree but for a gateway's id are Same, and so are *)
(* those any puts of one onto the other leave.                             *)
LEMMA PartOfSame ==
  ASSUME NEW p \in Profile, NEW q \in Profile, NEW c \in Profile, NEW w \in Profile,
         Autofill(c) = c, IsGateway(c), Same(c, w), Same(Autofill(p), w),
         q.house \in {p.house, c.house}, q.box \in {p.box, c.box},
         q.role \in {p.role, c.role}, q.key \in {p.key, c.key}
  PROVE  Same(Autofill(q), w)
  <1>1. c.role = "gateway" /\ c.box = 0
      BY Settled
  <1>2. IsGateway(p)
      BY <1>1, AutofillIs, ProfileIsRough DEF Same
  <1>3. IsGateway(q)
      BY <1>1, <1>2 DEF IsGateway
  <1>4. /\ Autofill(q).house = q.house /\ Autofill(q).key = q.key
        /\ Autofill(q).role = "gateway" /\ Autofill(q).box = 0
      BY <1>3, AutofillIs, ProfileIsRough
  <1>5. p.house = w.house /\ p.key = w.key
      BY AutofillIs, ProfileIsRough DEF Same
  <1> QED BY <1>1, <1>4, <1>5 DEF Same, IsGateway

(* What a put adds to what was put before, and what the last one reports.  *)
LEMMA PutGoesOn ==
  ASSUME ProvisionTypeOK, Rest, NEW done \in BOOLEAN, SavePut(done)
  PROVE  PutsInv' /\ ReportedIsSound'
  <1>1. /\ pc = "save" /\ UNCHANGED cd
        /\ pc' = IF job.at = 5 THEN "saved" ELSE "save"
        /\ job.back # "boot" /\ ~(job.at = 5 /\ job'.landed) => mixed' = (mixed \/ ~done)
        /\ job.back = "boot" => UNCHANGED mixed
      BY PutsAre DEF SavePut
  <1>2. job.at \in 1 .. 5 /\ job \in JobType /\ mixed \in BOOLEAN
      BY TypesAre, PutsAre DEF JobType
  <1>3. PutsInv
      BY DEF Rest
  <1>4. /\ Noticed(Puts[1]) /\ Noticed(Puts[2]) /\ Noticed(Puts[3])
        /\ Noticed(Puts[5])
      BY PutsAre DEF Noticed
  <1>5. CASE job.at < 5
    <2>1. pc' = "save" /\ job'.at = job.at + 1 /\ job'.back = job.back
        BY <1>1, <1>2, <1>5, JobIs
    <2>2. job'.ok \/ job'.landed =>
            /\ job'.at > 1 => profile'.house = cd.house
            /\ job'.at > 2 => profile'.box = cd.box
            /\ job'.at > 3 => profile'.role = cd.role
      <3>1. CASE job.at = 1
          BY <1>1, <1>3, <1>4, <2>1, <3>1, PutIs, JobIs DEF PutsInv
      <3>2. CASE job.at = 2
          BY <1>1, <1>3, <1>4, <2>1, <3>2, PutIs, JobIs DEF PutsInv
      <3>3. CASE job.at = 3
          BY <1>1, <1>3, <1>4, <2>1, <3>3, PutIs, JobIs DEF PutsInv
      <3>4. CASE job.at = 4
          BY <1>1, <1>3, <1>4, <2>1, <3>4, PutIs, JobIs DEF PutsInv
      <3> QED BY <1>2, <1>5, <3>1, <3>2, <3>3, <3>4
    <2>3. job'.landed /\ job'.at > 4 => profile'.gateway = cd.gateway
        BY <1>2, <1>5, <2>1, PutIs, JobIs
    <2>4. job'.over <=> profile'.key # 0
        BY <1>1, <1>3, <1>5, PutIs, JobIs DEF PutsInv
    <2>5. job'.back # "boot" /\ ~job'.landed => mixed'
        BY <1>1, <1>2, <1>3, <1>5, <2>1, JobIs DEF PutsInv
    <2> QED BY <1>1, <2>1, <2>2, <2>3, <2>4, <2>5 DEF PutsInv, ReportedIsSound
  <1>6. CASE job.at = 5
    <2>1. pc' = "saved"
        BY <1>1, <1>6
    <2>2. job'.ok => /\ profile'.house = cd.house /\ profile'.box = cd.box
                     /\ profile'.role = cd.role /\ profile'.key = cd.key
        BY <1>1, <1>3, <1>4, <1>6, PutIs, JobIs DEF PutsInv
    <2> QED BY <1>1, <2>1, <2>2 DEF PutsInv, ReportedIsSound
  <1> QED BY <1>2, <1>5, <1>6

(* A put of setup's correction leaves what makes the box as it was.        *)
LEMMA PutOfSetup ==
  ASSUME ProvisionTypeOK, Rest, NEW done \in BOOLEAN, SavePut(done), job.back = "boot"
  PROVE  Rest'
  <1>1. /\ pc = "save" /\ UNCHANGED <<cd, whole, mixed>>
        /\ pc' = IF job.at = 5 THEN "saved" ELSE "save"
      BY PutsAre DEF SavePut
  <1>2. /\ profile \in Profile /\ cd \in Profile /\ whole \in Profile
        /\ job.at \in 1 .. 5
      BY TypesAre, PutsAre DEF JobType
  <1>3. Autofill(cd) = cd /\ IsGateway(cd) /\ cd.house # 0 /\ cd.key # 0
      BY <1>1 DEF Rest, FilledInv, CorrectingInv, Saving
  <1>4. FilledInv' /\ CorrectingInv' /\ RoleIsOneSave'
      BY <1>1, <1>3 DEF FilledInv, CorrectingInv, RoleIsOneSave, Saving
  <1>5. mixed \/ (cd.key = profile.key /\ Same(cd, whole))
      BY <1>1, <1>3 DEF Rest, BootedInv, Saving
  <1>6. mixed \/ profile'.key = profile.key
      BY <1>1, <1>5, PutIs
  <1>7. BootedInv'
      BY <1>1, <1>5, <1>6 DEF BootedInv
  <1>8. FlashInv'
    <2>1. CASE mixed
        BY <1>1, <2>1 DEF FlashInv
    <2>2. CASE ~mixed
      <3>1. Same(Autofill(profile), whole)
          BY <1>1, <1>3, <1>5, <2>2 DEF Rest, FlashInv
      <3>2. Same(Autofill(profile'), whole)
          BY <1>2, <1>3, <1>5, <2>2, <3>1, PutIs, PartOfSame
      <3> QED BY <1>1, <3>2 DEF FlashInv
    <2> QED BY <2>1, <2>2
  <1>9. PutsInv' /\ ReportedIsSound'
      BY PutGoesOn
  <1> QED BY <1>4, <1>7, <1>8, <1>9 DEF Rest

(* A put of a save that the portal or a phone asked for.                   *)
LEMMA PutOfSave ==
  ASSUME ProvisionTypeOK, Rest, NEW done \in BOOLEAN, SavePut(done), job.back # "boot"
  PROVE  Rest'
  <1> DEFINE last == job.at = 5
  <1>1. /\ pc = "save" /\ UNCHANGED cd
        /\ pc' = IF last THEN "saved" ELSE "save"
        /\ mixed' = IF last /\ job'.landed THEN FALSE ELSE mixed \/ ~done
        /\ whole' = IF last /\ job'.landed THEN cd ELSE whole
        /\ job'.back = job.back
      BY PutsAre, JobIs DEF SavePut
  <1>2. /\ profile \in Profile /\ cd \in Profile /\ profile' \in Profile
        /\ job.at \in 1 .. 5
      BY TypesAre, PutsAre, PutIs DEF JobType
  <1>3. Autofill(cd) = cd
      BY <1>1 DEF Rest, FilledInv, Saving
  <1>4. FilledInv' /\ CorrectingInv' /\ RoleIsOneSave' /\ BootedInv'
      BY <1>1, <1>3 DEF FilledInv, CorrectingInv, RoleIsOneSave, BootedInv, Saving
  <1>5. PutsInv' /\ ReportedIsSound'
      BY PutGoesOn
  <1>6. FlashInv'
    <2>1. CASE last /\ job'.landed
      <3>1. job.landed /\ done
          BY <2>1, JobIs
      <3>2. /\ profile'.house = cd.house /\ profile'.box = cd.box
            /\ profile'.role = cd.role /\ profile'.gateway = cd.gateway
            /\ profile'.key = cd.key
        <4>1. PutsInv
            BY DEF Rest
        <4>2. /\ profile.house = cd.house /\ profile.box = cd.box
              /\ profile.role = cd.role /\ profile.gateway = cd.gateway
            BY <1>1, <2>1, <3>1, <4>1 DEF PutsInv
        <4> QED BY <2>1, <3>1, <4>2, PutIs
      <3>3. profile' = cd
          BY <1>2, <3>2, EqualProfiles
      <3> QED BY <1>1, <1>3, <2>1, <3>3 DEF FlashInv, Same
    <2>2. CASE ~(last /\ job'.landed) /\ (mixed \/ ~done)
        BY <1>1, <2>2 DEF FlashInv
    <2>3. CASE ~(last /\ job'.landed) /\ ~mixed /\ done
      <3>1. job.landed
          BY <1>1, <2>3 DEF Rest, PutsInv
      <3>2. job.at < 5 /\ pc' = "save" /\ job'.at > 1
        <4>1. /\ job'.at = IF job.at = 5 THEN 5 ELSE job.at + 1
              /\ job'.landed <=> job.landed /\ done
            BY JobIs
        <4>2. job.at < 5
            BY <1>2, <2>3, <3>1, <4>1
        <4> QED BY <1>1, <1>2, <4>1, <4>2
      <3>3. profile'.key = profile.key /\ (profile.key = 0 \/ job.over)
          BY <1>1, <3>2, PutIs DEF Rest, PutsInv
      <3> QED BY <1>1, <3>2, <3>3, JobIs DEF FlashInv
    <2> QED BY <2>1, <2>2, <2>3
  <1> QED BY <1>4, <1>5, <1>6 DEF Rest

(* setup gives a gateway its own id.                                       *)
LEMMA Corrects ==
  ASSUME ProvisionTypeOK, Rest, OwnGateway
  PROVE  Rest'
  <1> DEFINE own == [cd EXCEPT !.gateway = Self]
  <1>1. /\ pc = "decide" /\ cd.house # 0 /\ IsGateway(cd)
        /\ UNCHANGED <<profile, whole, mixed>>
        /\ \/ SaveBegin(own, "boot")
           \/ cd' = own /\ UNCHANGED <<pc, job>>
      BY DEF OwnGateway, NamesOther
  <1>2. cd \in Profile /\ Autofill(cd) = cd
      BY <1>1, TypesAre DEF Rest, FilledInv
  <1>3. /\ own \in Profile /\ Autofill(own) = own /\ IsGateway(own)
        /\ own.house = cd.house /\ own.box = cd.box /\ own.role = cd.role
        /\ own.key = cd.key
    <2>1. own \in Profile /\ Autofill(own) = own /\ IsGateway(own)
        BY <1>1, <1>2, OwnIsSettled
    <2>2. /\ own.house = cd.house /\ own.box = cd.box /\ own.role = cd.role
          /\ own.key = cd.key
        BY <1>2 DEF Profile
    <2> QED BY <2>1, <2>2
  <1> HIDE DEF own
  <1>4. mixed \/ (own.key = profile.key /\ (own.key = 0 \/ Same(own, whole)))
      BY <1>1, <1>3 DEF Rest, BootedInv, Same
  <1>5. mixed \/ profile.key = 0 \/ Same(Autofill(profile), whole)
      BY <1>1 DEF Rest, FlashInv
  <1>6. CASE SaveBegin(own, "boot")
    <2>1. /\ pc' = "save" /\ cd' = own /\ Valid(own) /\ job'.back = "boot"
          /\ job'.at = 1 /\ job'.landed /\ (job'.over <=> profile.key # 0)
        BY <1>3, <1>6, SaveBeginTyped, ProfileIsRough
    <2>2. FilledInv' /\ PutsInv' /\ RoleIsOneSave' /\ ReportedIsSound'
        BY <1>1, <1>3, <2>1
           DEF FilledInv, PutsInv, RoleIsOneSave, ReportedIsSound, Saving
    <2>3. CorrectingInv'
        BY <1>3, <2>1 DEF CorrectingInv, Valid
    <2>4. BootedInv' /\ FlashInv'
        BY <1>1, <1>4, <1>5, <2>1 DEF BootedInv, FlashInv
    <2> QED BY <2>2, <2>3, <2>4 DEF Rest
  <1>7. CASE cd' = own /\ UNCHANGED <<pc, job>>
    <2>1. FilledInv' /\ PutsInv' /\ RoleIsOneSave' /\ ReportedIsSound' /\ CorrectingInv'
        BY <1>1, <1>3, <1>7
           DEF FilledInv, PutsInv, RoleIsOneSave, ReportedIsSound, CorrectingInv, Saving
    <2>2. BootedInv' /\ FlashInv'
        BY <1>1, <1>4, <1>5, <1>7 DEF BootedInv, FlashInv
    <2> QED BY <2>1, <2>2 DEF Rest
  <1> QED BY <1>1, <1>6, <1>7

(* What runs is what setup had at hand, once it passed setup's checks.     *)
LEMMA TakesRole ==
  ASSUME ProvisionTypeOK, Rest, ToRole
  PROVE  Rest'
  <1>1. /\ pc = "decide" /\ pc' = "role" /\ UNCHANGED <<profile, cd, job, whole, mixed>>
        /\ cd.house # 0 /\ cd.key # 0 /\ (IsGateway(cd) => cd.gateway = Self)
      BY DEF ToRole, NamesOther, NeedsPortal, Valid
  <1>2. cd \in Profile /\ whole \in Profile
      BY TypesAre
  <1>3. mixed \/ Same(cd, whole)
      BY <1>1 DEF Rest, BootedInv
  <1>4. Same(cd, whole) => cd = Owned(whole)
    <2> SUFFICES ASSUME Same(cd, whole)
                 PROVE  cd = Owned(whole)
        OBVIOUS
    <2>1. IsGateway(cd) <=> IsGateway(whole)
        BY DEF Same, IsGateway
    <2>2. CASE IsGateway(cd)
      <3>1. Owned(whole) = [whole EXCEPT !.gateway = Self]
          BY <2>1, <2>2 DEF Owned
      <3>2. /\ Owned(whole) \in Profile
            /\ Owned(whole).house = whole.house /\ Owned(whole).box = whole.box
            /\ Owned(whole).role = whole.role /\ Owned(whole).key = whole.key
            /\ Owned(whole).gateway = Self
          BY <1>2, <3>1, ProvisionAssumption DEF Profile
      <3> QED BY <1>1, <1>2, <2>2, <3>2, EqualProfiles DEF Same
    <2>3. CASE ~IsGateway(cd)
        BY <1>2, <2>1, <2>3, EqualProfiles DEF Owned, Same
    <2> QED BY <2>2, <2>3
  <1>5. RoleIsOneSave'
    <2>1. Owned(whole)' = Owned(whole)
        BY <1>1 DEF Owned, IsGateway
    <2> QED BY <1>1, <1>3, <1>4, <2>1 DEF RoleIsOneSave
  <1>6. FilledInv' /\ PutsInv' /\ FlashInv' /\ BootedInv' /\ CorrectingInv'
        /\ ReportedIsSound'
      BY <1>1 DEF Rest, FilledInv, PutsInv, FlashInv, BootedInv, CorrectingInv,
         ReportedIsSound, Saving
  <1> QED BY <1>5, <1>6 DEF Rest

(* setup loads flash; the reset button wipes it; power fails.              *)
LEMMA Boots ==
  ASSUME ProvisionTypeOK, Rest, Boot \/ BootReset \/ PowerLoss
  PROVE  Rest'
  <1>1. /\ profile \in Profile /\ Autofill(profile) \in Profile
        /\ Autofill(profile).key = profile.key
        /\ Autofill(Autofill(profile)) = Autofill(profile)
      BY TypesAre, AutofillIs, AutofillTwice, ProfileIsRough
  <1>2. Autofill(Blank).house = 0 /\ Autofill(Autofill(Blank)) = Autofill(Blank)
      BY BlankTyped, AutofillIs, AutofillTwice, ProfileIsRough DEF Blank
  <1>3. CASE Boot
    <2>1. /\ pc = "off" /\ pc' = "decide" /\ UNCHANGED <<profile, job, whole, mixed>>
          /\ cd' \in {Autofill(profile), Autofill(Blank)}
        BY <1>3 DEF Boot
    <2>2. FlashInv /\ FlashInv'
        BY <2>1 DEF Rest, FlashInv
    <2>3. BootedInv'
        BY <1>1, <1>2, <2>1, <2>2 DEF FlashInv, BootedInv
    <2>4. FilledInv' /\ PutsInv' /\ CorrectingInv' /\ RoleIsOneSave' /\ ReportedIsSound'
        BY <1>1, <1>2, <2>1
           DEF FilledInv, PutsInv, CorrectingInv, RoleIsOneSave, ReportedIsSound, Saving
    <2> QED BY <2>2, <2>3, <2>4 DEF Rest
  <1>4. CASE BootReset
    <2>1. pc = "off" /\ pc' = "off"
        BY <1>4 DEF BootReset
    <2>2. FlashInv'
        BY <1>4, <2>1 DEF BootReset, Rest, FlashInv, Blank
    <2> QED BY <2>1, <2>2 DEF Rest, FilledInv, PutsInv, BootedInv, CorrectingInv,
               RoleIsOneSave, ReportedIsSound, Saving
  <1>5. CASE PowerLoss
    <2>1. /\ pc' = "off" /\ UNCHANGED <<profile, whole>>
          /\ mixed' = (mixed \/ (pc = "save" /\ job.back # "boot" /\ job.over /\ job.at > 1))
        BY <1>5 DEF PowerLoss, PowerDown
    <2>2. FlashInv'
        BY <2>1 DEF Rest, FlashInv
    <2> QED BY <2>1, <2>2 DEF Rest, FilledInv, PutsInv, BootedInv, CorrectingInv,
               RoleIsOneSave, ReportedIsSound, Saving
  <1> QED BY <1>3, <1>4, <1>5

LEMMA Steps ==
  ASSUME ProvisionTypeOK, Rest, [ProvisionNext]_provisionVars
  PROVE  Rest'
  <1>1. CASE Boot \/ BootReset \/ PowerLoss
      BY <1>1, Boots
  <1>2. CASE OwnGateway
      BY <1>2, Corrects
  <1>3. CASE ToRole
      BY <1>3, TakesRole
  <1>4. ASSUME NEW done \in BOOLEAN, SavePut(done)
        PROVE  Rest'
      BY <1>4, PutOfSetup, PutOfSave
  <1>5. CASE EnrollProfile
    <2>1. PICK house \in House : SaveBegin(Enrolled(house), "portal")
        BY <1>5 DEF EnrollProfile
    <2>2. pc # "save" /\ UNCHANGED <<profile, whole, mixed>>
        BY <1>5 DEF EnrollProfile
    <2> QED BY <2>1, <2>2, EnrolledRough, SaveStarts
  <1>6. CASE ApplyPayload
    <2>1. /\ pc # "save" /\ UNCHANGED <<profile, whole, mixed>>
          /\ ble.text # NoPayload
        BY <1>6 DEF ApplyPayload, Opens
    <2>2. ble.text \in Payload /\ Autofill(profile) \in Profile /\ Autofill(Blank) \in Profile
        BY <2>1, TypesAre, AutofillIs, ProfileIsRough, BlankTyped DEF BleType
    <2>3. PICK c \in Profile : SaveBegin(Merge(c, ble.text), "ble")
        BY <1>6, <2>2 DEF ApplyPayload
    <2> QED BY <2>1, <2>2, <2>3, MergeTyped, ProfileIsRough, SaveStarts
  <1>7. CASE SavedBoot
    <2>1. /\ pc = "saved" /\ job.back = "boot" /\ pc' = "decide"
          /\ UNCHANGED <<profile, cd, whole, mixed>>
        BY <1>7 DEF SavedBoot, Saved
    <2> QED BY <2>1 DEF Rest, FilledInv, PutsInv, FlashInv, BootedInv, CorrectingInv,
               RoleIsOneSave, ReportedIsSound, Saving
  <1>8. CASE CryptoFails \/ LeavePortal \/ PairingOver
    <2>1. Restart /\ pc # "save"
        BY <1>8 DEF CryptoFails, LeavePortal, PairingOver
    <2> QED BY <2>1, Aside DEF Restart, PowerDown
  <1>9. CASE BootPair \/ ToPortal
      BY <1>9, Aside DEF BootPair, ToPortal, OpenPortal
  <1>10. CASE SavedPortal \/ SavedSensor \/ SavedBle
      BY <1>10, Aside DEF SavedPortal, SavedSensor, SavedBle, Saved, PowerDown
  <1>11. CASE TakeForm \/ StopAP \/ EnrollFails
      BY <1>11, Aside DEF TakeForm, StopAP, EnrollFails
  <1>12. CASE PollSession \/ PollPayload \/ RefusePayload \/ PollCert \/ PollAgain
      BY <1>12, Aside DEF PollSession, PollPayload, RefusePayload, PollCert, PollAgain
  <1>13. CASE EnrollCert \/ UNCHANGED provisionVars
      BY <1>13, SameWork DEF EnrollCert, provisionVars
  <1>14. CASE \/ \E f \in Form : Submit(f)
              \/ \E p \in Phone : WriteKey(p)
              \/ \E x \in Payload : WriteProfile(x)
              \/ \E c \in {"good", "bad"} : WriteCert(c)
      BY <1>14, SameWork DEF Submit, WriteKey, WriteProfile, WriteCert
  <1> QED BY <1>1, <1>2, <1>3, <1>4, <1>5, <1>6, <1>7, <1>8, <1>9, <1>10, <1>11, <1>12,
             <1>13, <1>14 DEF ProvisionNext

LEMMA ProvisionInductive == ProvisionSpec => []ProvisionInv
  <1>1. ProvisionInit => ProvisionInv
    <2> SUFFICES ASSUME ProvisionInit
                 PROVE  ProvisionInv
        OBVIOUS
    <2>1. ProvisionTypeOK
        BY TypesAre, FreshTyped, BlankTyped DEF ProvisionInit
    <2>2. Rest
        BY DEF ProvisionInit, Rest, FilledInv, PutsInv, FlashInv, BootedInv,
           CorrectingInv, RoleIsOneSave, ReportedIsSound, Saving, Blank
    <2> QED BY <2>1, <2>2 DEF ProvisionInv
  <1>2. Typed => ProvisionTypeOK
      BY TypesAre DEF Typed
  <1>3. Typed' => ProvisionTypeOK'
      BY <1>2, PTL
  <1>4. ProvisionInv /\ [ProvisionNext]_provisionVars => ProvisionInv'
    <2> SUFFICES ASSUME ProvisionInv, [ProvisionNext]_provisionVars
                 PROVE  ProvisionInv'
        OBVIOUS
    <2>1. ProvisionTypeOK /\ Rest
        BY DEF ProvisionInv
    <2>2. Typed'
        BY <2>1, TypeStep
    <2> QED BY <1>3, <2>1, <2>2, Steps DEF ProvisionInv
  <1> QED BY <1>1, <1>4, PTL DEF ProvisionSpec

-----------------------------------------------------------------------------
(* Theorems                                                                *)

(* Type correctness of setup, the portal, the pairing window and           *)
(* commission_save: what the forms and blobs of any operator and phone     *)
(* leave in flash and at work is a profile, its slot among 0 to 3.         *)
THEOREM ProvisionTypeCorrect == ProvisionSpec => []ProvisionTypeOK
  <1>1. ProvisionInv => ProvisionTypeOK
      BY DEF ProvisionInv
  <1> QED BY <1>1, ProvisionInductive, PTL

(* commission_save answers "saved to NVS" only over flash that has house,  *)
(* slot, role and key of the profile, whatever puts failed.                *)
THEOREM ProvisionReportedIsSound == ProvisionSpec => []ReportedIsSound
  <1>1. ProvisionInv => ReportedIsSound
      BY DEF ProvisionInv, Rest
  <1> QED BY <1>1, ProvisionInductive, PTL

(* A box never takes up a role (the end of setup) with half a profile,     *)
(* however often power fails between the puts of commission_save.          *)
THEOREM ProvisionRoleIsOneSave == ProvisionSpec => []RoleIsOneSave
  <1>1. ProvisionInv => RoleIsOneSave
      BY DEF ProvisionInv, Rest
  <1> QED BY <1>1, ProvisionInductive, PTL

-----------------------------------------------------------------------------
(* What the portal promised                                                *)

(* A profile that passes the checks of setup, all but one: the sensor      *)
(* whose own id is the portal's placeholder for its gateway's.             *)
Passes(c) ==
    /\ Autofill(c) = c /\ Valid(c)
    /\ IsGateway(c) => c.gateway = Self /\ cert
    /\ ~IsGateway(c) => c.gateway # Self \/ Self = Placeholder

(* Two profiles alike but for the gateway id, whose put may fail unnoticed. *)
Alike(a, b) == a.house = b.house /\ a.box = b.box /\ a.role = b.role /\ a.key = b.key

(* What flash has of a promised profile, the gateway id perhaps missing.   *)
KeptInv == promised # Blank => Passes(promised) /\ Alike(profile, promised)

(* setup has flash at hand, or nothing when it could not read it.          *)
AtHandInv ==
    (pc = "decide" \/ Saving) /\ promised # Blank =>
      \/ pc = "decide" /\ cd.house = 0
      \/ Alike(cd, promised) /\ (IsGateway(cd) \/ cd.gateway = profile.gateway)

(* Until a save is over nothing is promised, setup's own save apart, and   *)
(* what the portal saves passes.                                           *)
UnderwayInv ==
    /\ Saving /\ job.back # "boot" => promised = Blank
    /\ Saving /\ job.back = "portal" => Passes(cd)

(* With flash that works nothing is missing and everything can be read.    *)
SoundFlashInv ==
    NvsFaults \/
      /\ job.landed
      /\ pc = "saved" => profile = cd
      /\ promised # Blank /\ ~IsGateway(promised) => profile.gateway = promised.gateway
      /\ pc = "decide" /\ promised # Blank => cd.house # 0

PromiseInv == KeptInv /\ AtHandInv /\ UnderwayInv /\ SoundFlashInv

LEMMA PromiseSame ==
  ASSUME PromiseInv, UNCHANGED <<pc, profile, cd, job, promised>>, cert => cert'
  PROVE  PromiseInv'
  BY Zenon DEF PromiseInv, KeptInv, AtHandInv, UnderwayInv, SoundFlashInv, Passes, Alike,
     Saving, Valid, IsGateway, Autofill

(* No one works on a profile afterwards.                                   *)
LEMMA PromiseAside ==
  ASSUME PromiseInv, UNCHANGED <<profile, promised>>, cert => cert',
         job' \in {job, NoSave}, pc' \notin {"decide", "save", "saved"}
  PROVE  PromiseInv'
  <1>1. KeptInv'
      BY DEF PromiseInv, KeptInv, Passes, Alike, Valid, IsGateway, Autofill
  <1>2. AtHandInv' /\ UnderwayInv'
      BY DEF AtHandInv, UnderwayInv, Saving
  <1>3. SoundFlashInv'
      BY DEF PromiseInv, SoundFlashInv, NoSave, IsGateway
  <1> QED BY <1>1, <1>2, <1>3 DEF PromiseInv

(* What a form makes passes.                                               *)
LEMMA EnrolledPasses ==
  ASSUME ProvisionTypeOK, EnrollProfile
  PROVE  Passes(cd)' /\ pc' = "save" /\ promised' = Blank /\ job'.landed
  <1>1. PICK house \in House : SaveBegin(Enrolled(house), "portal")
      BY DEF EnrollProfile
  <1> DEFINE c == Enrolled(house)
  <1>2. c \in Rough
      BY EnrolledRough
  <1>3. portal.form.role \in {"gateway", "sensor"}
      BY TypesAre, ProvisionAssumption DEF PortalType, NoForm
  <1>4. /\ c.role = portal.form.role
        /\ c.role = "gateway" => c.gateway = Self
        /\ c.role = "sensor" => c.gateway = Placeholder
      BY DEF Enrolled
  <1>5. portal.form.role = "gateway" => cert'
      BY DEF EnrollProfile
  <1> HIDE DEF c
  <1>6. /\ cd' = Autofill(c) /\ Autofill(cd') = cd' /\ Valid(cd') /\ pc' = "save"
        /\ job'.landed
      BY <1>1, <1>2, SaveBeginTyped DEF c
  <1>7. /\ cd'.gateway = c.gateway
        /\ IsGateway(c) => cd'.role = "gateway"
        /\ ~IsGateway(c) => cd'.role = "sensor"
      BY <1>2, <1>6, AutofillIs
  <1>8. IsGateway(cd') <=> c.role = "gateway"
      BY <1>3, <1>4, <1>7 DEF IsGateway
  <1>9. promised' = Blank
      BY DEF EnrollProfile
  <1> QED BY <1>3, <1>4, <1>5, <1>6, <1>7, <1>8, <1>9 DEF Passes

(* setup loads what was promised as it is in flash.                        *)
LEMMA PromiseBoots ==
  ASSUME ProvisionTypeOK, PromiseInv, Boot
  PROVE  PromiseInv'
  <1>1. /\ pc' = "decide" /\ UNCHANGED <<profile, cert, job, promised>>
        /\ \/ cd' = Autofill(profile)
           \/ NvsFaults /\ cd' = Autofill(Blank)
      BY DEF Boot
  <1>2. profile \in Profile /\ promised \in Profile
      BY TypesAre
  <1>3. KeptInv' /\ UnderwayInv'
      BY <1>1 DEF PromiseInv, KeptInv, UnderwayInv, Passes, Alike, Saving, Valid, IsGateway,
         Autofill
  <1>4. promised # Blank /\ cd' = Autofill(profile) =>
          Alike(cd', promised) /\ cd'.house # 0 /\ cd'.gateway = profile.gateway
    <2> SUFFICES ASSUME promised # Blank
                 PROVE  LET c == Autofill(profile)
                        IN  Alike(c, promised) /\ c.house # 0 /\ c.gateway = profile.gateway
        OBVIOUS
    <2>1. /\ Alike(profile, promised) /\ promised.house # 0
          /\ Autofill(promised) = promised
        BY DEF PromiseInv, KeptInv, Passes, Valid
    <2>2. IsGateway(profile) <=> IsGateway(promised)
        BY <2>1 DEF Alike, IsGateway
    <2>3. \/ /\ IsGateway(profile) /\ profile.role = "gateway" /\ profile.box = 0
          \/ /\ ~IsGateway(profile) /\ profile.role = "sensor" /\ profile.box \in 1 .. 3
        BY <1>2, <2>1, <2>2, Settled DEF Alike
    <2> QED BY <1>2, <2>1, <2>3, AutofillIs, ProfileIsRough DEF Alike
  <1>5. Autofill(Blank).house = 0
      BY BlankTyped, AutofillIs, ProfileIsRough DEF Blank
  <1>6. AtHandInv'
      BY <1>1, <1>4, <1>5 DEF AtHandInv, Saving
  <1>7. SoundFlashInv'
      BY <1>1, <1>4 DEF PromiseInv, SoundFlashInv, IsGateway
  <1> QED BY <1>3, <1>6, <1>7 DEF PromiseInv

(* setup's own save keeps what was promised.                               *)
LEMMA PromiseCorrects ==
  ASSUME ProvisionTypeOK, PromiseInv, OwnGateway
  PROVE  PromiseInv'
  <1> DEFINE own == [cd EXCEPT !.gateway = Self]
  <1>1. /\ pc = "decide" /\ cd.house # 0 /\ IsGateway(cd)
        /\ UNCHANGED <<profile, cert, promised>>
        /\ \/ SaveBegin(own, "boot")
           \/ cd' = own /\ UNCHANGED <<pc, job>>
      BY DEF OwnGateway, NamesOther
  <1>2. cd \in Profile
      BY TypesAre
  <1>3. /\ own.house = cd.house /\ own.box = cd.box /\ own.role = cd.role
        /\ own.key = cd.key
      BY <1>2 DEF Profile
  <1>4. own \in Rough
      BY <1>2, ProfileIsRough, ProvisionAssumption DEF Profile
  <1> HIDE DEF own
  <1>5. KeptInv'
      BY <1>1 DEF PromiseInv, KeptInv, Passes, Alike, Valid, IsGateway, Autofill
  <1>6. promised # Blank => Alike(own, promised) /\ IsGateway(own)
      BY <1>1, <1>3 DEF PromiseInv, AtHandInv, Alike, IsGateway
  <1>7. CASE SaveBegin(own, "boot")
    <2>1. pc' = "save" /\ cd' = Autofill(own) /\ job'.back = "boot" /\ job'.landed
        BY <1>4, <1>7, SaveBeginTyped
    <2>2. promised # Blank => Alike(cd', promised) /\ IsGateway(cd')
      <3> SUFFICES ASSUME promised # Blank
                   PROVE  Alike(cd', promised) /\ IsGateway(cd')
          OBVIOUS
      <3>1. promised \in Profile /\ Autofill(promised) = promised /\ IsGateway(promised)
          BY <1>6, TypesAre DEF PromiseInv, KeptInv, Passes, Alike, IsGateway
      <3>2. promised.role = "gateway" /\ promised.box = 0
          BY <3>1, Settled
      <3> QED BY <1>4, <1>6, <2>1, <3>2, AutofillIs DEF Alike, IsGateway
    <2>3. AtHandInv' /\ UnderwayInv'
        BY <1>1, <2>1, <2>2 DEF AtHandInv, UnderwayInv
    <2>4. SoundFlashInv'
        BY <1>1, <2>1 DEF PromiseInv, SoundFlashInv, IsGateway
    <2> QED BY <1>5, <2>3, <2>4 DEF PromiseInv
  <1>8. CASE cd' = own /\ UNCHANGED <<pc, job>>
    <2>1. AtHandInv' /\ UnderwayInv'
        BY <1>1, <1>6, <1>8 DEF AtHandInv, UnderwayInv, Saving
    <2>2. SoundFlashInv'
        BY <1>1, <1>3, <1>8 DEF PromiseInv, SoundFlashInv, IsGateway
    <2> QED BY <1>5, <2>1, <2>2 DEF PromiseInv
  <1> QED BY <1>1, <1>7, <1>8

LEMMA PromisePuts ==
  ASSUME ProvisionInv, PromiseInv, NEW done \in BOOLEAN, SavePut(done)
  PROVE  PromiseInv'
  <1>0. ProvisionTypeOK /\ Rest
      BY DEF ProvisionInv
  <1>1. /\ pc = "save" /\ UNCHANGED <<cd, cert, promised>>
        /\ pc' = IF job.at = 5 THEN "saved" ELSE "save"
        /\ done \/ NvsFaults
      BY PutsAre DEF SavePut
  <1>2. job'.back = job.back
      BY <1>0, JobIs
  <1>3. job.back = "boot" => IsGateway(cd)
      BY <1>0, <1>1 DEF Rest, CorrectingInv, Saving
  <1>4. promised # Blank => job.back = "boot" /\ Alike(cd, promised)
      BY <1>1 DEF PromiseInv, UnderwayInv, AtHandInv, Saving
  <1>5. /\ profile'.house \in {profile.house, cd.house}
        /\ profile'.box \in {profile.box, cd.box}
        /\ profile'.role \in {profile.role, cd.role}
        /\ profile'.key \in {profile.key, cd.key}
      BY <1>0, PutIs
  <1>6. KeptInv'
      BY <1>1, <1>4, <1>5 DEF PromiseInv, KeptInv, Passes, Alike, Valid, IsGateway, Autofill
  <1>7. AtHandInv'
      BY <1>1, <1>3, <1>4 DEF AtHandInv, Saving, Alike, IsGateway
  <1>8. UnderwayInv'
    <2>1. Passes(cd) => Passes(cd)'
        BY <1>1 DEF Passes, Valid, IsGateway, Autofill
    <2> QED BY <1>1, <1>2, <2>1 DEF PromiseInv, UnderwayInv, Saving
  <1>9. ~NvsFaults => job.landed /\ job'.landed /\ done
      BY <1>0, <1>1, JobIs DEF PromiseInv, SoundFlashInv
  <1>10. ~NvsFaults /\ pc' = "saved" => profile' = cd
    <2> SUFFICES ASSUME ~NvsFaults, pc' = "saved"
                 PROVE  profile' = cd
        OBVIOUS
    <2>1. job.landed /\ done /\ job.at = 5
        BY <1>1, <1>9
    <2>2. /\ profile.house = cd.house /\ profile.box = cd.box
          /\ profile.role = cd.role /\ profile.gateway = cd.gateway
        BY <1>0, <1>1, <2>1 DEF Rest, PutsInv
    <2>3. /\ profile'.house = cd.house /\ profile'.box = cd.box
          /\ profile'.role = cd.role /\ profile'.gateway = cd.gateway
          /\ profile'.key = cd.key /\ profile' \in Profile
        BY <1>0, <2>1, <2>2, PutIs
    <2>4. cd \in Profile
        BY <1>0, TypesAre
    <2> QED BY <2>3, <2>4, EqualProfiles
  <1>11. promised # Blank => IsGateway(promised)
      BY <1>3, <1>4 DEF Alike, IsGateway
  <1>12. SoundFlashInv'
      BY <1>1, <1>9, <1>10, <1>11 DEF SoundFlashInv, IsGateway
  <1> QED BY <1>6, <1>7, <1>8, <1>12 DEF PromiseInv

(* The portal reports a success: flash has the profile, the gateway id     *)
(* perhaps not.                                                            *)
LEMMA PromiseGiven ==
  ASSUME ProvisionInv, PromiseInv, SavedPortal \/ SavedSensor
  PROVE  PromiseInv'
  <1>0. Rest
      BY DEF ProvisionInv
  <1>1. /\ pc = "saved" /\ job.back = "portal" /\ UNCHANGED <<profile, cert>>
        /\ job' = NoSave
        /\ promised' = Blank \/ (job.ok /\ promised' = cd)
        /\ pc' \in {"portal", "off"}
      BY DEF SavedPortal, SavedSensor, Saved, PowerDown
  <1>2. Passes(cd)
      BY <1>1 DEF PromiseInv, UnderwayInv, Saving
  <1>3. job.ok => Alike(profile, cd)
      BY <1>0, <1>1 DEF Rest, ReportedIsSound, Alike
  <1>4. KeptInv'
      BY <1>1, <1>2, <1>3 DEF KeptInv, Passes, Alike, Valid, IsGateway, Autofill
  <1>5. AtHandInv' /\ UnderwayInv'
      BY <1>1 DEF AtHandInv, UnderwayInv, Saving
  <1>6. SoundFlashInv'
      BY <1>1 DEF PromiseInv, SoundFlashInv, NoSave
  <1> QED BY <1>4, <1>5, <1>6 DEF PromiseInv

LEMMA PromiseSteps ==
  ASSUME ProvisionInv, PromiseInv, [ProvisionNext]_provisionVars
  PROVE  PromiseInv'
  <1>0. ProvisionTypeOK /\ Rest
      BY DEF ProvisionInv
  <1>1. CASE Boot
      BY <1>0, <1>1, PromiseBoots
  <1>2. CASE BootReset
    <2>1. CASE UNCHANGED <<profile, promised>>
        BY <1>2, <2>1, PromiseSame DEF BootReset
    <2>2. CASE promised' = Blank
        BY <1>2, <2>2 DEF BootReset, PromiseInv, KeptInv, AtHandInv, UnderwayInv,
           SoundFlashInv, Saving
    <2> QED BY <1>2, <2>1, <2>2 DEF BootReset
  <1>3. CASE OwnGateway
      BY <1>0, <1>3, PromiseCorrects
  <1>4. ASSUME NEW done \in BOOLEAN, SavePut(done)
        PROVE  PromiseInv'
      BY <1>4, PromisePuts
  <1>5. CASE SavedBoot
    <2>1. /\ pc = "saved" /\ pc' = "decide" /\ job.back = "boot" /\ job' = NoSave
          /\ UNCHANGED <<profile, cert, cd, promised>>
        BY <1>5 DEF SavedBoot, Saved
    <2>2. cd.house # 0
        BY <1>0, <2>1 DEF Rest, CorrectingInv, Saving
    <2>3. KeptInv' /\ AtHandInv' /\ UnderwayInv'
        BY <2>1 DEF PromiseInv, KeptInv, AtHandInv, UnderwayInv, Passes, Alike, Saving,
           Valid, IsGateway, Autofill
    <2>4. SoundFlashInv'
        BY <2>1, <2>2 DEF PromiseInv, SoundFlashInv, NoSave, IsGateway
    <2> QED BY <2>3, <2>4 DEF PromiseInv
  <1>6. CASE SavedPortal \/ SavedSensor
      BY <1>6, PromiseGiven
  <1>7. CASE SavedBle
      BY <1>7, PromiseAside DEF SavedBle, Saved
  <1>8. CASE EnrollProfile
    <2>1. Passes(cd)' /\ pc' = "save" /\ promised' = Blank /\ job'.landed
        BY <1>0, <1>8, EnrolledPasses
    <2> QED BY <2>1 DEF PromiseInv, KeptInv, AtHandInv, UnderwayInv, SoundFlashInv
  <1>9. CASE ApplyPayload
    <2>1. pc' = "save" /\ job'.back = "ble" /\ promised' = Blank /\ job'.landed
        BY <1>9 DEF ApplyPayload, SaveBegin, NoSave
    <2> QED BY <2>1 DEF PromiseInv, KeptInv, AtHandInv, UnderwayInv, SoundFlashInv
  <1>10. CASE CryptoFails \/ LeavePortal \/ PairingOver
    <2>1. Restart
        BY <1>10 DEF CryptoFails, LeavePortal, PairingOver
    <2> QED BY <2>1, PromiseAside DEF Restart, PowerDown
  <1>11. CASE BootPair \/ ToPortal \/ ToRole \/ PowerLoss
      BY <1>11, PromiseAside DEF BootPair, ToPortal, OpenPortal, ToRole, PowerLoss, PowerDown
  <1>12. CASE TakeForm \/ StopAP \/ EnrollFails
      BY <1>12, PromiseAside DEF TakeForm, StopAP, EnrollFails
  <1>13. CASE PollSession \/ PollPayload \/ RefusePayload \/ PollAgain
    <2>1. UNCHANGED <<profile, cert, job, promised>> /\ pc' \in Poll \cup {"read_payload"}
        BY <1>13 DEF PollSession, PollPayload, RefusePayload, PollAgain, Poll
    <2> QED BY <2>1, PromiseAside DEF Poll
  <1>14. CASE EnrollCert \/ UNCHANGED provisionVars
      BY <1>14, PromiseSame DEF EnrollCert, provisionVars
  <1>15. CASE \/ \E f \in Form : Submit(f)
              \/ \E p \in Phone : WriteKey(p)
              \/ \E x \in Payload : WriteProfile(x)
              \/ \E c \in {"good", "bad"} : WriteCert(c)
    <2>1. UNCHANGED <<pc, profile, cert, cd, job, promised>>
        BY <1>15 DEF Submit, WriteKey, WriteProfile, WriteCert
    <2> QED BY <2>1, PromiseSame
  <1>16. CASE PollCert
    <2>1. cert => cert'
        BY <1>16 DEF PollCert
    <2> QED BY <1>16, <2>1, PromiseAside DEF PollCert
  <1> QED BY <1>1, <1>2, <1>3, <1>4, <1>5, <1>6, <1>7, <1>8, <1>9, <1>10, <1>11, <1>12,
             <1>13, <1>14, <1>15, <1>16 DEF ProvisionNext

(* The only way from setup's checks to the portal.                         *)
LEMMA BackToPortal ==
  ASSUME ProvisionInv, PromiseInv, [ProvisionNext]_provisionVars,
         pc = "decide", pc' = "portal", promised # Blank
  PROVE  \/ cd.house = 0 /\ profile.house # 0 /\ NvsFaults
         \/ ~NeedsPortal /\ NvsFaults
         \/ /\ ~IsGateway(promised)
            /\ \/ profile.gateway # promised.gateway /\ NvsFaults
               \/ Self = Placeholder
  <1>1. ToPortal
      BY DEF ProvisionNext, provisionVars, Boot, BootReset, BootPair, OwnGateway, SaveBegin,
         ToRole, CryptoFails, Restart, PowerDown, SavePut, SavedBoot, SavedPortal,
         SavedSensor, SavedBle, Saved, Submit, TakeForm, StopAP, EnrollFails, EnrollCert,
         EnrollProfile, LeavePortal, WriteKey, WriteProfile, WriteCert, Pairing, Poll,
         Saving, PollSession, PollPayload, ApplyPayload, RefusePayload, PollCert,
         PollAgain, PairingOver, PowerLoss
  <1>2. ~NamesOther /\ (NeedsPortal \/ NvsFaults)
      BY <1>1 DEF ToPortal
  <1>3. Passes(promised) /\ Alike(profile, promised) /\ promised.house # 0
      BY DEF PromiseInv, KeptInv, Passes, Valid
  <1>4. CASE cd.house = 0
      BY <1>3, <1>4 DEF PromiseInv, SoundFlashInv, Alike
  <1>5. CASE cd.house # 0
    <2>1. Alike(cd, promised) /\ (IsGateway(cd) \/ cd.gateway = profile.gateway)
        BY <1>5 DEF PromiseInv, AtHandInv
    <2>2. IsGateway(cd) <=> IsGateway(promised)
        BY <2>1 DEF Alike, IsGateway
    <2>3. ~NvsFaults /\ ~IsGateway(promised) => profile.gateway = promised.gateway
        BY DEF PromiseInv, SoundFlashInv
    <2>4. CASE IsGateway(cd)
        BY <1>2, <1>3, <1>5, <2>1, <2>2, <2>4
           DEF NeedsPortal, NamesOther, Passes, Alike, Valid, IsGateway
    <2>5. CASE ~IsGateway(cd) /\ profile.gateway = promised.gateway
      <3>1. Valid(cd) /\ (cd.gateway # Self \/ Self = Placeholder)
          BY <1>3, <2>1, <2>2, <2>5 DEF Passes, Alike, Valid
      <3> QED BY <1>2, <1>5, <2>2, <2>5, <3>1 DEF NeedsPortal
    <2> QED BY <2>2, <2>3, <2>4, <2>5
  <1> QED BY <1>4, <1>5

LEMMA PromiseAlways == ProvisionSpec => []PromiseInv
  <1>1. ProvisionInit => PromiseInv
      BY DEF ProvisionInit, PromiseInv, KeptInv, AtHandInv, UnderwayInv, SoundFlashInv,
         NoSave, Saving
  <1>2. ProvisionInv /\ PromiseInv /\ [ProvisionNext]_provisionVars => PromiseInv'
      BY PromiseSteps
  <1> QED BY <1>1, <1>2, ProvisionInductive, PTL DEF ProvisionSpec

(* With working flash, the one way a success that was shown is taken back. *)
OnlyOwnIdFails ==
    [][pc = "decide" /\ pc' = "portal" /\ promised # Blank
         => ~IsGateway(promised) /\ Self = Placeholder]_provisionVars

(* The counterexample of provision_own_id is the only kind there is as     *)
(* long as flash works: whatever was saved, cut or pressed, a success of   *)
(* the portal is taken back by no check of setup but the one for a sensor  *)
(* that names itself.                                                      *)
THEOREM ProvisionOnlyOwnIdFails ==
  ASSUME ~NvsFaults
  PROVE  ProvisionSpec => OnlyOwnIdFails
  <1>1. ProvisionInv /\ PromiseInv /\ [ProvisionNext]_provisionVars
          => [pc = "decide" /\ pc' = "portal" /\ promised # Blank
                => ~IsGateway(promised) /\ Self = Placeholder]_provisionVars
      BY BackToPortal
  <1> QED BY <1>1, ProvisionInductive, PromiseAlways, PTL DEF ProvisionSpec, OnlyOwnIdFails

(* A profile the portal reported as saved sends no later boot back to the  *)
(* portal (portal_provision.h: "On success the device reboots into its     *)
(* role"), but for the three failures of flash the property names: on      *)
(* every box whose own id is not the placeholder the portal gives a sensor *)
(* for its gateway's.                                                      *)
THEOREM ProvisionSuccessIsForGood ==
  ASSUME Self # Placeholder
  PROVE  ProvisionSpec => SuccessIsForGood
  <1>1. ProvisionInv /\ PromiseInv /\ [ProvisionNext]_provisionVars
          => [pc = "decide" /\ pc' = "portal" /\ promised # Blank =>
                \/ cd.house = 0 /\ profile.house # 0
                \/ ~NeedsPortal
                \/ ~IsGateway(promised) /\ profile.gateway # promised.gateway]_provisionVars
      BY BackToPortal
  <1> QED BY <1>1, ProvisionInductive, PromiseAlways, PTL DEF ProvisionSpec, SuccessIsForGood

-----------------------------------------------------------------------------
(* The role after a success                                                *)

(* RoleIsOneSave without its exception: what runs after a success is what  *)
(* was promised, not a mix and not an older profile.  Only the gateway id  *)
(* of a sensor may be an older one, the one flash has.                     *)
PromisedIsRun ==
    promised # Blank /\ pc = "role" =>
      \/ cd = promised
      \/ ~IsGateway(promised) /\ cd = [promised EXCEPT !.gateway = profile.gateway]

LEMMA RunSteps ==
  ASSUME ProvisionInv, PromiseInv, PromisedIsRun, [ProvisionNext]_provisionVars
  PROVE  PromisedIsRun'
  <1>1. CASE ToRole
    <2>1. /\ pc = "decide" /\ ~NamesOther /\ ~NeedsPortal
          /\ UNCHANGED <<profile, cd, promised>>
        BY <1>1 DEF ToRole
    <2> DEFINE kept == [promised EXCEPT !.gateway = profile.gateway]
    <2> SUFFICES ASSUME promised # Blank
                 PROVE  cd = promised \/ (~IsGateway(promised) /\ cd = kept)
        BY <2>1 DEF PromisedIsRun, IsGateway
    <2>2. /\ Alike(cd, promised) /\ (IsGateway(cd) \/ cd.gateway = profile.gateway)
          /\ Passes(promised)
        BY <2>1 DEF NeedsPortal, PromiseInv, AtHandInv, KeptInv
    <2>3. cd \in Profile /\ promised \in Profile /\ profile \in Profile
        BY TypesAre DEF ProvisionInv
    <2>4. IsGateway(cd) <=> IsGateway(promised)
        BY <2>2 DEF Alike, IsGateway
    <2>5. CASE IsGateway(cd)
      <3>1. cd.gateway = promised.gateway
          BY <2>1, <2>2, <2>4, <2>5 DEF NamesOther, NeedsPortal, Passes
      <3>2. cd = promised
          BY <2>2, <2>3, <3>1, EqualProfiles DEF Alike
      <3> QED BY <3>2
    <2>6. CASE ~IsGateway(cd)
      <3>1. /\ kept \in Profile /\ kept.house = promised.house
            /\ kept.box = promised.box /\ kept.role = promised.role
            /\ kept.key = promised.key /\ kept.gateway = profile.gateway
          BY <2>3 DEF Profile
      <3> HIDE DEF kept
      <3>2. cd = kept
          BY <2>2, <2>3, <2>6, <3>1, EqualProfiles DEF Alike
      <3> QED BY <2>4, <2>6, <3>2
    <2> QED BY <2>5, <2>6
  <1>2. CASE pc' # "role"
      BY <1>2 DEF PromisedIsRun
  <1>3. CASE UNCHANGED <<pc, profile, cd, promised>>
      BY <1>3 DEF PromisedIsRun, IsGateway
  <1>4. CASE Boot \/ BootReset \/ BootPair
      BY <1>2, <1>4 DEF Boot, BootReset, BootPair
  <1>5. CASE OwnGateway
    <2>1. pc' = "save" \/ pc' = "decide"
        BY <1>5 DEF OwnGateway, SaveBegin
    <2> QED BY <1>2, <2>1
  <1>6. ASSUME NEW done \in BOOLEAN, SavePut(done)
        PROVE  PromisedIsRun'
      BY <1>2, <1>6 DEF SavePut
  <1>7. CASE SavedBoot \/ SavedPortal \/ SavedSensor \/ SavedBle
      BY <1>2, <1>7 DEF SavedBoot, SavedPortal, SavedSensor, SavedBle, PowerDown
  <1>8. CASE EnrollProfile \/ ApplyPayload
      BY <1>2, <1>8 DEF EnrollProfile, ApplyPayload, SaveBegin
  <1>9. CASE CryptoFails \/ LeavePortal \/ PairingOver \/ PowerLoss \/ ToPortal
      BY <1>2, <1>9 DEF CryptoFails, LeavePortal, PairingOver, PowerLoss, ToPortal,
         OpenPortal, Restart, PowerDown
  <1>10. CASE TakeForm \/ StopAP \/ EnrollFails
      BY <1>2, <1>10 DEF TakeForm, StopAP, EnrollFails
  <1>11. CASE PollSession \/ PollPayload \/ RefusePayload \/ PollCert \/ PollAgain
      BY <1>2, <1>11 DEF PollSession, PollPayload, RefusePayload, PollCert, PollAgain
  <1>12. CASE \/ EnrollCert \/ UNCHANGED provisionVars
              \/ \E f \in Form : Submit(f)
              \/ \E p \in Phone : WriteKey(p)
              \/ \E x \in Payload : WriteProfile(x)
              \/ \E c \in {"good", "bad"} : WriteCert(c)
      BY <1>3, <1>12 DEF EnrollCert, provisionVars, Submit, WriteKey, WriteProfile, WriteCert
  <1> QED BY <1>1, <1>4, <1>5, <1>6, <1>7, <1>8, <1>9, <1>10, <1>11, <1>12
          DEF ProvisionNext

(* After the portal showed success, a role is taken with the profile that  *)
(* was promised (setup, commission_load), whatever flash failed and        *)
(* however often power did: no mix of saves is excepted, only the gateway  *)
(* id of a sensor, whose put may have failed unnoticed.                    *)
THEOREM ProvisionPromisedIsRun == ProvisionSpec => []PromisedIsRun
  <1>1. ProvisionInit => PromisedIsRun
      BY DEF ProvisionInit, PromisedIsRun
  <1>2. ProvisionInv /\ PromiseInv /\ PromisedIsRun /\ [ProvisionNext]_provisionVars
          => PromisedIsRun'
      BY RunSteps
  <1> QED BY <1>1, <1>2, ProvisionInductive, PromiseAlways, PTL DEF ProvisionSpec

-----------------------------------------------------------------------------
(* The blobs of the pairing window                                         *)

LEMMA BlobSteps ==
  ASSUME ProvisionTypeOK, NoBlobForgotten, [ProvisionNext]_provisionVars
  PROVE  NoBlobForgotten'
  <1>0. ble \in BleType
      BY TypesAre
  <1> USE <1>0 DEF NoBlobForgotten, BleType
  <1>1. CASE BootPair \/ CryptoFails \/ SavedSensor \/ LeavePortal \/ PairingOver \/ PowerLoss
    <2>1. ble' = FreshBle
        BY <1>1 DEF BootPair, CryptoFails, SavedSensor, LeavePortal, PairingOver, PowerLoss,
           Restart, PowerDown
    <2> QED BY <2>1 DEF FreshBle
  <1>2. CASE \/ \E x \in Payload : WriteProfile(x)
             \/ \E p \in Phone : WriteKey(p)
             \/ \E c \in {"good", "bad"} : WriteCert(c)
      BY <1>2 DEF WriteProfile, WriteKey, WriteCert
  <1>3. CASE PollPayload
      BY <1>3 DEF PollPayload
  <1>4. CASE ApplyPayload \/ RefusePayload
    <2>1. ble'.text # NoPayload => ble'.pending
        BY <1>4 DEF ApplyPayload, RefusePayload, ForgetText
    <2> QED BY <2>1
  <1>5. CASE PollSession \/ PollCert
      BY <1>5 DEF PollSession, PollCert
  <1>6. CASE SavedBle
      BY <1>6 DEF SavedBle, Saved
  <1>7. CASE UNCHANGED ble /\ pc # "read_payload"
      BY <1>7
  <1>8. CASE UNCHANGED ble /\ UNCHANGED pc
      BY <1>8
  <1>9. CASE Boot \/ BootReset \/ OwnGateway \/ ToPortal \/ ToRole \/ SavedBoot \/ SavedPortal
      BY <1>7, <1>9 DEF Boot, BootReset, OwnGateway, ToPortal, ToRole, SavedBoot, SavedPortal,
         Saved
  <1>10. CASE TakeForm \/ StopAP \/ EnrollFails \/ EnrollCert \/ EnrollProfile \/ PollAgain
      BY <1>7, <1>10 DEF TakeForm, StopAP, EnrollFails, EnrollCert, EnrollProfile, PollAgain
  <1>11. ASSUME NEW done \in BOOLEAN, SavePut(done)
         PROVE  NoBlobForgotten'
      BY <1>7, <1>11 DEF SavePut
  <1>12. CASE (\E f \in Form : Submit(f)) \/ UNCHANGED provisionVars
      BY <1>8, <1>12 DEF Submit, provisionVars
  <1> QED BY <1>1, <1>2, <1>3, <1>4, <1>5, <1>6, <1>9, <1>10, <1>11, <1>12
          DEF ProvisionNext

(* Whenever the BLE task writes a blob between the polls of                *)
(* ble_pairing_run, it stays flagged until the loop reads it.              *)
THEOREM ProvisionNoBlobForgotten == ProvisionSpec => []NoBlobForgotten
  <1>1. ProvisionInit => NoBlobForgotten
      BY DEF ProvisionInit, NoBlobForgotten, FreshBle
  <1>2. ProvisionTypeOK /\ NoBlobForgotten /\ [ProvisionNext]_provisionVars
          => NoBlobForgotten'
      BY BlobSteps
  <1> QED BY <1>1, <1>2, ProvisionTypeCorrect, PTL DEF ProvisionSpec

=============================================================================

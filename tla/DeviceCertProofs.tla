-------------------------- MODULE DeviceCertProofs ---------------------------
(***************************************************************************)
(* Proofs about DeviceCert, for any number of chunks, any buffer and any   *)
(* number of faults: the types; and, of a phone that waits for the box,    *)
(* that only whole certificates reach flash, that a role is taken up with  *)
(* a certificate of the box's own key, and that OK means stored.           *)
(***************************************************************************)
EXTENDS DeviceCert, SequenceTheorems, TLAPS

Buffer == Seq(Chunk)

(* The types by variable.                                                  *)
BleType == [accum : Buffer, payload : Buffer, pending : BOOLEAN]
PhoneType == [signed : Nat, text : Nat, next : 0 .. Chunks + 1,
              heard : {"none", "OK", "ERR"}]

-----------------------------------------------------------------------------
(* Lemmas about buffers                                                    *)

LEMMA HoldsType ==
  ASSUME NEW b \in Buffer
  PROVE  Holds(b) \in Nat /\ Stored(b) \in Nat \cup {Torn}
  <1>1. CASE \E i \in Begins(b) : WholeFrom(b, i)
    <2> DEFINE i == CHOOSE i \in Begins(b) : WholeFrom(b, i)
    <2>1. i \in 1 .. Len(b)
        BY <1>1 DEF Begins
    <2>2. b[i] \in Chunk
        BY <2>1, ElementOfSeq DEF Buffer
    <2>3. Holds(b) = b[i].text
        BY <1>1 DEF Holds
    <2> QED BY <2>2, <2>3 DEF Chunk, Stored, NotACert, Torn
  <1>2. CASE ~\E i \in Begins(b) : WholeFrom(b, i)
      BY <1>2 DEF Holds, NotACert, Stored, Torn
  <1> QED BY <1>1, <1>2

LEMMA GatheredType ==
  ASSUME NEW b \in Buffer, Len(b) <= Cap, NEW c \in Chunk
  PROVE  Gathered(b, c) \in Buffer /\ Len(Gathered(b, c)) <= Cap
  <1> DEFINE fresh == IF c.at = 1 /\ ~app.short THEN <<>> ELSE b
  <1>1. fresh \in Seq(Chunk) /\ Len(fresh) <= Cap /\ Len(fresh) \in Nat
      BY DeviceCertAssumption, EmptySeq, LenProperties DEF Buffer
  <1>2. CASE Len(fresh) < Cap
    <2>1. /\ Append(fresh, c) \in Seq(Chunk)
          /\ Len(Append(fresh, c)) = Len(fresh) + 1
        BY <1>1, AppendProperties
    <2>2. Gathered(b, c) = Append(fresh, c)
        BY <1>2 DEF Gathered
    <2> QED BY <1>1, <1>2, <2>1, <2>2, DeviceCertAssumption DEF Buffer
  <1>3. CASE ~(Len(fresh) < Cap)
      BY <1>1, <1>3 DEF Gathered, Buffer
  <1> QED BY <1>2, <1>3

(* What a buffer may hold after a chunk more.                              *)
LEMMA GatheredFrom ==
  ASSUME NEW b \in Buffer, NEW c \in Chunk, NEW i \in 1 .. Len(Gathered(b, c))
  PROVE  Gathered(b, c)[i] = c \/ \E j \in 1 .. Len(b) : Gathered(b, c)[i] = b[j]
  <1> DEFINE fresh == IF c.at = 1 /\ ~app.short THEN <<>> ELSE b
  <1>1. fresh \in Seq(Chunk) /\ Len(fresh) \in Nat
      BY EmptySeq, LenProperties DEF Buffer
  <1>2. \A j \in 1 .. Len(fresh) : j \in 1 .. Len(b) /\ fresh[j] = b[j]
      BY EmptySeq
  <1>3. CASE Len(fresh) < Cap
    <2>1. Gathered(b, c) = Append(fresh, c)
        BY <1>3 DEF Gathered
    <2>2. /\ Len(Append(fresh, c)) = Len(fresh) + 1
          /\ Append(fresh, c)[Len(fresh) + 1] = c
          /\ \A j \in 1 .. Len(fresh) : Append(fresh, c)[j] = fresh[j]
        BY <1>1, AppendProperties
    <2> QED BY <1>1, <1>2, <2>1, <2>2
  <1>4. CASE ~(Len(fresh) < Cap)
      BY <1>2, <1>4 DEF Gathered
  <1> QED BY <1>3, <1>4

-----------------------------------------------------------------------------
(* Types                                                                   *)

TruthType == commissioned \in BOOLEAN /\ rekeyed \in BOOLEAN

KeyType == key \in Nat /\ csr \in Nat /\ crt \in Nat \cup {Torn}

BufferType ==
    /\ ble \in BleType
    /\ Len(ble.accum) <= Cap /\ Len(ble.payload) <= Cap

PlaceType ==
    /\ pc \in {"off", "boot", "portal", "enrol", "house", "role"} \cup Window
    /\ phone \in PhoneType
    /\ app \in [short : BOOLEAN, hasty : BOOLEAN]
    /\ left \in [flash : 0 .. FlashFaults, link : 0 .. LinkTrouble]

LEMMA TypeParts ==
  /\ TruthType /\ KeyType /\ BufferType /\ PlaceType <=> DeviceCertTypeOK
  /\ (TruthType /\ KeyType /\ BufferType /\ PlaceType)' <=> DeviceCertTypeOK'
  BY DEF TruthType, KeyType, BufferType, PlaceType, DeviceCertTypeOK, BleType, PhoneType, Buffer

LEMMA QuietType ==
  Quiet \in BleType /\ Len(Quiet.accum) = 0 /\ Len(Quiet.payload) = 0
  BY EmptySeq DEF Quiet, BleType, Buffer

LEMMA InitType == DeviceCertInit => DeviceCertTypeOK
  <1> SUFFICES ASSUME DeviceCertInit PROVE DeviceCertTypeOK
      OBVIOUS
  <1>1. TruthType /\ KeyType
      BY DEF DeviceCertInit, TruthType, KeyType
  <1>2. BufferType
      BY QuietType, DeviceCertAssumption DEF DeviceCertInit, BufferType
  <1>3. PlaceType
      BY DeviceCertAssumption DEF DeviceCertInit, PlaceType, PhoneType, NoPhone, NotACert
  <1> QED BY <1>1, <1>2, <1>3, TypeParts

LEMMA TruthStep == DeviceCertTypeOK /\ [DeviceCertNext]_certVars => TruthType'
  <1> SUFFICES ASSUME TruthType, [DeviceCertNext]_certVars PROVE TruthType'
      BY TypeParts
  <1>1. commissioned' \in BOOLEAN
      BY Zenon
         DEF TruthType, flash, DeviceCertNext, Boot, EnrolInit, WipeProfile, ToRole, ToPortal,
             ToPairing, EnrolKeep, EnrolSign, EnrolFails, EnrolSave, PairCommission,
             PowerLoss, ReadCsr, StartTransfer, WriteChunk, BreakOff, Poll, CheckCert,
             PutCert, Wipe, certVars
  <1>2. rekeyed' \in BOOLEAN
      BY Zenon
         DEF TruthType, flash, DeviceCertNext, Boot, EnrolInit, MakeKey, WipeProfile, ToRole,
             ToPortal, ToPairing, EnrolKeep, EnrolSign, EnrolFails, EnrolSave, PairCommission,
             PowerLoss, ReadCsr, StartTransfer, WriteChunk, BreakOff, Poll, CheckCert,
             PutCert, Wipe, certVars
  <1> QED BY <1>1, <1>2 DEF TruthType

(* Keys and certificates are numbers whatever is stored.                   *)
LEMMA KeyStep == DeviceCertTypeOK /\ [DeviceCertNext]_certVars => KeyType'
  <1> SUFFICES ASSUME KeyType, BufferType, [DeviceCertNext]_certVars PROVE KeyType'
      BY TypeParts
  <1> USE DEF KeyType, flash
  <1>1. CASE Boot \/ EnrolInit
      BY <1>1 DEF Boot, EnrolInit, MakeKey
  <1>2. CASE \/ ToRole \/ ToPortal \/ ToPairing
             \/ EnrolKeep \/ EnrolSign \/ EnrolFails
      BY <1>2 DEF ToRole, ToPortal, ToPairing, EnrolKeep, EnrolSign, EnrolFails
  <1>3. CASE EnrolSave \/ WipeProfile \/ PairCommission \/ PowerLoss
      BY <1>3 DEF EnrolSave, WipeProfile, PairCommission, PowerLoss, PowerDown
  <1>4. CASE ReadCsr \/ StartTransfer \/ WriteChunk \/ BreakOff \/ Poll \/ CheckCert \/ Wipe
      BY <1>4 DEF ReadCsr, StartTransfer, WriteChunk, BreakOff, Poll, CheckCert, Wipe
  <1>5. CASE PutCert
    <2>1. Stored(ble.payload) \in Nat \cup {Torn}
        BY HoldsType DEF BufferType, BleType
    <2> QED BY <1>5, <2>1 DEF PutCert
  <1>6. CASE UNCHANGED certVars
      BY <1>6 DEF certVars
  <1> QED BY <1>1, <1>2, <1>3, <1>4, <1>5, <1>6 DEF DeviceCertNext

(* The phone with another transfer, and with another answer.               *)
LEMMA PhoneStarts ==
  ASSUME NEW p \in PhoneType, NEW t \in Nat
  PROVE  [p EXCEPT !.text = t, !.next = 1, !.heard = "none"] \in PhoneType
  <1> DEFINE q == [p EXCEPT !.text = t]
             r == [q EXCEPT !.next = 1]
  <1>1. q \in PhoneType
      BY DEF PhoneType
  <1>2. 1 \in 0 .. Chunks + 1
      BY DeviceCertAssumption
  <1> HIDE DEF q
  <1>3. r \in PhoneType
      BY <1>1, <1>2 DEF PhoneType
  <1> HIDE DEF r
  <1>4. [r EXCEPT !.heard = "none"] \in PhoneType
      BY <1>3 DEF PhoneType
  <1>5. [p EXCEPT !.text = t, !.next = 1, !.heard = "none"] = [r EXCEPT !.heard = "none"]
      BY DEF q, r
  <1> QED BY <1>4, <1>5

LEMMA PhoneHears ==
  ASSUME NEW p \in PhoneType, NEW word \in {"OK", "ERR"}
  PROVE  [p EXCEPT !.next = 0, !.heard = word] \in PhoneType
  <1> DEFINE q == [p EXCEPT !.next = 0]
  <1>1. 0 \in 0 .. Chunks + 1
      BY DeviceCertAssumption
  <1>2. q \in PhoneType
      BY <1>1 DEF PhoneType
  <1> HIDE DEF q
  <1>3. [q EXCEPT !.heard = word] \in PhoneType
      BY <1>2 DEF PhoneType
  <1>4. [p EXCEPT !.next = 0, !.heard = word] = [q EXCEPT !.heard = word]
      BY DEF q
  <1> QED BY <1>3, <1>4

LEMMA AnswerType ==
  ASSUME phone \in PhoneType, NEW word \in {"OK", "ERR"}, Answer(word)
  PROVE  phone' \in PhoneType
  BY PhoneHears DEF Answer

(* Place, phone and budgets.                                               *)
LEMMA PlaceStep == DeviceCertTypeOK /\ [DeviceCertNext]_certVars => PlaceType'
  <1> SUFFICES ASSUME KeyType, PlaceType, [DeviceCertNext]_certVars PROVE PlaceType'
      BY TypeParts
  <1> USE DeviceCertAssumption
      DEF PlaceType, PhoneType, Window, FlashFails, LinkFails, NoPhone, NotACert
  <1>1. CASE Boot \/ EnrolInit
      BY <1>1 DEF Boot, EnrolInit, MakeKey
  <1>2. CASE \/ ToRole \/ ToPortal \/ ToPairing
             \/ EnrolKeep \/ EnrolSign \/ EnrolFails
      BY <1>2 DEF ToRole, ToPortal, ToPairing, EnrolKeep, EnrolSign, EnrolFails
  <1>3. CASE EnrolSave \/ WipeProfile \/ PairCommission \/ PowerLoss
      BY <1>3 DEF EnrolSave, WipeProfile, PairCommission, PowerLoss, PowerDown
  <1>4. CASE ReadCsr
      BY <1>4 DEF ReadCsr, KeyType
  <1>5. CASE StartTransfer
    <2>1. phone.signed \in Nat /\ NotACert \in Nat
        OBVIOUS
    <2>2. phone' \in PhoneType
        BY ONLY <1>5, <2>1, PhoneStarts, PlaceType DEF StartTransfer, PlaceType
    <2> QED BY <1>5, <2>2 DEF StartTransfer, MayStart
  <1>6. CASE WriteChunk
      BY <1>6 DEF WriteChunk
  <1>7. CASE BreakOff
      BY <1>7 DEF BreakOff
  <1>8. CASE Poll \/ Wipe
      BY <1>8 DEF Poll, Wipe
  <1>9. CASE CheckCert
    <2>1. phone' \in PhoneType
        BY ONLY <1>9, AnswerType, PlaceType DEF CheckCert, PlaceType
    <2> QED BY <1>9, <2>1 DEF CheckCert
  <1>10. CASE PutCert
    <2>1. phone' \in PhoneType
        BY ONLY <1>10, AnswerType, PlaceType DEF PutCert, PlaceType
    <2> QED BY <1>10, <2>1 DEF PutCert
  <1>11. CASE UNCHANGED certVars
      BY <1>11 DEF certVars
  <1> QED BY <1>1, <1>2, <1>3, <1>4, <1>5, <1>6, <1>7, <1>8, <1>9, <1>10, <1>11
          DEF DeviceCertNext

(* The buffers: WriteChunk fills them, within their size.                  *)
LEMMA ReceiveType ==
  ASSUME BufferType, NEW c \in Chunk, Receive(c)
  PROVE  BufferType'
  <1> DEFINE accum == Gathered(ble.accum, c)
  <1>1. accum \in Buffer /\ Len(accum) <= Cap
      BY GatheredType DEF BufferType, BleType
  <1>2. (ble.pending \/ Ended(accum)) \in BOOLEAN
      BY Zenon
  <1> HIDE DEF accum
  <1> DEFINE pending == ble.pending \/ Ended(accum)
             payload == IF Ended(accum) THEN accum ELSE ble.payload
  <1>3. ble' = [accum |-> accum, payload |-> payload, pending |-> pending]
      BY Zenon DEF Receive, accum
  <1>4. payload \in Buffer /\ Len(payload) <= Cap
      BY <1>1 DEF BufferType, BleType
  <1> HIDE DEF payload, pending
  <1> QED BY <1>1, <1>2, <1>3, <1>4 DEF BufferType, BleType, pending

LEMMA BufferStep == DeviceCertTypeOK /\ [DeviceCertNext]_certVars => BufferType'
  <1> SUFFICES ASSUME BufferType, PlaceType, [DeviceCertNext]_certVars PROVE BufferType'
      BY TypeParts
  <1>1. CASE WriteChunk
    <2>1. [text |-> phone.text, at |-> phone.next] \in Chunk
        BY <1>1 DEF WriteChunk, PlaceType, PhoneType, Chunk
    <2> QED BY <1>1, <2>1, ReceiveType DEF WriteChunk
  <1>2. CASE EnrolSave \/ WipeProfile \/ PairCommission \/ PowerLoss
      BY <1>2, QuietType, DeviceCertAssumption
         DEF EnrolSave, WipeProfile, PairCommission, PowerLoss, PowerDown, BufferType
  <1>3. CASE Poll
      BY <1>3 DEF Poll, BufferType, BleType
  <1>4. CASE Wipe
    <2>1. <<>> \in Buffer /\ Len(<<>>) <= Cap
        BY EmptySeq, DeviceCertAssumption DEF Buffer
    <2> QED BY <1>4, <2>1 DEF Wipe, BufferType, BleType
  <1>5. CASE UNCHANGED ble
      BY <1>5 DEF BufferType
  <1>6. CASE DeviceCertNext
    <2>1. \/ WriteChunk \/ EnrolSave \/ WipeProfile \/ PairCommission \/ PowerLoss \/ Poll \/ Wipe
          \/ UNCHANGED ble
        BY <1>6 DEF DeviceCertNext, Boot, ToRole, ToPortal, ToPairing, EnrolInit,
                    EnrolKeep, EnrolSign, EnrolFails, ReadCsr, StartTransfer,
                    BreakOff, CheckCert, PutCert
    <2> QED BY <2>1, <1>1, <1>2, <1>3, <1>4, <1>5
  <1> QED BY <1>5, <1>6 DEF certVars

LEMMA TypeStep == DeviceCertTypeOK /\ [DeviceCertNext]_certVars => DeviceCertTypeOK'
  BY TruthStep, KeyStep, PlaceStep, BufferStep, TypeParts

(* Whatever phone, flash and power do, the buffers stay within their size, *)
(* and keys, certificates and answers have their types.                    *)
THEOREM DeviceCertTypeCorrect == DeviceCertSpec => []DeviceCertTypeOK
  BY InitType, TypeStep, PTL DEF DeviceCertSpec

-----------------------------------------------------------------------------
(* The invariant, for a phone that lets the box finish                     *)

EndsAre(b, t) == \A i \in 1 .. Len(b) : b[i].at = Chunks => b[i].text = t

(* RAM is empty outside of the pairing window.                             *)
IdleInv == pc \notin Window => csr = 0 /\ ble = Quiet /\ phone = NoPhone

(* CSR, signature and transfer are about the key in flash.                 *)
OwnInv == csr \in {0, key} /\ phone.signed \in {0, key} /\ phone.text \in {0, key}

(* A key that is replaced leaves rekeyed behind.                           *)
CrtInv ==
    /\ crt # Torn
    /\ rekeyed \/ crt \in {0, key}
    /\ key = 0 => crt = 0 /\ ~rekeyed

(* While chunks come nothing is handed over; what is handed over ends with *)
(* the transfer the phone waits for.                                       *)
TransferInv ==
    /\ phone.next \in 1 .. Chunks => pc = "window" /\ ~ble.pending
    /\ ble.pending \/ pc \in {"check", "put"}
          => phone.next = Chunks + 1 /\ EndsAre(ble.payload, phone.text)
    /\ pc = "window" /\ ~ble.pending => ~Ended(ble.accum)
    /\ ble.pending => pc = "window"
    /\ pc = "put" => Holds(ble.payload) # NotACert

(* RoleHasIdentity, for this phone.                                        *)
RoleInv == pc = "role" => rekeyed \/ CanConnect

CertInv ==
    DeviceCertTypeOK /\ IdleInv /\ OwnInv /\ CrtInv /\ TransferInv /\ RoleInv

(* What holds of any phone.                                                *)
PatientInv == DeviceCertTypeOK /\ (~app.hasty => CertInv)

-----------------------------------------------------------------------------
(* A certificate is that of the transfer its END chunk came with.          *)
LEMMA HoldsTheEnd ==
  ASSUME NEW b \in Buffer, NEW t, EndsAre(b, t), Holds(b) # NotACert
  PROVE  Holds(b) = t
  <1>1. \E i \in Begins(b) : WholeFrom(b, i)
      BY DEF Holds
  <1> DEFINE i == CHOOSE i \in Begins(b) : WholeFrom(b, i)
             e == i + Chunks - 1
  <1>2. i \in Begins(b) /\ WholeFrom(b, i) /\ Holds(b) = b[i].text
      BY <1>1 DEF Holds
  <1>3. i \in 1 .. Len(b) /\ Len(b) \in Nat
      BY <1>2, LenProperties DEF Begins, Buffer
  <1> HIDE DEF i
  <1>4. e \in 1 .. Len(b)
      BY <1>2, <1>3, DeviceCertAssumption DEF WholeFrom
  <1>5. b[e] = [text |-> b[i].text, at |-> Chunks]
      BY <1>2, DeviceCertAssumption DEF WholeFrom
  <1>6. b[e].at = Chunks /\ b[e].text = b[i].text
      BY <1>5
  <1> QED BY <1>2, <1>4, <1>6 DEF EndsAre

(* The next chunk: it ends the transfer, or the buffer holds no end.       *)
LEMMA ChunkEnds ==
  ASSUME NEW b \in Buffer, NEW c \in Chunk, ~Ended(b)
  PROVE  /\ EndsAre(Gathered(b, c), c.text)
         /\ Ended(Gathered(b, c)) => c.at = Chunks
  <1>1. \A i \in 1 .. Len(Gathered(b, c)) : Gathered(b, c)[i].at = Chunks
          => Gathered(b, c)[i] = c
      BY GatheredFrom DEF Ended
  <1> QED BY <1>1 DEF EndsAre, Ended

LEMMA InitCertInv == DeviceCertInit => CertInv
  <1> SUFFICES ASSUME DeviceCertInit PROVE CertInv
      OBVIOUS
  <1>1. DeviceCertTypeOK
      BY InitType
  <1>2. IdleInv /\ OwnInv /\ CrtInv /\ RoleInv
      BY DEF DeviceCertInit, IdleInv, OwnInv, CrtInv, RoleInv, NoPhone, NotACert, Torn
  <1>3. TransferInv
      BY DeviceCertAssumption
         DEF DeviceCertInit, TransferInv, NoPhone, Quiet
  <1> QED BY <1>1, <1>2, <1>3 DEF CertInv

(* What a box without power, in the portal or in its role knows of a phone.*)
LEMMA IdleIsSound ==
  ASSUME IdleInv, pc \notin Window
  PROVE  OwnInv /\ TransferInv
  BY DeviceCertAssumption
     DEF IdleInv, OwnInv, TransferInv, Window, NoPhone, Quiet, NotACert

LEMMA IdleIsSoundNext ==
  ASSUME IdleInv', pc' \notin Window
  PROVE  OwnInv' /\ TransferInv'
  BY DeviceCertAssumption
     DEF IdleInv, OwnInv, TransferInv, Window, NoPhone, Quiet, NotACert

(* Boot, portal and restarts: the certificate stays that of the key.       *)
LEMMA BootSteps ==
  ASSUME CertInv,
         \/ Boot \/ WipeProfile \/ ToRole \/ ToPortal \/ EnrolInit \/ EnrolKeep
         \/ EnrolSign \/ EnrolSave \/ EnrolFails \/ PairCommission \/ PowerLoss
  PROVE  IdleInv' /\ OwnInv' /\ CrtInv' /\ TransferInv' /\ RoleInv'
  <1>1. key \in Nat /\ crt \in Nat \cup {Torn}
      BY DEF CertInv, DeviceCertTypeOK
  <1>2. pc' \notin Window
      BY DEF Boot, WipeProfile, ToRole, ToPortal, EnrolInit, EnrolKeep,
             EnrolSign, EnrolSave, EnrolFails, PairCommission, PowerLoss, PowerDown, Window
  <1>3. IdleInv'
    <2>1. CASE EnrolSave \/ WipeProfile \/ PairCommission \/ PowerLoss
        BY <2>1 DEF EnrolSave, WipeProfile, PairCommission, PowerLoss, PowerDown, IdleInv
    <2>2. CASE \/ Boot \/ ToRole \/ ToPortal \/ EnrolInit \/ EnrolKeep
               \/ EnrolSign \/ EnrolFails
        BY <2>2 DEF CertInv, Boot, ToRole, ToPortal, EnrolInit, EnrolKeep,
                    EnrolSign, EnrolFails, IdleInv, Window
    <2> QED BY <2>1, <2>2
  <1>4. CrtInv'
    <2>1. CASE Boot \/ EnrolInit
        BY <1>1, <2>1 DEF CertInv, CrtInv, Boot, EnrolInit, MakeKey, Torn
    <2>2. CASE EnrolSign
        BY <1>1, <2>2 DEF CertInv, CrtInv, EnrolSign, Torn
    <2>3. CASE UNCHANGED <<key, crt, rekeyed>>
        BY <2>3 DEF CertInv, CrtInv
    <2>4. Boot \/ EnrolInit \/ EnrolSign \/ UNCHANGED <<key, crt, rekeyed>>
        BY DEF WipeProfile, ToRole, ToPortal, EnrolKeep, EnrolSave, EnrolFails,
               PairCommission, PowerLoss, flash
    <2> QED BY <2>1, <2>2, <2>3, <2>4
  <1>5. RoleInv'
    <2>1. CASE ToRole
        BY <1>1, <2>1 DEF CertInv, CrtInv, ToRole, flash, RoleInv, CanConnect
    <2>2. CASE pc' # "role"
        BY <2>2 DEF RoleInv
    <2>3. ToRole \/ pc' # "role"
        BY DEF Boot, WipeProfile, ToPortal, EnrolInit, EnrolKeep,
               EnrolSign, EnrolSave, EnrolFails, PairCommission, PowerLoss, PowerDown
    <2> QED BY <2>1, <2>2, <2>3
  <1> QED BY <1>2, <1>3, <1>4, <1>5, IdleIsSoundNext

(* The pairing window opens; the phone reads, starts, breaks off.          *)
LEMMA PhoneSteps ==
  ASSUME CertInv, ~app.hasty, ToPairing \/ ReadCsr \/ StartTransfer \/ BreakOff
  PROVE  IdleInv' /\ OwnInv' /\ CrtInv' /\ TransferInv' /\ RoleInv'
  <1>1. phone \in PhoneType /\ ble \in BleType
      BY TypeParts DEF CertInv, PlaceType, BufferType
  <1>2. pc' \in Window
      BY DEF ToPairing, ReadCsr, StartTransfer, MayStart, BreakOff, Window
  <1>3. IdleInv' /\ RoleInv'
      BY <1>2 DEF IdleInv, RoleInv, Window
  <1>4. CrtInv'
      BY DEF CertInv, CrtInv, ToPairing, ReadCsr, StartTransfer, BreakOff, flash
  <1>5. CASE ToPairing
    <2>1. csr = 0 /\ ble = Quiet /\ phone = NoPhone
        BY <1>5 DEF CertInv, IdleInv, ToPairing, Window
    <2>2. OwnInv'
        BY <1>5, <2>1 DEF ToPairing, OwnInv, NoPhone, NotACert, flash
    <2>3. TransferInv'
        BY <1>5, <2>1, DeviceCertAssumption DEF ToPairing, TransferInv, NoPhone, Quiet, Ended
    <2> QED BY <1>3, <1>4, <2>2, <2>3
  <1>6. CASE ReadCsr
    <2>1. /\ phone'.signed = csr /\ phone'.text = phone.text /\ phone'.next = phone.next
          /\ UNCHANGED <<pc, key, csr, ble, app>>
        BY <1>1, <1>6 DEF ReadCsr, PhoneType, flash
    <2>2. OwnInv'
        BY <2>1 DEF CertInv, OwnInv
    <2>3. Holds(ble.payload)' = Holds(ble.payload)
        BY <2>1 DEF Holds, Begins, WholeFrom
    <2>4. TransferInv'
        BY <2>1, <2>3 DEF CertInv, TransferInv
    <2> QED BY <1>3, <1>4, <2>2, <2>4
  <1>7. CASE StartTransfer
    <2>1. /\ pc = "window" /\ ~ble.pending /\ UNCHANGED <<pc, key, csr, ble>>
          /\ phone'.signed = phone.signed /\ phone'.next = 1
          /\ phone'.text \in {phone.signed, NotACert}
        BY <1>1, <1>7 DEF StartTransfer, MayStart, PhoneType, flash
    <2>2. OwnInv'
        BY <2>1 DEF CertInv, OwnInv, NotACert
    <2>3. TransferInv'
        BY <2>1 DEF CertInv, TransferInv
    <2> QED BY <1>3, <1>4, <2>2, <2>3
  <1>8. CASE BreakOff
    <2>1. /\ phone.next \in 1 .. Chunks /\ UNCHANGED <<pc, key, csr, ble>>
          /\ phone'.signed = phone.signed /\ phone'.next = 0 /\ phone'.text = phone.text
        BY <1>1, <1>8, DeviceCertAssumption DEF BreakOff, PhoneType, flash
    <2>2. OwnInv'
        BY <2>1 DEF CertInv, OwnInv
    <2>3. TransferInv'
        BY <2>1 DEF CertInv, TransferInv
    <2> QED BY <1>3, <1>4, <2>2, <2>3
  <1> QED BY <1>5, <1>6, <1>7, <1>8

LEMMA WriteSteps ==
  ASSUME CertInv, WriteChunk
  PROVE  IdleInv' /\ OwnInv' /\ CrtInv' /\ TransferInv' /\ RoleInv'
  <1> DEFINE c == [text |-> phone.text, at |-> phone.next]
             accum == Gathered(ble.accum, c)
  <1>1. phone \in PhoneType /\ ble.accum \in Buffer
      BY TypeParts DEF CertInv, PlaceType, BufferType, BleType
  <1>2. /\ pc = "window" /\ ~ble.pending /\ phone.next \in 1 .. Chunks
        /\ ~Ended(ble.accum)
      BY DEF CertInv, TransferInv, WriteChunk
  <1>3. c \in Chunk /\ c.text = phone.text /\ c.at = phone.next
      BY <1>1, <1>2 DEF PhoneType, Chunk
  <1>4. EndsAre(accum, phone.text) /\ (Ended(accum) => phone.next = Chunks)
      BY <1>1, <1>2, <1>3, ChunkEnds
  <1>5. /\ phone'.next = phone.next + 1 /\ phone'.text = phone.text
        /\ phone'.signed = phone.signed /\ UNCHANGED <<pc, key, crt, csr, rekeyed>>
      BY <1>1 DEF WriteChunk, PhoneType, flash
  <1>6. /\ ble'.accum = accum
        /\ Ended(accum) => ble'.payload = accum
        /\ ble'.pending <=> ble.pending \/ Ended(accum)
      BY Zenon DEF WriteChunk, Receive
  <1>7. IdleInv' /\ OwnInv' /\ CrtInv' /\ RoleInv'
      BY <1>2, <1>5 DEF CertInv, IdleInv, OwnInv, CrtInv, RoleInv, Window
  <1> HIDE DEF accum, c
  <1>8. TransferInv'
    <2>1. CASE Ended(accum)
      <3>1. phone'.next = Chunks + 1 /\ ble'.pending /\ EndsAre(ble'.payload, phone'.text)
          BY <1>4, <1>5, <1>6, <2>1
      <3> QED BY <1>2, <1>5, <3>1, DeviceCertAssumption DEF TransferInv
    <2>2. CASE ~Ended(accum)
      <3>1. ~ble'.pending /\ ~Ended(ble'.accum)
          BY <1>2, <1>6, <2>2
      <3> QED BY <1>2, <1>5, <3>1 DEF TransferInv
    <2> QED BY <2>1, <2>2
  <1> QED BY <1>7, <1>8

(* What an answer changes.                                                 *)
LEMMA AnswerKeeps ==
  ASSUME phone \in PhoneType, NEW word, Answer(word), phone.next = Chunks + 1
  PROVE  phone'.next = 0 /\ phone'.text = phone.text /\ phone'.signed = phone.signed
  BY DEF Answer, PhoneType

(* What the put stores is what the phone sent.                             *)
LEMMA PutStores ==
  ASSUME CertInv, pc = "put"
  PROVE  Stored(ble.payload) = phone.text /\ phone.text # 0
  <1>1. ble.payload \in Buffer
      BY TypeParts DEF CertInv, BufferType, BleType
  <1>2. EndsAre(ble.payload, phone.text) /\ Holds(ble.payload) # NotACert
      BY DEF CertInv, TransferInv
  <1>3. Holds(ble.payload) = phone.text
      BY <1>1, <1>2, HoldsTheEnd
  <1> QED BY <1>2, <1>3 DEF Stored, NotACert

(* The pairing loop.                                                       *)
LEMMA LoopSteps ==
  ASSUME CertInv, Poll \/ CheckCert \/ PutCert \/ Wipe
  PROVE  IdleInv' /\ OwnInv' /\ CrtInv' /\ TransferInv' /\ RoleInv'
  <1>1. phone \in PhoneType /\ ble \in BleType /\ ble.payload \in Buffer
      BY TypeParts DEF CertInv, PlaceType, BufferType, BleType
  <1>2. IdleInv' /\ RoleInv'
      BY DEF Poll, CheckCert, PutCert, Wipe, IdleInv, RoleInv, Window
  <1>3. CASE Poll
    <2>1. /\ pc = "window" /\ ble.pending /\ pc' = "check"
          /\ ~ble'.pending /\ ble'.payload = ble.payload
          /\ UNCHANGED <<key, crt, csr, phone, rekeyed>>
        BY <1>1, <1>3 DEF Poll, flash, BleType
    <2>2. OwnInv' /\ CrtInv'
        BY <2>1 DEF CertInv, OwnInv, CrtInv
    <2>3. TransferInv'
        BY <2>1, DeviceCertAssumption DEF CertInv, TransferInv
    <2> QED BY <1>2, <2>2, <2>3
  <1>4. CASE CheckCert
    <2>1. /\ pc = "check" /\ UNCHANGED <<key, crt, csr, ble, app, rekeyed>>
          /\ phone.next = Chunks + 1
        BY <1>4 DEF CheckCert, flash, CertInv, TransferInv
    <2>2. CrtInv'
        BY <2>1 DEF CertInv, CrtInv
    <2>3. CASE Holds(ble.payload) # NotACert
      <3>1. pc' = "put" /\ UNCHANGED phone
          BY <1>4, <2>3 DEF CheckCert
      <3>2. OwnInv'
          BY <2>1, <3>1 DEF CertInv, OwnInv
      <3>3. TransferInv'
        <4>1. Holds(ble.payload)' = Holds(ble.payload)
            BY <2>1 DEF Holds, Begins, WholeFrom
        <4> QED BY <2>1, <2>3, <3>1, <4>1 DEF CertInv, TransferInv
      <3> QED BY <1>2, <2>2, <3>2, <3>3
    <2>4. CASE Holds(ble.payload) = NotACert
      <3>1. pc' = "wipe" /\ Answer("ERR")
          BY <1>4, <2>4 DEF CheckCert
      <3>2. phone'.next = 0 /\ phone'.text = phone.text /\ phone'.signed = phone.signed
          BY <1>1, <2>1, <3>1, AnswerKeeps
      <3>3. OwnInv'
          BY <2>1, <3>2 DEF CertInv, OwnInv
      <3>4. TransferInv'
          BY <2>1, <3>1, <3>2, DeviceCertAssumption DEF CertInv, TransferInv
      <3> QED BY <1>2, <2>2, <3>3, <3>4
    <2> QED BY <2>3, <2>4
  <1>5. CASE PutCert
    <2>1. /\ pc = "put" /\ pc' = "wipe" /\ UNCHANGED <<key, csr, ble>>
          /\ ~ble.pending /\ phone.next = Chunks + 1
        BY <1>5 DEF PutCert, CertInv, TransferInv
    <2>2. \E word \in {"OK", "ERR"} : Answer(word)
        BY <1>5 DEF PutCert
    <2>3. phone'.next = 0 /\ phone'.text = phone.text /\ phone'.signed = phone.signed
        BY <1>1, <2>1, <2>2, AnswerKeeps
    <2>4. OwnInv' /\ TransferInv'
        BY <2>1, <2>3, DeviceCertAssumption DEF CertInv, OwnInv, TransferInv
    <2>5. CrtInv'
      <3>1. CASE UNCHANGED <<crt, rekeyed>>
          BY <2>1, <3>1 DEF CertInv, CrtInv
      <3>2. CASE crt' = Stored(ble.payload) /\ rekeyed' = (rekeyed /\ crt' # key)
        <4>1. crt' = phone.text
            BY <2>1, <3>2, PutStores
        <4>2. phone.text # 0 /\ phone.text \in {0, key} /\ key \in Nat
            BY <2>1, PutStores DEF CertInv, OwnInv, DeviceCertTypeOK
        <4>3. crt' = key /\ key # 0 /\ key # Torn
            BY <4>1, <4>2 DEF Torn
        <4>4. ~rekeyed'
            BY <3>2, <4>3, Zenon
        <4> QED BY <2>1, <4>3, <4>4 DEF CrtInv
      <3> QED BY <1>5, <3>1, <3>2 DEF PutCert
    <2> QED BY <1>2, <2>4, <2>5
  <1>6. CASE Wipe
    <2>1. /\ pc = "wipe" /\ pc' = "window" /\ ble'.accum = <<>>
          /\ ble'.pending = ble.pending /\ ble'.payload = ble.payload
          /\ UNCHANGED <<key, crt, csr, phone, rekeyed>>
        BY <1>1, <1>6 DEF Wipe, flash, BleType
    <2>2. OwnInv' /\ CrtInv'
        BY <2>1 DEF CertInv, OwnInv, CrtInv
    <2>3. ~Ended(ble'.accum)
        BY <2>1 DEF Ended
    <2>4. TransferInv'
        BY <2>1, <2>3 DEF CertInv, TransferInv
    <2> QED BY <1>2, <2>2, <2>4
  <1> QED BY <1>3, <1>4, <1>5, <1>6

LEMMA StepCertInv == CertInv /\ ~app.hasty /\ [DeviceCertNext]_certVars => CertInv'
  <1> SUFFICES ASSUME CertInv, ~app.hasty, [DeviceCertNext]_certVars PROVE CertInv'
      OBVIOUS
  <1>1. DeviceCertTypeOK'
      BY TypeStep DEF CertInv
  <1>2. IdleInv' /\ OwnInv' /\ CrtInv' /\ TransferInv' /\ RoleInv'
    <2>1. CASE UNCHANGED certVars
      <3>1. Holds(ble.payload)' = Holds(ble.payload)
          BY <2>1 DEF certVars, Holds, Begins, WholeFrom
      <3> QED BY <2>1, <3>1 DEF certVars, CertInv, IdleInv, OwnInv, CrtInv,
                                TransferInv, RoleInv, CanConnect
    <2>2. CASE DeviceCertNext
        BY <2>2, BootSteps, PhoneSteps, WriteSteps, LoopSteps DEF DeviceCertNext
    <2> QED BY <2>1, <2>2
  <1> QED BY <1>1, <1>2 DEF CertInv

(* No phone changes its habits.                                            *)
LEMMA AppStays == [DeviceCertNext]_certVars => app' = app
  <1> SUFFICES ASSUME [DeviceCertNext]_certVars PROVE app' = app
      OBVIOUS
  <1>1. CASE UNCHANGED certVars
      BY <1>1 DEF certVars
  <1>2. CASE DeviceCertNext
      BY <1>2 DEF DeviceCertNext, Boot, EnrolInit, WipeProfile, ToRole, ToPortal,
             ToPairing, EnrolKeep, EnrolSign, EnrolFails, EnrolSave, PairCommission,
             PowerLoss, ReadCsr, StartTransfer, WriteChunk, BreakOff, Poll, CheckCert,
             PutCert, Wipe
  <1> QED BY <1>1, <1>2

LEMMA StepPatientInv == PatientInv /\ [DeviceCertNext]_certVars => PatientInv'
  BY TypeStep, AppStays, StepCertInv DEF PatientInv

LEMMA PatientInvariant == DeviceCertSpec => []PatientInv
  <1>1. DeviceCertInit => PatientInv
      BY InitType, InitCertInv DEF PatientInv
  <1> QED BY <1>1, StepPatientInv, PTL DEF DeviceCertSpec

-----------------------------------------------------------------------------
(* process_cert_write: whatever is broken off, garbled, cut into chunks or *)
(* too long for the buffer, only a whole certificate reaches flash, as     *)
(* long as no phone writes while the box looks at what it wrote before.    *)
THEOREM DeviceCertWhole == DeviceCertSpec => []WholeCertificate
  <1>1. PatientInv => WholeCertificate
      BY DEF PatientInv, CertInv, CrtInv, WholeCertificate
  <1> QED BY <1>1, PatientInvariant, PTL

(* The safety net of setup, under the same condition: a gateway in its     *)
(* role has a certificate of its own key, unless a key it could not read   *)
(* was replaced.                                                           *)
THEOREM DeviceCertRoleHasIdentity == DeviceCertSpec => []RoleHasIdentity
  <1>1. PatientInv => RoleHasIdentity
      BY DEF PatientInv, CertInv, RoleInv, RoleHasIdentity
  <1> QED BY <1>1, PatientInvariant, PTL

(* "OK cert stored" is about the transfer the phone waits for.             *)
THEOREM DeviceCertOkMeansStored == DeviceCertSpec => OkMeansStored
  <1>1. PatientInv /\ [DeviceCertNext]_certVars
          => [~app.hasty /\ phone.heard # "OK" /\ phone'.heard = "OK"
                => crt' = phone.text]_certVars
    <2> SUFFICES ASSUME PatientInv, CertInv, DeviceCertNext,
                        phone.heard # "OK", phone'.heard = "OK"
                 PROVE  crt' = phone.text
        BY DEF PatientInv
    <2>1. phone \in PhoneType
        BY TypeParts DEF CertInv, PlaceType
    <2>2. CASE PutCert
      <3>1. ~Answer("ERR")
          BY <2>1 DEF Answer, PhoneType
      <3> QED BY <2>2, <3>1, PutStores DEF PutCert
    <2>3. CASE CheckCert
        BY <2>1, <2>3 DEF CheckCert, Answer, PhoneType
    <2>4. CASE ReadCsr \/ StartTransfer \/ WriteChunk \/ BreakOff
        BY <2>1, <2>4 DEF ReadCsr, StartTransfer, WriteChunk, BreakOff, PhoneType
    <2>5. CASE EnrolSave \/ WipeProfile \/ PairCommission \/ PowerLoss
        BY <2>5 DEF EnrolSave, WipeProfile, PairCommission, PowerLoss, PowerDown, NoPhone
    <2>6. CASE UNCHANGED phone
        BY <2>6
    <2>7. \/ PutCert \/ CheckCert \/ ReadCsr \/ StartTransfer \/ WriteChunk \/ BreakOff
          \/ EnrolSave \/ WipeProfile \/ PairCommission \/ PowerLoss \/ UNCHANGED phone
        BY DEF DeviceCertNext, Boot, ToRole, ToPortal, ToPairing, EnrolInit,
               EnrolKeep, EnrolSign, EnrolFails, Poll, Wipe
    <2> QED BY <2>2, <2>3, <2>4, <2>5, <2>6, <2>7
  <1> QED BY <1>1, PatientInvariant, PTL DEF DeviceCertSpec, OkMeansStored

=============================================================================

----------------------------- MODULE Commission -----------------------------
(***************************************************************************)
(* The commissioning profile of a box, core/commission.cpp: which house it *)
(* belongs to, its slot there, its role and the house key.  Labels and     *)
(* WiFi credentials are left out: no step depends on them.                 *)
(***************************************************************************)
EXTENDS Integers, Sequences

CONSTANTS
    House,   \* house numbers, 1..65535 in the firmware
    Id,      \* device ids, four hex digits
    NoId     \* the empty gateway_device_id

ASSUME CommissionAssumption ==
    /\ House \subseteq Nat \ {0}
    /\ NoId \notin Id

Role == {"unset", "gateway", "sensor"}

(* The key of a house goes by the number of the house; 0: not set.         *)
Profile ==
    [house : House \cup {0}, box : 0 .. 3, role : Role, gateway : Id \cup {NoId},
     key : House \cup {0}]

Blank == [house |-> 0, box |-> 0, role |-> "unset", gateway |-> NoId, key |-> 0]

IsGateway(c) == c.role = "gateway" \/ (c.role = "unset" /\ c.box = 0)

(* commission_autofill: the role follows the slot, then the slot the role. *)
Autofill(c) ==
    [c EXCEPT !.role = IF IsGateway(c) THEN "gateway" ELSE "sensor",
              !.box = IF IsGateway(c) THEN 0 ELSE IF @ \in 1 .. 3 THEN @ ELSE 1]

(* Mutant: a profile without a house key is accepted.                      *)
ValidWithoutKey(c) ==
    /\ c.house # 0
    /\ c.role # "unset"
    /\ IF c.role = "gateway" THEN c.box = 0 ELSE c.box \in 1 .. 3 /\ c.gateway # NoId

(* commission_validate.                                                    *)
Valid(c) ==
    /\ c.house # 0
    /\ c.key # 0
    /\ c.role # "unset"
    /\ IF c.role = "gateway" THEN c.box = 0 ELSE c.box \in 1 .. 3 /\ c.gateway # NoId

(* The puts of commission_save, in their order: the house that makes a box *)
(* commissioned comes first, the key without which it is not valid last.   *)
Puts == <<"house", "box", "role", "gateway", "key">>

(* Mutant: the key's put is not looked at either.                          *)
NoticedNoKey(field) == field \notin {"gateway", "key"}

(* putString(...) >= 0 holds whatever happened: that put never fails ok.   *)
Noticed(field) == field # "gateway"

=============================================================================

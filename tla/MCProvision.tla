----------------------------- MODULE MCProvision -----------------------------
(***************************************************************************)
(* Two houses; forms and blobs that are complete, partial and refused.     *)
(***************************************************************************)
EXTENDS Provision

MCForm ==
    {[role |-> "gateway", house |-> 1, box |-> 0, filled |-> TRUE],
     [role |-> "sensor", house |-> 1, box |-> 2, filled |-> TRUE],
     [role |-> "sensor", house |-> 2, box |-> 4, filled |-> TRUE]}

MCPayload ==
    {[phone |-> "app", house |-> 2, box |-> 3, role |-> "sensor",
      gateway |-> "00A1", key |-> 2],
     [phone |-> "app", house |-> 2, box |-> -1, role |-> "gateway",
      gateway |-> "00A1", key |-> 2],
     [phone |-> "app", house |-> 2, box |-> -1, role |-> "unset",
      gateway |-> NoId, key |-> 0]}

=============================================================================

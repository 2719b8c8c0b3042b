------------------------------ MODULE MCSensor ------------------------------
(***************************************************************************)
(* One sensor box against a gateway that may answer anything: halves of    *)
(* four values, two channels, and an OTA order, which restarts the box if  *)
(* the update succeeds and sends it to sleep if not.                       *)
(***************************************************************************)
EXTENDS Sensor

MCOrder == {[id |-> 1, cmd |-> "OTA"]}

=============================================================================

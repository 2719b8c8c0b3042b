------------------------------- MODULE MCHouse -------------------------------
(***************************************************************************)
(* One box and one order or none; the configurations give the rest.        *)
(***************************************************************************)
EXTENDS House

MCReboot == {[id |-> 1, cmd |-> "REBOOT"]}
MCOta    == {[id |-> 1, cmd |-> "OTA"]}
MCNone   == {}

=============================================================================

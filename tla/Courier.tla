------------------------------- MODULE Courier -------------------------------
(***************************************************************************)
(* What the gateway promises to an operator who sends orders to boxes,     *)
(* without a word about slots, packets or boot counts: each box has a      *)
(* mailbox for one order.  A newer order takes the place of an older one;  *)
(* an order is turned away only when Room other boxes have one waiting; it *)
(* leaves the mailbox replaced, handed out Tries times, taken for landed   *)
(* after it went out at least once, or because the gateway restarts.       *)
(***************************************************************************)
EXTENDS Naturals, FiniteSets

CONSTANTS Box, Order, NoOrder, Room, Tries

VARIABLES
    waiting,   \* the order in each box's mailbox, and how often it may go out
    issued,    \* orders sent so far
    handed,    \* how often each order went out
    cleared    \* orders taken for landed

vars == <<waiting, issued, handed, cleared>>

Nothing == [order |-> NoOrder, left |-> 0]

Init ==
    /\ waiting = [b \in Box |-> Nothing]
    /\ issued = {}
    /\ handed = [o \in Order |-> 0]
    /\ cleared = {}

Full == Cardinality({b \in Box : waiting[b] # Nothing}) = Room

Send(b, o) ==
    /\ o \notin issued
    /\ issued' = issued \cup {o}
    /\ waiting' = IF waiting[b] = Nothing /\ Full THEN waiting
                  ELSE [waiting EXCEPT ![b] = [order |-> o, left |-> Tries]]
    /\ UNCHANGED <<handed, cleared>>

HandOut(b) ==
    LET mail == waiting[b]
    IN  /\ mail # Nothing
        /\ waiting' = [waiting EXCEPT ![b] =
                          IF mail.left = 1 THEN Nothing
                          ELSE [order |-> mail.order, left |-> mail.left - 1]]
        /\ handed' = [handed EXCEPT ![mail.order] = @ + 1]
        /\ UNCHANGED <<issued, cleared>>

Withdraw(b) ==
    /\ waiting[b] # Nothing /\ waiting[b].left < Tries
    /\ waiting' = [waiting EXCEPT ![b] = Nothing]
    /\ cleared' = cleared \cup {waiting[b].order}
    /\ UNCHANGED <<issued, handed>>

Forget ==
    /\ waiting' = [b \in Box |-> Nothing]
    /\ UNCHANGED <<issued, handed, cleared>>

Next ==
    \/ \E b \in Box : HandOut(b) \/ Withdraw(b) \/ \E o \in Order : Send(b, o)
    \/ Forget

Spec == Init /\ [][Next]_vars

=============================================================================

------------------------------- MODULE Firmware -------------------------------
(***************************************************************************)
(* What an over-the-air update promises: the image a box would boot is     *)
(* whole at every moment, and it changes only to an image that we signed   *)
(* and that the operator asked for.                                        *)
(***************************************************************************)
EXTENDS Naturals

CONSTANTS Image, Signed, Factory

VARIABLES
    image,    \* the image the next boot runs
    asked     \* images updates were commanded for

Init == image = Factory /\ asked = {}

Ask(i) == asked' = asked \cup {i} /\ UNCHANGED image

Install(i) ==
    /\ i \in Signed \cap asked
    /\ image' = i
    /\ UNCHANGED asked

Next == \E i \in Image : Ask(i) \/ Install(i)

Spec == Init /\ [][Next]_<<image, asked>>

=============================================================================

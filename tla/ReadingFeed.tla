----------------------------- MODULE ReadingFeed -----------------------------
(***************************************************************************)
(* What the house promises to whoever reads the database, without a word   *)
(* about how: the series of a device holds readings the device took, in    *)
(* the order they were taken, as long as the reader of the series is not   *)
(* made to forget where it was.  Some may be missing, and a reading may    *)
(* take the place of the one before it.                                    *)
(***************************************************************************)
EXTENDS Naturals, Sequences

CONSTANT Source

VARIABLES
    count,    \* readings each device has taken
    feed,     \* the places of the stored readings in their device's life
    reached   \* the place of the last reading let in since all was forgotten

vars == <<count, feed, reached>>

Init ==
    /\ count = [d \in Source |-> 0]
    /\ feed = [d \in Source |-> <<>>]
    /\ reached = [d \in Source |-> 0]

Take(d) ==
    /\ count' = [count EXCEPT ![d] = @ + 1]
    /\ UNCHANGED <<feed, reached>>

(* A reading is let in after it was taken, and after all older ones; it is *)
(* lost, or stored behind them or in the place of the last one.            *)
LetIn(d, n) ==
    /\ reached[d] < n /\ n <= count[d]
    /\ reached' = [reached EXCEPT ![d] = n]
    /\ \/ UNCHANGED feed
       \/ feed' = [feed EXCEPT ![d] = Append(@, n)]
       \/ feed[d] # <<>> /\ feed' = [feed EXCEPT ![d][Len(feed[d])] = n]
    /\ UNCHANGED count

Forget ==
    /\ reached' = [d \in Source |-> 0]
    /\ UNCHANGED <<count, feed>>

Next == Forget \/ \E d \in Source : Take(d) \/ \E n \in 1 .. count[d] : LetIn(d, n)

Spec == Init /\ [][Next]_vars

=============================================================================

------------------------------ MODULE PortView ------------------------------
(***************************************************************************)
(* What a terminal page promises to somebody who watches a serial port     *)
(* through it: pieces of the port's output are shown in the order they     *)
(* came in, none of them twice.  Pieces may be missing: there is no        *)
(* subscription before the page connects, and none after it loses it.      *)
(***************************************************************************)
EXTENDS Naturals, Sequences

VARIABLES
  received,  \* number of pieces the port has received
  shown      \* the pieces written to the screen, by number

LastShown == IF shown = <<>> THEN 0 ELSE shown[Len(shown)]

Init == received = 0 /\ shown = <<>>

Arrive == received' = received + 1 /\ UNCHANGED shown

Show ==
  /\ \E n \in (LastShown + 1)..received : shown' = Append(shown, n)
  /\ UNCHANGED received

Next == Arrive \/ Show

Spec == Init /\ [][Next]_<<received, shown>>

=============================================================================

------------------------------ MODULE LatestWins ------------------------------
(***************************************************************************)
(* What the path from the synchronizer to the pipeline promises: pairs are *)
(* numbered as they are emitted, the pipeline may skip pairs, but it never *)
(* processes one again or an older one after a newer one, and the newest   *)
(* pair reaches it.                                                        *)
(***************************************************************************)
EXTENDS Naturals

CONSTANT Limit   \* the pairs emitted are numbered 1..Limit

VARIABLES
  emitted,    \* number of the last pair emitted
  delivered,  \* number of the last pair the pipeline processed, 0 before
  frames      \* how many pairs it processed

Init == emitted = 0 /\ delivered = 0 /\ frames = 0

Emit == emitted' = emitted + 1 /\ UNCHANGED <<delivered, frames>>

Deliver ==
  /\ delivered' \in (delivered + 1)..emitted
  /\ frames' = frames + 1
  /\ UNCHANGED emitted

Next == Emit \/ Deliver

\* A pair that is not superseded is processed.
NewestArrives == \A n \in 1..Limit : emitted = n ~> (delivered = n \/ emitted > n)

Spec == Init /\ [][Next]_<<emitted, delivered, frames>> /\ NewestArrives
=============================================================================

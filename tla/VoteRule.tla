------------------------------- MODULE VoteRule -------------------------------
(***************************************************************************)
(* The voting window shared by OccupancyStabilizer (pallet occupancy) and  *)
(* EtagereStateTracker (bin racks): the last Window votes are kept and a   *)
(* held state only flips when its challenger has at least the fraction     *)
(* FlipNum/FlipDen of them, rounded up.                                    *)
(***************************************************************************)
EXTENDS Integers, Sequences, FiniteSets

CONSTANTS
  Window,           \* votes kept per key
  FlipNum, FlipDen  \* flip_ratio = FlipNum / FlipDen

\* What the constants must satisfy.
VoteAssumption ==
  /\ Window \in Nat \ {0}
  /\ FlipNum \in Nat /\ FlipDen \in Nat \ {0}
  /\ FlipDen < 2 * FlipNum /\ FlipNum <= FlipDen

\* Mutant of Need: a plain half of the votes.
NeedHalf(n) == n \div 2

\* math.ceil(flip_ratio * len(hist)).
Need(n) == (FlipNum * n + FlipDen - 1) \div FlipDen

\* How many votes of hist are in S.
Count(hist, S) == Cardinality({i \in DOMAIN hist : hist[i] \in S})

\* hist.append(vote) on a deque(maxlen=window).
Record(hist, vote) ==
  IF Len(hist) < Window THEN Append(hist, vote) ELSE Append(Tail(hist), vote)
=============================================================================

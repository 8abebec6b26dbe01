----------------------------- MODULE OccupancyVote -----------------------------
(***************************************************************************)
(* OccupancyStabilizer: the empty/full state of a pallet track or of a     *)
(* zone, voted over a window of per-frame verdicts with flip hysteresis.   *)
(* A verdict is the content class seen on the pallet, or Empty.            *)
(***************************************************************************)
EXTENDS VoteRule

CONSTANTS
  Keys,     \* track ids or zone ids
  Loads,    \* content classes
  Empty,    \* the verdict and the state of a pallet without a load
  Unknown,  \* no state held yet
  MaxVotes  \* model bound on the history counters

Full == "full"

\* What the constants must satisfy, with VoteAssumption.
LoadAssumption ==
  /\ Loads # {} /\ Empty \notin Loads /\ Unknown \notin Loads \cup {Empty}
  /\ Full \notin {Empty, Unknown}

Verdicts == Loads \cup {Empty}

VARIABLES
  hist,      \* [key -> its last verdicts, oldest first]
  held,      \* [key -> Full, Empty, or Unknown before the first vote]
  heldFor,   \* history: [key -> votes since held last flipped]
  agreeing   \* history: [key -> votes in a row for the state of the last one]

voteVars == <<hist, held>>
historyVars == <<heldFor, agreeing>>

Kind(v) == IF v = Empty THEN Empty ELSE Full

-----------------------------------------------------------------------------
\* Mutant of VotedState: the challenger has to exceed the quorum, or be alone.
VotedStateStrict(h, s) ==
  LET loaded == Count(h, Loads)
      empty  == Count(h, {Empty})
  IN  CASE s = Unknown -> IF loaded > empty \/ (loaded = empty /\ h[1] # Empty)
                          THEN Full ELSE Empty
        [] s = Full    -> IF empty > Need(Len(h)) \/ loaded = 0 THEN Empty ELSE Full
        [] s = Empty   -> IF loaded > Need(Len(h)) \/ empty = 0 THEN Full ELSE Empty

\* The state voted by h when s is held: with nothing held the most common
\* kind of vote, the earliest on a tie; else the challenger if it reaches the
\* quorum.
VotedState(h, s) ==
  LET loaded == Count(h, Loads)
      empty  == Count(h, {Empty})
  IN  CASE s = Unknown -> IF loaded > empty \/ (loaded = empty /\ h[1] # Empty)
                          THEN Full ELSE Empty
        [] s = Full    -> IF empty >= Need(Len(h)) THEN Empty ELSE Full
        [] s = Empty   -> IF loaded >= Need(Len(h)) THEN Full ELSE Empty

\* The most common content among the votes, the earliest on a tie.
Content(h) ==
  LET loaded == {i \in DOMAIN h : h[i] \in Loads}
      first == CHOOSE i \in loaded :
                 \A j \in loaded : \/ Count(h, {h[j]}) < Count(h, {h[i]})
                                   \/ Count(h, {h[j]}) = Count(h, {h[i]}) /\ i <= j
  IN  h[first]

\* _voted(): the content when Full, Empty otherwise.
Voted(h, s) == IF VotedState(h, s) = Full THEN Content(h) ELSE Empty

\* vote(key, state, content).
Vote(k, v) ==
  LET h == Record(hist[k], v)
      s == VotedState(h, held[k])
  IN  /\ hist' = [hist EXCEPT ![k] = h]
      /\ held' = [held EXCEPT ![k] = s]
      /\ heldFor' = [heldFor EXCEPT ![k] =
                       IF s = held[k] THEN IF @ < MaxVotes THEN @ + 1 ELSE @
                       ELSE IF held[k] = Unknown THEN MaxVotes ELSE 0]
      /\ agreeing' = [agreeing EXCEPT ![k] =
                        IF hist[k] = <<>> \/ Kind(v) # Kind(hist[k][Len(hist[k])])
                        THEN 1 ELSE IF @ < MaxVotes THEN @ + 1 ELSE @]

\* forget(key).
Forget(k) ==
  /\ hist' = [hist EXCEPT ![k] = <<>>]
  /\ held' = [held EXCEPT ![k] = Unknown]
  /\ heldFor' = [heldFor EXCEPT ![k] = MaxVotes]
  /\ agreeing' = [agreeing EXCEPT ![k] = 0]

\* last(key): what a frame without a verdict carries forward; the state read
\* is not stored.
Last(k) == IF hist[k] = <<>> THEN Unknown ELSE Voted(hist[k], held[k])

VoteInit ==
  /\ hist = [k \in Keys |-> <<>>]
  /\ held = [k \in Keys |-> Unknown]
  /\ heldFor = [k \in Keys |-> MaxVotes]
  /\ agreeing = [k \in Keys |-> 0]

VoteNext ==
  \E k \in Keys : (\E v \in Verdicts : Vote(k, v)) \/ Forget(k)

VoteSpec == VoteInit /\ [][VoteNext]_<<voteVars, historyVars>>

-----------------------------------------------------------------------------
VoteTypeOK ==
  /\ hist \in [Keys -> Seq(Verdicts)]
  /\ \A k \in Keys : Len(hist[k]) <= Window
  /\ held \in [Keys -> {Unknown, Full, Empty}]
  /\ \A k \in Keys : held[k] = Unknown <=> hist[k] = <<>>
  /\ heldFor \in [Keys -> 0..MaxVotes]
  /\ agreeing \in [Keys -> 0..MaxVotes]

\* A frame without a verdict never flips the state: what last() computes from
\* the window again is what the last vote stored.
LastAgrees ==
  \A k \in Keys : held[k] # Unknown =>
    /\ VotedState(hist[k], held[k]) = held[k]
    /\ held[k] = Full => Last(k) \in Loads

\* Verdicts that alternate cannot flap the state: between two flips there are
\* more votes than a third of the window.
FlipsAreSlow ==
  [][\A k \in Keys :
       {held[k], held'[k]} = {Full, Empty} => 3 * (heldFor[k] + 1) > Window]_voteVars

\* "Once held it only flips when the challenger state wins at least flip_ratio
\* of the window": a flip needs the supermajority of a full window.
FlipNeedsSupermajority ==
  [][\A k \in Keys :
       {held[k], held'[k]} = {Full, Empty} =>
         Count(hist'[k], IF held'[k] = Full THEN Loads ELSE {Empty})
           >= Need(Window)]_voteVars

\* A real load or unload shows within the quorum of one window.
SustainedVerdictShows ==
  \A k \in Keys :
    agreeing[k] >= Need(Window) => held[k] = Kind(hist[k][Len(hist[k])])

\* The held state answers for its window: neither a frame without a verdict nor
\* a lost unload separates the two.
VoteInv == VoteTypeOK /\ LastAgrees /\ SustainedVerdictShows
=============================================================================

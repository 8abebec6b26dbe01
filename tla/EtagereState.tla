----------------------------- MODULE EtagereState -----------------------------
(***************************************************************************)
(* EtagereStateTracker for one zone: the bins of a rack, each held filled, *)
(* empty or unknown.  A held state flips on a supermajority of the votes,  *)
(* "unknown" never votes, and a bin without a vote for too long decays.    *)
(* What update() returns is published retained: on change or heartbeat.    *)
(***************************************************************************)
EXTENDS VoteRule

CONSTANTS
  Cells,         \* the (r, c) of the zone
  UnknownAfter,  \* unknown_after_s
  Heartbeat,     \* heartbeat_s
  MaxTime        \* model bound on the clock

\* What the constants must satisfy, with VoteAssumption.  (With a heartbeat of zero
\* every update gives a message out.)
RackAssumption ==
  /\ UnknownAfter \in Nat /\ Heartbeat \in Nat \ {0} /\ MaxTime \in Nat

Voting == {"filled", "empty"}
UnknownCell == "unknown"
CellStates == Voting \cup {UnknownCell}

VARIABLES
  now,       \* time.time()
  hist,      \* _hist: [cell -> its last votes, oldest first]
  held,      \* _held
  lastVote,  \* _last_vote_t
  lastEmit,  \* _last_emit_t, None before the first message
  lastGrid,  \* _last_emit_grid, the states in the last message given out
  updated    \* history: when update() last ran

cellVars == <<hist, held, lastVote>>
emitVars == <<lastEmit, lastGrid, updated>>
etagereVars == <<now, cellVars, emitVars>>

None == -1
NoGrid == [c \in Cells |-> "none"]

-----------------------------------------------------------------------------
Other(s) == IF s = "filled" THEN "empty" ELSE "filled"

\* Mutant of Seeded: the window ramps up from a single vote.
SeededOnce(s) == <<s>>

\* Establishing a state fills the window with it.
Seeded(s) == [i \in 1..Window |-> s]

\* Mutant of Stale: a bin whose votes stopped is held for ever.
NeverStale(c, t) == FALSE

\* No real vote for unknown_after_s.
Stale(c, t) == t - lastVote[c] > UnknownAfter

VoteTime(c, state, t) == IF state \in Voting THEN t ELSE lastVote[c]

\* _vote: what observing a state leaves of a cell.
Establish(state) == [hist |-> Seeded(state), held |-> state]

Challenge(c, state) ==
  LET h == Record(hist[c], state)
      challenger == Other(held[c])
  IN  [hist |-> h,
       held |-> IF Count(h, {challenger}) >= Need(Len(h)) THEN challenger ELSE held[c]]

Hold(c, t) ==
  IF held[c] \in Voting /\ ~Stale(c, t) THEN [hist |-> hist[c], held |-> held[c]]
                                        ELSE [hist |-> <<>>, held |-> UnknownCell]

Vote(c, state, t) ==
  IF state \notin Voting THEN Hold(c, t)
  ELSE IF held[c] \in Voting THEN Challenge(c, state) ELSE Establish(state)

\* Mutant of Emitted: on change only.
EmittedChanged(grid, t) == grid # lastGrid

\* A message is given out on change and on the heartbeat.
Emitted(grid, t) == grid # lastGrid \/ lastEmit = None \/ t - lastEmit >= Heartbeat

-----------------------------------------------------------------------------
\* update(msg) with a state for every cell of the zone.
Update(seen, t) ==
  LET voted == [c \in Cells |-> Vote(c, seen[c], t)]
      grid  == [c \in Cells |-> voted[c].held]
  IN  /\ now' = t /\ updated' = t
      /\ hist' = [c \in Cells |-> voted[c].hist]
      /\ held' = grid
      /\ lastVote' = [c \in Cells |-> VoteTime(c, seen[c], t)]
      /\ lastEmit' = IF Emitted(grid, t) THEN t ELSE lastEmit
      /\ lastGrid' = IF Emitted(grid, t) THEN grid ELSE lastGrid

\* Time passes and no message comes: the producer, its camera or the network
\* between them is down.
Silence(t) == now' = t /\ UNCHANGED <<cellVars, emitVars>>

EtagereInit ==
  /\ now = 0 /\ updated = 0
  /\ hist = [c \in Cells |-> <<>>]
  /\ held = [c \in Cells |-> UnknownCell]
  /\ lastVote = [c \in Cells |-> 0]
  /\ lastEmit = None /\ lastGrid = NoGrid

EtagereNext ==
  \E t \in (now + 1)..MaxTime :
    (\E seen \in [Cells -> CellStates] : Update(seen, t)) \/ Silence(t)

EtagereSpec == EtagereInit /\ [][EtagereNext]_etagereVars

-----------------------------------------------------------------------------
\* A held state always has a full window behind it, from its first vote on.
EtagereTypeOK ==
  /\ now \in 0..MaxTime /\ updated \in 0..now
  /\ held \in [Cells -> CellStates]
  /\ \A c \in Cells :
       /\ hist[c] \in Seq(Voting)
       /\ Len(hist[c]) = IF held[c] \in Voting THEN Window ELSE 0
       /\ lastVote[c] \in 0..updated
  /\ lastEmit \in -1..updated /\ lastGrid \in [Cells -> CellStates \cup {"none"}]

\* The promise the pallet vote does not keep while it ramps up: no flip
\* without the supermajority of a full window.
FlipNeedsSupermajority ==
  [][\A c \in Cells :
       held[c] \in Voting /\ held'[c] = Other(held[c]) =>
         Cardinality({i \in DOMAIN hist'[c] : hist'[c][i] = held'[c]}) >= Need(Window)]_etagereVars

\* A hand over the bin does not blank it: a state is given up only when there
\* was no vote for longer than unknown_after_s.
BlankedOnlyWhenStale ==
  [][\A c \in Cells :
       held[c] \in Voting /\ held'[c] = UnknownCell => now' - lastVote[c] > UnknownAfter]_etagereVars

\* Fail honestly: no message given out holds a state older than its last vote
\* plus unknown_after_s.
FailsHonestly ==
  \A c \in Cells : held[c] \in Voting => updated - lastVote[c] <= UnknownAfter

\* A bin is held on evidence: a full window of votes, the last of them recent.
CellInv == EtagereTypeOK /\ FailsHonestly

\* A held state is left only for a supermajority, or for want of votes.
CellSteps == FlipNeedsSupermajority /\ BlankedOnlyWhenStale

\* The retained grid is what the cells hold, though most updates publish nothing.
RetainedGridCurrent == updated > 0 => lastGrid = held

\* While updates come, the retained message is never older than a heartbeat.
HeartbeatKept == updated > 0 => updated - lastEmit < Heartbeat

\* The change gate and the heartbeat gate share one emission time, and neither
\* swallows what the other owes.
GridInv == RetainedGridCurrent /\ HeartbeatKept

\* "A cell with no vote for unknown_after_s decays to unknown."
CellsDecay ==
  \A c \in Cells : lastGrid[c] \in Voting => now - lastVote[c] <= UnknownAfter

\* The same promise when votes come back after a long silence: what was held
\* before it has no say any more.
SilenceForgets ==
  [][\A c \in Cells :
       /\ held[c] \in Voting /\ now' - lastVote[c] > UnknownAfter
       /\ updated' = now'
       => held'[c] = UnknownCell \/ held'[c] = hist'[c][Len(hist'[c])]]_etagereVars
=============================================================================

-------------------------------- MODULE MCZones --------------------------------
(***************************************************************************)
(* What is known and published of a zone, of which a behaviour exercises   *)
(* one part: the decision on its pallet ("pallet": one zone seen by two    *)
(* cameras, with every view one camera can have of it), the vote behind it *)
(* over the real window ("vote"), its retained state ("wire"), the tracks  *)
(* in it and their passings ("tracks"), or the bins of a rack ("rack").    *)
(* The others stay where they start.                                       *)
(***************************************************************************)
EXTENDS ZoneWire, Tracks

CONSTANTS Window, FlipNum, FlipDen, Cells, UnknownAfter, Heartbeat, MaxTime,
          PalletZones, PalletCameras, PalletWindow, PalletExit, LongWindow,
          Loads, Palette, Unknown, Nothing

VARIABLES
  part, now, hist, held, lastVote, lastEmit, lastGrid, updated,
  present, arriving, leaving, heldConf, decision, sightings, absences,
  loadSeen, vacant, loadRecent, loadRun, ballots, elected, heldFor, agreeing,
  votes, voted, votedFor, votedAlike

Rack == INSTANCE EtagereState
rackVars == <<now, hist, held, lastVote, lastEmit, lastGrid, updated>>

TwoCameras == <<"cam_a", "cam_b">>

Pallet == INSTANCE PalletState WITH
  Keys <- PalletZones, CameraIds <- PalletCameras, Window <- PalletWindow, MaxVotes <- 0,
  ExitAfter <- PalletExit,
  hist <- ballots, held <- elected,
  member <- present, inStreak <- arriving, outStreak <- leaving
palletVars ==
  <<present, arriving, leaving, heldConf, decision, sightings, absences,
    loadSeen, vacant, loadRecent, loadRun, ballots, elected, heldFor, agreeing>>

Long == INSTANCE OccupancyVote WITH
  Keys <- PalletZones, Window <- LongWindow, MaxVotes <- LongWindow,
  hist <- votes, held <- voted, heldFor <- votedFor, agreeing <- votedAlike
longVars == <<votes, voted, votedFor, votedAlike>>

ASSUME ZonesConstants ==
  /\ Rack!VoteAssumption /\ Rack!RackAssumption
  /\ Long!VoteAssumption /\ Long!LoadAssumption
  /\ Pallet!VoteAssumption /\ Pallet!PalletAssumption

ZonesInit ==
  /\ part \in {"pallet", "vote", "wire", "tracks", "rack"}
  /\ WireInit /\ TracksInit /\ Rack!EtagereInit /\ Pallet!PalletInit /\ Long!VoteInit

ZonesNext ==
  /\ UNCHANGED part
  /\ \/ /\ part = "wire" /\ WireNext
        /\ UNCHANGED <<tracksVars, rackVars, palletVars, longVars>>
     \/ /\ part = "tracks" /\ TracksNext
        /\ UNCHANGED <<wireVars, rackVars, palletVars, longVars>>
     \/ /\ part = "rack" /\ Rack!EtagereNext
        /\ UNCHANGED <<wireVars, tracksVars, palletVars, longVars>>
     \/ /\ part = "pallet" /\ Pallet!PalletNext
        /\ UNCHANGED <<wireVars, tracksVars, rackVars, longVars>>
     \/ /\ part = "vote" /\ Long!VoteNext
        /\ UNCHANGED <<wireVars, tracksVars, rackVars, palletVars>>

zonesVars == <<part, wireVars, tracksVars, rackVars, palletVars, longVars>>

ZonesSpec == ZonesInit /\ [][ZonesNext]_zonesVars

-----------------------------------------------------------------------------
\* VoteInv of OccupancyVote over the real window, and PresenceInv,
\* LoadOutranksEmpty and LoadIsCurrent of PalletState: what a zone reports is what
\* the evidence of the last frames says, a load any camera reads is what counts,
\* and it is a load of the palette that is there.
EvidenceDecides ==
  Long!VoteInv /\ Pallet!PresenceInv /\ Pallet!LoadOutranksEmpty /\ Pallet!LoadIsCurrent

\* What is held of a bin is what a supermajority of its recent votes says, and
\* what the broker retains of the rack is what is held.
RackInv == Rack!CellInv /\ Rack!GridInv

\* FlipsAreSlow over the real window, DebouncedPresence, and CellSteps of
\* EtagereState: neither verdicts that alternate nor cameras that drop out make
\* a zone flap, and a bin changes only as its votes or its age say.
NothingFlaps == Long!FlipsAreSlow /\ Pallet!DebouncedPresence /\ Rack!CellSteps
=============================================================================

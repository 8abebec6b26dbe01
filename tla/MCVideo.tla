-------------------------------- MODULE MCVideo --------------------------------
(***************************************************************************)
(* Two parts of the video path, of which a behaviour exercises one: the    *)
(* registry of the camera hub, and the relay that hands the bitstream of a *)
(* camera to its clients.  The other one stays where it starts, where none *)
(* of its threads has anything to do.                                      *)
(***************************************************************************)
EXTENDS HubRegistry, NalRelay

VARIABLE part

VideoInit == part \in {"registry", "relay"} /\ HubRegistryInit /\ RelayInit

VideoNext ==
  /\ UNCHANGED part
  /\ \/ part = "registry" /\ HubRegistryNext /\ UNCHANGED relayVars
     \/ part = "relay" /\ RelayNext /\ UNCHANGED hubRegistryVars

VideoSpec ==
  /\ VideoInit /\ [][VideoNext]_<<part, hubRegistryVars, relayVars>>
  /\ RegistryFairness /\ RelayFairness

-----------------------------------------------------------------------------
\* Nobody is left without a picture or with a broken one: a stream that can be
\* acquired lives and what is abandoned is stopped; a client of the relay gets
\* every access unit from a keyframe on, and costs no more than its backlog.
VideoInv == RegistryInv /\ RelayInv

\* What is not used is let go: the session of a camera nobody watches, the
\* connection of a client that is too slow, and every client after close().
VideoReleases == IdleReleases /\ AllDropped
=============================================================================

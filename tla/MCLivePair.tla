------------------------------ MODULE MCLivePair ------------------------------
(* Two live cameras.  One unit is 11 ms in live_fast_cameras, where 33 ms  *)
(* are 3 units and 100 ms are 9, and 1 ms in live_healthy_rates.           *)
EXTENDS LivePair

TwoCameras == <<"cam_a", "cam_b">>
=============================================================================

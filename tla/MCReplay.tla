------------------------------ MODULE MCReplay ------------------------------
(* An instance of Replay: one duplicate d, the watchdog and the listener.  *)
EXTENDS Replay

CONSTANT d

AllWorkers == {Listener, Watch, Api, Boot}
=============================================================================

---------------------------- MODULE MCChallenges ----------------------------
(* Instances of Challenges: a duplicate d.                                 *)
EXTENDS Challenges

CONSTANTS d, e

AllWorkers == {Listener, Watch, Api, Boot}
=============================================================================

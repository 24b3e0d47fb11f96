------------------------------- MODULE MCArena ------------------------------
(* Instances of Arena: a duplicate d.                                      *)
EXTENDS Arena

CONSTANTS d, e

AllWorkers == {Listener, Watch, Api, Boot}

\* A page that is closed for good shows nothing any more.
MCPageOpens == page.open \/ visits < MaxVisits
=============================================================================

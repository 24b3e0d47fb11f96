----------------------------- MODULE MCDemoRuns -----------------------------
(* DemoRuns has small numbers only, which Demo.cfg gives.                   *)
EXTENDS DemoRuns
=============================================================================

---------------------------- MODULE MCPaidQuotes ----------------------------
(***************************************************************************)
(* Instances of PaidQuotes: requests s1, s2 and s3 for quote q1, the third *)
(* repeating the first one's authorization, and an operator's call, with   *)
(* small bounds on what goes wrong.                                        *)
(***************************************************************************)
EXTENDS PaidQuotes

CONSTANTS
  s1, s2, s3, op, q1, n1, n2,
  QuotedClass,  \* the fault class of q1
  Timeouts, Shortfalls, Foreign, Misreads, Crashes

MCQuoteOf == [j \in Jobs |-> IF j = op THEN Operator ELSE q1]
MCClassOf == [j \in Jobs |-> IF j = op THEN "duplicate" ELSE QuotedClass]
MCNonceOf == [j \in Jobs |-> IF j \in {s1, s3} THEN n1 ELSE n2]
MCMaxFaults == [timeouts |-> Timeouts, shortfalls |-> Shortfalls,
                foreign |-> Foreign, misreads |-> Misreads,
                crashes |-> Crashes]
=============================================================================

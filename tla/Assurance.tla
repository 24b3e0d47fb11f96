------------------------------ MODULE Assurance ------------------------------
(***************************************************************************)
(* The Assurance Studio, backend/src/assurance/service.ts, and the two     *)
(* rate limiters that stand before it and before every request that may    *)
(* change something, in api/routes.ts and api/server.ts.  An analysis asks *)
(* a language model, which may answer late, with something else than the   *)
(* object it was asked for, or not at all; the visitor is answered with a  *)
(* deterministic reading of the scenario then.  Analyses overlap, and what *)
(* health reports of the model is written by whichever ends last.          *)
(***************************************************************************)
EXTENDS Naturals, Sequences, FiniteSets

CONSTANTS
  Visitors,   \* request.ip
  Targets,    \* methods and paths that may change something
  Limits,     \* requests that each limiter lets through in a window
  Minute,     \* its length
  MaxTime,    \* bound on the clock
  MaxRefused, \* bound on requests in a window that are turned away
  MaxAnalyses \* bound on analyses

ASSUME AssuranceAssumption ==
  /\ DOMAIN Limits = {"mutations", "analyses"}
  /\ \A l \in DOMAIN Limits : Limits[l] \in Nat \ {0}
  /\ Minute \in Nat \ {0} /\ {MaxTime, MaxRefused, MaxAnalyses} \subseteq Nat

VARIABLES
  clock,
  hits,       \* of each key of a limiter: requests, and when they expire
  passed,     \* of each key of a limiter: when requests were let through
  configured, \* there is a key for the model, and the studio is not disabled
  analyses,   \* how far each is: with the model, for the first or the second
              \* time, or answered, and from what
  health      \* what is known of the model

assuranceVars == <<clock, hits, passed, configured, analyses, health>>

\* Requests are counted by ip, method and path, and analyses by ip.
Limiters ==
  {<<"mutations", v, t>> : v \in Visitors, t \in Targets}
    \cup {<<"analyses", v>> : v \in Visitors}

AssuranceInit ==
  /\ clock = 0
  /\ hits = [k \in Limiters |-> [count |-> 0, resetAt |-> 0]]
  /\ passed = [k \in Limiters |-> <<>>]
  /\ configured \in BOOLEAN
  /\ analyses = <<>>
  /\ health = [checked |-> FALSE, operational |-> FALSE, failure |-> "none"]

-----------------------------------------------------------------------------
(* The limiters.                                                           *)

Hit(k) ==
  LET current == IF hits[k].resetAt > clock THEN hits[k]
                 ELSE [count |-> 0, resetAt |-> clock + Minute]
  IN  [current EXCEPT !.count = @ + 1]

\* Mutant of Exceeds: the request is compared before it is counted.
ExceedsBefore(k) == Hit(k).count - 1 > Limits[k[1]]

Exceeds(k) == Hit(k).count > Limits[k[1]]

\* The count is kept also of the requests that are turned away.
CountsHit(k) ==
  /\ Hit(k).count <= Limits[k[1]] + MaxRefused
  /\ hits' = [hits EXCEPT ![k] = Hit(k)]
  /\ passed' = IF Exceeds(k) THEN passed ELSE [passed EXCEPT ![k] = Append(@, clock)]

\* onRequest of api/server.ts.
MutationRequest(v, t) ==
  /\ CountsHit(<<"mutations", v, t>>)
  /\ UNCHANGED <<clock, configured, analyses, health>>

-----------------------------------------------------------------------------
(* An analysis.                                                            *)

Pending == {"initial", "repair"}

\* POST /api/assurance/analyze; a body that the schema refuses counts, too.
Analyze(v) ==
  LET k == <<"analyses", v>> IN
  /\ CountsHit(k)
  /\ \/ UNCHANGED <<analyses, health>>
     \/ /\ ~Exceeds(k)
        /\ Len(analyses) < MaxAnalyses
        /\ IF configured
           THEN analyses' = Append(analyses, "initial") /\ UNCHANGED health
           ELSE /\ analyses' = Append(analyses, "fallback")
                /\ health' = [health EXCEPT !.operational = FALSE]
  /\ UNCHANGED <<clock, configured>>

\* updateModelSuccess and updateModelFailure.
Succeeds(n) ==
  /\ analyses' = [analyses EXCEPT ![n] = "live"]
  /\ health' = [checked |-> TRUE, operational |-> TRUE, failure |-> "none"]

Fails(n, code) ==
  /\ analyses' = [analyses EXCEPT ![n] = "fallback"]
  /\ health' = [checked |-> TRUE, operational |-> FALSE, failure |-> code]

\* A text is parsed and checked; the model is asked once more for one that
\* fails, and never again where it timed out or the request failed.
ModelAnswers(n) ==
  /\ analyses[n] \in Pending
  /\ \/ Succeeds(n)
     \/ /\ analyses[n] = "initial"
        /\ analyses' = [analyses EXCEPT ![n] = "repair"]
        /\ UNCHANGED health
     \/ /\ analyses[n] = "repair"
        /\ \E code \in {"MODEL_PARSE_FAILED", "MODEL_SCHEMA_INVALID"} : Fails(n, code)
  /\ UNCHANGED <<clock, hits, passed, configured>>

ModelFails(n) ==
  /\ analyses[n] \in Pending
  /\ Fails(n, "MODEL_REQUEST_FAILED")
  /\ UNCHANGED <<clock, hits, passed, configured>>

\* The timer that Promise.race sets beside each request.
TimesOut(n) ==
  /\ analyses[n] \in Pending
  /\ Fails(n, "MODEL_TIMEOUT")
  /\ UNCHANGED <<clock, hits, passed, configured>>

\* assuranceModelHealth.
ModelStatus ==
  CASE ~configured        -> "not_configured"
    [] ~health.checked    -> "configured_unverified"
    [] health.operational -> "available"
    [] OTHER              -> "unavailable"

ClockTicks ==
  /\ clock < MaxTime
  /\ clock' = clock + 1
  /\ UNCHANGED <<hits, passed, configured, analyses, health>>

AssuranceNext ==
  \/ \E v \in Visitors, t \in Targets : MutationRequest(v, t)
  \/ \E v \in Visitors : Analyze(v)
  \/ \E n \in DOMAIN analyses : ModelAnswers(n) \/ ModelFails(n) \/ TimesOut(n)
  \/ ClockTicks

-----------------------------------------------------------------------------
(***************************************************************************)
(* A visitor who is turned away at a path has been let through there as    *)
(* often as the limit says in the minute before, and never twice as often, *)
(* however his requests fall on the windows, which begin with a request    *)
(* and not with a minute, and however many more he sends meanwhile; the    *)
(* same of analyses.  Over several paths he has the limit at each: of one  *)
(* visitor's requests together nothing is promised.                        *)
(***************************************************************************)
InLastMinute(k) ==
  Cardinality({n \in DOMAIN passed[k] : passed[k][n] + Minute > clock})

RateHolds ==
  \A k \in Limiters :
    /\ InLastMinute(k) < 2 * Limits[k[1]]
    /\ hits[k].count > Limits[k[1]] /\ hits[k].resetAt > clock
         => InLastMinute(k) >= Limits[k[1]]
=============================================================================

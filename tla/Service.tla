-------------------------------- MODULE Service --------------------------------
(***************************************************************************)
(* The hosted service as a whole: scripts/railway-boot.mjs, which prepares *)
(* a container and starts API, listener and watchdog beside each other and *)
(* ends with the first of them; what each does before it serves (backend/  *)
(* src/api/startup.ts and main.ts, db/database.ts); and how the listener   *)
(* learns of events on chain (listener/main.ts and event-stream.ts).  A    *)
(* container may be replaced, and a process may end, between any two steps;*)
(* what is kept is the volume.  That the service is started again is the   *)
(* platform's part.                                                        *)
(***************************************************************************)
EXTENDS Naturals, FiniteSets

CONSTANTS
  MaxEvents,   \* bound on events on chain
  MaxWrites,   \* bound on what is written to a file
  MaxQueued,   \* bound on ticks that are queued in the listener
  MaxCrashes   \* bound on processes that end, ticks that fail and containers
               \* that are replaced

ASSUME ServiceAssumption ==
  /\ {MaxEvents, MaxWrites, MaxCrashes} \subseteq Nat /\ MaxQueued \in Nat \ {0}

VARIABLES
  place,     \* what stands for each directory in the container
  disk,      \* the files of container and volume, as how often each was written
  written,   \* how often each file was written
  boot,      \* where the script is
  children,  \* where each of its children is
  columns,   \* the database has all columns
  port,      \* who listens on the API's port
  stream,    \* the listener's connection to a node's events
  timer,     \* its tick is scheduled
  queued,    \* its ticks, the first one under way if tick says so
  tick,
  events,    \* how many events are on chain and behind the cursor, and were
             \* behind it when the last tick began; those that are
             \* reconciled, and those that a failed tick has left out
  crashes

serviceVars == <<place, disk, written, boot, children, columns, port,
                 stream, timer, queued, tick, events, crashes>>

Directories == {".data", ".evidence"}
DiskFiles == {"demo-decisions.json", "sqlite", "actions"}
DirectoryOf(f) == IF f = "actions" THEN ".evidence" ELSE ".data"
Services == {"api", "listener", "watchdog"}

Empty == [f \in DiskFiles |-> 0]
AllDown == [s \in Services |-> "none"]

ServiceInit ==
  /\ place \in [Directories -> {"none", "directory"}]
  /\ disk = [container |-> Empty, volume |-> Empty]
  /\ written = Empty
  /\ boot = "down"
  /\ children = AllDown
  /\ columns \in BOOLEAN
  /\ port = "free"
  /\ stream = "off"
  /\ timer = FALSE
  /\ queued = 0
  /\ tick = "none"
  /\ events = [chain |-> 0, cursor |-> 0, before |-> 0, done |-> {}, lost |-> {}]
  /\ crashes = 0

listenerVars == <<stream, timer, queued, tick>>

-----------------------------------------------------------------------------
(* The script.                                                             *)

BootStep(from, to) == boot = from /\ boot' = to

Started ==
  /\ BootStep("down", ".data")
  /\ UNCHANGED <<place, disk, written, children, columns, port, listenerVars, events, crashes>>

\* Mutant of LinkIntoVolume: a directory that is there is left alone.
LinkIfAbsent(d, next) ==
  /\ BootStep(d, next)
  /\ place' = [place EXCEPT ![d] = IF @ = "none" THEN "link" ELSE @]
  /\ UNCHANGED <<disk, written, children, columns, port, listenerVars, events, crashes>>

\* Where a directory is in the way it is removed, with what is in it, and
\* the link made in a second step.
LinkIntoVolume(d, next) ==
  /\ boot = d
  /\ IF place[d] = "directory"
     THEN /\ place' = [place EXCEPT ![d] = "none"]
          /\ disk' = [disk EXCEPT !.container =
                        [f \in DiskFiles |-> IF DirectoryOf(f) = d THEN 0 ELSE @[f]]]
          /\ UNCHANGED boot
     ELSE /\ place' = [place EXCEPT ![d] = "link"]
          /\ boot' = next
          /\ UNCHANGED disk
  /\ UNCHANGED <<written, children, columns, port, listenerVars, events, crashes>>

Where(f) == IF place[DirectoryOf(f)] = "link" THEN "volume" ELSE "container"

Writes(f) ==
  /\ disk' = [disk EXCEPT ![Where(f)][f] = written[f] + 1]
  /\ written' = [written EXCEPT ![f] = @ + 1]

\* A file that is there is kept.
SeedDataFiles ==
  LET f == "demo-decisions.json" IN
  /\ BootStep("seed", "running")
  /\ IF disk[Where(f)][f] = 0 THEN Writes(f) ELSE UNCHANGED <<disk, written>>
  /\ children' = [s \in Services |-> "starting"]
  /\ UNCHANGED <<place, columns, port, listenerVars, events, crashes>>

\* The events of the tick under way: the cursor is past them already.
Taken == IF tick = "reading" THEN (events.before + 1)..events.cursor ELSE {}
TickLost == events' = [events EXCEPT !.lost = @ \cup Taken]

\* shutdown: the first child that ends takes the others and the script with
\* it.  Outside a container the API that was told to end may still listen.
Shutdown ==
  /\ boot' = "down"
  /\ children' = AllDown
  /\ port' \in IF children["api"] = "up" THEN {"free", "taken"} ELSE {port}
  /\ stream' = "off" /\ timer' = FALSE /\ queued' = 0 /\ tick' = "none"
  /\ TickLost

PortIsFreed ==
  /\ port = "taken" /\ children["api"] # "up"
  /\ port' = "free"
  /\ UNCHANGED <<place, disk, written, boot, children, columns, listenerVars, events, crashes>>

-----------------------------------------------------------------------------
(* What each service does before it serves.                                *)

Becomes(s, state) == children' = [children EXCEPT ![s] = state]

\* inspectStartupPort: an API that finds the port taken exits, with success
\* where it was another of its own.
Probes ==
  /\ children["api"] = "starting"
  /\ IF port = "free"
     THEN Becomes("api", "opening") /\ UNCHANGED <<boot, port, listenerVars, events>>
     ELSE Shutdown
  /\ UNCHANGED <<place, disk, written, columns, crashes>>

\* The others begin with the database.
BeginsOpening(s) ==
  /\ s # "api" /\ children[s] = "starting"
  /\ Becomes(s, "opening")
  /\ UNCHANGED <<place, disk, written, boot, columns, port, listenerVars, events, crashes>>

Prepared(s) == IF s = "listener" THEN "ticking" ELSE "serving"

\* openDatabase reads the columns there are, and adds what is missing.
ReadsColumns(s) ==
  /\ children[s] = "opening"
  /\ Becomes(s, IF columns THEN Prepared(s) ELSE "altering")
  /\ UNCHANGED <<place, disk, written, boot, columns, port, listenerVars, events, crashes>>

\* Another process may have added it since: the statement throws then.
AltersTable(s) ==
  /\ children[s] = "altering"
  /\ IF columns THEN Shutdown /\ UNCHANGED columns
     ELSE /\ Becomes(s, Prepared(s)) /\ columns' = TRUE
          /\ UNCHANGED <<boot, port, listenerVars, events>>
  /\ UNCHANGED <<place, disk, written, crashes>>

Listens ==
  /\ children["api"] = "serving"
  /\ Becomes("api", "up")
  /\ port' = "taken"
  /\ UNCHANGED <<place, disk, written, boot, columns, listenerVars, events, crashes>>

Watches ==
  /\ children["watchdog"] = "serving"
  /\ Becomes("watchdog", "up")
  /\ UNCHANGED <<place, disk, written, boot, columns, port, listenerVars, events, crashes>>

\* What a service stores while it runs.
Stores(f) ==
  /\ \E s \in Services : children[s] = "up"
  /\ written[f] < MaxWrites
  /\ Writes(f)
  /\ UNCHANGED <<place, boot, children, columns, port, listenerVars, events, crashes>>

-----------------------------------------------------------------------------
(* The listener.                                                           *)

\* The next endpoint when one fails or ends, and a second's wait after the
\* public one.
NextEndpoint ==
  /\ children["listener"] = "up"
  /\ stream' = CASE stream = "primary" -> "public"
                 [] stream = "public"  -> "waiting"
                 [] OTHER              -> "primary"
  /\ UNCHANGED <<place, disk, written, boot, children, columns, port, timer, queued, tick,
                 events, crashes>>

\* A frame may be lost with its connection.
EventHappens ==
  /\ events.chain < MaxEvents
  /\ events' = [events EXCEPT !.chain = @ + 1]
  /\ timer' \in IF stream \in {"primary", "public"} THEN {timer, TRUE} ELSE {timer}
  /\ UNCHANGED <<place, disk, written, boot, children, columns, port, stream, queued, tick, crashes>>

\* Every five minutes.
Heartbeat ==
  /\ children["listener"] = "up"
  /\ ~timer
  /\ timer' = TRUE
  /\ UNCHANGED <<place, disk, written, boot, children, columns, port, stream, queued, tick,
                 events, crashes>>

\* Half a second after the last wake-up.
TimerFires ==
  /\ timer
  /\ queued < MaxQueued
  /\ timer' = FALSE
  /\ queued' = queued + 1
  /\ UNCHANGED <<place, disk, written, boot, children, columns, port, stream, tick, events, crashes>>

ServiceTicks ==
  /\ tick = "none"
  /\ queued > 0 \/ children["listener"] = "ticking"
  /\ tick' = "running"
  /\ UNCHANGED <<place, disk, written, boot, children, columns, port, stream, timer, queued,
                 events, crashes>>

\* reconcileChain moves its cursor past the events, and only then reads the
\* actions that they name.
TickTakes ==
  /\ tick = "running"
  /\ tick' = "reading"
  /\ events' = [events EXCEPT !.before = events.cursor, !.cursor = events.chain]
  /\ UNCHANGED <<place, disk, written, boot, children, columns, port, stream, timer, queued, crashes>>

TickSucceeds ==
  /\ tick = "reading"
  /\ tick' = "none"
  /\ events' = [events EXCEPT !.done = @ \cup Taken]
  /\ IF children["listener"] = "ticking"
     THEN Becomes("listener", "up") /\ stream' = "primary" /\ UNCHANGED queued
     ELSE queued' = queued - 1 /\ UNCHANGED <<children, stream>>
  /\ UNCHANGED <<place, disk, written, boot, columns, port, timer, crashes>>

Crashes == crashes < MaxCrashes /\ crashes' = crashes + 1

\* Mutant of TickFails: the queue is not caught, and what is chained to it
\* never runs.
TickRejects ==
  /\ tick \in {"running", "reading"} /\ children["listener"] = "up"
  /\ Crashes
  /\ tick' = "rejected"
  /\ TickLost
  /\ UNCHANGED <<place, disk, written, boot, children, columns, port, stream, timer, queued>>

\* A read fails, before or after the cursor has moved; the first tick ends the
\* listener.
TickFails ==
  /\ tick \in {"running", "reading"}
  /\ Crashes
  /\ IF children["listener"] = "ticking" THEN Shutdown
     ELSE /\ tick' = "none" /\ queued' = queued - 1
          /\ TickLost
          /\ UNCHANGED <<boot, children, port, stream, timer>>
  /\ UNCHANGED <<place, disk, written, columns>>

-----------------------------------------------------------------------------
\* A child, or the script, ends.
ProcessEnds ==
  /\ boot # "down"
  /\ Crashes
  /\ Shutdown
  /\ UNCHANGED <<place, disk, written, columns>>

\* The container is replaced by one of the image, which may have either
\* directory, and everything in it is gone.
ContainerReplaced ==
  /\ Crashes
  /\ Shutdown /\ port' = "free"
  /\ place' \in [Directories -> {"none", "directory"}]
  /\ disk' = [disk EXCEPT !.container = Empty]
  /\ UNCHANGED <<written, columns>>

ScriptRuns ==
  \/ Started
  \/ LinkIntoVolume(".data", ".evidence") \/ LinkIntoVolume(".evidence", "seed")
  \/ SeedDataFiles

ServiceStarts(s) == BeginsOpening(s) \/ ReadsColumns(s) \/ AltersTable(s)

ServiceNext ==
  \/ ScriptRuns
  \/ \E s \in Services : ServiceStarts(s)
  \/ Probes \/ Listens \/ Watches \/ PortIsFreed
  \/ \E f \in DiskFiles : Stores(f)
  \/ NextEndpoint \/ EventHappens \/ Heartbeat \/ TimerFires
  \/ ServiceTicks \/ TickTakes \/ TickSucceeds \/ TickFails
  \/ ProcessEnds \/ ContainerReplaced

(***************************************************************************)
(* The platform starts the script again, every process goes on, the old    *)
(* API lets go of the port, the heartbeat goes on, and events pause for    *)
(* half a second now and then, as they do between blocks, so that the      *)
(* timer fires.  The stream owes nothing.                                  *)
(***************************************************************************)
ServiceFairness ==
  /\ WF_serviceVars(ScriptRuns)
  /\ \A s \in Services : WF_serviceVars(ServiceStarts(s))
  /\ WF_serviceVars(Probes) /\ WF_serviceVars(Listens) /\ WF_serviceVars(Watches)
  /\ WF_serviceVars(PortIsFreed)
  /\ WF_serviceVars(Heartbeat) /\ WF_serviceVars(TimerFires)
  /\ WF_serviceVars(ServiceTicks) /\ WF_serviceVars(TickTakes \/ TickSucceeds)

-----------------------------------------------------------------------------
(***************************************************************************)
(* Where a service runs it finds every file as it was last written, by     *)
(* whichever container: nothing is stored beside the volume, and no seed   *)
(* replaces what a later run has stored.                                   *)
(***************************************************************************)
FilesAreLatest ==
  (\E s \in Services : children[s] # "none")
    => \A f \in DiskFiles : disk[Where(f)][f] = written[f]

(***************************************************************************)
(* Every event on chain is reconciled in the end, though its frame may get *)
(* lost, ticks fail, two processes alter the database at once and one of   *)
(* them ends the service, or an old API still has the port; except those   *)
(* that a tick had taken before it failed, which no later tick reads.      *)
(***************************************************************************)
EventIsReconciled ==
  \A n \in 1..MaxEvents : events.chain >= n ~> n \in events.done \cup events.lost
=============================================================================

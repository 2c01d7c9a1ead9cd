----------------------------- MODULE DriftEngine ------------------------------
(***************************************************************************)
(* The drift engine and its scheduler: each caller calls Start once, in a  *)
(* goroutine that runs the scheduler's loop, and anyone may call Stop. The *)
(* ticker and the length of a scan are left open: a scan ends some time,   *)
(* and a tick may come whenever the loop waits for one.                    *)
(***************************************************************************)
EXTENDS FiniteSets, Naturals

CONSTANTS Callers

VARIABLES
    loop,       \* caller |-> idle, refused, scanning, waiting or returned
    done,       \* the callers whose context has ended
    running,    \* Engine.running
    stopCh,     \* Scheduler.stop: open or closed
    panicked    \* a Stop closed the channel a second time

engineVars == <<loop, done, running, stopCh, panicked>>

EngineInit ==
    /\ loop = [c \in Callers |-> "idle"]
    /\ done = {}
    /\ running = FALSE
    /\ stopCh = "open"
    /\ panicked = FALSE

Looping(c) == loop[c] \in {"scanning", "waiting"}

Go(c, step) == loop' = [loop EXCEPT ![c] = step]

\* Faulty variant: running is not looked at.
StartAnyway(c) ==
    /\ loop[c] = "idle"
    /\ running' = TRUE
    /\ Go(c, "scanning")
    /\ UNCHANGED <<done, stopCh, panicked>>

\* The flag is set under the lock; the scheduler scans at once.
Start(c) ==
    /\ loop[c] = "idle"
    /\ running' = TRUE
    /\ Go(c, IF running THEN "refused" ELSE "scanning")
    /\ UNCHANGED <<done, stopCh, panicked>>

\* The scan, which looks at no context, is over, well or badly.
Scanned(c) ==
    /\ loop[c] = "scanning"
    /\ Go(c, "waiting")
    /\ UNCHANGED <<done, running, stopCh, panicked>>

\* The three cases of the select; of several that are ready any is taken.
Tick(c) ==
    /\ loop[c] = "waiting"
    /\ Go(c, "scanning")
    /\ UNCHANGED <<done, running, stopCh, panicked>>

\* Faulty variant: the loop asks the flag, which Stop cleared, before it ends.
SeeStopWhileRunning(c) ==
    /\ loop[c] = "waiting" /\ stopCh = "closed" /\ running
    /\ Go(c, "returned")
    /\ UNCHANGED <<done, running, stopCh, panicked>>

SeeStop(c) ==
    /\ loop[c] = "waiting" /\ stopCh = "closed"
    /\ Go(c, "returned")
    /\ UNCHANGED <<done, running, stopCh, panicked>>

\* The engine is not told: running stays set.
SeeDone(c) ==
    /\ loop[c] = "waiting" /\ c \in done
    /\ Go(c, "returned")
    /\ UNCHANGED <<done, running, stopCh, panicked>>

EndContext(c) ==
    /\ c \notin done
    /\ done' = done \cup {c}
    /\ UNCHANGED <<loop, running, stopCh, panicked>>

\* The channel is made once, by NewScheduler: closing it again panics, and the
\* panic is the caller's. The flag is cleared either way.
Stop ==
    /\ running' = FALSE
    /\ stopCh' = "closed"
    /\ panicked' = (panicked \/ stopCh = "closed")
    /\ UNCHANGED <<loop, done>>

EngineProceeds == \E c \in Callers : Scanned(c) \/ Tick(c) \/ SeeStop(c) \/ SeeDone(c)

EngineNext == EngineProceeds \/ Stop \/ \E c \in Callers : Start(c) \/ EndContext(c)

\* A scan ends, and a select that finds the stop channel or the context ready
\* again and again takes one of them at some time.
EngineFairness ==
    \A c \in Callers : /\ WF_engineVars(Scanned(c))
                       /\ SF_engineVars(SeeStop(c) \/ SeeDone(c))

EngineSpec == EngineInit /\ [][EngineNext]_engineVars /\ EngineFairness

EngineTypeOK ==
    /\ loop \in [Callers -> {"idle", "refused", "scanning", "waiting", "returned"}]
    /\ done \subseteq Callers
    /\ running \in BOOLEAN /\ panicked \in BOOLEAN
    /\ stopCh \in {"open", "closed"}

-----------------------------------------------------------------------------
(* Properties *)

\* "drift engine is already running" (drift/engine.go:54): until the engine is
\* stopped no two callers scan side by side, and one whose context ended keeps
\* its place, so that nobody can take over from it without a Stop.
OneLoopUntilStopped ==
    stopCh = "open" =>
        /\ Cardinality({c \in Callers : Looping(c)}) <= 1
        /\ Cardinality({c \in Callers : loop[c] \notin {"idle", "refused"}}) =
              IF running THEN 1 ELSE 0

\* A loop ends once its context has, or once the engine is stopped, also when the
\* Stop came before its Start.
StopEndsLoops ==
    \A c \in Callers :
        (Looping(c) /\ (stopCh = "closed" \/ c \in done)) ~> loop[c] = "returned"
=============================================================================

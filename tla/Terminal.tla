------------------------------- MODULE Terminal -------------------------------
(***************************************************************************)
(* The spinner and the progress bar. The spinner's loop draws on the same  *)
(* line as the callers that halt it; mu is the spinner's mutex, and the    *)
(* renderer's is held for one write at a time. Workers advance the bar and *)
(* render what they saw, outside its lock.                                 *)
(***************************************************************************)
EXTENDS FiniteSets, Naturals, Sequences

CONSTANTS
    Halters,    \* the calls made on the spinner, each once, all at once
    Verdicts,   \* what each of them may be: Stop, Succeed, Fail
    Workers,    \* the calls of Increment
    Total       \* the bar's total; a call adds one

\* A bar without a total renders nothing.
ASSUME TotalAssumption == Total \in Nat \ {0}

VARIABLES
    mode,       \* animated, plain (no terminal) or quiet
    anim,       \* the loop: select, draw, holding or done
    mu,         \* whether the loop holds Spinner.mu
    stopped, halted,    \* Spinner.stopped, and whether stopCh is closed
    halter,     \* caller |-> [call, at]
    line,       \* what the spinner's line shows: blank, frame, notice, result
    results,    \* how many result lines were written
    current, lastDecile, \* Progress.current, Progress.lastDecile (one more than it)
    worker,     \* worker |-> [at, seen]
    milestones  \* the deciles that were printed, in order

spinVars     == <<mode, anim, mu, stopped, halted, halter, line, results>>
barVars      == <<current, lastDecile, worker, milestones>>
terminalVars == <<spinVars, barVars>>

TerminalInit ==
    /\ mode = "idle" /\ anim = "select" /\ mu = FALSE
    /\ stopped = FALSE /\ halted = FALSE
    /\ halter = [c \in Halters |-> [call |-> "Stop", at |-> "idle"]]
    /\ line = "blank" /\ results = 0
    /\ current = 0 /\ lastDecile = 0
    /\ worker = [w \in Workers |-> [at |-> "idle", seen |-> 0]]
    /\ milestones = <<>>

\* Without a terminal the message is announced once and there is no loop.
Spin(m) ==
    /\ mode = "idle"
    /\ mode' = m
    /\ anim' = IF m = "animated" THEN "select" ELSE "done"
    /\ line' = IF m = "plain" THEN "notice" ELSE "blank"
    /\ UNCHANGED <<mu, stopped, halted, halter, results, barVars>>

TickFrame ==
    /\ mode = "animated" /\ anim = "select"
    /\ anim' = "draw"
    /\ UNCHANGED <<mode, mu, stopped, halted, halter, line, results, barVars>>

\* draw: nothing is drawn once the spinner is stopped.
DrawLock ==
    /\ anim = "draw" /\ ~mu
    /\ IF stopped THEN anim' = "select" /\ mu' = mu
       ELSE anim' = "holding" /\ mu' = TRUE
    /\ UNCHANGED <<mode, stopped, halted, halter, line, results, barVars>>

DrawFrame ==
    /\ anim = "holding"
    /\ line' = "frame"
    /\ anim' = "select" /\ mu' = FALSE
    /\ UNCHANGED <<mode, stopped, halted, halter, results, barVars>>

\* The deferred close of doneCh comes with the return.
LoopEnds ==
    /\ mode = "animated" /\ anim = "select" /\ halted
    /\ anim' = "done"
    /\ UNCHANGED <<mode, mu, stopped, halted, halter, line, results, barVars>>

Halter(c, from, to) == halter[c].at = from /\ halter' = [halter EXCEPT ![c].at = to]

\* halt: the first one goes on, every other call returns at once.
Halt(c, call) ==
    /\ mode # "idle" /\ halter[c].at = "idle" /\ ~mu
    /\ halter' = [halter EXCEPT ![c] = [call |-> call,
                                        at |-> IF stopped THEN "returned" ELSE "closing"]]
    /\ stopped' = TRUE
    /\ UNCHANGED <<mode, anim, mu, halted, line, results, barVars>>

CloseStop(c) ==
    /\ Halter(c, "closing", "waiting")
    /\ halted' = (mode = "animated")
    /\ UNCHANGED <<mode, anim, mu, stopped, line, results, barVars>>

\* <-doneCh, then erase, which does something on a terminal only.
Erase(c) ==
    /\ anim = "done"
    /\ Halter(c, "waiting", "erased")
    /\ line' = IF mode = "animated" THEN "blank" ELSE line
    /\ UNCHANGED <<mode, anim, mu, stopped, halted, results, barVars>>

\* Success says nothing in quiet mode, Failure always does, Stop never.
Prints(call) == call = "Fail" \/ (call = "Succeed" /\ mode # "quiet")

Report(c) ==
    /\ Halter(c, "erased", "won")
    /\ IF Prints(halter[c].call) THEN line' = "result" /\ results' = results + 1
       ELSE UNCHANGED <<line, results>>
    /\ UNCHANGED <<mode, anim, mu, stopped, halted, barVars>>

HaltProceeds(c) == CloseStop(c) \/ Erase(c) \/ Report(c)

LoopProceeds == DrawLock \/ DrawFrame \/ LoopEnds

-----------------------------------------------------------------------------

Worker(w, from, to) == worker[w].at = from /\ worker' = [worker EXCEPT ![w].at = to]

\* The counter is advanced under the lock and read there.
Increment(w) ==
    /\ worker[w].at = "idle"
    /\ current' = IF current < Total THEN current + 1 ELSE current
    /\ worker' = [worker EXCEPT ![w] = [at |-> "render", seen |-> current']]
    /\ UNCHANGED <<spinVars, lastDecile, milestones>>

\* Deciles run from 0; lastDecile is kept one higher, to start below it.
Decile(seen) == (((seen * 100) \div Total) \div 10) + 1

\* Faulty variant: the last decile is read under the lock and set after it.
DecideUnlocked(w) ==
    /\ worker[w].at = "render"
    /\ worker' = [worker EXCEPT ![w].at =
                     IF Decile(worker[w].seen) > lastDecile THEN "print" ELSE "done"]
    /\ UNCHANGED <<spinVars, current, lastDecile, milestones>>

Decide(w) ==
    /\ worker[w].at = "render"
    /\ LET report == Decile(worker[w].seen) > lastDecile
       IN  /\ lastDecile' = IF report THEN Decile(worker[w].seen) ELSE lastDecile
           /\ worker' = [worker EXCEPT ![w].at = IF report THEN "print" ELSE "done"]
    /\ UNCHANGED <<spinVars, current, milestones>>

PrintMilestone(w) ==
    /\ Worker(w, "print", "done")
    /\ milestones' = Append(milestones, Decile(worker[w].seen))
    /\ UNCHANGED <<spinVars, current, lastDecile>>

SpinnerNext ==
    \/ \E m \in {"animated", "plain", "quiet"} : Spin(m)
    \/ TickFrame \/ LoopProceeds
    \/ \E c \in Halters : HaltProceeds(c) \/ \E call \in Verdicts : Halt(c, call)

BarNext ==
    \E w \in Workers : Increment(w) \/ Decide(w) \/ PrintMilestone(w)

\* A goroutine that can go on does; when the stop channel and the ticker are
\* ready together, the select takes the channel at some time.
TerminalFairness ==
    /\ WF_terminalVars(DrawLock \/ DrawFrame)
    /\ SF_terminalVars(LoopEnds)
    /\ \A c \in Halters : WF_terminalVars(HaltProceeds(c))

TerminalSpec == TerminalInit /\ [][SpinnerNext \/ BarNext]_terminalVars /\ TerminalFairness

TerminalTypeOK ==
    /\ mode \in {"idle", "animated", "plain", "quiet"}
    /\ anim \in {"select", "draw", "holding", "done"}
    /\ line \in {"blank", "frame", "notice", "result"}
    /\ {mu, stopped, halted} \subseteq BOOLEAN
    /\ current \in 0..Total /\ lastDecile \in 0..11

-----------------------------------------------------------------------------
(* Properties *)

\* "Clears the line exactly once" (ui/spinner.go:131): of the calls on a spinner,
\* made at the same time, one ends it; from then on no frame is drawn over its
\* result line, and no other call writes one.
OneResultLine ==
    LET won == {c \in Halters : halter[c].at = "won"}
    IN  /\ Cardinality({c \in Halters : halter[c].at \notin {"idle", "returned"}}) <= 1
        /\ results = Cardinality({c \in won : Prints(halter[c].call)})
        /\ won # {} => line # "frame" /\ (results = 1 => line = "result")

\* "A line at each decile" (ui/spinner.go:175), whatever the interleaving of the
\* workers: no decile is printed twice, so that there are at most eleven lines,
\* and the last line of a bar that was filled is somewhere among them.
MilestonesOnce ==
    /\ Cardinality({milestones[i] : i \in DOMAIN milestones}) = Len(milestones)
    /\ (current = Total /\ \A w \in Workers : worker[w].at \in {"idle", "done"}) =>
          \E i \in DOMAIN milestones : milestones[i] = 11

\* Goroutines that write to one terminal leave whole lines, each once.
TerminalIsTidy == OneResultLine /\ MilestonesOnce

\* A call that halts the spinner returns, the one that waits for the loop too.
HaltReturns ==
    \A c \in Halters : halter[c].at # "idle" ~> halter[c].at \in {"won", "returned"}
=============================================================================

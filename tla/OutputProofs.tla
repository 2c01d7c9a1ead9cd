------------------------------ MODULE OutputProofs -----------------------------
(***************************************************************************)
(* Proofs about what goroutines and subscribers do with one thing they     *)
(* share: the spinner's line, the bar's milestones, the bus's messages.    *)
(***************************************************************************)
EXTENDS Services, Counting, SequenceTheorems

-----------------------------------------------------------------------------
(* The spinner *)

\* The callers that were not turned away.
Chosen == {c \in Halters : halter[c].at \notin {"idle", "returned"}}

Steps == {"idle", "returned", "closing", "waiting", "erased", "won"}

SpinTypeOK ==
    /\ mode \in {"idle", "animated", "plain", "quiet"}
    /\ anim \in {"select", "draw", "holding", "done"}
    /\ line \in {"blank", "frame", "notice", "result"}
    /\ mu \in BOOLEAN /\ stopped \in BOOLEAN /\ halted \in BOOLEAN
    /\ halter \in [Halters -> [call : {"Stop"} \cup Verdicts, at : Steps]]

\* The one that set stopped is the only one chosen; it erases after the loop has
\* ended, for good, and so its result is the last thing drawn.
SpinInv ==
    /\ SpinTypeOK
    /\ IF stopped THEN \E c \in Halters : Chosen = {c} ELSE Chosen = {}
    /\ mode = "idle" => ~stopped /\ anim = "select" /\ line # "frame"
    /\ mode \in {"plain", "quiet"} => anim = "done" /\ line # "frame"
    /\ \A c \in Halters : halter[c].at \in {"erased", "won"} => anim = "done" /\ line # "frame"
    /\ (\A c \in Halters : halter[c].at # "won") => results = 0
    /\ \A c \in Halters : halter[c].at = "won" =>
          /\ results = IF Prints(halter[c].call) THEN 1 ELSE 0
          /\ results = 1 => line = "result"

LEMMA HaltKeepsLine ==
  ASSUME SpinInv, NEW c \in Halters, NEW call \in Verdicts, Halt(c, call)
  PROVE  SpinInv'
  <1>1. /\ mode' = mode /\ anim' = anim /\ mu' = mu /\ halted' = halted /\ line' = line
        /\ results' = results /\ stopped' = TRUE
        /\ mode # "idle" /\ halter[c].at = "idle"
    BY DEF Halt
  <1>2. /\ SpinTypeOK'
        /\ \A d \in Halters : d # c => halter'[d] = halter[d]
        /\ halter'[c].at = IF stopped THEN "returned" ELSE "closing"
    BY <1>1 DEF Halt, SpinInv, SpinTypeOK, Steps
  <1>3. IF stopped THEN Chosen' = Chosen ELSE Chosen' = Chosen \cup {c}
    BY <1>1, <1>2 DEF Chosen
  <1>4. \E d \in Halters : Chosen' = {d}
    BY <1>3 DEF SpinInv
  <1> QED BY <1>1, <1>2, <1>4 DEF SpinInv, Prints

LEMMA CloseKeepsLine ==
  ASSUME SpinInv, NEW c \in Halters, CloseStop(c)
  PROVE  SpinInv'
  <1>1. /\ mode' = mode /\ anim' = anim /\ mu' = mu /\ line' = line
        /\ results' = results /\ stopped' = stopped /\ halted' \in BOOLEAN
        /\ halter[c].at = "closing" /\ halter' = [halter EXCEPT ![c].at = "waiting"]
    BY DEF CloseStop, Halter
  <1>2. /\ SpinTypeOK' /\ halter'[c].at = "waiting"
        /\ \A d \in Halters : d # c => halter'[d] = halter[d]
    BY <1>1 DEF SpinInv, SpinTypeOK, Steps
  <1>3. Chosen' = Chosen
    BY <1>1, <1>2 DEF Chosen
  <1> QED BY <1>1, <1>2, <1>3 DEF SpinInv, Prints

LEMMA EraseKeepsLine ==
  ASSUME SpinInv, NEW c \in Halters, Erase(c)
  PROVE  SpinInv'
  <1>1. /\ mode' = mode /\ anim' = anim /\ mu' = mu /\ halted' = halted
        /\ results' = results /\ stopped' = stopped /\ anim = "done"
        /\ halter[c].at = "waiting" /\ halter' = [halter EXCEPT ![c].at = "erased"]
        /\ line' = IF mode = "animated" THEN "blank" ELSE line
    BY DEF Erase, Halter
  <1>2. /\ SpinTypeOK' /\ halter'[c].at = "erased"
        /\ \A d \in Halters : d # c => halter'[d] = halter[d]
    BY <1>1 DEF SpinInv, SpinTypeOK, Steps
  <1>3. Chosen' = Chosen /\ c \in Chosen
    BY <1>1, <1>2 DEF Chosen
  <1>4. stopped /\ Chosen = {c} /\ mode # "idle"
    BY <1>3 DEF SpinInv
  <1>5. line' # "frame"
    BY <1>1, <1>4 DEF SpinInv, SpinTypeOK
  <1>6. \A d \in Halters : halter[d].at # "won" /\ halter'[d].at # "won"
    BY <1>1, <1>2, <1>4 DEF Chosen
  <1> QED BY <1>1, <1>2, <1>3, <1>4, <1>5, <1>6 DEF SpinInv, Prints

LEMMA ReportKeepsLine ==
  ASSUME SpinInv, NEW c \in Halters, Report(c)
  PROVE  SpinInv'
  <1>1. /\ mode' = mode /\ anim' = anim /\ mu' = mu /\ halted' = halted /\ stopped' = stopped
        /\ halter[c].at = "erased" /\ halter' = [halter EXCEPT ![c].at = "won"]
        /\ IF Prints(halter[c].call) THEN line' = "result" /\ results' = results + 1
           ELSE line' = line /\ results' = results
    BY DEF Report, Halter
  <1>2. /\ SpinTypeOK' /\ halter'[c].at = "won" /\ halter'[c].call = halter[c].call
        /\ \A d \in Halters : d # c => halter'[d] = halter[d]
    BY <1>1 DEF SpinInv, SpinTypeOK, Steps
  <1>3. Chosen' = Chosen /\ c \in Chosen
    BY <1>1, <1>2 DEF Chosen
  <1>4. stopped /\ Chosen = {c} /\ mode # "idle" /\ anim = "done" /\ line # "frame"
    BY <1>1, <1>3 DEF SpinInv
  <1>5. \A d \in Halters : halter[d].at # "won"
    BY <1>1, <1>4 DEF Chosen
  <1>6. results = 0
    BY <1>5 DEF SpinInv
  <1>7. \A d \in Halters : halter'[d].at \in {"erased", "won"} => d = c
    BY <1>1, <1>2, <1>4 DEF Chosen
  <1> QED BY <1>1, <1>2, <1>3, <1>4, <1>6, <1>7 DEF SpinInv, Prints

LEMMA SpinInvStep ==
  ASSUME SpinInv, SpinnerNext
  PROVE  SpinInv'
  <1>1. ASSUME NEW m \in {"animated", "plain", "quiet"}, Spin(m) PROVE SpinInv'
    <2>1. /\ ~stopped /\ Chosen = {} /\ \A c \in Halters : halter[c].at \in {"idle", "returned"}
      BY <1>1 DEF Spin, SpinInv, Chosen
    <2>2. results = 0
      BY <2>1 DEF SpinInv
    <2> QED BY <1>1, <2>1, <2>2 DEF Spin, SpinInv, SpinTypeOK, Chosen, Prints
  <1>2. CASE TickFrame \/ DrawLock
    <2>1. /\ mode' = mode /\ stopped' = stopped /\ halted' = halted /\ halter' = halter
          /\ line' = line /\ results' = results /\ anim \in {"select", "draw"}
          /\ mode \notin {"idle", "plain", "quiet"} /\ anim' \in {"select", "draw", "holding"}
      BY <1>2 DEF TickFrame, DrawLock, SpinInv, SpinTypeOK
    <2>2. mu' \in BOOLEAN
      BY <1>2 DEF TickFrame, DrawLock, SpinInv, SpinTypeOK
    <2> QED BY <2>1, <2>2 DEF SpinInv, SpinTypeOK, Chosen, Prints
  <1>3. CASE DrawFrame
    BY <1>3 DEF DrawFrame, SpinInv, SpinTypeOK, Chosen, Prints
  <1>4. CASE LoopEnds
    BY <1>4 DEF LoopEnds, SpinInv, SpinTypeOK, Chosen, Prints
  <1> QED BY <1>1, <1>2, <1>3, <1>4, HaltKeepsLine, CloseKeepsLine, EraseKeepsLine, ReportKeepsLine
          DEF SpinnerNext, LoopProceeds, HaltProceeds

LEMMA SpinInvImplies ==
  ASSUME SpinInv
  PROVE  OneResultLine
  <1> DEFINE won == {c \in Halters : halter[c].at = "won"}
             heard == {c \in won : Prints(halter[c].call)}
  <1>1. \A c, d \in Chosen : c = d
    BY DEF SpinInv
  <1>2. won \subseteq Chosen /\ heard \subseteq won
    BY DEF Chosen
  <1>3. Cardinality(Chosen) <= 1
    BY <1>1, AtMostOne
  <1>4. results = Cardinality(heard)
    <2>1. CASE won = {}
      BY <2>1, FS_EmptySet DEF SpinInv
    <2>2. CASE won # {}
      <3>1. PICK c \in won : won = {c}
        BY <2>2, <1>1, <1>2
      <3>2. CASE Prints(halter[c].call)
        <4>1. heard = {c} /\ results = 1
          BY <3>1, <3>2 DEF SpinInv
        <4>2. Cardinality({c}) = 1
          BY FS_Singleton
        <4> QED BY <4>1, <4>2
      <3>3. CASE ~Prints(halter[c].call)
        <4>1. heard = {} /\ results = 0
          BY <3>1, <3>3 DEF SpinInv
        <4> QED BY <4>1, FS_EmptySet
      <3> QED BY <3>2, <3>3
    <2> QED BY <2>1, <2>2
  <1>5. won # {} => line # "frame" /\ (results = 1 => line = "result")
    BY DEF SpinInv
  <1> QED BY <1>3, <1>4, <1>5 DEF OneResultLine, Chosen

-----------------------------------------------------------------------------
(* The bar *)

\* The deciles that are printed, or whose line is about to be.
Printed == {milestones[i] : i \in DOMAIN milestones}

Printing(w) == worker[w].at = "print"

BarTypeOK ==
    /\ current \in 0..Total /\ lastDecile \in 0..11
    /\ worker \in [Workers -> [at : {"idle", "render", "print", "done"}, seen : 0..Total]]
    /\ milestones \in Seq(1..11)

\* Each decile is given to one worker, in ascending order, the last one to lastDecile;
\* a bar that is full has given out the eleventh, or has a worker that saw it full.
BarInv ==
    /\ BarTypeOK
    /\ \A i, j \in DOMAIN milestones : milestones[i] = milestones[j] => i = j
    /\ \A d \in Printed : d <= lastDecile
    /\ \A w \in Workers : Printing(w) =>
          Decile(worker[w].seen) <= lastDecile /\ Decile(worker[w].seen) \notin Printed
    /\ \A w, v \in Workers :
          Printing(w) /\ Printing(v) /\ Decile(worker[w].seen) = Decile(worker[v].seen) => w = v
    /\ lastDecile > 0 =>
          \/ lastDecile \in Printed
          \/ \E w \in Workers : Printing(w) /\ Decile(worker[w].seen) = lastDecile
    /\ current = Total =>
          lastDecile = 11 \/ \E w \in Workers : worker[w] = [at |-> "render", seen |-> Total]

LEMMA DecileFacts ==
  /\ \A seen \in 0..Total : Decile(seen) \in 1..11
  /\ Decile(Total) = 11
  <1>1. Total \in Nat /\ Total > 0
    BY TotalAssumption
  <1>2. ASSUME NEW seen \in 0..Total
        PROVE  (seen * 100) \div Total \in 0..100
    <2> DEFINE percent == (seen * 100) \div Total
    <2>1. percent \in Int /\ Total * percent <= seen * 100 /\ seen * 100 < Total * (percent + 1)
      BY <1>1
    <2> HIDE DEF percent
    <2>2. percent <= 100
      BY <2>1, <1>1
    <2>3. percent >= 0
      BY <2>1, <1>1
    <2> QED BY <2>1, <2>2, <2>3 DEF percent
  <1>3. (Total * 100) \div Total = 100
    BY <1>1
  <1>4. \A percent \in 0..100 : (percent \div 10) + 1 \in 1..11
    OBVIOUS
  <1> QED BY <1>2, <1>3, <1>4 DEF Decile

LEMMA IncrementKeepsBar ==
  ASSUME BarInv, NEW w \in Workers, Increment(w)
  PROVE  BarInv'
  <1>1. /\ current' = IF current < Total THEN current + 1 ELSE current
        /\ worker' = [worker EXCEPT ![w] = [at |-> "render", seen |-> current']]
        /\ lastDecile' = lastDecile /\ milestones' = milestones /\ worker[w].at = "idle"
    BY DEF Increment
  <1>2. current' \in 0..Total /\ Printed' = Printed
    BY <1>1, TotalAssumption DEF BarInv, BarTypeOK, Printed
  <1>3. BarTypeOK'
    BY <1>1, <1>2 DEF BarInv, BarTypeOK
  <1>4. /\ worker'[w] = [at |-> "render", seen |-> current']
        /\ \A v \in Workers : v # w => worker'[v] = worker[v]
    BY <1>1 DEF BarInv, BarTypeOK
  <1>5. \A v \in Workers : Printing(v)' <=> (Printing(v) /\ v # w)
    BY <1>1, <1>4 DEF Printing
  <1>6. \A n : Decile(n)' = Decile(n)
    BY DEF Decile
  <1>7. lastDecile > 0 =>
          \/ lastDecile \in Printed
          \/ \E v \in Workers : Printing(v) /\ v # w /\ Decile(worker[v].seen) = lastDecile
    BY <1>1 DEF BarInv, Printing
  <1> QED BY <1>1, <1>2, <1>3, <1>4, <1>5, <1>7 DEF BarInv, Decile

LEMMA DecideKeepsBar ==
  ASSUME BarInv, NEW w \in Workers, Decide(w)
  PROVE  BarInv'
  <1> DEFINE decile == Decile(worker[w].seen)
  <1>1. /\ worker[w].at = "render" /\ current' = current /\ milestones' = milestones
        /\ Printed' = Printed /\ worker[w].seen \in 0..Total
    BY DEF Decide, Printed, BarInv, BarTypeOK
  <1>2. decile \in 1..11 /\ (worker[w].seen = Total => decile = 11)
    BY <1>1, DecileFacts
  <1>3. CASE decile > lastDecile
    <2>1. lastDecile' = decile /\ worker' = [worker EXCEPT ![w].at = "print"]
      BY <1>3 DEF Decide
    <2>2. BarTypeOK'
      BY <1>1, <1>2, <2>1 DEF BarInv, BarTypeOK
    <2>3. /\ worker'[w].at = "print" /\ worker'[w].seen = worker[w].seen
          /\ \A v \in Workers : v # w => worker'[v] = worker[v]
      BY <2>1 DEF BarInv, BarTypeOK
    <2>4. /\ decile \notin Printed
          /\ \A d \in Printed : d <= decile
          /\ \A v \in Workers : Printing(v) =>
                Decile(worker[v].seen) <= decile /\ Decile(worker[v].seen) # decile
          /\ lastDecile \in 0..11
      <3>1. lastDecile \in 0..11 /\ \A d \in Printed : d \in 1..11
        BY DEF BarInv, BarTypeOK, Printed
      <3>2. \A v \in Workers : Decile(worker[v].seen) \in 1..11
        BY DecileFacts DEF BarInv, BarTypeOK
      <3> QED BY <1>2, <1>3, <3>1, <3>2 DEF BarInv
    <2>5. current = Total => lastDecile' = 11 \/
             \E v \in Workers : worker'[v] = [at |-> "render", seen |-> Total]
      <3> SUFFICES ASSUME current = Total, lastDecile # 11
                   PROVE  lastDecile' = 11 \/ 
                          \E v \in Workers : worker'[v] = [at |-> "render", seen |-> Total]
        BY <1>2, <1>3, <2>1, <2>4
      <3>1. PICK v \in Workers : worker[v] = [at |-> "render", seen |-> Total]
        BY DEF BarInv
      <3> QED BY <3>1, <2>1, <2>3, <1>2
    <2> HIDE DEF decile
    <2>6. \A v \in Workers : Printing(v)' <=> (Printing(v) \/ v = w)
      BY <1>1, <2>3 DEF Printing
    <2>7. \A v \in Workers : worker'[v].seen = worker[v].seen
      BY <2>3
    <2>8. Decile(worker'[w].seen) = decile
      BY <2>3 DEF decile
    <2>9. \A v \in Workers : Printing(v)' =>
             Decile(worker'[v].seen) <= decile /\ Decile(worker'[v].seen) \notin Printed
      BY <1>2, <2>4, <2>6, <2>7, <2>8 DEF BarInv
    <2>10. \A u, v \in Workers :
             Printing(u)' /\ Printing(v)' /\ Decile(worker'[u].seen) = Decile(worker'[v].seen)
               => u = v
      BY <1>2, <2>4, <2>6, <2>7, <2>8 DEF BarInv
    <2> QED BY <1>1, <2>1, <2>2, <2>3, <2>4, <2>5, <2>6, <2>8, <2>9, <2>10 DEF BarInv, Decile
  <1>4. CASE ~(decile > lastDecile)
    <2>1. lastDecile' = lastDecile /\ worker' = [worker EXCEPT ![w].at = "done"]
      BY <1>4 DEF Decide
    <2>2. BarTypeOK'
      BY <1>1, <2>1 DEF BarInv, BarTypeOK
    <2>3. /\ worker'[w].at = "done"
          /\ \A v \in Workers : v # w => worker'[v] = worker[v]
      BY <2>1 DEF BarInv, BarTypeOK
    <2>4. current = Total => lastDecile = 11 \/
             \E v \in Workers : worker'[v] = [at |-> "render", seen |-> Total]
      <3>1. worker[w].seen = Total => lastDecile = 11
        BY <1>2, <1>4 DEF BarInv, BarTypeOK
      <3> QED BY <2>3, <3>1 DEF BarInv
    <2>5. \A v \in Workers : Printing(v)' <=> Printing(v)
      BY <1>1, <2>3 DEF Printing
    <2>6. \A v \in Workers : Printing(v) => worker'[v] = worker[v]
      BY <1>1, <2>3 DEF Printing
    <2> QED BY <1>1, <2>1, <2>2, <2>4, <2>5, <2>6 DEF BarInv, Decile
  <1> QED BY <1>3, <1>4

LEMMA PrintKeepsBar ==
  ASSUME BarInv, NEW w \in Workers, PrintMilestone(w)
  PROVE  BarInv'
  <1> DEFINE decile == Decile(worker[w].seen)
  <1>1. /\ Printing(w) /\ current' = current /\ lastDecile' = lastDecile
        /\ worker' = [worker EXCEPT ![w].at = "done"]
        /\ milestones' = Append(milestones, decile)
        /\ decile \in 1..11 /\ decile \notin Printed /\ decile <= lastDecile
        /\ milestones \in Seq(1..11)
    BY DecileFacts DEF PrintMilestone, Worker, Printing, BarInv, BarTypeOK
  <1>2. BarTypeOK'
    BY <1>1 DEF BarInv, BarTypeOK
  <1>3. /\ worker'[w].at = "done"
        /\ \A v \in Workers : v # w => worker'[v] = worker[v]
    BY <1>1 DEF BarInv, BarTypeOK
  <1> HIDE DEF decile
  <1>4. Printed' = Printed \cup {decile}
    <2>1. /\ DOMAIN milestones' = 1..(Len(milestones) + 1) /\ Len(milestones) \in Nat
          /\ milestones'[Len(milestones) + 1] = decile
          /\ \A i \in DOMAIN milestones : milestones'[i] = milestones[i]
          /\ DOMAIN milestones = 1..Len(milestones)
      BY <1>1
    <2>2. DOMAIN milestones' = DOMAIN milestones \cup {Len(milestones) + 1}
      BY <2>1
    <2> QED BY <2>1, <2>2 DEF Printed
  <1>5. \A i, j \in DOMAIN milestones' : milestones'[i] = milestones'[j] => i = j
    BY <1>1 DEF BarInv, Printed
  <1>6. \A v \in Workers : Printing(v)' <=> (Printing(v) /\ v # w)
    BY <1>3 DEF Printing
  <1>7. \A v \in Workers : Printing(v) /\ v # w => Decile(worker[v].seen) # decile
    BY <1>1 DEF BarInv, decile
  <1>8. current' = Total =>
          lastDecile' = 11 \/ \E v \in Workers : worker'[v] = [at |-> "render", seen |-> Total]
    <2> SUFFICES ASSUME current = Total, lastDecile # 11
                 PROVE  \E v \in Workers : worker'[v] = [at |-> "render", seen |-> Total]
      BY <1>1
    <2>1. PICK v \in Workers : worker[v] = [at |-> "render", seen |-> Total]
      BY DEF BarInv
    <2> QED BY <2>1, <1>1, <1>3 DEF Printing
  <1>9. lastDecile > 0 =>
          \/ lastDecile \in Printed'
          \/ \E v \in Workers : Printing(v) /\ v # w /\ Decile(worker[v].seen) = lastDecile
    BY <1>4 DEF BarInv, decile
  <1> QED BY <1>1, <1>2, <1>3, <1>4, <1>5, <1>6, <1>7, <1>8, <1>9 DEF BarInv, Decile

LEMMA BarInvImplies ==
  ASSUME BarInv
  PROVE  MilestonesOnce
  <1>1. Cardinality({milestones[i] : i \in DOMAIN milestones}) = Len(milestones)
    BY DistinctCount DEF BarInv, BarTypeOK
  <1>2. ASSUME current = Total, \A w \in Workers : worker[w].at \in {"idle", "done"}
        PROVE  \E i \in DOMAIN milestones : milestones[i] = 11
    <2>1. lastDecile = 11
      BY <1>2 DEF BarInv
    <2>2. 11 \in Printed
      BY <2>1, <1>2 DEF BarInv, Printing
    <2> QED BY <2>2 DEF Printed
  <1> QED BY <1>1, <1>2 DEF MilestonesOnce

LEMMA TerminalInvStep ==
  ASSUME SpinInv, BarInv, [SpinnerNext \/ BarNext]_terminalVars
  PROVE  SpinInv' /\ BarInv'
  <1>1. CASE SpinnerNext
    <2>1. UNCHANGED barVars
      BY <1>1 DEF SpinnerNext, LoopProceeds, HaltProceeds, Spin, TickFrame, DrawLock, DrawFrame,
                  LoopEnds, Halt, CloseStop, Erase, Report
    <2> QED BY <1>1, <2>1, SpinInvStep DEF barVars, BarInv, BarTypeOK, Printed, Printing, Decile
  <1>2. CASE BarNext
    <2>1. UNCHANGED spinVars
      BY <1>2 DEF BarNext, Increment, Decide, PrintMilestone
    <2>2. BarInv'
      BY <1>2, IncrementKeepsBar, DecideKeepsBar, PrintKeepsBar DEF BarNext
    <2> QED BY <2>1, <2>2 DEF spinVars, SpinInv, SpinTypeOK, Chosen, Prints
  <1>3. CASE UNCHANGED terminalVars
    BY <1>3 DEF terminalVars, spinVars, barVars, SpinInv, SpinTypeOK, Chosen, Prints,
                BarInv, BarTypeOK, Printed, Printing, Decile
  <1> QED BY <1>1, <1>2, <1>3

\* Of any number of calls that end a spinner one wins, erases the line once the loop
\* is gone, and has the last word on it (ui/spinner.go:131); and however the workers
\* of a bar interleave, no decile has two lines and a full bar has its last
\* (ui/spinner.go:175).
THEOREM TerminalStaysTidy == TerminalSpec => []TerminalIsTidy /\ []TerminalTypeOK
  <1>1. TerminalInit => SpinInv /\ BarInv
    <2> SUFFICES ASSUME TerminalInit PROVE SpinInv /\ BarInv
      OBVIOUS
    <2>1. SpinInv
      BY DEF TerminalInit, SpinInv, SpinTypeOK, Steps, Chosen
    <2>2. 0 \in 0..Total /\ Total # 0 /\ <<>> \in Seq(1..11)
      BY TotalAssumption
    <2> QED BY <2>1, <2>2 DEF TerminalInit, BarInv, BarTypeOK, Printed, Printing
  <1>2. SpinInv /\ BarInv /\ [SpinnerNext \/ BarNext]_terminalVars => SpinInv' /\ BarInv'
    BY TerminalInvStep
  <1>3. SpinInv /\ BarInv => TerminalIsTidy /\ TerminalTypeOK
    BY SpinInvImplies, BarInvImplies
       DEF TerminalIsTidy, SpinInv, SpinTypeOK, BarInv, BarTypeOK, TerminalTypeOK
  <1> QED BY <1>1, <1>2, <1>3, PTL DEF TerminalSpec

-----------------------------------------------------------------------------
(* The event bus *)

Results == {"dropped", "handled", "failed", "lost"}

Outcomes == [message : Messages, result : Results]

QueueTypeOK ==
    /\ published \in Seq(Messages)
    /\ inbox \in [DOMAIN Subscribers -> Seq(Messages)]
    /\ outcome \in [DOMAIN Subscribers -> Seq(Outcomes)]
    /\ deadLetters \in Seq(Messages)

Sent(m) == \E k \in DOMAIN published : published[k] = m

Earlier(m, n) ==
    \E k, l \in DOMAIN published : k < l /\ published[k] = m /\ published[l] = n

\* What a subscriber took and what is on its way to it, in the order of publication.
InOrderOf(s) ==
    /\ \A i \in DOMAIN outcome[s] : Sent(outcome[s][i].message)
    /\ \A j \in DOMAIN inbox[s] : Sent(inbox[s][j])
    /\ \A i, j \in DOMAIN outcome[s] : i < j => Earlier(outcome[s][i].message, outcome[s][j].message)
    /\ \A i \in DOMAIN outcome[s], j \in DOMAIN inbox[s] : Earlier(outcome[s][i].message, inbox[s][j])
    /\ \A i, j \in DOMAIN inbox[s] : i < j => Earlier(inbox[s][i], inbox[s][j])

\* What the bus gave to a subscriber, and may not give to another of its group.
Given(s) ==
    {outcome[s][i].message : i \in DOMAIN outcome[s]} \cup {inbox[s][j] : j \in DOMAIN inbox[s]}

Failures(m) ==
    {s \in DOMAIN Subscribers :
        \E i \in DOMAIN outcome[s] : outcome[s][i] = [message |-> m, result |-> "failed"]}

Letters(m) == {i \in DOMAIN deadLetters : deadLetters[i] = m}

BusInv ==
    /\ QueueTypeOK
    /\ \A k, l \in DOMAIN published : published[k] = published[l] => k = l
    /\ \A s \in DOMAIN Subscribers : InOrderOf(s)
    /\ \A s, t \in DOMAIN Subscribers :
          (s # t /\ Subscribers[s] = Subscribers[t]) => Given(s) \cap Given(t) = {}
    /\ \A m \in Messages : Cardinality(Letters(m)) = Cardinality(Failures(m))

LEMMA PublishKeepsBus ==
  ASSUME BusInv, NEW m \in Messages, Publish(m)
  PROVE  BusInv'
  <1>1. /\ published' = Append(published, m) /\ outcome' = outcome /\ deadLetters' = deadLetters
        /\ published \in Seq(Messages) /\ ~Sent(m)
    BY DEF Publish, BusInv, QueueTypeOK, ToSet, Sent
  <1>2. PICK chosen \in [Groups -> DOMAIN Subscribers] :
           /\ \A g \in Groups : Subscribers[chosen[g]] = g
           /\ inbox' = [s \in DOMAIN Subscribers |->
                          IF s = chosen[Subscribers[s]] THEN Append(inbox[s], m) ELSE inbox[s]]
    BY DEF Publish
  <1>3. QueueTypeOK'
    BY <1>1, <1>2 DEF BusInv, QueueTypeOK
  <1>4. /\ \A n : Sent(n) => Sent(n)' /\ Earlier(n, m)'
        /\ \A n, o : Earlier(n, o) => Earlier(n, o)'
        /\ Sent(m)'
    <2>1. /\ DOMAIN published' = 1..(Len(published) + 1) /\ DOMAIN published = 1..Len(published)
          /\ Len(published) \in Nat /\ published'[Len(published) + 1] = m
          /\ \A k \in DOMAIN published : published'[k] = published[k]
      BY <1>1
    <2> QED BY <2>1 DEF Sent, Earlier
  <1>5. \A k, l \in DOMAIN published' : published'[k] = published'[l] => k = l
    BY <1>1 DEF BusInv, Sent
  <1>6. ASSUME NEW s \in DOMAIN Subscribers
        PROVE  /\ InOrderOf(s)'
               /\ Given(s)' = IF s = chosen[Subscribers[s]] THEN Given(s) \cup {m} ELSE Given(s)
               /\ m \notin Given(s)
    <2>1. /\ InOrderOf(s) /\ inbox[s] \in Seq(Messages)
          /\ outcome'[s] = outcome[s]
      BY <1>1 DEF BusInv, QueueTypeOK
    <2>2. m \notin Given(s)
      BY <2>1, <1>1 DEF Given, InOrderOf
    <2>3. CASE s = chosen[Subscribers[s]]
      <3>1. inbox'[s] = Append(inbox[s], m)
        BY <1>2, <2>3
      <3>2. /\ DOMAIN inbox'[s] = DOMAIN inbox[s] \cup {Len(inbox[s]) + 1}
            /\ DOMAIN inbox[s] = 1..Len(inbox[s]) /\ Len(inbox[s]) \in Nat
            /\ inbox'[s][Len(inbox[s]) + 1] = m
            /\ \A j \in DOMAIN inbox[s] : inbox'[s][j] = inbox[s][j]
        BY <3>1, <2>1
      <3>3. Given(s)' = Given(s) \cup {m}
        BY <3>2, <2>1 DEF Given
      <3>4. InOrderOf(s)'
        BY <3>2, <2>1, <1>4 DEF InOrderOf
      <3> QED BY <3>3, <3>4, <2>2, <2>3
    <2>4. CASE s # chosen[Subscribers[s]]
      <3>1. inbox'[s] = inbox[s]
        BY <1>2, <2>4
      <3> QED BY <3>1, <2>1, <2>2, <2>4, <1>4 DEF InOrderOf, Given
    <2> QED BY <2>3, <2>4
  <1>7. \A s, t \in DOMAIN Subscribers :
           (s # t /\ Subscribers[s] = Subscribers[t]) => Given(s)' \cap Given(t)' = {}
    BY <1>6 DEF BusInv
  <1>8. \A n \in Messages : Cardinality(Letters(n))' = Cardinality(Failures(n))'
    BY <1>1 DEF BusInv, Letters, Failures
  <1> QED BY <1>3, <1>5, <1>6, <1>7, <1>8 DEF BusInv
\* The message at the head of an inbox comes before the rest of it.
LEMMA HeadOfInbox ==
  ASSUME BusInv, NEW s \in DOMAIN Subscribers, inbox[s] # <<>>
  PROVE  /\ Head(inbox[s]) \in Messages /\ Sent(Head(inbox[s])) /\ Head(inbox[s]) \in Given(s)
         /\ Tail(inbox[s]) \in Seq(Messages)
         /\ \A j \in DOMAIN Tail(inbox[s]) :
               /\ j + 1 \in DOMAIN inbox[s] /\ Tail(inbox[s])[j] = inbox[s][j + 1]
               /\ Earlier(Head(inbox[s]), Tail(inbox[s])[j])
         /\ \A i \in DOMAIN outcome[s] : Earlier(outcome[s][i].message, Head(inbox[s]))
  <1>1. /\ inbox[s] \in Seq(Messages) /\ InOrderOf(s)
    BY DEF BusInv, QueueTypeOK
  <1>2. /\ Len(inbox[s]) \in Nat /\ Len(inbox[s]) > 0 /\ DOMAIN inbox[s] = 1..Len(inbox[s])
        /\ Head(inbox[s]) = inbox[s][1]
    BY <1>1
  <1>3. /\ Tail(inbox[s]) \in Seq(Messages) /\ DOMAIN Tail(inbox[s]) = 1..(Len(inbox[s]) - 1)
        /\ \A j \in 1..(Len(inbox[s]) - 1) : Tail(inbox[s])[j] = inbox[s][j + 1]
    BY <1>1, <1>2
  <1>4. Head(inbox[s]) \in Messages
    BY <1>1, <1>2
  <1>5. Sent(Head(inbox[s])) /\ Head(inbox[s]) \in Given(s)
    BY <1>1, <1>2 DEF InOrderOf, Given
  <1>6. \A i \in DOMAIN outcome[s] : Earlier(outcome[s][i].message, Head(inbox[s]))
    BY <1>1, <1>2 DEF InOrderOf
  <1>7. \A j \in 1..(Len(inbox[s]) - 1) : 1 \in DOMAIN inbox[s] /\ j + 1 \in DOMAIN inbox[s] /\ 1 < j + 1
    BY <1>2
  <1>8. \A j \in 1..(Len(inbox[s]) - 1) : Earlier(inbox[s][1], inbox[s][j + 1])
    BY <1>1, <1>7 DEF InOrderOf
  <1> QED BY <1>2, <1>3, <1>4, <1>5, <1>6, <1>7, <1>8

LEMMA LoseKeepsBus ==
  ASSUME BusInv, NEW s \in DOMAIN Subscribers, Lose(s)
  PROVE  BusInv'
  <1>1. /\ published' = published /\ outcome' = outcome /\ deadLetters' = deadLetters
        /\ inbox[s] # <<>> /\ inbox' = [inbox EXCEPT ![s] = Tail(@)]
        /\ inbox \in [DOMAIN Subscribers -> Seq(Messages)]
    BY DEF Lose, BusInv, QueueTypeOK
  <1>2. /\ inbox'[s] = Tail(inbox[s]) /\ Tail(inbox[s]) \in Seq(Messages)
        /\ \A t \in DOMAIN Subscribers : t # s => inbox'[t] = inbox[t]
        /\ inbox' \in [DOMAIN Subscribers -> Seq(Messages)]
    BY <1>1, HeadOfInbox
  <1>3. \A j \in DOMAIN inbox'[s] : j + 1 \in DOMAIN inbox[s] /\ inbox'[s][j] = inbox[s][j + 1]
    BY <1>1, <1>2, HeadOfInbox
  <1>4. \A i, j \in DOMAIN inbox'[s] : i < j => i + 1 < j + 1
    BY <1>2
  <1>5. \A n, o : (Sent(n)' <=> Sent(n)) /\ (Earlier(n, o)' <=> Earlier(n, o))
    BY <1>1 DEF Sent, Earlier
  <1>6. InOrderOf(s)' /\ Given(s)' \subseteq Given(s)
    <2>1. InOrderOf(s)
      BY DEF BusInv
    <2>2. \A i, j \in DOMAIN inbox'[s] : i < j => Earlier(inbox'[s][i], inbox'[s][j])
      BY <2>1, <1>3, <1>4 DEF InOrderOf
    <2>3. \A j \in DOMAIN inbox'[s] : Sent(inbox'[s][j]) /\ inbox'[s][j] \in Given(s)
      BY <2>1, <1>3 DEF InOrderOf, Given
    <2>4. \A i \in DOMAIN outcome[s], j \in DOMAIN inbox'[s] :
             Earlier(outcome[s][i].message, inbox'[s][j])
      BY <2>1, <1>3 DEF InOrderOf
    <2>5. InOrderOf(s)'
      BY <2>1, <2>2, <2>3, <2>4, <1>1, <1>5 DEF InOrderOf
    <2> QED BY <2>3, <2>5, <1>1 DEF Given
  <1>7. ASSUME NEW t \in DOMAIN Subscribers, t # s
        PROVE  InOrderOf(t)' /\ Given(t)' = Given(t)
    <2>1. InOrderOf(t) /\ inbox'[t] = inbox[t] /\ outcome'[t] = outcome[t]
      BY <1>1, <1>2, <1>7 DEF BusInv
    <2> QED BY <2>1, <1>5 DEF InOrderOf, Given
  <1>8. \A t \in DOMAIN Subscribers : InOrderOf(t)' /\ Given(t)' \subseteq Given(t)
    BY <1>6, <1>7
  <1>9. \A n \in Messages : Cardinality(Letters(n))' = Cardinality(Failures(n))'
    BY <1>1 DEF BusInv, Letters, Failures
  <1>10. \A t, u \in DOMAIN Subscribers :
           (t # u /\ Subscribers[t] = Subscribers[u]) => Given(t)' \cap Given(u)' = {}
    BY <1>8 DEF BusInv
  <1> QED BY <1>1, <1>2, <1>8, <1>9, <1>10 DEF BusInv, QueueTypeOK

\* What a subscriber takes leaves its inbox for the end of what it took, in order.
LEMMA TookKeepsOrder ==
  ASSUME BusInv, NEW s \in DOMAIN Subscribers, inbox[s] # <<>>,
         NEW result \in Results, Took(s, result)
  PROVE  /\ inbox' \in [DOMAIN Subscribers -> Seq(Messages)]
         /\ outcome' \in [DOMAIN Subscribers -> Seq(Outcomes)]
         /\ outcome'[s] = Append(outcome[s], [message |-> Head(inbox[s]), result |-> result])
         /\ \A t \in DOMAIN Subscribers : t # s => outcome'[t] = outcome[t]
         /\ \A t \in DOMAIN Subscribers : InOrderOf(t)' /\ Given(t)' \subseteq Given(t)
  <1> DEFINE entry == [message |-> Head(inbox[s]), result |-> result]
             count == Len(outcome[s])
  <1>1. /\ published' = published /\ inbox' = [inbox EXCEPT ![s] = Tail(@)]
        /\ outcome' = [outcome EXCEPT ![s] = Append(@, entry)]
        /\ inbox \in [DOMAIN Subscribers -> Seq(Messages)]
        /\ outcome \in [DOMAIN Subscribers -> Seq(Outcomes)]
    BY DEF Took, BusInv, QueueTypeOK
  <1>2. entry \in Outcomes /\ entry.message = Head(inbox[s]) /\ entry.message \in Given(s)
        /\ Sent(entry.message)
    BY HeadOfInbox DEF Outcomes
  <1> HIDE DEF entry
  <1>3. /\ inbox'[s] = Tail(inbox[s]) /\ Tail(inbox[s]) \in Seq(Messages)
        /\ outcome'[s] = Append(outcome[s], entry)
        /\ \A t \in DOMAIN Subscribers : t # s => inbox'[t] = inbox[t] /\ outcome'[t] = outcome[t]
    BY <1>1, HeadOfInbox
  <1>4. /\ inbox' \in [DOMAIN Subscribers -> Seq(Messages)]
        /\ outcome' \in [DOMAIN Subscribers -> Seq(Outcomes)]
    BY <1>1, <1>2, <1>3
  <1>5. \A j \in DOMAIN inbox'[s] : j + 1 \in DOMAIN inbox[s] /\ inbox'[s][j] = inbox[s][j + 1]
    BY <1>3, HeadOfInbox
  <1>6. \A i, j \in DOMAIN inbox'[s] : i < j => i + 1 < j + 1
    BY <1>3
  <1>7. /\ count \in Nat /\ DOMAIN outcome[s] = 1..count
        /\ DOMAIN outcome'[s] = 1..(count + 1) /\ outcome'[s][count + 1] = entry
        /\ \A i \in 1..count : outcome'[s][i] = outcome[s][i]
    <2>1. outcome[s] \in Seq(Outcomes)
      BY <1>1
    <2> QED BY <2>1, <1>2, <1>3
  <1> HIDE DEF count
  <1>8. \A n, o : (Sent(n)' <=> Sent(n)) /\ (Earlier(n, o)' <=> Earlier(n, o))
    BY <1>1 DEF Sent, Earlier
  <1>9. InOrderOf(s)' /\ Given(s)' \subseteq Given(s)
    <2>1. InOrderOf(s)
      BY DEF BusInv
    <2>2. \A i, j \in DOMAIN inbox'[s] : i < j => Earlier(inbox'[s][i], inbox'[s][j])
      BY <2>1, <1>5, <1>6 DEF InOrderOf
    <2>3. \A i \in 1..(count + 1) : i \in 1..count \/ i = count + 1
      BY <1>7
    <2>4. \A i \in DOMAIN outcome'[s] : Sent(outcome'[s][i].message) /\ outcome'[s][i].message \in Given(s)
      BY <2>1, <2>3, <1>2, <1>7 DEF InOrderOf, Given
    <2>5. \A i, j \in DOMAIN outcome'[s] :
             i < j => Earlier(outcome'[s][i].message, outcome'[s][j].message)
      <3> SUFFICES ASSUME NEW i \in 1..(count + 1), NEW j \in 1..(count + 1), i < j
                   PROVE  Earlier(outcome'[s][i].message, outcome'[s][j].message)
        BY <1>7
      <3>1. i \in 1..count
        BY <1>7
      <3>2. CASE j = count + 1
        BY <3>1, <3>2, <1>2, <1>7, HeadOfInbox
      <3>3. CASE j # count + 1
        BY <3>1, <3>3, <2>1, <2>3, <1>7 DEF InOrderOf
      <3> QED BY <3>2, <3>3
    <2>6. \A i \in DOMAIN outcome'[s], j \in DOMAIN inbox'[s] :
             Earlier(outcome'[s][i].message, inbox'[s][j])
      BY <2>1, <2>3, <1>2, <1>3, <1>5, <1>7, HeadOfInbox DEF InOrderOf
    <2>7. \A j \in DOMAIN inbox'[s] : Sent(inbox'[s][j]) /\ inbox'[s][j] \in Given(s)
      BY <2>1, <1>5 DEF InOrderOf, Given
    <2>8. InOrderOf(s)'
      BY <2>2, <2>4, <2>5, <2>6, <2>7, <1>8 DEF InOrderOf
    <2>9. Given(s)' \subseteq Given(s)
      BY <2>4, <2>7 DEF Given
    <2> QED BY <2>8, <2>9
  <1>10. ASSUME NEW t \in DOMAIN Subscribers, t # s
         PROVE  InOrderOf(t)' /\ Given(t)' = Given(t)
    <2>1. InOrderOf(t) /\ inbox'[t] = inbox[t] /\ outcome'[t] = outcome[t]
      BY <1>3, <1>10 DEF BusInv
    <2> QED BY <2>1, <1>8 DEF InOrderOf, Given
  <1> QED BY <1>3, <1>4, <1>9, <1>10 DEF entry
\* The handler of a message fails for the first time: no subscriber that took it
\* before, or that still waits for it, took it or will take it again.
LEMMA FirstFailure ==
  ASSUME BusInv, NEW s \in DOMAIN Subscribers, inbox[s] # <<>>
  PROVE  s \notin Failures(Head(inbox[s]))
  <1> SUFFICES ASSUME NEW i \in DOMAIN outcome[s],
                      outcome[s][i] = [message |-> Head(inbox[s]), result |-> "failed"]
               PROVE  FALSE
    BY DEF Failures
  <1>1. Earlier(Head(inbox[s]), Head(inbox[s]))
    BY HeadOfInbox
  <1>2. published \in Seq(Messages)
    BY DEF BusInv, QueueTypeOK
  <1> QED BY <1>1, <1>2 DEF Earlier, BusInv

\* What a subscriber took last is added to its failures exactly when it failed.
LEMMA FailuresGrow ==
  ASSUME BusInv, NEW s \in DOMAIN Subscribers, NEW entry \in Outcomes, NEW m \in Messages,
         outcome'[s] = Append(outcome[s], entry),
         \A t \in DOMAIN Subscribers : t # s => outcome'[t] = outcome[t]
  PROVE  Failures(m)' = IF entry = [message |-> m, result |-> "failed"]
                        THEN Failures(m) \cup {s} ELSE Failures(m)
  <1> DEFINE failure == [message |-> m, result |-> "failed"]
             count == Len(outcome[s])
  <1>1. /\ count \in Nat /\ DOMAIN outcome[s] = 1..count
        /\ DOMAIN outcome'[s] = 1..(count + 1) /\ outcome'[s][count + 1] = entry
        /\ \A i \in 1..count : outcome'[s][i] = outcome[s][i]
    <2>1. outcome[s] \in Seq(Outcomes)
      BY DEF BusInv, QueueTypeOK
    <2> QED BY <2>1
  <1> HIDE DEF count, failure
  <1>2. \A i \in 1..(count + 1) : i \in 1..count \/ i = count + 1
    BY <1>1
  <1>3. (\E i \in DOMAIN outcome'[s] : outcome'[s][i] = failure) <=>
           (entry = failure \/ \E i \in DOMAIN outcome[s] : outcome[s][i] = failure)
    <2>1. 1..count \subseteq 1..(count + 1) /\ count + 1 \in 1..(count + 1)
      BY <1>1
    <2> QED BY <1>1, <1>2, <2>1
  <1>4. \A t \in DOMAIN Subscribers : t # s =>
           ((\E i \in DOMAIN outcome'[t] : outcome'[t][i] = failure) <=>
            (\E i \in DOMAIN outcome[t] : outcome[t][i] = failure))
    OBVIOUS
  <1>5. /\ Failures(m) = {t \in DOMAIN Subscribers : \E i \in DOMAIN outcome[t] : outcome[t][i] = failure}
        /\ Failures(m)' = {t \in DOMAIN Subscribers : \E i \in DOMAIN outcome'[t] : outcome'[t][i] = failure}
    BY DEF Failures, failure
  <1>6. \A t \in DOMAIN Subscribers :
           t \in Failures(m)' <=> (t \in Failures(m) \/ (t = s /\ entry = failure))
    BY <1>3, <1>4, <1>5
  <1>7. Failures(m) \subseteq DOMAIN Subscribers /\ Failures(m)' \subseteq DOMAIN Subscribers
    BY <1>5
  <1> QED BY <1>6, <1>7 DEF failure

\* The parts of a step in which a subscriber takes a message that need no counting.
LEMMA TookKeepsBus ==
  ASSUME BusInv, NEW s \in DOMAIN Subscribers, inbox[s] # <<>>,
         NEW result \in Results, Took(s, result), deadLetters' \in Seq(Messages),
         \A m \in Messages : Cardinality(Letters(m))' = Cardinality(Failures(m))'
  PROVE  BusInv'
  <1>1. published' = published /\ published \in Seq(Messages)
    BY DEF Took, BusInv, QueueTypeOK
  <1>2. QueueTypeOK'
    BY <1>1, TookKeepsOrder DEF QueueTypeOK
  <1>3. \A t, u \in DOMAIN Subscribers :
           (t # u /\ Subscribers[t] = Subscribers[u]) => Given(t)' \cap Given(u)' = {}
    BY TookKeepsOrder DEF BusInv
  <1>4. \A k, l \in DOMAIN published' : published'[k] = published'[l] => k = l
    BY <1>1 DEF BusInv
  <1> QED BY <1>2, <1>3, <1>4, TookKeepsOrder DEF BusInv

LEMMA QuietKeepsBus ==
  ASSUME BusInv, NEW s \in DOMAIN Subscribers, inbox[s] # <<>>,
         NEW result \in Results \ {"failed"}, Took(s, result), deadLetters' = deadLetters
  PROVE  BusInv'
  <1> DEFINE entry == [message |-> Head(inbox[s]), result |-> result]
  <1>1. entry \in Outcomes /\ \A m \in Messages : entry # [message |-> m, result |-> "failed"]
    BY HeadOfInbox DEF Outcomes
  <1>2. \A m \in Messages : Failures(m)' = Failures(m)
    BY <1>1, TookKeepsOrder, FailuresGrow
  <1>3. \A m \in Messages : Letters(m)' = Letters(m)
    BY DEF Letters
  <1>4. \A m \in Messages : Cardinality(Letters(m))' = Cardinality(Failures(m))'
    BY <1>2, <1>3 DEF BusInv
  <1>5. deadLetters' \in Seq(Messages)
    BY DEF BusInv, QueueTypeOK
  <1> QED BY <1>4, <1>5, TookKeepsBus

LEMMA FailKeepsBus ==
  ASSUME BusInv, NEW s \in DOMAIN Subscribers, FailHandler(s, TRUE)
  PROVE  BusInv'
  <1> DEFINE head == Head(inbox[s])
             entry == [message |-> head, result |-> "failed"]
             count == Len(deadLetters)
  <1>1. inbox[s] # <<>> /\ Took(s, "failed") /\ deadLetters' = Append(deadLetters, head)
    BY DEF FailHandler
  <1>2. head \in Messages /\ entry \in Outcomes /\ "failed" \in Results
    BY <1>1, HeadOfInbox DEF Outcomes, Results
  <1>3. s \notin Failures(head)
    BY <1>1, FirstFailure
  <1>4. \A m \in Messages : Failures(m)' = IF m = head THEN Failures(m) \cup {s} ELSE Failures(m)
    <2>1. \A m : entry = [message |-> m, result |-> "failed"] <=> m = head
      OBVIOUS
    <2>2. /\ outcome'[s] = Append(outcome[s], entry)
          /\ \A t \in DOMAIN Subscribers : t # s => outcome'[t] = outcome[t]
      BY <1>1, <1>2, TookKeepsOrder
    <2> HIDE DEF entry, head
    <2> QED BY <2>1, <2>2, <1>2, FailuresGrow
  <1>5. /\ count \in Nat /\ DOMAIN deadLetters = 1..count
        /\ DOMAIN deadLetters' = 1..(count + 1) /\ deadLetters'[count + 1] = head
        /\ \A i \in 1..count : deadLetters'[i] = deadLetters[i]
        /\ deadLetters' \in Seq(Messages)
    BY <1>1, <1>2 DEF BusInv, QueueTypeOK
  <1> HIDE DEF head, count, entry
  <1>6. \A m \in Messages : Letters(m)' = IF m = head THEN Letters(m) \cup {count + 1} ELSE Letters(m)
    <2>1. \A i : i \in 1..(count + 1) <=> (i \in 1..count \/ i = count + 1)
      BY <1>5
    <2>2. 1..(count + 1) = 1..count \cup {count + 1}
      BY <2>1
    <2> QED BY <1>5, <2>1, <2>2 DEF Letters
  <1>7. ASSUME NEW m \in Messages
        PROVE  /\ IsFiniteSet(Letters(m)) /\ IsFiniteSet(Failures(m))
               /\ count + 1 \notin Letters(m)
    <2>1. IsFiniteSet(1..count)
      BY <1>5, FS_Interval
    <2>2. Letters(m) \subseteq 1..count /\ Failures(m) \subseteq DOMAIN Subscribers
      BY <1>5 DEF Letters, Failures
    <2>3. count + 1 \notin 1..count
      BY <1>5
    <2> QED BY <2>1, <2>2, <2>3, FS_Subset, SubscribersAssumption
  <1>8. ASSUME NEW m \in Messages
        PROVE  Cardinality(Letters(m))' = Cardinality(Failures(m))'
    <2>1. Cardinality(Letters(m)) = Cardinality(Failures(m))
      BY DEF BusInv
    <2>2. CASE m = head
      <3>1. Cardinality(Letters(m) \cup {count + 1}) = Cardinality(Letters(m)) + 1
        BY <1>7, FS_AddElement
      <3>2. Cardinality(Failures(m) \cup {s}) = Cardinality(Failures(m)) + 1
        BY <1>3, <1>7, <2>2, FS_AddElement
      <3> QED BY <3>1, <3>2, <2>1, <2>2, <1>4, <1>6
    <2>3. CASE m # head
      BY <2>1, <2>3, <1>4, <1>6
    <2> QED BY <2>2, <2>3
  <1> QED BY <1>1, <1>2, <1>5, <1>8, TookKeepsBus

LEMMA BusInvStep ==
  ASSUME BusInv, [BusNext]_busVars
  PROVE  BusInv'
  <1>1. ASSUME NEW m \in Messages, Publish(m) PROVE BusInv'
    BY <1>1, PublishKeepsBus
  <1>2. ASSUME NEW s \in DOMAIN Subscribers, Lose(s) PROVE BusInv'
    BY <1>2, LoseKeepsBus
  <1>3. ASSUME NEW s \in DOMAIN Subscribers, Undecodable(s) PROVE BusInv'
    <2>1. "dropped" \in Results \ {"failed"}
      BY DEF Results
    <2> QED BY <1>3, <2>1, QuietKeepsBus DEF Undecodable
  <1>4. ASSUME NEW s \in DOMAIN Subscribers, Handle(s) PROVE BusInv'
    <2>1. "handled" \in Results \ {"failed"}
      BY DEF Results
    <2> QED BY <1>4, <2>1, QuietKeepsBus DEF Handle
  <1>5. ASSUME NEW s \in DOMAIN Subscribers, FailHandler(s, FALSE) PROVE BusInv'
    <2>1. "lost" \in Results \ {"failed"}
      BY DEF Results
    <2> QED BY <1>5, <2>1, QuietKeepsBus DEF FailHandler
  <1>6. CASE UNCHANGED busVars
    <2>1. /\ published' = published /\ inbox' = inbox
          /\ outcome' = outcome /\ deadLetters' = deadLetters
      BY <1>6 DEF busVars
    <2>2. \A s \in DOMAIN Subscribers : InOrderOf(s)' /\ Given(s)' = Given(s)
      BY <2>1 DEF BusInv, InOrderOf, Given, Sent, Earlier
    <2>3. \A m \in Messages : Cardinality(Letters(m))' = Cardinality(Failures(m))'
      BY <2>1 DEF BusInv, Letters, Failures
    <2> QED BY <2>1, <2>2, <2>3 DEF BusInv, QueueTypeOK
  <1> QED BY <1>1, <1>2, <1>3, <1>4, <1>5, <1>6, FailKeepsBus DEF BusNext

LEMMA BusInvImplies ==
  ASSUME BusInv
  PROVE  EachTakenOnce /\ BusTypeOK
  <1>1. ASSUME NEW s \in DOMAIN Subscribers
        PROVE  /\ ToSet(Taken(s)) \subseteq Given(s)
               /\ KeepsOrder(Taken(s) \o inbox[s], published)
               /\ ToSet(inbox[s]) \subseteq ToSet(published)
               /\ \A i \in DOMAIN outcome[s] : outcome[s][i].result \in Results
    <2> DEFINE count == Len(outcome[s])
               rest == Len(inbox[s])
               all == Taken(s) \o inbox[s]
    <2>1. InOrderOf(s) /\ outcome[s] \in Seq(Outcomes) /\ inbox[s] \in Seq(Messages)
      BY DEF BusInv, QueueTypeOK
    <2>2. \A x \in Outcomes : x.message \in Messages /\ x.result \in Results
      BY DEF Outcomes
    <2>3. /\ \A i \in DOMAIN outcome[s] : outcome[s][i] \in Outcomes
          /\ DOMAIN outcome[s] = 1..count /\ DOMAIN inbox[s] = 1..rest
          /\ count \in Nat /\ rest \in Nat
      BY <2>1
    <2> HIDE DEF count, rest
    <2>4. Taken(s) = [i \in 1..count |-> outcome[s][i].message]
      BY <2>3 DEF Taken
    <2>5. Taken(s) \in [1..count -> Messages]
      BY <2>2, <2>3, <2>4
    <2>6. /\ Taken(s) \in Seq(Messages) /\ Len(Taken(s)) = count
          /\ \A i \in 1..count : Taken(s)[i] = outcome[s][i].message
          /\ DOMAIN Taken(s) = 1..count /\ DOMAIN outcome[s] = 1..count /\ DOMAIN inbox[s] = 1..rest
          /\ count \in Nat /\ rest \in Nat /\ rest = Len(inbox[s])
      <3>1. Taken(s) \in Seq(Messages)
        BY <2>5, <2>3, SeqDef
      <3>2. DOMAIN Taken(s) = 1..count
        BY <2>4
      <3>3. Len(Taken(s)) = count
        BY <3>1, <3>2, <2>3, LenProperties
      <3> QED BY <3>1, <3>2, <3>3, <2>3, <2>4 DEF rest
    <2>7. /\ DOMAIN all = 1..(count + rest)
          /\ \A i \in 1..count : all[i] = outcome[s][i].message
          /\ \A i \in (count + 1)..(count + rest) : i - count \in 1..rest /\ all[i] = inbox[s][i - count]
      <3>1. /\ DOMAIN all = 1..(Len(Taken(s)) + Len(inbox[s]))
            /\ \A i \in 1..(Len(Taken(s)) + Len(inbox[s])) :
                  all[i] = IF i <= Len(Taken(s)) THEN Taken(s)[i] ELSE inbox[s][i - Len(Taken(s))]
        <4>1. /\ all \in Seq(Messages) /\ Len(all) = Len(Taken(s)) + Len(inbox[s])
              /\ \A i \in 1..(Len(Taken(s)) + Len(inbox[s])) :
                    all[i] = IF i <= Len(Taken(s)) THEN Taken(s)[i] ELSE inbox[s][i - Len(Taken(s))]
          BY <2>1, <2>6, ConcatProperties
        <4> HIDE DEF all
        <4> QED BY <4>1, LenProperties
      <3>2. \A i \in 1..count : i \in 1..(count + rest) /\ i <= count
        BY <2>6
      <3>3. \A i \in (count + 1)..(count + rest) :
               i \in 1..(count + rest) /\ ~(i <= count) /\ i - count \in 1..rest
        BY <2>6
      <3> HIDE DEF all
      <3> QED BY <3>1, <3>2, <3>3, <2>6
    <2> HIDE DEF all
    <2>8. \A i, j \in DOMAIN all : i < j => Earlier(all[i], all[j])
      <3> SUFFICES ASSUME NEW i \in 1..(count + rest), NEW j \in 1..(count + rest), i < j
                   PROVE  Earlier(all[i], all[j])
        BY <2>7
      <3>1. CASE j <= count
        <4>1. i \in 1..count /\ j \in 1..count
          BY <3>1, <2>6
        <4>2. all[i] = outcome[s][i].message /\ all[j] = outcome[s][j].message
          BY <4>1, <2>7
        <4>3. Earlier(outcome[s][i].message, outcome[s][j].message)
          BY <4>1, <2>1, <2>3 DEF InOrderOf
        <4> QED BY <4>2, <4>3
      <3>2. CASE i <= count /\ ~(j <= count)
        <4>1. i \in 1..count /\ j \in (count + 1)..(count + rest)
          BY <3>2, <2>6
        <4>2. j - count \in 1..rest /\ all[j] = inbox[s][j - count] /\ all[i] = outcome[s][i].message
          BY <4>1, <2>7
        <4> QED BY <4>1, <4>2, <2>1, <2>6 DEF InOrderOf
      <3>3. CASE ~(i <= count)
        <4>1. /\ i \in (count + 1)..(count + rest) /\ j \in (count + 1)..(count + rest)
              /\ i - count < j - count
          BY <3>3, <2>6
        <4>2. /\ i - count \in 1..rest /\ all[i] = inbox[s][i - count]
              /\ j - count \in 1..rest /\ all[j] = inbox[s][j - count]
          BY <4>1, <2>7
        <4> QED BY <4>1, <4>2, <2>1, <2>6 DEF InOrderOf
      <3> QED BY <3>1, <3>2, <3>3
    <2>9. KeepsOrder(all, published)
      BY <2>8 DEF KeepsOrder, Earlier
    <2>10. ToSet(Taken(s)) \subseteq Given(s)
      BY <2>6 DEF ToSet, Given
    <2>11. ToSet(inbox[s]) \subseteq ToSet(published)
      BY <2>1 DEF ToSet, InOrderOf, Sent
    <2>12. \A i \in DOMAIN outcome[s] : outcome[s][i].result \in Results
      BY <2>2, <2>3
    <2> QED BY <2>9, <2>10, <2>11, <2>12 DEF all
  <1>2. EachTakenOnce
    <2>1. \A s, t \in DOMAIN Subscribers :
             (s # t /\ Subscribers[s] = Subscribers[t]) =>
                 ToSet(Taken(s)) \cap ToSet(Taken(t)) = {}
      BY <1>1 DEF BusInv
    <2>2. \A m \in Messages : Cardinality(Letters(m)) = Cardinality(Failures(m))
      BY DEF BusInv
    <2> QED BY <2>1, <2>2, <1>1 DEF EachTakenOnce, Letters, Failures
  <1>3. ToSet(published) \subseteq Messages
    BY DEF ToSet, BusInv, QueueTypeOK
  <1> QED BY <1>1, <1>2, <1>3 DEF BusTypeOK, Results

\* Whatever is lost, and however many subscribers and groups there are: the members
\* of a group share the messages without taking one twice and each in the order of
\* publication (events/bus.go:18), and the dead letters are the failures that were
\* not lost on the way (events/subscriber.go:31).
THEOREM BusTakesOnce == BusSpec => []EachTakenOnce /\ []BusTypeOK
  <1>1. BusInit => BusInv
    <2> SUFFICES ASSUME BusInit PROVE BusInv
      OBVIOUS
    <2>1. /\ published = <<>> /\ deadLetters = <<>>
          /\ inbox = [s \in DOMAIN Subscribers |-> <<>>]
          /\ outcome = [s \in DOMAIN Subscribers |-> <<>>]
      BY DEF BusInit
    <2>2. QueueTypeOK
      BY <2>1 DEF QueueTypeOK
    <2>3. \A m \in Messages : Letters(m) = {} /\ Failures(m) = {}
      BY <2>1 DEF Letters, Failures
    <2>4. \A s \in DOMAIN Subscribers : InOrderOf(s) /\ Given(s) = {}
      BY <2>1 DEF InOrderOf, Given
    <2>5. \A m \in Messages : Cardinality(Letters(m)) = Cardinality(Failures(m))
      BY <2>3
    <2>6. \A k, l \in DOMAIN published : published[k] = published[l] => k = l
      BY <2>1
    <2> QED BY <2>2, <2>4, <2>5, <2>6 DEF BusInv
  <1>2. BusInv /\ [BusNext]_busVars => BusInv'
    BY BusInvStep
  <1>3. BusInv => EachTakenOnce /\ BusTypeOK
    BY BusInvImplies
  <1> QED BY <1>1, <1>2, <1>3, PTL DEF BusSpec
=============================================================================

----------------------------- MODULE LedgerFile -----------------------------
(***************************************************************************)
(* The ledger file under `infractl notify` runs that may overlap: nothing  *)
(* in the program stops a scheduled run and a person's run from working on *)
(* the same path at once. A run loads the file, delivers what is new, and  *)
(* then writes <path>.tmp and renames it. The unit here is the line, one   *)
(* opening of one finding; NotifyRun has what happens inside a record.     *)
(* Lines are taken to be of one length, so that two writers of one inode   *)
(* overwrite whole lines of each other.                                    *)
(***************************************************************************)
EXTENDS Integers, Sequences, FiniteSets

CONSTANTS
    Runs,       \* processes running `infractl notify` on one ledger path
    Openings    \* openings of findings, ordered as their fingerprints are

\* Zero is kept for a line that is none.
ASSUME OpeningsAssumption == Openings \subseteq Nat \ {0} /\ IsFiniteSet(Openings)

ASSUME RunsAssumption == IsFiniteSet(Runs)

None == 0

\* What a reader finds where a line was cut short, or never written.
Torn == 0

\* One inode for the ledger, one for the temporary file or for each run that
\* still has an unlinked one open.
Inodes == 1..(Cardinality(Runs) + 1)

VARIABLES
    content,    \* inode -> its lines
    ledgerAt,   \* the inode the ledger path names, or None
    tmpAt,      \* the inode <path>.tmp names, or None
    pc,         \* where each run is
    ledger,     \* its ledger in memory
    todo,       \* openings it has yet to deliver
    fd,         \* the inode it is writing, or None
    off,        \* how many lines it has written
    sent,       \* history: openings that were announced
    saved,      \* history: the ledger of the run that renamed last
    overlap     \* history: which overlaps there have been, if any

files  == <<content, ledgerAt, tmpAt>>
memory == <<pc, ledger, todo, fd, off>>
vars   == <<files, memory, sent, saved, overlap>>

Lines(c) == {c[i] : i \in DOMAIN c}

\* Every line unmarshals.
Parses(c) == Torn \notin Lines(c)

\* LoadLedger reads a missing file as an empty ledger.
OnFile == IF ledgerAt = None THEN <<>> ELSE content[ledgerAt]

TypeOK ==
    /\ content \in [Inodes -> Seq(Openings \cup {Torn})]
    /\ ledgerAt \in Inodes \cup {None}
    /\ tmpAt \in Inodes \cup {None}
    /\ pc \in [Runs -> {"idle", "delivering", "writing"}]
    /\ ledger \in [Runs -> SUBSET Openings]
    /\ todo \in [Runs -> SUBSET Openings]
    /\ fd \in [Runs -> Inodes \cup {None}]
    /\ off \in [Runs -> Nat]
    /\ sent \in SUBSET Openings
    /\ saved \in SUBSET Openings
    /\ overlap \in SUBSET {"runs", "saves"}

Init ==
    /\ content = [i \in Inodes |-> <<>>]
    /\ ledgerAt = None
    /\ tmpAt = None
    /\ pc = [r \in Runs |-> "idle"]
    /\ ledger = [r \in Runs |-> {}]
    /\ todo = [r \in Runs |-> {}]
    /\ fd = [r \in Runs |-> None]
    /\ off = [r \in Runs |-> 0]
    /\ sent = {}
    /\ saved = {}
    /\ overlap = {}

\* The process is gone: what it held in memory and its descriptor with it.
End(r) ==
    /\ pc' = [pc EXCEPT ![r] = "idle"]
    /\ ledger' = [ledger EXCEPT ![r] = {}]
    /\ todo' = [todo EXCEPT ![r] = {}]
    /\ fd' = [fd EXCEPT ![r] = None]
    /\ off' = [off EXCEPT ![r] = 0]

-----------------------------------------------------------------------------

\* Faulty variants: a line that does not parse is taken for an entry; the
\* ledger is rebuilt from the scan alone.
LoadTakesTorn(r, seen) ==
    /\ pc[r] = "idle"
    /\ pc' = [pc EXCEPT ![r] = "delivering"]
    /\ ledger' = [ledger EXCEPT ![r] = Lines(OnFile) \cup seen]
    /\ todo' = [todo EXCEPT ![r] = seen \ Lines(OnFile)]
    /\ overlap' = IF \E q \in Runs \ {r} : pc[q] # "idle"
                  THEN overlap \cup {"runs"} ELSE overlap
    /\ UNCHANGED <<files, fd, off, sent, saved>>

LoadForgets(r, seen) ==
    /\ pc[r] = "idle"
    /\ Parses(OnFile)
    /\ pc' = [pc EXCEPT ![r] = "delivering"]
    /\ ledger' = [ledger EXCEPT ![r] = seen]
    /\ todo' = [todo EXCEPT ![r] = seen \ Lines(OnFile)]
    /\ overlap' = IF \E q \in Runs \ {r} : pc[q] # "idle"
                  THEN overlap \cup {"runs"} ELSE overlap
    /\ UNCHANGED <<files, fd, off, sent, saved>>

\* LoadLedger and Reconcile: the run adds the openings its scan has seen, and
\* the ones that are not on file are to be delivered. A file that does not
\* parse is an error, and the run is over before it did anything.
Load(r, seen) ==
    /\ pc[r] = "idle"
    /\ Parses(OnFile)
    /\ pc' = [pc EXCEPT ![r] = "delivering"]
    /\ ledger' = [ledger EXCEPT ![r] = Lines(OnFile) \cup seen]
    /\ todo' = [todo EXCEPT ![r] = seen \ Lines(OnFile)]
    /\ overlap' = IF \E q \in Runs \ {r} : pc[q] # "idle"
                  THEN overlap \cup {"runs"} ELSE overlap
    /\ UNCHANGED <<files, fd, off, sent, saved>>

Deliver(r, o) ==
    /\ pc[r] = "delivering"
    /\ o \in todo[r]
    /\ todo' = [todo EXCEPT ![r] = @ \ {o}]
    /\ sent' = sent \cup {o}
    /\ UNCHANGED <<files, pc, ledger, fd, off, saved, overlap>>

\* The send fails, before or after the message got through.
DeliveryFails(r, o) ==
    /\ pc[r] = "delivering"
    /\ o \in todo[r]
    /\ \/ sent' = sent
       \/ sent' = sent \cup {o}
    /\ End(r)
    /\ UNCHANGED <<files, saved, overlap>>

Unused == {i \in Inodes : i # ledgerAt /\ \A r \in Runs : fd[r] # i}

\* Opening the temporary file gives the inode the name has, or a new one.
Opened(i) == IF tmpAt = None THEN i \in Unused ELSE i = tmpAt

NoteSaving(r) ==
    overlap' = IF \E q \in Runs \ {r} : pc[q] = "writing"
               THEN overlap \cup {"saves"} ELSE overlap

\* Faulty variants: the temporary file is opened before the deliveries are
\* done; it is opened without being truncated.
OpenTmpEarly(r, i) ==
    /\ pc[r] = "delivering"
    /\ Opened(i)
    /\ tmpAt' = i
    /\ content' = [content EXCEPT ![i] = <<>>]
    /\ pc' = [pc EXCEPT ![r] = "writing"]
    /\ fd' = [fd EXCEPT ![r] = i]
    /\ NoteSaving(r)
    /\ UNCHANGED <<ledgerAt, ledger, todo, off, sent, saved>>

OpenTmpKeepsBytes(r, i) ==
    /\ pc[r] = "delivering"
    /\ todo[r] = {}
    /\ Opened(i)
    /\ tmpAt' = i
    /\ content' = [content EXCEPT ![i] = IF tmpAt = None THEN <<>> ELSE @]
    /\ pc' = [pc EXCEPT ![r] = "writing"]
    /\ fd' = [fd EXCEPT ![r] = i]
    /\ NoteSaving(r)
    /\ UNCHANGED <<ledgerAt, ledger, todo, off, sent, saved>>

\* Every group was delivered: Save creates or truncates the temporary file.
OpenTmp(r, i) ==
    /\ pc[r] = "delivering"
    /\ todo[r] = {}
    /\ Opened(i)
    /\ tmpAt' = i
    /\ content' = [content EXCEPT ![i] = <<>>]
    /\ pc' = [pc EXCEPT ![r] = "writing"]
    /\ fd' = [fd EXCEPT ![r] = i]
    /\ NoteSaving(r)
    /\ UNCHANGED <<ledgerAt, ledger, todo, off, sent, saved>>

\* c with line l at position k. Truncated under the writer, the file has a
\* hole before it.
Overwrite(c, k, l) ==
    [i \in 1..(IF k > Len(c) THEN k ELSE Len(c)) |->
        IF i = k THEN l ELSE IF i <= Len(c) THEN c[i] ELSE Torn]

\* How many lines come before l when the lines of S are in order.
Rank(S, l) == Cardinality({o \in S : o < l})

\* l is the next line of the run's buffer: the off lines before it are written.
NextLine(r, l) == l \in ledger[r] /\ Rank(ledger[r], l) = off[r]

WriteLine(r, l) ==
    /\ pc[r] = "writing"
    /\ NextLine(r, l)
    /\ content' = [content EXCEPT ![fd[r]] = Overwrite(@, off[r] + 1, l)]
    /\ off' = [off EXCEPT ![r] = @ + 1]
    /\ UNCHANGED <<ledgerAt, tmpAt, pc, ledger, todo, fd, sent, saved, overlap>>

\* The buffer is written and closed, and whatever the temporary name names by
\* now becomes the ledger. If the name is gone the run ends in an error.
Rename(r) ==
    /\ pc[r] = "writing"
    /\ off[r] = Cardinality(ledger[r])
    /\ IF tmpAt = None
       THEN UNCHANGED <<ledgerAt, tmpAt, saved>>
       ELSE /\ ledgerAt' = tmpAt
            /\ tmpAt' = None
            /\ saved' = ledger[r]
    /\ End(r)
    /\ UNCHANGED <<content, sent, overlap>>

\* The process is killed, or the disk fills, between lines or inside one. The
\* temporary file stays where it is.
Die(r) ==
    /\ pc[r] # "idle"
    /\ \/ UNCHANGED content
       \/ /\ pc[r] = "writing"
          /\ off[r] < Cardinality(ledger[r])
          /\ content' = [content EXCEPT ![fd[r]] = Overwrite(@, off[r] + 1, Torn)]
    /\ End(r)
    /\ UNCHANGED <<ledgerAt, tmpAt, sent, saved, overlap>>

Next ==
    \E r \in Runs :
        \/ \E seen \in SUBSET Openings : Load(r, seen)
        \/ \E o \in Openings : Deliver(r, o) \/ DeliveryFails(r, o)
        \/ \E i \in Inodes : OpenTmp(r, i)
        \/ \E l \in Openings : WriteLine(r, l)
        \/ Rename(r)
        \/ Die(r)

Spec == Init /\ [][Next]_vars

-----------------------------------------------------------------------------

\* Nothing is on file that was not announced, whatever overlaps, tears or is
\* lost: a run saves only what it loaded or delivered itself (runNotify), and a
\* torn file can only have fewer lines.
RecordedWasSent == Lines(OnFile) \ {Torn} \subseteq sent

\* The ledger file is exactly what the run that put it there meant to write.
Whole ==
    ledgerAt # None =>
        /\ Lines(OnFile) = saved
        /\ Len(OnFile) = Cardinality(saved)

\* "an interrupted write cannot leave a truncated ledger that the next run
\* would reject" (Save) holds, deaths in the middle of a write included, as
\* long as no two saves have overlapped.
WholeUnlessSavesOverlap == "saves" \notin overlap => Whole

\* The same comment, taken to hold with no condition: once nobody is writing,
\* the ledger is whole, whichever writes were interrupted.
InterruptedWriteIsHarmless ==
    (\A r \in Runs : pc[r] # "writing") => Whole

\* Runs that do not overlap never take a line off the file: a finding is not
\* announced as new a second time because its record was lost.
RemembersUnlessRunsOverlap ==
    [][overlap' = {} => Lines(OnFile) \subseteq Lines(OnFile')]_vars

-----------------------------------------------------------------------------
(* Why they hold *)

\* What a run holds in memory is announced or still to be delivered, and every
\* line of every inode was in some run's memory.
OnlyTold ==
    /\ \A r \in Runs :
          /\ ledger[r] \ todo[r] \subseteq sent
          /\ pc[r] = "writing" => todo[r] = {}
    /\ \A i \in Inodes : Lines(content[i]) \ {Torn} \subseteq sent

\* The descriptors: only a writer has one, and the temporary name never names
\* the ledger.
Descriptors ==
    /\ tmpAt # None => tmpAt # ledgerAt
    /\ \A r \in Runs :
          IF pc[r] = "writing"
          THEN fd[r] # None /\ off[r] <= Cardinality(ledger[r])
          ELSE fd[r] = None /\ off[r] = 0

Written(r) == {o \in ledger[r] : Rank(ledger[r], o) < off[r]}

\* Without overlapping saves there is one writer, it owns the temporary file,
\* and the file holds the part of its buffer it has written.
SoleWriter ==
    /\ \A r, q \in Runs : pc[r] = "writing" /\ pc[q] = "writing" => r = q
    /\ \A r \in Runs :
          pc[r] = "writing" =>
            /\ fd[r] = tmpAt
            /\ Len(content[tmpAt]) = off[r]
            /\ Lines(content[tmpAt]) = Written(r)
    /\ Whole

\* Without overlapping runs, the one run in flight still has everything that
\* is on file.
SoleRun ==
    /\ \A r, q \in Runs : pc[r] # "idle" /\ pc[q] # "idle" => r = q
    /\ \A r \in Runs : pc[r] # "idle" => Lines(OnFile) \subseteq ledger[r]

FileInv ==
    /\ TypeOK
    /\ OnlyTold
    /\ Descriptors
    /\ "saves" \notin overlap => SoleWriter
    /\ overlap = {} => SoleRun

=============================================================================

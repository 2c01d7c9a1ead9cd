----------------------------- MODULE LiveSnapshot -----------------------------
(***************************************************************************)
(* `infractl snapshot from-plan` writes live.json, and the commands that   *)
(* need it read it: cli/snapshot.go, terraform/priorstate.go and           *)
(* readLiveSnapshot. Nothing locks the file. A file is read and, when a    *)
(* write is cut short, written in two parts, [head, tail]: each belongs to *)
(* a snapshot, or is Nil past the end. A snapshot is [by, at, resources].  *)
(***************************************************************************)
EXTENDS Naturals, FiniteSets, Nothing

CONSTANTS
    Capturers,      \* runs of snapshot from-plan
    Readers,        \* commands that read the file
    InitialFiles,   \* what may be there before
    MaxClock        \* bound on time

Captured == [by : Capturers \cup {Nil}, at : Nat \cup {Nil}, resources : BOOLEAN]

LiveFiles == [head : Captured \cup {Nil}, tail : Captured \cup {Nil}]

Empty == [head |-> Nil, tail |-> Nil]

ASSUME NoSnapshotAssumption == Nil \notin Captured \cup LiveFiles

\* What was there before is one snapshot, or nothing that counts.
ASSUME FilesAssumption ==
    \A f \in InitialFiles \ {Nil, Empty} :
        f \in LiveFiles /\ f.head = f.tail /\ f.head # Nil /\ f.head.by = Nil

VARIABLES
    liveFile,   \* live.json, or Nil
    capture,    \* capturer |-> [phase, generated, keep, snapshot]
    temps,      \* the capturers whose temporary directory is there
    reader,     \* reader |-> [phase, head, loaded]: loaded is Nil after an error
    clock,
    before,     \* history: what live.json was at first
    disturbed   \* history: the readers a write came in the way of

snapshotVars == <<liveFile, capture, temps, reader, clock, before, disturbed>>

Idle == [phase |-> "idle", generated |-> FALSE, keep |-> FALSE, snapshot |-> Nil]

SnapshotInit ==
    /\ liveFile \in InitialFiles /\ before = liveFile
    /\ capture = [c \in Capturers |-> Idle]
    /\ temps = {}
    /\ reader = [r \in Readers |-> [phase |-> "idle", head |-> Nil, loaded |-> Nil]]
    /\ clock = 0
    /\ disturbed = {}

\* The deferred cleanup, which --keep-plan turns off.
Cleanup(c) == temps' = IF capture[c].keep THEN temps ELSE temps \ {c}

\* With a plan at hand, or by running Terraform in a temporary directory.
StartCapture(c) ==
    /\ capture[c].phase = "idle"
    /\ \E generated, keep \in BOOLEAN :
          /\ keep => generated
          /\ capture' = [capture EXCEPT ![c] =
                [Idle EXCEPT !.phase = IF generated THEN "planning" ELSE "planned",
                             !.generated = generated, !.keep = keep]]
          /\ temps' = IF generated THEN temps \cup {c} ELSE temps
    /\ UNCHANGED <<liveFile, reader, clock, before, disturbed>>

\* terraform plan and terraform show, and the JSON written for the next step.
GeneratePlan(c) ==
    /\ capture[c].phase = "planning"
    /\ capture' = [capture EXCEPT ![c].phase = "planned"]
    /\ UNCHANGED <<liveFile, temps, reader, clock, before, disturbed>>

\* ExtractPriorState: the managed resources of every module.
Extract(c) ==
    /\ capture[c].phase = "planned"
    /\ capture' = [capture EXCEPT ![c].phase = "extracted",
                                  ![c].snapshot = [by |-> c, at |-> clock, resources |-> TRUE]]
    /\ UNCHANGED <<liveFile, temps, reader, clock, before, disturbed>>

\* Faulty variant: what Terraform left behind stays when the command fails.
LeaveOnFailure(c) ==
    /\ capture[c].phase \in {"idle", "planning", "planned", "extracted"}
    /\ capture' = [capture EXCEPT ![c].phase = "failed"]
    /\ UNCHANGED <<liveFile, temps, reader, clock, before, disturbed>>

\* No plan file, no Terraform, or one that fails; a plan that is not one, or with
\* no prior state in it; a directory that cannot be made. live.json is not touched.
CaptureFails(c) ==
    /\ capture[c].phase \in {"idle", "planning", "planned", "extracted"}
    /\ capture' = [capture EXCEPT ![c].phase = "failed"]
    /\ Cleanup(c)
    /\ UNCHANGED <<liveFile, reader, clock, before, disturbed>>

\* The readers between their reads, and everyone when two captures write at once.
Disturbs(c) ==
    IF \E d \in Capturers \ {c} : capture[d].phase = "writing" THEN Readers
    ELSE {r \in Readers : reader[r].phase = "reading"}

\* os.WriteFile empties the file first.
OpenSnapshot(c) ==
    /\ capture[c].phase = "extracted"
    /\ capture' = [capture EXCEPT ![c].phase = "writing"]
    /\ liveFile' = Empty
    /\ disturbed' = disturbed \cup Disturbs(c)
    /\ UNCHANGED <<temps, reader, clock, before>>

\* What a longer file had before is past the end of the value, and not read.
WriteSnapshot(c) ==
    /\ capture[c].phase = "writing"
    /\ capture' = [capture EXCEPT ![c].phase = "done"]
    /\ liveFile' = [head |-> capture[c].snapshot, tail |-> capture[c].snapshot]
    /\ disturbed' = disturbed \cup Disturbs(c)
    /\ Cleanup(c)
    /\ UNCHANGED <<reader, clock, before>>

\* The disk is full, or the command is killed, before or during the write.
WriteCutShort(c) ==
    /\ capture[c].phase = "writing"
    /\ liveFile' \in {liveFile, [liveFile EXCEPT !.head = capture[c].snapshot]}
    /\ disturbed' = disturbed \cup Disturbs(c)
    /\ \/ capture' = [capture EXCEPT ![c].phase = "cut"] /\ Cleanup(c)
       \/ capture' = [capture EXCEPT ![c].phase = "cut and killed"] /\ UNCHANGED temps
    /\ UNCHANGED <<reader, clock, before>>

\* Killed before it wrote anything: nothing is cleaned up.
Kill(c) ==
    /\ capture[c].phase \in {"planning", "planned", "extracted"}
    /\ capture' = [capture EXCEPT ![c].phase = "killed"]
    /\ UNCHANGED <<liveFile, temps, reader, clock, before, disturbed>>

\* readLiveSnapshot opens the file and reads on until it has a value.
ReadHead(r) ==
    /\ reader[r].phase = "opening"
    /\ reader' = [reader EXCEPT ![r] =
          IF liveFile = Nil THEN [@ EXCEPT !.phase = "absent"]
          ELSE [@ EXCEPT !.phase = "reading", !.head = liveFile.head]]
    /\ disturbed' = IF \E c \in Capturers : capture[c].phase = "writing"
                    THEN disturbed \cup {r} ELSE disturbed
    /\ UNCHANGED <<liveFile, capture, temps, clock, before>>

\* "resources" must be there.
Usable(snapshot) == snapshot.resources

\* A value that ends too early is an error; one half of this and one of that may
\* be, or may be a value that nobody wrote.
ReadTail(r) ==
    /\ reader[r].phase = "reading"
    /\ LET head == reader[r].head
           tail == liveFile.tail
           values == IF head = Nil \/ tail = Nil THEN {Nil}
                     ELSE IF head = tail THEN {head}
                     ELSE {Nil, [by |-> Nil, at |-> head.at, resources |-> TRUE]}
       IN  \E v \in values :
              reader' = [reader EXCEPT ![r].phase = "read",
                            ![r].loaded = IF v = Nil THEN Nil
                                          ELSE IF Usable(v) THEN v ELSE Nil]
    /\ UNCHANGED <<liveFile, capture, temps, clock, before, disturbed>>

Tick ==
    /\ clock < MaxClock
    /\ clock' = clock + 1
    /\ UNCHANGED <<liveFile, capture, temps, reader, before, disturbed>>

-----------------------------------------------------------------------------
(* Properties *)

UsableFiles == {f \in InitialFiles \ {Nil, Empty} : f.tail.resources}

\* What is loaded was captured whole, and before: a command that no write came in
\* the way of either has the snapshot of a capture that finished, or of before
\* the captures, or fails because a capture was cut short after it had emptied
\* the file, or because there was nothing usable to begin with. A capture that
\* fails on the way there leaves the last snapshot in place.
LoadedWasWhole ==
    \A r \in Readers \ disturbed : reader[r].phase = "read" =>
        LET got == reader[r].loaded IN
        IF got = Nil
        THEN \/ \E c \in Capturers : capture[c].phase \in {"cut", "cut and killed"}
             \/ before \notin UsableFiles
        ELSE \/ got.by \in Capturers /\ capture[got.by].phase = "done"
             \/ before = [head |-> got, tail |-> got] /\ before \in UsableFiles

\* A capture that returns, well or not, leaves no plan of the infrastructure in
\* the temporary directory, unless it was asked to; one that is killed does.
PlansAreRemoved ==
    \A c \in temps :
        \/ capture[c].keep
        \/ capture[c].phase \notin {"idle", "failed", "done", "cut"}

\* What a command that takes a snapshot may never leave behind.
SnapshotsAreSafe == LoadedWasWhole /\ PlansAreRemoved
=============================================================================

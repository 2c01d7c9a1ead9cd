----------------------------- MODULE MCNotifyRun -----------------------------
(***************************************************************************)
(* Small instances of NotifyRun for TLC.                                   *)
(***************************************************************************)
EXTENDS NotifyRun

\* A bucket whose public-access block drifts, then drifts further (a second
\* path, hence a second fingerprint), and a database missing from the
\* snapshot.
Bucket == [address |-> "bucket", kind |-> "modified", paths |-> {"acl"},
           severity |-> "critical", dimension |-> "security"]
BucketWorse == [Bucket EXCEPT !.paths = {"acl", "tags"}]
Database == [address |-> "db", kind |-> "missing_in_live", paths |-> {},
             severity |-> "high", dimension |-> "reliability"]

TwoResources == {Bucket, Database}
OneResource == {Bucket, BucketWorse}
OneFinding == {Bucket}

\* The addresses a rule may cover.
BucketOnly == {"bucket"}

\* Runs with a sink that save what they did, and previews that do neither.
Delivering == {[sink |-> TRUE, save |-> TRUE], [sink |-> FALSE, save |-> FALSE]}

\* The default command line: no sink, and the ledger is saved.
NoSink == {[sink |-> FALSE, save |-> TRUE]}

\* Every run delivers and saves.
SinkOnly == {[sink |-> TRUE, save |-> TRUE]}

=============================================================================

------------------------------ MODULE Migrations ------------------------------
(***************************************************************************)
(* DB.Migrate runs the up scripts in the order of their names, all of them *)
(* every time: nothing records which were applied. A script is one         *)
(* statement to the database, hence one transaction. It creates its tables *)
(* if they do not exist, and its indexes and its trigger without asking.   *)
(***************************************************************************)
EXTENDS Nothing, FiniteSets, Naturals, Sequences

CONSTANTS
    Migrators   \* the calls of Migrate: processes that start

VARIABLES
    schema,     \* the objects of the database
    migrator    \* call |-> [phase, next, applied]: the scripts it applied itself

schemaVars == <<schema, migrator>>

Script(needs, tables, others) == [needs |-> needs, tables |-> tables, others |-> others]

\* 001_initial
Initial == Script({}, {"resources"}, {"index of resources"})

\* 002_drift_tables
DriftTables == Script({"resources"}, {"drift_events"}, {"index of drift_events"})

\* 003_graph_tables
GraphTables == Script({"resources"}, {"graph_nodes", "graph_edges"}, {"index of graph_nodes"})

\* 004_audit_tables
AuditTables == Script({}, {"policies", "audit_entries"}, {"index of policies", "audit trigger"})

Scripts == <<Initial, DriftTables, GraphTables, AuditTables>>

Creates(script) == script.tables \cup script.others

SchemaInit ==
    /\ schema = {}
    /\ migrator = [m \in Migrators |-> [phase |-> "idle", next |-> 1, applied |-> {}]]

Migrate(m) ==
    /\ migrator[m].phase = "idle"
    /\ migrator' = [migrator EXCEPT ![m].phase = "running"]
    /\ UNCHANGED schema

Applies(script) == script.needs \subseteq schema /\ script.others \cap schema = {}

\* A script that is applied, and its answer arrives; one that is refused is an
\* error, and the call ends there.
ApplyScript(m) ==
    /\ migrator[m].phase = "running" /\ migrator[m].next <= Len(Scripts)
    /\ LET n == migrator[m].next
       IN  IF Applies(Scripts[n])
           THEN /\ schema' = schema \cup Creates(Scripts[n])
                /\ migrator' = [migrator EXCEPT ![m].next = n + 1,
                                                ![m].applied = @ \cup {n}]
           ELSE /\ migrator' = [migrator EXCEPT ![m].phase = "failed"]
                /\ UNCHANGED schema

\* The connection or the process is lost: before the script, or after it.
LoseDatabase(m) ==
    /\ migrator[m].phase = "running" /\ migrator[m].next <= Len(Scripts)
    /\ migrator' = [migrator EXCEPT ![m].phase = "failed"]
    /\ LET script == Scripts[migrator[m].next]
       IN  \/ UNCHANGED schema
           \/ Applies(script) /\ schema' = schema \cup Creates(script)

FinishMigrate(m) ==
    /\ migrator[m].phase = "running" /\ migrator[m].next > Len(Scripts)
    /\ migrator' = [migrator EXCEPT ![m].phase = "done"]
    /\ UNCHANGED schema

MigrateNext ==
    \E m \in Migrators : Migrate(m) \/ ApplyScript(m) \/ LoseDatabase(m) \/ FinishMigrate(m)

SchemaSpec == SchemaInit /\ [][MigrateNext]_schemaVars

SchemaTypeOK ==
    /\ schema \subseteq UNION {Creates(Scripts[n]) : n \in DOMAIN Scripts}
    /\ \A m \in Migrators :
          /\ migrator[m].phase \in {"idle", "running", "done", "failed"}
          /\ migrator[m].next \in 1..Len(Scripts) + 1
          /\ migrator[m].applied \subseteq DOMAIN Scripts

-----------------------------------------------------------------------------
(* Properties *)

\* Migrations run "in lexical order" (store/postgres/db.go:62), interrupted,
\* repeated and side by side: the database always has the first so many scripts
\* in full; a call that succeeds leaves the whole schema and has applied every
\* script of it itself. So at most one call ever succeeds, and a database that a
\* call left half way, or that was migrated before, is one on which Migrate fails
\* for good.
SchemaIsWhole ==
    /\ \E n \in 0..Len(Scripts) : schema = UNION {Creates(Scripts[i]) : i \in 1..n}
    /\ \A m \in Migrators : migrator[m].phase = "done" =>
          /\ \A n \in DOMAIN Scripts : Creates(Scripts[n]) \subseteq schema
          /\ migrator[m].applied = DOMAIN Scripts
    /\ \A m, o \in Migrators :
          migrator[m].applied # {} /\ migrator[o].applied # {} => m = o
=============================================================================

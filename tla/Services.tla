------------------------------- MODULE Services -------------------------------
(***************************************************************************)
(* The services behind the commands, side by side: they share no state, so *)
(* that a behaviour of all of them is one of each.                         *)
(***************************************************************************)
EXTENDS DriftEngine, DriftEvents, Migrations, AuditTrail, RedisStore, Registry, EventBus, Terminal

storeVars == <<schemaVars, eventVars, auditVars, redisVars>>

ServicesSpec ==
    /\ EngineSpec /\ SchemaSpec /\ EventsSpec /\ AuditSpec
    /\ RedisSpec /\ RegistrySpec /\ BusSpec /\ TerminalSpec

TypeOK ==
    /\ EngineTypeOK /\ SchemaTypeOK /\ EventsTypeOK /\ AuditTypeOK /\ RedisTypeOK
    /\ RegistryTypeOK /\ BusTypeOK /\ TerminalTypeOK

\* What a store hands out page by page is what it was asked for, though the table
\* moves under the reader: the audit trail and the drift events.
PagesAreSound == PagesMissNothing /\ PagesMissWhatLeaves

\* What is on record says what happened: a gap shows in the audit trail's chain,
\* and an event is open exactly when nobody resolved it.
RecordsHold == ChainShowsGaps /\ OpenIsUnresolved

\* What a long call returns is whole, also when others come in between: a discovery,
\* an evaluation of policies, a migration.
LongCallsAreWhole == ResponsesAreWhole /\ SchemaIsWhole

\* Loops that were told to end do, and so do the calls that wait for them.
CallsReturn == StopEndsLoops /\ HaltReturns
=============================================================================

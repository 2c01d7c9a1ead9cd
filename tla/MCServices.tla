----------------------------- MODULE MCServices -------------------------------
(***************************************************************************)
(* The services behind the commands, which share nothing with each other:  *)
(* a behaviour is of one of them, the others stay as they start.           *)
(***************************************************************************)
EXTENDS Services, DriftDetection

CONSTANTS c1, c2, c3, ann, bob, q

VARIABLE service

vars == <<service, engineVars, driftVars, storeVars, registryVars, busVars, terminalVars>>

MCEntries == {[actor |-> a, correlation |-> c1] : a \in {ann, bob}}

MCKeys == {[bucket |-> b, name |-> k] : b \in 1..2, k \in {c1}} \cup {[bucket |-> 1, name |-> c2]}

MCProviders == [p \in {c1, c2} |-> {{}, {p}}]

MCMessages == {[id |-> c1, decodable |-> TRUE], [id |-> c2, decodable |-> TRUE],
               [id |-> c3, decodable |-> FALSE]}

\* Two members of one group, and a subscriber of its own.
MCSubscribers == [s \in {c1, c2, c3} |-> IF s = c3 THEN c3 ELSE q]

MCEndsIn == [acl |-> "critical", size |-> "high", acl_rules |-> "other"]

MCStartsWith == [acl |-> "critical", size |-> "high", acl_rules |-> "critical"]

Scalar(v) == [kind |-> "scalar", value |-> v]
Object(f) == [kind |-> "object", value |-> f]

\* Keys that may be missing, and values.
Without(keys, values) == UNION {[d -> values] : d \in SUBSET keys}

MCNested == Without({"acl", "size"}, {Scalar(1), Scalar(2)})

MCConfigurations ==
    {f @@ g : f \in Without({"acl"}, {Null, Scalar(1)}),
              g \in Without({"acl_rules"}, {Scalar(1)} \cup {Object(o) : o \in MCNested})}

MCObjects == MCConfigurations \cup MCNested

MCNesting == [o \in MCObjects |-> IF \E key \in DOMAIN o : IsMap(o[key]) THEN 2 ELSE 1]

Init ==
    /\ service \in {"engine", "detector", "events", "schema", "audit", "lock", "cache", "providers",
                   "policies", "bus", "spinner", "bar"}
    /\ EngineInit /\ DetectionInit /\ SchemaInit /\ EventsInit /\ AuditInit /\ RedisInit
    /\ RegistryInit /\ BusInit /\ TerminalInit

Engine ==
    /\ service = "engine" /\ EngineNext
    /\ UNCHANGED <<service, driftVars, storeVars, registryVars, busVars, terminalVars>>

Detector ==
    /\ service = "detector" /\ DetectionNext
    /\ UNCHANGED <<service, engineVars, storeVars, registryVars, busVars, terminalVars>>

Schema ==
    /\ service = "schema" /\ MigrateNext
    /\ UNCHANGED <<service, engineVars, driftVars, eventVars, auditVars, redisVars,
                   registryVars, busVars, terminalVars>>

\* Two events with copies and writes, or three with one write and no copy.
FewAtOnce ==
    Cardinality(DOMAIN events) > 2 => writes <= 1 /\ \A c \in Clients : copy[c] = Nil

Events ==
    /\ service = "events" /\ EventsNext /\ FewAtOnce'
    /\ UNCHANGED <<service, engineVars, driftVars, schemaVars, auditVars, redisVars,
                   registryVars, busVars, terminalVars>>

\* A reader reads what one start of the process logged.
ReadsOneLife == life > 1 => reader.phase = "idle"

Audit ==
    /\ service = "audit" /\ AuditNext /\ ReadsOneLife'
    /\ UNCHANGED <<service, engineVars, driftVars, schemaVars, eventVars, redisVars,
                   registryVars, busVars, terminalVars>>

Redis ==
    /\ \/ service = "lock" /\ LockNext
       \/ service = "cache" /\ CacheNext
    /\ UNCHANGED <<service, engineVars, driftVars, schemaVars, eventVars, auditVars,
                   registryVars, busVars, terminalVars>>

Registries ==
    /\ \/ service = "providers" /\ ProvidersNext
       \/ service = "policies" /\ PoliciesNext
    /\ UNCHANGED <<service, engineVars, driftVars, storeVars, busVars, terminalVars>>

Bus ==
    /\ service = "bus" /\ BusNext
    /\ UNCHANGED <<service, engineVars, driftVars, storeVars, registryVars, terminalVars>>

Output ==
    /\ \/ service = "spinner" /\ SpinnerNext
       \/ service = "bar" /\ BarNext
    /\ UNCHANGED <<service, engineVars, driftVars, storeVars, registryVars, busVars>>

Next == Engine \/ Detector \/ Schema \/ Events \/ Audit \/ Redis \/ Registries \/ Bus \/ Output

Spec == Init /\ [][Next]_vars /\ EngineFairness /\ TerminalFairness
=============================================================================

------------------------------ MODULE AuditTrail ------------------------------
(***************************************************************************)
(* The audit trail. Logger.Log links an entry to the one before it and     *)
(* gives it a time and a hash; its caller appends it to the table, sooner  *)
(* or later or not at all; a reader lists entries page by page. A hash is  *)
(* the history it commits to, from genesis. Log runs under a mutex, and an *)
(* entry is known by its position in logged. Its time is what the clock    *)
(* said, as far as the column keeps it: it may be that of another entry,   *)
(* and a clock that is set back gives an earlier one.                      *)
(***************************************************************************)
EXTENDS Nothing, Tables, Sequences, SequencesExt

CONSTANTS
    Entries,        \* [actor, correlation]: what may be logged
    Stamps,         \* what a time may be
    Limits,         \* the page sizes a reader asks for; 0 is no limit
    MaxLogged,      \* bound on the number of entries
    MaxLives        \* bound on the number of times the process starts

\* A row that is read back has no link at all, not even that of genesis.
ASSUME LinkAssumption ==
    Nil \notin Seq(Nat \X Nat \X Entries)

ASSUME LimitsAssumption == Limits \subseteq Nat

ASSUME StampsAssumption == Stamps \subseteq Nat

ASSUME AuditBounds == MaxLogged \in Nat /\ MaxLives \in Nat \ {0}

VARIABLES
    lastHash,   \* Logger.lastHash; <<>> is genesis
    life,       \* which start of the process this is
    logged,     \* the entries as Log left them, [entry, prev, hash, life, at]
    table,      \* audit_entries: the entries that have a row
    reader      \* [actor, limit, phase, total, rows, there]: a reader and its List call

auditVars == <<lastHash, life, logged, table, reader>>

NoReader == [actor |-> Nil, limit |-> 0, phase |-> "idle", total |-> 0,
             rows |-> <<>>, there |-> {}]

AuditInit ==
    /\ lastHash = <<>> /\ life = 1
    /\ logged = <<>> /\ table = {}
    /\ reader = NoReader

Log(e, at) ==
    /\ Len(logged) < MaxLogged
    /\ LET hash == Append(lastHash, <<life, Len(logged), e>>)
       IN  /\ logged' = Append(logged, [entry |-> e, prev |-> lastHash,
                                        hash |-> hash, life |-> life, at |-> at])
           /\ lastHash' = hash
    /\ UNCHANGED <<life, table, reader>>

\* AuditStore.Append. Callers append what they logged in any order; one whose
\* insert fails has no row.
AppendRow(t) ==
    /\ t \in DOMAIN logged \ table /\ logged[t].life = life
    /\ table' = table \cup {t}
    /\ UNCHANGED <<lastHash, life, logged, reader>>

\* NewLogger: the chain starts again from genesis.
NewLogger ==
    /\ life < MaxLives
    /\ life' = life + 1
    /\ lastHash' = <<>>
    /\ UNCHANGED <<logged, table, reader>>

\* scanAuditEntry: a row has no column for the hash before it.
Scan(t) == [logged[t] EXCEPT !.prev = Nil]

\* The column timestamp.
Stamp == [t \in DOMAIN logged |-> logged[t].at]

\* ORDER BY timestamp ASC: the later, the further back.
Age == [t \in DOMAIN logged |-> -logged[t].at]

Matching(actor) == {t \in table : actor \in {Nil, logged[t].entry.actor}}

\* List counts and selects in two queries. A reader starts at offset 0.
CountRows(actor, limit) ==
    /\ reader.phase = "idle"
    /\ reader' = [actor |-> actor, limit |-> limit, phase |-> "counted",
                  total |-> Cardinality(Matching(actor)), rows |-> <<>>,
                  there |-> Matching(actor)]
    /\ UNCHANGED <<lastHash, life, logged, table>>

\* The newest rows after those the reader has; a short page is the last.
SelectRows ==
    /\ reader.phase = "counted"
    /\ \E found \in Listings(Matching(reader.actor), Stamp) :
          LET offset == Len(reader.rows)
              end == IF reader.limit = 0 THEN Len(found) ELSE offset + reader.limit
              page == SubSeq(found, offset + 1, IF end > Len(found) THEN Len(found) ELSE end)
          IN  reader' = [reader EXCEPT !.rows = @ \o page,
                             !.phase = IF Len(page) = reader.limit /\ page # <<>>
                                       THEN "paged" ELSE "read"]
    /\ UNCHANGED <<lastHash, life, logged, table>>

\* The next page is a List of its own, with a count of its own.
CountAgain ==
    /\ reader.phase = "paged"
    /\ reader' = [reader EXCEPT !.phase = "counted",
                                !.total = Cardinality(Matching(reader.actor))]
    /\ UNCHANGED <<lastHash, life, logged, table>>

AuditNext ==
    \/ \E e \in Entries, at \in Stamps : Log(e, at)
    \/ \E t \in DOMAIN logged : AppendRow(t)
    \/ NewLogger
    \/ \E actor \in {Nil} \cup {e.actor : e \in Entries}, limit \in Limits : CountRows(actor, limit)
    \/ SelectRows
    \/ CountAgain

ScanAll(found) == [i \in DOMAIN found |-> Scan(found[i])]

\* What Export may give: it lists, and then serialises in a format it knows.
Exports(actor, format) ==
    IF format \in {"json", "", "jsonl", "ndjson"}
    THEN {ScanAll(found) : found \in Listings(Matching(actor), Stamp)}
    ELSE {}

\* What GetByCorrelation may give.
Correlated(c) ==
    {ScanAll(found) : found \in Listings({t \in table : logged[t].entry.correlation = c}, Age)}

VerifyChain(entries) ==
    \A i \in 2..Len(entries) : entries[i].prev = entries[i - 1].hash

AuditSpec == AuditInit /\ [][AuditNext]_auditVars

AuditTypeOK ==
    /\ life \in 1..MaxLives /\ Len(logged) <= MaxLogged
    /\ \A t \in DOMAIN logged :
          /\ logged[t].entry \in Entries /\ logged[t].life \in 1..life /\ logged[t].at \in Stamps
    /\ table \subseteq DOMAIN logged
    /\ reader.phase \in {"idle", "counted", "paged", "read"}
    /\ reader.there \subseteq table /\ ToSet(reader.rows) \subseteq table

-----------------------------------------------------------------------------
(* Properties *)

\* Entries as Log returned them, in the order in which it did.
InOrder(places) ==
    LET order == Ascending(places)
    IN  [i \in DOMAIN order |-> logged[order[i]]]

\* "Tamper-proof logging" by "hash chains" (audit/logger.go:2): of what one start
\* of the process logged, an entry that is missing in the middle breaks the
\* chain, and one that is missing at an end does not. A restart breaks it as
\* well. The table does not keep the links: no two rows read back verify, in
\* either order, whatever was done to them. An entry whose content was changed does
\* not break the chain, and nothing is said of it: VerifyChain compares the links
\* and computes no hash.
ChainShowsGaps ==
    /\ \A places \in SUBSET DOMAIN logged :
          VerifyChain(InOrder(places)) <=>
              \A t, u \in places : t < u =>
                  logged[t].life = logged[u].life /\ t..u \subseteq places
    /\ \A e \in Entries :
          \A read \in Correlated(e.correlation) : Len(read) > 1 => ~VerifyChain(read)
    /\ \A read \in Exports(Nil, "json") : Len(read) > 1 => ~VerifyChain(read)

\* "The total match count ignoring limit/offset" (postgres/audit.go:75), page
\* after page while entries are added: the pages miss no row that was there when
\* the first was read and whose time no other row has, though they may repeat one,
\* and the total is behind. Rows with the same time may change places between two
\* pages, and one of them is missed; a reader that asks for all at once misses none.
PagesMissNothing ==
    reader.phase = "read" =>
        /\ reader.there \cap Untied(table, Stamp) \subseteq ToSet(reader.rows)
        /\ reader.limit = 0 => reader.there \subseteq ToSet(reader.rows)
        /\ reader.total <= Cardinality(Matching(reader.actor))
        /\ \A t \in ToSet(reader.rows) : reader.actor \in {Nil, logged[t].entry.actor}
=============================================================================

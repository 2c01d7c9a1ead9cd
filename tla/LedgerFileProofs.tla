-------------------------- MODULE LedgerFileProofs --------------------------
(***************************************************************************)
(* For any number of runs and of openings: what is on file was announced,  *)
(* the file is whole as long as saves do not overlap, and it forgets       *)
(* nothing as long as runs do not.                                         *)
(***************************************************************************)
EXTENDS LedgerFile, FiniteSetTheorems, TLAPS

-----------------------------------------------------------------------------
(* Lines and ranks *)

LEMMA OverwriteType ==
  ASSUME NEW S, NEW c \in Seq(S \cup {Torn}), NEW k \in Nat \ {0}, NEW l \in S \cup {Torn}
  PROVE  /\ Overwrite(c, k, l) \in Seq(S \cup {Torn})
         /\ Lines(Overwrite(c, k, l)) \subseteq Lines(c) \cup {l, Torn}
  <1> DEFINE n == IF k > Len(c) THEN k ELSE Len(c)
             f == [i \in 1..n |-> IF i = k THEN l ELSE IF i <= Len(c) THEN c[i] ELSE Torn]
  <1>1. n \in Nat /\ Len(c) \in Nat
    OBVIOUS
  <1>2. \A i \in 1..n : f[i] \in S \cup {Torn} /\ f[i] \in Lines(c) \cup {l, Torn}
    BY <1>1 DEF Lines
  <1>3. f \in [1..n -> S \cup {Torn}]
    BY <1>2
  <1>4. f \in Seq(S \cup {Torn}) /\ DOMAIN f = 1..n
    BY <1>1, <1>3
  <1>5. QED
    BY <1>2, <1>4 DEF Overwrite, Lines

LEMMA OverwriteAppends ==
  ASSUME NEW S, NEW c \in Seq(S \cup {Torn}), NEW l
  PROVE  /\ Len(Overwrite(c, Len(c) + 1, l)) = Len(c) + 1
         /\ Lines(Overwrite(c, Len(c) + 1, l)) = Lines(c) \cup {l}
  <1> DEFINE n == Len(c)
             f == [i \in 1..(n + 1) |-> IF i = n + 1 THEN l ELSE IF i <= n THEN c[i] ELSE Torn]
  <1>1. n \in Nat /\ DOMAIN c = 1..n
    OBVIOUS
  <1>2. Overwrite(c, n + 1, l) = f
    BY <1>1 DEF Overwrite
  <1>3. Len(f) = n + 1
    BY <1>1
  <1>4. \A i \in 1..n : f[i] = c[i]
    BY <1>1
  <1>5. f[n + 1] = l
    BY <1>1
  <1>6. DOMAIN f = (1..n) \cup {n + 1}
    BY <1>1
  <1>7. {f[i] : i \in DOMAIN f} = {c[i] : i \in DOMAIN c} \cup {l}
    BY <1>1, <1>4, <1>5, <1>6
  <1>8. QED
    BY <1>2, <1>3, <1>7 DEF Lines

LEMMA OpeningsFinite ==
  ASSUME NEW S \in SUBSET Openings
  PROVE  IsFiniteSet(S) /\ Cardinality(S) \in Nat
  BY OpeningsAssumption, FS_Subset, FS_CardinalityType

\* A line's rank is below the number of lines, and no two lines share one.
LEMMA RankBounds ==
  ASSUME NEW S \in SUBSET Openings, NEW l \in S
  PROVE  /\ Rank(S, l) \in Nat
         /\ Rank(S, l) < Cardinality(S)
         /\ \A o \in S : Rank(S, o) = Rank(S, l) => o = l
  <1> DEFINE Below(o) == {p \in S : p < o}
  <1>1. S \subseteq Nat /\ IsFiniteSet(S) /\ Cardinality(S) \in Nat
    BY OpeningsAssumption, OpeningsFinite
  <1>2. \A o : IsFiniteSet(Below(o)) /\ Cardinality(Below(o)) \in Nat
    BY OpeningsFinite, OpeningsAssumption
  <1> HIDE DEF Below
  <1>3. ASSUME NEW o, NEW T, IsFiniteSet(T), Below(o) \subseteq T, Below(o) # T
        PROVE  Cardinality(Below(o)) < Cardinality(T)
    <2>1. Cardinality(Below(o)) <= Cardinality(T) /\ Cardinality(Below(o)) # Cardinality(T)
      BY <1>3, FS_Subset
    <2>2. Cardinality(T) \in Nat
      BY <1>3, FS_CardinalityType
    <2>3. QED
      BY <1>2, <2>1, <2>2
  <1> USE DEF Below
  <1>4. Cardinality(Below(l)) < Cardinality(S)
    <2>1. l \notin Below(l)
      BY <1>1
    <2>2. QED
      BY <1>1, <1>3, <2>1
  <1>5. ASSUME NEW o \in S, NEW q \in S, o < q
        PROVE  Cardinality(Below(o)) < Cardinality(Below(q))
    <2>1. /\ \A p \in S : p < o => p < q
          /\ ~(o < o)
      BY <1>1, <1>5
    <2>2. Below(o) \subseteq Below(q) /\ o \in Below(q) /\ o \notin Below(o)
      BY <2>1, <1>5, Zenon
    <2>3. QED
      BY <1>2, <1>3, <2>2
  <1>6. ASSUME NEW o \in S, Cardinality(Below(o)) = Cardinality(Below(l))
        PROVE  o = l
    <2>1. ~(o < l) /\ ~(l < o)
      BY <1>2, <1>5, <1>6
    <2>2. QED
      BY <1>1, <2>1
  <1>7. QED
    BY <1>2, <1>4, <1>6 DEF Rank

LEMMA WrittenGrows ==
  ASSUME TypeOK, NEW r \in Runs, NEW l \in Openings, NextLine(r, l)
  PROVE  {o \in ledger[r] : Rank(ledger[r], o) < off[r] + 1} = Written(r) \cup {l}
  <1>1. ledger[r] \in SUBSET Openings /\ off[r] \in Nat /\ l \in ledger[r]
    BY DEF TypeOK, NextLine
  <1>2. \A o \in ledger[r] : Rank(ledger[r], o) \in Nat
    BY <1>1, RankBounds
  <1>3. \A o \in ledger[r] : Rank(ledger[r], o) = off[r] <=> o = l
    BY <1>1, RankBounds DEF NextLine
  <1>4. QED
    BY <1>1, <1>2, <1>3 DEF Written

LEMMA WrittenAll ==
  ASSUME TypeOK, NEW r \in Runs, off[r] = Cardinality(ledger[r])
  PROVE  Written(r) = ledger[r]
  <1>1. ledger[r] \in SUBSET Openings
    BY DEF TypeOK
  <1>2. QED
    BY <1>1, RankBounds DEF Written

-----------------------------------------------------------------------------
(* Types *)

LEMMA InodesPositive == Inodes \subseteq Nat \ {0}
  <1>1. Cardinality(Runs) \in Nat
    BY RunsAssumption, FS_CardinalityType
  <1>2. QED
    BY <1>1 DEF Inodes

LEMMA OnFileType ==
  ASSUME TypeOK
  PROVE  /\ OnFile \in Seq(Openings \cup {Torn})
         /\ Lines(OnFile) \subseteq Openings \cup {Torn}
         /\ \A i \in Inodes : Lines(content[i]) \subseteq Openings \cup {Torn}
  <1>1. \A c \in Seq(Openings \cup {Torn}) : Lines(c) \subseteq Openings \cup {Torn}
    BY DEF Lines
  <1>2. OnFile \in Seq(Openings \cup {Torn})
    BY DEF TypeOK, OnFile
  <1>3. QED
    BY <1>1, <1>2 DEF TypeOK

\* The type invariant is inductive.
LEMMA TypeInit == Init => TypeOK
  BY DEF Init, TypeOK

LEMMA TypeEnd ==
  ASSUME TypeOK, NEW r \in Runs, End(r)
  PROVE  /\ pc' \in [Runs -> {"idle", "delivering", "writing"}]
         /\ ledger' \in [Runs -> SUBSET Openings]
         /\ todo' \in [Runs -> SUBSET Openings]
         /\ fd' \in [Runs -> Inodes \cup {None}]
         /\ off' \in [Runs -> Nat]
  BY DEF TypeOK, End

LEMMA TypeContent ==
  ASSUME TypeOK, NEW r \in Runs, pc[r] = "writing", Descriptors,
         NEW l \in Openings \cup {Torn},
         content' = [content EXCEPT ![fd[r]] = Overwrite(@, off[r] + 1, l)]
  PROVE  content' \in [Inodes -> Seq(Openings \cup {Torn})]
  <1>1. fd[r] \in Inodes /\ off[r] + 1 \in Nat \ {0}
    BY DEF TypeOK, Descriptors
  <1>2. content[fd[r]] \in Seq(Openings \cup {Torn})
    BY <1>1 DEF TypeOK
  <1>3. Overwrite(content[fd[r]], off[r] + 1, l) \in Seq(Openings \cup {Torn})
    BY <1>1, <1>2, OverwriteType
  <1>4. QED
    BY <1>1, <1>3 DEF TypeOK

LEMMA TypeNext ==
  ASSUME TypeOK, Descriptors, [Next]_vars
  PROVE  TypeOK'
  <1>1. ASSUME NEW r \in Runs, NEW seen \in SUBSET Openings, Load(r, seen)
        PROVE  TypeOK'
    <2>1. Lines(OnFile) \subseteq Openings
      BY <1>1, OnFileType DEF Load, Parses
    <2>2. overlap' \in SUBSET {"runs", "saves"}
      BY <1>1 DEF Load, TypeOK
    <2>3. QED
      BY <1>1, <2>1, <2>2 DEF Load, TypeOK, files
  <1>2. ASSUME NEW r \in Runs, NEW o \in Openings, Deliver(r, o)
        PROVE  TypeOK'
    BY <1>2 DEF Deliver, TypeOK, files
  <1>3. ASSUME NEW r \in Runs, NEW o \in Openings, DeliveryFails(r, o)
        PROVE  TypeOK'
    <2>1. End(r) /\ UNCHANGED <<files, saved, overlap>> /\ sent' \in SUBSET Openings
      BY <1>3 DEF DeliveryFails, TypeOK
    <2>2. QED
      BY <2>1, TypeEnd DEF TypeOK, files
  <1>4. ASSUME NEW r \in Runs, NEW i \in Inodes, OpenTmp(r, i)
        PROVE  TypeOK'
    <2>1. overlap' \in SUBSET {"runs", "saves"}
      BY <1>4 DEF OpenTmp, NoteSaving, TypeOK
    <2>2. <<>> \in Seq(Openings \cup {Torn})
      OBVIOUS
    <2>3. QED
      BY <1>4, <2>1, <2>2 DEF OpenTmp, TypeOK
  <1>5. ASSUME NEW r \in Runs, NEW l \in Openings, WriteLine(r, l)
        PROVE  TypeOK'
    <2>1. content' \in [Inodes -> Seq(Openings \cup {Torn})]
      BY <1>5, TypeContent DEF WriteLine
    <2>2. QED
      BY <1>5, <2>1 DEF WriteLine, TypeOK
  <1>6. ASSUME NEW r \in Runs, Rename(r)
        PROVE  TypeOK'
    <2>1. End(r) /\ UNCHANGED <<content, sent, overlap>>
      BY <1>6 DEF Rename
    <2>2. /\ ledgerAt' \in Inodes \cup {None}
          /\ tmpAt' \in Inodes \cup {None}
          /\ saved' \in SUBSET Openings
      BY <1>6 DEF Rename, TypeOK
    <2>3. QED
      BY <2>1, <2>2, TypeEnd DEF TypeOK
  <1>7. ASSUME NEW r \in Runs, Die(r)
        PROVE  TypeOK'
    <2>1. End(r) /\ UNCHANGED <<ledgerAt, tmpAt, sent, saved, overlap>>
      BY <1>7 DEF Die
    <2>2. content' \in [Inodes -> Seq(Openings \cup {Torn})]
      BY <1>7, TypeContent DEF Die, TypeOK
    <2>3. QED
      BY <2>1, <2>2, TypeEnd DEF TypeOK
  <1>8. CASE UNCHANGED vars
    BY <1>8 DEF vars, files, memory, TypeOK
  <1>9. QED
    BY <1>1, <1>2, <1>3, <1>4, <1>5, <1>6, <1>7, <1>8 DEF Next

-----------------------------------------------------------------------------
(* Only what was announced *)

LEMMA OnlyToldWrite ==
  ASSUME TypeOK, OnlyTold, Descriptors,
         NEW r \in Runs, pc[r] = "writing",
         NEW l \in ledger[r] \cup {Torn},
         content' = [content EXCEPT ![fd[r]] = Overwrite(@, off[r] + 1, l)]
  PROVE  \A i \in Inodes : Lines(content'[i]) \ {Torn} \subseteq sent
  <1>1. fd[r] \in Inodes /\ off[r] + 1 \in Nat \ {0} /\ ledger[r] \in SUBSET Openings
    BY DEF TypeOK, Descriptors
  <1>2. Lines(Overwrite(content[fd[r]], off[r] + 1, l)) \subseteq Lines(content[fd[r]]) \cup {l, Torn}
    <2>1. content[fd[r]] \in Seq(Openings \cup {Torn}) /\ l \in Openings \cup {Torn}
      BY <1>1 DEF TypeOK
    <2>2. \A c \in Seq(Openings \cup {Torn}), k \in Nat \ {0}, x \in Openings \cup {Torn} :
             Lines(Overwrite(c, k, x)) \subseteq Lines(c) \cup {x, Torn}
      BY OverwriteType, Zenon
    <2>3. QED
      BY <1>1, <2>1, <2>2
  <1>3. ledger[r] \subseteq sent
    BY DEF OnlyTold
  <1>4. \A i \in Inodes : Lines(content'[i]) \subseteq Lines(content[i]) \cup {l, Torn}
    BY <1>1, <1>2 DEF TypeOK
  <1>5. QED
    BY <1>3, <1>4 DEF OnlyTold

LEMMA OnlyToldNext ==
  ASSUME TypeOK, OnlyTold, Descriptors, [Next]_vars
  PROVE  OnlyTold'
  <1> DEFINE Rows == \A r \in Runs :
                        /\ ledger[r] \ todo[r] \subseteq sent
                        /\ pc[r] = "writing" => todo[r] = {}
             Disk == \A i \in Inodes : Lines(content[i]) \ {Torn} \subseteq sent
  <1>1. Rows /\ Disk
    BY DEF OnlyTold
  <1>2. SUFFICES Rows' /\ Disk'
    BY DEF OnlyTold
  <1>3. ASSUME NEW r \in Runs, End(r), sent \subseteq sent'
        PROVE  Rows'
    BY <1>1, <1>3 DEF End, TypeOK
  <1>4. ASSUME UNCHANGED content, sent \subseteq sent'
        PROVE  Disk'
    BY <1>1, <1>4
  <1>5. ASSUME NEW r \in Runs, NEW seen \in SUBSET Openings, Load(r, seen)
        PROVE  Rows' /\ Disk'
    <2>1. Lines(OnFile) \subseteq sent
      BY <1>1, <1>5 DEF Load, Parses, OnFile, TypeOK, Lines
    <2>2. QED
      BY <1>1, <1>4, <1>5, <2>1 DEF Load, TypeOK, files
  <1>6. ASSUME NEW r \in Runs, NEW o \in Openings, Deliver(r, o)
        PROVE  Rows' /\ Disk'
    BY <1>1, <1>4, <1>6 DEF Deliver, TypeOK, files
  <1>7. ASSUME NEW r \in Runs, NEW o \in Openings, DeliveryFails(r, o)
        PROVE  Rows' /\ Disk'
    BY <1>3, <1>4, <1>7 DEF DeliveryFails, files
  <1>8. ASSUME NEW r \in Runs, NEW i \in Inodes, OpenTmp(r, i)
        PROVE  Rows' /\ Disk'
    <2>1. Lines(<<>>) = {}
      BY DEF Lines
    <2>2. QED
      BY <1>1, <1>8, <2>1 DEF OpenTmp, TypeOK
  <1>9. ASSUME NEW r \in Runs, NEW l \in Openings, WriteLine(r, l)
        PROVE  Rows' /\ Disk'
    <2>1. Disk'
      BY <1>9, OnlyToldWrite DEF WriteLine, NextLine
    <2>2. QED
      BY <1>1, <1>9, <2>1 DEF WriteLine
  <1>10. ASSUME NEW r \in Runs, Rename(r)
         PROVE  Rows' /\ Disk'
    BY <1>3, <1>4, <1>10 DEF Rename
  <1>11. ASSUME NEW r \in Runs, Die(r)
         PROVE  Rows' /\ Disk'
    <2>1. Disk'
      BY <1>4, <1>11, OnlyToldWrite DEF Die
    <2>2. QED
      BY <1>3, <1>11, <2>1 DEF Die
  <1>12. CASE UNCHANGED vars
    BY <1>1, <1>12 DEF vars, files, memory
  <1>13. QED
    BY <1>5, <1>6, <1>7, <1>8, <1>9, <1>10, <1>11, <1>12 DEF Next

-----------------------------------------------------------------------------
(* Descriptors *)

LEMMA DescriptorsNext ==
  ASSUME TypeOK, Descriptors, [Next]_vars
  PROVE  Descriptors'
  <1> DEFINE Held(r) == IF pc[r] = "writing"
                        THEN fd[r] # None /\ off[r] <= Cardinality(ledger[r])
                        ELSE fd[r] = None /\ off[r] = 0
             Apart == tmpAt # None => tmpAt # ledgerAt
  <1>1. Apart /\ \A r \in Runs : Held(r)
    BY DEF Descriptors
  <1>2. SUFFICES Apart' /\ \A r \in Runs : Held(r)'
    BY DEF Descriptors
  <1>3. ASSUME NEW r \in Runs, End(r)
        PROVE  \A q \in Runs : Held(q)'
    BY <1>1, <1>3 DEF End, TypeOK
  <1>4. ASSUME NEW r \in Runs, NEW seen \in SUBSET Openings, Load(r, seen)
        PROVE  Apart' /\ \A q \in Runs : Held(q)'
    BY <1>1, <1>4 DEF Load, TypeOK, files
  <1>5. ASSUME NEW r \in Runs, NEW o \in Openings, Deliver(r, o)
        PROVE  Apart' /\ \A q \in Runs : Held(q)'
    BY <1>1, <1>5 DEF Deliver, files
  <1>6. ASSUME NEW r \in Runs, NEW o \in Openings, DeliveryFails(r, o)
        PROVE  Apart' /\ \A q \in Runs : Held(q)'
    BY <1>1, <1>3, <1>6 DEF DeliveryFails, files
  <1>7. ASSUME NEW r \in Runs, NEW i \in Inodes, OpenTmp(r, i)
        PROVE  Apart' /\ \A q \in Runs : Held(q)'
    <2>1. i # None /\ i # ledgerAt
      BY <1>1, <1>7, InodesPositive DEF OpenTmp, Opened, Unused, None
    <2>2. off[r] = 0 /\ Cardinality(ledger[r]) \in Nat
      BY <1>1, <1>7, OpeningsFinite DEF OpenTmp, TypeOK
    <2>3. QED
      BY <1>1, <1>7, <2>1, <2>2 DEF OpenTmp, TypeOK
  <1>8. ASSUME NEW r \in Runs, NEW l \in Openings, WriteLine(r, l)
        PROVE  Apart' /\ \A q \in Runs : Held(q)'
    <2>1. /\ ledger[r] \in SUBSET Openings
          /\ l \in ledger[r]
          /\ off[r] = Rank(ledger[r], l)
      BY <1>8 DEF WriteLine, NextLine, TypeOK
    <2>2. off[r] \in Nat /\ off[r] < Cardinality(ledger[r])
      BY <2>1, RankBounds
    <2>3. off[r] + 1 <= Cardinality(ledger[r])
      BY <2>1, <2>2, OpeningsFinite
    <2>4. QED
      BY <1>1, <1>8, <2>3 DEF WriteLine, TypeOK
  <1>9. ASSUME NEW r \in Runs, Rename(r)
        PROVE  Apart' /\ \A q \in Runs : Held(q)'
    BY <1>1, <1>3, <1>9 DEF Rename
  <1>10. ASSUME NEW r \in Runs, Die(r)
         PROVE  Apart' /\ \A q \in Runs : Held(q)'
    BY <1>1, <1>3, <1>10 DEF Die
  <1>11. CASE UNCHANGED vars
    BY <1>1, <1>11 DEF vars, files, memory
  <1>12. QED
    BY <1>4, <1>5, <1>6, <1>7, <1>8, <1>9, <1>10, <1>11 DEF Next

-----------------------------------------------------------------------------
(* One writer, as long as no saves overlap *)

LEMMA SoleWriterOpen ==
  ASSUME TypeOK, Descriptors, SoleWriter,
         NEW r \in Runs, NEW i \in Inodes, OpenTmp(r, i), "saves" \notin overlap'
  PROVE  SoleWriter'
  <1>1. \A q \in Runs : pc[q] # "writing"
    BY DEF OpenTmp, NoteSaving
  <1>2. i # None /\ i # ledgerAt /\ off[r] = 0
    BY InodesPositive, <1>1 DEF OpenTmp, Opened, Unused, None, Descriptors
  <1>3. \A q \in Runs : pc'[q] = "writing" => q = r
    <2>1. pc' = [pc EXCEPT ![r] = "writing"]
      BY DEF OpenTmp
    <2>2. QED
      BY <1>1, <2>1 DEF TypeOK
  <1>4. /\ fd'[r] = tmpAt' /\ off'[r] = 0
        /\ content'[tmpAt'] = <<>>
    BY <1>2 DEF OpenTmp, TypeOK
  <1>5. Len(<<>>) = 0 /\ Lines(<<>>) = {}
    BY DEF Lines
  <1>6. Written(r)' = {}
    <2>1. ledger'[r] \in SUBSET Openings
      BY DEF OpenTmp, TypeOK
    <2>2. \A o \in ledger'[r] : ~(Rank(ledger'[r], o) < 0)
      BY <2>1, RankBounds
    <2>3. QED
      BY <1>4, <2>2 DEF Written
  <1>7. OnFile' = OnFile /\ ledgerAt' = ledgerAt /\ saved' = saved
    BY <1>2 DEF OpenTmp, OnFile, TypeOK
  <1>8. Whole'
    BY <1>7 DEF SoleWriter, Whole
  <1>9. QED
    BY <1>3, <1>4, <1>5, <1>6, <1>8 DEF SoleWriter

LEMMA SoleWriterWrite ==
  ASSUME TypeOK, Descriptors, SoleWriter,
         NEW r \in Runs, NEW l \in Openings, WriteLine(r, l)
  PROVE  SoleWriter'
  <1>1. /\ fd[r] = tmpAt /\ tmpAt # None /\ tmpAt # ledgerAt /\ tmpAt \in Inodes
        /\ Len(content[tmpAt]) = off[r]
        /\ Lines(content[tmpAt]) = Written(r)
    BY DEF WriteLine, SoleWriter, Descriptors, TypeOK
  <1>2. \A q \in Runs : pc'[q] = "writing" => q = r
    BY DEF WriteLine, SoleWriter
  <1>3. /\ content'[tmpAt] = Overwrite(content[tmpAt], Len(content[tmpAt]) + 1, l)
        /\ content[tmpAt] \in Seq(Openings \cup {Torn})
    BY <1>1 DEF WriteLine, TypeOK
  <1>4. /\ Len(content'[tmpAt]) = off[r] + 1
        /\ Lines(content'[tmpAt]) = Written(r) \cup {l}
    <2>1. \A c \in Seq(Openings \cup {Torn}) :
             /\ Len(Overwrite(c, Len(c) + 1, l)) = Len(c) + 1
             /\ Lines(Overwrite(c, Len(c) + 1, l)) = Lines(c) \cup {l}
      BY OverwriteAppends
    <2>2. QED
      BY <1>1, <1>3, <2>1
  <1>5. off'[r] = off[r] + 1
    BY DEF WriteLine, TypeOK
  <1>6. Written(r)' = Written(r) \cup {l}
    <2>1. Written(r)' = {o \in ledger[r] : Rank(ledger[r], o) < off[r] + 1}
      BY <1>5 DEF WriteLine, Written
    <2>2. QED
      BY <2>1, WrittenGrows DEF WriteLine
  <1>7. Whole'
    BY <1>1 DEF WriteLine, SoleWriter, Whole, OnFile, TypeOK
  <1>8. fd' = fd /\ tmpAt' = tmpAt
    BY DEF WriteLine
  <1>9. QED
    BY <1>1, <1>2, <1>4, <1>5, <1>6, <1>7, <1>8 DEF SoleWriter

LEMMA SoleWriterRename ==
  ASSUME TypeOK, Descriptors, SoleWriter, NEW r \in Runs, Rename(r)
  PROVE  SoleWriter' /\ Lines(OnFile)' = ledger[r]
  <1>1. /\ fd[r] = tmpAt /\ tmpAt # None /\ tmpAt \in Inodes
        /\ Len(content[tmpAt]) = off[r]
        /\ Lines(content[tmpAt]) = Written(r)
    BY DEF Rename, SoleWriter, Descriptors, TypeOK
  <1>2. /\ ledgerAt' = tmpAt /\ saved' = ledger[r] /\ content' = content
        /\ off[r] = Cardinality(ledger[r])
    BY <1>1 DEF Rename
  <1>3. Written(r) = ledger[r]
    BY <1>2, WrittenAll
  <1>4. Lines(OnFile)' = ledger[r] /\ Len(OnFile)' = Cardinality(ledger[r])
    BY <1>1, <1>2, <1>3 DEF OnFile
  <1>5. Whole'
    BY <1>2, <1>4 DEF Whole
  <1>6. \A q \in Runs : pc'[q] # "writing"
    BY DEF Rename, End, SoleWriter, TypeOK
  <1>7. QED
    BY <1>4, <1>5, <1>6 DEF SoleWriter

\* A run that ends without a rename leaves the ledger as it was.
LEMMA SoleWriterDie ==
  ASSUME TypeOK, Descriptors, SoleWriter, NEW r \in Runs, Die(r)
  PROVE  SoleWriter' /\ OnFile' = OnFile
  <1>1. OnFile' = OnFile
    <2>1. CASE UNCHANGED content
      BY <2>1 DEF Die, OnFile
    <2>2. CASE /\ pc[r] = "writing"
               /\ content' = [content EXCEPT ![fd[r]] = Overwrite(@, off[r] + 1, Torn)]
      <3>1. fd[r] # ledgerAt
        BY <2>2 DEF SoleWriter, Descriptors
      <3>2. QED
        BY <2>2, <3>1 DEF Die, OnFile, TypeOK
    <2>3. QED
      BY <2>1, <2>2 DEF Die
  <1>2. Whole'
    BY <1>1 DEF Die, SoleWriter, Whole
  <1>3. CASE pc[r] = "writing"
    <2>1. \A q \in Runs : pc'[q] # "writing"
      BY <1>3 DEF Die, End, SoleWriter, TypeOK
    <2>2. QED
      BY <1>1, <1>2, <2>1 DEF SoleWriter
  <1>4. CASE pc[r] # "writing"
    <2>1. content' = content /\ tmpAt' = tmpAt
      BY <1>4 DEF Die
    <2>2. \A q \in Runs : pc'[q] = "writing" =>
             /\ pc[q] = "writing" /\ fd'[q] = fd[q] /\ off'[q] = off[q]
             /\ ledger'[q] = ledger[q]
      BY <1>4 DEF Die, End, TypeOK
    <2>3. \A q \in Runs : pc'[q] = "writing" => Written(q)' = Written(q)
      BY <2>2 DEF Written
    <2>4. QED
      BY <1>1, <1>2, <2>1, <2>2, <2>3 DEF SoleWriter
  <1>5. QED
    BY <1>3, <1>4

\* Steps that leave the files and the writers alone.
LEMMA SoleWriterElse ==
  ASSUME TypeOK, SoleWriter, UNCHANGED <<files, saved>>,
         \A q \in Runs : pc'[q] = "writing" =>
             /\ pc[q] = "writing" /\ fd'[q] = fd[q] /\ off'[q] = off[q]
             /\ ledger'[q] = ledger[q]
  PROVE  SoleWriter' /\ OnFile' = OnFile
  <1>1. content' = content /\ tmpAt' = tmpAt /\ ledgerAt' = ledgerAt /\ saved' = saved
    BY DEF files
  <1>2. OnFile' = OnFile /\ Whole'
    BY <1>1 DEF OnFile, Whole, SoleWriter
  <1>3. \A q \in Runs : pc'[q] = "writing" => Written(q)' = Written(q)
    BY DEF Written
  <1>4. QED
    BY <1>1, <1>2, <1>3 DEF SoleWriter

\* What a step does to the file and the writers, save by save.
LEMMA SoleWriterNext ==
  ASSUME TypeOK, Descriptors, SoleWriter, [Next]_vars, "saves" \notin overlap'
  PROVE  /\ SoleWriter'
         /\ \/ OnFile' = OnFile
            \/ \E r \in Runs : pc[r] # "idle" /\ Lines(OnFile)' = ledger[r]
  <1> DEFINE Goal == /\ SoleWriter'
                     /\ \/ OnFile' = OnFile
                        \/ \E r \in Runs : pc[r] # "idle" /\ Lines(OnFile)' = ledger[r]
  <1>1. ASSUME NEW r \in Runs, NEW seen \in SUBSET Openings, Load(r, seen)
        PROVE  Goal
    BY <1>1, SoleWriterElse DEF Load, TypeOK
  <1>2. ASSUME NEW r \in Runs, NEW o \in Openings, Deliver(r, o)
        PROVE  Goal
    BY <1>2, SoleWriterElse DEF Deliver
  <1>3. ASSUME NEW r \in Runs, NEW o \in Openings, DeliveryFails(r, o)
        PROVE  Goal
    BY <1>3, SoleWriterElse DEF DeliveryFails, End, TypeOK
  <1>4. ASSUME NEW r \in Runs, NEW i \in Inodes, OpenTmp(r, i)
        PROVE  Goal
    <2>1. i # ledgerAt
      BY <1>4, InodesPositive DEF OpenTmp, Opened, Unused, None, Descriptors
    <2>2. OnFile' = OnFile
      BY <1>4, <2>1 DEF OpenTmp, OnFile, TypeOK
    <2>3. QED
      BY <1>4, <2>2, SoleWriterOpen
  <1>5. ASSUME NEW r \in Runs, NEW l \in Openings, WriteLine(r, l)
        PROVE  Goal
    <2>1. fd[r] # ledgerAt
      BY <1>5 DEF WriteLine, SoleWriter, Descriptors
    <2>2. OnFile' = OnFile
      BY <1>5, <2>1 DEF WriteLine, OnFile, TypeOK
    <2>3. QED
      BY <1>5, <2>2, SoleWriterWrite
  <1>6. ASSUME NEW r \in Runs, Rename(r)
        PROVE  Goal
    BY <1>6, SoleWriterRename DEF Rename
  <1>7. ASSUME NEW r \in Runs, Die(r)
        PROVE  Goal
    BY <1>7, SoleWriterDie
  <1>8. CASE UNCHANGED vars
    BY <1>8, SoleWriterElse DEF vars, memory
  <1>9. QED
    BY <1>1, <1>2, <1>3, <1>4, <1>5, <1>6, <1>7, <1>8 DEF Next

LEMMA OverlapStays ==
  ASSUME TypeOK, [Next]_vars
  PROVE  overlap \subseteq overlap'
  BY DEF Next, Load, Deliver, DeliveryFails, OpenTmp, NoteSaving, WriteLine,
         Rename, Die, vars

-----------------------------------------------------------------------------
(* One run, as long as no runs overlap *)

LEMMA SoleRunNext ==
  ASSUME TypeOK, Descriptors, SoleWriter, SoleRun, [Next]_vars, overlap' = {}
  PROVE  SoleRun' /\ Lines(OnFile) \subseteq Lines(OnFile)'
  <1>1. CASE \E r \in Runs, seen \in SUBSET Openings : Load(r, seen)
    <2>1. PICK r \in Runs, seen \in SUBSET Openings : Load(r, seen)
      BY <1>1
    <2>2. OnFile' = OnFile
      BY <2>1 DEF Load, OnFile, files
    <2>3. \A q \in Runs \ {r} : pc[q] = "idle"
      BY <2>1 DEF Load
    <2>4. pc' = [pc EXCEPT ![r] = "delivering"] /\ ledger'[r] = Lines(OnFile) \cup seen
      BY <2>1 DEF Load, TypeOK
    <2>5. \A q \in Runs : pc'[q] # "idle" => q = r
      BY <2>3, <2>4 DEF TypeOK
    <2>6. QED
      BY <2>2, <2>4, <2>5 DEF SoleRun
  <1>2. CASE ~\E r \in Runs, seen \in SUBSET Openings : Load(r, seen)
    <2>1. \A q \in Runs : pc'[q] # "idle" => pc[q] # "idle" /\ ledger'[q] = ledger[q]
      <3>1. ASSUME NEW r \in Runs, End(r)
            PROVE  \A q \in Runs : pc'[q] # "idle" => pc[q] # "idle" /\ ledger'[q] = ledger[q]
        BY <3>1 DEF End, TypeOK
      <3>2. ASSUME NEW r \in Runs, NEW o \in Openings, Deliver(r, o)
            PROVE  UNCHANGED <<pc, ledger>>
        BY <3>2 DEF Deliver
      <3>3. ASSUME NEW r \in Runs, NEW i \in Inodes, OpenTmp(r, i)
            PROVE  pc[r] # "idle" /\ pc' = [pc EXCEPT ![r] = "writing"] /\ ledger' = ledger
        BY <3>3 DEF OpenTmp
      <3>4. ASSUME NEW r \in Runs, NEW l \in Openings, WriteLine(r, l)
            PROVE  UNCHANGED <<pc, ledger>>
        BY <3>4 DEF WriteLine
      <3>5. CASE UNCHANGED vars
        BY <3>5 DEF vars, memory
      <3>6. CASE \E r \in Runs, i \in Inodes : OpenTmp(r, i)
        BY <3>3, <3>6 DEF TypeOK
      <3>7. CASE \E r \in Runs : End(r)
        BY <3>1, <3>7
      <3>8. QED
        BY <1>2, <3>2, <3>4, <3>5, <3>6, <3>7 DEF Next, DeliveryFails, Rename, Die
    <2>2. \A q \in Runs : pc[q] # "idle" => Lines(OnFile) \subseteq ledger[q]
      BY DEF SoleRun
    <2>3. CASE OnFile' = OnFile
      BY <2>1, <2>2, <2>3 DEF SoleRun
    <2>4. CASE \E r \in Runs : pc[r] # "idle" /\ Lines(OnFile)' = ledger[r]
      <3>1. PICK r \in Runs : pc[r] # "idle" /\ Lines(OnFile)' = ledger[r]
        BY <2>4
      <3>2. \A q \in Runs : pc[q] # "idle" => q = r
        BY <3>1 DEF SoleRun
      <3>3. QED
        BY <2>1, <2>2, <3>1, <3>2 DEF SoleRun
    <2>5. QED
      BY <2>3, <2>4, SoleWriterNext
  <1>3. QED
    BY <1>1, <1>2

-----------------------------------------------------------------------------
(* Theorems *)

\* The inductive invariant of the ledger file.
THEOREM FileInvariant == Spec => []FileInv
  <1>1. Init => FileInv
    <2>1. SUFFICES ASSUME Init PROVE FileInv
      OBVIOUS
    <2>2. Lines(<<>>) = {} /\ OnFile = <<>>
      BY <2>1 DEF Lines, Init, OnFile
    <2>3. OnlyTold /\ Descriptors /\ SoleRun
      BY <2>1, <2>2 DEF Init, OnlyTold, Descriptors, SoleRun
    <2>4. SoleWriter
      BY <2>1, <2>2 DEF Init, SoleWriter, Whole
    <2>5. QED
      BY <2>1, <2>3, <2>4, TypeInit DEF FileInv, Init
  <1>2. FileInv /\ [Next]_vars => FileInv'
    <2>1. SUFFICES ASSUME FileInv, [Next]_vars PROVE FileInv'
      OBVIOUS
    <2>2. TypeOK' /\ OnlyTold' /\ Descriptors' /\ overlap \subseteq overlap'
      BY <2>1, TypeNext, OnlyToldNext, DescriptorsNext, OverlapStays DEF FileInv
    <2>3. "saves" \notin overlap' => SoleWriter'
      BY <2>1, <2>2, SoleWriterNext DEF FileInv
    <2>4. overlap' = {} => SoleRun'
      BY <2>1, <2>2, SoleRunNext DEF FileInv
    <2>5. QED
      BY <2>2, <2>3, <2>4 DEF FileInv
  <1>3. QED
    BY <1>1, <1>2, PTL DEF Spec

\* Every variable stays in its type (the ledger file's TypeOK).
THEOREM FileTypeCorrect == Spec => []TypeOK
  <1>1. FileInv => TypeOK
    BY DEF FileInv
  <1>2. QED
    BY <1>1, FileInvariant, PTL

\* Nothing is on file that was not announced, with any number of overlapping
\* runs (runNotify delivers before it saves).
THEOREM RecordedIsSent == Spec => []RecordedWasSent
  <1>1. FileInv => RecordedWasSent
    <2>1. SUFFICES ASSUME FileInv PROVE RecordedWasSent
      OBVIOUS
    <2>2. Lines(<<>>) = {}
      BY DEF Lines
    <2>3. QED
      BY <2>1, <2>2 DEF FileInv, TypeOK, OnlyTold, OnFile, RecordedWasSent
  <1>2. QED
    BY <1>1, FileInvariant, PTL

\* The temporary file and the rename keep the ledger whole across interrupted
\* writes as long as saves do not overlap (Save).
THEOREM FileIsWhole == Spec => []WholeUnlessSavesOverlap
  <1>1. FileInv => WholeUnlessSavesOverlap
    BY DEF FileInv, SoleWriter, WholeUnlessSavesOverlap
  <1>2. QED
    BY <1>1, FileInvariant, PTL

\* Runs that do not overlap take no line off the file (LoadLedger, Save).
THEOREM FileRemembers == Spec => RemembersUnlessRunsOverlap
  <1>1. FileInv /\ [Next]_vars =>
            [overlap' = {} => Lines(OnFile) \subseteq Lines(OnFile')]_vars
    <2>1. SUFFICES ASSUME FileInv, [Next]_vars, overlap' = {}
                   PROVE  Lines(OnFile) \subseteq Lines(OnFile')
      OBVIOUS
    <2>2. overlap = {}
      BY <2>1, OverlapStays DEF FileInv
    <2>3. QED
      BY <2>1, <2>2, SoleRunNext DEF FileInv, Lines
  <1>2. QED
    BY <1>1, FileInvariant, PTL DEF Spec, RemembersUnlessRunsOverlap

=============================================================================

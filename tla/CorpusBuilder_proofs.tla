------------------------ MODULE CorpusBuilder_proofs ------------------------
(***************************************************************************)
(* Proofs about the corpus builder, for any providers, items, options and  *)
(* any number of runs and faults.                                          *)
(***************************************************************************)
EXTENDS CorpusBuilder, TLAPS

ItemStates == {"queued", "cancelled", "collected"} \cup Busy \cup Results
Commands == [force : BOOLEAN, jobs : Nat \ {0}, target : Nat, refresh : BOOLEAN]

TypeOK ==
    /\ disk \in [Paths -> Binary \cup {NoFile}]
    /\ item \in [Paths -> ItemStates]
    /\ run \in 0..MaxRuns
    /\ phase \in Phases
    /\ opt \in Commands
    /\ phase # "idle" => run \in RunIds
    /\ orphans \subseteq Orphan

\* What killed runs have left running is of runs known to leave binaries.
OrphansCut == \A o \in orphans : o.by \in cut

\* A binary is on record, or was left by a run known to leave some.
Listed(list, p) == p \in DOMAIN list /\ list[p] = disk[p]
Left(p) == disk[p].by \in cut

\* What this run has recorded is on disk, unless a killed run's go build has
\* written over it since, and is not worked on any more.
RecordsStand ==
    /\ DOMAIN records \subseteq Paths
    /\ \A p \in DOMAIN records : records[p] = disk[p] \/ Left(p)
    /\ phase \in {"build", "drain", "unwind"} =>
          \A p \in DOMAIN records : item[p] = "collected"

\* A binary is being made by this run and its result has not been collected.
InFlight(p) ==
    p \in Here /\ item[p] \in {"writing", "ok", "raised"} /\ disk[p].by = run

\* Where the main thread is decides where a binary is accounted for.  Until the
\* manifest is rewritten, what this run has not made is where it was accounted
\* for before, even if it is on this run's records.
Accounts ==
    ~wiped => \A p \in Paths : Exists(p) =>
        /\ phase \in Ended => Listed(manifest, p) \/ Left(p)
        /\ phase \in {"build", "drain", "unwind", "open"} =>
              Listed(manifest, p) \/ Left(p) \/ disk[p].by = run
        /\ phase \in {"build", "drain"} =>
              p \in DOMAIN records \/ Listed(manifest, p) \/ Left(p) \/ InFlight(p)
        /\ phase = "open" => p \in DOMAIN records \/ Listed(manifest, p) \/ Left(p)
        /\ phase = "write" => Listed(rendered, p) \/ Left(p)

\* Without --force nothing is built where a binary is, and what is being
\* written is not complete, unless a killed run's go build is at work there too.
BuildsMissing ==
    ~opt.force => \A p \in Paths \ Orphaned :
        /\ item[p] = "building" => ~Exists(p)
        /\ item[p] = "writing" => ~disk[p].whole

\* The inductive invariant.
Inv == TypeOK /\ OrphansCut /\ RecordsStand /\ Accounts /\ BuildsMissing
-----------------------------------------------------------------------------
\* The builder starts with no binary and no manifest.
LEMMA InvInit == Init => Inv
<1> SUFFICES ASSUME Init PROVE Inv
  OBVIOUS
<1> USE CorpusAssumption DEF Init
<1>1. TypeOK
  BY DEF TypeOK, ItemStates, Phases, Commands
<1>2. RecordsStand
  BY DEF RecordsStand, Nothing
<1>3. Accounts
  BY DEF Accounts, Exists
<1>4. BuildsMissing
  BY DEF BuildsMissing
<1>5. OrphansCut
  BY DEF OrphansCut
<1> QED BY <1>1, <1>2, <1>3, <1>4, <1>5 DEF Inv

\* A go build that goes on stays one of those that were left, at its path.
LEMMA OrphansStay ==
    ASSUME orphans \subseteq Orphan, NEW o \in orphans, NEW from, NEW to, OrphanGoes(o, from, to)
    PROVE  Orphaned' = Orphaned
<1> DEFINE then == [o EXCEPT !.stage = to]
<1>1. orphans' = (orphans \ {o}) \cup {then}
  BY DEF OrphanGoes
<1>2. then.path = o.path
  BY DEF Orphan
<1> HIDE DEF then
<1>3. ASSUME NEW p \in Orphaned PROVE p \in Orphaned'
  <2>1. PICK o1 \in orphans : p = o1.path
    BY <1>3 DEF Orphaned
  <2>2. CASE o1 = o
    BY <1>1, <1>2, <2>1, <2>2 DEF Orphaned
  <2>3. CASE o1 # o
    <3>1. o1 \in orphans'
      BY <1>1, <2>1, <2>3
    <3> QED BY <2>1, <3>1 DEF Orphaned
  <2> QED BY <2>2, <2>3
<1>4. ASSUME NEW p \in Orphaned' PROVE p \in Orphaned
  <2>1. PICK o1 \in orphans' : p = o1.path
    BY <1>4 DEF Orphaned
  <2>2. o1 = then \/ o1 \in orphans
    BY <1>1, <2>1
  <2> QED BY <1>2, <2>1, <2>2 DEF Orphaned
<1> QED BY <1>3, <1>4

\* Every step keeps the invariant.
LEMMA InvStep == Inv /\ [Next]_vars => Inv'
<1> SUFFICES ASSUME Inv, [Next]_vars PROVE Inv'
  OBVIOUS
<1> USE CorpusAssumption
<1> USE DEF Inv, main, history, ItemStates, Busy, Results, Ended, Here
<1>1. ASSUME NEW k \in 1..Len(Queue[at]), TakeExisting(k) PROVE Inv'
  <2>1. TypeOK'
    BY <1>1 DEF TakeExisting, Takes, ItemGoes, TypeOK, Phases, Binary, RunIds, Commands, Orphan, Direct
  <2>2. RecordsStand'
    BY <1>1 DEF TakeExisting, Takes, ItemGoes, TypeOK, OrphansCut, RecordsStand, Left, Exists
  <2>3. Accounts'
    BY <1>1 DEF TakeExisting, Takes, ItemGoes, TypeOK, OrphansCut, RecordsStand, Accounts, Listed, Left, InFlight, Exists, Phases
  <2>4. BuildsMissing'
    BY <1>1 DEF TakeExisting, Takes, ItemGoes, TypeOK, BuildsMissing, Orphaned, Exists
  <2>5. OrphansCut'
    BY <1>1 DEF TakeExisting, Takes, ItemGoes, TypeOK, OrphansCut
  <2> QED BY <2>1, <2>2, <2>3, <2>4, <2>5
<1>2. ASSUME NEW k \in 1..Len(Queue[at]), TakeMissing(k) PROVE Inv'
  <2>1. TypeOK'
    BY <1>2 DEF TakeMissing, Takes, ItemGoes, TypeOK, Phases, Binary, RunIds, Commands, Orphan, Direct
  <2>2. RecordsStand'
    BY <1>2 DEF TakeMissing, Takes, ItemGoes, TypeOK, OrphansCut, RecordsStand, Left, Exists
  <2>3. Accounts'
    BY <1>2 DEF TakeMissing, Takes, ItemGoes, TypeOK, OrphansCut, RecordsStand, Accounts, Listed, Left, InFlight, Exists, Phases
  <2>4. BuildsMissing'
    BY <1>2 DEF TakeMissing, Takes, ItemGoes, TypeOK, BuildsMissing, Orphaned, Exists
  <2>5. OrphansCut'
    BY <1>2 DEF TakeMissing, Takes, ItemGoes, TypeOK, OrphansCut
  <2> QED BY <2>1, <2>2, <2>3, <2>4, <2>5
<1>3. ASSUME NEW p \in Paths, BuildFails(p) PROVE Inv'
  <2>1. TypeOK'
    BY <1>3 DEF BuildFails, ItemGoes, TypeOK, Phases, Binary, RunIds, Commands, Orphan, Direct
  <2>2. RecordsStand'
    BY <1>3 DEF BuildFails, ItemGoes, TypeOK, OrphansCut, RecordsStand, Left, Exists
  <2>3. Accounts'
    BY <1>3 DEF BuildFails, ItemGoes, TypeOK, OrphansCut, RecordsStand, Accounts, Listed, Left, InFlight, Exists, Phases
  <2>4. BuildsMissing'
    BY <1>3 DEF BuildFails, ItemGoes, TypeOK, BuildsMissing, Orphaned, Exists
  <2>5. OrphansCut'
    BY <1>3 DEF BuildFails, ItemGoes, TypeOK, OrphansCut
  <2> QED BY <2>1, <2>2, <2>3, <2>4, <2>5
<1>4. ASSUME NEW p \in Paths, BuildTimesOut(p) PROVE Inv'
  <2>1. TypeOK'
    BY <1>4 DEF BuildTimesOut, ItemGoes, Fault, TypeOK, Phases, Binary, RunIds, Commands, Orphan, Direct
  <2>2. RecordsStand'
    BY <1>4 DEF BuildTimesOut, ItemGoes, Fault, TypeOK, OrphansCut, RecordsStand, Left, Exists
  <2>3. Accounts'
    BY <1>4 DEF BuildTimesOut, ItemGoes, Fault, TypeOK, OrphansCut, RecordsStand, Accounts, Listed, Left, InFlight, Exists, Phases
  <2>4. BuildsMissing'
    BY <1>4 DEF BuildTimesOut, ItemGoes, Fault, TypeOK, BuildsMissing, Orphaned, Exists
  <2>5. OrphansCut'
    BY <1>4 DEF BuildTimesOut, ItemGoes, Fault, TypeOK, OrphansCut
  <2> QED BY <2>1, <2>2, <2>3, <2>4, <2>5
<1>5. ASSUME NEW p \in Paths, WriteStarts(p) PROVE Inv'
  <2>1. TypeOK'
    BY <1>5 DEF WriteStarts, ItemGoes, TypeOK, Phases, Binary, RunIds, Commands, Orphan, Direct
  <2>2. RecordsStand'
    BY <1>5 DEF WriteStarts, ItemGoes, TypeOK, OrphansCut, RecordsStand, Left, Exists
  <2>3. Accounts'
    BY <1>5 DEF WriteStarts, ItemGoes, TypeOK, OrphansCut, RecordsStand, Accounts, Listed, Left, InFlight, Exists, Phases
  <2>4. BuildsMissing'
    BY <1>5 DEF WriteStarts, ItemGoes, TypeOK, BuildsMissing, Orphaned, Exists
  <2>5. OrphansCut'
    BY <1>5 DEF WriteStarts, ItemGoes, TypeOK, OrphansCut
  <2> QED BY <2>1, <2>2, <2>3, <2>4, <2>5
<1>6. ASSUME NEW p \in Paths, Written(p) PROVE Inv'
  <2>1. TypeOK'
    BY <1>6 DEF Written, ItemGoes, TypeOK, Phases, Binary, RunIds, Commands, Orphan, Direct
  <2>2. RecordsStand'
    BY <1>6 DEF Written, ItemGoes, TypeOK, OrphansCut, RecordsStand, Left, Exists
  <2>3. Accounts'
    BY <1>6 DEF Written, ItemGoes, TypeOK, OrphansCut, RecordsStand, Accounts, Listed, Left, InFlight, Exists, Phases
  <2>4. BuildsMissing'
    BY <1>6 DEF Written, ItemGoes, TypeOK, BuildsMissing, Orphaned, Exists
  <2>5. OrphansCut'
    BY <1>6 DEF Written, ItemGoes, TypeOK, OrphansCut
  <2> QED BY <2>1, <2>2, <2>3, <2>4, <2>5
<1>7. ASSUME NEW p \in Paths, WriteFails(p) PROVE Inv'
  <2>1. TypeOK'
    BY <1>7 DEF WriteFails, ItemGoes, Fault, TypeOK, Phases, Binary, RunIds, Commands, Orphan, Direct
  <2>2. RecordsStand'
    BY <1>7 DEF WriteFails, ItemGoes, Fault, TypeOK, OrphansCut, RecordsStand, Left, Exists
  <2>3. Accounts'
    BY <1>7 DEF WriteFails, ItemGoes, Fault, TypeOK, OrphansCut, RecordsStand, Accounts, Listed, Left, InFlight, Exists, Phases
  <2>4. BuildsMissing'
    BY <1>7 DEF WriteFails, ItemGoes, Fault, TypeOK, BuildsMissing, Orphaned, Exists
  <2>5. OrphansCut'
    BY <1>7 DEF WriteFails, ItemGoes, Fault, TypeOK, OrphansCut
  <2> QED BY <2>1, <2>2, <2>3, <2>4, <2>5
<1>8. ASSUME NEW p \in Paths, CollectRecord(p) PROVE Inv'
  <2>1. TypeOK'
    BY <1>8 DEF CollectRecord, Collected, Record, In, TypeOK, Phases, Binary, RunIds, Commands, Orphan, Direct
  <2>2. RecordsStand'
    BY <1>8 DEF CollectRecord, Collected, Record, In, TypeOK, OrphansCut, RecordsStand, Left, Exists
  <2>3. Accounts'
    BY <1>8 DEF CollectRecord, Collected, Record, In, TypeOK, OrphansCut, RecordsStand, Accounts, Listed, Left, InFlight, Exists, Phases
  <2>4. BuildsMissing'
    BY <1>8 DEF CollectRecord, Collected, Record, In, TypeOK, BuildsMissing, Orphaned, Exists
  <2>5. OrphansCut'
    BY <1>8 DEF CollectRecord, Collected, Record, In, TypeOK, OrphansCut
  <2> QED BY <2>1, <2>2, <2>3, <2>4, <2>5
<1>9. ASSUME NEW p \in Paths, CollectLast(p) PROVE Inv'
  <2>1. TypeOK'
    BY <1>9 DEF CollectLast, Collected, Cancelled, Record, In, TypeOK, Phases, Binary, RunIds, Commands, Orphan, Direct
  <2>2. RecordsStand'
    BY <1>9 DEF CollectLast, Collected, Cancelled, Record, In, TypeOK, OrphansCut, RecordsStand, Left, Exists
  <2>3. Accounts'
    BY <1>9 DEF CollectLast, Collected, Cancelled, Record, In, TypeOK, OrphansCut, RecordsStand, Accounts, Listed, Left, InFlight, Exists, Phases
  <2>4. BuildsMissing'
    BY <1>9 DEF CollectLast, Collected, Cancelled, Record, In, TypeOK, BuildsMissing, Orphaned, Exists
  <2>5. OrphansCut'
    BY <1>9 DEF CollectLast, Collected, Cancelled, Record, In, TypeOK, OrphansCut
  <2> QED BY <2>1, <2>2, <2>3, <2>4, <2>5
<1>10. ASSUME NEW p \in Paths, CollectNone(p) PROVE Inv'
  <2>1. TypeOK'
    BY <1>10 DEF CollectNone, Collected, In, TypeOK, Phases, Binary, RunIds, Commands, Orphan, Direct
  <2>2. RecordsStand'
    BY <1>10 DEF CollectNone, Collected, In, TypeOK, OrphansCut, RecordsStand, Left, Exists
  <2>3. Accounts'
    BY <1>10 DEF CollectNone, Collected, In, TypeOK, OrphansCut, RecordsStand, Accounts, Listed, Left, InFlight, Exists, Phases
  <2>4. BuildsMissing'
    BY <1>10 DEF CollectNone, Collected, In, TypeOK, BuildsMissing, Orphaned, Exists
  <2>5. OrphansCut'
    BY <1>10 DEF CollectNone, Collected, In, TypeOK, OrphansCut
  <2> QED BY <2>1, <2>2, <2>3, <2>4, <2>5
<1>11. ASSUME NEW p \in Paths, CollectRaised(p) PROVE Inv'
  <2>1. TypeOK'
    BY <1>11 DEF CollectRaised, Collected, Cancelled, In, TypeOK, Phases, Binary, RunIds, Commands, Orphan, Direct
  <2>2. RecordsStand'
    BY <1>11 DEF CollectRaised, Collected, Cancelled, In, TypeOK, OrphansCut, RecordsStand, Left, Exists
  <2>3. Accounts'
    BY <1>11 DEF CollectRaised, Collected, Cancelled, In, TypeOK, OrphansCut, RecordsStand, Accounts, Listed, Left, InFlight, Exists, Phases
  <2>4. BuildsMissing'
    BY <1>11 DEF CollectRaised, Collected, Cancelled, In, TypeOK, BuildsMissing, Orphaned, Exists
  <2>5. OrphansCut'
    BY <1>11 DEF CollectRaised, Collected, Cancelled, In, TypeOK, OrphansCut
  <2> QED BY <2>1, <2>2, <2>3, <2>4, <2>5
<1>12. ASSUME LeaveProvider PROVE Inv'
  <2>1. TypeOK'
    BY <1>12 DEF LeaveProvider, In, Proceed, TypeOK, Phases, Binary, RunIds, Commands, Orphan, Direct
  <2>2. RecordsStand'
    BY <1>12 DEF LeaveProvider, In, Proceed, TypeOK, OrphansCut, RecordsStand, Left, Exists
  <2>3. Accounts'
    BY <1>12 DEF LeaveProvider, In, Proceed, TypeOK, OrphansCut, RecordsStand, Accounts, Listed, Left, InFlight, Exists, Phases
  <2>4. BuildsMissing'
    BY <1>12 DEF LeaveProvider, In, Proceed, TypeOK, BuildsMissing, Orphaned, Exists
  <2>5. OrphansCut'
    BY <1>12 DEF LeaveProvider, In, Proceed, TypeOK, OrphansCut
  <2> QED BY <2>1, <2>2, <2>3, <2>4, <2>5
<1>13. ASSUME Drain PROVE Inv'
  <2>1. TypeOK'
    BY <1>13 DEF Drain, In, Proceed, TypeOK, Phases, Binary, RunIds, Commands, Orphan, Direct
  <2>2. RecordsStand'
    BY <1>13 DEF Drain, In, Proceed, TypeOK, OrphansCut, RecordsStand, Left, Exists
  <2>3. Accounts'
    BY <1>13 DEF Drain, In, Proceed, TypeOK, OrphansCut, RecordsStand, Accounts, Listed, Left, InFlight, Exists, Phases
  <2>4. BuildsMissing'
    BY <1>13 DEF Drain, In, Proceed, TypeOK, BuildsMissing, Orphaned, Exists
  <2>5. OrphansCut'
    BY <1>13 DEF Drain, In, Proceed, TypeOK, OrphansCut
  <2> QED BY <2>1, <2>2, <2>3, <2>4, <2>5
<1>14. ASSUME Unwind PROVE Inv'
  <2>1. TypeOK'
    BY <1>14 DEF Unwind, TypeOK, Phases, Binary, RunIds, Commands, Orphan, Direct
  <2>2. RecordsStand'
    BY <1>14 DEF Unwind, TypeOK, OrphansCut, RecordsStand, Left, Exists
  <2>3. Accounts'
    BY <1>14 DEF Unwind, TypeOK, OrphansCut, RecordsStand, Accounts, Listed, Left, InFlight, Exists, Phases
  <2>4. BuildsMissing'
    BY <1>14 DEF Unwind, TypeOK, BuildsMissing, Orphaned, Exists
  <2>5. OrphansCut'
    BY <1>14 DEF Unwind, TypeOK, OrphansCut
  <2> QED BY <2>1, <2>2, <2>3, <2>4, <2>5
<1>15. ASSUME OpenManifest PROVE Inv'
  <2>1. TypeOK'
    BY <1>15 DEF OpenManifest, Merged, Nothing, TypeOK, Phases, Binary, RunIds, Commands, Orphan, Direct
  <2>2. RecordsStand'
    BY <1>15 DEF OpenManifest, Merged, Nothing, TypeOK, OrphansCut, RecordsStand, Left, Exists
  <2>3. Accounts'
    BY <1>15 DEF OpenManifest, Merged, Nothing, TypeOK, OrphansCut, RecordsStand, Accounts, Listed, Left, InFlight, Exists, Phases
  <2>4. BuildsMissing'
    BY <1>15 DEF OpenManifest, Merged, Nothing, TypeOK, BuildsMissing, Orphaned, Exists
  <2>5. OrphansCut'
    BY <1>15 DEF OpenManifest, Merged, Nothing, TypeOK, OrphansCut
  <2> QED BY <2>1, <2>2, <2>3, <2>4, <2>5
<1>16. ASSUME CloseManifest PROVE Inv'
  <2>1. TypeOK'
    BY <1>16 DEF CloseManifest, TypeOK, Phases, Binary, RunIds, Commands, Orphan, Direct
  <2>2. RecordsStand'
    BY <1>16 DEF CloseManifest, TypeOK, OrphansCut, RecordsStand, Left, Exists
  <2>3. Accounts'
    BY <1>16 DEF CloseManifest, TypeOK, OrphansCut, RecordsStand, Accounts, Listed, Left, InFlight, Exists, Phases
  <2>4. BuildsMissing'
    BY <1>16 DEF CloseManifest, TypeOK, BuildsMissing, Orphaned, Exists
  <2>5. OrphansCut'
    BY <1>16 DEF CloseManifest, TypeOK, OrphansCut
  <2> QED BY <2>1, <2>2, <2>3, <2>4, <2>5
<1>17. ASSUME Kill PROVE Inv'
  <2>1. TypeOK'
    BY <1>17 DEF Kill, TypeOK, Phases, Binary, RunIds, Commands, Orphan, Direct
  <2>2. RecordsStand'
    BY <1>17 DEF Kill, TypeOK, OrphansCut, RecordsStand, Left, Exists
  <2>3. Accounts'
    BY <1>17 DEF Kill, TypeOK, OrphansCut, RecordsStand, Accounts, Listed, Left, InFlight, Exists, Phases
  <2>4. BuildsMissing'
    BY <1>17 DEF Kill, TypeOK, BuildsMissing, Orphaned, Exists
  <2>5. OrphansCut'
    BY <1>17 DEF Kill, TypeOK, OrphansCut
  <2> QED BY <2>1, <2>2, <2>3, <2>4, <2>5
<1>18. ASSUME NEW o \in UNION {Options[r] : r \in RunIds}, StartRun(o) PROVE Inv'
  <2>1. TypeOK'
    BY <1>18 DEF StartRun, Existing, Nothing, TypeOK, Phases, Binary, RunIds, Commands, Orphan, Direct
  <2>2. RecordsStand'
    BY <1>18 DEF StartRun, Existing, Nothing, TypeOK, OrphansCut, RecordsStand, Left, Exists
  <2>3. Accounts'
    BY <1>18 DEF StartRun, Existing, Nothing, TypeOK, OrphansCut, RecordsStand, Accounts, Listed, Left, InFlight, Exists, Phases
  <2>4. BuildsMissing'
    BY <1>18 DEF StartRun, Existing, Nothing, TypeOK, BuildsMissing, Orphaned, Exists
  <2>5. OrphansCut'
    BY <1>18 DEF StartRun, Existing, Nothing, TypeOK, OrphansCut
  <2> QED BY <2>1, <2>2, <2>3, <2>4, <2>5
<1>19. ASSUME NEW o \in orphans, OrphanStarts(o) PROVE Inv'
  <2>1. TypeOK'
    BY <1>19 DEF OrphanStarts, OrphanGoes, TypeOK, Phases, Binary, RunIds, Commands, Orphan, Direct
  <2>2. RecordsStand'
    BY <1>19 DEF OrphanStarts, OrphanGoes, TypeOK, OrphansCut, RecordsStand, Left, Exists, Orphan, Direct
  <2>3. Accounts'
    BY <1>19 DEF OrphanStarts, OrphanGoes, TypeOK, OrphansCut, RecordsStand, Accounts, Listed, Left, InFlight, Exists, Phases, Orphan, Direct
  <2>4. BuildsMissing'
    <3>1. Orphaned' = Orphaned
      BY <1>19, OrphansStay DEF OrphanStarts, TypeOK
    <3>2. \A p \in Paths \ Orphaned : disk'[p] = disk[p]
      BY <1>19 DEF OrphanStarts, OrphanGoes, Orphaned, TypeOK
    <3>3. item' = item /\ opt' = opt
      BY <1>19 DEF OrphanStarts, OrphanGoes
    <3> QED BY <3>1, <3>2, <3>3 DEF BuildsMissing, Exists
  <2>5. OrphansCut'
    BY <1>19 DEF OrphanStarts, OrphanGoes, TypeOK, OrphansCut, Orphan
  <2> QED BY <2>1, <2>2, <2>3, <2>4, <2>5
<1>20. ASSUME NEW o \in orphans, OrphanWrites(o) PROVE Inv'
  <2>1. TypeOK'
    BY <1>20 DEF OrphanWrites, OrphanGoes, TypeOK, Phases, Binary, RunIds, Commands, Orphan, Direct
  <2>2. RecordsStand'
    BY <1>20 DEF OrphanWrites, OrphanGoes, TypeOK, OrphansCut, RecordsStand, Left, Exists, Orphan, Direct
  <2>3. Accounts'
    BY <1>20 DEF OrphanWrites, OrphanGoes, TypeOK, OrphansCut, RecordsStand, Accounts, Listed, Left, InFlight, Exists, Phases, Orphan, Direct
  <2>4. BuildsMissing'
    <3>1. Orphaned' = Orphaned
      BY <1>20, OrphansStay DEF OrphanWrites, TypeOK
    <3>2. \A p \in Paths \ Orphaned : disk'[p] = disk[p]
      BY <1>20 DEF OrphanWrites, OrphanGoes, Orphaned, TypeOK
    <3>3. item' = item /\ opt' = opt
      BY <1>20 DEF OrphanWrites, OrphanGoes
    <3> QED BY <3>1, <3>2, <3>3 DEF BuildsMissing, Exists
  <2>5. OrphansCut'
    BY <1>20 DEF OrphanWrites, OrphanGoes, TypeOK, OrphansCut, Orphan
  <2> QED BY <2>1, <2>2, <2>3, <2>4, <2>5
<1>21. ASSUME NEW o \in orphans, OrphanFails(o) PROVE Inv'
  <2>1. TypeOK'
    BY <1>21 DEF OrphanFails, OrphanGoes, TypeOK, Phases, Binary, RunIds, Commands, Orphan, Direct
  <2>2. RecordsStand'
    BY <1>21 DEF OrphanFails, OrphanGoes, TypeOK, OrphansCut, RecordsStand, Left, Exists, Orphan, Direct
  <2>3. Accounts'
    BY <1>21 DEF OrphanFails, OrphanGoes, TypeOK, OrphansCut, RecordsStand, Accounts, Listed, Left, InFlight, Exists, Phases, Orphan, Direct
  <2>4. BuildsMissing'
    <3>1. Orphaned' = Orphaned
      BY <1>21, OrphansStay DEF OrphanFails, TypeOK
    <3>2. \A p \in Paths \ Orphaned : disk'[p] = disk[p]
      BY <1>21 DEF OrphanFails, OrphanGoes, Orphaned, TypeOK
    <3>3. item' = item /\ opt' = opt
      BY <1>21 DEF OrphanFails, OrphanGoes
    <3> QED BY <3>1, <3>2, <3>3 DEF BuildsMissing, Exists
  <2>5. OrphansCut'
    BY <1>21 DEF OrphanFails, OrphanGoes, TypeOK, OrphansCut, Orphan
  <2> QED BY <2>1, <2>2, <2>3, <2>4, <2>5
<1>22. ASSUME UNCHANGED vars PROVE Inv'
  <2>1. TypeOK'
    BY <1>22 DEF vars, TypeOK
  <2>2. OrphansCut' /\ RecordsStand' /\ BuildsMissing'
    BY <1>22 DEF vars, OrphansCut, RecordsStand, BuildsMissing, Orphaned, Left, Exists
  <2>3. Accounts'
    BY <1>22 DEF vars, Accounts, Listed, Left, InFlight, Exists
  <2> QED BY <2>1, <2>2, <2>3
<1> QED
  BY <1>1, <1>2, <1>3, <1>4, <1>5, <1>6, <1>7, <1>8, <1>9, <1>10, <1>11, <1>12, <1>13, <1>14, <1>15, <1>16, <1>17, <1>18, <1>19, <1>20, <1>21, <1>22
  DEF Next, Take, ItemStep, MainStep, Collect, OrphanStep

\* Between runs nothing is in flight: the manifest accounts for what is there.
LEMMA InvTells == Inv => ManifestAccounts
  BY DEF Inv, Accounts, ManifestAccounts, Ended, Listed, Left

\* A step changes a complete binary only under --force and in a run, or where a
\* killed run has left a go build.
LEMMA StepKeeps ==
    ASSUME Inv, [Next]_vars, NEW p \in Paths, Exists(p), disk[p].whole, disk'[p] # disk[p]
    PROVE  (opt.force /\ phase \notin Ended) \/ p \in Orphaned
<1> USE DEF Inv, Ended, main, history
<1>1. CASE \E q \in Paths : WriteStarts(q) \/ Written(q)
  <2>1. PICK q \in Paths : WriteStarts(q) \/ Written(q)
    BY <1>1
  <2>2. q = p /\ phase \notin Ended /\ item[p] \in {"building", "writing"}
    BY <2>1 DEF WriteStarts, Written, ItemGoes, TypeOK
  <2>3. opt.force \/ p \in Orphaned
    BY <2>2 DEF BuildsMissing, TypeOK, Commands
  <2> QED BY <2>2, <2>3
<1>2. CASE \E o \in orphans : OrphanStarts(o) \/ OrphanWrites(o)
  BY <1>2 DEF OrphanStarts, OrphanWrites, OrphanGoes, Orphaned, TypeOK, Orphan
<1>3. CASE /\ ~ \E q \in Paths : WriteStarts(q) \/ Written(q)
           /\ ~ \E o \in orphans : OrphanStarts(o) \/ OrphanWrites(o)
  <2>1. disk' = disk
    BY <1>3
    DEF Next, vars, StartRun, Take, TakeExisting, TakeMissing, ItemStep, BuildFails,
        BuildTimesOut, WriteFails, MainStep, Collect, CollectRecord, CollectLast, CollectNone,
        CollectRaised, LeaveProvider, Drain, Unwind, OpenManifest, CloseManifest, Kill,
        OrphanStep, OrphanFails
  <2> QED BY <2>1
<1> QED BY <1>1, <1>2, <1>3

\* The types of the variables, for any providers, options and number of runs and faults.
THEOREM TypeCorrect == Spec => []TypeOK
<1>1. Inv => TypeOK
  BY DEF Inv
<1> QED BY <1>1, InvInit, InvStep, PTL DEF Spec

\* Between any two runs of clean_corpus_builder.py the manifest tells the truth of every
\* binary, but for those of runs known to have left some: for any providers and pool.
THEOREM ManifestTells == Spec => []ManifestAccounts
  BY InvInit, InvStep, InvTells, PTL DEF Spec

\* Without --force no run touches a complete binary, unless a go build that a
\* killed run has left was still at work on it when the run began.
THEOREM CompleteBinariesKept == Spec => ExistingKept
<1>1. Inv /\ [Next]_vars =>
        [\A p \in Paths : Exists(p) /\ disk[p].whole /\ disk'[p] # disk[p] =>
             (opt.force /\ phase \notin Ended) \/ p \in Orphaned]_vars
  BY StepKeeps
<1> QED BY <1>1, InvInit, InvStep, PTL DEF Spec, ExistingKept
=============================================================================

------------------------------- MODULE Backup -------------------------------
(***************************************************************************)
(* packages/db/src/backup.ts: db:backup and db:restore of the development  *)
(* database, run from several terminals, stopped at any point, while the   *)
(* application goes on writing.  pg_dump and pg_restore are external: a    *)
(* dump holds the tables of one instant, a restore drops and recreates the *)
(* tables that are in the dump and leaves the others.                      *)
(***************************************************************************)
EXTENDS Integers

CONSTANTS
  Database,    \* databases of the server; Main and Scratch among them, and Main sorts first
  Main, Scratch,
  Table,
  Terminal,    \* processes of the script
  None,
  MaxStamp,    \* bound: backups started
  MaxWrites,   \* bound: writes of the application
  MaxKills     \* bound: processes killed

VARIABLES
  data,        \* database -> table -> version; 0 is a table that is not there
  exists,      \* databases created
  dumps,       \* files of backups/: [stamp, of, tables, whole]
  job,         \* terminal -> its command, or None
  stamp, writes, kills,
  \* History, read by properties only.
  torn,        \* stamps of files whose writer was killed
  taken        \* stamp -> the database pg_dump reported to be dumped whole, or None

vars == <<data, exists, dumps, job, stamp, writes, kills, torn, taken>>

Dump(s, of, whole) == [stamp |-> s, of |-> of, tables |-> data[of], whole |-> whole]

Init ==
  /\ data = [d \in Database |-> [t \in Table |-> IF d = Main THEN 1 ELSE 0]]
  /\ exists = {Main}
  /\ dumps = {} /\ job = [p \in Terminal |-> None]
  /\ stamp = 0 /\ writes = 0 /\ kills = 0
  /\ torn = {} /\ taken = [s \in 1 .. MaxStamp |-> None]

\* The application, or a migration, writes the live database.
Write(t) ==
  /\ writes < MaxWrites /\ writes' = writes + 1
  /\ data' = [data EXCEPT ![Main][t] = @ + 1]
  /\ UNCHANGED <<exists, dumps, job, stamp, kills, torn, taken>>

\* The databases DATABASE_URL may name.
Source == {Main, Scratch}

\* backup: the file is there, and growing, from the start.
StartBackup(p, of) ==
  /\ job[p] = None /\ stamp < MaxStamp /\ of \in exists
  /\ stamp' = stamp + 1
  /\ dumps' = dumps \cup {Dump(stamp', of, FALSE)}
  /\ job' = [job EXCEPT ![p] = [does |-> "backup", file |-> stamp', into |-> of,
                                was |-> data[of], whole |-> TRUE]]
  /\ UNCHANGED <<data, exists, writes, kills, torn, taken>>

FileOf(p) == CHOOSE f \in dumps : f.stamp = job[p].file

\* dockerExec resolves when the client has exited and the file is flushed.
FinishBackup(p) ==
  /\ job[p] # None /\ job[p].does = "backup"
  /\ dumps' = (dumps \ {FileOf(p)}) \cup {[FileOf(p) EXCEPT !.whole = TRUE]}
  /\ taken' = [taken EXCEPT ![job[p].file] = FileOf(p).of]
  /\ job' = [job EXCEPT ![p] = None]
  /\ UNCHANGED <<data, exists, stamp, writes, kills, torn>>

\* Variation: the partial file stays.
Kept(f) == dumps
\* A failed or empty dump is dropped from the directory.
Without(f) == dumps \ {f}

FailBackup(p) ==
  /\ job[p] # None /\ job[p].does = "backup"
  /\ kills < MaxKills /\ kills' = kills + 1
  /\ dumps' = Without(FileOf(p))
  /\ job' = [job EXCEPT ![p] = None]
  /\ UNCHANGED <<data, exists, stamp, writes, torn, taken>>

\* A name is the database, then the time.
LastNamed ==
  IF \E f \in dumps : f.of = Scratch THEN {f \in dumps : f.of = Scratch} ELSE dumps

\* latestBackup: the last name in lexical order, whatever database it is of.
Latest == CHOOSE f \in LastNamed : \A g \in LastNamed : g.stamp <= f.stamp

\* pg_restore -d into
Target(into) == into

\* restore, with --file or of the latest dump; a scratch database is created
\* first.  --clean drops what the dump holds: a file that is not whole fails,
\* at once or after it has dropped.
StartRestore(p, f, into) ==
  /\ job[p] = None /\ f \in dumps
  /\ exists' = exists \cup {into}
  /\ LET d == Target(into) IN
       /\ data' = [data EXCEPT ![d] = [t \in Table |-> IF f.tables[t] > 0 THEN 0 ELSE @[t]]]
       /\ job' = [job EXCEPT ![p] = [does |-> "restore", file |-> f.stamp, into |-> d,
                                     was |-> f.tables, whole |-> f.whole]]
  /\ UNCHANGED <<dumps, stamp, writes, kills, torn, taken>>

RestoreLatest(p, into) == dumps # {} /\ StartRestore(p, Latest, into)

\* Streamed into pg_restore while a backup goes on writing it, a file may be
\* read to its end or not.
FinishRestore(p) ==
  /\ job[p] # None /\ job[p].does = "restore"
  /\ job[p].whole \/ \E f \in dumps : f.stamp = job[p].file /\ f.whole
  /\ data' = [data EXCEPT ![job[p].into] =
                [t \in Table |-> IF job[p].was[t] > 0 THEN job[p].was[t] ELSE @[t]]]
  /\ job' = [job EXCEPT ![p] = None]
  /\ UNCHANGED <<exists, dumps, stamp, writes, kills, torn, taken>>

FailRestore(p) ==
  /\ job[p] # None /\ job[p].does = "restore" /\ ~job[p].whole
  /\ job' = [job EXCEPT ![p] = None]
  /\ UNCHANGED <<data, exists, dumps, stamp, writes, kills, torn, taken>>

\* Ctrl-C, or the machine: nothing is cleaned up.
Kill(p) ==
  /\ job[p] # None /\ kills < MaxKills /\ kills' = kills + 1
  /\ torn' = IF job[p].does = "backup" THEN torn \cup {job[p].file} ELSE torn
  /\ job' = [job EXCEPT ![p] = None]
  /\ UNCHANGED <<data, exists, dumps, stamp, writes, taken>>

Next ==
  \/ \E t \in Table : Write(t)
  \/ \E p \in Terminal :
       \/ \E of \in Source : StartBackup(p, of)
       \/ FinishBackup(p) \/ FailBackup(p)
       \/ FinishRestore(p) \/ FailRestore(p) \/ Kill(p)
       \/ \E into \in Database : \/ RestoreLatest(p, into)
                                 \/ \E f \in dumps : StartRestore(p, f, into)

Spec == Init /\ [][Next]_vars

Writing(s) == \E p \in Terminal : job[p] # None /\ job[p].does = "backup" /\ job[p].file = s

TypeOK ==
  /\ data \in [Database -> [Table -> Nat]] /\ exists \subseteq Database
  /\ \A f \in dumps : f.stamp \in 1 .. stamp /\ f.tables \in [Table -> Nat] /\ f.whole \in BOOLEAN
  /\ stamp \in 0 .. MaxStamp /\ writes \in 0 .. MaxWrites /\ kills \in 0 .. MaxKills

\* A dump that lies in the directory with nobody writing it and whose writer
\* was not killed is whole: a failed backup leaves nothing a restore picks up.
RestingDumpsAreWhole ==
  \A f \in dumps : f.whole \/ Writing(f.stamp) \/ f.stamp \in torn

\* "the safe way to inspect a backup without touching the live dev DB": a step
\* of the script changes the live database only in a restore aimed at it.
ScratchSparesTheLiveStep ==
  \A t \in Table : data'[Main][t] # data[Main][t] =>
    \/ writes' # writes
    \/ \E p \in Terminal, f \in dumps : StartRestore(p, f, Main)
    \/ \E p \in Terminal : job[p] # None /\ job[p].into = Main /\ FinishRestore(p)
ScratchSparesTheLive == [][ScratchSparesTheLiveStep]_vars

\* A restore without --file takes the last backup that was completed, unless a
\* later one is being written or was killed: of those that share the database,
\* since the names sort by it before the time.
LatestIsTheLastTakenStep ==
  \A p \in Terminal, d \in Database : RestoreLatest(p, d) =>
    LET of == Latest.of IN
    (\A s \in 1 .. MaxStamp : ~Writing(s) /\ s \notin torn) =>
      \A s \in 1 .. MaxStamp : taken[s] = of => s <= job'[p].file
LatestIsTheLastTaken == [][LatestIsTheLastTakenStep]_vars

\* "restore the newest dump" (backup.ts:10), whichever database it is of.
NewestIsRestored ==
  [][\A p \in Terminal, d \in Database : RestoreLatest(p, d) =>
       \A g \in dumps : g.stamp <= job'[p].file]_vars

-----------------------------------------------------------------------------
(* What holds of any number of databases, tables and terminals.              *)

Tables == [Table -> Nat]
Command == [does : {"backup", "restore"}, file : 1 .. MaxStamp, into : Database,
            was : Tables, whole : BOOLEAN]
DumpFile == [stamp : 1 .. MaxStamp, of : Source, tables : Tables, whole : BOOLEAN]

\* What the theorems ask of the constants.
Bounds ==
  /\ Source \subseteq Database /\ None \notin Command /\ None \notin Source
  /\ MaxStamp \in Nat /\ MaxWrites \in Nat /\ MaxKills \in Nat

CommandsAreTyped ==
  /\ job \in [Terminal -> Command \cup {None}] /\ dumps \subseteq DumpFile
  /\ taken \in [1 .. MaxStamp -> Source \cup {None}]

\* The name of a dump is its time: no two files, and no two backups, share one.
EachHasItsFile ==
  /\ \A f, g \in dumps : f.stamp = g.stamp => f = g
  /\ \A p \in Terminal : job[p] # None /\ job[p].does = "backup" =>
       /\ \E f \in dumps : f.stamp = job[p].file
       /\ \A q \in Terminal : job[q] # None /\ job[q].does = "backup"
                               /\ job[q].file = job[p].file => q = p

\* What pg_dump has reported whole is in the directory, and nobody writes it.
TakenLie ==
  \A s \in 1 .. MaxStamp : taken[s] # None =>
    s <= stamp /\ ~Writing(s) /\ \E f \in dumps : f.stamp = s /\ f.of = taken[s]

BackupInv ==
  TypeOK /\ CommandsAreTyped /\ EachHasItsFile /\ TakenLie /\ RestingDumpsAreWhole
=============================================================================

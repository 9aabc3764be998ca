---------------------------- MODULE ChartDatabase ----------------------------
(***************************************************************************)
(* The list of the charts the server knows (src/chartdbs.cpp): made by     *)
(* reading the header of every chart file in the configured directories,   *)
(* saved to a file, read back by the next start, changed by the two calls  *)
(* of the plugin interface that add and remove one chart, and read for the *)
(* stack of charts at a position.  Meanwhile chart files come and go, a    *)
(* save may fail, and the process may end at any point.                    *)
(*                                                                         *)
(* A path stands for a file, the numbers for the order in which the sorted *)
(* directory listing has them; all charts cover the same position.         *)
(***************************************************************************)
EXTENDS Naturals, FiniteSets, Sequences

CONSTANTS
    Paths,        \* the chart files there may be: numbers in sorted order
    PluginPaths,  \* those of a class that a plugin implements (S-63)
    NameOf,       \* the file name of a path, without its directory
    Dirs,         \* the configured directories, each with the paths below it
    MaxDate,      \* editions and modification times are 1..MaxDate
    Near,         \* times that differ by less (60 seconds) count as the same
    MaxStack,     \* MAXSTACK
    MaxDisturbed, \* bound: changes of chart files, saves that fail or are interrupted
    MaxCalls,     \* bound: charts disabled, calls of the plugin
    MaxRuns       \* bound: starts of the program

\* The extension of a file name tells the class of the chart.
ASSUME ChartDatabaseAssumption ==
    /\ IsFiniteSet(Paths) /\ Paths = 1..Cardinality(Paths)
    /\ PluginPaths \subseteq Paths /\ DOMAIN NameOf = Paths
    /\ \A p, q \in Paths : NameOf[p] = NameOf[q] /\ p \in PluginPaths => q \in PluginPaths
    /\ Dirs \in Seq(SUBSET Paths)
    /\ {MaxDate, Near, MaxStack, MaxDisturbed, MaxCalls, MaxRuns} \subseteq Nat

VARIABLES
    phase,     \* what the program does, see DatabaseTypeOK
    file,      \* the chart files on the disk
    pass,      \* passes of the scan begun: one per directory and chart class
    FileList,  \* files of this pass still to be visited
    collision_map, \* file name -> the table entry last added for it, 0 if there is none
    table,     \* active_chartTable
    saved,     \* the saved list: its rows, and how much of it is there
    changed,   \* a file changed since the scan began (history)
    want,      \* names that must be listed (history)
    hurt,      \* a save was cut short since the last scan (history)
    loaded,    \* the plugin could be loaded in this run (LoadAllPlugIns)
    disturbed, calls, runs

scan == <<pass, FileList, collision_map>>
run == <<loaded, runs>>
bounds == <<disturbed, calls, run>>
databaseVars == <<phase, file, scan, table, saved, changed, want, hurt, bounds>>

Dates == 1..MaxDate

\* A chart file is absent, has no readable header, or has an edition.
Absent == [edition |-> 0, time |-> 0]
Unreadable == [edition |-> 0, time |-> 1]
Files == {Absent, Unreadable} \cup [edition : Dates, time : Dates]
Exists(p) == file[p].time > 0
Readable(p) == file[p].edition > 0

\* IsChartAvailable: without the plugin nobody knows the class of its charts, and
\* no pass looks for them.
Available == IF loaded THEN Paths ELSE Paths \ PluginPaths

AllNames == {NameOf[p] : p \in Paths}
Names(t) == {NameOf[t[i].path] : i \in DOMAIN t}

\* The constructor of an entry takes the edition from the chart object, which
\* for S-57 does not know it when only the header was read: edition_date then
\* keeps whatever the memory holds.
NewEntries(p) ==
    [path : {p}, edition : IF p \in PluginPaths THEN {file[p].edition} ELSE Dates,
     time : {file[p].time}, valid : {TRUE}, off : {FALSE}]

\* The entries of t at the places in S, in their order.
Kept(t, S) ==
    LET kept[n \in 0..Len(t)] ==
          IF n = 0 THEN <<>>
          ELSE IF n \in S THEN Append(kept[n - 1], t[n]) ELSE kept[n - 1]
    IN  kept[Len(t)]

SetValid(t, i, v) == [t EXCEPT ![i].valid = v]

\* Entries that a rescan or a newer copy made invalid are taken out.
RemoveInvalid(t) == Kept(t, {i \in DOMAIN t : t[i].valid})

-----------------------------------------------------------------------------
(* Scanning the directories *)

Passes == 2 * Len(Dirs)

PassFiles(k) == LET dir == Dirs[(k + 1) \div 2]
                IN  Available \cap IF k % 2 = 1 THEN dir \ PluginPaths ELSE dir \cap PluginPaths

Create ==
    /\ table' = <<>> /\ pass' = 0 /\ FileList' = <<>>
    /\ collision_map' = [n \in AllNames |-> 0]
    /\ changed' = FALSE
    /\ phase' = "scan"

\* SearchDirAndAddCharts lists the files of one class in a directory and maps
\* each file name to the last entry that has it.
BeginPass ==
    /\ phase = "scan" /\ FileList = <<>> /\ pass < Passes
    /\ pass' = pass + 1
    /\ FileList' = Kept([p \in Paths |-> p], {p \in PassFiles(pass') : Exists(p)})
    /\ collision_map' = [n \in AllNames |->
                           LET same == {i \in DOMAIN table : NameOf[table[i].path] = n}
                           IN  IF same = {} THEN 0 ELSE CHOOSE i \in same : \A j \in same : j <= i]
    /\ UNCHANGED <<phase, file, table, saved, changed, want, hurt, bounds>>

\* Mutant: of two editions the older is kept.
KeepOlder(t, i, new) ==
    IF t[i].path = new.path \/ new.edition < t[i].edition
    THEN <<SetValid(t, i, FALSE), TRUE>>
    ELSE <<t, new.edition = t[i].edition>>

\* What becomes of the table with a new entry for path p, given the entry
\* with the same file name, if there is one: the table
\* before the new entry is added, and whether it is added.
Resolve(t, i, new) ==
    IF t[i].path = new.path THEN <<SetValid(t, i, FALSE), TRUE>>
    ELSE IF new.edition < t[i].edition
    THEN IF Exists(t[i].path) THEN <<SetValid(t, i, TRUE), FALSE>> ELSE <<t, TRUE>>
    ELSE IF new.edition = t[i].edition THEN <<t, TRUE>>
    ELSE <<SetValid(t, i, FALSE), TRUE>>

Collides(p) == collision_map[NameOf[p]] # 0
Other(p) == collision_map[NameOf[p]]
SamePath(p) == Collides(p) /\ table[Other(p)].path = p

\* A file listed under two directories is met again: it is not read unless
\* it is newer than the entry.
VisitSame(p) ==
    /\ SamePath(p) /\ file[p].time <= table[Other(p)].time
    /\ table' = SetValid(table, Other(p), TRUE)
    /\ UNCHANGED collision_map

\* The header cannot be read: an entry of the same path is invalid already.
VisitUnreadable(p) ==
    /\ ~(SamePath(p) /\ file[p].time <= table[Other(p)].time)
    /\ ~Readable(p)
    /\ table' = IF SamePath(p) THEN SetValid(table, Other(p), FALSE) ELSE table
    /\ UNCHANGED collision_map

\* Mutant: the map gets the size of the table after the entry was added.
VisitCountsTwice(p) ==
    /\ ~(SamePath(p) /\ file[p].time <= table[Other(p)].time)
    /\ Readable(p)
    /\ \E new \in NewEntries(p) :
         LET r == IF Collides(p) THEN Resolve(table, Other(p), new) ELSE <<table, TRUE>>
         IN  IF r[2]
             THEN /\ table' = Append(r[1], new)
                  /\ collision_map' = [collision_map EXCEPT ![NameOf[p]] = Len(table') + 1]
             ELSE table' = r[1] /\ UNCHANGED collision_map

VisitChart(p) ==
    /\ ~(SamePath(p) /\ file[p].time <= table[Other(p)].time)
    /\ Readable(p)
    /\ \E new \in NewEntries(p) :
         LET r == IF Collides(p) THEN Resolve(table, Other(p), new) ELSE <<table, TRUE>>
         IN  IF r[2]
             THEN /\ table' = Append(r[1], new)
                  /\ collision_map' = [collision_map EXCEPT ![NameOf[p]] = Len(table')]
             ELSE table' = r[1] /\ UNCHANGED collision_map

Visit ==
    /\ phase = "scan" /\ FileList # <<>>
    /\ LET p == Head(FileList) IN VisitSame(p) \/ VisitUnreadable(p) \/ VisitChart(p)
    /\ FileList' = Tail(FileList)
    /\ UNCHANGED <<phase, file, pass, saved, changed, want, hurt, bounds>>

Scanned == {p \in Available \cap UNION {Dirs[i] : i \in DOMAIN Dirs} : Readable(p)}

EndScan ==
    /\ phase = "scan" /\ FileList = <<>> /\ pass = Passes
    /\ table' = RemoveInvalid(table)
    /\ want' = IF changed THEN Names(table') ELSE {NameOf[p] : p \in Scanned}
    /\ phase' = "save"
    /\ UNCHANGED <<file, scan, saved, changed, hurt, bounds>>

-----------------------------------------------------------------------------
(* The saved list *)

\* The file is written in place. What a crash or a full disk leaves of it ends
\* in the header, between or in the path of a row, or inside the last row.
Cuts(t) == {[end |-> "head", rows |-> <<>>]}
           \cup IF t = <<>> THEN {}
                ELSE {[end |-> "rows", rows |-> <<>>], [end |-> "last", rows |-> t]}

Whole(t) == [end |-> "whole", rows |-> t]

\* A row whose end is missing is read into memory that holds anything.
AnyEnd(t) ==
    LET n == Len(t)
    IN  {[t EXCEPT ![n] = [path |-> t[n].path, edition |-> d, time |-> d, valid |-> v, off |-> o]] :
            d \in Dates, v \in BOOLEAN, o \in BOOLEAN}

\* ChartDatabase::Read. The loop that reads a path does not test for the end
\* of the file: without a row it fills memory until the process faults.
ReadList(q) ==
    \/ /\ saved.end = "whole"
       /\ table' = saved.rows /\ phase' = q
    \/ /\ saved.end = "last"
       /\ table' \in AnyEnd(saved.rows) /\ phase' = q
    \/ /\ saved.end \in {"rows", "last"}
       /\ table' = <<>> /\ phase' = "fault"

CannotRead == saved.end \in {"none", "head"}

SaveBinary(w) ==
    /\ saved' = w
    /\ hurt' = (w # Whole(table) \/ (hurt /\ phase = "store"))
    /\ phase' = IF phase = "save" THEN "up" ELSE "reload"
    /\ UNCHANGED <<file, scan, table, changed, want, calls, run>>

Save == phase \in {"save", "store"} /\ SaveBinary(Whole(table)) /\ UNCHANGED disturbed

\* The file cannot be opened, or writing fails; both go unnoticed.
SaveFails ==
    /\ phase \in {"save", "store"} /\ disturbed < MaxDisturbed
    /\ disturbed' = disturbed + 1
    /\ \E w \in {saved} \cup Cuts(table) : SaveBinary(w)

\* The two calls of the plugin interface read back what they have saved.
Reload ==
    /\ phase = "reload"
    /\ \/ ReadList("up")
       \/ CannotRead /\ table' = <<>> /\ phase' = "up"
    /\ UNCHANGED <<file, scan, saved, changed, want, hurt, bounds>>

-----------------------------------------------------------------------------
(* The run of the program *)

Begin ==
    /\ phase = "stopped" /\ runs < MaxRuns
    /\ runs' = runs + 1
    /\ loaded' \in BOOLEAN
    /\ UNCHANGED <<file, saved, want, hurt, disturbed, calls>>

StartRebuild == Begin /\ Create

StartLoad ==
    /\ Begin
    /\ \/ ReadList("up") /\ UNCHANGED <<scan, changed>>
       \/ CannotRead /\ Create

\* The process ends. In the middle of a save a part of the list is left.
Stop ==
    /\ phase \in {"scan", "up", "reload", "fault"}
    /\ phase' = "stopped" /\ table' = <<>>
    /\ UNCHANGED <<file, scan, saved, changed, want, hurt, bounds>>

StopInSave ==
    /\ phase \in {"save", "store"} /\ disturbed < MaxDisturbed
    /\ disturbed' = disturbed + 1
    /\ saved' \in {saved, Whole(table)} \cup Cuts(table)
    /\ hurt' = (saved' # Whole(table) \/ (hurt /\ phase = "store"))
    /\ phase' = "stopped" /\ table' = <<>>
    /\ UNCHANGED <<file, scan, changed, want, calls, run>>

FileChanges ==
    /\ disturbed < MaxDisturbed
    /\ \E p \in Paths, f \in Files : f # file[p] /\ file' = [file EXCEPT ![p] = f]
    /\ disturbed' = disturbed + 1
    /\ changed' = TRUE
    /\ UNCHANGED <<phase, scan, table, saved, want, hurt, calls, run>>

-----------------------------------------------------------------------------
(* One chart *)

OneChart == phase = "up" /\ calls < MaxCalls /\ calls' = calls + 1
            /\ UNCHANGED <<file, scan, saved, changed, disturbed, run>>

\* OpenChartUsingCache could not use the chart. The index from paths to
\* entries has the last entry of a path.
DisableChart(p) ==
    /\ OneChart
    /\ \E i \in DOMAIN table :
         /\ table[i].path = p /\ ~table[i].off
         /\ \A j \in DOMAIN table : table[j].path = p => j <= i
         /\ table' = [table EXCEPT ![i].off = TRUE]
    /\ UNCHANGED <<phase, want, hurt>>

\* The first entry with the same file name decides.
AddSingleChart(p) ==
    /\ OneChart
    /\ \/ /\ ~Readable(p)
          /\ table' = RemoveInvalid(table)
          /\ UNCHANGED <<phase, want>>
       \/ /\ Readable(p)
          /\ \E new \in NewEntries(p) :
               LET same == {i \in DOMAIN table : NameOf[table[i].path] = NameOf[p]}
                   i == CHOOSE k \in same : \A j \in same : k <= j
                   r == IF same = {} THEN <<table, TRUE>>
                        ELSE IF table[i].path = p /\ new.time <= table[i].time
                        THEN <<SetValid(table, i, TRUE), FALSE>>
                        ELSE Resolve(table, i, new)
               IN  /\ table' = RemoveInvalid(IF r[2] THEN Append(r[1], new) ELSE r[1])
                   /\ phase' = IF r[2] THEN "store" ELSE phase
          /\ want' = want \cup {NameOf[p]}
    /\ UNCHANGED hurt

\* Mutant: every entry with the file name goes.
RemoveByName(p) ==
    /\ OneChart
    /\ table' = Kept(table, {i \in DOMAIN table : NameOf[table[i].path] # NameOf[p]})
    /\ want' = IF \E i \in DOMAIN table : table[i].path # p /\ NameOf[table[i].path] = NameOf[p]
               THEN want ELSE want \ {NameOf[p]}
    /\ phase' = "store"
    /\ UNCHANGED hurt

\* Removes the first entry of the path.
RemoveSingleChart(p) ==
    /\ OneChart
    /\ LET of == {i \in DOMAIN table : table[i].path = p}
       IN  table' = Kept(table, DOMAIN table \ {i \in of : \A j \in of : i <= j})
    /\ want' = IF \E i \in DOMAIN table : table[i].path # p /\ NameOf[table[i].path] = NameOf[p]
               THEN want ELSE want \ {NameOf[p]}
    /\ phase' = "store"
    /\ UNCHANGED hurt

\* Mutant: what was disabled stays disabled.
ReEnabledNever(t) == t

\* Asking for a stack makes every plugin chart visible again, before it is
\* looked at whether the plugin is there.
ReEnabled(t) == [i \in DOMAIN t |-> IF t[i].path \in PluginPaths THEN [t[i] EXCEPT !.off = FALSE] ELSE t[i]]

BuildChartStack ==
    /\ phase = "up" /\ table # ReEnabled(table)
    /\ table' = ReEnabled(table)
    /\ UNCHANGED <<phase, file, scan, saved, changed, want, hurt, bounds>>

\* The entries of the stack: of those at the position that are available, up to
\* MaxStack, each but the ones with a name and a time or an edition seen in an
\* earlier one.
InView(t) ==
    LET there == {i \in DOMAIN t : ~t[i].off /\ t[i].path \in Available}
    IN  {i \in there : Cardinality({j \in there : j <= i}) <= MaxStack}

Duplicates(a, b) ==
    /\ NameOf[a.path] = NameOf[b.path]
    /\ \/ a.time < b.time + Near /\ b.time < a.time + Near
       \/ a.edition = b.edition

Stack(t) ==
    LET on[i \in DOMAIN t] ==
          i \in InView(t) /\ \A j \in 1..i-1 : ~(on[j] /\ Duplicates(t[j], t[i]))
    IN  {i \in DOMAIN t : on[i]}

-----------------------------------------------------------------------------
DatabaseInit ==
    /\ phase = "stopped"
    /\ file \in [Paths -> Files]
    /\ pass = 0 /\ FileList = <<>> /\ table = <<>>
    /\ collision_map = [n \in AllNames |-> 0]
    /\ saved = [end |-> "none", rows |-> <<>>]
    /\ changed = FALSE
    /\ want = {} /\ hurt = FALSE /\ loaded = FALSE
    /\ disturbed = 0 /\ calls = 0 /\ runs = 0

PluginCall == loaded /\ \E p \in PluginPaths : AddSingleChart(p) \/ RemoveSingleChart(p)

DatabaseNext ==
    \/ BeginPass \/ Visit \/ EndScan \/ Save \/ SaveFails \/ Reload
    \/ StartRebuild \/ StartLoad \/ Stop \/ StopInSave \/ FileChanges
    \/ BuildChartStack \/ PluginCall
    \/ \E p \in Paths : DisableChart(p)

DatabaseSpec == DatabaseInit /\ [][DatabaseNext]_databaseVars

-----------------------------------------------------------------------------
(* Properties *)

Entries(S) == UNION {[path : {p}, edition : Dates, time : Dates, valid : BOOLEAN, off : BOOLEAN] : p \in S}

DatabaseTypeOK ==
    /\ phase \in {"stopped", "scan", "save", "up", "store", "reload", "fault"}
    /\ file \in [Paths -> Files]
    /\ pass \in 0..Passes /\ FileList \in Seq(Paths)
    /\ table \in Seq(Entries(Paths)) /\ saved.rows \in Seq(Entries(Paths))
    /\ saved.end \in {"none", "head", "rows", "last", "whole"}
    /\ collision_map \in [AllNames -> Nat]
    /\ phase = "scan" => \A n \in AllNames :
         collision_map[n] # 0 => /\ collision_map[n] \in DOMAIN table
                                 /\ NameOf[table[collision_map[n]].path] = n
    /\ want \subseteq AllNames
    /\ {changed, hurt, loaded} \subseteq BOOLEAN
    /\ disturbed \in 0..MaxDisturbed /\ calls \in 0..MaxCalls /\ runs \in 0..MaxRuns

Copies(p) == {q \in PluginPaths \cap Scanned : NameOf[q] = NameOf[p]}
Newest(q) == \A r \in Copies(q) : file[r].edition <= file[q].edition
OldCopiesDiffer(p) ==
    \A q, r \in Copies(p) : file[q].edition = file[r].edition /\ q # r => Newest(q)

\* A list made while no file changes has the newest edition of every plugin
\* chart that the directories hold, in whatever order its copies are met, and
\* the stack shows it, as long as no more than MaxStack entries lie at the
\* position. (Of two equal copies and a newer one the first stays in the list
\* and may hide the newer: the second half leaves these out.)
NewestPluginFound ==
    (phase = "save" /\ ~changed) =>
      \A p \in PluginPaths \cap Scanned :
        /\ \E i \in DOMAIN table : table[i].path \in Copies(p) /\ Newest(table[i].path)
        /\ OldCopiesDiffer(p) /\ Len(table) <= MaxStack =>
             \E i \in Stack(table) : table[i].path \in Copies(p) /\ Newest(table[i].path)

\* Charts found by the last scan that nobody disturbed, and those a plugin
\* added since and did not remove, are listed while the server runs, in this
\* run and in later ones, unless a save failed or was interrupted since. (A
\* row read from a list cut short may be marked invalid, is saved so, and
\* goes with the next chart that is added.)
ListIsKept == (phase = "up" /\ ~hurt) => want \subseteq Names(table)

\* Every chart of the last undisturbed scan, and every chart a plugin added since
\* and did not remove, can be seen: the stack has an entry with its name, unless
\* the plugin it needs is not loaded in this run, a save failed, or more than
\* MaxStack entries are listed. A plugin chart comes back even if all its entries
\* were disabled, or if the plugin was missing in the runs between; an ENC is
\* hidden only while all its entries are disabled.
Disabled(p) == \A i \in DOMAIN table : NameOf[table[i].path] = NameOf[p] => table[i].off

NoChartHidden ==
    (phase = "up" /\ ~hurt /\ Len(table) <= MaxStack) =>
      \A p \in Available : NameOf[p] \in want /\ (p \in PluginPaths \/ ~Disabled(p)) =>
        \E k \in Stack(ReEnabled(table)) : NameOf[table[k].path] = NameOf[p]
=============================================================================

------------------------------ MODULE SencFile ------------------------------
(***************************************************************************)
(* The SENC file of one cell (src/Osenc.cpp, src/s57chart.cpp): the chart  *)
(* that is opened decides from the header of the file whether it is up to  *)
(* date with the ENC directory, a thread builds a new one from a copy of   *)
(* that directory, and the chart loads what the file then holds.  Meanwhile*)
(* somebody updates the directory, days pass, a write fails, or the        *)
(* process ends at any point and is started again.                         *)
(*                                                                         *)
(* Of the content of a cell only its edition and the updates applied to it *)
(* are kept, whether part of an update that failed is among it, and which  *)
(* of the files read were not whole: a file may have arrived only in part, *)
(* and nobody looks at the result of wxCopyFile.  Other cells, and the slot*)
(* a build waits for, are the subject of SencManager; a build starts here  *)
(* some time after it was scheduled.                                       *)
(***************************************************************************)
EXTENDS Naturals

CONSTANTS MaxEvents,  \* bound: changes of the ENC directory
          MaxUpdates, \* bound: the highest number of an update
          MaxDays,    \* bound: days that pass
          MaxFaults   \* bound: crashes, failed writes, files copied only in part

ASSUME SencFileAssumption == {MaxEvents, MaxUpdates, MaxDays, MaxFaults} \subseteq Nat

VARIABLES
    enc,     \* the ENC directory: edition and date of the base file, the
             \* number of the last update, the numbers missing before it, up
             \* to where the updates apply; the highest number there ever was,
             \* and the updates that came after one of that number or higher
    today,
    senc,    \* the SENC file: what is there, its header, its content
    rename,  \* whether the temporary file can be renamed to the SENC file
    build,   \* the job of the cell
    chart,   \* the chart object
    events, faults,
    torn     \* a write failed, or the process ended in the middle of one

vars == <<enc, today, senc, rename, build, chart, events, faults, torn>>

world == <<enc, today, rename, events>>
damage == <<faults, torn>>

\* A SENC file is absent, too short for the header to be read, has a header
\* but not all of its body, or is whole.
Bodies == {"absent", "short", "part", "whole"}

\* The steps of a build: the edition is known, the updates are counted, the
\* base file is copied, the updates are applied, the temporary file is written.
Phases == {"idle", "queued", "known", "counted", "copied", "applied", "written", "copying", "done"}

\* More than the number of any file.
Whole == MaxUpdates + 1

\* A base file without updates; "cut" is the first file that was tried, and was
\* not there as a whole.
Base(e, b) == [edition |-> e, updates |-> {}, mixed |-> FALSE, cut |-> b]

NoBuild == [phase |-> "idle", told |-> FALSE, result |-> "none", since |-> 0,
            edition |-> 0, listed |-> 0, gaps |-> {}, update |-> 0, day |-> 0,
            body |-> "whole", content |-> Base(0, Whole)]

NoChart == [state |-> "none", body |-> "absent", aborted |-> FALSE,
            content |-> Base(0, Whole), asked |-> [edition |-> 0, updates |-> {}]]

\* A new edition comes without updates.
NewEdition(e, d) == [edition |-> e, date |-> d, updates |-> 0, missing |-> {}, good |-> 0,
                     seen |-> 0, late |-> {}]

\* There is no SENC file, or one of an earlier version of the program.
Init ==
    /\ enc = NewEdition(1, 0)
    /\ today = 0
    /\ \E b \in {"absent", "whole"} :
         senc = [body |-> b, version |-> "old", edition |-> 1, update |-> 0, day |-> 0,
                 content |-> Base(1, Whole)]
    /\ rename \in BOOLEAN
    /\ build = NoBuild /\ chart = NoChart
    /\ events = 0 /\ faults = 0 /\ torn = FALSE

-----------------------------------------------------------------------------
(* The ENC directory and the days *)

Greatest(a, b) == IF a > b THEN a ELSE b

\* The updates that are there, and those up to the first that fails.
Present == (1..enc.updates) \ enc.missing
Applicable == {n \in Present : n <= enc.good}

\* An update comes: the next, one that leaves a gap, or one that was missing.
\* The last may fail; in a gap only updates that apply are considered.
UpdateComes(n) ==
    /\ n \notin Present
    /\ \E g \in IF n > enc.updates /\ enc.good = enc.updates THEN {n - 1, n} ELSE {enc.good} :
         enc' = [enc EXCEPT !.updates = Greatest(@, n), !.good = g,
                   !.missing = (@ \cup (enc.updates + 1)..n) \ {n},
                   !.seen = Greatest(@, n),
                   !.late = IF n <= enc.seen THEN @ \cup {n} ELSE @]

\* The updates that failed are replaced.
ChainMended == enc.good < enc.updates /\ enc' = [enc EXCEPT !.good = enc.updates]

\* "Or, the update files following the last good update may be manually
\* deleted."
RestDeleted ==
    /\ enc.good < enc.updates
    /\ \E k \in 0..enc.good :
         /\ k = 0 \/ k \in Present
         /\ (k + 1)..enc.good \subseteq enc.missing
         /\ enc' = [enc EXCEPT !.updates = k, !.good = k, !.missing = @ \cap 1..k]

\* The base file may be replaced by one of the same edition.
EncChanges ==
    /\ events < MaxEvents
    /\ events' = events + 1
    /\ \/ enc' = NewEdition(enc.edition + 1, today)
       \/ enc' = [enc EXCEPT !.date = today]
       \/ \E n \in 1..MaxUpdates : UpdateComes(n)
       \/ ChainMended
       \/ RestDeleted
    /\ UNCHANGED <<today, senc, rename, build, chart, damage>>

Midnight ==
    /\ today < MaxDays
    /\ today' = today + 1
    /\ UNCHANGED <<enc, senc, rename, build, chart, events, damage>>

-----------------------------------------------------------------------------
(* The chart *)

\* Mutant: a base file of the day the SENC was made is taken for newer.
NeedBuildSameDay ==
    \/ senc.body \in {"absent", "short"}
    \/ senc.version # "201"
    \/ enc.edition > senc.edition
    \/ enc.edition = senc.edition /\ enc.updates > senc.update
    \/ enc.date >= senc.day

\* ingestHeader fails, the format is another one, or the directory has a newer
\* edition, a later update, or a base file of a later day.
NeedBuild ==
    \/ senc.body \in {"absent", "short"}
    \/ senc.version # "201"
    \/ enc.edition > senc.edition
    \/ enc.edition = senc.edition /\ enc.updates > senc.update
    \/ enc.date > senc.day

\* What a chart that is opened can expect, and what one can that finds a current
\* SENC.
Newest == [edition |-> enc.edition, updates |-> Applicable \ enc.late]
NewestKept == [Newest EXCEPT !.updates = {n \in @ : n < senc.content.cut}]

\* Mutant: a chart whose job is dropped is attached to the running one.
OpenAttached ==
    /\ chart.state = "none"
    /\ IF NeedBuild
         THEN /\ chart' = [NoChart EXCEPT !.state = "pending", !.asked = Newest]
              /\ build' = IF build.phase = "idle" THEN [NoBuild EXCEPT !.phase = "queued", !.told = TRUE]
                                                  ELSE [build EXCEPT !.told = TRUE]
         ELSE /\ chart' = [NoChart EXCEPT !.state = "current", !.asked = NewestKept]
              /\ UNCHANGED build
    /\ UNCHANGED <<world, senc, damage>>

\* FindOrCreateSenc; the job is dropped if the cell has one already.
Open ==
    /\ chart.state = "none"
    /\ IF NeedBuild
         THEN /\ chart' = [NoChart EXCEPT !.state = "pending", !.asked = Newest]
              /\ build' = IF build.phase = "idle" THEN [NoBuild EXCEPT !.phase = "queued", !.told = TRUE]
                                                  ELSE build
         ELSE /\ chart' = [NoChart EXCEPT !.state = "current", !.asked = NewestKept]
              /\ UNCHANGED build
    /\ UNCHANGED <<world, senc, damage>>

\* ingest200 takes what it finds, up to the end of the file.
Loaded(c) == [c EXCEPT !.state = "loaded", !.body = senc.body, !.content = senc.content]

\* PostInit in Init; without a file the chart is thrown away.
Load ==
    /\ chart.state = "current"
    /\ chart' = IF senc.body = "absent" THEN NoChart ELSE Loaded(chart)
    /\ UNCHANGED <<world, senc, build, damage>>

\* The chart is deleted, and its job forgets it.
Evict ==
    /\ chart.state \notin {"none", "current"}
    /\ chart' = NoChart
    /\ build' = [build EXCEPT !.told = FALSE]
    /\ UNCHANGED <<world, senc, damage>>

\* The end of the job.  Only a cell that could not be read counts as an error:
\* after any other failure the chart loads what is there.
Finish ==
    /\ build.phase = "done"
    /\ build' = NoBuild
    /\ chart' = IF ~build.told \/ build.result = "unreadable" \/ senc.body = "absent"
                  THEN chart
                  ELSE [Loaded(chart) EXCEPT !.aborted = build.result = "abort"]
    /\ UNCHANGED <<world, senc, damage>>

-----------------------------------------------------------------------------
(* The build, createSenc200 *)

\* What was read does not matter any more.
Ends(b, result) == [NoBuild EXCEPT !.phase = "done", !.result = result, !.told = b.told, !.since = b.since]

Fault == faults < MaxFaults /\ faults' = faults + 1

\* GetBaseFileAttr, after the temporary file was created.
ReadAttributes ==
    /\ build.phase = "queued"
    /\ \/ /\ build' = [build EXCEPT !.phase = "known", !.edition = enc.edition, !.since = events]
          /\ UNCHANGED damage
       \/ Fault /\ build' = Ends(build, "abort") /\ UNCHANGED torn
    /\ UNCHANGED <<world, senc, chart>>

\* GetUpdateFileArray keeps the files of the edition read before; without a
\* base file among them there is nothing to open.
CountUpdates ==
    /\ build.phase = "known"
    /\ build' = IF enc.edition = build.edition
                  THEN [build EXCEPT !.phase = "counted", !.listed = enc.updates, !.gaps = enc.missing]
                  ELSE Ends(build, "unreadable")
    /\ UNCHANGED <<world, senc, chart, damage>>

\* wxCopyFile takes what is there by now of the base file.  That may be a part of
\* it, or the copy fails in the middle: then Open or CreateCOVRTables may find that
\* this is not a cell, or what is there is read to its end.
CopyBase ==
    /\ build.phase = "counted"
    /\ \/ /\ build' = [build EXCEPT !.phase = "copied", !.content = Base(enc.edition, Whole)]
          /\ UNCHANGED faults
       \/ /\ Fault
          /\ \/ build' = [build EXCEPT !.phase = "copied", !.content = Base(enc.edition, 0)]
             \/ \E r \in {"unreadable", "abort"} : build' = Ends(build, r)
    /\ UNCHANGED <<world, senc, chart, torn>>

Least(a, b) == IF a < b THEN a ELSE b

\* The updates of a base file, up to number u, that are not empty files: these
\* stand in for updates that were not listed and for those no longer there.
Used(u) == IF enc.edition = build.content.edition
             THEN {n \in Present \ build.gaps : n <= u}
             ELSE {}

\* Whether part of the update after number u is applied: the records of a file
\* that come before a bad one, and after it, are not taken back.
Leftovers(u) == IF enc.edition = build.content.edition /\ u = build.listed THEN {FALSE} ELSE BOOLEAN

\* The last update that is applied, if file b is the first not copied as a whole:
\* the one before the first that fails, but from file b on any may fail.  A file
\* of which a part is there is read to its end, and the header counts it.
LastApplied(b) ==
    LET last == IF enc.good < enc.updates THEN Least(build.listed, enc.good) ELSE build.listed
    IN  IF b > last + 1 THEN {last} ELSE (Greatest(b, 1) - 1)..build.listed

\* The files of the directory are copied and applied up to the first that fails;
\* empty ones always apply.  Any copy may be short: a file has arrived only in
\* part, or the disk is full.  On a base file of another edition any may fail.
ApplyUpdates ==
    /\ build.phase = "copied"
    /\ \E b \in (1..build.listed) \cup {build.content.cut}, u \in 0..build.listed : \E mixed \in Leftovers(u) :
           /\ \/ b = build.content.cut /\ UNCHANGED faults
              \/ b < build.content.cut /\ Fault
           /\ enc.edition = build.content.edition => u \in LastApplied(b)
           /\ build' = [build EXCEPT !.phase = "applied", !.listed = 0, !.gaps = {}, !.update = u,
                          !.content = [edition |-> build.content.edition, updates |-> Used(u), mixed |-> mixed,
                                       cut |-> IF b <= u + 1 THEN b ELSE Whole]]
    /\ UNCHANGED <<world, senc, chart, torn>>

\* The header is dated when it is written.  A write that fails there ends the
\* build, one that fails later goes unnoticed.
WriteTemporary ==
    /\ build.phase = "applied"
    /\ \/ build' = [build EXCEPT !.phase = "written", !.day = today] /\ UNCHANGED damage
       \/ Fault /\ build' = Ends(build, "abort") /\ UNCHANGED torn
       \/ /\ Fault /\ torn' = TRUE
          /\ build' = [build EXCEPT !.phase = "written", !.day = today, !.body = "part"]
    /\ UNCHANGED <<world, senc, chart>>

\* Mutant: the header holds the edition of the base file at the end.
SencOfLast(b) == [body |-> b.body, version |-> "201", edition |-> enc.edition, update |-> b.update,
                  day |-> b.day, content |-> b.content]

\* Mutant: the header is written without the edition.
SencWithout(b) == [body |-> b.body, version |-> "201", edition |-> 0, update |-> b.update,
                   day |-> b.day, content |-> b.content]

\* The file a build has written: its header says what was read and applied.
SencOf(b) == [body |-> b.body, version |-> "201", edition |-> b.edition, update |-> b.update,
              day |-> b.day, content |-> b.content]

\* Mutant: the SENC file is always written in place.
RenameNever ==
    /\ build.phase = "written"
    /\ senc' = [SencOf(build) EXCEPT !.body = "short"]
    /\ build' = [build EXCEPT !.phase = "copying"]
    /\ UNCHANGED <<world, chart, damage>>

\* wxRenameFile: rename(), or where that cannot be done a copy, which begins by
\* emptying the SENC file.
Rename ==
    /\ build.phase = "written"
    /\ IF rename
         THEN senc' = SencOf(build) /\ build' = Ends(build, "ok")
         ELSE /\ senc' = [SencOf(build) EXCEPT !.body = "short"]
              /\ build' = [build EXCEPT !.phase = "copying"]
    /\ UNCHANGED <<world, chart, damage>>

CopyGoesOn ==
    /\ build.phase = "copying"
    /\ \/ /\ senc.body = "short" /\ senc' = [senc EXCEPT !.body = "part"]
          /\ UNCHANGED <<build, damage>>
       \/ senc.body = "part" /\ senc' = SencOf(build) /\ build' = Ends(build, "ok") /\ UNCHANGED damage
       \/ Fault /\ torn' = TRUE /\ build' = Ends(build, "abort") /\ UNCHANGED senc
    /\ UNCHANGED <<world, chart>>

\* The process ends at any point, and is started again.
Crash ==
    /\ Fault
    /\ torn' = (torn \/ build.phase = "copying")
    /\ build' = NoBuild /\ chart' = NoChart
    /\ UNCHANGED <<world, senc>>

-----------------------------------------------------------------------------
Build == \/ ReadAttributes \/ CountUpdates \/ CopyBase \/ ApplyUpdates \/ WriteTemporary
         \/ Rename \/ CopyGoesOn

Next == \/ EncChanges \/ Midnight \/ Crash
        \/ Open \/ Load \/ Evict \/ Finish
        \/ Build

Spec == Init /\ [][Next]_vars

-----------------------------------------------------------------------------
(* Properties *)

Contents == [edition : Nat, updates : SUBSET Nat, mixed : BOOLEAN, cut : 0..Whole]
Versions == [edition : Nat, updates : SUBSET Nat]

\* A content is older than a version if it has an earlier edition, or lacks an
\* update although the files up to this one were read as a whole.
Older(a, b) ==
    \/ a.edition < b.edition
    \/ a.edition = b.edition /\ \E n \in b.updates \ a.updates : n < a.cut

TypeOK ==
    /\ enc \in [edition : Nat \ {0}, date : 0..today, updates : 0..MaxUpdates,
                missing : SUBSET (1..enc.updates), good : 0..enc.updates,
                seen : enc.updates..MaxUpdates, late : SUBSET (1..enc.seen)]
    /\ today \in 0..MaxDays /\ events \in 0..MaxEvents /\ faults \in 0..MaxFaults
    /\ senc \in [body : Bodies, version : {"old", "201"}, edition : Nat \ {0}, update : Nat,
                 day : 0..today, content : Contents]
    /\ {rename, torn} \subseteq BOOLEAN
    /\ build \in [phase : Phases, told : BOOLEAN, result : {"none", "ok", "unreadable", "abort"},
                  since : 0..events, edition : Nat, listed : 0..MaxUpdates, gaps : SUBSET Nat, update : Nat,
                  day : 0..today, body : {"part", "whole"}, content : Contents]
    /\ chart \in [state : {"none", "current", "pending", "loaded"}, body : Bodies,
                  aborted : BOOLEAN, content : Contents, asked : Versions]

\* A SENC file that is not whole is one that is being copied, or a write of
\* it failed or was interrupted; and a chart loads such a file only if that
\* happened, or if it was opened in the middle of the copy.
PartialHasCause ==
    /\ senc.body \in {"short", "part"} => torn \/ (~rename /\ build.phase = "copying")
    /\ chart.state = "loaded" /\ chart.body # "whole" => torn \/ ~rename

\* Whatever is changed in the ENC directory while a SENC is built from it, a
\* SENC that is taken for current has the newest edition and every update that
\* can be applied, but for two kinds that the header counts all the same: those
\* that came after one of a higher number, for which an empty file stood in, and
\* those from the first file on that had not arrived, or was not copied, as a
\* whole.  Part of an update that failed is in such a SENC only if that update
\* was deleted, and not replaced.
UpdateNeverMissed ==
    senc.body \in {"part", "whole"} /\ ~NeedBuild =>
        /\ ~Older(senc.content, Newest)
        /\ senc.content.mixed => enc.updates < enc.seen

\* A build that succeeds, with whole files and in a directory that nobody changes
\* meanwhile, leaves a SENC that is current, at any time of the day; with a broken
\* chain of updates the next opening builds again ("The logic will attempt to
\* build a SENC on each instance of OCPN", ingestCell).
BuildSettles ==
    build.phase = "done" /\ build.result = "ok" /\ build.since = events /\ senc.content.cut = Whole =>
        (NeedBuild <=> enc.good < enc.updates)

\* A chart shows nothing older than what the directory held when it was opened,
\* as far as this was read from whole files, unless its build was given up, and it shows the file that was found to be out
\* of date, or the directory went over to a new edition in the middle of the
\* build, which the next opening notices.
NotOlderThanAsked ==
    chart.state = "loaded" /\ chart.body = "whole" /\ Older(chart.content, chart.asked) =>
        chart.aborted \/ enc.edition > senc.edition
=============================================================================

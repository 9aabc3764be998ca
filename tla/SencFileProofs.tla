---------------------------- MODULE SencFileProofs ----------------------------
(***************************************************************************)
(* Theorems about SencFile, for every bound: an update is never missed,    *)
(* builds settle, a partial file has a cause, and a chart is not older     *)
(* than what was asked for.                                                *)
(***************************************************************************)
EXTENDS SencFile, TLAPS

-----------------------------------------------------------------------------
(* The inductive invariant *)

Reading == {"known", "counted", "copied", "applied", "written", "copying"}

\* The steps of a build before it changes the SENC file.
Before == {"queued", "known", "counted", "copied", "applied", "written"}

\* What a build has written, or will write, goes over to the SENC file.
Installed == senc = [SencOf(build) EXCEPT !.body = senc.body]

\* The directory never goes back to an older edition, and a job knows an
\* edition that was there.
EditionsKnown ==
    /\ senc.edition <= enc.edition
    /\ build.phase \in Reading => build.edition \in 1..enc.edition

\* A header of the edition of the directory counts no update that is there, did
\* not come late, and comes before the first file that was not whole, without its
\* having been applied; after an update that failed it counts fewer than there were.
Honest(content, last) ==
    /\ content.edition = enc.edition /\ last <= enc.seen
    /\ \A n \in Present \ enc.late : n <= last /\ n < content.cut => n \in content.updates /\ n <= enc.good
    /\ content.mixed => last < enc.seen

\* As long as the directory still has the edition of a header, that header is
\* honest; what a build did not list, and is there, came late.
HeaderHonest ==
    /\ senc.edition = enc.edition => Honest(senc.content, senc.update)
    /\ build.phase \in {"copied", "applied", "written", "copying"} =>
         build.content.edition \in build.edition..enc.edition
    /\ build.phase \in {"counted", "copied"} /\ build.edition = enc.edition =>
         /\ build.listed <= enc.seen /\ build.gaps \subseteq 1..build.listed
         /\ build.gaps \cap Present \subseteq enc.late
    /\ build.phase \in {"applied", "written", "copying"} /\ build.edition = enc.edition =>
         Honest(build.content, build.update)
    /\ build.phase = "copying" => Installed
    /\ build.phase = "done" /\ build.result = "ok" => senc.version = "201"

\* A build does not miss what the header of the SENC file counts, as far as both
\* were made from whole files.
NotLess ==
    /\ build.phase \in Reading => senc.edition <= build.edition
    /\ build.phase \in {"counted", "copied"} /\ senc.edition = enc.edition =>
         \A n \in Present \ enc.late : n <= senc.update => n <= build.listed
    /\ build.phase \in {"applied", "written"} /\ senc.edition = enc.edition =>
         \A n \in Present \ enc.late :
           n <= senc.update /\ n < senc.content.cut /\ n < build.content.cut => n <= build.update

\* A build that nobody disturbed knows the directory as it is.
Undisturbed ==
    build.since = events =>
      /\ build.phase \in Reading => build.edition = enc.edition
      /\ build.phase \in {"counted", "copied"} => build.listed = enc.updates
      /\ build.phase \in {"applied", "written", "copying"} /\ build.content.cut = Whole =>
           build.update = enc.good
      /\ build.phase \in {"written", "copying"} => enc.date <= build.day
      /\ build.phase = "done" /\ build.result = "ok" =>
           /\ senc.edition = enc.edition /\ (senc.content.cut = Whole => senc.update = enc.good)
           /\ enc.date <= senc.day /\ senc.body \in {"part", "whole"}

\* A file that is not whole comes from a write that failed, or from a copy.
Causes ==
    /\ PartialHasCause
    /\ build.body = "part" => torn
    /\ build.phase = "copying" => ~rename /\ senc.body \in {"short", "part"}
    /\ build.phase = "done" => build.result # "none"

\* The chart that its job will complete, or that will load what is there.
Waits == build.told \/ chart.state = "current"

\* The content of a file is older than what was asked for only if the directory
\* went over to a new edition while it was read.
Excused(content, edition) == Older(content, chart.asked) => enc.edition > edition

\* The directory does not go back behind what a chart was asked for.
Covered == /\ chart.asked.edition <= enc.edition
           /\ chart.asked.edition = enc.edition => chart.asked.updates \subseteq Newest.updates

\* What a chart was asked for is in the file, or gets into it.
AskedServed ==
    /\ build.told => chart.state = "pending"
    /\ chart.state # "none" => Covered
    /\ Waits /\ build.phase \in Reading => chart.asked.edition <= build.edition
    /\ Waits /\ build.phase \in {"counted", "copied"} /\ chart.asked.edition = enc.edition =>
         \A n \in chart.asked.updates : n <= build.listed /\ n \notin build.gaps
    /\ Waits /\ build.phase \in {"applied", "written", "copying"} =>
         Excused(build.content, build.edition)
    /\ build.told /\ build.phase = "done" /\ build.result = "ok" => Excused(senc.content, senc.edition)

\* A chart that did not wait for a build shows what it was asked for.
Shown ==
    /\ chart.state = "current" =>
         /\ Excused(senc.content, senc.edition)
         /\ build.phase \in Before => ~Older(senc.content, chart.asked)
    /\ chart.state = "loaded" /\ chart.body = "whole" /\ ~chart.aborted =>
         /\ Excused(chart.content, senc.edition)
         /\ build.phase \in Before => ~Older(chart.content, chart.asked)

SencInv == /\ TypeOK /\ EditionsKnown /\ HeaderHonest /\ Undisturbed
           /\ NotLess /\ Causes /\ AskedServed /\ Shown

-----------------------------------------------------------------------------
(* The outcomes of the actions that have several *)

\* The fields of enc, as TypeOK has them.
EncOK ==
    /\ enc \in [edition : Nat \ {0}, date : Nat, updates : Nat, missing : SUBSET Nat,
                good : Nat, seen : Nat, late : SUBSET Nat]
    /\ enc.date <= today /\ enc.good <= enc.updates
    /\ enc.updates <= enc.seen /\ enc.seen <= MaxUpdates
    /\ enc.missing \subseteq 1..enc.updates /\ enc.late \subseteq 1..enc.seen

\* Within an edition what comes is late or has a higher number than all before,
\* and what applies stays.
Grown ==
    /\ enc'.edition = enc.edition /\ enc.date <= enc'.date /\ enc.seen <= enc'.seen
    /\ enc.late \subseteq enc'.late
    /\ \A n \in Present' : n \in Present \/ n \in enc'.late \/ n > enc.seen
    /\ \A n \in Present : n <= enc.good => n \in Present' /\ n <= enc'.good
    /\ \A n \in Present : n \in enc'.late => n \in enc.late

EncGrows ==
    /\ events < MaxEvents /\ events' = events + 1
    /\ EncOK'
    /\ enc'.edition = enc.edition + 1 \/ Grown
    /\ UNCHANGED <<today, senc, rename, build, chart, damage>>

Scheduled ==
    /\ chart.state = "none" /\ NeedBuild /\ build.phase = "idle"
    /\ chart' = [NoChart EXCEPT !.state = "pending", !.asked = Newest]
    /\ build' = [NoBuild EXCEPT !.phase = "queued", !.told = TRUE]
    /\ UNCHANGED <<world, senc, damage>>

Dropped ==
    /\ chart.state = "none" /\ NeedBuild /\ build.phase # "idle"
    /\ chart' = [NoChart EXCEPT !.state = "pending", !.asked = Newest]
    /\ UNCHANGED <<world, senc, build, damage>>

FoundCurrent ==
    /\ chart.state = "none" /\ ~NeedBuild
    /\ chart' = [NoChart EXCEPT !.state = "current", !.asked = NewestKept]
    /\ UNCHANGED <<world, senc, build, damage>>

Untold ==
    /\ build.phase = "done" /\ build' = NoBuild
    /\ UNCHANGED <<world, senc, chart, damage>>

Completed ==
    /\ build.phase = "done" /\ build' = NoBuild
    /\ build.told /\ build.result # "unreadable" /\ senc.body # "absent"
    /\ \E a \in BOOLEAN : /\ a <=> build.result = "abort"
                          /\ chart' = [Loaded(chart) EXCEPT !.aborted = a]
    /\ UNCHANGED <<world, senc, damage>>

\* A build that goes on, or ends, or whose write fails unnoticed.
AttributesRead ==
    /\ build.phase = "queued"
    /\ build' = [build EXCEPT !.phase = "known", !.edition = enc.edition, !.since = events]
    /\ UNCHANGED <<world, senc, chart, damage>>

Counted ==
    /\ build.phase = "known" /\ enc.edition = build.edition
    /\ build' = [build EXCEPT !.phase = "counted", !.listed = enc.updates, !.gaps = enc.missing]
    /\ UNCHANGED <<world, senc, chart, damage>>

BaseCopied ==
    /\ build.phase = "counted" /\ faults' \in 0..MaxFaults
    /\ \E b \in 0..Whole :
         build' = [build EXCEPT !.phase = "copied", !.content = Base(enc.edition, b)]
    /\ UNCHANGED <<world, senc, chart, torn>>

\* What is listed and applies, and comes before the first file that is not whole,
\* is applied.
Applied ==
    /\ build.phase = "copied" /\ faults' \in 0..MaxFaults
    /\ \E u \in Nat, c \in Contents :
         /\ u <= build.listed /\ c.edition = build.content.edition
         /\ enc.edition = build.content.edition =>
              /\ c.cut = Whole /\ enc.good < enc.updates => u <= enc.good /\ (u = enc.good \/ u = build.listed)
              /\ c.cut = Whole /\ enc.good = enc.updates => u = build.listed
              /\ \A n \in Nat : n < c.cut /\ n <= build.listed /\ n <= enc.good => n <= u
              /\ \A n \in Present : n <= u /\ n < c.cut => n <= enc.good
              /\ c.mixed => u < build.listed
              /\ \A n : n \in c.updates <=> n \in Present /\ n \notin build.gaps /\ n <= u
         /\ build' = [build EXCEPT !.phase = "applied", !.listed = 0, !.gaps = {}, !.update = u, !.content = c]
    /\ UNCHANGED <<world, senc, chart, torn>>

Fails ==
    /\ build.phase \in {"queued", "known", "counted", "applied"} \/ (build.phase = "copying" /\ torn')
    /\ faults' \in 0..MaxFaults /\ torn' \in BOOLEAN /\ (torn => torn')
    /\ \E r \in {"unreadable", "abort"} : build' = Ends(build, r)
    /\ UNCHANGED <<world, senc, chart>>

TemporaryWritten ==
    /\ build.phase = "applied"
    /\ \E b \in {"part", "whole"} :
         /\ build' = [build EXCEPT !.phase = "written", !.day = today, !.body = b]
         /\ b = "part" => torn' \/ build.body = "part"
    /\ faults' \in 0..MaxFaults /\ torn' \in BOOLEAN /\ (torn => torn')
    /\ UNCHANGED <<world, senc, chart>>

Renamed ==
    /\ build.phase = "written" \/ (build.phase = "copying" /\ senc.body = "part")
    /\ senc' = SencOf(build) /\ build' = Ends(build, "ok")
    /\ UNCHANGED <<world, chart, damage>>

CopyBegins ==
    /\ build.phase = "written" /\ ~rename
    /\ senc' = [SencOf(build) EXCEPT !.body = "short"]
    /\ build' = [build EXCEPT !.phase = "copying"]
    /\ UNCHANGED <<world, chart, damage>>

HeaderCopied ==
    /\ build.phase = "copying" /\ senc.body = "short"
    /\ senc' = [senc EXCEPT !.body = "part"]
    /\ UNCHANGED <<world, build, chart, damage>>

\* The parts of TypeOK, and what lies in them.
Builds == [phase : Phases, told : BOOLEAN, result : {"none", "ok", "unreadable", "abort"},
           since : 0..events, edition : Nat, listed : 0..MaxUpdates, gaps : SUBSET Nat, update : Nat,
           day : 0..today, body : {"part", "whole"}, content : Contents]

Charts == [state : {"none", "current", "pending", "loaded"}, body : Bodies,
           aborted : BOOLEAN, content : Contents, asked : Versions]

Sencs == [body : Bodies, version : {"old", "201"}, edition : Nat \ {0}, update : Nat,
          day : 0..today, content : Contents]

Fields ==
    /\ build \in Builds /\ chart \in Charts /\ senc \in Sencs /\ EncOK
    /\ today \in 0..MaxDays /\ events \in 0..MaxEvents /\ faults \in 0..MaxFaults
    /\ rename \in BOOLEAN /\ torn \in BOOLEAN

\* TypeOK is the same as the types of its fields.
LEMMA TypeFields == TypeOK <=> Fields
<1> USE SencFileAssumption
<1>1. ASSUME TypeOK PROVE Fields
  <2>1. enc \in [edition : Nat \ {0}, date : 0..today, updates : 0..MaxUpdates,
                 missing : SUBSET (1..enc.updates), good : 0..enc.updates,
                 seen : enc.updates..MaxUpdates, late : SUBSET (1..enc.seen)]
    BY <1>1 DEF TypeOK
  <2>2. today \in 0..MaxDays
    BY <1>1 DEF TypeOK
  <2>3. /\ enc.edition \in Nat \ {0} /\ enc.date \in 0..today /\ enc.updates \in 0..MaxUpdates
        /\ enc.missing \in SUBSET (1..enc.updates) /\ enc.good \in 0..enc.updates
        /\ enc.seen \in enc.updates..MaxUpdates /\ enc.late \in SUBSET (1..enc.seen)
    BY <2>1
  <2>4. enc = [edition |-> enc.edition, date |-> enc.date, updates |-> enc.updates,
               missing |-> enc.missing, good |-> enc.good, seen |-> enc.seen, late |-> enc.late]
    BY <2>1
  <2>5. enc.date \in Nat /\ enc.updates \in Nat /\ enc.good \in Nat /\ enc.seen \in Nat
    BY <2>2, <2>3
  <2>6. enc.missing \in SUBSET Nat /\ enc.late \in SUBSET Nat
    BY <2>3, <2>5
  <2>7. EncOK
    BY <2>2, <2>3, <2>4, <2>5, <2>6 DEF EncOK
  <2>. QED  BY <1>1, <2>7 DEF TypeOK, Fields, Builds, Charts, Sencs
<1>2. ASSUME Fields PROVE TypeOK
  <2>1. enc \in [edition : Nat \ {0}, date : Nat, updates : Nat, missing : SUBSET Nat,
                 good : Nat, seen : Nat, late : SUBSET Nat]
    BY <1>2 DEF Fields, EncOK
  <2>2. /\ enc.edition \in Nat \ {0} /\ enc.date \in 0..today /\ enc.updates \in 0..MaxUpdates
        /\ enc.missing \in SUBSET (1..enc.updates) /\ enc.good \in 0..enc.updates
        /\ enc.seen \in enc.updates..MaxUpdates /\ enc.late \in SUBSET (1..enc.seen)
    BY <1>2 DEF Fields, EncOK
  <2>3. enc = [edition |-> enc.edition, date |-> enc.date, updates |-> enc.updates,
               missing |-> enc.missing, good |-> enc.good, seen |-> enc.seen, late |-> enc.late]
    BY <2>1
  <2>4. enc \in [edition : Nat \ {0}, date : 0..today, updates : 0..MaxUpdates,
                 missing : SUBSET (1..enc.updates), good : 0..enc.updates,
                 seen : enc.updates..MaxUpdates, late : SUBSET (1..enc.seen)]
    BY <2>2, <2>3
  <2>. QED  BY <1>2, <2>4 DEF TypeOK, Fields, Builds, Charts, Sencs
<1>. QED  BY <1>1, <1>2

\* How the ENC directory can change.
LEMMA EncOutcomes ==
    ASSUME EncOK, today \in Nat, events \in Nat, EncChanges
    PROVE  EncGrows
<1> USE SencFileAssumption
<1> DEFINE e == enc
<1>0. /\ events < MaxEvents /\ events' = events + 1
      /\ UNCHANGED <<today, senc, rename, build, chart, damage>>
  BY DEF EncChanges
<1>1. enc \in [edition : Nat \ {0}, date : Nat, updates : Nat, missing : SUBSET Nat,
               good : Nat, seen : Nat, late : SUBSET Nat]
  BY DEF EncOK
<1>2. /\ enc.date <= today /\ enc.good <= enc.updates
      /\ enc.updates <= enc.seen /\ enc.seen <= MaxUpdates
      /\ enc.missing \subseteq 1..enc.updates /\ enc.late \subseteq 1..enc.seen
  BY DEF EncOK
<1>3. CASE enc' = NewEdition(enc.edition + 1, today)
  <2>1. EncOK' /\ enc'.edition = enc.edition + 1
    BY <1>0, <1>1, <1>3 DEF EncOK, NewEdition
  <2>. QED  BY <1>0, <2>1 DEF EncGrows
<1>4. CASE enc' = [enc EXCEPT !.date = today]
  <2>1. EncOK'
    BY <1>0, <1>1, <1>2, <1>4 DEF EncOK
  <2>2. Grown
    BY <1>1, <1>2, <1>4 DEF Grown, Present
  <2>. QED  BY <1>0, <2>1, <2>2 DEF EncGrows
<1>5. ASSUME NEW n \in 1..MaxUpdates, UpdateComes(n) PROVE EncGrows
  <2>1. PICK g \in IF n > enc.updates /\ enc.good = enc.updates THEN {n - 1, n} ELSE {enc.good} :
          enc' = [enc EXCEPT !.updates = Greatest(@, n), !.good = g,
                    !.missing = (@ \cup (enc.updates + 1)..n) \ {n},
                    !.seen = Greatest(@, n),
                    !.late = IF n <= enc.seen THEN @ \cup {n} ELSE @]
    BY <1>5 DEF UpdateComes
  <2>2. n \in Nat /\ n >= 1 /\ n <= MaxUpdates /\ n \notin Present /\ MaxUpdates \in Nat
    BY <1>5 DEF UpdateComes
  <2> DEFINE top == Greatest(enc.updates, n)
             gaps == (enc.missing \cup (enc.updates + 1)..n) \ {n}
             sn == Greatest(enc.seen, n)
             lt == IF n <= enc.seen THEN enc.late \cup {n} ELSE enc.late
  <2>3. enc' = [edition |-> enc.edition, date |-> enc.date, updates |-> top, missing |-> gaps,
                good |-> g, seen |-> sn, late |-> lt]
    BY <1>1, <2>1
  <2>4. /\ top \in Nat /\ sn \in Nat /\ top <= sn /\ sn <= MaxUpdates /\ enc.seen <= sn
        /\ enc.updates <= top /\ n <= top /\ (top = n \/ top = enc.updates)
    BY <1>1, <1>2, <2>2 DEF Greatest
  <2>5. g \in Nat /\ g <= top /\ enc.good <= g
    BY <1>1, <1>2, <2>1, <2>2 DEF Greatest
  <2>6. gaps \subseteq 1..top
    BY <1>1, <1>2, <2>2, <2>4
  <2>7. lt \subseteq 1..sn /\ enc.late \subseteq lt /\ (\A m \in lt : m \in enc.late \/ m = n)
    BY <1>1, <1>2, <2>2, <2>4
  <2>8. \A m \in (1..top) \ gaps : m \in Present \/ m = n
    BY <1>1, <2>2, <2>4 DEF Present
  <2>9. \A m \in Present : m \in (1..top) \ gaps
    BY <1>1, <2>2, <2>4 DEF Present
  <2>10. n \in lt \/ n > enc.seen
    BY <1>1, <2>2
  <2> HIDE DEF top, gaps, sn, lt
  <2>11. EncOK'
    <3>1. gaps \in SUBSET Nat /\ lt \in SUBSET Nat
      BY <2>4, <2>6, <2>7
    <3>. QED  BY <1>0, <1>1, <1>2, <2>3, <2>4, <2>5, <2>6, <2>7, <3>1 DEF EncOK
  <2>12. Present' = (1..top) \ gaps
    BY <2>3 DEF Present
  <2>13. Present \subseteq Nat
    BY <1>1 DEF Present
  <2>14. Grown
    BY <1>1, <2>2, <2>3, <2>4, <2>5, <2>7, <2>8, <2>9, <2>10, <2>12, <2>13 DEF Grown
  <2>. QED  BY <1>0, <2>11, <2>14 DEF EncGrows
<1>6. CASE ChainMended
  <2>1. EncOK'
    BY <1>0, <1>1, <1>2, <1>6 DEF EncOK, ChainMended
  <2>2. Grown
    BY <1>1, <1>2, <1>6 DEF Grown, Present, ChainMended
  <2>. QED  BY <1>0, <2>1, <2>2 DEF EncGrows
<1>7. CASE RestDeleted
  <2>1. PICK k \in 0..enc.good :
          /\ k = 0 \/ k \in Present
          /\ (k + 1)..enc.good \subseteq enc.missing
          /\ enc' = [enc EXCEPT !.updates = k, !.good = k, !.missing = @ \cap 1..k]
    BY <1>7 DEF RestDeleted
  <2> DEFINE gaps == enc.missing \cap 1..k
  <2>2. enc' = [edition |-> enc.edition, date |-> enc.date, updates |-> k, missing |-> gaps,
                good |-> k, seen |-> enc.seen, late |-> enc.late]
    BY <1>1, <2>1
  <2>3. k \in Nat /\ k <= enc.good /\ gaps \subseteq 1..k /\ gaps \in SUBSET Nat
    BY <1>1
  <2>4. Present' = (1..k) \ gaps
    BY <2>2 DEF Present
  <2>5. \A m \in (1..k) \ gaps : m \in Present
    BY <1>1, <1>2, <2>3 DEF Present
  <2>6. \A m \in Present : m <= enc.good => m \in (1..k) \ gaps /\ m <= k
    BY <1>1, <2>1, <2>3 DEF Present
  <2> HIDE DEF gaps
  <2>7. EncOK'
    BY <1>0, <1>1, <1>2, <2>2, <2>3 DEF EncOK
  <2>8. Grown
    BY <1>1, <2>2, <2>4, <2>5, <2>6 DEF Grown
  <2>. QED  BY <1>0, <2>7, <2>8 DEF EncGrows
<1>. QED  BY <1>3, <1>4, <1>5, <1>6, <1>7 DEF EncChanges

\* What the updates come to when they are applied.
LEMMA ApplyOutcomes ==
    ASSUME Fields, ApplyUpdates
    PROVE  Applied
<1> USE SencFileAssumption
<1>0. /\ build \in Builds /\ EncOK
  BY DEF Fields
<1>1. PICK b \in (1..build.listed) \cup {build.content.cut}, u \in 0..build.listed :
        \E mixed \in Leftovers(u) :
          /\ \/ b = build.content.cut /\ UNCHANGED faults
             \/ b < build.content.cut /\ Fault
          /\ enc.edition = build.content.edition => u \in LastApplied(b)
          /\ build' = [build EXCEPT !.phase = "applied", !.listed = 0, !.gaps = {}, !.update = u,
                         !.content = [edition |-> build.content.edition, updates |-> Used(u), mixed |-> mixed,
                                      cut |-> IF b <= u + 1 THEN b ELSE Whole]]
  BY DEF ApplyUpdates
<1>m. PICK mixed \in Leftovers(u) :
        /\ enc.edition = build.content.edition => u \in LastApplied(b)
        /\ build' = [build EXCEPT !.phase = "applied", !.listed = 0, !.gaps = {}, !.update = u,
                       !.content = [edition |-> build.content.edition, updates |-> Used(u), mixed |-> mixed,
                                    cut |-> IF b <= u + 1 THEN b ELSE Whole]]
  BY <1>1
<1>f. faults' \in 0..MaxFaults
  BY <1>1 DEF Fault, Fields
<1>2. build.phase = "copied" /\ UNCHANGED <<world, senc, chart, torn>>
  BY DEF ApplyUpdates
<1>3. build.listed \in 0..MaxUpdates /\ build.content \in Contents /\ Whole \in Nat
  BY <1>0 DEF Builds, Whole
<1>4. u \in Nat /\ u <= build.listed
  BY <1>3
<1>b. b \in 0..Whole
  BY <1>3 DEF Contents, Whole
<1> DEFINE k == IF b <= u + 1 THEN b ELSE Whole
           c == [edition |-> build.content.edition, updates |-> Used(u), mixed |-> mixed, cut |-> k]
<1>5. Used(u) \subseteq Nat
  BY <1>0 DEF EncOK, Present, Used
<1>k. k \in 0..Whole
  BY <1>b, <1>3
<1>6. c \in Contents
  BY <1>3, <1>5, <1>k DEF Contents, Leftovers
<1>l. ASSUME enc.edition = build.content.edition PROVE mixed => u < build.listed
  <2>1. CASE u = build.listed
    <3>1. mixed \in {FALSE}
      BY <1>l, <2>1 DEF Leftovers
    <3>. QED  BY <3>1, Zenon
  <2>2. CASE u # build.listed
    BY <1>3, <1>4, <2>2
  <2>. QED  BY <2>1, <2>2
<1>7. ASSUME enc.edition = build.content.edition
      PROVE  /\ k = Whole /\ enc.good < enc.updates => u <= enc.good /\ (u = enc.good \/ u = build.listed)
             /\ k = Whole /\ enc.good = enc.updates => u = build.listed
             /\ \A n \in Nat : n < k /\ n <= build.listed /\ n <= enc.good => n <= u
             /\ \A n \in Present : n <= u /\ n < k => n <= enc.good
  <2> DEFINE last == IF enc.good < enc.updates THEN Least(build.listed, enc.good) ELSE build.listed
  <2>1. u \in IF b > last + 1 THEN {last} ELSE (Greatest(b, 1) - 1)..build.listed
    BY <1>m, <1>7 DEF LastApplied
  <2>2. enc.good \in Nat /\ enc.updates \in Nat /\ enc.good <= enc.updates
    BY <1>0 DEF EncOK
  <2>3. /\ last \in Nat /\ last <= build.listed
        /\ enc.good < enc.updates => last <= enc.good /\ (last = enc.good \/ last = build.listed)
        /\ enc.good = enc.updates => last = build.listed
        /\ \A n \in Nat : n <= build.listed /\ n <= enc.good => n <= last
    BY <1>3, <2>2 DEF Least
  <2>4. Present \subseteq Nat /\ \A n \in Present : n <= enc.updates
    BY <1>0 DEF EncOK, Present
  <2>5. CASE b > last + 1
    <3>1. u = last /\ k = Whole
      BY <2>1, <2>3, <2>5, <1>b
    <3> HIDE DEF last, k
    <3>. QED  BY <3>1, <2>2, <2>3, <2>4, <1>3, <1>4
  <2>6. CASE ~(b > last + 1)
    <3>1. b <= u + 1 /\ k = b
      BY <2>1, <2>3, <2>6, <1>b, <1>3, <1>4 DEF Greatest
    <3>2. \A n \in Nat : n < k => n <= u /\ n <= last
      BY <2>3, <2>6, <3>1, <1>b, <1>4
    <3>3. k = Whole => last = build.listed /\ u = build.listed
      BY <2>3, <2>6, <3>1, <1>3, <1>4 DEF Whole
    <3> HIDE DEF last, k
    <3>4. ASSUME NEW n \in Present, n < k PROVE n <= enc.good
      <4>1. n \in Nat /\ n <= enc.updates /\ n <= last
        BY <3>2, <3>4, <2>4
      <4>. QED  BY <4>1, <2>2, <2>3
    <3>5. \A n \in Nat : n < k /\ n <= build.listed /\ n <= enc.good => n <= u
      BY <3>2
    <3>6. /\ k = Whole /\ enc.good < enc.updates => u <= enc.good /\ (u = enc.good \/ u = build.listed)
          /\ k = Whole /\ enc.good = enc.updates => u = build.listed
      BY <3>3, <2>3
    <3>. QED  BY <3>4, <3>5, <3>6
  <2>. QED  BY <2>5, <2>6
<1>8. c.edition = build.content.edition /\ c.cut = k /\ c.mixed = mixed /\ c.updates = Used(u)
  OBVIOUS
<1>9. build' = [build EXCEPT !.phase = "applied", !.listed = 0, !.gaps = {}, !.update = u, !.content = c]
  BY <1>m
<1> HIDE DEF c, k
<1>10. ASSUME enc.edition = build.content.edition
       PROVE  /\ c.mixed => u < build.listed
              /\ \A n : n \in c.updates <=> n \in Present /\ n \notin build.gaps /\ n <= u
  BY <1>l, <1>8, <1>10 DEF Used
<1>. QED  BY <1>2, <1>4, <1>6, <1>7, <1>8, <1>9, <1>10, <1>f DEF Applied

\* Every step is one of these outcomes.
LEMMA Outcomes ==
    ASSUME TypeOK, Next
    PROVE  \/ EncGrows \/ Midnight \/ Crash
           \/ Scheduled \/ Dropped \/ FoundCurrent \/ Load \/ Evict \/ Untold \/ Completed
           \/ AttributesRead \/ Counted \/ BaseCopied \/ Applied \/ Fails
           \/ TemporaryWritten \/ Renamed \/ CopyBegins \/ HeaderCopied
<1>0. Fields
  BY TypeFields
<1> USE SencFileAssumption DEF Fields, Builds, Sencs, Bodies, Phases, world, damage
<1>1. ASSUME EncChanges PROVE EncGrows
  BY <1>0, <1>1, EncOutcomes
<1>2. ASSUME Open PROVE Scheduled \/ Dropped \/ FoundCurrent
  BY <1>2 DEF Open, Scheduled, Dropped, FoundCurrent
<1>3. ASSUME Finish PROVE Untold \/ Completed
  <2>1. CASE ~build.told \/ build.result = "unreadable" \/ senc.body = "absent"
    BY <1>3, <2>1 DEF Finish, Untold
  <2>2. CASE ~(~build.told \/ build.result = "unreadable" \/ senc.body = "absent")
    BY <1>3, <2>2 DEF Finish, Completed
  <2>. QED  BY <2>1, <2>2
<1>4. ASSUME ReadAttributes PROVE AttributesRead \/ Fails
  BY <1>0, <1>4 DEF ReadAttributes, AttributesRead, Fails, Fault
<1>5. ASSUME CountUpdates PROVE Counted \/ Fails
  BY <1>0, <1>5 DEF CountUpdates, Counted, Fails
<1>b. ASSUME CopyBase PROVE BaseCopied \/ Fails
  <2>0. 0 \in 0..Whole /\ Whole \in 0..Whole /\ faults \in 0..MaxFaults /\ (Fault => faults' \in 0..MaxFaults)
    BY <1>0 DEF Whole, Fault
  <2>c. build.phase = "counted" /\ UNCHANGED <<world, senc, chart, torn>>
    BY <1>b DEF CopyBase
  <2>1. CASE build' = [build EXCEPT !.phase = "copied", !.content = Base(enc.edition, Whole)] /\ UNCHANGED faults
    BY ONLY <2>0, <2>c, <2>1 DEF BaseCopied
  <2>2. CASE Fault /\ build' = [build EXCEPT !.phase = "copied", !.content = Base(enc.edition, 0)]
    BY ONLY <2>0, <2>c, <2>2 DEF BaseCopied
  <2>3. CASE Fault /\ \E q \in {"unreadable", "abort"} : build' = Ends(build, q)
    BY <1>0, <2>0, <2>c, <2>3 DEF Fails
  <2>. QED  BY <1>b, <2>1, <2>2, <2>3 DEF CopyBase
<1>6. ASSUME ApplyUpdates PROVE Applied
  BY <1>0, <1>6, ApplyOutcomes
<1>7. ASSUME WriteTemporary PROVE TemporaryWritten \/ Fails
  <2>1. CASE Fault /\ build' = Ends(build, "abort") /\ UNCHANGED torn
    BY <1>0, <1>7, <2>1 DEF WriteTemporary, Fails, Fault
  <2>2. CASE build' = [build EXCEPT !.phase = "written", !.day = today] /\ UNCHANGED damage
    <3>1. build.body \in {"part", "whole"}
      BY <1>0
    <3>2. build' = [build EXCEPT !.phase = "written", !.day = today, !.body = build.body]
      BY <1>0, <2>2
    <3>. QED  BY <1>0, <1>7, <2>2, <3>1, <3>2 DEF WriteTemporary, TemporaryWritten
  <2>3. CASE /\ Fault /\ torn' = TRUE
             /\ build' = [build EXCEPT !.phase = "written", !.day = today, !.body = "part"]
    BY <1>0, <1>7, <2>3 DEF WriteTemporary, TemporaryWritten, Fault
  <2>. QED  BY <1>7, <2>1, <2>2, <2>3 DEF WriteTemporary
<1>8. ASSUME Rename PROVE Renamed \/ CopyBegins
  BY <1>8 DEF Rename, Renamed, CopyBegins
<1>9. ASSUME CopyGoesOn PROVE HeaderCopied \/ Renamed \/ Fails
  <2>1. CASE /\ senc.body = "short" /\ senc' = [senc EXCEPT !.body = "part"] /\ UNCHANGED <<build, damage>>
    BY <1>9, <2>1 DEF CopyGoesOn, HeaderCopied
  <2>2. CASE senc.body = "part" /\ senc' = SencOf(build) /\ build' = Ends(build, "ok") /\ UNCHANGED damage
    BY <1>9, <2>2 DEF CopyGoesOn, Renamed
  <2>3. CASE Fault /\ torn' = TRUE /\ build' = Ends(build, "abort") /\ UNCHANGED senc
    BY <1>0, <1>9, <2>3 DEF CopyGoesOn, Fails, Fault
  <2>. QED  BY <1>9, <2>1, <2>2, <2>3 DEF CopyGoesOn
<1>. QED  BY <1>1, <1>2, <1>3, <1>4, <1>5, <1>b, <1>6, <1>7, <1>8, <1>9 DEF Next, Build

\* Records that lie in the types.
LEMMA Members ==
    ASSUME Fields
    PROVE  /\ build.content \in Contents /\ senc.content \in Contents /\ chart.content \in Contents
           /\ Newest \in Versions /\ NewestKept \in Versions /\ [edition |-> 0, updates |-> {}] \in Versions
           /\ Base(0, Whole) \in Contents
           /\ events \in 0..events /\ today \in 0..today /\ 0 \in 0..events /\ 0 \in 0..today
           /\ enc.edition \in Nat \ {0} /\ enc.updates \in Nat /\ enc.missing \in SUBSET Nat
           /\ enc.updates \in 0..MaxUpdates /\ 0 \in 0..MaxUpdates
<1> USE DEF Fields
<1>1. build.content \in Contents /\ senc.content \in Contents /\ chart.content \in Contents
  BY DEF Builds, Charts, Sencs
<1>2. /\ enc.edition \in Nat \ {0} /\ enc.updates \in Nat /\ enc.missing \in SUBSET Nat
      /\ enc.updates \in 0..MaxUpdates /\ 0 \in 0..MaxUpdates
  BY SencFileAssumption DEF EncOK
<1>3. Present \subseteq Nat
  BY <1>2 DEF Present
<1>4. Newest \in Versions /\ NewestKept \in Versions /\ [edition |-> 0, updates |-> {}] \in Versions
  BY <1>2, <1>3 DEF Newest, NewestKept, Versions, Applicable
<1>5. Base(0, Whole) \in Contents
  BY <1>2, SencFileAssumption DEF Base, Contents, Whole
<1>6. events \in 0..events /\ today \in 0..today /\ 0 \in 0..events /\ 0 \in 0..today
  BY SencFileAssumption
<1>. QED  BY <1>1, <1>2, <1>4, <1>5, <1>6

\* An update that is there has a number.
LEMMA PresentNat == EncOK => Present \subseteq 1..enc.updates /\ Present \subseteq Nat
  BY DEF EncOK, Present

\* Types are kept.
LEMMA TypeStep == TypeOK /\ EditionsKnown /\ [Next]_vars => TypeOK'
<1> SUFFICES ASSUME TypeOK, EditionsKnown, [Next]_vars PROVE Fields'
  <2>1. Fields' => TypeOK'
    BY TypeFields, PTL
  <2>. QED  BY <2>1
<1>f. Fields
  BY TypeFields
<1>0. /\ build.content \in Contents /\ senc.content \in Contents /\ chart.content \in Contents
      /\ Newest \in Versions /\ NewestKept \in Versions /\ [edition |-> 0, updates |-> {}] \in Versions
      /\ Base(0, Whole) \in Contents
      /\ events \in 0..events /\ today \in 0..today /\ 0 \in 0..events /\ 0 \in 0..today
      /\ enc.edition \in Nat \ {0} /\ enc.updates \in Nat /\ enc.missing \in SUBSET Nat
      /\ enc.updates \in 0..MaxUpdates /\ 0 \in 0..MaxUpdates
  BY <1>f, Members
<1>t. /\ build \in Builds /\ chart \in Charts /\ senc \in Sencs /\ EncOK
      /\ today \in 0..MaxDays /\ events \in 0..MaxEvents /\ faults \in 0..MaxFaults
      /\ rename \in BOOLEAN /\ torn \in BOOLEAN
  BY <1>f DEF Fields
<1> USE SencFileAssumption DEF world, damage
<1>1. CASE EncGrows
  BY <1>t, <1>1 DEF EncGrows, Fields, Builds, Charts, Sencs
<1>2. CASE Midnight
  BY <1>t, <1>2 DEF Midnight, Fields, EncOK, Builds, Charts, Sencs
<1>3. CASE Crash
  <2>1. build' \in Builds /\ chart' \in Charts
    BY <1>0, <1>3, <1>t DEF Crash, NoBuild, NoChart, Builds, Charts, Phases, Bodies
  <2>. QED  BY <1>t, <1>3, <2>1 DEF Crash, Fault, Fields, EncOK, Builds, Charts, Sencs
<1>4. CASE Scheduled \/ Dropped \/ FoundCurrent
  <2>1. chart' \in Charts
    BY <1>0, <1>4 DEF Scheduled, Dropped, FoundCurrent, NoChart, Charts, Bodies
  <2>2. build' \in Builds
    <3>1. CASE Scheduled
      <4>1. build' = [phase |-> "queued", told |-> TRUE, result |-> "none", since |-> 0,
                      edition |-> 0, listed |-> 0, gaps |-> {}, update |-> 0, day |-> 0,
                      body |-> "whole", content |-> Base(0, Whole)]
        BY <3>1 DEF Scheduled, NoBuild
      <4>. QED  BY <1>0, <4>1, <3>1 DEF Builds, Phases, Scheduled
    <3>2. CASE Dropped \/ FoundCurrent
      BY <1>t, <3>2 DEF Dropped, FoundCurrent, Builds
    <3>. QED  BY <1>4, <3>1, <3>2
  <2>. QED  BY <1>t, <1>4, <2>1, <2>2 DEF Scheduled, Dropped, FoundCurrent, Builds, Charts, Sencs, EncOK, Fields
<1>5. CASE Load
  <2>1. chart' \in Charts
    BY <1>0, <1>t, <1>5 DEF Load, Loaded, NoChart, Charts, Sencs, Bodies
  <2>. QED  BY <1>t, <1>5, <2>1 DEF Load, Builds, Charts, Sencs, EncOK, Fields
<1>6. CASE Evict
  <2>1. chart' \in Charts /\ build' \in Builds
    BY <1>0, <1>t, <1>6 DEF Evict, NoChart, Charts, Bodies, Builds
  <2>. QED  BY <1>t, <1>6, <2>1 DEF Evict, Builds, Charts, Sencs, EncOK, Fields
<1>7. CASE Untold
  <2>1. build' \in Builds
    BY <1>0, <1>t, <1>7 DEF Untold, NoBuild, Builds, Phases
  <2>. QED  BY <1>t, <1>7, <2>1 DEF Untold, Builds, Charts, Sencs, EncOK, Fields
<1>8. CASE Completed
  <2>1. PICK a \in BOOLEAN : chart' = [Loaded(chart) EXCEPT !.aborted = a]
    BY <1>8 DEF Completed
  <2>2. chart' \in Charts
    BY <1>0, <1>t, <2>1 DEF Loaded, Charts, Sencs
  <2>3. build' \in Builds /\ UNCHANGED <<world, senc, damage>>
    BY <1>0, <1>8 DEF Completed, NoBuild, Builds, Phases
  <2>. QED  BY <1>t, <2>2, <2>3 DEF Builds, Charts, Sencs, EncOK, Fields
<1>9. CASE AttributesRead \/ Counted \/ BaseCopied
  <2>1. build' \in Builds
    <3>1. CASE AttributesRead
      BY <1>0, <1>t, <3>1 DEF AttributesRead, Builds, Phases
    <3>2. CASE Counted
      BY <1>0, <1>t, <3>2 DEF Counted, Builds, Phases
    <3>3. CASE BaseCopied
      <4>1. PICK b \in 0..Whole :
              build' = [build EXCEPT !.phase = "copied", !.content = Base(enc.edition, b)]
        BY <3>3 DEF BaseCopied
      <4>2. Base(enc.edition, b) \in Contents
        BY <1>0 DEF Base, Contents
      <4>. QED  BY <1>t, <3>3, <4>1, <4>2 DEF BaseCopied, Builds, Phases
    <3>. QED  BY <1>9, <3>1, <3>2, <3>3
  <2>2. UNCHANGED <<world, senc, chart, torn>> /\ faults' \in 0..MaxFaults
    BY <1>t, <1>9 DEF AttributesRead, Counted, BaseCopied
  <2>. QED  BY <1>t, <2>1, <2>2 DEF Builds, Charts, Sencs, EncOK, Fields
<1>10. CASE Fails
  <2>1. PICK r \in {"unreadable", "abort"} : build' = Ends(build, r)
    BY <1>10 DEF Fails
  <2>2. build' \in Builds
    BY <1>0, <1>t, <2>1 DEF Ends, NoBuild, Builds, Phases
  <2>3. UNCHANGED <<world, senc, chart>> /\ faults' \in 0..MaxFaults /\ torn' \in BOOLEAN
    BY <1>t, <1>10 DEF Fails
  <2>. QED  BY <1>t, <2>2, <2>3 DEF Builds, Charts, Sencs, EncOK, Fields
<1>11. CASE Applied
  <2>1. PICK u \in Nat, c \in Contents :
          build' = [build EXCEPT !.phase = "applied", !.listed = 0, !.gaps = {}, !.update = u, !.content = c]
    BY <1>11 DEF Applied
  <2>3. build' \in Builds
    BY <1>0, <1>t, <2>1 DEF Builds, Phases
  <2>. QED  BY <1>t, <1>11, <2>3 DEF Applied, Builds, Charts, Sencs, EncOK, Fields
<1>12. CASE TemporaryWritten
  <2>1. PICK b \in {"part", "whole"} : build' = [build EXCEPT !.phase = "written", !.day = today, !.body = b]
    BY <1>12 DEF TemporaryWritten
  <2>2. build' \in Builds
    BY <1>0, <1>t, <2>1 DEF Builds, Phases
  <2>. QED  BY <1>t, <1>12, <2>2 DEF TemporaryWritten, Builds, Charts, Sencs, EncOK, Fields
<1>13. CASE Renamed
  <2>1. build.edition \in Nat \ {0}
    BY <1>t, <1>13 DEF Renamed, EditionsKnown, Reading, Builds
  <2>2. senc' \in Sencs
    BY <1>t, <1>13, <2>1 DEF Renamed, SencOf, Sencs, Builds, Bodies
  <2>3. build' \in Builds
    BY <1>0, <1>t, <1>13 DEF Renamed, Ends, NoBuild, Builds, Phases
  <2>. QED  BY <1>t, <1>13, <2>2, <2>3 DEF Renamed, Builds, Charts, Sencs, EncOK, Fields
<1>14. CASE CopyBegins
  <2>1. build.edition \in Nat \ {0}
    BY <1>t, <1>14 DEF CopyBegins, EditionsKnown, Reading, Builds
  <2>2. senc' \in Sencs
    BY <1>t, <1>14, <2>1 DEF CopyBegins, SencOf, Sencs, Builds, Bodies
  <2>3. build' \in Builds
    BY <1>t, <1>14 DEF CopyBegins, Builds, Phases
  <2>. QED  BY <1>t, <1>14, <2>2, <2>3 DEF CopyBegins, Builds, Charts, Sencs, EncOK, Fields
<1>15. CASE HeaderCopied
  <2>1. senc' \in Sencs
    BY <1>t, <1>15 DEF HeaderCopied, Sencs, Bodies
  <2>. QED  BY <1>t, <1>15, <2>1 DEF HeaderCopied, Builds, Charts, Sencs, EncOK, Fields
<1>16. CASE UNCHANGED vars
  BY <1>t, <1>16 DEF vars, Builds, Charts, Sencs, EncOK, Fields
<1>. QED  BY Outcomes, <1>1, <1>2, <1>3, <1>4, <1>5, <1>6, <1>7, <1>8, <1>9, <1>10, <1>11,
             <1>12, <1>13, <1>14, <1>15, <1>16

\* Editions only grow.
LEMMA EditionsStep == TypeOK /\ EditionsKnown /\ [Next]_vars => EditionsKnown'
<1> SUFFICES ASSUME TypeOK, EditionsKnown, [Next]_vars PROVE EditionsKnown' OBVIOUS
<1>f. Fields /\ (Present \subseteq 1..enc.updates) /\ (Present \subseteq Nat)
  BY TypeFields, PresentNat DEF Fields
<1> USE SencFileAssumption, <1>f DEF Fields, EncOK, Builds, Charts, Sencs, Bodies, Phases, Contents, Versions, world, damage, EditionsKnown, Reading
<1>1. CASE EncGrows
  <2>1. enc.edition \in Nat /\ enc'.edition \in Nat /\ enc.edition <= enc'.edition
    BY <1>1 DEF EncGrows, Grown
  <2>. QED  BY ONLY <1>1, <2>1, EditionsKnown, <1>f DEF EncGrows, EditionsKnown, Reading, Fields, Builds, Sencs, damage
<1>2. CASE Midnight
  BY <1>2 DEF Midnight
<1>3. CASE Crash
  BY <1>3 DEF Crash, Fault, NoBuild, NoChart
<1>4. CASE Scheduled
  BY <1>4 DEF Scheduled, NoBuild, NoChart
<1>5. CASE Dropped
  BY <1>5 DEF Dropped, NoChart
<1>6. CASE FoundCurrent
  BY <1>6 DEF FoundCurrent, NoChart
<1>7. CASE Load
  BY <1>7 DEF Load, Loaded, NoChart
<1>8. CASE Evict
  BY <1>8 DEF Evict, NoChart
<1>9. CASE Untold
  BY <1>9 DEF Untold, NoBuild
<1>10. CASE Completed
  BY <1>10 DEF Completed, Loaded, NoBuild
<1>11. CASE AttributesRead
  BY <1>11 DEF AttributesRead
<1>12. CASE Counted
  BY <1>12 DEF Counted
<1>14. CASE BaseCopied
  BY <1>14 DEF BaseCopied
<1>15. CASE Applied
  BY <1>15 DEF Applied
<1>16. CASE Fails
  BY <1>16 DEF Fails, Ends, NoBuild
<1>17. CASE TemporaryWritten
  BY <1>17 DEF TemporaryWritten
<1>18. CASE Renamed
  BY <1>18 DEF Renamed, Ends, NoBuild, SencOf
<1>19. CASE CopyBegins
  BY <1>19 DEF CopyBegins, SencOf
<1>20. CASE HeaderCopied
  BY <1>20 DEF HeaderCopied
<1>21. CASE UNCHANGED vars
  BY <1>21 DEF vars
<1>. QED  BY Outcomes, <1>1, <1>2, <1>3, <1>4, <1>5, <1>6, <1>7, <1>8, <1>9, <1>10, <1>11, <1>12, <1>14, <1>15, <1>16, <1>17, <1>18, <1>19, <1>20, <1>21

\* Headers stay honest.
LEMMA HonestStep == TypeOK /\ EditionsKnown /\ HeaderHonest /\ [Next]_vars => HeaderHonest'
<1> SUFFICES ASSUME TypeOK, EditionsKnown, HeaderHonest, [Next]_vars PROVE HeaderHonest' OBVIOUS
<1>f. Fields /\ (Present \subseteq 1..enc.updates) /\ (Present \subseteq Nat)
  BY TypeFields, PresentNat DEF Fields
<1> USE SencFileAssumption, <1>f DEF Fields, EncOK, Builds, Charts, Sencs, Bodies, Phases, Contents, Versions, world, damage, EditionsKnown, HeaderHonest, Honest, Grown, Installed, Reading, Base, Present
<1>1. CASE EncGrows
  <2>1. CASE enc'.edition = enc.edition + 1
    BY <1>1, <2>1 DEF EncGrows
  <2>2. CASE Grown
    <3>1. ASSUME NEW c, NEW last \in Nat, Honest(c, last), UNCHANGED <<c, last>> PROVE Honest(c, last)'
      <4>1. enc'.edition = enc.edition /\ enc.seen \in Nat /\ enc'.seen \in Nat /\ enc.seen <= enc'.seen
        BY <1>1, <2>2 DEF EncGrows, Grown
      <4>2. ASSUME NEW n \in (Present \ enc.late)', n <= last, n < c.cut PROVE n \in c.updates /\ n <= enc'.good
        BY <1>1, <2>2, <3>1, <4>1, <4>2 DEF EncGrows, Grown, Honest, Present
      <4>. QED  BY <3>1, <4>1, <4>2 DEF Honest
    <3>2. /\ senc.edition = enc.edition => Honest(senc.content, senc.update)'
          /\ build.phase \in {"applied", "written", "copying"} /\ build.edition = enc.edition =>
               Honest(build.content, build.update)'
      BY <1>1, <3>1 DEF EncGrows, HeaderHonest
    <3>3. build.phase \in {"counted", "copied"} /\ build.edition = enc.edition =>
            build.listed <= enc'.seen /\ build.gaps \subseteq 1..build.listed /\ \A n \in Present' : n \in build.gaps => n \in enc'.late
      <4>1. CASE build.phase \in {"counted", "copied"} /\ build.edition = enc.edition
        <5>1. build.listed <= enc.seen /\ build.gaps \subseteq 1..build.listed /\ build.gaps \cap Present \subseteq enc.late
          BY <4>1
        <5>2. build.listed \in Nat /\ enc.seen \in Nat /\ enc'.seen \in Nat /\ enc.seen <= enc'.seen
          BY <1>1, <2>2 DEF EncGrows
        <5>3. ASSUME NEW n \in Present', n \in build.gaps PROVE n \in enc'.late
          BY <2>2, <5>1, <5>2, <5>3
        <5>. QED  BY <5>1, <5>2, <5>3
      <4>. QED  BY <4>1
    <3>. QED  BY <1>1, <2>2, <3>2, <3>3 DEF EncGrows, Grown, HeaderHonest
  <2>. QED  BY <1>1, <2>1, <2>2 DEF EncGrows
<1>2. CASE Midnight
  BY <1>2 DEF Midnight
<1>3. CASE Crash
  BY <1>3 DEF Crash, Fault, NoBuild, NoChart
<1>4. CASE Scheduled
  BY <1>4 DEF Scheduled, NoBuild, NoChart
<1>5. CASE Dropped
  BY <1>5 DEF Dropped, NoChart
<1>6. CASE FoundCurrent
  BY <1>6 DEF FoundCurrent, NoChart
<1>7. CASE Load
  BY <1>7 DEF Load, Loaded, NoChart
<1>8. CASE Evict
  <2>1. /\ build'.phase = build.phase /\ build'.content = build.content /\ build'.edition = build.edition
        /\ build'.listed = build.listed /\ build'.gaps = build.gaps /\ build'.update = build.update
        /\ build'.result = build.result /\ build'.day = build.day /\ build'.body = build.body
    BY <1>8 DEF Evict
  <2>2. UNCHANGED <<enc, senc>>
    BY <1>8 DEF Evict
  <2>3. Installed' <=> Installed
    BY <2>1, <2>2 DEF SencOf
  <2>. QED  BY ONLY <2>1, <2>2, <2>3, HeaderHonest DEF HeaderHonest, Honest, Present
<1>9. CASE Untold
  BY <1>9 DEF Untold, NoBuild
<1>10. CASE Completed
  BY <1>10 DEF Completed, Loaded, NoBuild
<1>11. CASE AttributesRead
  BY <1>11 DEF AttributesRead
<1>12. CASE Counted
  BY <1>12 DEF Counted
<1>14. CASE BaseCopied
  BY <1>14 DEF BaseCopied
<1>15. CASE Applied
  BY <1>15 DEF Applied
<1>16. CASE Fails
  BY <1>16 DEF Fails, Ends, NoBuild
<1>17. CASE TemporaryWritten
  BY <1>17 DEF TemporaryWritten
<1>18. CASE Renamed
  BY <1>18 DEF Renamed, Ends, NoBuild, SencOf
<1>19. CASE CopyBegins
  BY <1>19 DEF CopyBegins, SencOf
<1>20. CASE HeaderCopied
  BY <1>20 DEF HeaderCopied
<1>21. CASE UNCHANGED vars
  BY <1>21 DEF vars
<1>. QED  BY Outcomes, <1>1, <1>2, <1>3, <1>4, <1>5, <1>6, <1>7, <1>8, <1>9, <1>10, <1>11, <1>12, <1>14, <1>15, <1>16, <1>17, <1>18, <1>19, <1>20, <1>21

\* A build stays ahead of the SENC file.
LEMMA NotLessStep == TypeOK /\ EditionsKnown /\ HeaderHonest /\ NotLess /\ [Next]_vars => NotLess'
<1> SUFFICES ASSUME TypeOK, EditionsKnown, HeaderHonest, NotLess, [Next]_vars PROVE NotLess' OBVIOUS
<1>f. Fields /\ (Present \subseteq 1..enc.updates) /\ (Present \subseteq Nat)
  BY TypeFields, PresentNat DEF Fields
<1> USE SencFileAssumption, <1>f DEF Fields, EncOK, Builds, Charts, Sencs, Bodies, Phases, Contents, Versions, world, damage, EditionsKnown, HeaderHonest, Honest, NotLess, Grown, Installed, Reading, Base, Present
<1>1. CASE EncGrows
  BY <1>1 DEF EncGrows
<1>2. CASE Midnight
  BY <1>2 DEF Midnight
<1>3. CASE Crash
  BY <1>3 DEF Crash, Fault, NoBuild, NoChart
<1>4. CASE Scheduled
  BY <1>4 DEF Scheduled, NoBuild, NoChart
<1>5. CASE Dropped
  BY <1>5 DEF Dropped, NoChart
<1>6. CASE FoundCurrent
  BY <1>6 DEF FoundCurrent, NoChart
<1>7. CASE Load
  BY <1>7 DEF Load, Loaded, NoChart
<1>8. CASE Evict
  BY <1>8 DEF Evict, NoChart
<1>9. CASE Untold
  BY <1>9 DEF Untold, NoBuild
<1>10. CASE Completed
  BY <1>10 DEF Completed, Loaded, NoBuild
<1>11. CASE AttributesRead
  BY <1>11 DEF AttributesRead
<1>12. CASE Counted
  BY <1>12 DEF Counted
<1>14. CASE BaseCopied
  BY <1>14 DEF BaseCopied
<1>15. CASE Applied
  BY <1>15 DEF Applied
<1>16. CASE Fails
  BY <1>16 DEF Fails, Ends, NoBuild
<1>17. CASE TemporaryWritten
  BY <1>17 DEF TemporaryWritten
<1>18. CASE Renamed
  BY <1>18 DEF Renamed, Ends, NoBuild, SencOf
<1>19. CASE CopyBegins
  BY <1>19 DEF CopyBegins, SencOf
<1>20. CASE HeaderCopied
  BY <1>20 DEF HeaderCopied
<1>21. CASE UNCHANGED vars
  BY <1>21 DEF vars
<1>. QED  BY Outcomes, <1>1, <1>2, <1>3, <1>4, <1>5, <1>6, <1>7, <1>8, <1>9, <1>10, <1>11, <1>12, <1>14, <1>15, <1>16, <1>17, <1>18, <1>19, <1>20, <1>21

\* What an undisturbed build knows stays so.
LEMMA UndisturbedStep == TypeOK /\ EditionsKnown /\ HeaderHonest /\ Causes /\ Undisturbed /\ [Next]_vars => Undisturbed'
<1> SUFFICES ASSUME TypeOK, EditionsKnown, HeaderHonest, Causes, Undisturbed, [Next]_vars PROVE Undisturbed' OBVIOUS
<1>f. Fields /\ (Present \subseteq 1..enc.updates) /\ (Present \subseteq Nat)
  BY TypeFields, PresentNat DEF Fields
<1> USE SencFileAssumption, <1>f DEF Fields, EncOK, Builds, Charts, Sencs, Bodies, Phases, Contents, Versions, world, damage, HeaderHonest, Installed, Causes, Undisturbed, Reading, Base
<1>1. CASE EncGrows
  BY <1>1 DEF EncGrows
<1>2. CASE Midnight
  BY <1>2 DEF Midnight
<1>3. CASE Crash
  BY <1>3 DEF Crash, Fault, NoBuild, NoChart
<1>4. CASE Scheduled
  BY <1>4 DEF Scheduled, NoBuild, NoChart
<1>5. CASE Dropped
  BY <1>5 DEF Dropped, NoChart
<1>6. CASE FoundCurrent
  BY <1>6 DEF FoundCurrent, NoChart
<1>7. CASE Load
  BY <1>7 DEF Load, Loaded, NoChart
<1>8. CASE Evict
  BY <1>8 DEF Evict, NoChart
<1>9. CASE Untold
  BY <1>9 DEF Untold, NoBuild
<1>10. CASE Completed
  BY <1>10 DEF Completed, Loaded, NoBuild
<1>11. CASE AttributesRead
  BY <1>11 DEF AttributesRead
<1>12. CASE Counted
  BY <1>12 DEF Counted
<1>14. CASE BaseCopied
  BY <1>14 DEF BaseCopied
<1>15. CASE Applied
  BY <1>15 DEF Applied
<1>16. CASE Fails
  BY <1>16 DEF Fails, Ends, NoBuild
<1>17. CASE TemporaryWritten
  BY <1>17 DEF TemporaryWritten
<1>18. CASE Renamed
  BY <1>18 DEF Renamed, Ends, NoBuild, SencOf
<1>19. CASE CopyBegins
  BY <1>19 DEF CopyBegins, SencOf
<1>20. CASE HeaderCopied
  BY <1>20 DEF HeaderCopied
<1>21. CASE UNCHANGED vars
  BY <1>21 DEF vars
<1>. QED  BY Outcomes, <1>1, <1>2, <1>3, <1>4, <1>5, <1>6, <1>7, <1>8, <1>9, <1>10, <1>11, <1>12, <1>14, <1>15, <1>16, <1>17, <1>18, <1>19, <1>20, <1>21

\* Partial files keep their cause.
LEMMA CausesStep == TypeOK /\ Causes /\ [Next]_vars => Causes'
<1> SUFFICES ASSUME TypeOK, Causes, [Next]_vars PROVE Causes' OBVIOUS
<1>f. Fields /\ (Present \subseteq 1..enc.updates) /\ (Present \subseteq Nat)
  BY TypeFields, PresentNat DEF Fields
<1> USE SencFileAssumption, <1>f DEF Fields, EncOK, Builds, Charts, Sencs, Bodies, Phases, Contents, Versions, world, damage, Causes, PartialHasCause
<1>1. CASE EncGrows
  BY <1>1 DEF EncGrows
<1>2. CASE Midnight
  BY <1>2 DEF Midnight
<1>3. CASE Crash
  BY <1>3 DEF Crash, Fault, NoBuild, NoChart
<1>4. CASE Scheduled
  BY <1>4 DEF Scheduled, NoBuild, NoChart
<1>5. CASE Dropped
  BY <1>5 DEF Dropped, NoChart
<1>6. CASE FoundCurrent
  BY <1>6 DEF FoundCurrent, NoChart
<1>7. CASE Load
  BY <1>7 DEF Load, Loaded, NoChart
<1>8. CASE Evict
  BY <1>8 DEF Evict, NoChart
<1>9. CASE Untold
  BY <1>9 DEF Untold, NoBuild
<1>10. CASE Completed
  BY <1>10 DEF Completed, Loaded, NoBuild
<1>11. CASE AttributesRead
  BY <1>11 DEF AttributesRead
<1>12. CASE Counted
  BY <1>12 DEF Counted
<1>14. CASE BaseCopied
  BY <1>14 DEF BaseCopied
<1>15. CASE Applied
  BY <1>15 DEF Applied
<1>16. CASE Fails
  BY <1>16 DEF Fails, Ends, NoBuild
<1>17. CASE TemporaryWritten
  BY <1>17 DEF TemporaryWritten
<1>18. CASE Renamed
  BY <1>18 DEF Renamed, Ends, NoBuild, SencOf
<1>19. CASE CopyBegins
  BY <1>19 DEF CopyBegins, SencOf
<1>20. CASE HeaderCopied
  BY <1>20 DEF HeaderCopied
<1>21. CASE UNCHANGED vars
  BY <1>21 DEF vars
<1>. QED  BY Outcomes, <1>1, <1>2, <1>3, <1>4, <1>5, <1>6, <1>7, <1>8, <1>9, <1>10, <1>11, <1>12, <1>14, <1>15, <1>16, <1>17, <1>18, <1>19, <1>20, <1>21

\* What is there and applies stays, within an edition.
LEMMA NewestGrows ==
    ASSUME EncOK, EncGrows, chart.asked.edition \in Nat, Covered
    PROVE  Covered'
<1>1. Newest.edition = enc.edition /\ Newest'.edition = enc'.edition /\ enc.edition \in Nat
  BY DEF Newest, EncOK
<1>0. chart' = chart
  BY DEF EncGrows
<1>2. CASE enc'.edition = enc.edition + 1
  BY <1>0, <1>1, <1>2 DEF Covered
<1>3. CASE Grown
  <2>1. Newest.updates \subseteq Newest'.updates
    BY <1>3 DEF Newest, Applicable, Grown
  <2>. QED  BY <1>0, <1>1, <1>3, <2>1 DEF Covered, Grown
<1>. QED  BY <1>2, <1>3 DEF EncGrows

\* What a chart waits for gets into the file.
LEMMA AskedStep == SencInv /\ [Next]_vars => AskedServed'
<1> SUFFICES ASSUME SencInv, [Next]_vars PROVE AskedServed' OBVIOUS
<1>f. Fields /\ (Present \subseteq 1..enc.updates) /\ (Present \subseteq Nat)
  BY TypeFields, PresentNat DEF Fields, SencInv
<1>e. ASSUME enc' = enc PROVE Newest' = Newest
  BY <1>e DEF Newest, Applicable, Present
<1>i. AskedServed /\ EditionsKnown /\ HeaderHonest /\ NotLess
  BY DEF SencInv
<1> USE <1>f, <1>i DEF Fields, Builds, Charts, Sencs, world, damage, AskedServed, Waits, Excused, Reading, Covered
<1>1. CASE EncGrows
  <2>1. enc.edition \in Nat /\ enc'.edition \in Nat /\ enc.edition <= enc'.edition
    BY <1>1 DEF EncGrows, Grown, EncOK
  <2>2. chart.asked.edition \in Nat
    BY DEF Versions
  <2>3. chart.state # "none" => Covered'
    BY <1>1, <2>2, NewestGrows
  <2>4. chart.asked.edition <= enc.edition \/ chart.state = "none"
    BY <2>1, <2>2
  <2>5. Waits => chart.state # "none"
    OBVIOUS
  <2>6. build.edition \in Nat /\ (build.phase \in Reading => build.edition <= enc.edition)
    BY <2>1 DEF EditionsKnown
  <2>7. senc.edition \in Nat
    OBVIOUS
  <2>8. UNCHANGED <<senc, build, chart>>
    BY <1>1 DEF EncGrows
  <2>9. Waits /\ build.phase \in {"applied", "written", "copying"} =>
          (Older(build.content, chart.asked) => enc'.edition > build.edition)
    BY <2>1, <2>6
  <2>10. build.told /\ build.phase = "done" /\ build.result = "ok" =>
          (Older(senc.content, chart.asked) => enc'.edition > senc.edition)
    BY <2>1, <2>7
  <2>11. Waits /\ build.phase \in {"counted", "copied"} /\ chart.asked.edition = enc'.edition =>
          \A n \in chart.asked.updates : n <= build.listed /\ n \notin build.gaps
    BY <2>1, <2>2, <2>4, <2>5
  <2>12. /\ build.told => chart.state = "pending"
         /\ Waits /\ build.phase \in Reading => chart.asked.edition <= build.edition
    OBVIOUS
  <2>. QED  BY ONLY <2>3, <2>8, <2>9, <2>10, <2>11, <2>12 DEF AskedServed, Waits, Excused, Reading, Older
<1>2. CASE Midnight
  BY <1>2, <1>e DEF Midnight
<1>3. CASE Crash
  BY <1>3, <1>e DEF Crash, Fault, NoBuild, NoChart
<1>4. CASE Scheduled
  <2>1. Newest.edition = enc.edition /\ enc.edition \in Nat /\ chart'.asked = Newest
    BY <1>4 DEF Scheduled, NoChart, Newest, EncOK
  <2>2. Newest' = Newest
    BY <1>4, <1>e DEF Scheduled
  <2>. QED  BY <1>4, <2>1, <2>2 DEF Scheduled, NoBuild, NoChart
<1>5. CASE Dropped
  <2>1. Newest.edition = enc.edition /\ enc.edition \in Nat /\ chart'.asked = Newest
    BY <1>5 DEF Dropped, NoChart, Newest, EncOK
  <2>2. Newest' = Newest
    BY <1>5, <1>e DEF Dropped
  <2>. QED  BY <1>5, <2>1, <2>2 DEF Dropped, NoChart
<1>6. CASE FoundCurrent
  <2>1. chart'.asked = NewestKept
    BY <1>6 DEF FoundCurrent, NoChart
  <2>2. Newest' = Newest
    BY <1>6, <1>e DEF FoundCurrent
  <2>3. ~NeedBuild /\ chart'.state = "current" /\ ~build.told /\ UNCHANGED <<enc, senc, build>>
    BY <1>6 DEF FoundCurrent, NoChart
  <2>4. senc.edition = enc.edition /\ enc.updates <= senc.update
    BY <2>3 DEF NeedBuild, EditionsKnown, EncOK
  <2>5. build.phase \in Reading => build.edition = enc.edition
    BY <2>4 DEF EditionsKnown, NotLess, EncOK
  <2>6. \A n \in NewestKept.updates :
          /\ n \in Newest.updates /\ n \in Present /\ n \notin enc.late
          /\ n \in Nat /\ n <= senc.update /\ n < senc.content.cut
    BY <2>4 DEF Newest, NewestKept, Applicable, EncOK
  <2>7. NewestKept.edition = enc.edition
    BY DEF Newest, NewestKept
  <2>8. build.phase \in {"counted", "copied"} =>
          \A n \in NewestKept.updates : n <= build.listed /\ n \notin build.gaps
    BY <2>4, <2>5, <2>6 DEF NotLess, HeaderHonest
  <2>9. build.phase \in {"applied", "written"} => ~Older(build.content, NewestKept)
    <3>1. build.phase \in {"applied", "written"} => Honest(build.content, build.update)
      BY <2>5 DEF HeaderHonest
    <3>2. build.phase \in {"applied", "written"} =>
            \A n \in NewestKept.updates : n < build.content.cut => n <= build.update
      BY <2>4, <2>6 DEF NotLess
    <3>3. build.phase \in {"applied", "written"} =>
            \A n \in NewestKept.updates : n < build.content.cut => n \in build.content.updates
      BY ONLY <2>6, <3>1, <3>2 DEF Honest
    <3>4. build.phase \in {"applied", "written"} => build.content.edition = NewestKept.edition
      BY ONLY <2>7, <3>1 DEF Honest
    <3>. QED  BY <2>7, <3>3, <3>4 DEF Older, EncOK
  <2>10. build.phase = "copying" => ~Older(build.content, NewestKept)
    <3>1. build.phase = "copying" => senc.content = build.content
      BY DEF HeaderHonest, Installed, SencOf
    <3>2. Honest(senc.content, senc.update)
      BY <2>4 DEF HeaderHonest
    <3>3. (\A n \in NewestKept.updates : n \in senc.content.updates) /\ senc.content.edition = NewestKept.edition
      BY ONLY <2>6, <2>7, <3>2 DEF Honest
    <3>. QED  BY <2>7, <3>1, <3>3 DEF Older, EncOK
  <2>11. chart'.asked.edition = enc.edition
    BY <2>1, <2>7
  <2>12. Covered'
    <3>1. Newest.edition = enc.edition /\ enc.edition \in Nat /\ enc' = enc
      BY <2>3 DEF Newest, EncOK
    <3>. QED  BY <2>1, <2>2, <2>6, <2>11, <3>1
  <2>. QED  BY <2>1, <2>3, <2>5, <2>8, <2>9, <2>10, <2>11, <2>12
<1>7. CASE Load
  BY <1>7, <1>e DEF Load, Loaded, NoChart
<1>8. CASE Evict
  BY <1>8, <1>e DEF Evict, NoChart
<1>9. CASE Untold
  BY <1>9, <1>e DEF Untold, NoBuild
<1>10. CASE Completed
  BY <1>10, <1>e DEF Completed, Loaded, NoBuild
<1>11. CASE AttributesRead
  <2>1. Newest' = Newest
    BY <1>11, <1>e DEF AttributesRead
  <2>2. chart.state # "none" => chart.asked.edition <= enc.edition
    OBVIOUS
  <2>. QED  BY <1>11, <2>1, <2>2 DEF AttributesRead
<1>12. CASE Counted
  <2>1. Newest' = Newest
    BY <1>12, <1>e DEF Counted
  <2>2. chart.state # "none" /\ chart.asked.edition = enc.edition =>
          \A n \in chart.asked.updates : n \in Present
    BY DEF Newest, Applicable
  <2>3. chart.state # "none" /\ chart.asked.edition = enc.edition =>
          \A n \in chart.asked.updates : n <= enc.updates /\ n \notin enc.missing
    BY <2>2 DEF Present
  <2>. QED  BY <1>12, <2>1, <2>3 DEF Counted
<1>14. CASE BaseCopied
  BY <1>14, <1>e DEF BaseCopied
<1>15. CASE Applied
  <2>1. Newest' = Newest
    BY <1>15, <1>e DEF Applied
  <2>2. /\ build.phase = "copied" /\ build'.phase = "applied" /\ UNCHANGED <<enc, senc, chart>>
        /\ build'.told = build.told /\ build'.edition = build.edition
    BY <1>15 DEF Applied
  <2>3. PICK u \in Nat, c \in Contents :
         /\ u <= build.listed /\ c.edition = build.content.edition
         /\ enc.edition = build.content.edition =>
              /\ c.cut = Whole /\ enc.good < enc.updates => u <= enc.good /\ (u = enc.good \/ u = build.listed)
              /\ c.cut = Whole /\ enc.good = enc.updates => u = build.listed
              /\ \A n \in Nat : n < c.cut /\ n <= build.listed /\ n <= enc.good => n <= u
              /\ \A n \in Present : n <= u /\ n < c.cut => n <= enc.good
              /\ c.mixed => u < build.listed
              /\ \A n : n \in c.updates <=> n \in Present /\ n \notin build.gaps /\ n <= u
         /\ build' = [build EXCEPT !.phase = "applied", !.listed = 0, !.gaps = {}, !.update = u, !.content = c]
    BY <1>15 DEF Applied
  <2>4. build'.content = c
    BY <2>3
  <2>5. ASSUME Waits PROVE Older(c, chart.asked) => enc.edition > build.edition
    <3>1. chart.state # "none" /\ Covered /\ chart.asked.edition <= build.edition
      BY <2>2, <2>5
    <3>2. build.content.edition \in build.edition..enc.edition /\ build.edition \in Nat /\ enc.edition \in Nat
      BY <2>2 DEF HeaderHonest, EncOK
    <3>3. chart.asked.edition \in Nat
      BY DEF Versions
    <3>4. CASE chart.asked.edition < build.edition \/ build.edition < enc.edition
      BY <2>3, <3>1, <3>2, <3>3, <3>4 DEF Older
    <3>5. CASE chart.asked.edition = enc.edition /\ build.edition = enc.edition
      <4>1. \A n \in chart.asked.updates : n \in Present /\ n <= enc.good
        BY <3>1, <3>5 DEF Newest, Applicable
      <4>2. \A n \in chart.asked.updates : n <= build.listed /\ n \notin build.gaps
        BY <2>2, <2>5, <3>5
      <4>3. \A n \in chart.asked.updates : n < c.cut => n <= u
        BY <2>3, <3>2, <3>5, <4>1, <4>2
      <4>. QED  BY <2>3, <3>2, <3>5, <4>1, <4>2, <4>3 DEF Older
    <3>. QED  BY <3>1, <3>2, <3>3, <3>4, <3>5
  <2> HIDE <2>3
  <2>. QED  BY <2>1, <2>2, <2>4, <2>5
<1>16. CASE Fails
  BY <1>16, <1>e DEF Fails, Ends, NoBuild
<1>17. CASE TemporaryWritten
  BY <1>17, <1>e DEF TemporaryWritten
<1>18. CASE Renamed
  BY <1>18, <1>e DEF Renamed, Ends, NoBuild, SencOf, HeaderHonest, Installed
<1>19. CASE CopyBegins
  BY <1>19, <1>e DEF CopyBegins, SencOf, HeaderHonest, Installed
<1>20. CASE HeaderCopied
  BY <1>20, <1>e DEF HeaderCopied, HeaderHonest, Installed
<1>21. CASE UNCHANGED vars
  BY <1>21, <1>e DEF vars
<1>. QED  BY Outcomes, <1>1, <1>2, <1>3, <1>4, <1>5, <1>6, <1>7, <1>8, <1>9, <1>10, <1>11, <1>12, <1>14, <1>15, <1>16, <1>17, <1>18, <1>19, <1>20, <1>21 DEF SencInv

\* What a chart shows was asked for.
LEMMA ShownStep == SencInv /\ [Next]_vars => Shown'
<1> SUFFICES ASSUME SencInv, [Next]_vars PROVE Shown' OBVIOUS
<1>f. Fields /\ (Present \subseteq 1..enc.updates) /\ (Present \subseteq Nat)
  BY TypeFields, PresentNat DEF Fields, SencInv
<1> USE SencFileAssumption, <1>f DEF Fields, EncOK, Builds, Charts, Sencs, Bodies, Phases, Contents, Versions, world, damage, SencInv, EditionsKnown, HeaderHonest, Honest, NotLess, Installed, AskedServed, Waits, Excused, Older, Newest, Applicable, Reading, Before, NeedBuild, Shown, Grown, Base, Causes
<1>1. CASE EncGrows
  BY <1>1 DEF EncGrows
<1>2. CASE Midnight
  BY <1>2 DEF Midnight
<1>3. CASE Crash
  BY <1>3 DEF Crash, Fault, NoBuild, NoChart
<1>4. CASE Scheduled
  BY <1>4 DEF Scheduled, NoBuild, NoChart
<1>5. CASE Dropped
  BY <1>5 DEF Dropped, NoChart
<1>6. CASE FoundCurrent
  <2>1. chart' = [NoChart EXCEPT !.state = "current", !.asked = NewestKept] /\ UNCHANGED <<enc, senc, build>> /\ ~NeedBuild
    BY ONLY <1>6 DEF FoundCurrent, world
  <2>2. senc.edition = enc.edition /\ enc.updates <= senc.update
    BY <2>1
  <2>3. Honest(senc.content, senc.update)
    BY ONLY <2>2, SencInv DEF SencInv, HeaderHonest
  <2>4. \A n \in NewestKept.updates : n \in Present /\ n \notin enc.late /\ n <= senc.update /\ n < senc.content.cut
    BY <2>2 DEF NewestKept
  <2>5. \A n \in NewestKept.updates : n \in senc.content.updates
    BY ONLY <2>3, <2>4 DEF Honest
  <2>6. NewestKept.edition = senc.content.edition /\ NewestKept.edition \in Nat
    BY <2>3 DEF NewestKept
  <2>7. ~Older(senc.content, NewestKept)
    BY ONLY <2>5, <2>6 DEF Older
  <2>8. chart'.state = "current" /\ chart'.asked = NewestKept
    BY ONLY <2>1 DEF NoChart
  <2>. QED  BY ONLY <2>1, <2>7, <2>8 DEF Shown, Excused
<1>7. CASE Load
  BY <1>7 DEF Load, Loaded, NoChart
<1>8. CASE Evict
  BY <1>8 DEF Evict, NoChart
<1>9. CASE Untold
  BY <1>9 DEF Untold, NoBuild
<1>10. CASE Completed
  BY <1>10 DEF Completed, Loaded, NoBuild
<1>11. CASE AttributesRead
  BY <1>11 DEF AttributesRead
<1>12. CASE Counted
  BY <1>12 DEF Counted
<1>14. CASE BaseCopied
  BY <1>14 DEF BaseCopied
<1>15. CASE Applied
  BY <1>15 DEF Applied
<1>16. CASE Fails
  BY <1>16 DEF Fails, Ends, NoBuild
<1>17. CASE TemporaryWritten
  BY <1>17 DEF TemporaryWritten
<1>18. CASE Renamed
  BY <1>18 DEF Renamed, Ends, NoBuild, SencOf
<1>19. CASE CopyBegins
  BY <1>19 DEF CopyBegins, SencOf
<1>20. CASE HeaderCopied
  BY <1>20 DEF HeaderCopied
<1>21. CASE UNCHANGED vars
  BY <1>21 DEF vars
<1>. QED  BY Outcomes, <1>1, <1>2, <1>3, <1>4, <1>5, <1>6, <1>7, <1>8, <1>9, <1>10, <1>11, <1>12, <1>14, <1>15, <1>16, <1>17, <1>18, <1>19, <1>20, <1>21

-----------------------------------------------------------------------------
(* The theorems *)

\* The invariant holds at the start.
LEMMA InitInv == Init => SencInv
<1> SUFFICES ASSUME Init PROVE SencInv OBVIOUS
<1> USE SencFileAssumption DEF Init, NoBuild, NoChart
<1>1. TypeOK
  <2>0. Base(0, Whole) \in Contents /\ Base(1, Whole) \in Contents /\ [edition |-> 0, updates |-> {}] \in Versions
    BY DEF Base, Contents, Versions, Whole
  <2>1. build \in Builds
    BY <2>0 DEF Builds, Phases
  <2>2. chart \in Charts
    BY <2>0 DEF Charts, Bodies
  <2>3. senc \in Sencs
    BY <2>0 DEF Sencs, Bodies
  <2>4. EncOK
    BY DEF EncOK, NewEdition
  <2>5. today \in 0..MaxDays /\ events \in 0..MaxEvents /\ faults \in 0..MaxFaults
    OBVIOUS
  <2>6. rename \in BOOLEAN /\ torn \in BOOLEAN
    OBVIOUS
  <2>7. Fields
    BY ONLY <2>1, <2>2, <2>3, <2>4, <2>5, <2>6 DEF Fields
  <2>. QED  BY <2>7, TypeFields
<1>2. EditionsKnown /\ HeaderHonest /\ NotLess
  BY DEF EditionsKnown, HeaderHonest, Honest, NotLess, Installed, Reading, Base, NewEdition, Present
<1>3. Undisturbed /\ Causes
  BY DEF Undisturbed, Causes, PartialHasCause, Reading
<1>4. AskedServed /\ Shown
  BY DEF AskedServed, Shown, Waits, Reading, Before
<1>. QED  BY <1>1, <1>2, <1>3, <1>4 DEF SencInv

\* Every step keeps it.
LEMMA StepInv == SencInv /\ [Next]_vars => SencInv'
  BY TypeStep, EditionsStep, HonestStep, NotLessStep, UndisturbedStep, CausesStep,
     AskedStep, ShownStep DEF SencInv

\* The invariant holds in every reachable state.
THEOREM Invariance == Spec => []SencInv
  BY InitInv, StepInv, PTL DEF Spec

\* Type correctness, with a header that always holds an edition that was read.
THEOREM TypeCorrect == Spec => []TypeOK
<1>1. SencInv => TypeOK
  BY DEF SencInv
<1>. QED  BY <1>1, Invariance, PTL

\* FindOrCreateSenc never takes a SENC for current that lacks an update of the
\* directory which can be applied, unless that update came after one of a higher
\* number; nor one with part of a failed update, as long as that update is there.
THEOREM NeverMissed == Spec => []UpdateNeverMissed
<1>1. SencInv => UpdateNeverMissed
  <2> SUFFICES ASSUME SencInv, ~NeedBuild
               PROVE  ~Older(senc.content, Newest) /\ (senc.content.mixed => enc.updates < enc.seen)
    BY DEF UpdateNeverMissed
  <2>0. Fields /\ (Present \subseteq 1..enc.updates) /\ (Present \subseteq Nat)
    BY TypeFields, PresentNat DEF Fields, SencInv
  <2>1. senc.edition = enc.edition /\ enc.updates <= senc.update
    BY <2>0 DEF SencInv, EditionsKnown, NeedBuild, Fields, Sencs, EncOK
  <2>2. Honest(senc.content, senc.update)
    BY <2>1 DEF SencInv, HeaderHonest
  <2>3. enc.edition \in Nat /\ enc.updates \in Nat /\ enc.seen \in Nat /\ senc.update \in Nat
    BY <2>0 DEF Fields, EncOK, Sencs
  <2>4. \A n \in Newest.updates : n \in Present /\ n \notin enc.late /\ n <= senc.update
    BY <2>0, <2>1, <2>3 DEF Newest, Applicable
  <2>5. /\ \A n \in Newest.updates : n < senc.content.cut => n \in senc.content.updates
        /\ senc.content.edition = enc.edition
    BY <2>2, <2>4 DEF Honest
  <2>6. ~Older(senc.content, Newest)
    BY <2>3, <2>5 DEF Older, Newest
  <2>. QED  BY <2>1, <2>2, <2>3, <2>6 DEF Honest
<1>. QED  BY <1>1, Invariance, PTL

\* A build that nobody disturbs makes the SENC current, unless an update does
\* not apply: there is no loop of builds.
THEOREM Settles == Spec => []BuildSettles
<1>1. SencInv => BuildSettles
  <2> SUFFICES ASSUME SencInv, build.phase = "done", build.result = "ok", build.since = events,
                      senc.content.cut = Whole
               PROVE  NeedBuild <=> enc.good < enc.updates
    BY DEF BuildSettles
  <2>1. /\ senc.edition = enc.edition /\ senc.update = enc.good
        /\ enc.date <= senc.day /\ senc.body \in {"part", "whole"}
    BY DEF SencInv, Undisturbed
  <2>2. senc.version = "201"
    BY DEF SencInv, HeaderHonest
  <2>3. Fields
    BY TypeFields DEF SencInv
  <2>. QED  BY <2>1, <2>2, <2>3 DEF NeedBuild, Fields, EncOK, Sencs
<1>. QED  BY <1>1, Invariance, PTL

\* A SENC that is not whole comes from a failed or interrupted write, or is
\* being copied; without such a fault, or where the temporary file can be
\* renamed, no chart loads one.
THEOREM PartialCaused == Spec => []PartialHasCause
<1>1. SencInv => PartialHasCause
  BY DEF SencInv, Causes
<1>. QED  BY <1>1, Invariance, PTL

\* A chart shows what was there when it was opened, or newer; else its build
\* was given up, or the next opening builds again.
THEOREM Served == Spec => []NotOlderThanAsked
<1>1. SencInv => NotOlderThanAsked
  BY DEF SencInv, Shown, Excused, NotOlderThanAsked
<1>. QED  BY <1>1, Invariance, PTL
=============================================================================

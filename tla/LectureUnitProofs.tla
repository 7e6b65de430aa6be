-------------------------- MODULE LectureUnitProofs --------------------------
(* Safety of a lecture unit for every value of the constants: any number of  *)
(* slides, requests, names, versions and failures.                           *)
EXTENDS LectureUnit, TLAPS

----------------------------------------------------------------------------
(* The jobs: types, the lock and the thread *)

\* The steps that each kind of job goes through.
Ingesting    == {"snapshot", "transcribe", "check", "clear", "insert", "speech", "speak",
                 "range", "segment", "replace", "write", "finish"}
Showing      == {"pages", "summaries", "open"}
Deleting     == {"delete chunks", "delete speech", "delete segments", "delete row"}

\* The steps a job takes with the unit's lock in its hand.
Locked == (Ingesting \ {"snapshot", "transcribe"}) \cup Showing \cup {"close"}

\* The half of TypeOK that the collections are in.
StoreTypes ==
    /\ chunks \subseteq Chunk
    /\ spoken \subseteq Pages
    /\ segments \in [Slides -> {"none", "shown", "hidden"}]
    /\ row \in Row \cup {Nobody}

\* The half that the jobs and their locals are in.
JobTypes ==
    /\ lock \in Jobs \cup {Nobody}
    /\ thread \in Ingestions \cup {Nobody}
    /\ pc \in [Jobs -> Steps]
    /\ req \in [Jobs -> Upload \cup Hiding \cup {Nobody}]
    /\ todo \in [Jobs -> SUBSET Slides]
    /\ kept \in [Ingestions -> (SUBSET Pages) \cup {Nobody}]
    /\ base \in [Ingestions -> Names \cup {Nobody}]
    /\ latest \in [Ingestions -> Row \cup {Nobody}]
    /\ status \in [Ingestions \cup Deletions -> {"running", "finished", "failed"}]
    /\ renamed \in [Ingestions -> Renames \cup {Nobody}]
    /\ dropped \in [Ingestions -> SUBSET Pages]

\* The histories of the unit, and the count of failures.
HistoryTypes ==
    /\ failures \in 0..MaxFailures
    /\ torn \subseteq Pages /\ blind \subseteq Pages

\* A job takes the steps of its kind.
OwnStep(j) ==
    /\ j \in Ingestions => pc[j] \in {"idle"} \cup Ingesting \cup Over
    /\ j \in Renames => pc[j] \in {"idle", "done"}
    /\ j \in Visibilities => pc[j] \in {"idle", "close"} \cup Showing \cup Over
    /\ j \in Deletions => pc[j] \in {"idle"} \cup Deleting \cup Over

\* A job at work knows its request and has pages of the unit to write; the one
\* ingestion under way is the one the job handler remembers.
AtWork(j) ==
    /\ j \in Ingestions =>
          /\ pc[j] \in Ingesting => req[j] \in Upload /\ thread = j
          /\ pc[j] = "insert" => todo[j] \subseteq Pages
          /\ pc[j] \in {"clear", "insert"} => kept[j] # Nobody
    /\ j \in Visibilities =>
          /\ pc[j] \in Showing \cup {"close"} => req[j] \in Hiding /\ todo[j] \subseteq req[j].listed
          /\ pc[j] = "close" => todo[j] = req[j].listed
          /\ pc[j] = "open" => todo[j] = {}

\* The lock is held by the job that is at a step which needs it.
LockOwned == \A j \in Jobs : pc[j] \in Locked <=> lock = j

JobsOK ==
    /\ StoreTypes /\ JobTypes /\ LockOwned
    /\ \A j \in Jobs : OwnStep(j) /\ AtWork(j)

LEMMA TypeParts == TypeOK <=> StoreTypes /\ JobTypes /\ HistoryTypes
BY DEF TypeOK, StoreTypes, JobTypes, HistoryTypes

\* The kinds of jobs are disjoint, and Nobody is none of them.
LEMMA Kinds ==
    /\ \A j \in Ingestions : j \in Jobs /\ j \notin Renames /\ j \notin Visibilities /\ j \notin Deletions
    /\ \A j \in Renames : j \in Jobs /\ j \notin Ingestions /\ j \notin Visibilities /\ j \notin Deletions
    /\ \A j \in Visibilities : j \in Jobs /\ j \notin Ingestions /\ j \notin Renames /\ j \notin Deletions
    /\ \A j \in Deletions : j \in Jobs /\ j \notin Ingestions /\ j \notin Renames /\ j \notin Visibilities
    /\ Nobody \notin Jobs
BY UnitAssumption DEF Jobs

LEMMA StepsKnown ==
    /\ Ingesting \subseteq Steps /\ Showing \subseteq Steps /\ Deleting \subseteq Steps
    /\ Over \subseteq Steps /\ "idle" \in Steps /\ "close" \in Steps
BY DEF Ingesting, Showing, Deleting, Over, Steps

\* A step of one job leaves the others where they are.
Alone(j) ==
    /\ \A i \in Jobs \ {j} : pc'[i] = pc[i] /\ req'[i] = req[i] /\ todo'[i] = todo[i]
    /\ \A i \in Ingestions \ {j} :
          /\ kept'[i] = kept[i] /\ base'[i] = base[i] /\ latest'[i] = latest[i]
          /\ status'[i] = status[i] /\ dropped'[i] = dropped[i]

\* The lock is taken by who finds it free, kept, and left by its holder only.
LockMoves(j) ==
    IF pc'[j] \in Locked THEN lock' = j /\ lock \in {j, Nobody}
    ELSE lock' = IF lock = j THEN Nobody ELSE lock

LEMMA OneMoves ==
    ASSUME JobsOK, NEW j \in Jobs, Alone(j), LockMoves(j), StoreTypes', JobTypes',
           thread' = thread \/ (thread' = j /\ \A i \in Ingestions \ {j} : pc[i] \notin Ingesting),
           OwnStep(j)', AtWork(j)'
    PROVE  JobsOK'
<1>1. LockOwned'
  <2>1. lock \in Jobs \cup {Nobody} /\ \A i \in Jobs : pc[i] \in Locked <=> lock = i
    BY DEF JobsOK, LockOwned, JobTypes
  <2>2. SUFFICES ASSUME NEW i \in Jobs PROVE pc'[i] \in Locked <=> lock' = i
    BY DEF LockOwned
  <2>3. CASE i = j
    BY <2>1, <2>3, Kinds DEF LockMoves
  <2>4. CASE i # j
    BY <2>1, <2>4, Kinds DEF LockMoves, Alone
  <2>5. QED
    BY <2>3, <2>4
<1>2. ASSUME NEW i \in Jobs \ {j} PROVE OwnStep(i)' /\ AtWork(i)'
  BY <1>2 DEF JobsOK, OwnStep, AtWork, Alone
<1>3. QED
  BY <1>1, <1>2 DEF JobsOK

LEMMA PagesAreSlides == Pages \subseteq Slides /\ 0 \in Slides /\ \A p \in Slides : p \in Nat
BY UnitAssumption DEF Pages, Slides

\* What is forgotten, and what is reported.
LEMMA ForgetTypes ==
    ASSUME JobTypes, NEW gone, Forget(gone)
    PROVE  /\ req' \in [Jobs -> Upload \cup Hiding \cup {Nobody}]
           /\ todo' \in [Jobs -> SUBSET Slides]
           /\ kept' \in [Ingestions -> (SUBSET Pages) \cup {Nobody}]
           /\ base' \in [Ingestions -> Names \cup {Nobody}]
           /\ latest' \in [Ingestions -> Row \cup {Nobody}]
           /\ renamed' \in [Ingestions -> Renames \cup {Nobody}]
           /\ dropped' \in [Ingestions -> SUBSET Pages]
BY DEF JobTypes, Forget

LEMMA ReportTypes ==
    ASSUME JobTypes, NEW j \in Ingestions \cup Deletions, NEW what \in {"finished", "failed"},
           Report(j, what)
    PROVE  status' \in [Ingestions \cup Deletions -> {"running", "finished", "failed"}]
BY DEF JobTypes, Report

\* The steps of an ingestion.
LEMMA IngestionMoves ==
    ASSUME JobsOK, NEW j \in Ingestions, Receive(j) \/ Ingest(j)
    PROVE  JobsOK' /\ Alone(j)
<1>0. /\ StoreTypes /\ JobTypes /\ OwnStep(j) /\ AtWork(j) /\ j \in Jobs
      /\ pc[j] \in Locked <=> lock = j
  BY Kinds DEF JobsOK, LockOwned
<1>1. CASE Receive(j)
  <2>1. Alone(j) /\ LockMoves(j)
    BY <1>0, <1>1 DEF Receive, Sent, Goto, JobTypes, Alone, LockMoves, Locked, Ingesting, Showing, Over
  <2>0. Uploads[j] \subseteq Upload
    BY UnitAssumption
  <2>2. StoreTypes' /\ JobTypes'
    BY <1>0, <1>1, <2>0, StepsKnown DEF Receive, Goto, JobTypes, StoreTypes, store, Ingesting, Over
  <2>3. thread' = thread \/ (thread' = j /\ \A i \in Ingestions \ {j} : pc[i] \notin Ingesting)
    BY <1>1 DEF Receive, Alive, JobsOK, AtWork, Jobs, Ingesting, Over
  <2>4. OwnStep(j)' /\ AtWork(j)'
    BY <1>0, <1>1, <2>0, Kinds DEF Receive, Goto, JobTypes, OwnStep, AtWork, Ingesting, Over
  <2>5. QED
    BY <1>0, <2>1, <2>2, <2>3, <2>4, OneMoves
<1>2. CASE Snapshot(j)
  <2>1. Alone(j) /\ LockMoves(j)
    BY <1>0, <1>2 DEF Snapshot, At, Goto, JobTypes, Alone, LockMoves, Locked, Ingesting, Showing, Over
  <2>2. StoreTypes' /\ JobTypes'
    <3>1. NameNow \in Names \cup {Nobody}
      BY <1>0 DEF NameNow, StoreTypes, Row
    <3>2. QED
      BY <1>0, <1>2, <3>1, StepsKnown DEF Snapshot, Goto, JobTypes, StoreTypes, store, Ingesting
  <2>4. OwnStep(j)' /\ AtWork(j)'
    BY <1>0, <1>2, Kinds DEF Snapshot, At, Goto, JobTypes, OwnStep, AtWork, Ingesting, Over
  <2>5. QED
    BY <1>0, <1>2, <2>1, <2>2, <2>4, OneMoves DEF Snapshot
<1>3. CASE Enter(j)
  <2>1. Alone(j) /\ LockMoves(j)
    BY <1>0, <1>3 DEF Enter, At, Goto, JobTypes, mine, Alone, LockMoves, Locked, Ingesting, Showing, Over
  <2>2. StoreTypes' /\ JobTypes'
    BY <1>0, <1>3, StepsKnown DEF Enter, At, Goto, JobTypes, StoreTypes, store, mine, Ingesting
  <2>3. OwnStep(j)' /\ AtWork(j)'
    BY <1>0, <1>3, Kinds DEF Enter, At, Goto, JobTypes, mine, OwnStep, AtWork, Ingesting, Over
  <2>4. QED
    BY <1>0, <1>3, <2>1, <2>2, <2>3, OneMoves DEF Enter
<1>4. CASE UpToDate(j)
  <2>1. Alone(j) /\ LockMoves(j)
    BY <1>0, <1>4 DEF UpToDate, At, Goto, JobTypes, mine, Alone, LockMoves, Locked, Ingesting, Showing, Over
  <2>2. StoreTypes' /\ JobTypes'
    BY <1>0, <1>4, StepsKnown DEF UpToDate, At, Goto, JobTypes, StoreTypes, store, mine, Ingesting
  <2>3. OwnStep(j)' /\ AtWork(j)'
    BY <1>0, <1>4, Kinds DEF UpToDate, At, Goto, JobTypes, mine, OwnStep, AtWork, Ingesting, Over
  <2>4. QED
    BY <1>0, <1>4, <2>1, <2>2, <2>3, OneMoves DEF UpToDate
<1>5. CASE Outdated(j)
  <2>1. Alone(j) /\ LockMoves(j)
    BY <1>0, <1>5 DEF Outdated, At, Goto, JobTypes, mine, Alone, LockMoves, Locked, Ingesting, Showing, Over
  <2>2. StoreTypes' /\ JobTypes'
    BY <1>0, <1>5, StepsKnown DEF Outdated, At, Goto, JobTypes, StoreTypes, store, mine, Ingesting
  <2>3. OwnStep(j)' /\ AtWork(j)'
    BY <1>0, <1>5, Kinds, UnitAssumption DEF Outdated, At, Goto, JobTypes, mine, OwnStep, AtWork, Ingesting, Over
  <2>4. QED
    BY <1>0, <1>5, <2>1, <2>2, <2>3, OneMoves DEF Outdated
<1>6. CASE ClearPages(j)
  <2>1. Alone(j) /\ LockMoves(j)
    BY <1>0, <1>6 DEF ClearPages, At, Goto, JobTypes, mine, Alone, LockMoves, Locked, Ingesting, Showing, Over
  <2>2. StoreTypes' /\ JobTypes'
    BY <1>0, <1>6, StepsKnown, PagesAreSlides DEF ClearPages, Goto, JobTypes, StoreTypes, Ingesting
  <2>3. OwnStep(j)' /\ AtWork(j)'
    BY <1>0, <1>6, Kinds DEF ClearPages, At, Goto, JobTypes, mine, OwnStep, AtWork, Ingesting, Over
  <2>4. QED
    BY <1>0, <1>6, <2>1, <2>2, <2>3, OneMoves DEF ClearPages
<1>7. CASE InsertPage(j)
  <2>1. Alone(j) /\ LockMoves(j)
    BY <1>0, <1>7 DEF InsertPage, At, Goto, JobTypes, mine, Alone, LockMoves, Locked, Ingesting, Showing, Over
  <2>2. StoreTypes' /\ JobTypes'
    <3>1. PICK p \in todo[j] :
             /\ chunks' = chunks \cup {PageChunk(j, p)} \/ chunks' = chunks
             /\ todo' = [todo EXCEPT ![j] = @ \ {p}]
             /\ Goto(j, IF todo[j] = {p} THEN "speech" ELSE "insert")
      BY <1>7 DEF InsertPage
    <3>2. p \in Pages /\ req[j] \in Upload
      BY <1>0, <1>7 DEF InsertPage, At, AtWork, Ingesting
    <3>3. PageChunk(j, p) \in Chunk
      BY <3>2 DEF PageChunk, Chunk, Upload
    <3>4. dropped' \in [Ingestions -> SUBSET Pages]
      <4>1. todo[j] \subseteq Pages
        BY <1>0, <1>7 DEF InsertPage, At, AtWork
      <4>2. QED
        BY <1>0, <1>7, <4>1 DEF InsertPage, JobTypes
    <3>5. QED
      BY <1>0, <1>7, <3>1, <3>3, <3>4, StepsKnown DEF InsertPage, Goto, JobTypes, StoreTypes, Ingesting
  <2>3. OwnStep(j)' /\ AtWork(j)'
    BY <1>0, <1>7, Kinds DEF InsertPage, At, Goto, JobTypes, mine, OwnStep, AtWork, Ingesting, Over
  <2>4. QED
    BY <1>0, <1>7, <2>1, <2>2, <2>3, OneMoves DEF InsertPage
<1>8. CASE PagesFail(j)
  <2>1. Alone(j) /\ LockMoves(j)
    BY <1>0, <1>8 DEF PagesFail, At, Goto, JobTypes, mine, Alone, LockMoves, Locked, Ingesting, Showing, Over, Report
  <2>2. StoreTypes' /\ JobTypes'
    <3>1. status' \in [Ingestions \cup Deletions -> {"running", "finished", "failed"}]
      BY <1>0, <1>8, ReportTypes DEF PagesFail
    <3>2. QED
      BY <1>0, <1>8, <3>1, StepsKnown DEF PagesFail, Goto, JobTypes, StoreTypes, store, Ingesting
  <2>3. OwnStep(j)' /\ AtWork(j)'
    BY <1>0, <1>8, Kinds DEF PagesFail, At, Goto, JobTypes, mine, OwnStep, AtWork, Ingesting, Over
  <2>4. QED
    BY <1>0, <1>8, <2>1, <2>2, <2>3, OneMoves DEF PagesFail
<1>9. CASE ClearSpeech(j)
  <2>1. Alone(j) /\ LockMoves(j)
    BY <1>0, <1>9 DEF ClearSpeech, At, Goto, JobTypes, mine, Alone, LockMoves, Locked, Ingesting, Showing, Over
  <2>2. StoreTypes' /\ JobTypes'
    BY <1>0, <1>9, StepsKnown DEF ClearSpeech, At, Goto, JobTypes, StoreTypes, store, mine, Ingesting
  <2>3. OwnStep(j)' /\ AtWork(j)'
    BY <1>0, <1>9, Kinds DEF ClearSpeech, At, Goto, JobTypes, mine, OwnStep, AtWork, Ingesting, Over
  <2>4. QED
    BY <1>0, <1>9, <2>1, <2>2, <2>3, OneMoves DEF ClearSpeech
<1>10. CASE InsertSpeech(j)
  <2>1. Alone(j) /\ LockMoves(j)
    BY <1>0, <1>10 DEF InsertSpeech, At, Goto, JobTypes, mine, Alone, LockMoves, Locked, Ingesting, Showing, Over
  <2>2. StoreTypes' /\ JobTypes'
    BY <1>0, <1>10, StepsKnown DEF InsertSpeech, At, Goto, JobTypes, StoreTypes, store, mine, Ingesting
  <2>3. OwnStep(j)' /\ AtWork(j)'
    BY <1>0, <1>10, Kinds DEF InsertSpeech, At, Goto, JobTypes, mine, OwnStep, AtWork, Ingesting, Over
  <2>4. QED
    BY <1>0, <1>10, <2>1, <2>2, <2>3, OneMoves DEF InsertSpeech
<1>11. CASE FindRange(j)
  <2>1. Alone(j) /\ LockMoves(j)
    BY <1>0, <1>11 DEF FindRange, At, Goto, JobTypes, mine, Alone, LockMoves, Locked, Ingesting, Showing, Over
  <2>2. StoreTypes' /\ JobTypes'
    <3>1. \A found : SlideRange(found) \subseteq Slides
      BY PagesAreSlides DEF SlideRange
    <3>2. PICK found : todo' = [todo EXCEPT ![j] = SlideRange(found)]
      BY <1>11 DEF FindRange
    <3>3. todo' \in [Jobs -> SUBSET Slides]
      BY <1>0, <3>1, <3>2 DEF JobTypes
    <3>4. QED
      BY <1>0, <1>11, <3>3, StepsKnown DEF FindRange, Goto, JobTypes, StoreTypes, store, Ingesting
  <2>3. OwnStep(j)' /\ AtWork(j)'
    BY <1>0, <1>11, Kinds DEF FindRange, At, Goto, JobTypes, mine, OwnStep, AtWork, Ingesting, Over
  <2>4. QED
    BY <1>0, <1>11, <2>1, <2>2, <2>3, OneMoves DEF FindRange
<1>12. CASE Summarise(j)
  <2>1. Alone(j) /\ LockMoves(j)
    BY <1>0, <1>12 DEF Summarise, At, Goto, JobTypes, mine, Alone, LockMoves, Locked, Ingesting, Showing, Over
  <2>2. StoreTypes' /\ JobTypes'
    BY <1>0, <1>12, StepsKnown DEF Summarise, At, Goto, JobTypes, StoreTypes, store, mine, Ingesting
  <2>3. OwnStep(j)' /\ AtWork(j)'
    BY <1>0, <1>12, Kinds DEF Summarise, At, Goto, JobTypes, mine, OwnStep, AtWork, Ingesting, Over
  <2>4. QED
    BY <1>0, <1>12, <2>1, <2>2, <2>3, OneMoves DEF Summarise
<1>13. CASE RemoveRow(j)
  <2>1. Alone(j) /\ LockMoves(j)
    BY <1>0, <1>13 DEF RemoveRow, At, Goto, JobTypes, mine, Alone, LockMoves, Locked, Ingesting, Showing, Over
  <2>2. StoreTypes' /\ JobTypes'
    BY <1>0, <1>13, StepsKnown DEF RemoveRow, At, Goto, JobTypes, StoreTypes, store, mine, Ingesting
  <2>3. OwnStep(j)' /\ AtWork(j)'
    BY <1>0, <1>13, Kinds DEF RemoveRow, At, Goto, JobTypes, mine, OwnStep, AtWork, Ingesting, Over
  <2>4. QED
    BY <1>0, <1>13, <2>1, <2>2, <2>3, OneMoves DEF RemoveRow
<1>14. CASE WriteRow(j)
  <2>1. Alone(j) /\ LockMoves(j)
    BY <1>0, <1>14 DEF WriteRow, At, Goto, JobTypes, mine, Alone, LockMoves, Locked, Ingesting, Showing, Over
  <2>2. StoreTypes' /\ JobTypes'
    <3>1. NewName(j) \in Names \cup {Nobody}
      BY <1>0 DEF NewName, JobTypes, Row, Names
    <3>2. row' \in Row
      <4>1. latest[j] \in Row \cup {Nobody}
        BY <1>0 DEF JobTypes
      <4>2. QED
        BY <1>0, <1>14, <3>1, <4>1 DEF WriteRow, Row
    <3>3. QED
      BY <1>0, <1>14, <3>2, StepsKnown DEF WriteRow, Goto, JobTypes, StoreTypes, mine, Ingesting
  <2>3. OwnStep(j)' /\ AtWork(j)'
    BY <1>0, <1>14, Kinds DEF WriteRow, At, Goto, JobTypes, mine, OwnStep, AtWork, Ingesting, Over
  <2>4. QED
    BY <1>0, <1>14, <2>1, <2>2, <2>3, OneMoves DEF WriteRow
<1>15. CASE Finish(j)
  <2>1. Alone(j) /\ LockMoves(j)
    BY <1>0, <1>15 DEF Finish, At, Goto, JobTypes, mine, Alone, LockMoves, Locked, Ingesting, Showing, Over, Forget, Report
  <2>2. StoreTypes' /\ JobTypes'
    <3>1. status' \in [Ingestions \cup Deletions -> {"running", "finished", "failed"}]
      BY <1>0, <1>15, ReportTypes DEF Finish
    <3>2. lock' \in Jobs \cup {Nobody} /\ pc' \in [Jobs -> Steps]
      BY <1>0, <1>15, StepsKnown DEF Finish, Goto, JobTypes, Over
    <3>3. QED
      BY <1>0, <1>15, <3>1, <3>2, ForgetTypes DEF Finish, JobTypes, StoreTypes, store
  <2>3. OwnStep(j)' /\ AtWork(j)'
    BY <1>0, <1>15, Kinds DEF Finish, At, Goto, JobTypes, mine, OwnStep, AtWork, Ingesting, Over, Forget
  <2>4. QED
    BY <1>0, <1>15, <2>1, <2>2, <2>3, OneMoves DEF Finish
<1>16. CASE IngestionFails(j)
  <2>1. Alone(j) /\ LockMoves(j)
    BY <1>0, <1>16 DEF IngestionFails, At, Goto, JobTypes, mine, Alone, LockMoves, Locked, Ingesting, Showing, Over, Forget, LeaveLock, Report
  <2>2. StoreTypes' /\ JobTypes'
    <3>1. status' \in [Ingestions \cup Deletions -> {"running", "finished", "failed"}]
      BY <1>0, <1>16, ReportTypes DEF IngestionFails
    <3>2. lock' \in Jobs \cup {Nobody} /\ pc' \in [Jobs -> Steps]
      BY <1>0, <1>16, StepsKnown DEF IngestionFails, Goto, JobTypes, Over, LeaveLock
    <3>3. QED
      BY <1>0, <1>16, <3>1, <3>2, ForgetTypes DEF IngestionFails, JobTypes, StoreTypes, store
  <2>3. OwnStep(j)' /\ AtWork(j)'
    BY <1>0, <1>16, Kinds DEF IngestionFails, At, Goto, JobTypes, mine, OwnStep, AtWork, Ingesting, Over, Forget
  <2>4. QED
    BY <1>0, <1>16, <2>1, <2>2, <2>3, OneMoves DEF IngestionFails
<1>17. QED
  BY <1>1, <1>2, <1>3, <1>4, <1>5, <1>6, <1>7, <1>8, <1>9, <1>10, <1>11, <1>12, <1>13, <1>14, <1>15, <1>16 DEF Ingest


LEMMA RenameMoves ==
    ASSUME JobsOK, NEW j \in Renames, Rename(j)
    PROVE  JobsOK' /\ Alone(j)
<1>0. /\ StoreTypes /\ JobTypes /\ OwnStep(j) /\ j \in Jobs
      /\ pc[j] \in Locked <=> lock = j
  BY Kinds DEF JobsOK, LockOwned
<1>1. Alone(j) /\ LockMoves(j)
  BY <1>0 DEF Rename, Sent, Goto, JobTypes, Alone, LockMoves, Locked, Ingesting, Showing
<1>2. StoreTypes' /\ JobTypes'
  <2>1. row' \in Row \cup {Nobody}
    <3>1. NameOf[j] \in Names
      BY DEF Names
    <3>2. QED
      BY <1>0, <3>1 DEF Rename, StoreTypes, Row
  <2>2. renamed' \in [Ingestions -> Renames \cup {Nobody}]
    BY <1>0 DEF Rename, JobTypes
  <2>3. QED
    BY <1>0, <2>1, <2>2, StepsKnown DEF Rename, Goto, JobTypes, StoreTypes, Over
<1>3. OwnStep(j)' /\ AtWork(j)'
  BY <1>0, Kinds DEF Rename, Goto, JobTypes, OwnStep, AtWork
<1>4. QED
  BY <1>0, <1>1, <1>2, <1>3, OneMoves DEF Rename

\* The steps of a visibility request.
LEMMA HiddenChunks ==
    ASSUME chunks \subseteq Chunk, NEW p, NEW reached \in SUBSET chunks, NEW S
    PROVE  Hide(p, reached, p \in S) \subseteq Chunk
<1>1. ASSUME NEW d \in reached PROVE [d EXCEPT !.hidden = p \in S] \in Chunk
  <2>1. d \in Chunk /\ (p \in S) \in BOOLEAN
    OBVIOUS
  <2>2. QED
    BY <2>1 DEF Chunk
<1>2. QED
  BY <1>1 DEF Hide

LEMMA VisibilityMoves ==
    ASSUME JobsOK, NEW j \in Visibilities, SetVisibility(j)
    PROVE  JobsOK' /\ Alone(j)
<1>0. /\ StoreTypes /\ JobTypes /\ OwnStep(j) /\ AtWork(j) /\ j \in Jobs
      /\ pc[j] \in Locked <=> lock = j
  BY Kinds DEF JobsOK, LockOwned
<1>1. CASE FindUnit(j)
  <2>1. Alone(j) /\ LockMoves(j)
    BY <1>0, <1>1 DEF FindUnit, At, Goto, JobTypes, mine, Alone, LockMoves, Locked, Ingesting, Showing, Over, Sent
  <2>2. StoreTypes' /\ JobTypes'
    <3>1. ASSUME NEW h \in Hidings[j] PROVE h \in Hiding /\ h.listed \in SUBSET Slides
      BY UnitAssumption, PagesAreSlides DEF Hiding
    <3>2. req' \in [Jobs -> Upload \cup Hiding \cup {Nobody}] /\ todo' \in [Jobs -> SUBSET Slides]
      BY <1>0, <1>1, <3>1 DEF FindUnit, JobTypes
    <3>3. QED
      BY <1>0, <1>1, <3>2, StepsKnown DEF FindUnit, Goto, JobTypes, StoreTypes, store, Showing, Over
  <2>3. OwnStep(j)' /\ AtWork(j)'
    <3>1. Hidings[j] \subseteq Hiding
      BY UnitAssumption
    <3>2. QED
      BY <1>0, <1>1, <3>1, Kinds DEF FindUnit, At, Goto, JobTypes, mine, OwnStep, AtWork, Showing, Over, Sent
  <2>4. QED
    BY <1>0, <1>1, <2>1, <2>2, <2>3, OneMoves DEF FindUnit, Sent
<1>2. CASE Close(j)
  <2>1. Alone(j) /\ LockMoves(j)
    BY <1>0, <1>2 DEF Close, At, Goto, JobTypes, mine, Alone, LockMoves, Locked, Ingesting, Showing, Over
  <2>2. StoreTypes' /\ JobTypes'
    <3>1. Snap(j) \subseteq Pages
      BY <1>0, <1>2 DEF Close, At, AtWork, Hiding, Snap, StoreTypes, Row
    <3>2. row' \in Row
      BY <1>0, <1>2, <3>1 DEF Close, StoreTypes, Row
    <3>3. QED
      BY <1>0, <1>2, <3>2, StepsKnown DEF Close, Goto, JobTypes, StoreTypes, mine, Showing
  <2>3. OwnStep(j)' /\ AtWork(j)'
    BY <1>0, <1>2, Kinds DEF Close, At, Goto, JobTypes, mine, OwnStep, AtWork, Showing, Over
  <2>4. QED
    BY <1>0, <1>2, <2>1, <2>2, <2>3, OneMoves DEF Close
<1>3. CASE HidePages(j)
  <2>1. Alone(j) /\ LockMoves(j)
    BY <1>0, <1>3 DEF HidePages, At, Goto, JobTypes, mine, Alone, LockMoves, Locked, Ingesting, Showing, Over
  <2>2. StoreTypes' /\ JobTypes'
    <3>1. chunks' \subseteq Chunk
      <4>1. PICK p \in todo[j] : chunks' = Hide(p, chunks, p \in req[j].hide)
        BY <1>3 DEF HidePages
      <4>2. QED
        BY <1>0, <4>1, HiddenChunks DEF StoreTypes
    <3>2. QED
      BY <1>0, <1>3, <3>1, StepsKnown DEF HidePages, Goto, JobTypes, StoreTypes, mine, Showing
  <2>3. OwnStep(j)' /\ AtWork(j)'
    BY <1>0, <1>3, Kinds DEF HidePages, At, Goto, JobTypes, mine, OwnStep, AtWork, Showing, Over
  <2>4. QED
    BY <1>0, <1>3, <2>1, <2>2, <2>3, OneMoves DEF HidePages
<1>4. CASE HideSegment(j)
  <2>1. Alone(j) /\ LockMoves(j)
    BY <1>0, <1>4 DEF HideSegment, At, Goto, JobTypes, mine, Alone, LockMoves, Locked, Ingesting, Showing, Over
  <2>2. StoreTypes' /\ JobTypes'
    BY <1>0, <1>4, StepsKnown DEF HideSegment, At, Goto, JobTypes, StoreTypes, store, mine, Ingesting, Showing
  <2>3. OwnStep(j)' /\ AtWork(j)'
    BY <1>0, <1>4, Kinds DEF HideSegment, At, Goto, JobTypes, mine, OwnStep, AtWork, Showing, Over
  <2>4. QED
    BY <1>0, <1>4, <2>1, <2>2, <2>3, OneMoves DEF HideSegment
<1>5. CASE Open(j)
  <2>1. Alone(j) /\ LockMoves(j)
    BY <1>0, <1>5 DEF Open, At, Goto, JobTypes, mine, Alone, LockMoves, Locked, Ingesting, Showing, Over, Forget
  <2>2. StoreTypes' /\ JobTypes'
    <3>1. req[j] \in Hiding
      BY <1>0, <1>5 DEF Open, At, AtWork, Showing
    <3>2. row' \in Row
      BY <1>0, <1>5, <3>1 DEF Open, StoreTypes, Row, Hiding
    <3>3. QED
      BY <1>0, <1>5, <3>2, StepsKnown, ForgetTypes DEF Open, Goto, JobTypes, StoreTypes, Over
  <2>3. OwnStep(j)' /\ AtWork(j)'
    BY <1>0, <1>5, Kinds DEF Open, At, Goto, JobTypes, mine, OwnStep, AtWork, Showing, Over, Forget
  <2>4. QED
    BY <1>0, <1>5, <2>1, <2>2, <2>3, OneMoves DEF Open
<1>6. CASE VisibilityFails(j)
  <2>1. Alone(j) /\ LockMoves(j)
    BY <1>0, <1>6 DEF VisibilityFails, At, Goto, JobTypes, mine, Alone, LockMoves, Locked, Ingesting, Showing, Over, Forget
  <2>2. StoreTypes' /\ JobTypes'
    <3>1. chunks' \subseteq Chunk
      <4>1. PICK reached \in SUBSET chunks :
               \/ UNCHANGED chunks
               \/ \E p \in todo[j] : chunks' = Hide(p, reached, p \in req[j].hide)
        BY <1>6 DEF VisibilityFails
      <4>2. \A p \in todo[j] : Hide(p, reached, p \in req[j].hide) \subseteq Chunk
        BY <1>0, HiddenChunks DEF StoreTypes
      <4>3. QED
        BY <1>0, <4>1, <4>2 DEF StoreTypes
    <3>2. QED
      BY <1>0, <1>6, <3>1, StepsKnown, ForgetTypes DEF VisibilityFails, Goto, JobTypes, StoreTypes, Over
  <2>3. OwnStep(j)' /\ AtWork(j)'
    BY <1>0, <1>6, Kinds DEF VisibilityFails, At, Goto, JobTypes, mine, OwnStep, AtWork, Showing, Over, Forget
  <2>4. QED
    BY <1>0, <1>6, <2>1, <2>2, <2>3, OneMoves DEF VisibilityFails
<1>7. QED
  BY <1>1, <1>2, <1>3, <1>4, <1>5, <1>6 DEF SetVisibility

\* The steps of a deletion, which takes no lock.
LEMMA DeletionMoves ==
    ASSUME JobsOK, NEW j \in Deletions, Delete(j)
    PROVE  JobsOK' /\ Alone(j)
<1>0. /\ StoreTypes /\ JobTypes /\ OwnStep(j) /\ AtWork(j) /\ j \in Jobs
      /\ pc[j] \in Locked <=> lock = j
  BY Kinds DEF JobsOK, LockOwned
<1>1. PICK here, there \in {"idle", "done"} \cup Deleting : DeletionStep(j, here, there)
  BY DEF Delete, StartDeletion, DeleteChunks, DeleteSpeech, DeleteSegments, DeleteRow, Deleting
<1>2. \/ todo' = todo \/ todo' = [todo EXCEPT ![j] = Pages] \/ todo' = [todo EXCEPT ![j] = {}]
  BY DEF Delete, StartDeletion, DeleteChunks, DeleteSpeech, DeleteSegments, DeleteRow, Missed
<1>3. Alone(j) /\ LockMoves(j)
  <2>1. \A i \in Ingestions : status'[i] = status[i]
    <3>1. UNCHANGED status \/ Report(j, "finished") \/ Report(j, "failed")
      BY DEF Delete, StartDeletion, DeleteChunks, DeleteSpeech, DeleteSegments, DeleteRow, Missed
    <3>2. QED
      BY <1>0, <3>1, Kinds DEF Report, JobTypes
  <2>2. QED
    BY <1>0, <1>1, <1>2, <2>1 DEF DeletionStep, At, Goto, JobTypes, Alone, LockMoves, Locked,
       Ingesting, Showing, Deleting
<1>4. StoreTypes'
  BY <1>0 DEF Delete, StartDeletion, DeleteChunks, DeleteSpeech, DeleteSegments, DeleteRow, Missed,
     StoreTypes, store
<1>5. status' \in [Ingestions \cup Deletions -> {"running", "finished", "failed"}]
  <2>1. UNCHANGED status \/ Report(j, "finished") \/ Report(j, "failed")
    BY DEF Delete, StartDeletion, DeleteChunks, DeleteSpeech, DeleteSegments, DeleteRow, Missed
  <2>2. QED
    BY <1>0, <2>1, ReportTypes DEF JobTypes
<1>6. JobTypes'
  BY <1>0, <1>1, <1>2, <1>5, StepsKnown, PagesAreSlides DEF DeletionStep, Goto, JobTypes, Over
<1>7. OwnStep(j)' /\ AtWork(j)'
  BY <1>0, <1>1, Kinds DEF DeletionStep, Goto, JobTypes, OwnStep, AtWork, Over
<1>8. QED
  BY <1>0, <1>1, <1>3, <1>4, <1>6, <1>7, OneMoves DEF DeletionStep

\* After a restart nobody runs and nobody holds the lock.
LEMMA RestartMoves ==
    ASSUME JobsOK, Restart
    PROVE  JobsOK'
<1>0. StoreTypes /\ JobTypes /\ LockOwned /\ \A j \in Jobs : OwnStep(j) /\ AtWork(j)
  BY DEF JobsOK
<1>1. \A j \in Jobs : pc'[j] \in Over \cup {"idle"} /\ (pc[j] \in Over \cup {"idle"} => pc'[j] = pc[j])
  BY DEF Restart, Running, Over
<1>2. StoreTypes' /\ JobTypes'
  <2>1. pc' \in [Jobs -> Steps]
    BY <1>0, StepsKnown DEF Restart, JobTypes, Over
  <2>2. QED
    BY <1>0, <2>1, ForgetTypes DEF Restart, JobTypes, StoreTypes, store
<1>3. LockOwned'
  BY <1>1, Kinds DEF Restart, LockOwned, Locked, Ingesting, Showing, Over
<1>4. ASSUME NEW j \in Jobs PROVE OwnStep(j)' /\ AtWork(j)'
  <2>1. OwnStep(j)'
    BY <1>0, <1>1, Kinds DEF OwnStep, Over
  <2>2. AtWork(j)'
    BY <1>1 DEF AtWork, Ingesting, Showing, Over
  <2>3. QED
    BY <2>1, <2>2
<1>5. QED
  BY <1>2, <1>3, <1>4 DEF JobsOK

LEMMA InitJobs ==
    ASSUME Init
    PROVE  JobsOK
<1>1. StoreTypes
  <2>1. CASE Empty
    BY <2>1 DEF Empty, StoreTypes
  <2>2. CASE Stored
    <3>1. PICK j \in Ingestions, snap \in {Nobody, HiddenBefore} :
            row = [name |-> NameOf[j], open |-> TRUE, hidden |-> snap]
      BY <2>2 DEF Stored
    <3>2. row \in Row
      BY <3>1, UnitAssumption DEF Row, Names
    <3>3. chunks \subseteq Chunk
      <4>1. ASSUME NEW p \in Pages
            PROVE  [page |-> p, version |-> VersionBefore, hidden |-> p \in HiddenBefore] \in Chunk
        <5>1. (p \in HiddenBefore) \in BOOLEAN /\ VersionBefore \in Versions
          BY UnitAssumption
        <5>2. QED
          BY <5>1 DEF Chunk
      <4>2. QED
        BY <2>2, <4>1 DEF Stored
    <3>4. QED
      BY <2>2, <3>2, <3>3 DEF Stored, StoreTypes
  <2>3. QED
    BY <2>1, <2>2 DEF Init
<1>2. JobTypes
  BY StepsKnown DEF Init, JobTypes
<1>3. LockOwned
  BY Kinds DEF Init, LockOwned, Locked, Ingesting, Showing
<1>4. ASSUME NEW j \in Jobs PROVE OwnStep(j) /\ AtWork(j)
  BY DEF Init, OwnStep, AtWork, Ingesting, Showing
<1>5. QED
  BY <1>1, <1>2, <1>3, <1>4 DEF JobsOK

\* Every step keeps the jobs in order.
LEMMA JobsStep ==
    ASSUME JobsOK, [Next]_vars
    PROVE  JobsOK'
<1>1. CASE UNCHANGED vars
  BY <1>1 DEF vars, store, mine, JobsOK, StoreTypes, JobTypes, LockOwned, OwnStep, AtWork
<1>2. QED
  BY <1>1, IngestionMoves, RenameMoves, VisibilityMoves, DeletionMoves, RestartMoves
     DEF Next, Finished

\* Every step keeps the histories, and the failures counted, in their types.
LEMMA HistoryStep ==
    ASSUME JobsOK, HistoryTypes, [Next]_vars
    PROVE  HistoryTypes'
<1>0. JobTypes /\ StoreTypes /\ \A j \in Jobs : OwnStep(j) /\ AtWork(j)
  BY DEF JobsOK
<1>1. failures' \in 0..MaxFailures
  <2>1. UNCHANGED failures \/ Fail
    <3>1. CASE UNCHANGED vars \/ Restart
      BY <3>1 DEF vars, past, Restart
    <3>2. ASSUME NEW j \in Ingestions, Receive(j) \/ Ingest(j) PROVE UNCHANGED failures \/ Fail
      BY <3>2 DEF Receive, Ingest, Snapshot, Enter, UpToDate, Outdated, ClearPages, InsertPage,
         PagesFail, ClearSpeech, InsertSpeech, FindRange, Summarise, RemoveRow, WriteRow, Finish,
         IngestionFails, Succeed, past
    <3>3. ASSUME NEW j \in Jobs, Rename(j) \/ SetVisibility(j) PROVE UNCHANGED failures \/ Fail
      BY <3>3 DEF Rename, SetVisibility, FindUnit, Close, HidePages, HideSegment, Open,
         VisibilityFails, Succeed, past
    <3>4. ASSUME NEW j \in Deletions, Delete(j) PROVE UNCHANGED failures \/ Fail
      BY <3>4 DEF Delete, StartDeletion, DeleteChunks, DeleteSpeech, DeleteSegments, DeleteRow,
         Missed, Succeed
    <3>5. QED
      BY <3>1, <3>2, <3>3, <3>4 DEF Next, Finished, Jobs
  <2>2. QED
    BY <2>1, UnitAssumption DEF HistoryTypes, Fail
<1>2. torn' \subseteq Pages /\ blind' \subseteq Pages
  <2>1. ASSUME NEW gone, Tear(gone) PROVE torn' \subseteq Pages
    <3>1. ASSUME NEW i \in gone \cap Visibilities, pc[i] \in {"pages", "summaries"}
          PROVE  req[i].hide \subseteq Pages
      BY <1>0, <3>1, Kinds DEF AtWork, Showing, Hiding
    <3>2. QED
      BY <2>1, <3>1 DEF Tear, HistoryTypes
  <2>2. CASE UNCHANGED vars \/ Restart
    BY <2>1, <2>2 DEF vars, past, Restart, HistoryTypes
  <2>3. ASSUME NEW j \in Jobs, Receive(j) \/ Ingest(j) \/ Rename(j)
        PROVE  torn' \subseteq Pages /\ blind' \subseteq Pages
    BY <2>3 DEF Receive, Ingest, Snapshot, Enter, UpToDate, Outdated, ClearPages, InsertPage,
       PagesFail, ClearSpeech, InsertSpeech, FindRange, Summarise, RemoveRow, WriteRow, Finish,
       IngestionFails, Rename, past, HistoryTypes
  <2>4. ASSUME NEW j \in Jobs, SetVisibility(j)
        PROVE  torn' \subseteq Pages /\ blind' \subseteq Pages
    <3>1. CASE VisibilityFails(j)
      BY <2>1, <3>1 DEF VisibilityFails, HistoryTypes
    <3>2. CASE ~VisibilityFails(j)
      BY <2>4, <3>2 DEF SetVisibility, FindUnit, Close, HidePages, HideSegment, Open, past, HistoryTypes
    <3>3. QED
      BY <3>1, <3>2
  <2>5. ASSUME NEW j \in Deletions, Delete(j) PROVE UNCHANGED <<torn, blind>>
    BY <2>5 DEF Delete, StartDeletion, DeleteChunks, DeleteSpeech, DeleteSegments, DeleteRow,
       DeletionStep
  <2>6. QED
    BY <2>2, <2>3, <2>4, <2>5 DEF Next, Finished, Jobs, HistoryTypes
<1>3. QED
  BY <1>1, <1>2 DEF HistoryTypes

----------------------------------------------------------------------------
(* What is hidden *)

\* Every stored chunk of page p is hidden.
PageHidden(p) == \A c \in chunks : c.page = p => c.hidden

\* Neither a chunk of page p nor its summary shows it, unless the summary was
\* made without a chunk.
HiddenAt(p) == PageHidden(p) /\ (segments[p] = "shown" => p \in blind)

\* What a snapshot h calls hidden is, except what a request left torn.
Honoured(h) == \A p \in h \ torn : HiddenAt(p)

\* Outside of a visibility request the row is honoured.
RowAgrees ==
    Snapshotted /\ (\A j \in Visibilities : pc[j] \notin Showing) => Honoured(row.hidden)

\* A visibility request closes the row and brings the pages in line with it, the
\* chunks of a page before its summary.
ShowingAgrees ==
    \A j \in Visibilities : pc[j] \in Showing /\ row # Nobody =>
        /\ ~row.open /\ row.hidden # Nobody
        /\ todo[j] \cap row.hidden \subseteq req[j].hide
        /\ \A p \in row.hidden \ (torn \cup todo[j]) : HiddenAt(p)
        /\ pc[j] = "summaries" =>
              \A p \in todo[j] \cap row.hidden : (\A q \in todo[j] : p <= q) => PageHidden(p)

\* An ingestion carries over what the row said was hidden.
KeptAgrees ==
    \A j \in Ingestions :
        /\ pc[j] \in {"clear", "insert"} /\ Snapshotted => row.hidden \subseteq kept[j]
        /\ pc[j] = "write" =>
              /\ row = Nobody
              /\ latest[j] # Nobody /\ latest[j].hidden # Nobody => Honoured(latest[j].hidden)

HiddenOK == RowAgrees /\ ShowingAgrees /\ KeptAgrees

\* A step that shows nothing more than was shown before.
Safer ==
    /\ chunks' \subseteq chunks
    /\ \A p \in Pages : segments'[p] = "shown" => segments[p] = "shown"
    /\ blind \subseteq blind' /\ torn \subseteq torn'

LEMMA SaferHides ==
    ASSUME Safer
    PROVE  /\ \A p : PageHidden(p) => PageHidden(p)'
           /\ \A p \in Pages : HiddenAt(p) => HiddenAt(p)'
           /\ \A h \in SUBSET Pages : Honoured(h) => Honoured(h)'
<1>1. ASSUME NEW p, PageHidden(p) PROVE PageHidden(p)'
  BY <1>1 DEF Safer, PageHidden
<1>2. ASSUME NEW p \in Pages, HiddenAt(p) PROVE HiddenAt(p)'
  BY <1>1, <1>2 DEF Safer, HiddenAt
<1>3. ASSUME NEW h \in SUBSET Pages, Honoured(h) PROVE Honoured(h)'
  BY <1>2, <1>3 DEF Safer, Honoured
<1>4. QED
  BY <1>1, <1>2, <1>3

\* What a row calls hidden are pages.
LEMMA RowPages ==
    ASSUME StoreTypes, JobTypes
    PROVE  /\ Snapshotted => row.hidden \subseteq Pages
           /\ \A j \in Ingestions :
                 latest[j] # Nobody /\ latest[j].hidden # Nobody => latest[j].hidden \subseteq Pages
BY DEF StoreTypes, JobTypes, Snapshotted, Row

\* Who holds the lock is the only one at a step that needs it.
LEMMA OneLocked ==
    ASSUME JobsOK, NEW j \in Jobs, pc[j] \in Locked
    PROVE  /\ lock = j
           /\ \A i \in Ingestions \ {j} : pc[i] \notin {"clear", "insert", "write"}
           /\ \A i \in Visibilities \ {j} : pc[i] \notin Showing
BY Kinds DEF JobsOK, LockOwned, Locked, Ingesting, Showing

\* Steps that show no slides and leave what the row hides, or the row, alone.
LEMMA RowLeft ==
    ASSUME JobsOK, HiddenOK, NEW j \in Jobs, Alone(j), Safer,
           j \in Visibilities => pc[j] \notin Showing /\ pc'[j] \notin Showing,
           \/ row' = Nobody
           \/ row # Nobody /\ (row'.open <=> row.open) /\ row'.hidden = row.hidden
    PROVE  RowAgrees' /\ ShowingAgrees'
<1>0. StoreTypes /\ JobTypes
  BY DEF JobsOK
<1>1. \A i \in Visibilities : i # j => pc'[i] = pc[i] /\ todo'[i] = todo[i] /\ req'[i] = req[i]
  BY Kinds DEF Alone
<1>2. RowAgrees'
  <2>1. SUFFICES ASSUME Snapshotted', \A i \in Visibilities : pc'[i] \notin Showing
                 PROVE  Honoured(row.hidden)'
    BY DEF RowAgrees
  <2>2. Snapshotted /\ row'.hidden = row.hidden /\ \A i \in Visibilities : pc[i] \notin Showing
    BY <1>1, <2>1 DEF Snapshotted
  <2>3. Honoured(row.hidden)
    BY <2>2 DEF HiddenOK, RowAgrees
  <2>4. QED
    BY <1>0, <2>2, <2>3, SaferHides, RowPages DEF Honoured
<1>3. ShowingAgrees'
  <2>1. SUFFICES ASSUME NEW i \in Visibilities, pc'[i] \in Showing, row' # Nobody
                 PROVE  /\ ~row'.open /\ row'.hidden # Nobody
                        /\ todo'[i] \cap row'.hidden \subseteq req'[i].hide
                        /\ \A p \in row'.hidden \ (torn' \cup todo'[i]) : HiddenAt(p)'
                        /\ pc'[i] = "summaries" =>
                              \A p \in todo'[i] \cap row'.hidden :
                                  (\A q \in todo'[i] : p <= q) => PageHidden(p)'
    BY DEF ShowingAgrees
  <2>2. i # j
    BY <2>1
  <2>3. /\ pc'[i] = pc[i] /\ todo'[i] = todo[i] /\ req'[i] = req[i]
        /\ row # Nobody /\ (row'.open <=> row.open) /\ row'.hidden = row.hidden
    BY <1>1, <2>1, <2>2
  <2>4. /\ ~row.open /\ row.hidden # Nobody
        /\ todo[i] \cap row.hidden \subseteq req[i].hide
        /\ \A p \in row.hidden \ (torn \cup todo[i]) : HiddenAt(p)
        /\ pc[i] = "summaries" =>
              \A p \in todo[i] \cap row.hidden : (\A q \in todo[i] : p <= q) => PageHidden(p)
    BY <2>1, <2>3 DEF HiddenOK, ShowingAgrees
  <2>5. row.hidden \subseteq Pages /\ torn \subseteq torn'
    BY <1>0, <2>3, <2>4, RowPages DEF Snapshotted, Safer
  <2>6. QED
    BY <2>3, <2>4, <2>5, SaferHides
<1>4. QED
  BY <1>2, <1>3

\* Steps after which an ingestion carries nothing, or what it carried before.
LEMMA KeptLeft ==
    ASSUME JobsOK, HiddenOK, NEW j \in Jobs, Alone(j), Safer,
           j \in Ingestions => \/ pc'[j] \notin {"clear", "insert", "write"}
                               \/ /\ pc'[j] = pc[j] \/ (pc'[j] = "insert" /\ pc[j] = "clear")
                                  /\ kept'[j] = kept[j] /\ latest'[j] = latest[j],
           row' = Nobody \/ (row # Nobody /\ row'.hidden = row.hidden)
    PROVE  KeptAgrees'
<1>0. StoreTypes /\ JobTypes
  BY DEF JobsOK
<1>1. SUFFICES ASSUME NEW i \in Ingestions
               PROVE  /\ pc'[i] \in {"clear", "insert"} /\ Snapshotted' => row'.hidden \subseteq kept'[i]
                      /\ pc'[i] = "write" =>
                            /\ row' = Nobody
                            /\ latest'[i] # Nobody /\ latest'[i].hidden # Nobody
                                  => Honoured(latest[i].hidden)'
  BY DEF KeptAgrees
<1>2. /\ pc[i] \in {"clear", "insert"} /\ Snapshotted => row.hidden \subseteq kept[i]
      /\ pc[i] = "write" =>
            /\ row = Nobody
            /\ latest[i] # Nobody /\ latest[i].hidden # Nobody => Honoured(latest[i].hidden)
  BY DEF HiddenOK, KeptAgrees
<1>3. CASE pc'[i] \notin {"clear", "insert", "write"}
  BY <1>3
<1>4. CASE pc'[i] \in {"clear", "insert", "write"}
  <2>1. /\ pc'[i] = pc[i] \/ (pc'[i] = "insert" /\ pc[i] = "clear")
        /\ kept'[i] = kept[i] /\ latest'[i] = latest[i]
    BY <1>4, Kinds DEF Alone
  <2>2. pc'[i] \in {"clear", "insert"} /\ Snapshotted' => row'.hidden \subseteq kept'[i]
    BY <1>2, <2>1 DEF Snapshotted
  <2>3. ASSUME pc'[i] = "write", latest'[i] # Nobody, latest'[i].hidden # Nobody
        PROVE  Honoured(latest[i].hidden)'
    <3>1. Honoured(latest[i].hidden) /\ latest[i].hidden \subseteq Pages
      BY <1>0, <1>2, <2>1, <2>3, RowPages
    <3>2. QED
      BY <2>1, <3>1, SaferHides DEF Honoured
  <2>4. pc'[i] = "write" => row' = Nobody
    BY <1>2, <2>1
  <2>5. QED
    BY <2>2, <2>3, <2>4
<1>5. QED
  BY <1>3, <1>4

\* What the steps of an ingestion do to what is hidden.
LEMMA IngestionHides ==
    ASSUME JobsOK, HiddenOK, NEW j \in Ingestions, Receive(j) \/ Ingest(j)
    PROVE  HiddenOK'
<1>0. /\ JobTypes /\ StoreTypes /\ j \in Jobs /\ j \notin Visibilities /\ Alone(j)
  BY Kinds, IngestionMoves DEF JobsOK
<1>1. CASE \/ Receive(j) \/ Snapshot(j) \/ Enter(j) \/ UpToDate(j) \/ PagesFail(j)
           \/ ClearSpeech(j) \/ InsertSpeech(j) \/ FindRange(j)
           \/ Finish(j) \/ IngestionFails(j)
  <2>1. UNCHANGED <<chunks, segments, row, torn, blind>>
    BY <1>1 DEF Receive, Snapshot, Enter, UpToDate, PagesFail, ClearSpeech, InsertSpeech, FindRange,
       Finish, IngestionFails, store, past
  <2>2. pc'[j] \notin {"clear", "insert", "write"}
    BY <1>0, <1>1 DEF Receive, Snapshot, Enter, UpToDate, PagesFail, ClearSpeech, InsertSpeech,
       FindRange, Finish, IngestionFails, Goto, JobTypes
  <2>3. Safer
    BY <2>1 DEF Safer
  <2>4. CASE row = Nobody
    BY <1>0, <2>1, <2>2, <2>3, <2>4, RowLeft, KeptLeft DEF HiddenOK
  <2>5. CASE row # Nobody
    BY <1>0, <2>1, <2>2, <2>3, <2>5, RowLeft, KeptLeft DEF HiddenOK
  <2>6. QED
    BY <2>4, <2>5
<1>2. CASE Outdated(j)
  <2>1. UNCHANGED <<chunks, segments, row, torn, blind>>
    BY <1>2 DEF Outdated, store, past
  <2>2. RowAgrees' /\ ShowingAgrees'
    <3>1. Safer
      BY <2>1 DEF Safer
    <3>2. QED
      BY <1>0, <2>1, <3>1, RowLeft
  <2>3. pc[j] \in Locked /\ pc'[j] = "clear"
    BY <1>0, <1>2 DEF Outdated, At, Goto, JobTypes, Locked, Ingesting
  <2>4. Snapshotted => kept'[j] = row.hidden
    BY <1>0, <1>2 DEF Outdated, Hidden, JobTypes
  <2>5. \A i \in Ingestions \ {j} : pc'[i] \notin {"clear", "insert", "write"}
    BY <1>0, <2>3, OneLocked, Kinds DEF Alone
  <2>6. KeptAgrees'
    BY <2>1, <2>3, <2>4, <2>5 DEF KeptAgrees, Snapshotted
  <2>7. QED
    BY <2>2, <2>6 DEF HiddenOK
<1>3. CASE ClearPages(j)
  <2>1. /\ chunks' \subseteq chunks /\ row' = row /\ UNCHANGED <<segments, torn, blind>>
        /\ pc[j] = "clear" /\ pc'[j] = "insert" /\ UNCHANGED <<kept, latest>>
    BY <1>0, <1>3 DEF ClearPages, At, Goto, JobTypes
  <2>2. Safer
    BY <2>1 DEF Safer
  <2>3. RowAgrees' /\ ShowingAgrees' /\ KeptAgrees'
    BY <1>0, <2>1, <2>2, RowLeft, KeptLeft
  <2>4. QED
    BY <2>3 DEF HiddenOK
<1>4. CASE InsertPage(j)
  <2>1. PICK p \in todo[j] : chunks' = chunks \cup {PageChunk(j, p)} \/ chunks' = chunks
    BY <1>4 DEF InsertPage
  <2>2. /\ row' = row /\ UNCHANGED <<kept, latest, segments, torn, blind>>
        /\ pc[j] = "insert" /\ pc'[j] \in {"insert", "speech"} /\ pc[j] \in Locked
    BY <1>0, <1>4 DEF InsertPage, At, Goto, JobTypes, Locked, Ingesting
  <2>3. /\ \A i \in Ingestions \ {j} : pc'[i] \notin {"clear", "insert", "write"}
        /\ \A i \in Visibilities : pc[i] \notin Showing /\ pc'[i] \notin Showing
    BY <1>0, <2>2, OneLocked, Kinds DEF Alone
  <2>4. Snapshotted => row.hidden \subseteq kept[j]
    BY <2>2 DEF HiddenOK, KeptAgrees
  <2>5. PageChunk(j, p).page = p /\ (PageChunk(j, p).hidden <=> p \in kept[j])
    BY DEF PageChunk
  <2>6. RowAgrees'
    <3>1. SUFFICES ASSUME Snapshotted, NEW q \in row.hidden \ torn
                   PROVE  HiddenAt(q)'
      BY <2>2 DEF RowAgrees, Honoured, Snapshotted
    <3>2. HiddenAt(q)
      BY <2>3, <3>1 DEF HiddenOK, RowAgrees, Honoured
    <3>3. QED
      BY <2>1, <2>2, <2>4, <2>5, <3>1, <3>2 DEF HiddenAt, PageHidden
  <2>7. ShowingAgrees'
    BY <2>3 DEF ShowingAgrees
  <2>8. KeptAgrees'
    BY <2>2, <2>3, <2>4 DEF KeptAgrees, Snapshotted
  <2>9. QED
    BY <2>6, <2>7, <2>8 DEF HiddenOK
<1>5. CASE Summarise(j)
  <2>1. PICK p \in todo[j], hide \in BOOLEAN :
           LET own == {c \in chunks : c.page = p}
           IN  /\ IF own = {} THEN ~hide ELSE \E c \in own : c.hidden <=> hide
               /\ segments' = [segments EXCEPT ![p] = IF hide THEN "hidden" ELSE "shown"]
               /\ blind' = IF own = {} THEN blind \cup ({p} \cap Pages) ELSE blind \ {p}
    BY <1>5 DEF Summarise
  <2>2. /\ UNCHANGED <<chunks, row, torn, kept, latest>>
        /\ pc[j] = "segment" /\ pc'[j] \in {"segment", "replace"} /\ pc[j] \in Locked
    BY <1>0, <1>5 DEF Summarise, At, Goto, JobTypes, Locked, Ingesting
  <2>3. /\ \A i \in Ingestions : pc'[i] \notin {"clear", "insert", "write"}
        /\ \A i \in Visibilities : pc[i] \notin Showing /\ pc'[i] \notin Showing
    BY <1>0, <2>2, OneLocked, Kinds DEF Alone
  <2>4. RowAgrees'
    <3>1. SUFFICES ASSUME Snapshotted, NEW q \in row.hidden \ torn
                   PROVE  HiddenAt(q)'
      BY <2>2 DEF RowAgrees, Honoured, Snapshotted
    <3>2. HiddenAt(q) /\ q \in Pages /\ q \in Slides
      BY <1>0, <2>3, <3>1, RowPages, PagesAreSlides DEF HiddenOK, RowAgrees, Honoured
    <3>3. PageHidden(q)'
      BY <2>2, <3>2 DEF HiddenAt, PageHidden
    <3>4. CASE q # p
      <4>1. segments'[q] = segments[q] /\ (q \in blind => q \in blind')
        BY <1>0, <2>1, <3>2, <3>4 DEF StoreTypes
      <4>2. QED
        BY <3>2, <3>3, <4>1 DEF HiddenAt
    <3>5. CASE q = p
      <4>1. CASE {c \in chunks : c.page = p} = {}
        BY <2>1, <3>2, <3>3, <3>5, <4>1 DEF HiddenAt
      <4>2. CASE {c \in chunks : c.page = p} # {}
        <5>1. PICK c \in chunks : c.page = p /\ (c.hidden <=> hide)
          BY <2>1, <4>2
        <5>2. hide
          BY <3>2, <3>5, <5>1 DEF HiddenAt, PageHidden
        <5>3. segments'[q] = "hidden"
          BY <1>0, <2>1, <3>2, <3>5, <5>2 DEF StoreTypes
        <5>4. QED
          BY <3>3, <5>3 DEF HiddenAt
      <4>3. QED
        BY <4>1, <4>2
    <3>6. QED
      BY <3>4, <3>5
  <2>5. ShowingAgrees' /\ KeptAgrees'
    BY <2>3 DEF ShowingAgrees, KeptAgrees
  <2>6. QED
    BY <2>4, <2>5 DEF HiddenOK
<1>6. CASE RemoveRow(j)
  <2>1. /\ UNCHANGED <<chunks, segments, torn, blind>> /\ row' = Nobody /\ latest'[j] = row
        /\ pc[j] \in Locked /\ pc'[j] = "write"
    BY <1>0, <1>6 DEF RemoveRow, At, Goto, JobTypes, Locked, Ingesting, past
  <2>2. RowAgrees' /\ ShowingAgrees'
    BY <2>1 DEF RowAgrees, ShowingAgrees, Snapshotted
  <2>3. /\ \A i \in Ingestions \ {j} : pc'[i] \notin {"clear", "insert", "write"}
        /\ \A i \in Visibilities : pc[i] \notin Showing
    BY <1>0, <2>1, OneLocked, Kinds DEF Alone
  <2>4. Snapshotted => Honoured(row.hidden)
    BY <2>3 DEF HiddenOK, RowAgrees
  <2>5. Snapshotted => \A p \in row.hidden \ torn : HiddenAt(p)'
    BY <2>1, <2>4 DEF Honoured, HiddenAt, PageHidden
  <2>6. KeptAgrees'
    BY <2>1, <2>3, <2>5 DEF KeptAgrees, Honoured, Snapshotted
  <2>7. QED
    BY <2>2, <2>6 DEF HiddenOK
<1>7. CASE WriteRow(j)
  <2>1. /\ UNCHANGED <<chunks, segments, torn, blind>>
        /\ pc[j] = "write" /\ pc[j] \in Locked /\ pc'[j] = "finish"
        /\ row'.hidden = IF latest[j] = Nobody THEN {} ELSE latest[j].hidden
    BY <1>0, <1>7 DEF WriteRow, At, Goto, JobTypes, Locked, Ingesting, past
  <2>2. /\ \A i \in Ingestions : pc'[i] \notin {"clear", "insert", "write"}
        /\ \A i \in Visibilities : pc'[i] \notin Showing
    BY <1>0, <2>1, OneLocked, Kinds DEF Alone
  <2>3. ShowingAgrees' /\ KeptAgrees'
    BY <2>2 DEF ShowingAgrees, KeptAgrees
  <2>4. latest[j] # Nobody /\ latest[j].hidden # Nobody => Honoured(latest[j].hidden)
    BY <2>1 DEF HiddenOK, KeptAgrees
  <2>5. RowAgrees'
    <3>1. SUFFICES ASSUME Snapshotted', NEW q \in row'.hidden \ torn PROVE HiddenAt(q)'
      BY <2>1 DEF RowAgrees, Honoured
    <3>2. latest[j] # Nobody /\ latest[j].hidden # Nobody /\ q \in latest[j].hidden \ torn
      BY <2>1, <3>1 DEF Snapshotted
    <3>3. HiddenAt(q)
      BY <2>4, <3>2 DEF Honoured
    <3>4. QED
      BY <2>1, <3>3 DEF HiddenAt, PageHidden
  <2>6. QED
    BY <2>3, <2>5 DEF HiddenOK
<1>8. QED
  BY <1>1, <1>2, <1>3, <1>4, <1>5, <1>6, <1>7 DEF Ingest

\* What the steps of a visibility request do to what is hidden.
LEMMA VisibilityHides ==
    ASSUME JobsOK, HiddenOK, NEW j \in Visibilities, SetVisibility(j)
    PROVE  HiddenOK'
<1>0. /\ JobTypes /\ StoreTypes /\ AtWork(j) /\ j \in Jobs /\ j \notin Ingestions /\ Alone(j)
  BY Kinds, VisibilityMoves DEF JobsOK
<1>1. CASE FindUnit(j)
  <2>1. /\ UNCHANGED <<chunks, segments, row, torn, blind>>
        /\ pc[j] \notin Showing /\ pc'[j] \notin Showing
    BY <1>0, <1>1 DEF FindUnit, Sent, Goto, JobTypes, Showing, store, past
  <2>2. Safer
    BY <2>1 DEF Safer
  <2>3. RowAgrees' /\ ShowingAgrees' /\ KeptAgrees'
    BY <1>0, <2>1, <2>2, RowLeft, KeptLeft
  <2>4. QED
    BY <2>3 DEF HiddenOK
<1>2. ASSUME pc[j] \in Locked
      PROVE  /\ \A i \in Ingestions : pc'[i] \notin {"clear", "insert", "write"}
             /\ \A i \in Visibilities \ {j} : pc[i] \notin Showing /\ pc'[i] \notin Showing
  BY <1>0, <1>2, OneLocked, Kinds DEF Alone
<1>3. CASE Close(j)
  <2>1. /\ UNCHANGED <<chunks, segments, torn, blind>> /\ row # Nobody
        /\ ~row'.open /\ row'.hidden = Snap(j)
        /\ pc[j] = "close" /\ pc[j] \in Locked /\ pc'[j] \in {"open", "pages"}
        /\ UNCHANGED <<req, todo>> /\ todo[j] = req[j].listed /\ req[j] \in Hiding
    BY <1>0, <1>3 DEF Close, At, Goto, JobTypes, StoreTypes, Row, Locked, AtWork, mine, past
  <2>2. req[j].hide \subseteq req[j].listed /\ Snap(j) # Nobody
    <3>1. Snap(j) \in SUBSET Pages
      BY <1>0, <2>1 DEF Snap, Hiding, StoreTypes, Row
    <3>2. QED
      BY <2>1, <3>1, UnitAssumption DEF Hiding
  <2>3. RowAgrees' /\ KeptAgrees'
    BY <1>2, <2>1 DEF RowAgrees, KeptAgrees, Showing
  <2>4. todo'[j] \cap row'.hidden \subseteq req'[j].hide
    BY <2>1 DEF Snap
  <2>5. ASSUME NEW p \in row'.hidden \ (torn \cup todo[j]) PROVE HiddenAt(p)'
    <3>1. Snapshotted /\ p \in row.hidden \ torn
      BY <2>1, <2>2, <2>5 DEF Snap, Snapshotted
    <3>2. \A i \in Visibilities : pc[i] \notin Showing
      BY <1>2, <2>1 DEF Showing
    <3>3. HiddenAt(p)
      BY <3>1, <3>2 DEF HiddenOK, RowAgrees, Honoured
    <3>4. QED
      BY <2>1, <3>3 DEF HiddenAt, PageHidden
  <2>6. ShowingAgrees'
    BY <1>2, <2>1, <2>2, <2>4, <2>5 DEF ShowingAgrees
  <2>7. QED
    BY <2>3, <2>6 DEF HiddenOK
<1>4. CASE HidePages(j)
  <2>1. /\ row' = row /\ pc[j] = "pages" /\ pc[j] \in Locked /\ pc'[j] = "summaries"
        /\ UNCHANGED <<req, todo, segments, torn, blind>>
    BY <1>0, <1>4 DEF HidePages, At, Goto, JobTypes, Locked, Showing, mine, past
  <2>2. PICK p \in todo[j] : /\ \A q \in todo[j] : p <= q
                             /\ chunks' = Hide(p, chunks, p \in req[j].hide)
    BY <1>4 DEF HidePages
  <2>3. RowAgrees' /\ KeptAgrees'
    BY <1>2, <2>1 DEF RowAgrees, KeptAgrees, Showing
  <2>4. SUFFICES ASSUME row # Nobody
                 PROVE  /\ ~row.open /\ row.hidden # Nobody
                        /\ todo[j] \cap row.hidden \subseteq req[j].hide
                        /\ \A q \in row.hidden \ (torn \cup todo[j]) : HiddenAt(q)'
                        /\ \A r \in todo[j] \cap row.hidden :
                              (\A q \in todo[j] : r <= q) => PageHidden(r)'
    BY <1>2, <2>1, <2>3 DEF HiddenOK, ShowingAgrees
  <2>5. /\ ~row.open /\ row.hidden # Nobody /\ todo[j] \cap row.hidden \subseteq req[j].hide
        /\ \A q \in row.hidden \ (torn \cup todo[j]) : HiddenAt(q)
    BY <2>1, <2>4 DEF HiddenOK, ShowingAgrees, Showing
  <2>6. ASSUME NEW c \in chunks'
        PROVE  \/ c \in chunks /\ c.page # p
               \/ c.page = p /\ (c.hidden <=> p \in req[j].hide)
    <3>1. CASE c \in chunks /\ c.page # p
      BY <3>1
    <3>2. CASE \E d \in chunks : d.page = p /\ c = [d EXCEPT !.hidden = p \in req[j].hide]
      <4>1. PICK d \in chunks : d.page = p /\ c = [d EXCEPT !.hidden = p \in req[j].hide]
        BY <3>2
      <4>2. QED
        BY <1>0, <4>1 DEF StoreTypes, Chunk
    <3>3. QED
      BY <2>2, <2>6, <3>1, <3>2 DEF Hide
  <2>7. ASSUME NEW q \in row.hidden \ (torn \cup todo[j]) PROVE HiddenAt(q)'
    BY <2>1, <2>5, <2>6, <2>7 DEF HiddenAt, PageHidden
  <2>8. ASSUME NEW r \in todo[j] \cap row.hidden, \A q \in todo[j] : r <= q PROVE PageHidden(r)'
    <3>1. r = p
      <4>1. todo[j] \subseteq Nat
        BY <1>0, PagesAreSlides DEF JobTypes
      <4>2. QED
        BY <2>2, <2>8, <4>1
    <3>2. QED
      BY <2>5, <2>6, <2>8, <3>1 DEF PageHidden
  <2>9. QED
    BY <2>5, <2>7, <2>8
<1>5. CASE HideSegment(j)
  <2>1. /\ UNCHANGED <<chunks, row, req>> /\ pc[j] = "summaries" /\ pc[j] \in Locked
        /\ pc'[j] \in {"open", "pages"}
    BY <1>0, <1>5 DEF HideSegment, At, Goto, JobTypes, Locked, Showing
  <2>2. PICK p \in todo[j] :
           /\ \A q \in todo[j] : p <= q
           /\ segments' = [segments EXCEPT ![p] =
                             IF @ = "none" THEN @ ELSE IF p \in req[j].hide THEN "hidden" ELSE "shown"]
           /\ torn' = torn \ {p} /\ blind' = blind \ {p}
           /\ todo' = [todo EXCEPT ![j] = @ \ {p}]
    BY <1>5 DEF HideSegment
  <2>3. RowAgrees' /\ KeptAgrees'
    BY <1>2, <2>1 DEF RowAgrees, KeptAgrees, Showing
  <2>4. SUFFICES ASSUME row # Nobody
                 PROVE  /\ ~row.open /\ row.hidden # Nobody
                        /\ todo'[j] \cap row.hidden \subseteq req[j].hide
                        /\ \A q \in row.hidden \ (torn' \cup todo'[j]) : HiddenAt(q)'
    BY <1>2, <2>1, <2>3 DEF HiddenOK, ShowingAgrees
  <2>5. /\ ~row.open /\ row.hidden # Nobody /\ todo[j] \cap row.hidden \subseteq req[j].hide
        /\ \A q \in row.hidden \ (torn \cup todo[j]) : HiddenAt(q)
        /\ p \in row.hidden => PageHidden(p)
    BY <2>1, <2>2, <2>4 DEF HiddenOK, ShowingAgrees, Showing
  <2>6. todo'[j] = todo[j] \ {p} /\ p \in Slides
    BY <1>0, <2>2 DEF JobTypes
  <2>7. ASSUME NEW q \in row.hidden \ (torn' \cup todo'[j]) PROVE HiddenAt(q)'
    <3>1. q \in Pages /\ q \in Slides
      BY <1>0, <2>4, <2>5, <2>7, RowPages, PagesAreSlides DEF Snapshotted
    <3>2. CASE q = p
      <4>1. PageHidden(q)' /\ p \in req[j].hide
        BY <2>1, <2>2, <2>5, <2>7, <3>2 DEF PageHidden
      <4>2. segments'[q] # "shown"
        BY <1>0, <2>2, <2>6, <3>1, <3>2, <4>1 DEF StoreTypes
      <4>3. QED
        BY <4>1, <4>2 DEF HiddenAt
    <3>3. CASE q # p
      <4>1. HiddenAt(q)
        BY <2>2, <2>5, <2>6, <2>7, <3>3
      <4>2. segments'[q] = segments[q] /\ (q \in blind => q \in blind')
        BY <1>0, <2>2, <3>1, <3>3 DEF StoreTypes
      <4>3. QED
        BY <2>1, <4>1, <4>2 DEF HiddenAt, PageHidden
    <3>4. QED
      BY <3>2, <3>3
  <2>8. QED
    BY <2>5, <2>6, <2>7
<1>6. CASE Open(j)
  <2>1. /\ UNCHANGED <<chunks, segments, torn, blind>> /\ row # Nobody /\ row'.hidden = row.hidden
        /\ pc[j] = "open" /\ pc[j] \in Locked /\ pc[j] \in Showing /\ pc'[j] = "done" /\ todo[j] = {}
    BY <1>0, <1>6 DEF Open, At, Goto, JobTypes, StoreTypes, Row, Locked, Showing, AtWork, past
  <2>2. ShowingAgrees' /\ KeptAgrees'
    BY <1>2, <2>1 DEF ShowingAgrees, KeptAgrees, Showing
  <2>3. \A p \in row.hidden \ torn : HiddenAt(p)
    BY <2>1 DEF HiddenOK, ShowingAgrees
  <2>4. RowAgrees'
    BY <2>1, <2>3 DEF RowAgrees, Honoured, HiddenAt, PageHidden
  <2>5. QED
    BY <2>2, <2>4 DEF HiddenOK
<1>7. CASE VisibilityFails(j)
  <2>1. /\ row' = row /\ UNCHANGED <<segments, blind>> /\ Tear({j})
        /\ pc[j] \in Showing \cup {"close"} /\ pc[j] \in Locked /\ pc'[j] = "done"
        /\ pc[j] # "pages" => chunks' = chunks
    BY <1>0, <1>7 DEF VisibilityFails, At, Goto, JobTypes, Locked, Showing
  <2>2. ShowingAgrees' /\ KeptAgrees'
    BY <1>2, <2>1 DEF ShowingAgrees, KeptAgrees, Showing
  <2>3. RowAgrees'
    <3>1. SUFFICES ASSUME Snapshotted, NEW q \in row.hidden \ torn' PROVE HiddenAt(q)'
      BY <2>1 DEF RowAgrees, Honoured, Snapshotted
    <3>2. torn' = torn \cup UNION {todo[i] \cap req[i].hide :
                      i \in {k \in {j} \cap Visibilities : pc[k] \in {"pages", "summaries"}}}
      BY <2>1 DEF Tear
    <3>3. torn \subseteq torn' /\ (pc[j] \in {"pages", "summaries"} => todo[j] \cap req[j].hide \subseteq torn')
      BY <3>2
    <3>4. HiddenAt(q)
      <4>1. CASE pc[j] = "close"
        <5>1. \A i \in Visibilities : pc[i] \notin Showing
          BY <1>2, <2>1, <4>1 DEF Showing
        <5>2. QED
          BY <3>1, <3>3, <5>1 DEF HiddenOK, RowAgrees, Honoured
      <4>2. CASE pc[j] \in Showing
        <5>1. /\ todo[j] \cap row.hidden \subseteq req[j].hide
              /\ \A p \in row.hidden \ (torn \cup todo[j]) : HiddenAt(p)
          BY <3>1, <4>2 DEF HiddenOK, ShowingAgrees, Snapshotted
        <5>2. pc[j] = "open" => todo[j] = {}
          BY <1>0 DEF AtWork
        <5>3. q \notin todo[j]
          BY <3>1, <3>3, <4>2, <5>1, <5>2 DEF Showing
        <5>4. QED
          BY <3>1, <3>3, <5>1, <5>3
      <4>3. QED
        BY <2>1, <4>1, <4>2
    <3>5. PageHidden(q)'
      <4>1. CASE chunks' = chunks
        BY <3>4, <4>1 DEF HiddenAt, PageHidden
      <4>2. CASE chunks' # chunks
        <5>1. PICK p \in todo[j], reached \in SUBSET chunks : chunks' = Hide(p, reached, p \in req[j].hide)
          BY <1>7, <4>2 DEF VisibilityFails
        <5>2. pc[j] = "pages" /\ row # Nobody
          BY <2>1, <3>1, <4>2 DEF Snapshotted
        <5>3. q # p
          <6>1. todo[j] \cap row.hidden \subseteq req[j].hide
            BY <5>2 DEF HiddenOK, ShowingAgrees, Showing
          <6>2. QED
            BY <3>1, <3>3, <5>1, <5>2, <6>1
        <5>4. \A c \in chunks' : c \in chunks \/ c.page = p
          <6>1. SUFFICES ASSUME NEW d \in reached, d.page = p
                         PROVE  [d EXCEPT !.hidden = p \in req[j].hide].page = p
            BY <5>1 DEF Hide
          <6>2. d \in Chunk
            BY <1>0, <6>1 DEF StoreTypes
          <6>3. QED
            BY <6>1, <6>2 DEF Chunk
        <5>5. QED
          BY <3>4, <5>3, <5>4 DEF HiddenAt, PageHidden
      <4>3. QED
        BY <4>1, <4>2
    <3>6. QED
      BY <2>1, <3>4, <3>5 DEF HiddenAt
  <2>4. QED
    BY <2>2, <2>3 DEF HiddenOK
<1>8. QED
  BY <1>1, <1>3, <1>4, <1>5, <1>6, <1>7 DEF SetVisibility

\* No step brings what is hidden out of line.
LEMMA HiddenStep ==
    ASSUME JobsOK, HiddenOK, [Next]_vars
    PROVE  HiddenOK'
<1>0. JobTypes /\ StoreTypes /\ \A j \in Jobs : AtWork(j)
  BY DEF JobsOK
<1>1. ASSUME NEW j \in Renames, Rename(j) PROVE HiddenOK'
  <2>1. Alone(j) /\ j \in Jobs /\ j \notin Ingestions /\ j \notin Visibilities
    BY <1>1, Kinds, RenameMoves
  <2>2. /\ Safer
        /\ row' = Nobody \/ (row # Nobody /\ (row'.open <=> row.open) /\ row'.hidden = row.hidden)
    BY <1>0, <1>1 DEF Rename, StoreTypes, Row, past, Safer
  <2>3. RowAgrees' /\ ShowingAgrees' /\ KeptAgrees'
    BY <2>1, <2>2, RowLeft, KeptLeft
  <2>4. QED
    BY <2>3 DEF HiddenOK
<1>2. ASSUME NEW j \in Deletions, Delete(j) PROVE HiddenOK'
  <2>1. Alone(j) /\ j \in Jobs /\ j \notin Ingestions /\ j \notin Visibilities
    BY <1>2, Kinds, DeletionMoves
  <2>2. /\ chunks' \subseteq chunks /\ UNCHANGED <<torn, blind>>
        /\ segments' = segments \/ segments' = [p \in Slides |-> "none"]
        /\ row' = Nobody \/ row' = row
    BY <1>2 DEF Delete, StartDeletion, DeleteChunks, DeleteSpeech, DeleteSegments, DeleteRow, Missed,
       DeletionStep, store
  <2>3. Safer
    BY <2>2, PagesAreSlides DEF Safer
  <2>4. row' = Nobody \/ (row # Nobody /\ (row'.open <=> row.open) /\ row'.hidden = row.hidden)
    BY <2>2
  <2>5. RowAgrees' /\ ShowingAgrees' /\ KeptAgrees'
    BY <2>1, <2>3, <2>4, RowLeft, KeptLeft
  <2>6. QED
    BY <2>5 DEF HiddenOK
<1>3. CASE Restart
  <2>1. \A j \in Jobs : pc'[j] \in Over \cup {"idle"}
    BY <1>3 DEF Restart, Running, Over
  <2>2. UNCHANGED <<chunks, segments, row, blind>> /\ Tear(Running)
    BY <1>3 DEF Restart, store
  <2>3. ShowingAgrees' /\ KeptAgrees'
    BY <2>1, Kinds DEF ShowingAgrees, KeptAgrees, Showing, Over
  <2>4. RowAgrees'
    <3>1. SUFFICES ASSUME Snapshotted, NEW q \in row.hidden \ torn' PROVE HiddenAt(q)
      BY <2>2 DEF RowAgrees, Honoured, Snapshotted, HiddenAt, PageHidden
    <3>2. torn \subseteq torn'
      BY <2>2 DEF Tear
    <3>3. CASE \A j \in Visibilities : pc[j] \notin Showing
      BY <3>1, <3>2, <3>3 DEF HiddenOK, RowAgrees, Honoured
    <3>4. ASSUME NEW j \in Visibilities, pc[j] \in Showing PROVE HiddenAt(q)
      <4>1. /\ todo[j] \cap row.hidden \subseteq req[j].hide
            /\ \A p \in row.hidden \ (torn \cup todo[j]) : HiddenAt(p)
        BY <3>1, <3>4 DEF HiddenOK, ShowingAgrees, Snapshotted
      <4>2. pc[j] \in {"pages", "summaries"} => todo[j] \cap req[j].hide \subseteq torn'
        <5>1. j \in Running
          BY <3>4, Kinds DEF Running, Showing, Over
        <5>2. QED
          BY <2>2, <5>1 DEF Tear
      <4>3. pc[j] = "open" => todo[j] = {}
        BY <1>0, Kinds DEF AtWork
      <4>4. q \notin todo[j]
        BY <3>1, <3>4, <4>1, <4>2, <4>3 DEF Showing
      <4>5. QED
        BY <3>1, <3>2, <4>1, <4>4
    <3>5. QED
      BY <3>3, <3>4
  <2>5. QED
    BY <2>3, <2>4 DEF HiddenOK
<1>4. CASE UNCHANGED vars
  BY <1>4 DEF vars, store, mine, past, HiddenOK, RowAgrees, ShowingAgrees, KeptAgrees, Honoured,
     HiddenAt, PageHidden, Snapshotted
<1>5. QED
  BY <1>1, <1>2, <1>3, <1>4, IngestionHides, VisibilityHides DEF Next, Finished

LEMMA InitHidden ==
    ASSUME Init
    PROVE  HiddenOK
<1>1. Snapshotted => Honoured(row.hidden)
  <2>1. CASE Empty
    BY <2>1 DEF Empty, Snapshotted
  <2>2. CASE Stored
    <3>1. PICK j \in Ingestions, snap \in {Nobody, HiddenBefore} :
            /\ chunks   = {[page |-> p, version |-> VersionBefore, hidden |-> p \in HiddenBefore] :
                             p \in Pages}
            /\ segments = [p \in Slides |-> IF p = 0 THEN "none"
                                            ELSE IF p \in HiddenBefore THEN "hidden" ELSE "shown"]
            /\ row      = [name |-> NameOf[j], open |-> TRUE, hidden |-> snap]
      BY <2>2 DEF Stored
    <3>2. ASSUME Snapshotted, NEW p \in row.hidden PROVE HiddenAt(p)
      <4>1. p \in HiddenBefore /\ p \in Slides
        BY <3>1, <3>2, UnitAssumption, PagesAreSlides DEF Snapshotted
      <4>2. PageHidden(p)
        <5>1. SUFFICES ASSUME NEW q \in Pages,
                              [page |-> q, version |-> VersionBefore, hidden |-> q \in HiddenBefore].page = p
                       PROVE  [page |-> q, version |-> VersionBefore, hidden |-> q \in HiddenBefore].hidden
          BY <3>1 DEF PageHidden
        <5>2. QED
          BY <4>1, <5>1
      <4>3. segments[p] # "shown"
        BY <3>1, <4>1
      <4>4. QED
        BY <4>2, <4>3 DEF HiddenAt
    <3>3. QED
      BY <3>2 DEF Honoured
  <2>3. QED
    BY <2>1, <2>2 DEF Init
<1>2. RowAgrees
  BY <1>1 DEF RowAgrees
<1>3. ShowingAgrees /\ KeptAgrees
  BY Kinds DEF Init, ShowingAgrees, KeptAgrees, Showing
<1>4. QED
  BY <1>2, <1>3 DEF HiddenOK

----------------------------------------------------------------------------
(* What an ingestion stores *)

\* Every page that is not in S is stored in the version of the upload.
PagesStored(j, S) ==
    \A p \in Pages \ S : \E c \in chunks : c.page = p /\ c.version = req[j].version

\* What an ingestion carries over it looks up after the transcription, and a
\* rename is of interest to it only after its first look.
NotYet ==
    \A j \in Ingestions :
        /\ pc[j] \in {"idle", "snapshot", "transcribe", "check"} => kept[j] = Nobody
        /\ pc[j] \in {"idle", "snapshot"} => renamed[j] = Nobody

\* As long as nothing is deleted, an ingestion whose pages did not fail has
\* stored the ones it is through with, except those its batch lost.
PagesOK ==
    NoDeletion => \A j \in Ingestions : status[j] = "running" /\ kept[j] # Nobody =>
        /\ pc[j] = "insert" => PagesStored(j, todo[j] \cup dropped[j])
        /\ pc[j] \in {"speech", "speak", "range", "segment", "replace", "write", "finish"}
              => PagesStored(j, dropped[j])

\* Names are not given twice: no rename gives a unit a name it had before.
NamesApart == \A r \in Renames : \A j \in (Ingestions \cup Renames) \ {r} : NameOf[j] # NameOf[r]

\* A name that a rename gave is in use only after that rename.
RenamesDone ==
    \A r \in Renames : pc[r] = "idle" =>
        /\ row # Nobody => row.name # NameOf[r]
        /\ \A j \in Ingestions :
              /\ base[j] # NameOf[r]
              /\ latest[j] # Nobody => latest[j].name # NameOf[r]

\* As long as nothing is deleted, the last rename since an ingestion looked is
\* the name of the row, or of the row that it is replacing.
RenamedNow ==
    NoDeletion => \A j \in Ingestions : renamed[j] # Nobody =>
        /\ base[j] # NameOf[renamed[j]]
        /\ pc[j] \in Ingesting \ {"write", "finish"}
              => row # Nobody /\ row.name = NameOf[renamed[j]]
        /\ pc[j] = "write"
              => latest[j] # Nobody /\ latest[j].name = NameOf[renamed[j]]

NamesOK == RenamesDone /\ RenamedNow

\* Chunks are written under the lock, unless they are deleted.
LEMMA ChunksLocked ==
    ASSUME JobsOK, NEW j \in Ingestions \cup Visibilities, Receive(j) \/ Ingest(j) \/ SetVisibility(j),
           NEW i \in Ingestions \ {j}, pc[i] \in Locked
    PROVE  UNCHANGED <<chunks, row>>
<1>1. pc[j] \notin Locked
  BY Kinds DEF JobsOK, LockOwned
<1>2. QED
  BY <1>1 DEF Receive, Ingest, Snapshot, Enter, UpToDate, Outdated, ClearPages, InsertPage, PagesFail,
     ClearSpeech, InsertSpeech, FindRange, Summarise, RemoveRow, WriteRow, Finish, IngestionFails,
     SetVisibility, FindUnit, Close, HidePages, HideSegment, Open, VisibilityFails,
     At, store, Locked, Ingesting, Showing

\* A unit from which nothing is being deleted now had no deletion before.
LEMMA NoDeletionBack ==
    ASSUME JobsOK, [Next]_vars, NoDeletion'
    PROVE  NoDeletion /\ \A d \in Deletions : ~Delete(d)
<1>0. JobTypes /\ \A j \in Jobs : OwnStep(j)
  BY DEF JobsOK
<1>1. ASSUME NEW d \in Deletions, Delete(d) PROVE FALSE
  <2>1. pc'[d] \in {"done"} \cup Deleting
    BY <1>0, <1>1, Kinds DEF Delete, StartDeletion, DeleteChunks, DeleteSpeech, DeleteSegments,
       DeleteRow, DeletionStep, Goto, JobTypes, Deleting
  <2>2. QED
    BY <2>1 DEF NoDeletion, Deleting
<1>2. ASSUME NEW d \in Deletions, pc'[d] = "idle" PROVE pc[d] = "idle"
  <2>1. CASE UNCHANGED vars
    BY <1>2, <2>1 DEF vars
  <2>2. CASE Restart
    BY <1>2, <2>2, Kinds DEF Restart
  <2>3. ASSUME NEW j \in Jobs, j \notin Deletions, Alone(j) PROVE pc[d] = "idle"
    BY <1>2, <2>3, Kinds DEF Alone
  <2>4. QED
    BY <1>1, <2>1, <2>2, <2>3, Kinds, IngestionMoves, RenameMoves, VisibilityMoves DEF Next, Finished
<1>3. QED
  BY <1>1, <1>2 DEF NoDeletion

\* Nothing is carried over too early.
LEMMA NotYetStep ==
    ASSUME JobsOK, NotYet, [Next]_vars
    PROVE  NotYet'
<1>0. JobTypes
  BY DEF JobsOK
<1>1. CASE UNCHANGED vars
  BY <1>1 DEF vars, mine, NotYet
<1>2. CASE Restart
  BY <1>2, Kinds DEF Restart, Forget, NotYet
<1>3. ASSUME NEW j \in Jobs, j \notin Ingestions, Alone(j),
             \/ Rename(j) \/ SetVisibility(j) \/ Delete(j)
      PROVE  NotYet'
  <2>1. \A i \in Ingestions : pc'[i] = pc[i] /\ kept'[i] = kept[i]
    BY <1>3, Kinds DEF Alone
  <2>2. ASSUME NEW i \in Ingestions, pc[i] \in {"idle", "snapshot"}, renamed[i] = Nobody
        PROVE  renamed'[i] = Nobody
    BY <1>3, <2>2 DEF Rename, Delete, StartDeletion, DeleteChunks, DeleteSpeech, DeleteSegments,
       DeleteRow, DeletionStep, SetVisibility, FindUnit, Close, HidePages, HideSegment, Open,
       VisibilityFails, Forget, mine
  <2>3. QED
    BY <2>1, <2>2 DEF NotYet
<1>4. ASSUME NEW j \in Ingestions, Receive(j) \/ Ingest(j) PROVE NotYet'
  <2>1. Alone(j)
    BY <1>4, IngestionMoves
  <2>2. \A i \in Ingestions : renamed'[i] = renamed[i] \/ renamed'[i] = Nobody
    BY <1>0, <1>4 DEF Receive, Ingest, Snapshot, Enter, UpToDate, Outdated, ClearPages, InsertPage,
       PagesFail, ClearSpeech, InsertSpeech, FindRange, Summarise, RemoveRow, WriteRow, Finish,
       IngestionFails, Forget, mine
  <2>3. /\ pc'[j] \in {"idle", "snapshot", "transcribe", "check"} =>
              kept'[j] = kept[j] /\ pc[j] \in {"idle", "snapshot", "transcribe", "check"}
        /\ pc'[j] \in {"idle", "snapshot"} => pc[j] \in {"idle", "snapshot"}
    <3>1. CASE Receive(j) \/ Snapshot(j) \/ Enter(j)
      BY <1>0, <3>1, Kinds DEF Receive, Sent, Snapshot, Enter, At, Goto, JobTypes, mine
    <3>2. CASE Ingest(j) /\ ~Snapshot(j) /\ ~Enter(j)
      <4>1. CASE UpToDate(j) \/ Outdated(j) \/ ClearPages(j) \/ InsertPage(j) \/ PagesFail(j)
        <5>1. pc'[j] \notin {"idle", "snapshot", "transcribe", "check"}
          BY <1>0, <4>1, Kinds DEF UpToDate, Outdated, ClearPages, InsertPage, PagesFail, Goto,
             JobTypes
        <5>2. QED
          BY <5>1
      <4>2. CASE ClearSpeech(j) \/ InsertSpeech(j) \/ FindRange(j) \/ Summarise(j)
        <5>1. pc'[j] \notin {"idle", "snapshot", "transcribe", "check"}
          BY <1>0, <4>2, Kinds DEF ClearSpeech, InsertSpeech, FindRange, Summarise, Goto, JobTypes
        <5>2. QED
          BY <5>1
      <4>3. CASE RemoveRow(j) \/ WriteRow(j) \/ Finish(j) \/ IngestionFails(j)
        <5>1. pc'[j] \notin {"idle", "snapshot", "transcribe", "check"}
          BY <1>0, <4>3, Kinds DEF RemoveRow, WriteRow, Finish, IngestionFails, Goto, JobTypes
        <5>2. QED
          BY <5>1
      <4>4. QED
        BY <3>2, <4>1, <4>2, <4>3 DEF Ingest
    <3>3. QED
      BY <1>4, <3>1, <3>2
  <2>4. QED
    BY <2>1, <2>2, <2>3, Kinds DEF NotYet, Alone
<1>5. QED
  BY <1>1, <1>2, <1>3, <1>4, Kinds, RenameMoves, VisibilityMoves, DeletionMoves DEF Next, Finished

\* Pages that were stored stay until the ingestion is through.
LEMMA PagesStep ==
    ASSUME JobsOK, NotYet, PagesOK, [Next]_vars
    PROVE  PagesOK'
<1>0. JobTypes /\ StoreTypes
  BY DEF JobsOK
<1> SUFFICES ASSUME NoDeletion', NEW i \in Ingestions, status'[i] = "running", kept'[i] # Nobody
             PROVE  /\ pc'[i] = "insert" => PagesStored(i, todo[i] \cup dropped[i])'
                    /\ pc'[i] \in {"speech", "speak", "range", "segment", "replace", "write", "finish"}
                          => PagesStored(i, dropped[i])'
  BY DEF PagesOK
<1>1. /\ NoDeletion /\ \A d \in Deletions : ~Delete(d)
      /\ i \in Jobs
  BY NoDeletionBack, Kinds
<1>2. ASSUME pc'[i] = pc[i], req'[i] = req[i], todo'[i] = todo[i], kept'[i] = kept[i],
             status'[i] = status[i], dropped'[i] = dropped[i], chunks' = chunks \/ pc[i] \notin Locked
      PROVE  /\ pc'[i] = "insert" => PagesStored(i, todo[i] \cup dropped[i])'
             /\ pc'[i] \in {"speech", "speak", "range", "segment", "replace", "write", "finish"}
                   => PagesStored(i, dropped[i])'
  BY <1>1, <1>2 DEF PagesOK, PagesStored, Locked, Ingesting
<1>3. CASE UNCHANGED vars
  BY <1>2, <1>3 DEF vars, store, mine
<1>4. CASE Restart
  <2>1. pc'[i] \in Over \cup {"idle"}
    BY <1>1, <1>4 DEF Restart, Running, Over
  <2>2. QED
    BY <2>1 DEF Over
<1>5. ASSUME NEW j \in Jobs \ {i}, Alone(j), chunks' = chunks \/ pc[i] \notin Locked
      PROVE  /\ pc'[i] = "insert" => PagesStored(i, todo[i] \cup dropped[i])'
             /\ pc'[i] \in {"speech", "speak", "range", "segment", "replace", "write", "finish"}
                   => PagesStored(i, dropped[i])'
  BY <1>1, <1>2, <1>5 DEF Alone
<1>6. ASSUME NEW j \in Renames, Rename(j)
      PROVE  chunks' = chunks /\ Alone(j) /\ j \in Jobs \ {i}
  BY <1>6, RenameMoves, Kinds DEF Rename
<1>7. ASSUME NEW j \in Visibilities, SetVisibility(j)
      PROVE  (chunks' = chunks \/ pc[i] \notin Locked) /\ Alone(j) /\ j \in Jobs \ {i}
  BY <1>7, VisibilityMoves, ChunksLocked, Kinds
<1>8. ASSUME NEW j \in Ingestions \ {i}, Receive(j) \/ Ingest(j)
      PROVE  (chunks' = chunks \/ pc[i] \notin Locked) /\ Alone(j) /\ j \in Jobs \ {i}
  BY <1>8, IngestionMoves, ChunksLocked, Kinds
<1>9. CASE Receive(i) \/ Ingest(i)
  <2>1. CASE \/ Receive(i) \/ Snapshot(i) \/ Enter(i) \/ UpToDate(i)
             \/ Outdated(i) \/ Finish(i) \/ IngestionFails(i)
    <3>1. CASE Enter(i) \/ UpToDate(i)
      <4>1. kept'[i] = Nobody
        BY <3>1 DEF Enter, UpToDate, At, mine, NotYet
      <4>2. QED
        BY <4>1
    <3>2. CASE Receive(i) \/ Snapshot(i) \/ Outdated(i) \/ Finish(i) \/ IngestionFails(i)
      <4>1. pc'[i] \notin {"insert", "speech", "speak", "range", "segment", "replace", "write", "finish"}
        BY <1>0, <1>1, <3>2 DEF Receive, Snapshot, Outdated, Finish, IngestionFails, Goto, JobTypes
      <4>2. QED
        BY <4>1
    <3>3. QED
      BY <2>1, <3>1, <3>2
  <2>2. CASE ClearPages(i)
    <3>1. pc'[i] = "insert" /\ todo'[i] = Pages
      BY <1>0, <1>1, <2>2 DEF ClearPages, Goto, JobTypes
    <3>2. QED
      BY <3>1 DEF PagesStored
  <2>3. CASE InsertPage(i)
    <3>1. PICK p \in todo[i] :
             /\ \/ chunks' = chunks \cup {PageChunk(i, p)} /\ UNCHANGED dropped
                \/ dropped' = [dropped EXCEPT ![i] = @ \cup {p}] /\ UNCHANGED chunks
             /\ todo' = [todo EXCEPT ![i] = @ \ {p}]
             /\ Goto(i, IF todo[i] = {p} THEN "speech" ELSE "insert")
      BY <2>3 DEF InsertPage
    <3>2. /\ pc[i] = "insert" /\ todo'[i] = todo[i] \ {p}
          /\ pc'[i] = IF todo[i] = {p} THEN "speech" ELSE "insert"
          /\ UNCHANGED <<req, kept, status>>
      BY <1>0, <1>1, <2>3, <3>1 DEF InsertPage, At, Goto, JobTypes
    <3>3. PagesStored(i, todo[i] \cup dropped[i])
      BY <1>1, <3>2 DEF PagesOK
    <3>4. PageChunk(i, p).page = p /\ PageChunk(i, p).version = req[i].version
      BY DEF PageChunk
    <3>5. \A q \in Pages \ ((todo[i] \ {p}) \cup dropped'[i]) :
             \E c \in chunks' : c.page = q /\ c.version = req'[i].version
      <4>1. CASE chunks' = chunks \cup {PageChunk(i, p)} /\ UNCHANGED dropped
        BY <3>2, <3>3, <3>4, <4>1 DEF PagesStored
      <4>2. CASE dropped' = [dropped EXCEPT ![i] = @ \cup {p}] /\ UNCHANGED chunks
        <5>1. dropped'[i] = dropped[i] \cup {p}
          BY <1>0, <4>2 DEF JobTypes
        <5>2. QED
          BY <3>2, <3>3, <4>2, <5>1 DEF PagesStored
      <4>3. QED
        BY <3>1, <4>1, <4>2
    <3>6. QED
      BY <3>2, <3>5 DEF PagesStored
  <2>4. CASE PagesFail(i)
    <3>1. status'[i] # "running"
      BY <1>0, <2>4 DEF PagesFail, Report, JobTypes
    <3>2. QED
      BY <3>1
  <2>5. CASE \/ ClearSpeech(i) \/ InsertSpeech(i) \/ FindRange(i) \/ Summarise(i)
             \/ RemoveRow(i) \/ WriteRow(i)
    <3>1. /\ UNCHANGED <<chunks, req, kept, status, dropped>>
          /\ pc[i] \in {"speech", "speak", "range", "segment", "replace", "write"}
          /\ pc'[i] # "insert"
      BY <1>0, <1>1, <2>5 DEF ClearSpeech, InsertSpeech, FindRange, Summarise, RemoveRow, WriteRow,
         At, Goto, JobTypes, mine, store
    <3>2. PagesStored(i, dropped[i])
      BY <1>1, <3>1 DEF PagesOK
    <3>3. QED
      BY <3>1, <3>2 DEF PagesStored
  <2>6. QED
    BY <1>9, <2>1, <2>2, <2>3, <2>4, <2>5 DEF Ingest
<1>10. QED
  BY <1>1, <1>3, <1>4, <1>5, <1>6, <1>7, <1>8, <1>9 DEF Next, Finished

\* Writes to the row that keep its name, and those that give it one.
LEMMA RowNames ==
    ASSUME JobsOK, [Next]_vars
    PROVE  \/ row' = Nobody
           \/ row # Nobody /\ row'.name = row.name
           \/ \E r \in Renames : Rename(r) /\ row # Nobody /\ row'.name = NameOf[r]
           \/ \E j \in Ingestions : WriteRow(j) /\ row'.name = NewName(j)
<1>0. row \in Row \cup {Nobody}
  BY DEF JobsOK, StoreTypes
<1>1. CASE row' = row
  BY <1>1
<1>2. CASE UNCHANGED vars \/ Restart
  BY <1>1, <1>2 DEF vars, store, Restart
<1>3. ASSUME NEW r \in Renames, Rename(r), row # Nobody
      PROVE  row'.name = NameOf[r]
  BY <1>0, <1>3 DEF Rename, Row
<1>4. ASSUME NEW r \in Renames, Rename(r), row = Nobody PROVE row' = row
  BY <1>4 DEF Rename
<1>5. ASSUME NEW j \in Visibilities, SetVisibility(j)
      PROVE  row' = row \/ (row # Nobody /\ row'.name = row.name)
  BY <1>0, <1>5 DEF SetVisibility, FindUnit, Close, HidePages, HideSegment, Open, VisibilityFails,
     Row, store
<1>6. ASSUME NEW j \in Deletions, Delete(j) PROVE row' = row \/ row' = Nobody
  BY <1>6 DEF Delete, StartDeletion, DeleteChunks, DeleteSpeech, DeleteSegments, DeleteRow, Missed, store
<1>7. ASSUME NEW j \in Ingestions, Receive(j) \/ Ingest(j), ~WriteRow(j)
      PROVE  row' = row \/ row' = Nobody
  BY <1>7 DEF Receive, Ingest, Snapshot, Enter, UpToDate, Outdated, ClearPages, InsertPage,
     PagesFail, ClearSpeech, InsertSpeech, FindRange, Summarise, RemoveRow, Finish,
     IngestionFails, store
<1>8. ASSUME NEW j \in Ingestions, WriteRow(j) PROVE row'.name = NewName(j)
  BY <1>8 DEF WriteRow
<1>9. QED
  BY <1>1, <1>2, <1>3, <1>4, <1>5, <1>6, <1>7, <1>8 DEF Next, Finished

\* What an ingestion remembers of the unit comes from the row.
LEMMA Remembered ==
    ASSUME JobsOK, [Next]_vars, NEW j \in Ingestions
    PROVE  /\ \/ base'[j] = base[j] \/ base'[j] = Nobody
              \/ Snapshot(j) /\ row # Nobody /\ base'[j] = row.name
           /\ \/ latest'[j] = latest[j] \/ latest'[j] = Nobody
              \/ RemoveRow(j) /\ latest'[j] = row
<1>0. JobTypes /\ j \in Jobs
  BY Kinds DEF JobsOK
<1>1. CASE UNCHANGED vars
  BY <1>1 DEF vars, mine
<1>2. CASE Restart
  BY <1>0, <1>2 DEF Restart, Forget
<1>3. ASSUME NEW i \in Jobs, i # j, Alone(i) PROVE UNCHANGED <<base[j], latest[j]>>
  BY <1>3 DEF Alone
<1>4. CASE Receive(j) \/ Ingest(j)
  <2>1. CASE Snapshot(j)
    BY <1>0, <2>1 DEF Snapshot, NameNow, JobTypes
  <2>2. CASE RemoveRow(j)
    BY <1>0, <2>2 DEF RemoveRow, JobTypes
  <2>3. CASE Finish(j) \/ IngestionFails(j)
    BY <1>0, <2>3 DEF Finish, IngestionFails, Forget
  <2>4. QED
    BY <1>4, <2>1, <2>2, <2>3 DEF Receive, Ingest, Enter, UpToDate, Outdated, ClearPages,
       InsertPage, PagesFail, ClearSpeech, InsertSpeech, FindRange, Summarise, WriteRow, mine
<1>5. QED
  BY <1>1, <1>2, <1>3, <1>4, Kinds, IngestionMoves, RenameMoves, VisibilityMoves, DeletionMoves
     DEF Next, Finished

\* A name is in use only after the rename that gave it.
LEMMA RenamesDoneStep ==
    ASSUME NamesApart, JobsOK, RenamesDone, [Next]_vars
    PROVE  RenamesDone'
<1> SUFFICES ASSUME NEW r \in Renames, pc'[r] = "idle"
             PROVE  /\ row' # Nobody => row'.name # NameOf[r]
                    /\ \A j \in Ingestions :
                          /\ base'[j] # NameOf[r]
                          /\ latest'[j] # Nobody => latest'[j].name # NameOf[r]
  BY DEF RenamesDone
<1>0. JobTypes /\ r \in Jobs /\ NameOf[r] # Nobody
  BY Kinds, UnitAssumption DEF JobsOK, Names
<1>1. pc[r] = "idle" /\ ~Rename(r)
  <2>1. ~Rename(r)
    BY <1>0 DEF Rename, Goto, JobTypes
  <2>2. CASE UNCHANGED vars
    BY <2>2, <2>1 DEF vars
  <2>3. CASE Restart
    BY <1>0, <2>1, <2>3 DEF Restart
  <2>4. ASSUME NEW j \in Jobs, j # r, Alone(j) PROVE pc[r] = "idle"
    BY <1>0, <2>4 DEF Alone
  <2>5. QED
    BY <2>1, <2>2, <2>3, <2>4, Kinds, IngestionMoves, RenameMoves, VisibilityMoves, DeletionMoves
       DEF Next, Finished
<1>2. /\ row # Nobody => row.name # NameOf[r]
      /\ \A j \in Ingestions :
            /\ base[j] # NameOf[r]
            /\ latest[j] # Nobody => latest[j].name # NameOf[r]
  BY <1>1 DEF RenamesDone
<1>3. row' # Nobody => row'.name # NameOf[r]
  <2>1. ASSUME NEW s \in Renames, Rename(s) PROVE NameOf[s] # NameOf[r]
    BY <1>1, <2>1 DEF NamesApart
  <2>2. ASSUME NEW j \in Ingestions PROVE NewName(j) # NameOf[r]
    <3>1. NameOf[j] # NameOf[r]
      BY Kinds DEF NamesApart
    <3>2. QED
      BY <1>0, <1>2, <3>1 DEF NewName
  <2>3. QED
    BY <1>2, <2>1, <2>2, RowNames
<1>4. ASSUME NEW j \in Ingestions
      PROVE  base'[j] # NameOf[r] /\ (latest'[j] # Nobody => latest'[j].name # NameOf[r])
  BY <1>0, <1>2, Remembered
<1>5. QED
  BY <1>3, <1>4

\* The last rename since an ingestion looked is the name it finds at its end.
LEMMA RenamedNowStep ==
    ASSUME JobsOK, NotYet, NamesOK, [Next]_vars
    PROVE  RenamedNow'
<1> SUFFICES ASSUME NoDeletion', NEW i \in Ingestions, renamed'[i] # Nobody
             PROVE  /\ base'[i] # NameOf[renamed'[i]]
                    /\ pc'[i] \in Ingesting \ {"write", "finish"}
                          => row' # Nobody /\ row'.name = NameOf[renamed'[i]]
                    /\ pc'[i] = "write"
                          => latest'[i] # Nobody /\ latest'[i].name = NameOf[renamed'[i]]
  BY DEF RenamedNow
<1>0. /\ JobTypes /\ StoreTypes /\ i \in Jobs
      /\ NoDeletion /\ \A d \in Deletions : ~Delete(d)
  BY NoDeletionBack, Kinds DEF JobsOK
<1>1. renamed[i] # Nobody =>
        /\ base[i] # NameOf[renamed[i]]
        /\ pc[i] \in Ingesting \ {"write", "finish"}
              => row # Nobody /\ row.name = NameOf[renamed[i]]
        /\ pc[i] = "write"
              => latest[i] # Nobody /\ latest[i].name = NameOf[renamed[i]]
  BY <1>0 DEF NamesOK, RenamedNow
<1>2. CASE UNCHANGED vars
  BY <1>1, <1>2 DEF vars, store, mine
<1>3. CASE Restart
  <2>1. pc'[i] \in Over \cup {"idle"} /\ renamed'[i] = renamed[i] /\ base'[i] = base[i]
    BY <1>0, <1>3 DEF Restart, Running, Over, Forget
  <2>2. QED
    BY <1>1, <2>1 DEF Over, Ingesting
<1>4. ASSUME NEW r \in Renames, Rename(r)
      PROVE  /\ base'[i] # NameOf[renamed'[i]]
             /\ pc'[i] \in Ingesting \ {"write", "finish"}
                   => row' # Nobody /\ row'.name = NameOf[renamed'[i]]
             /\ pc'[i] = "write"
                   => latest'[i] # Nobody /\ latest'[i].name = NameOf[renamed'[i]]
  <2>1. /\ pc'[i] = pc[i] /\ base'[i] = base[i] /\ latest'[i] = latest[i]
        /\ pc[r] = "idle" /\ lock = Nobody
    BY <1>0, <1>4, Kinds, RenameMoves DEF Rename, Sent, Alone
  <2>2. CASE row = Nobody
    BY <1>1, <1>4, <2>1, <2>2 DEF Rename
  <2>3. CASE row # Nobody
    <3>1. row' = [row EXCEPT !.name = NameOf[r]] /\ row' \in Row
      <4>1. NameOf[r] \in Names /\ row \in Row
        BY <1>0, <2>3 DEF Names, StoreTypes
      <4>2. QED
        BY <1>4, <2>3, <4>1 DEF Rename, Row
    <3>2. row' # Nobody /\ row'.name = NameOf[r]
      BY <1>0, <2>3, <3>1, UnitAssumption DEF StoreTypes, Row
    <3>3. pc[i] \notin Locked
      BY <1>0, <2>1, Kinds DEF JobsOK, LockOwned
    <3>4. CASE pc[i] \in Over \cup {"idle", "snapshot"}
      <4>1. renamed'[i] = renamed[i]
        BY <1>4, <2>3, <3>4 DEF Rename
      <4>2. pc[i] # "snapshot"
        BY <4>1 DEF NotYet
      <4>3. QED
        BY <1>1, <2>1, <3>4, <4>1, <4>2 DEF Over, Ingesting
    <3>5. CASE pc[i] \notin Over \cup {"idle", "snapshot"}
      <4>1. renamed'[i] = r
        BY <1>4, <2>3, <3>5 DEF Rename
      <4>2. base[i] # NameOf[r]
        BY <2>1 DEF NamesOK, RenamesDone
      <4>3. pc[i] # "write"
        BY <3>3 DEF Locked, Ingesting
      <4>4. QED
        BY <2>1, <3>2, <4>1, <4>2, <4>3
    <3>6. QED
      BY <3>4, <3>5
  <2>4. QED
    BY <2>2, <2>3
<1>5. ASSUME NEW j \in Jobs \ {i}, Alone(j), renamed'[i] = renamed[i],
             pc[i] \in Ingesting => row' = row \/ (row' # Nobody /\ row'.name = row.name)
      PROVE  /\ base'[i] # NameOf[renamed'[i]]
             /\ pc'[i] \in Ingesting \ {"write", "finish"}
                   => row' # Nobody /\ row'.name = NameOf[renamed'[i]]
             /\ pc'[i] = "write"
                   => latest'[i] # Nobody /\ latest'[i].name = NameOf[renamed'[i]]
  BY <1>0, <1>1, <1>5 DEF Alone
<1>6. ASSUME NEW j \in Visibilities, SetVisibility(j)
      PROVE  /\ j \in Jobs \ {i} /\ Alone(j) /\ renamed'[i] = renamed[i]
             /\ row' = row \/ (row' # Nobody /\ row'.name = row.name)
  <2>1. row' = row \/ (row' # Nobody /\ row'.name = row.name)
    <3>1. row' \in Row \cup {Nobody}
      BY <1>6, VisibilityMoves DEF JobsOK, StoreTypes
    <3>2. row' = row \/ (row # Nobody /\ row'.name = row.name /\ row' \in Row)
      <4>1. ASSUME Close(j) PROVE row' \in Row /\ row'.name = row.name
        <5>1. row \in Row /\ row' = [row EXCEPT !.open = FALSE, !.hidden = Snap(j)]
          BY <1>0, <4>1 DEF Close, StoreTypes
        <5>2. Snap(j) \subseteq Pages
          BY <4>1, <5>1, Kinds, UnitAssumption DEF Close, At, JobsOK, AtWork, Hiding, Snap, Row
        <5>3. QED
          BY <5>1, <5>2 DEF Row
      <4>2. ASSUME Open(j) PROVE row' \in Row /\ row'.name = row.name
        <5>1. row \in Row /\ row' = [row EXCEPT !.open = req[j].open]
          BY <1>0, <4>2 DEF Open, StoreTypes
        <5>2. req[j] \in Hiding
          BY <4>2, Kinds, UnitAssumption DEF Open, At, JobsOK, AtWork, Showing
        <5>3. QED
          BY <5>1, <5>2 DEF Row, Hiding
      <4>3. QED
        BY <1>6, <4>1, <4>2 DEF SetVisibility, FindUnit, Close, HidePages, HideSegment, Open,
           VisibilityFails, store
    <3>3. QED
      BY <3>2, UnitAssumption
  <2>2. renamed'[i] = renamed[i]
    BY <1>6, Kinds DEF SetVisibility, FindUnit, Close, HidePages, HideSegment, Open, VisibilityFails,
       Forget, mine
  <2>3. QED
    BY <1>6, <2>1, <2>2, VisibilityMoves, Kinds
<1>7. ASSUME NEW j \in Ingestions \ {i}, Receive(j) \/ Ingest(j)
      PROVE  /\ j \in Jobs \ {i} /\ Alone(j) /\ renamed'[i] = renamed[i]
             /\ pc[i] \in Ingesting => row' = row
  <2>1. renamed'[i] = renamed[i]
    BY <1>0, <1>7 DEF Receive, Ingest, Snapshot, Enter, UpToDate, Outdated, ClearPages, InsertPage,
       PagesFail, ClearSpeech, InsertSpeech, FindRange, Summarise, RemoveRow, WriteRow, Finish,
       IngestionFails, Forget, mine
  <2>2. ASSUME pc[i] \in Ingesting PROVE row' = row
    <3>1. pc[j] \notin Ingesting
      BY <2>2, Kinds DEF JobsOK, AtWork
    <3>2. QED
      BY <1>7, <3>1 DEF Receive, Ingest, Snapshot, Enter, UpToDate, Outdated, ClearPages, InsertPage,
         PagesFail, ClearSpeech, InsertSpeech, FindRange, Summarise, RemoveRow, WriteRow, Finish,
         IngestionFails, At, store, Ingesting
  <2>3. QED
    BY <1>7, <2>1, <2>2, IngestionMoves, Kinds
<1>8. CASE Receive(i) \/ Ingest(i)
  <2>1. CASE Receive(i) \/ Snapshot(i)
    <3>1. renamed[i] = Nobody
      BY <2>1 DEF Receive, Sent, Snapshot, At, NotYet
    <3>2. QED
      BY <2>1, <3>1 DEF Receive, Snapshot
  <2>2. CASE Finish(i) \/ IngestionFails(i)
    BY <2>2 DEF Finish, IngestionFails, Forget
  <2>3. CASE RemoveRow(i)
    <3>1. /\ pc[i] = "replace" /\ pc'[i] = "write" /\ latest'[i] = row
          /\ UNCHANGED <<base, renamed>>
      BY <1>0, <2>3 DEF RemoveRow, At, Goto, JobTypes
    <3>2. QED
      BY <1>1, <3>1 DEF Ingesting
  <2>4. CASE WriteRow(i)
    <3>1. pc'[i] = "finish" /\ UNCHANGED <<base, renamed>>
      BY <1>0, <2>4 DEF WriteRow, Goto, JobTypes, mine
    <3>2. QED
      BY <1>1, <3>1
  <2>5. CASE \/ Enter(i) \/ UpToDate(i) \/ Outdated(i) \/ ClearPages(i) \/ InsertPage(i)
             \/ PagesFail(i) \/ ClearSpeech(i) \/ InsertSpeech(i) \/ FindRange(i) \/ Summarise(i)
    <3>1. /\ pc[i] \in Ingesting \ {"write", "finish"} /\ pc'[i] # "write"
          /\ UNCHANGED <<row, base, renamed>>
      BY <1>0, <2>5 DEF Enter, UpToDate, Outdated, ClearPages, InsertPage, PagesFail, ClearSpeech,
         InsertSpeech, FindRange, Summarise, At, Goto, JobTypes, store, mine, Ingesting
    <3>2. QED
      BY <1>1, <3>1
  <2>6. QED
    BY <1>8, <2>1, <2>2, <2>3, <2>4, <2>5 DEF Ingest
<1>9. QED
  BY <1>0, <1>2, <1>3, <1>4, <1>5, <1>6, <1>7, <1>8 DEF Next, Finished

LEMMA InitStored ==
    ASSUME Init
    PROVE  NotYet /\ PagesOK /\ RenamedNow
BY Kinds DEF Init, NotYet, PagesOK, RenamedNow

LEMMA InitNames ==
    ASSUME Init, NamesApart
    PROVE  RenamesDone
<1>1. ASSUME NEW r \in Renames PROVE NameOf[r] # Nobody
  BY UnitAssumption DEF Names
<1>2. ASSUME NEW r \in Renames, row # Nobody PROVE row.name # NameOf[r]
  <2>1. Stored
    BY <1>2 DEF Init, Empty
  <2>2. PICK j \in Ingestions, snap \in {Nobody, HiddenBefore} :
           row = [name |-> NameOf[j], open |-> TRUE, hidden |-> snap]
    BY <2>1 DEF Stored
  <2>3. QED
    BY <2>2, Kinds DEF NamesApart
<1>3. QED
  BY <1>1, <1>2 DEF Init, RenamesDone

----------------------------------------------------------------------------
(* The invariants and what follows from them *)

LEMMA JobsHold == Spec => []JobsOK
BY InitJobs, JobsStep, PTL DEF Spec

LEMMA HistoriesHold == Spec => []HistoryTypes
<1>1. Init => HistoryTypes
  BY UnitAssumption DEF Init, HistoryTypes
<1>2. QED
  BY <1>1, HistoryStep, JobsHold, PTL DEF Spec

\* Every variable keeps its type, however jobs overlap, fail and restart.
THEOREM UnitTyped == Spec => []TypeOK
<1>1. JobsOK /\ HistoryTypes => TypeOK
  BY TypeParts DEF JobsOK
<1>2. QED
  BY <1>1, JobsHold, HistoriesHold, PTL

\* A released unit shows no slide that its row says is hidden, neither in its
\* pages nor in its summaries, whatever slides the requests list and whatever
\* fails: except slides torn by a request that failed and listed by none since,
\* and summaries made of slides without a page.
THEOREM HiddenStays == Spec => []ReleasedStaysHidden
<1>1. JobsOK /\ HiddenOK => ReleasedStaysHidden
  BY DEF HiddenOK, RowAgrees, ShowingAgrees, ReleasedStaysHidden, Honoured, HiddenAt, PageHidden,
     Snapshotted
<1>2. JobsOK /\ HiddenOK /\ [Next]_vars => HiddenOK'
  BY HiddenStep
<1>3. Init => HiddenOK
  BY InitHidden
<1>4. QED
  BY <1>1, <1>2, <1>3, JobsHold, PTL DEF Spec

----------------------------------------------------------------------------
(* What a step may never do *)

\* Only its last step reports an ingestion as finished.
LEMMA FinishedOnce ==
    ASSUME JobsOK, [Next]_vars, NEW j \in Ingestions, status[j] # "finished", status'[j] = "finished"
    PROVE  Finish(j) /\ status[j] = "running"
<1>0. JobTypes /\ j \in Jobs /\ status[j] # status'[j]
  BY Kinds DEF JobsOK
<1>1. ~UNCHANGED vars /\ ~Restart
  BY <1>0 DEF vars, mine, Restart
<1>2. ASSUME NEW i \in Jobs, i # j, Alone(i) PROVE FALSE
  BY <1>0, <1>2 DEF Alone
<1>3. Receive(j) \/ Ingest(j)
  BY <1>1, <1>2, Kinds, IngestionMoves, RenameMoves, VisibilityMoves, DeletionMoves
     DEF Next, Finished
<1>4. UNCHANGED status \/ Report(j, "failed") \/ Finish(j)
  BY <1>3 DEF Receive, Ingest, Snapshot, Enter, UpToDate, Outdated, ClearPages, InsertPage,
     PagesFail, ClearSpeech, InsertSpeech, FindRange, Summarise, RemoveRow, WriteRow,
     IngestionFails, mine
<1>5. ~UNCHANGED status /\ ~Report(j, "failed")
  BY <1>0 DEF Report, JobTypes
<1>6. QED
  BY <1>0, <1>4, <1>5 DEF Finish, Report, JobTypes

\* An ingestion that replaced the pages and is reported as finished has stored
\* every page of its version, whatever failed, except the pages its own batch lost
\* without a word and unless a deletion was sent.
THEOREM FinishedWithPages == Spec => FinishedHasPages
<1>1. JobsOK /\ NotYet /\ PagesOK /\ [Next]_vars =>
        [ \A j \in Ingestions :
            /\ status[j] # "finished" /\ status'[j] = "finished"
            /\ kept[j] # Nobody /\ NoDeletion
            => \A p \in Pages \ dropped[j] :
                 \E c \in chunks : c.page = p /\ c.version = req[j].version ]_vars
  <2>1. SUFFICES ASSUME JobsOK, PagesOK, [Next]_vars, NEW j \in Ingestions,
                        status[j] # "finished", status'[j] = "finished", kept[j] # Nobody, NoDeletion
                 PROVE  \A p \in Pages \ dropped[j] :
                          \E c \in chunks : c.page = p /\ c.version = req[j].version
    OBVIOUS
  <2>2. pc[j] = "finish" /\ status[j] = "running"
    BY <2>1, FinishedOnce DEF Finish, At
  <2>3. QED
    BY <2>1, <2>2 DEF PagesOK, PagesStored
<1>2. JobsOK /\ NotYet /\ PagesOK /\ [Next]_vars => NotYet' /\ PagesOK'
  BY NotYetStep, PagesStep
<1>3. Init => NotYet /\ PagesOK
  BY InitStored
<1>4. QED
  BY <1>1, <1>2, <1>3, JobsHold, PTL DEF Spec, FinishedHasPages

\* A rename accepted after an ingestion looked at the unit survives the row which
\* that ingestion writes, unless a deletion was sent: for any number of renames
\* that give a unit no name it had before.
THEOREM RenamesSurvive ==
    ASSUME NamesApart
    PROVE  Spec => RenameKept
<1>1. JobsOK /\ NotYet /\ NamesOK =>
        [ \A j \in Ingestions :
            WriteRow(j) /\ NoDeletion /\ renamed[j] # Nobody => row'.name = NameOf[renamed[j]] ]_vars
  <2>1. SUFFICES ASSUME NamesOK, NEW j \in Ingestions, WriteRow(j), NoDeletion, renamed[j] # Nobody
                 PROVE  row'.name = NameOf[renamed[j]]
    OBVIOUS
  <2>2. row'.name = NewName(j) /\ pc[j] = "write"
    BY <2>1 DEF WriteRow, At
  <2>3. /\ base[j] # NameOf[renamed[j]]
        /\ latest[j] # Nobody /\ latest[j].name = NameOf[renamed[j]]
    BY <2>1, <2>2 DEF NamesOK, RenamedNow
  <2>4. QED
    BY <2>2, <2>3 DEF NewName
<1>2. JobsOK /\ NotYet /\ NamesOK /\ [Next]_vars => NotYet' /\ NamesOK'
  BY NotYetStep, RenamesDoneStep, RenamedNowStep DEF NamesOK
<1>3. Init => NotYet /\ NamesOK
  BY InitStored, InitNames DEF NamesOK
<1>4. QED
  BY <1>1, <1>2, <1>3, JobsHold, PTL DEF Spec, RenameKept
=============================================================================

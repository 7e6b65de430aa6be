---------------------------- MODULE LectureUnit ----------------------------
(***************************************************************************)
(* One lecture unit of Artemis in the vector database of Iris: its page    *)
(* chunks, its transcription, the segment summaries and its row in the     *)
(* unit collection.  Webhooks of Artemis start jobs that write them:       *)
(*                                                                         *)
(*   ingestion   a thread that transcribes without the unit's lock and     *)
(*               then replaces everything under it;                        *)
(*   metadata    renames the unit, under the lock;                         *)
(*   visibility  hides and shows slides and sets the release, under the    *)
(*               lock, closing the unit first and opening it last;         *)
(*   deletion    a thread that empties the four collections one after the  *)
(*               other and takes no lock.                                  *)
(*                                                                         *)
(* Any write or call of a language model may fail where the code says what *)
(* happens then, and the process may be restarted: its threads and locks   *)
(* are gone, the collections stay.  The lock of batch updates is only ever *)
(* taken inside the lock of the unit, around one of the steps below.       *)
(***************************************************************************)
EXTENDS Integers, FiniteSets

CONSTANTS
  LastPage,      \* the unit's slides are 1..LastPage
  Versions,      \* the versions of the attachment
  Ingestions,    \* the requests of each kind, each sent at most once
  Renames,
  Visibilities,
  Deletions,
  NameOf,        \* the metadata an ingestion or a rename carries
  Uploads,       \* what each ingestion may bring: version, pages or not, speech or not
  Hidings,       \* what each visibility request may say: slides listed, hidden, release
  VersionBefore, \* the version stored when it begins, if anything is,
  HiddenBefore,  \* and the slides hidden in it
  DefaultLimit,  \* how many objects a query without a limit returns
  MaxJobs,       \* how many of the requests are sent
  MaxFailures,   \* how often a write or a call fails, or the process is restarted
  Nobody         \* no job, no row, no name, no snapshot

Pages == 1..LastPage
Slides == 0..LastPage    \* a unit without any slide is summarised as slide 0
Jobs  == Ingestions \cup Renames \cup Visibilities \cup Deletions
Names == {NameOf[j] : j \in Ingestions \cup Renames}

(* A row written before there were snapshots has none. *)
Row    == [name : Names \cup {Nobody}, open : BOOLEAN, hidden : (SUBSET Pages) \cup {Nobody}]
Upload == [version : Versions, pdf : BOOLEAN, video : BOOLEAN]
(* Whether a slide is hidden is said where the slide is listed. *)
Hiding == {h \in [listed : SUBSET Pages, hide : SUBSET Pages, open : BOOLEAN] :
             h.hide \subseteq h.listed}

ASSUME UnitAssumption ==
  /\ LastPage \in Nat \ {0}
  /\ Versions \subseteq Nat
  /\ Ingestions \cap (Renames \cup Visibilities \cup Deletions) = {}
  /\ Renames \cap (Visibilities \cup Deletions) = {}
  /\ Visibilities \cap Deletions = {}
  /\ NameOf \in [Ingestions \cup Renames -> Names]
  /\ Uploads \in [Ingestions -> SUBSET Upload]
  /\ Hidings \in [Visibilities -> SUBSET Hiding]
  /\ MaxJobs \in Nat /\ MaxFailures \in Nat
  /\ VersionBefore \in Versions /\ HiddenBefore \subseteq Pages
  /\ DefaultLimit \in Nat \ {0}
  /\ Nobody \notin Jobs \cup Names
  /\ Nobody \notin Row /\ \A s \in SUBSET Pages : s # Nobody

VARIABLES
  chunks,   \* the page chunks stored: page, version of the attachment, hidden
  spoken,   \* the slides the stored transcription speaks about
  segments, \* the segment summary of each slide: none, shown or hidden
  row,      \* the unit's row: name, open (released), hidden (the snapshot)
  lock,     \* the job that holds the unit's update lock
  thread,   \* the ingestion job_list remembers for the unit
  pc,       \* what each job does next
  req,      \* what each request asked for
  todo,     \* the pages a job has still to write
  kept,     \* the hidden pages an ingestion carries over, Nobody before it looked
  base,     \* the name an ingestion found before it transcribed
  latest,   \* the row an ingestion is replacing
  status,   \* what the job reported to Artemis: running, finished or failed
  renamed,  \* history: the last rename accepted since the ingestion looked
  dropped,  \* history: the pages an ingestion's batch lost without a word
  failures, \* how often something has failed
  torn,     \* history: the slides a request hid in the row but not where they are
  blind     \* history: the slides summarised while no chunk of theirs was stored

store == <<chunks, spoken, segments, row>>
past  == <<failures, torn, blind>>
mine  == <<req, todo, kept, base, latest, status, renamed, dropped>>
vars  == <<store, lock, thread, pc, mine, past>>

Chunk   == [page : Pages, version : Versions, hidden : BOOLEAN]
Over    == {"done", "dead", "dropped"}
Running == {j \in Jobs : pc[j] \notin Over \cup {"idle"}}

Sent(j)         == pc[j] = "idle" /\ Cardinality({i \in Jobs : pc[i] # "idle"}) < MaxJobs
At(j, step)     == pc[j] = step
Goto(j, step)   == pc' = [pc EXCEPT ![j] = step]
NameNow         == IF row = Nobody THEN Nobody ELSE row.name
Snapshotted     == row # Nobody /\ row.hidden # Nobody
(* What a thread or a webhook knew is gone with it. *)
Forget(gone) ==
  /\ req'     = [j \in Jobs |-> IF j \in gone THEN Nobody ELSE req[j]]
  /\ todo'    = [j \in Jobs |-> IF j \in gone THEN {} ELSE todo[j]]
  /\ kept'    = [j \in Ingestions |-> IF j \in gone THEN Nobody ELSE kept[j]]
  /\ base'    = [j \in Ingestions |-> IF j \in gone THEN Nobody ELSE base[j]]
  /\ latest'  = [j \in Ingestions |-> IF j \in gone THEN Nobody ELSE latest[j]]
  /\ renamed' = [j \in Ingestions |-> IF j \in gone THEN Nobody ELSE renamed[j]]
  /\ dropped' = [j \in Ingestions |-> IF j \in gone THEN {} ELSE dropped[j]]
(* Something fails. *)
Fail == failures < MaxFailures /\ failures' = failures + 1
Succeed == UNCHANGED failures

(* Mutant: a report after the final one is sent as well. *)
Report_Again(j, what) == status' = [status EXCEPT ![j] = what]

Report(j, what) == status' = [status EXCEPT ![j] = IF @ = "running" THEN what ELSE @]

(***************************************************************************)
(* Nothing stored, or one version stored and open, its visibility in the   *)
(* row, too, or by a program that had it in the chunks only.               *)
(***************************************************************************)
Empty == chunks = {} /\ spoken = {} /\ row = Nobody /\ segments = [p \in Slides |-> "none"]

Stored ==
  \E j \in Ingestions, snap \in {Nobody, HiddenBefore} :
    /\ chunks   = {[page |-> p, version |-> VersionBefore, hidden |-> p \in HiddenBefore] :
                     p \in Pages}
    /\ spoken   = Pages
    /\ segments = [p \in Slides |-> IF p = 0 THEN "none"
                                    ELSE IF p \in HiddenBefore THEN "hidden" ELSE "shown"]
    /\ row      = [name |-> NameOf[j], open |-> TRUE, hidden |-> snap]

Init ==
  /\ Empty \/ Stored
  /\ lock = Nobody /\ thread = Nobody
  /\ pc      = [j \in Jobs |-> "idle"]
  /\ req     = [j \in Jobs |-> Nobody]
  /\ todo    = [j \in Jobs |-> {}]
  /\ kept    = [j \in Ingestions |-> Nobody]
  /\ base    = [j \in Ingestions |-> Nobody]
  /\ latest  = [j \in Ingestions |-> Nobody]
  /\ status  = [j \in Ingestions \cup Deletions |-> "running"]
  /\ renamed = [j \in Ingestions |-> Nobody]
  /\ dropped = [j \in Ingestions |-> {}]
  /\ failures = 0 /\ torn = {} /\ blind = {}

-----------------------------------------------------------------------------
(***************************************************************************)
(* Ingestion.  The webhook hands the thread to the job handler, which      *)
(* drops it if the thread it remembers for the unit is still alive.        *)
(***************************************************************************)
Alive(j) == j \in Ingestions /\ pc[j] \notin Over

Receive(j) ==
  /\ Sent(j)
  /\ \/ /\ Alive(thread)
        /\ Goto(j, "dropped")
        /\ UNCHANGED <<thread, req>>
     \/ /\ ~Alive(thread)
        /\ \E upload \in Uploads[j] : req' = [req EXCEPT ![j] = upload]
        /\ thread' = j
        /\ Goto(j, "snapshot")
  /\ UNCHANGED <<store, lock, todo, kept, base, latest, status, renamed, dropped, past>>

(* The name is read under the lock, which is left for the transcription.   *)
Snapshot(j) ==
  /\ At(j, "snapshot") /\ lock = Nobody
  /\ base' = [base EXCEPT ![j] = NameNow]
  /\ Goto(j, "transcribe")
  /\ UNCHANGED <<store, lock, thread, req, todo, kept, latest, status, renamed, dropped, past>>

(* The transcription is done and the lock taken again. *)
Enter(j) ==
  /\ At(j, "transcribe") /\ lock = Nobody
  /\ lock' = j
  /\ Goto(j, IF req[j].pdf THEN "check" ELSE "speech")
  /\ UNCHANGED <<store, thread, mine, past>>

(* Mutant: the pages are replaced without the visibility of the old ones. *)
Hidden_Forgotten(h) == h = {}

(* What was hidden: the row's snapshot, or without one any chunk of a page. *)
Hidden(h) ==
  IF Snapshotted THEN h = row.hidden
  ELSE \A p \in Pages :
         LET own == {c \in chunks : c.page = p}
         IN  IF own = {} THEN p \notin h ELSE \E c \in own : c.hidden <=> p \in h

(* One stored chunk, whichever the query returns, tells the version. *)
UpToDate(j) ==
  /\ At(j, "check")
  /\ \E c \in chunks : c.version >= req[j].version
  /\ Goto(j, "speech")
  /\ UNCHANGED <<store, lock, thread, mine, past>>

Outdated(j) ==
  /\ At(j, "check")
  /\ chunks = {} \/ \E c \in chunks : c.version < req[j].version
  /\ \E h \in SUBSET Pages : Hidden(h) /\ kept' = [kept EXCEPT ![j] = h]
  /\ Goto(j, "clear")
  /\ UNCHANGED <<store, lock, thread, req, todo, base, latest, status, renamed, dropped, past>>

(* A deletion that fails is logged, and its result is not looked at. *)
ClearPages(j) ==
  /\ At(j, "clear")
  /\ \/ chunks' = {} /\ Succeed
     \/ Fail /\ UNCHANGED chunks
  /\ todo' = [todo EXCEPT ![j] = Pages]
  /\ Goto(j, "insert")
  /\ UNCHANGED <<spoken, segments, row, lock, thread, req, kept, base, latest, status, renamed,
                dropped, torn, blind>>

(* Mutant: pages numbered from zero. *)
PageChunk_FromZero(j, p) ==
  [page |-> p - 1, version |-> req[j].version, hidden |-> p \in kept[j]]

PageChunk(j, p) == [page |-> p, version |-> req[j].version, hidden |-> p \in kept[j]]

(* The pages are embedded and sent in their order, in a batch that collects *)
(* the objects it could not store: nobody asks it for them.                 *)
InsertPage(j) ==
  /\ At(j, "insert")
  /\ \E p \in todo[j] :
       /\ \A q \in todo[j] : p <= q
       /\ \/ chunks' = chunks \cup {PageChunk(j, p)} /\ UNCHANGED dropped /\ Succeed
          \/ Fail /\ dropped' = [dropped EXCEPT ![j] = @ \cup {p}] /\ UNCHANGED chunks
       /\ todo' = [todo EXCEPT ![j] = @ \ {p}]
       /\ Goto(j, IF todo[j] = {p} THEN "speech" ELSE "insert")
  /\ UNCHANGED <<spoken, segments, row, lock, thread, req, kept, base, latest, status, renamed,
                torn, blind>>

(***************************************************************************)
(* An exception while pages are ingested is reported as the failure of the *)
(* run, and the run goes on with the transcription.                        *)
(***************************************************************************)
PagesFail(j) ==
  /\ Fail /\ pc[j] \in {"check", "clear", "insert"}
  /\ Report(j, "failed")
  /\ todo' = [todo EXCEPT ![j] = {}]
  /\ Goto(j, "speech")
  /\ UNCHANGED <<store, lock, thread, req, kept, base, latest, renamed, dropped, torn, blind>>

ClearSpeech(j) ==
  /\ At(j, "speech")
  /\ Goto(j, IF req[j].video THEN "speak" ELSE "range")
  /\ spoken' = IF req[j].video THEN {} ELSE spoken
  /\ UNCHANGED <<chunks, segments, row, lock, thread, mine, past>>

InsertSpeech(j) ==
  /\ At(j, "speak")
  /\ \/ spoken' = Pages /\ Succeed
     \/ Fail /\ spoken' \in (SUBSET Pages) \ {Pages}
  /\ Goto(j, "range")
  /\ UNCHANGED <<chunks, segments, row, lock, thread, mine, torn, blind>>

(* What a query without a limit may return of some objects. *)
Found(objects) ==
  {some \in SUBSET objects :
     some = objects \/ (Cardinality(objects) > DefaultLimit /\ Cardinality(some) = DefaultLimit)}

(* From the first to the last slide of some chunks, or of the transcription. *)
SlideRange(found) ==
  IF found = {} THEN {0} ELSE {p \in Pages : \E a, b \in found : a <= p /\ p <= b}

FindRange(j) ==
  /\ At(j, "range")
  /\ \/ \E some \in Found(chunks) :
          chunks # {} /\ todo' = [todo EXCEPT ![j] = SlideRange({c.page : c \in some})]
     \/ \E some \in Found(spoken) :
          chunks = {} /\ todo' = [todo EXCEPT ![j] = SlideRange(some)]
  /\ Goto(j, "segment")
  /\ UNCHANGED <<store, lock, thread, req, kept, base, latest, status, renamed, dropped, past>>

(* A summary is hidden like the first chunk of its slide found, if any is. *)
Summarise(j) ==
  /\ At(j, "segment")
  /\ \E p \in todo[j], hide \in BOOLEAN :
       LET own == {c \in chunks : c.page = p}
       IN  /\ \A q \in todo[j] : p <= q
           /\ IF own = {} THEN ~hide ELSE \E c \in own : c.hidden <=> hide
           /\ segments' = [segments EXCEPT ![p] = IF hide THEN "hidden" ELSE "shown"]
           /\ blind' = IF own = {} THEN blind \cup ({p} \cap Pages) ELSE blind \ {p}
           /\ todo' = [todo EXCEPT ![j] = @ \ {p}]
           /\ Goto(j, IF todo[j] = {p} THEN "replace" ELSE "segment")
  /\ UNCHANGED <<chunks, spoken, row, lock, thread, req, kept, base, latest, status, renamed,
                dropped, failures, torn>>

RemoveRow(j) ==
  /\ At(j, "replace")
  /\ latest' = [latest EXCEPT ![j] = row]
  /\ row' = Nobody
  /\ Goto(j, "write")
  /\ UNCHANGED <<chunks, spoken, segments, lock, thread, req, todo, kept, base, status, renamed,
                dropped, past>>

(* Mutant: the incoming name is written. *)
NewName_Incoming(j) == NameOf[j]

(* The stored name wins over the incoming one if it is not the one found    *)
(* before the transcription; release and snapshot are carried over.         *)
NewName(j) ==
  LET was == IF latest[j] = Nobody THEN Nobody ELSE latest[j].name
  IN  IF was # base[j] THEN was ELSE NameOf[j]

WriteRow(j) ==
  /\ At(j, "write")
  /\ row' = [name   |-> NewName(j),
             open   |-> IF latest[j] = Nobody THEN TRUE ELSE latest[j].open,
             hidden |-> IF latest[j] = Nobody THEN {} ELSE latest[j].hidden]
  /\ Goto(j, "finish")
  /\ UNCHANGED <<chunks, spoken, segments, lock, thread, mine, past>>

Finish(j) ==
  /\ At(j, "finish")
  /\ Report(j, "finished")
  /\ lock' = Nobody
  /\ Goto(j, "done") /\ Forget({j})
  /\ UNCHANGED <<store, thread, past>>

(* Mutant: the lock is left by a run that succeeds only. *)
LeaveLock_OnSuccess(j) == UNCHANGED lock

LeaveLock(j) == lock' = IF lock = j THEN Nobody ELSE lock

(* Any other exception ends the run: it is reported and the lock is left. *)
IngestionFails(j) ==
  /\ Fail
  /\ pc[j] \in {"snapshot", "transcribe", "speech", "speak", "range", "segment", "replace", "write"}
  /\ Report(j, "failed")
  /\ LeaveLock(j)
  /\ Goto(j, "done") /\ Forget({j})
  /\ UNCHANGED <<store, thread, torn, blind>>

Ingest(j) ==
  \/ Snapshot(j) \/ Enter(j) \/ UpToDate(j) \/ Outdated(j)
  \/ ClearPages(j) \/ InsertPage(j) \/ PagesFail(j)
  \/ ClearSpeech(j) \/ InsertSpeech(j) \/ FindRange(j) \/ Summarise(j)
  \/ RemoveRow(j) \/ WriteRow(j) \/ Finish(j) \/ IngestionFails(j)

-----------------------------------------------------------------------------
(***************************************************************************)
(* Rename: the metadata webhook, answered while it waits.  It holds the    *)
(* lock for the length of this step and stores nothing for a missing unit. *)
(***************************************************************************)
Rename(j) ==
  /\ Sent(j) /\ lock = Nobody
  /\ IF row = Nobody
     THEN UNCHANGED <<row, renamed>>
     ELSE /\ row' = [row EXCEPT !.name = NameOf[j]]
          /\ renamed' = [i \in Ingestions |->
                           IF pc[i] \in Over \cup {"idle", "snapshot"} THEN renamed[i] ELSE j]
  /\ Goto(j, "done")
  /\ UNCHANGED <<chunks, spoken, segments, lock, thread, req, todo, kept, base, latest, status,
                dropped, past>>

(***************************************************************************)
(* Visibility: under the lock to its end.  The unit is closed before any   *)
(* slide is touched and gets its release only after the last one.          *)
(***************************************************************************)
FindUnit(j) ==
  /\ Sent(j) /\ lock = Nobody
  /\ \/ row = Nobody /\ Goto(j, "done") /\ UNCHANGED <<req, todo, lock>>
     \/ /\ row # Nobody
        /\ \E hiding \in Hidings[j] :
             /\ req'  = [req EXCEPT ![j] = hiding]
             /\ todo' = [todo EXCEPT ![j] = hiding.listed]
        /\ lock' = j
        /\ Goto(j, "close")
  /\ UNCHANGED <<store, thread, kept, base, latest, status, renamed, dropped, past>>

(* The slides listed replace what the snapshot, if there is one, says of them. *)
Snap(j) ==
  ((IF row.hidden = Nobody THEN {} ELSE row.hidden) \ req[j].listed) \cup req[j].hide

Close(j) ==
  /\ At(j, "close") /\ row # Nobody
  /\ row' = [row EXCEPT !.open = FALSE, !.hidden = Snap(j)]
  /\ Goto(j, IF todo[j] = {} THEN "open" ELSE "pages")
  /\ UNCHANGED <<chunks, spoken, segments, lock, thread, mine, past>>

(* The chunks of page p, or the ones reached before a write failed. *)
Hide(p, reached, hide) ==
  {c \in chunks : c.page # p \/ c \notin reached}
    \cup {[c EXCEPT !.hidden = hide] : c \in {d \in reached : d.page = p}}

HidePages(j) ==
  /\ At(j, "pages")
  /\ \E p \in todo[j] :
       /\ \A q \in todo[j] : p <= q
       /\ chunks' = Hide(p, chunks, p \in req[j].hide)
  /\ Goto(j, "summaries")
  /\ UNCHANGED <<spoken, segments, row, lock, thread, mine, past>>

HideSegment(j) ==
  /\ At(j, "summaries")
  /\ \E p \in todo[j] :
       /\ \A q \in todo[j] : p <= q
       /\ segments' = [segments EXCEPT ![p] =
                         IF @ = "none" THEN @ ELSE IF p \in req[j].hide THEN "hidden" ELSE "shown"]
       /\ torn' = torn \ {p} /\ blind' = blind \ {p}
       /\ todo' = [todo EXCEPT ![j] = @ \ {p}]
       /\ Goto(j, IF todo[j] = {p} THEN "open" ELSE "pages")
  /\ UNCHANGED <<chunks, spoken, row, lock, thread, req, kept, base, latest, status, renamed,
                dropped, failures>>

Open(j) ==
  /\ At(j, "open") /\ row # Nobody
  /\ row'  = [row EXCEPT !.open = req[j].open]
  /\ lock' = Nobody
  /\ Goto(j, "done") /\ Forget({j})
  /\ UNCHANGED <<chunks, spoken, segments, thread, status, past>>

(* A request that ends between its first and its last slide leaves the rest. *)
Tear(gone) ==
  torn' = torn \cup UNION {todo[j] \cap req[j].hide :
                          j \in {i \in gone \cap Visibilities : pc[i] \in {"pages", "summaries"}}}

(* A write that stays rate-limited, or whose object is gone, ends the       *)
(* request with an error; some chunks of a page may have been written.      *)
VisibilityFails(j) ==
  /\ pc[j] \in {"close", "pages", "summaries", "open"}
  /\ Fail \/ (pc[j] \in {"close", "open"} /\ row = Nobody /\ Succeed)
  /\ \E reached \in SUBSET chunks :
       \/ reached = {} /\ UNCHANGED chunks
       \/ /\ At(j, "pages")
          /\ \E p \in todo[j] : /\ \A q \in todo[j] : p <= q
                                /\ chunks' = Hide(p, reached, p \in req[j].hide)
  /\ lock' = Nobody
  /\ Goto(j, "done") /\ Forget({j}) /\ Tear({j})
  /\ UNCHANGED <<spoken, segments, row, thread, status, blind>>

SetVisibility(j) ==
  \/ FindUnit(j) \/ Close(j) \/ HidePages(j) \/ HideSegment(j) \/ Open(j) \/ VisibilityFails(j)

-----------------------------------------------------------------------------
(***************************************************************************)
(* Deletion: a thread of its own, without the lock.  Each collection is    *)
(* tried, whatever became of the one before it.                            *)
(***************************************************************************)
DeletionStep(j, here, there) ==
  /\ At(j, here) /\ Goto(j, there)
  /\ UNCHANGED <<lock, thread, req, kept, base, latest, renamed, dropped, torn, blind>>

(* todo remembers a failure: it is not empty once a collection failed. *)
Missed(j) == Fail /\ UNCHANGED <<store, status>> /\ todo' = [todo EXCEPT ![j] = Pages]

StartDeletion(j) ==
  /\ Sent(j) /\ DeletionStep(j, "idle", "delete chunks")
  /\ UNCHANGED <<store, todo, status>> /\ Succeed

DeleteChunks(j) ==
  /\ DeletionStep(j, "delete chunks", "delete speech")
  /\ \/ chunks' = {} /\ UNCHANGED <<spoken, segments, row, todo, status, failures>>
     \/ Missed(j)

DeleteSpeech(j) ==
  /\ DeletionStep(j, "delete speech", "delete segments")
  /\ \/ spoken' = {} /\ UNCHANGED <<chunks, segments, row, todo, status, failures>>
     \/ Missed(j)

DeleteSegments(j) ==
  /\ DeletionStep(j, "delete segments", "delete row")
  /\ \/ segments' = [p \in Slides |-> "none"] /\ UNCHANGED <<chunks, spoken, row, todo, status, failures>>
     \/ Missed(j)

(* The outcome is reported after the last collection. *)
DeleteRow(j) ==
  /\ DeletionStep(j, "delete row", "done")
  /\ \/ /\ row' = Nobody /\ Succeed
        /\ Report(j, IF todo[j] = {} THEN "finished" ELSE "failed")
     \/ /\ Fail /\ UNCHANGED row
        /\ Report(j, "failed")
  /\ todo' = [todo EXCEPT ![j] = {}]
  /\ UNCHANGED <<chunks, spoken, segments>>

Delete(j) ==
  \/ StartDeletion(j) \/ DeleteChunks(j) \/ DeleteSpeech(j) \/ DeleteSegments(j)
  \/ DeleteRow(j)

(* The process is restarted: what ran is gone, the collections stay. *)
Restart ==
  /\ Fail /\ Running # {}
  /\ pc' = [j \in Jobs |-> IF j \in Running THEN "dead" ELSE pc[j]]
  /\ lock' = Nobody /\ thread' = Nobody
  /\ Forget(Running) /\ Tear(Running)
  /\ UNCHANGED <<store, status, blind>>

Finished == Running = {} /\ UNCHANGED vars

Next ==
  \/ \E j \in Ingestions : Receive(j) \/ Ingest(j)
  \/ \E j \in Renames : Rename(j)
  \/ \E j \in Visibilities : SetVisibility(j)
  \/ \E j \in Deletions : Delete(j)
  \/ Restart
  \/ Finished

(* A thread that runs goes on, and a webhook in progress too.  The requests *)
(* are finite, so whoever waits for the lock finds it free in the end.     *)
Fairness ==
  /\ \A j \in Ingestions : WF_vars(Ingest(j))
  /\ \A j \in Visibilities : WF_vars(j \in Running /\ SetVisibility(j))
  /\ \A j \in Deletions : WF_vars(j \in Running /\ Delete(j))

Spec == Init /\ [][Next]_vars /\ Fairness

-----------------------------------------------------------------------------
(* Every variable stays in its type. *)
Steps == {"idle", "snapshot", "transcribe", "check", "clear", "insert", "speech", "speak", "range", "segment", "replace", "write", "finish",
          "close", "pages", "summaries", "open",
          "delete chunks", "delete speech", "delete segments", "delete row"} \cup Over

TypeOK ==
  /\ chunks \subseteq Chunk
  /\ spoken \subseteq Pages
  /\ segments \in [Slides -> {"none", "shown", "hidden"}]
  /\ row \in Row \cup {Nobody}
  /\ lock \in Jobs \cup {Nobody}
  /\ thread \in Ingestions \cup {Nobody}
  /\ pc \in [Jobs -> Steps]
  /\ req \in [Jobs -> Upload \cup Hiding \cup {Nobody}]
  /\ todo \in [Jobs -> SUBSET Slides]
  /\ kept \in [Ingestions -> (SUBSET Pages) \cup {Nobody}]
  /\ base \in [Ingestions -> Names \cup {Nobody}]
  /\ latest \in [Ingestions -> Row \cup {Nobody}]
  /\ status \in [Ingestions \cup Deletions -> {"running", "finished", "failed"}]
  /\ renamed \in [Ingestions -> Renames \cup {Nobody}]
  /\ dropped \in [Ingestions -> SUBSET Pages]
  /\ failures \in 0..MaxFailures
  /\ torn \subseteq Pages /\ blind \subseteq Pages

(***************************************************************************)
(* A unit that can be retrieved shows no slide its own row declares        *)
(* hidden, in its pages or in its summaries: across replacements of the    *)
(* pages, deletions, failed writes, restarts and requests that list all,   *)
(* some or no slides.  (Visibility closes the unit before it touches a     *)
(* slide, ingestion carries the snapshot over.)  Except the slides torn by *)
(* a request that failed between the row and the slide, which no later     *)
(* request listed: any release opens them.  And except the summary made of *)
(* a slide without a stored page.                                          *)
(***************************************************************************)
ReleasedStaysHidden ==
  Snapshotted /\ row.open =>
    \A p \in row.hidden \ torn :
      /\ \A c \in chunks : c.page = p => c.hidden
      /\ segments[p] = "shown" => p \in blind

NoDeletion == \A d \in Deletions : pc[d] = "idle"

(***************************************************************************)
(* A rename accepted after an ingestion looked at the unit survives the    *)
(* row that ingestion writes in the end, if no deletion interferes.        *)
(***************************************************************************)
RenameKept ==
  [][\A j \in Ingestions :
       WriteRow(j) /\ NoDeletion /\ renamed[j] # Nobody => row'.name = NameOf[renamed[j]]]_vars

(***************************************************************************)
(* An ingestion that replaced the pages and is reported as finished has    *)
(* stored every page of its version, except those its own batch lost: one  *)
(* whose pages failed half way with an exception goes on, but is never     *)
(* reported as finished.                                                   *)
(***************************************************************************)
FinishedHasPages ==
  [][\A j \in Ingestions :
       /\ status[j] # "finished" /\ status'[j] = "finished"
       /\ kept[j] # Nobody /\ NoDeletion
       => \A p \in Pages \ dropped[j] :
            \E c \in chunks : c.page = p /\ c.version = req[j].version]_vars

(* Whatever was started ends, the lock of the unit free again: no run waits *)
(* for ever, whoever fails and whoever is deleted meanwhile.               *)
RunsEnd == []<>(Running = {} /\ lock = Nobody)
=============================================================================

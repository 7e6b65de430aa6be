# Verification of the edutelligence repository

edutelligence is a monorepo of services around the learning platform Artemis.
This directory holds TLA+ models of the parts whose correctness depends on the
order in which things happen, the configurations under which TLC checks them,
and theorems that TLAPS proves for every value of the constants. Paths below are
relative to the repository root; `logos/` abbreviates
`logos/logos-orchestrator/src/logos/`.

## 1. The system

| part | state it keeps | operations | hard behaviour |
|---|---|---|---|
| **Logos request scheduler** (`logos/queue`, `logos/pipeline/base_scheduler.py`, `correcting_scheduler.py`) | one heap per model and priority; a future per waiter | `schedule`, `_queue_and_wait`, `release`, `reevaluate_model_queues` | dispatch, delivery and resumption are three loop steps; timeouts and disconnects fall between |
| **Logos scheduling data interface** (`logos/sdi/logosnode_facade.py`, `sdi/providers/logosnode_provider.py`) | active count per deployment, ids counted, request tracking | reserve, begin, complete, refresh | a slot is kept for an heir, counts are rebuilt under running requests |
| **Logos pipeline and responses** (`logos/pipeline/pipeline.py`, `logos/main.py`) | frames of running requests | `process`, `_streaming_response`, `_sync_response`, cancellation on disconnect | every path must release the slot exactly once |
| **Logos node registry** (`logos/logosnode_registry.py`) | tickets, sessions, pending commands and streams, cold and calibrating marks | attach, detach, `update_runtime`, `send_command` | a worker reconnects while commands are pending |
| **Logos capacity planner** (`logos/capacity/capacity_planner.py`) | demand, lane locks, action history | cycle, load/wake/sleep/stop, confirmation | orders and what workers report diverge |
| **Logos memory ledgers** (`logos/capacity/*_ledger.py`) | reservations per worker and GPU | reserve, release, `try_reserve_atomic`, stale clean-up | freeing and consuming reservations, stale ones of running operations |
| **Logos calibration** (`logos/capacity/calibration_orchestrator.py`, the registry's mark, the worker's `logos_bridge.py`) | the cluster-wide slot; a mark per session; the worker's session | tick, start, stop, events, hello | three event loops; timeouts, reconnects and lost events between them |
| **Logos rate limiter, jobs** | two sliding windows; job rows | | tokens known late; jobs of a process that died |
| **Logos worker node** (`logos/logos-workernode`) | lanes and their processes, ports, request counts, the bridge's session | add, reconfigure, sleep, wake, remove, `apply_lanes`, crash recovery, reconnect | steps that fail half way and are rolled back; processes that die; requests that run beside the commands |
| **Logos web service and UI** | the database | CRUD | none of its own |
| **Iris lecture unit store** (`iris/src/iris/ingestion`, `pipeline/lecture_*`) | four Weaviate collections per unit, locks, job threads | ingestion, metadata, visibility, deletion | threads on one unit, partial failure half way, long phases outside the lock |
| **Iris status callbacks** (`iris/src/iris/web/status`) | the run's terminal mark, an undelivered result, queued snapshots, the streamed draft | update, intermediate, result, finish, fail | lost and late updates, nothing after a terminal one, three kinds of threads |
| **Iris chat, tutoring, search, retrieval** | the conversation | calls of a language model | for chat, the order of what it tells Artemis |
| **Memiris, Athena, Atlas, shared, Weaviate** | vector stores, feedback databases | CRUD around language models | little of their own |

A request enters Logos over HTTP, is classified and scheduled to one of the
deployments (a model on a worker or at a cloud), is executed there and releases
its slot. The planner loads and sleeps lanes on workers over the registry's
WebSocket and tells the scheduler to reevaluate its queues when a lane came up.
Workers report their lanes to the registry, which is where the scheduler looks
when it asks whether a lane is ready. The other services talk to Artemis by
REST and callbacks and share no state with Logos.

What correctness means, per part:

- scheduler: no waiter is lost, none is dispatched twice, higher priority first,
  and every one is served in the end;
- data interface: the active count is what really runs, so that a lane is
  neither overbooked nor idle with a queue in front of it;
- pipeline: each scheduled request releases its slot;
- registry: a command is answered or fails, and by the session it was sent to;
- calibration: one worker at a time; no lane grows while the probes hold the
  memory; the planner's mark follows the worker; the slot is freed;
- planner and ledgers: what is reserved on a GPU fits; a lane in use is not
  stopped, and one that is awake again is not kept from requests;
- worker: the count of a lane is what runs on it, a port is one lane's, an
  `apply_lanes` is done or undone, and a command always ends;
- rate limiter: never more than the limit in a window; a rejected request costs nothing;
- lecture unit store: what can be retrieved never shows a hidden slide, an
  ingestion that says it finished has stored its pages, a rename is not undone;
- status callbacks: one terminal state, last of all; the answer before or with it.

## 2. Modules

| module | what it is |
|---|---|
| `Admission` | what the scheduler promises a request, without its heaps, futures and counts |
| `SlotScheduler` | the scheduler, the slot accounting and the release paths of the pipeline; it implements `Admission` |
| `LaneActions` | the planner's actions on lanes, the cold marks, lane selection and retries, and the connection to the worker between them |
| `LaneManager` | the lanes of one worker: commands, requests, `apply_lanes` with its rollback, crash recovery |
| `Calibration` | the nightly calibration: orchestrator, registry mark, worker bridge and the socket between them |
| `LectureUnit` | one lecture unit in the vector database of Iris and the jobs that write it |
| `ChatRun` | what one chat run of Iris tells Artemis, over which threads |
| `MC...` | instances of these for TLC |
| `...Proofs` | theorems about them, proved by TLAPS |

The modules meet where the components do. `LaneActions` puts the planner of the
orchestrator, the registry's session and an abstract worker together; `LaneManager`
has that worker in detail. What `SlotScheduler` sees of the planner and the
workers (`lane`, `node`, `confirming`) is what those two do, left open.
`LectureUnit` and `ChatRun` are of another service and share no state with Logos.

### SlotScheduler and the code

Everything it models runs on one asyncio event loop, so the code between two
awaits is one action. The part of the code that makes this interesting is
`BaseScheduler.release` (`base_scheduler.py:134-255`): it picks a waiter and
schedules `future.set_result` with `call_soon_threadsafe`; the callback is a
later step of the loop (`DeliverResult`), and the waiter's task a still later
one (`Resume`). `wait_for`'s timer or a disconnect cancels the task at any point
(`Cancel`, `ResumeCancelled`).

State: `pc`, `fut`, `cancelled`, `entryId`, `grant` describe the request's task
(where it stands, the future, whether `Task.cancel` was called, the entry id
`_queue_and_wait` remembers, the `SchedulingResult`); `inFlight` is the loop's
set of scheduled `set_result` calls; `queue` and `nextId` the
`PriorityQueueManager`, whose heap order is the operator `Before`; `tracking`
is the facade's `_request_tracking`; `counted` and `active` are the provider's
`_active_request_ids` and `_model_active`; `deployed`, `lane`, `node`,
`confirming` are what the scheduler sees of registrations, worker reports,
sessions and planner orders.

| action | code |
|---|---|
| `ReserveLocal`, `AcceptCloud`, `Enqueue`, `Reject` | `ClassificationCorrectingScheduler.schedule` up to its await |
| `DeliverResult`, `Cancel`, `ResumeCancelled`, `Resume` | the future, the timer, and `_queue_and_wait` after its await |
| `ContextResolved`, `StreamHandedOn`, `StreamStarted` | `RequestPipeline.process`, `_streaming_response`, `_sync_response` |
| `ContextFailed`, `Finish` | the paths that call `release` (`Release` and its three outcomes) |
| `Abandon` | the two windows in which a cancelled request releases nothing |
| `PlannerOrders`, `Reevaluate`, `PlannerGivesUp` | a load or wake of the planner, `reevaluate_model_queues` once it is confirmed |
| `LaneChanges`, `NodeChanges` | status reports and sessions as the registry shows them |
| `Refresh` | `replace_registrations`, deployments dropped and added at run time |

Abstracted: the scores (any candidate may be the best, so a request may be put
to any queue it may come to), the thresholds of a worker's backend queue (a lane
is `saturated`), when a request read the list of deployments (in `MCRefresh` it may
still know one that was dropped since), Unix time (the entry id stands for the timestamp of an entry).
A request that is cancelled before it queues, or inside `_sync_response`, takes
paths that the model has already (`Reject`, `Finish`).

### Calibration and the code

A worker that calibrates frees its GPU and probes models on it, so two things
must hold: one worker at a time, and no lane placed there meanwhile. Three
parties take part, each on its own event loop. The orchestrator holds a slot
(`slot`, `completed`, `wasIn`). The registry holds a session per worker (`sess`),
the calibrating mark (`mark`) and the calls of `send_command` (`call`). The
worker holds its session (`live`), the command it executes (`busy`: all commands
but `infer` are awaited one by one) and the events it has recorded and not yet
forwarded (`unsent`). `down` and `up` are the two directions of the WebSocket,
`link` says whether it works at both ends.

| action | code |
|---|---|
| `TickStarts`, `TickStartsNobody`, `TickStops`, `TickStopFails`, `TickRests` | `CalibrationOrchestrator._tick` and what it calls, up to the await of the command |
| `Answered`, `TimesOut` (by `Return`, `Unmarked`) | the end of `send_command` and of the caller that awaited it |
| `AdminStarts`, `PlannerGrows` | the `calibrate_uncalibrated` endpoints; the planner's load, wake or reconfigure behind `_is_plannable` |
| `Receive` | one message in `logosnode_session`: `on_hello`, the first `update_runtime`, `on_command_result`, `append_event` with its subscriber |
| `Connect`, `Detach`, `LinkBreaks`, `Crash` | `_run` and `_send_hello` with `attach_session`; `detach_session`; the socket; the worker's process |
| `StartAccepted`, `StartRefused`, `StartRefusedUnhealthy`, `StopBegins`, `GrowBegins`, `GrowRefused`, `BusyEnds` | `_execute_command` and its two calibration handlers |
| `SessionEnds`, `EventForwarded` | the end of `_run_calibration_session`; `_event_loop` |

Abstracted: which worker is picked (any eligible one; health, requests in flight
and what is uncalibrated may exclude any); the events about single models; the
replay of old events after a connect, which `append_event` only stores, so an
event that became backlog is dropped; a stale heartbeat, which acts on
`send_command` like a session that is gone. A command id is reused once nothing
mentions it, in place of fresh uuids. A break loses what is on the link; a
session that stays half open is a `Detach` that comes late. Three variables are
history: `guess` (the mark was put up by a start, or put back by its refusal, and
the worker has said nothing since that settles it), `sure` (what the mark was
before a start put it up was the worker's word) and `lost` (the event that ends the
session the slot stands for was recorded or under way when a connection or a
process broke).

Observations: a start that times out and is refused afterwards leaves the mark up
until the worker connects again, although `logosnode_registry.py:970-971` expects the
worker's event to settle it; of two starts that overlap (the administrator's and the
tick's) the refused one puts back the mark it found, which may be older than what
the worker said meanwhile; when the terminal event is lost, nothing frees the slot
before a later session on the same worker ends, although
`calibration_orchestrator.py:425-428` and `logos_bridge.py:938-941` want it freed; an
orchestrator that believes a session over, or that never heard of one, starts
another beside it.

### Admission

A request is new, waiting, granted or gone. It is admitted to a deployment of a
model it wants, or waits for one model; several waiters may be taken in one step,
none before one of higher priority for the same model; a request that ends may
hand its deployment over. `SlotScheduler` maps `phase`, `waits` and `at` from its
task states, futures and heaps (`Phase`, `Abstract`), and `Admits` says that each
of its steps is one of these or none. The three steps from dispatch to resumption,
the cancelled futures that stay in the heap and the counts disappear in the mapping.

### LaneActions and the code

| action | code |
|---|---|
| `StartAction`, `Drain`, `DrainTimeout` | the planner's executor for sleep, wake, load and stop: `_mark_lane_cold`, the wait for the lane's requests, `send_command` |
| `CommandTimeout`, `Confirm`, `PollTimeout` | the answer that never comes; `_poll_confirmation`, which holds the last report against `_check_expected_state` |
| `Select`, `NoLane`, `Send`, `StreamTimeout` | `select_lane_for_model`, and `_streaming_response` with its retries before the first token (`main.py:2517`) |
| `Take`, `SleepLane`, `WakeLane`, `LoadLane`, `StopLane` | the bridge and what a lane command comes to |
| `Acquire`, `Finish` | `acquire_lane_for_infer` and the end of an inference task |
| `Report`, `Break`, `Detach`, `WorkerNotices`, `Reconnect`, `Crash` | `update_runtime`, the socket, `detach_session`, the bridge's loop, `attach_session`, a process that dies |

The planner executes one action at a time: its cycle is sequential and the lane
lock covers the rest. The bridge ends the lane command in hand before it notices a
lost connection and then cancels the request tasks. A session that is replaced
tells nobody who waits on it: calls and streams end by their timeouts. A stream
that is cut counts as one that times out. Retries exist on the streaming path;
the other one is `MaxTries = 1`. `early` and `disturbed` are history: which tasks
were reported when the lane was marked, and which lanes changed behind the
planner's back. A lane that was woken or loaded without the planner hearing of it
stays in `disturbed` at least until that command is through (`Rising`). Left out: the planner's choice of what to do, `apply_lanes` and
`reconfigure_kv` as planner actions (additive loads are the default), the
escalation for host memory, cooldowns and reservations, and the lane endpoints of
the administrator, which pass the planner by (`main.py:4224-4290`).

Observations that are no finding because no line promises otherwise: a wake that
is confirmed too late, or a slept lane whose process is started again after a
crash, leaves a lane awake and marked until the next action unmarks it
(`capacity_planner.py:6977-7010`); these are the lanes in `disturbed`. A wake whose
answer never came may overtake more than one later action: it can raise the lane
while a later sleep of it is confirmed on a report from before. It takes five
actions, more than a run has; the proof of section 4 came upon it. A stop is
"confirmed", and a drain passes, on the empty runtime of a fresh session; the
tasks died with the connection, so nothing is cut. An attempt that timed out may
still run while its retry is dispatched.

### LaneManager and the code

| action | code |
|---|---|
| `ReadRequest`, `ReadRemove`, `ReadSleep`, `ReadApply` and the other reads | `_execute_command` of the bridge, up to the first await |
| `DrainExpires`, `DrainEnds` | `_drain_lane_inflight`, for one lane or several |
| `AddLane`, `RemoveLane`, `SleepLane`, `WakeLane`, `ReconfigureLane` | the methods of `LaneManager` that hold its lock from check to end, with their failures |
| `BeginApply`, `ApplyRemove`, `ApplyRestart`, `ApplyStagger`, `ApplyAdd` | `apply_lanes`, one lane at a time |
| `UndoAdded`, `UndoRestarted`, `UndoRemoved`, `EndApply` | its rollback |
| `Acquire`, `Answered`, `Decrement` | an inference task: counted, answered, counted off |
| `ProcessDies`, `SeeDead`, `Recover`, `RestartStuck` | a process that dies or hangs; `get_all_statuses`, which counts an attempt for what was dead in the list it read, and then restarts it |
| `DestroyAll` | `destroy_all`, with which a calibration session clears the worker |

The bridge awaits lane commands one after the other (`logos_bridge.py:576`),
requests are tasks beside it. `asyncio.Lock` is first come first served; the order
is left open. `get_all_statuses` checks for stuck lanes and then recovers dead ones
(`lane_manager.py:955-956`), and may run in several tasks. `late` is history: lanes
whose count was lowered by a request of an earlier process. `cmd.owed` is history, too:
who ran on the lanes to be removed when `apply_lanes` began to drain them, less those
on lanes whose drain ran out. `Recover` uses the configuration of the
list it read (`seen`) when the handle has none (`lane_manager.py:1087`). Left out: the CUDA
flags, the reboot of a GPU, the cooldown between recoveries, and a recovery attempt
that is counted although the lane is gone. Staggered sleeping, which leaves lanes
asleep to make room, is in. Observations: the restart of a stuck lane undoes a
reconfiguration that came between (`lane_manager.py:2443-2449`); a port stays
taken when the rollback cannot start a lane again (`lane_manager.py:2111`).
`apply_lanes` drains without the lock (`lane_manager.py:432-442`) and removes later
without looking again (`:486-493`), so a request that is counted in between is cut;
a reconfiguration and a restart drain nothing and break the streams on their lane.

### LectureUnit and the code

| action | code |
|---|---|
| `Receive` | the ingestion webhook and `IngestionJobHandler`, which drops a job while an older one lives |
| `Snapshot`, `Enter`, `UpToDate`, `Outdated` | the look at the unit before transcription, the lock after it, the version check |
| `ClearPages`, `InsertPage`, `PagesFail` | the replacement of the page chunks under the lock of batch updates |
| `ClearSpeech`, `InsertSpeech`, `FindRange`, `Summarise` | transcription chunks and segment summaries |
| `RemoveRow`, `WriteRow`, `Finish`, `IngestionFails` | the unit's row and the report to Artemis |
| `Rename` | the metadata endpoint |
| `FindUnit`, `Close`, `HidePages`, `HideSegment`, `Open`, `VisibilityFails` | the visibility endpoint |
| `StartDeletion`, `DeleteChunks`, `DeleteSpeech`, `DeleteSegments`, `DeleteRow` | the deletion thread, which takes no lock |
| `Restart` | the process: threads and locks are gone, the collections stay |

The unit's lock is always taken before the lock of batch updates. A page without
text has no chunk; the model gives every page one. Weaviate's batches collect what
failed without raising and nobody reads it, so `InsertPage` may lose its page
without a word (`dropped`). A query without a limit returns `DefaultLimit` objects,
which bounds the range of slides that is summarised (`FindRange`). A row may be
without a snapshot of its hidden slides, from before there were any: then an
ingestion looks at the chunks (`Hidden`), as it does when there is no row.

What a visibility request lists is up to Artemis: every slide, some, or none, which
only releases the unit (`test_lecture_visibility_update_pipeline.py:223`, `:254`).
`Hidings` has all three. A request that fails between the row and a slide leaves that
slide torn, hidden in the row and shown in the store, with the unit closed; a later
request that does not list it opens the unit over it. The history `torn` says which
slides are in that state, `blind` which were summarised while no chunk of theirs was
stored.

Observations: the release after a hiding that failed shows the torn slide (the
tests ask for that release); a slide whose chunk a batch lost, or a deletion took, is
summarised as shown whatever the row says; a run whose batch lost pages is reported
as finished; on a row without a snapshot a partial request writes one that forgets
the other hidden slides; the job handler's key lacks the base URL
(`ingestion_job_handler.py:18`); a deletion beside an ingestion may leave a row
without a name, or be written over; a page deletion that fails silently leaves an
old version beside the new one; a retry after a half-way failure is taken as up to
date; the row is lost when its insert fails after its removal; an ingestion that
still carries the old name undoes a rename back to that name
(`lecture_unit_pipeline.py:110`).

### ChatRun and the code

| action | code |
|---|---|
| `Start`, `Agent`, `PrepareRaises`, `Intermediate`, `Stop`, `Join` | `AbstractAgentPipeline.__call__` and the intermediate messages of its agent |
| `SendResult`, `HookFails`, `MakeTitle`, `SendSuggestions`, `SuggestionsFail`, `NoSuggestions`, `Finish`, `RunFailed` | `ChatPipeline`'s hook after the agent, and the end of a run |
| `Drain`, `Post` | a synchronous call of `ChatRunCallback`: the drain of queued updates, the POST and its retries |
| `Snapshot`, `Enqueue`, `PostQueued` | the activity tracker and the one-thread executor |
| `Refine`, `StopRefinement`, `Join` | `_refine_response` of exercise chats, inside the hook |
| `OnDelta`, `NextPayload`, `PostDraft`, `SenderEnds` | `PartialResultSender`, for the agent or for the refinement |

The answer is streamed at one of two places. In a chat about an exercise (`exercise`)
the agent is not streamed, and the hook has its answer refined with a
`PartialResultSender` of its own (`Refine`, `StopRefinement`, the stages `unrefined`,
`refine`, `refined`); in every other chat the agent streams. Both senders are
stopped and joined in the same way, and `Join` may give up on either (`gaveUp`).

A POST is received or not and looks successful or not; one that is received and
looks failed is sent again. One whose client timed out has reached Artemis by then
or never does. Only `send_result`, and a terminal call that carries
an answer, retry. Sequence numbers of snapshots are left out: the order of the
queue is theirs. Artemis is what it has received: `artemis.last` the state in the
last update of any kind, a draft's RUNNING included, `artemis.end` the terminal one.
`late` counts the drafts received in a stage that makes none. Observations: a draft
that is under way when `stop()` gives up may be received at any time, after the
answer and after the terminal update, and then says RUNNING
(`partial_result_sender.py:25-27` and `:64-72` call this best effort); the session title
is lost when the POST of the suggestions fails (`chat_pipeline.py:974` against
`abstract_agent_pipeline.py:749`, which takes it as delivered); a draft that is
received and times out hides the change that clears it
(`partial_result_sender.py:146-151`), which is why `DraftFollows` is checked with
`SlowDrafts = FALSE`.

## 3. What the runs check

Passing runs (TLC, exhaustive):

| run | instance | what it shows |
|---|---|---|
| `MCSlots` | 3 requests, one of them HIGH, one worker with one slot | types; `SlotAccounting`: the count is what runs plus slots under way to an heir; `NoWaiterLost`; `DispatchedOnce`; `StrictPriority`; `OnlyReevaluateOvershoots`: of all ways to raise the count, only the resumption of a waiter from `reevaluate_model_queues` passes the capacity; `Admits`: it implements `Admission` |
| `MCRefresh` | 2 requests, 2 workers, deployments dropped and added | the queue survives, and no count stays behind or is put to the wrong worker (`NeverOvercounts`), also when a waiter runs on another worker than it queued for |
| `MCQuiet` | 3 requests of two priorities, one worker, one cloud | `WaiterIsServed` under fairness |
| `MCLaneActions` | 1 lane, 1 request with two attempts, 3 planner actions, 2 faults | `MarkIsLifted`, `Awakened`: a lane that is awake is selected again; `StopSparesReported`: a stop never cuts a request that was reported when it began |
| `MCLaneManager` | 3 lanes, one of them static, 2 commands, 2 requests, a fault | `CountIsTrue`, `PortsAreOwn`, `DrainSparesRequests`, `AppliedOrUndone`, and `BridgeReadsOn`: every command ends |
| `MCCalibration` | one worker, two calls; every fault, timeouts, admin starts | `NoGrowthWhileCalibrating`: no lane grows beside a session although every belief of the server may be stale; `HelloSettles`: a calibrating worker that reconnects is marked before it is plannable; `MarkAgrees`: once no word of a connected worker is on its way its mark is right, unless it is a start's guess; `SlotHasReason`: the slot outlives its session only while something is under way, or because the last event was lost |
| `MCCalibrationSteady` | two workers, two calls, no faults or timeouts, only the orchestrator starts sessions | `OneAtATime`; `MarkCoversSession`: the mark is up whenever the session is; `SlotFreed` |
| `MCLectureUnit` | 2 slides; 3 of 2 ingestions, a rename, 2 visibility requests and a deletion; failures and restarts | `ReleasedStaysHidden`, `RenameKept`, `FinishedHasPages`, and `RunsEnd`: whatever runs ends, the lock free |
| `MCChatRun` | an exercise chat or another, 2 activity threads, drafts, 3 POSTs that fail | `QueuedFirst`, `NothingAfterTerminal`, `TerminalHasAnswer`, `DraftsStopFirst`, `DraftFollows`, `CallsEnd` |

Four of these properties name what they exempt, since the code does not promise more:

- `DrainSparesRequests` says of a sleep and of `remove_lane` that nobody is cut, and of
  `apply_lanes` that nobody is cut who ran there when its drain began. Drains that
  ran out and forced sleeps are exempt, and so are requests counted between the
  drains of `apply_lanes` and its removals.
- `ReleasedStaysHidden` exempts what a failed request left torn and nobody listed since,
  and summaries of slides without a chunk; `FinishedHasPages` exempts what the run's own
  batch lost.
- `NothingAfterTerminal` and `DraftsStopFirst` allow the one draft that `stop()` gave up on.
- `MarkAgrees` exempts a guess, `SlotHasReason` a lost event.

Three requests are the smallest number with one running and two that compete for
its slot, which is what priority, inheritance and putting back need; a fourth
only lengthens the queue. One slot makes every request a boundary case. Two
workers are needed to see a slot counted at the wrong one; a second model shares
no state with the first but the entry counter. A cloud takes no part in the
accounting: it is in `MCQuiet`, where it is an upstream requests may prefer.

`Calibration` is checked under two specifications, since what the code promises
depends on what goes wrong. `Spec` has every fault, timeouts and the
administrator's starts, and no fairness. `SteadySpec` has none of these, and
`Fairness`: there one worker calibrates at a time, covered by its mark, and the slot is
freed. With faults these three are false: a start that times out and is accepted
afterwards begins a session nobody has the slot for, and an event that is lost keeps
the slot. What is left of them then is in `MarkAgrees` and `SlotHasReason`. Two calls
are the smallest number with a command overtaking another's outcome; `MaxUnsent = 2`
and `MaxUp = 3` hold a session's two events behind hello and status. Workers do not
interact but through the slot, so one is enough for all that is per worker, two
for the slot.

In `LaneActions` the planner works on one lane at a time and requests do not
interact, so one of each is enough for the marks; three actions are a sleep, a
wake and a stop of one lane, two faults a crash beside a broken connection, two
tries an attempt that was given up and still runs. In `LaneManager`, `apply_lanes`
with three lanes can keep, restart, add and remove at once and fail behind each of
them; the second command meets what the first left behind. In `LectureUnit` three
jobs are an ingestion, another writer and a reader of what both left; two slides
are one that was replaced and one that was not yet, or one that is listed and one
that is not; two failures are one that tears a slide and one in what follows. In
`ChatRun` three failures are one more than the drafts, or an answer with two
attempts, bear.

The largest runs have 2.9 million distinct states (`MCCalibration`), 1.8 million
(`MCLaneManager`), 1.7 million (`MCRefresh`), 1.6 million (`MCChatRun`), 0.9 million
(`MCLectureUnit`) and 0.7 million (`MCSlots`).

### Findings

Runs whose name starts with `V` check one statement that the repository makes
and that the code does not keep; TLC prints the schedule.

| run | what the repository says | what happens |
|---|---|---|
| `VGoneIsNotBooked` | "otherwise the lane stays booked for a request that is already gone" (`main.py:3615`) | a cancellation in context resolution, a stream closed before its first chunk, or an heir cancelled between `release` and `set_result`, keeps its slot for good |
| `VFailedRestartEndsLane` | "Lane is now dead - remove it from handles and release all bookkeeping so the dead lane is not reported as active." (`lane_manager.py:1986`) | a restart that finds no GPU for the lane leaves the handle of the process it destroyed |
| `VRefusalReroutes` | "so the bridge can fail cleanly and the orchestrator reroutes" (`lane_manager.py:1210`) | a request that its lane refuses is tried on that lane again and failed while another could be selected (`main.py:2530`) |

What the code does besides and the models contain: what `reevaluate_model_queues`
dispatched and has not resumed is not in the count it reads, so a lane may be
given more than its capacity (`base_scheduler.py:289`); a lane that comes up
without a planner order wakes no waiter (`base_scheduler.py:161`); a calibration
that is started by a command nobody hears the end of frees the cluster's slot
(`calibration_orchestrator.py:19`), and one whose last event is lost keeps it
(`calibration_orchestrator.py:427`); a start that times out and is then refused
leaves the calibrating mark (`logosnode_registry.py:970`).

Some of the hazards listed in `PROJECT.json` have no property. In each of them the code does
what one would not want and nothing in the repository says otherwise, so a property
could only exempt the case; the note of the hazard says what happens. These are: a
lane that comes up behind the planner's back with waiters in the queue, and one that
changes after the planner's action on it ended; a second session that is started while
one runs unheard of; a batch that loses pages; the restart of a stuck lane that
undoes a reconfiguration; the session title.

### Fairness

`Fairness` asks for weak fairness of three things. `Waiting(r)` and `Serving(r)`:
the event loop runs every ready callback and task, and every await of a running
request has a timeout (`timeouts.py`). `PlannerServes(d)`: the planner's loop
never ends (`capacity_planner.py:480-510`, exceptions are logged and the loop goes
on), and in `QuietSpec` it finds the memory to load a model that is asked for.
`QuietSpec` restricts the environment: nobody cancels, workers stay, and lanes
move only by planner actions, one at a time under its lane lock. `Serving` is
fair as a whole, so a request need not become a stream. Nothing is assumed about
lanes going to sleep: the planner may put them to sleep again and again.

`Calibration!Fairness`: the receive loop of a session, the event poll, the command
loop (`Working` as a whole: `_handle_message` always returns) and the tick run
for ever; the worker's session ends, each probe having a ready timeout; a
disconnected worker reconnects (`_run` retries for ever); an awaited answer that
is there is taken, and a call on a session that was replaced times out; the
clock moves. Nothing is assumed about faults: links may break for ever, which is
why `SlotFreed` speaks of workers that are connected for good.

`LaneActions!Fairness`: the planner's waits have timeouts, workers report, broken
connections are noticed and made again, the bridge reads on and commands end. None
for what the planner starts, for requests and for faults. `LaneManager!Fairness`:
the command that is awaited goes on (its drain has a clock, its spawns a timeout);
requests and the status loop may stand still. `LectureUnit!Fairness`: a thread or
webhook that was started runs; requests are finite, so whoever waits for the lock
gets it with weak fairness already. `ChatRun!Fairness`: POSTs return or time out
and threads run; the agent, whose length nothing bounds, need not go on.

## 4. What is proved

`SlotSchedulerProofs` proves, for any finite sets of requests and workers, any models
and clouds, any capacity and any wants and priorities (the assumptions
are those of `ConstantsAssumption`):

- `TypeCorrect`: `RefreshSpec => []TypeOK`;
- `WaitersKept`: `RefreshSpec => []NoWaiterLost`. `NoWaiterLost` alone is not
  inductive. `QueueInv` adds that entry ids in the queue are below the counter
  (`IdsFresh`), that a request has at most one entry and of its own priority
  and models (`OneEntryEach`, `OwnEntry`), that only a pending future's owner
  waits (`PendingWaits`) and that a request whose removal is still to come has
  its entry (`StillQueued`). The pops of `release` and `reevaluate_model_queues`
  remove an entry only if its future is done or its owner is put in `inFlight`.
- `SlotsAccounted`: `Spec => []SlotAccounting`. `SlotInv` adds that a grant
  exists exactly for those dispatched (`GrantedOnDispatch`), is of a deployment
  that exists (`GrantsKnown`), that who is counted holds a grant of that
  deployment (`HolderCounted`) and that the facade's tracking agrees with the
  provider's counting. Each action is then shown to change the set `Owners(d)`
  by exactly what it changes `active[d]` by.

- `NoSlotLeaks`: `RefreshSpec => []NeverOvercounts`. With refreshes `SlotAccounting`
  is false, since a deployment that is dropped and added again forgets the requests
  it serves (`replace_registrations` starts its count at zero); this is what
  remains of it. The bound is not inductive on `Owners(d)`, since a request that was
  forgotten by a refresh may still hand its slot on. `BoundInv` bounds the count by
  the smaller set `Holders(d)` of requests that are tracked on `d`, or hold a
  transferred slot of it that they have not begun to use (`CountsHeld`), and adds
  that what was dropped counts nothing (`CountsKnown`) and that who is counted is
  counted where it was granted (`CountedAsGranted`). There is one lemma per step,
  which says what happens to `Holders(d)` and to `active[d]` together.

Its liveness property is model-checked only (fairness and ENABLED are beyond the
prover).

`AdmissionProofs` proves, from the same assumptions:

- `ImplementsAdmission`: `Spec => Admits`, the refinement. `MapInv` is `SlotInv`
  with `PrioKept`: an entry that `release` puts back keeps the priority of its
  request. `PhaseIs` reads what `Admission` sees off the task states, and
  `WaitersWait` ties the queue to it: an entry with a pending future belongs to a
  request that is waiting, and for that model only. Then there is one lemma per
  step of `Admission` that says what a step of the scheduler has to change to be
  one (`Unseen`, `Admitted`, `Waits`, `Leaves`, `HandsOver`, `Dispatches`), and
  `MapStep` goes through the actions. The two that take several entries are
  `ReleaseMaps`, which hands over to the first live entry and drops the dead ones
  before it, and `ReevaluateMaps`: whoever it takes has fewer live entries ahead
  than there are free slots, and whoever comes before that one has fewer still
  (`AheadGrows`), so nobody of higher priority is left behind.
- `PriorityKept`: `Spec => StrictPriority`, and `OneDispatch`:
  `Spec => DispatchedOnce`, both from `OnlyDispatchers`: only `release` and
  `reevaluate_model_queues` put a request in `inFlight`.
- `OvershootsAreReevaluations`: `Spec => OnlyReevaluateOvershoots`. A transferred
  slot leaves the count, a reservation compares it, a release lowers it.

`CalibrationProofs` proves, for any workers, any number of calls and any bounds,
and under `Spec`, that is with every fault:

- `TypeCorrect`: `Spec => []TypeOK`;
- `GrowthRefused`: `Spec => []NoGrowthWhileCalibrating`. With `TypeOK` it is
  inductive: a session starts only while the worker is not busy, a growth begins
  only while no session is live, and the call a worker is busy with is not
  reused. Nothing in it depends on the server: "Refusing locally makes those
  races harmless" (`logos_bridge.py:587`).
- `HelloIsAuthority`: `Spec => HelloSettles`, from `HelloInv`: a broken link is
  empty (`Unlinked`); a command on its way was sent on the current session
  (`OnItsWay`); no start is sent to a worker that has not sent a status
  (`NoStartYet`); and while that lasts either hello and status are the next two
  messages, or the status is next and the mark is already right
  (`GreetingAhead`). `NodeStep` collects what all steps of a worker share.
- `MarksAgree`: `Spec => []MarkAgrees`, from `WordInv`. The property speaks of a
  worker with nothing on its way; the invariant says beforehand what the last word on
  the way will tell (`LastWord`: it agrees with what the worker does now), that a
  disconnected worker keeps no event back (`Mute`), and that once all words are heard
  a mark that is no guess is right, and so is the one a refused start puts back
  (`Told`).
- `SlotReasoned`: `Spec => []SlotHasReason`, from `SlotInv`, which adds to `HelloInv`
  that whoever holds the slot without a reason (`Reasoned`: a session, its end on
  the way, or that end lost) was sent a start that is not answered with a yes
  (`Held`), and that a yes, on its way or read, is said by a worker that began its
  session (`Accepted`, `AcceptedRead`). That something else than a start keeps a
  worker busy is `BusyOther`. The lemmas about `Append` and `Tail` are `AppendView`,
  `TailView` and `LastOfTail`.

`CalibrationSteadyProofs` proves what holds while nothing breaks and only the
orchestrator starts sessions (`SteadySpec`), for any workers and any number of
calls:

- `OneCalibrates`: `SteadySpec => []OneAtATime`;
- `MarkCovers`: `SteadySpec => []MarkCoversSession`.

Both follow from `SteadyInv`. Its heart is `SlotOK`: a worker is marked exactly
while it has the cluster's slot, whoever has it not is idle (no session, no event
kept back or on its way), and whoever has it began a session of whose end the
orchestrator does not know, or was sent a start that waits for its answer. The slot
therefore cannot be freed early by an event of another session. This needs that a
worker connects once and is greeted before anything else (`Connected`), that the
tick awaits one call at a time (`CallsOK`), and that the queues agree with the
session they speak of: a start on its way down meets an idle worker
(`StartsDown`), the answer to a start, on its way or read, tells what the worker
did (`StartsUp`, `StartsAnswered`), and nothing about a session follows its end
(`EndsLast`).
`SlotFreed`, a liveness property, is model-checked only.

`LaneActionsProofs` proves, for any lanes and requests and any number of tries,
actions and faults:

- `ActionsTyped`: `Spec => []TypeOK`.
- `MarksLift`: `Spec => []MarkIsLifted`. `MarksOK` adds two cases before the end of
  an action: a sleep that the report confirms has put the lane to sleep, and a
  marked lane that is being raised is not awake before its command is carried out.
  Both need that nobody else raises the lane unnoticed. `Pending` says so: a command
  under way that carries the number of the planner's action is that action's own and
  is awaited, and any other that raises a lane has the lane in `disturbed`. Numbers are
  not given twice (`Numbered`).
- `StopsSpare`: `Spec => StopSparesReported`, from `Spared`: while the lane drains, a
  task that was reported when it was marked, and that has not ended, is in every
  report; so once the drain has passed there is none left. A task that has ended
  never comes back, since an attempt is sent once and is at one place (`Attempts`).

`MarkIsLifted` was false at first, beyond the run's bounds: `disturbed` forgot a
lane when the next action on it ended, although a wake that had timed out was still
on its way. `Accounted`, the step of `Pending` that failed, showed it, and TLC with
five actions confirmed it; `EndUnmarked` now keeps such a lane. The inductive
invariant was checked by TLC first, on one lane with three actions, two tries and
two faults, with five actions, one try and one fault, and on two lanes.

`LaneManagerProofs` proves, for any lanes, ports, configurations and requests:

- `LanesTyped`: `Spec => []TypeOK`; `PortsStayOwn`: `Spec => []PortsAreOwn`;
  `CountsStayTrue`: `Spec => []CountIsTrue`. They hold together (`LanesOK`): there is
  one lemma per way a lane changes (it is added, detached, restarted, put to
  sleep, dies, wakes, is restored) that says what becomes of its port, its count
  and the requests on it.
- `AppliedOrPutBack`: `Spec => AppliedOrUndone`. `TxnOK` is what holds between the steps
  of `apply_lanes` and of its rollback: what is still to be done is as the plan
  says (`PlanOK`), what was done and not undone is known (`DoneOK`), every other
  lane is as asked and as before (`Progress`), and the port of a lane that may have to
  come back belongs to nobody but a lane that was added since and is undone first
  (`PortsKept`). While the lock is held by somebody else the lanes keep their ports and
  configurations (`TxnStill`).
- `RequestsSpared`: `Spec => DrainSparesRequests`. By `CountIsTrue` a lane whose count is
  nothing has nobody running on it (`NobodyRuns`), and `remove_lane` or a sleep looks at
  the count and acts in one step. For `apply_lanes`, `Owing` says that a request it found
  on a lane to be removed runs, if it still does, on a lane that is drained, until the
  lock is taken and no drain is left; requests do not change their lane or come back
  meanwhile (`Calm`). Requests counted after the drains are outside the claim: the
  code cuts them.

`LectureUnitProofs` proves, for any number of slides, requests, names and versions,
with failures and restarts:

- `UnitTyped`: `Spec => []TypeOK`, from `JobsOK`: the lock is held by the job that is at
  a step which needs it (`LockOwned`).
- `HiddenStays`: `Spec => []ReleasedStaysHidden`, for whatever slides the visibility
  requests list. `HiddenOK` says what is honoured of a snapshot (`Honoured`: every slide it
  hides is hidden in its chunks and its summary, but for the torn ones and for
  summaries made blind): the row's, while no visibility request is at work
  (`RowAgrees`); the closed row's, of the slides that request has passed (`ShowingAgrees`);
  and the one an ingestion carries over while there is no row (`KeptAgrees`). A request
  that stops half way leaves in `torn` what it had not reached.
- `FinishedWithPages`: `Spec => FinishedHasPages`, from `PagesOK`: an ingestion past its
  pages has stored them all but those its batch lost.
- `RenamesSurvive`: `Spec => RenameKept`, if no rename gives a unit a name it had before
  (`NamesApart`). Without it the property is false: a name that comes back is taken
  for the one the ingestion found (`lecture_unit_pipeline.py:110`). `NamesOK` says that
  the name of a rename is in use only after that rename, and that an
  ingestion which began before it finds it in the row.

`ChatRunProofs` proves, for any number of activity events, attempts, deltas and
faults, slow drafts included:

- `TypeCorrect`: `Spec => []TypeOK`, with `FailsBelow`: a sender that may still
  post has failed less often than ends its drafts.
- `ActivitiesFirst`: `Spec => []QueuedFirst`. What is in the executor's queue is
  on the list of futures or among those a call waits for (`QueuedTracked`), so a
  call that finds the list empty finds the queue empty; and an event is queued
  once (`QueuedDone`), so what comes later is none of what the call waited for.
- `EndIsLast`: `Spec => NothingAfterTerminal`. By `EndsLast` a terminal call marks
  the run before it drains, its POST finds the queue empty, nothing is queued
  after the mark, and no later call gets past it; by `LateOnce` and `SenderDrafting`
  at most one draft is left by then, and only if `stop()` gave up on it.
- `AnswerBeforeEnd`: `Spec => []TerminalHasAnswer`. By `AnswerKept` an answer that
  was sent is with Artemis, in the call under way, or kept as undelivered, and a
  terminal call carries what was kept.
- `DraftsEnd`: `Spec => []DraftsStopFirst`. A sender lives only in the stage it streams
  for, the agent or the refinement, or because `stop` gave up on it, and then it is
  stopped and posts what it has in hand and no more (`SenderDrafting`, `LateOnce`).

`RunInv` is their conjunction; `StepKinds` divides the steps into those that begin
a call, drain, post, queue, and those that leave the callback alone, and each
part of `RunInv` has a lemma with one step for each kind. Its two liveness
properties are model-checked only.

Every invariant and every action property of the passing runs is a theorem. Model-
checked only are the liveness properties (`WaiterIsServed`, `SlotFreed`, `Awakened`,
`BridgeReadsOn`, `RunsEnd`, `DraftFollows`, `CallsEnd`): the prover knows neither
fairness nor ENABLED.

## 5. What is not modelled

The parts marked `not_modelled` in `PROJECT.json`, each with its reason. Most of the
repository's lines are there: generated parsers and assessment modules of Athena,
web clients, pipelines of prompts, CRUD over databases, statistics and hardware
probes, none of which has an order of steps to check. Within the scheduler's code:
the estimates that rank candidates, statistics and recorded metrics, the FCFS and
utilization schedulers, which `start_pipeline` does not create (`main.py:2005`), the
direct-proxy mode that schedules nothing, and upstream HTTP. The memory ledgers and
the planner's choice of actions are arithmetic on megabytes that the planner's
executor, which is modelled, takes as decided.

## 6. Plan

1. *Done*: `SlotScheduler` and `Admission`, `Calibration`, `LaneActions`,
   `LaneManager`, `LectureUnit`, `ChatRun`, their runs, and the proofs of section 4.
2. *Done*: a theorem for every invariant and action property of a passing run.
3. `VramLedger`: reservations against reported free memory, with a proof that
   what is committed fits what was free, and where stale clean-up breaks it.
4. `RateLimiter` and `JobService`: small protocols, each with one or two properties.

------------------------------ MODULE ChatRun ------------------------------
(***************************************************************************)
(* What one chat run of Iris tells Artemis: ChatRunCallback, the threads   *)
(* that queue activity snapshots on it, PartialResultSender, and the       *)
(* pipeline that calls both.                                               *)
(*                                                                         *)
(* The pipeline's thread makes the synchronous calls, one after another.   *)
(* Snapshots of activities are queued for a one-thread executor; every     *)
(* synchronous call drains that queue before its POST.  Drafts of the      *)
(* answer are posted by a thread of their own, past the callback: while    *)
(* the agent runs or, in an exercise chat, while the hook has its answer   *)
(* refined.                                                                *)
(*                                                                         *)
(* A POST is received or not, and its sender sees a success or not: one    *)
(* whose response is lost is received and sent again.                      *)
(***************************************************************************)
EXTENDS Integers, Sequences, SequencesExt

CONSTANTS
    Emits,              \* activity events: each takes and queues a snapshot
    Attempts,           \* _DELIVERY_RETRY_ATTEMPTS
    DraftFailures,      \* consecutive failures after which drafts stop
    SlowDrafts,         \* whether a draft may be received and time out
    MaxDeltas,          \* bound: changes of the streamed text
    MaxIntermediate,    \* bound: intermediate messages
    MaxFaults           \* bound: POSTs that fail

ASSUME ChatRunAssumption ==
    /\ {Attempts, DraftFailures} \subseteq Nat \ {0}
    /\ SlowDrafts \in BOOLEAN
    /\ {MaxDeltas, MaxIntermediate, MaxFaults} \subseteq Nat

VARIABLES
    stage,              \* where the pipeline is
    exercise,           \* whether chat_mode is EXERCISE
    call,               \* the synchronous call it is in
    terminal,           \* _terminal_sent
    undelivered,        \* whether _undelivered_result_fields is set
    queue,              \* the executor's queue
    futures,            \* _running_update_futures
    emit,               \* the events' threads
    answered,           \* whether the pipeline has sent its answer
    title,              \* the session title: not made, deferred or attached
    sender,             \* PartialResultSender
    gaveUp,             \* whether stop() returned before its thread ended
    artemis,            \* what Artemis has received
    late,               \* history: drafts received when none is made any more
    sent,               \* intermediate messages so far
    deltas, faults

callback == <<call, terminal, undelivered, queue, futures>>
pipeline == <<stage, exercise, answered, title, sent>>
vars == <<pipeline, callback, emit, sender, gaveUp, artemis, late, deltas, faults>>

States    == {"RUNNING", "FINISHED", "FAILED"}
Terminals == {"FINISHED", "FAILED"}
NoCall    == [phase |-> "none"]
Ended     == call = NoCall

NoSender == [state |-> "off", stopped |-> FALSE, text |-> 0, epoch |-> 0,
             lastText |-> 0, lastEpoch |-> -1, out |-> 0, outEpoch |-> 0, fails |-> 0]

Init ==
    /\ stage = "start" /\ exercise \in BOOLEAN /\ answered = FALSE /\ title = "none" /\ sent = 0
    /\ call = NoCall /\ terminal = FALSE /\ undelivered = FALSE
    /\ queue = <<>> /\ futures = {}
    /\ emit = [e \in Emits |-> "idle"]
    /\ sender = NoSender
    /\ gaveUp = FALSE
    /\ artemis = [last |-> "none", end |-> "none", answer |-> FALSE, title |-> FALSE,
                  draft |-> 0]
    /\ late = 0
    /\ deltas = 0 /\ faults = 0

-----------------------------------------------------------------------------
(* A POST has two sides: whether Artemis receives it, and whether it        *)
(* returns a success.  A failure counts against the bound.                  *)
Outcomes == {[received |-> TRUE, ok |-> TRUE], [received |-> TRUE, ok |-> FALSE],
             [received |-> FALSE, ok |-> FALSE]}

Counts(o) ==
    /\ o.ok \/ faults < MaxFaults
    /\ faults' = IF o.ok THEN faults ELSE faults + 1

(* The state received last, and the one that ended the run.                 *)
Received(state, answer, withTitle) ==
    [artemis EXCEPT !.last = state, !.answer = @ \/ answer, !.title = @ \/ withTitle,
                    !.end = IF state \in Terminals THEN state ELSE @]

-----------------------------------------------------------------------------
(* Activity snapshots.                                                      *)

(* The tracker copies its items under its own lock ...                      *)
Snapshot(e) ==
    /\ stage \in {"prepare", "agent", "unrefined", "refine", "hook"}
    /\ emit[e] = "idle"
    /\ emit' = [emit EXCEPT ![e] = "copied"]
    /\ UNCHANGED <<pipeline, callback, sender, gaveUp, artemis, late, deltas, faults>>

(* ... and queues the copy later, unless a terminal update was begun.       *)
Enqueue(e) ==
    /\ emit[e] = "copied"
    /\ emit' = [emit EXCEPT ![e] = "done"]
    /\ IF terminal THEN UNCHANGED <<queue, futures>>
       ELSE queue' = Append(queue, e) /\ futures' = futures \cup {e}
    /\ UNCHANGED <<pipeline, call, terminal, undelivered, sender, gaveUp, artemis, late, deltas, faults>>

(* The executor's thread posts what was queued first, once.                 *)
PostQueued ==
    /\ queue # <<>>
    /\ queue' = Tail(queue)
    /\ \E o \in Outcomes :
          /\ Counts(o)
          /\ artemis' = IF o.received THEN Received("RUNNING", FALSE, FALSE) ELSE artemis
    /\ UNCHANGED <<pipeline, call, terminal, undelivered, futures, emit, sender, gaveUp, late, deltas>>

-----------------------------------------------------------------------------
(* Synchronous calls: check, merge, mark, drain, POST.                      *)

(* Mutants: the answer an earlier call could not deliver is not merged; a   *)
(* terminal call does not mark the run before it drains.                    *)
Merged_OwnOnly(own) == own
Marked_After(state) == terminal

(* _merge_undelivered_result.                                               *)
Merged(own) == own \/ undelivered

(* _mark_terminal_sent, before the drain.                                   *)
Marked(state) == terminal \/ state \in Terminals

Tries(op, state) ==
    IF op = "result" \/ (undelivered /\ state \in Terminals) THEN Attempts ELSE 1

(* A call that finds the run ended is rejected.  Only calls that go through *)
(* _send_chat_fields carry an undelivered answer.                           *)
Begin(op, state, withTitle) ==
    LET chat == op \in {"result", "fields"}
    IN  IF terminal
        THEN UNCHANGED <<call, terminal>>
        ELSE /\ call' = [phase   |-> "drain",
                         op      |-> op,
                         state   |-> state,
                         answer  |-> IF chat THEN Merged(op = "result") ELSE FALSE,
                         carried |-> chat /\ undelivered,
                         title   |-> withTitle,
                         left    |-> IF chat THEN Tries(op, state) ELSE 1,
                         waiting |-> {},
                         before  |-> ToSet(queue)]
             /\ terminal' = Marked(state)

Calls(op, state, withTitle) ==
    /\ Ended
    /\ Begin(op, state, withTitle)
    /\ UNCHANGED <<undelivered, queue, futures, emit, sender, artemis, late, deltas, faults>>

(* Mutants: the drain does not wait for what it took off the list, or does  *)
(* not take it off.                                                         *)
Waited_Never(S)   == TRUE
Remaining_Same(S) == S

Waited(S)    == S \cap ToSet(queue) = {}
Remaining(S) == {}

(* _drain_running_updates: take the list, wait for all of it, look again.   *)
Drain ==
    /\ call.phase = "drain"
    /\ Waited(call.waiting)
    /\ call' = IF futures = {} THEN [call EXCEPT !.phase = "post", !.waiting = {}]
               ELSE [call EXCEPT !.waiting = futures]
    /\ futures' = Remaining(futures)
    /\ UNCHANGED <<pipeline, terminal, undelivered, queue, emit, sender, gaveUp, artemis, late, deltas, faults>>

(* The POST, again while attempts are left.  What send_result could not     *)
(* deliver is kept; a success clears what it carried.                       *)
Post ==
    /\ call.phase = "post"
    /\ \E o \in Outcomes :
          /\ Counts(o)
          /\ artemis' = IF o.received THEN Received(call.state, call.answer, call.title) ELSE artemis
          /\ IF ~o.ok /\ call.left > 1
             THEN call' = [call EXCEPT !.left = @ - 1] /\ UNCHANGED undelivered
             ELSE /\ call' = NoCall
                  /\ undelivered' = IF o.ok THEN undelivered /\ ~call.carried
                                    ELSE undelivered \/ call.op = "result"
    /\ UNCHANGED <<pipeline, terminal, queue, futures, emit, sender, gaveUp, late, deltas>>

-----------------------------------------------------------------------------
(* PartialResultSender.  A text is the number of the delta that completed   *)
(* it, 0 the empty one.                                                     *)

(* The guide's handler passes a reset on once it streams.                   *)
OnDelta(reset) ==
    /\ stage \in {"agent", "refine"}
    /\ reset /\ stage = "refine" => sender.text # 0 \/ sender.epoch > 0
    /\ deltas < MaxDeltas
    /\ deltas' = deltas + 1
    /\ sender.state # "off" /\ ~sender.stopped
    /\ sender' = IF reset THEN [sender EXCEPT !.text = 0, !.epoch = @ + 1]
                 ELSE [sender EXCEPT !.text = deltas + 1]
    /\ UNCHANGED <<pipeline, callback, emit, gaveUp, artemis, late, faults>>

(* _next_payload: something new, and not the first of nothings.             *)
SomethingNew ==
    /\ ~(sender.text = sender.lastText /\ sender.epoch = sender.lastEpoch)
    /\ ~(sender.text = 0 /\ sender.lastText = 0)

NextPayload ==
    /\ sender.state = "waiting" /\ ~sender.stopped
    /\ SomethingNew
    /\ sender' = [sender EXCEPT !.state = "posting", !.out = sender.text,
                                !.outEpoch = sender.epoch]
    /\ UNCHANGED <<pipeline, callback, emit, gaveUp, artemis, late, deltas, faults>>

(* Mutant: a draft the text has moved on from is not recorded.              *)
Recorded_CurrentOnly(s) ==
    IF s.outEpoch # s.epoch THEN [s EXCEPT !.state = "waiting", !.fails = 0]
    ELSE [s EXCEPT !.state = "waiting", !.fails = 0, !.lastText = s.out, !.lastEpoch = s.outEpoch]

(* _record_success: what was delivered, whatever the text is by now.        *)
Recorded(s) ==
    [s EXCEPT !.state = "waiting", !.fails = 0, !.lastText = s.out, !.lastEpoch = s.outEpoch]

(* Mutant: failures are counted, and drafts go on.                          *)
Failed_NeverStops(s, refused) ==
    [s EXCEPT !.state = "waiting", !.fails = @ + 1, !.stopped = @ \/ refused]

(* _handle_failure: a refusal, or one failure too many, ends the drafts.    *)
Failed(s, refused) ==
    [s EXCEPT !.state = "waiting",
              !.fails = IF refused THEN @ ELSE @ + 1,
              !.stopped = @ \/ refused \/ s.fails + 1 >= DraftFailures]

(* Where drafts are made, and waited for.                                   *)
Drafting == {"agent", "stopped", "raised", "refine", "refined"}

(* A draft is a status update of a running run.                             *)
PostDraft ==
    /\ sender.state = "posting"
    /\ \E o \in Outcomes, refused \in BOOLEAN :
          /\ o.received => o.ok \/ SlowDrafts
          /\ refused => ~o.received
          /\ Counts(o)
          /\ sender' = IF o.ok THEN Recorded(sender) ELSE Failed(sender, refused)
          /\ artemis' = IF o.received
                        THEN [artemis EXCEPT !.last = "RUNNING", !.draft = sender.out]
                        ELSE artemis
          /\ late' = IF o.received /\ stage \notin Drafting THEN late + 1 ELSE late
    /\ UNCHANGED <<pipeline, callback, emit, gaveUp, deltas>>

SenderEnds ==
    /\ sender.state = "waiting" /\ sender.stopped
    /\ sender' = [NoSender EXCEPT !.state = "gone", !.stopped = TRUE]
    /\ UNCHANGED <<pipeline, callback, emit, gaveUp, artemis, late, deltas, faults>>

-----------------------------------------------------------------------------
(* The pipeline: AbstractAgentPipeline.__call__ with ChatPipeline's hook.   *)

Goes(to) == stage' = to /\ UNCHANGED <<exercise, answered, title, sent, gaveUp>>

Start     == stage = "start" /\ Goes("prepare") /\ Calls("update", "RUNNING", FALSE)

Streams == sender' = [NoSender EXCEPT !.state = "waiting"]

(* The agent runs, with a sender if the request asks for a stream and the   *)
(* answer is not to be refined.                                             *)
Agent ==
    /\ stage = "prepare" /\ Ended
    /\ (~exercise /\ Streams) \/ UNCHANGED sender
    /\ Goes("agent")
    /\ UNCHANGED <<callback, emit, artemis, late, deltas, faults>>

Intermediate ==
    /\ stage = "agent" /\ sent < MaxIntermediate
    /\ sent' = sent + 1
    /\ UNCHANGED <<stage, exercise, answered, title, gaveUp>>
    /\ Calls("intermediate", "RUNNING", FALSE)

(* stop(): no more drafts; then join, for a while, however the agent ended. *)
Stop ==
    /\ stage = "agent" /\ Ended
    /\ \E to \in {"stopped", "raised"} : Goes(to)
    /\ sender' = [sender EXCEPT !.stopped = TRUE]
    /\ UNCHANGED <<callback, emit, artemis, late, deltas, faults>>

(* The hook of an exercise chat has the answer refined, with a sender of    *)
(* its own if the request asks for a stream; whether that fails or not, it  *)
(* stops the sender and goes on.                                            *)
Refine ==
    /\ stage = "unrefined"
    /\ Streams \/ UNCHANGED sender
    /\ Goes("refine")
    /\ UNCHANGED <<callback, emit, artemis, late, deltas, faults>>

StopRefinement ==
    /\ stage = "refine"
    /\ Goes("refined")
    /\ sender' = [sender EXCEPT !.stopped = TRUE]
    /\ UNCHANGED <<callback, emit, artemis, late, deltas, faults>>

(* Mutant: stop() does not join.                                            *)
Joined_Never == TRUE

Joined == sender.state \in {"off", "gone"}

AfterJoin ==
    CASE stage = "raised" -> "broken"
      [] stage = "stopped" /\ exercise -> "unrefined"
      [] OTHER -> "hook"

Join ==
    /\ stage \in {"stopped", "raised", "refined"}
    /\ \/ Joined /\ UNCHANGED gaveUp
       \/ ~Joined /\ sender.state = "posting" /\ gaveUp' = TRUE
    /\ stage' = AfterJoin
    /\ UNCHANGED <<exercise, answered, title, sent, callback, emit, sender, artemis, late, deltas, faults>>

PrepareRaises ==
    /\ stage = "prepare" /\ Ended
    /\ Goes("broken")
    /\ UNCHANGED <<callback, emit, sender, artemis, late, deltas, faults>>

(* The hook sends the answer, or fails the run before it has one.           *)
SendResult ==
    /\ stage = "hook"
    /\ stage' = "answered" /\ answered' = TRUE
    /\ UNCHANGED <<exercise, title, sent, gaveUp>>
    /\ Calls("result", "RUNNING", FALSE)

HookFails  == stage = "hook" /\ Goes("trailing") /\ Calls("fields", "FAILED", FALSE)

(* The title is made after the answer was sent, or not at all.              *)
MakeTitle ==
    /\ stage = "answered" /\ Ended
    /\ title' \in {"none", "deferred"}
    /\ stage' = "titled"
    /\ UNCHANGED <<exercise, answered, sent, gaveUp, callback, emit, sender, artemis, late, deltas, faults>>

(* deferred_session_title_delivered is set once a call has taken the title. *)
Attached == IF title = "deferred" THEN "attached" ELSE title

Suggest(state) ==
    /\ stage = "titled"
    /\ stage' = "trailing"
    /\ title' = Attached
    /\ UNCHANGED <<exercise, answered, sent, gaveUp>>
    /\ Calls("fields", state, title = "deferred")
SendSuggestions  == Suggest("RUNNING")
SuggestionsFail  == Suggest("FAILED")
NoSuggestions ==
    /\ stage = "titled"
    /\ Goes("trailing")
    /\ UNCHANGED <<callback, emit, sender, artemis, late, deltas, faults>>

Finish    == stage = "trailing" /\ Goes("end") /\ Calls("fields", "FINISHED", title = "deferred")
RunFailed == stage = "broken" /\ Goes("end") /\ Calls("fields", "FAILED", FALSE)

Rest ==
    /\ stage = "end" /\ Ended /\ queue = <<>>
    /\ UNCHANGED vars

-----------------------------------------------------------------------------
Pipeline ==
    \/ Start \/ Agent \/ PrepareRaises \/ Intermediate \/ Stop \/ Join
    \/ Refine \/ StopRefinement
    \/ SendResult \/ HookFails \/ MakeTitle
    \/ SendSuggestions \/ SuggestionsFail \/ NoSuggestions \/ Finish \/ RunFailed

Activity == PostQueued \/ \E e \in Emits : Snapshot(e) \/ Enqueue(e)
Drafts   == NextPayload \/ PostDraft \/ SenderEnds \/ (\E reset \in BOOLEAN : OnDelta(reset))

Next == Pipeline \/ Drain \/ Post \/ Activity \/ Drafts \/ Rest

(* A POST returns or times out, and threads run.  The agent, whose length   *)
(* nothing bounds, need not go on.                                          *)
Fairness ==
    /\ WF_vars(Drain) /\ WF_vars(Post) /\ WF_vars(PostQueued)
    /\ WF_vars(NextPayload) /\ WF_vars(PostDraft) /\ WF_vars(SenderEnds)

Spec == Init /\ [][Next]_vars /\ Fairness

-----------------------------------------------------------------------------
(* Properties *)

Call == [phase : {"drain", "post"}, op : {"update", "intermediate", "result", "fields"},
         state : States, answer : BOOLEAN, carried : BOOLEAN, title : BOOLEAN,
         left : 1 .. Attempts, waiting : SUBSET Emits, before : SUBSET Emits]

(* The variables have their types.                                          *)
TypeOK ==
    /\ stage \in Drafting \cup {"start", "prepare", "unrefined", "hook", "answered", "titled",
                               "trailing", "broken", "end"}
    /\ exercise \in BOOLEAN
    /\ call \in Call \cup {NoCall}
    /\ terminal \in BOOLEAN /\ undelivered \in BOOLEAN
    /\ queue \in Seq(Emits)
    /\ futures \subseteq Emits
    /\ emit \in [Emits -> {"idle", "copied", "done"}]
    /\ answered \in BOOLEAN /\ title \in {"none", "deferred", "attached"}
    /\ sender \in [state : {"off", "waiting", "posting", "gone"}, stopped : BOOLEAN,
                   text : Nat, epoch : Nat, lastText : Nat, lastEpoch : Nat \cup {-1},
                   out : Nat, outEpoch : Nat, fails : 0 .. DraftFailures]
    /\ gaveUp \in BOOLEAN
    /\ artemis \in [last : States \cup {"none"}, end : Terminals \cup {"none"},
                    answer : BOOLEAN, title : BOOLEAN, draft : Nat]
    /\ late \in Nat
    /\ sent \in 0 .. MaxIntermediate /\ deltas \in 0 .. MaxDeltas /\ faults \in 0 .. MaxFaults

(* What was queued before a synchronous call is posted before it is: an     *)
(* intermediate message or an answer never overtakes the activities that    *)
(* led to it (_drain_running_updates).                                      *)
QueuedFirst ==
    call.phase = "post" => call.before \cap ToSet(queue) = {}

(* Once Artemis has a terminal update, all that still arrives is that same  *)
(* update again, if its response was lost, and the one draft stop() may     *)
(* have given up on (partial_result_sender.py:25-27), however late a thread *)
(* queues what it copied before (_enqueue_running_update's "terminal"       *)
(* check, _mark_terminal_sent before the drain).                            *)
Repeats   == artemis' = [artemis EXCEPT !.last = artemis.end]
Straggles ==
    /\ gaveUp /\ late = 0 /\ late' = 1
    /\ artemis' = [artemis EXCEPT !.last = "RUNNING", !.draft = sender.out]
NothingAfterTerminal ==
    [][artemis.end # "none" /\ artemis' # artemis => Repeats \/ Straggles]_vars

(* An answer is not lost to failed POSTs as long as Artemis hears of the    *)
(* end: whoever received the terminal update of a run that sent an answer   *)
(* has the answer (_undelivered_result_fields).                             *)
TerminalHasAnswer ==
    artemis.end # "none" /\ answered => artemis.answer

(* Drafts end with the stream they belong to, that of the agent or that of  *)
(* the refinement of an exercise chat: if stop() waited for the thread,     *)
(* none arrives in another stage, and if it gave up, at most one does.      *)
DraftsStopFirst ==
    late <= 1 /\ (late = 1 => gaveUp)

(* While an answer is streamed, by the agent or by its refinement, the      *)
(* draft Artemis shows catches up with the text, an emptied one included,   *)
(* or the sender has given up: no stale draft stays.                        *)
DraftFollows ==
    []<>(sender.state \in {"off", "gone"} \/ sender.stopped \/ artemis.draft = sender.text)

(* Every synchronous call returns, whatever is queued and whatever fails.   *)
CallsEnd == []<>Ended
=============================================================================

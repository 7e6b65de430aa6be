----------------------------- MODULE Calibration -----------------------------
(***************************************************************************)
(* Nightly calibration of worker nodes.  Three parties on three event      *)
(* loops: the orchestrator's CalibrationOrchestrator, which lets one       *)
(* worker at a time calibrate (capacity/calibration_orchestrator.py); the  *)
(* registry, which marks a calibrating worker so that the planner places   *)
(* no lane there (logosnode_registry.py); and the worker's bridge, which   *)
(* runs the session and reports it (logos_worker_node/logos_bridge.py).    *)
(* They share a WebSocket per worker: commands go down, hello, status,     *)
(* results and events come up, and everything on it is lost when it breaks.*)
(***************************************************************************)
EXTENDS Naturals, Sequences, FiniteSets

CONSTANTS
    Workers,
    Calls,       \* ids of send_command calls that may be under way at a time
    MaxUnsent,   \* bound: events a worker has not forwarded yet
    MaxUp,       \* bound: messages on the way to the orchestrator
    None

ASSUME CalibrationAssumption ==
    /\ MaxUnsent \in Nat /\ MaxUp \in Nat
    /\ None \notin Workers \cup Calls

VARIABLES
    inWindow,    \* the clock is inside the maintenance window
    wasIn,       \* CalibrationOrchestrator._was_in_window
    slot,        \* CalibrationOrchestrator._active_provider_id
    completed,   \* CalibrationOrchestrator._completed_this_window
    sess,        \* the registry's session of a worker: "none", "attached" (no
                 \* status yet) or "ready"
    mark,        \* ProviderSession.calibrating
    call,        \* the send_command calls
    link,        \* workers whose WebSocket works at both ends
    down,        \* commands on the way to a worker
    up,          \* messages on the way to the orchestrator
    busy,        \* the command _handle_message awaits; no other is read meanwhile
    live,        \* workers whose calibration session runs
    unsent,      \* live events the worker has recorded and not yet forwarded
    guess,       \* history: workers whose mark is a start's and not their word
    sure,        \* history: starts that found a mark that was the worker's word
                 \* and have not heard another since
    lost         \* history: the event that should free the slot was lost

orchVars == <<wasIn, slot, completed>>
regVars  == <<sess, mark, call>>
wireVars == <<link, down, up>>
nodeVars == <<busy, live, unsent>>
histVars == <<guess, sure, lost>>
vars     == <<inWindow, orchVars, regVars, wireVars, nodeVars, histVars>>

----------------------------------------------------------------------------
CallRecord ==
    [to : Workers, action : {"start", "stop", "grow"}, by : {"tick", "admin", "planner"},
     was  : BOOLEAN,   \* was_calibrating
     open : BOOLEAN,   \* the session it was sent on is still the current one
     state : {"waiting", "ok", "refused", "offline", "over"}]

ASSUME NoneAssumption == None \notin CallRecord

Hello(b)      == [type |-> "hello", calibrating |-> b]
Status        == [type |-> "status"]
Result(c, ok) == [type |-> "result", call |-> c, ok |-> ok]
Event(e)      == [type |-> "event", event |-> e]

Message == [type : {"hello"}, calibrating : BOOLEAN] \cup [type : {"status"}]
           \cup [type : {"result"}, call : Calls, ok : BOOLEAN]
           \cup [type : {"event"}, event : {"started", "ended"}]

TypeOK ==
    /\ inWindow \in BOOLEAN /\ wasIn \in BOOLEAN
    /\ slot \in Workers \cup {None}
    /\ completed \subseteq Workers
    /\ sess \in [Workers -> {"none", "attached", "ready"}]
    /\ mark \in [Workers -> BOOLEAN]
    /\ call \in [Calls -> CallRecord \cup {None}]
    /\ link \subseteq Workers
    /\ down \in [Workers -> Seq(Calls)]
    /\ up \in [Workers -> Seq(Message)]
    /\ busy \in [Workers -> Calls \cup {None}]
    /\ live \subseteq Workers
    /\ unsent \in [Workers -> Seq({"started", "ended"})]
    /\ guess \subseteq Workers /\ sure \subseteq Calls /\ lost \in BOOLEAN

Init ==
    /\ inWindow = FALSE /\ wasIn = FALSE
    /\ slot = None /\ completed = {}
    /\ sess = [w \in Workers |-> "none"]
    /\ mark = [w \in Workers |-> FALSE]
    /\ call = [c \in Calls |-> None]
    /\ link = {}
    /\ down = [w \in Workers |-> <<>>]
    /\ up = [w \in Workers |-> <<>>]
    /\ busy = [w \in Workers |-> None]
    /\ live = {}
    /\ unsent = [w \in Workers |-> <<>>]
    /\ guess = {} /\ sure = {} /\ lost = FALSE

----------------------------------------------------------------------------
(* LogosNodeRuntimeRegistry.send_command *)

Waiting(c) == call[c] # None /\ call[c].state # "over"

\* An id (a uuid in the code) may be used again once nothing mentions it.
Free(c) ==
    /\ ~Waiting(c)
    /\ \A w \in Workers :
        /\ busy[w] # c
        /\ \A i \in DOMAIN down[w] : down[w][i] # c
        /\ \A i \in DOMAIN up[w] : up[w][i].type = "result" => up[w][i].call # c

\* Mutant: the mark waits for the worker's own event.
Marked_OnEvent(w, action) == mark

\* Starting a session marks the worker before anything is sent.
Marked(w, action) == IF action = "start" THEN [mark EXCEPT ![w] = TRUE] ELSE mark

\* The command is registered and written to the socket; on a link that broke
\* unnoticed it goes nowhere.
Send(c, w, action, by) ==
    /\ Free(c) /\ sess[w] # "none"
    /\ call' = [call EXCEPT ![c] = [to |-> w, action |-> action, by |-> by,
                                    was |-> mark[w], open |-> TRUE, state |-> "waiting"]]
    /\ mark' = Marked(w, action)
    /\ down' = IF w \in link THEN [down EXCEPT ![w] = Append(@, c)] ELSE down
    /\ guess' = IF action = "start" THEN guess \cup {w} ELSE guess
    /\ sure' = IF w \in guess THEN sure \ {c} ELSE sure \cup {c}
    /\ UNCHANGED <<sess, link, up>>

\* Mutant: the optimistic mark is not undone.
Unmarked_Never(c, outcome) == mark

\* _undo_optimistic_calibration_mark, on the session object of the call.
Unmarked(c, outcome) ==
    IF call[c].action = "start" /\ outcome = "refused" /\ call[c].open
    THEN [mark EXCEPT ![call[c].to] = call[c].was] ELSE mark

\* Only a start that found the worker's word puts it back.
Guessed(c, outcome) ==
    IF call[c].action = "start" /\ outcome = "refused" /\ call[c].open
    THEN IF c \in sure THEN guess \ {call[c].to} ELSE guess \cup {call[c].to}
    ELSE guess

\* The call returns or raises, and _start_session_on or
\* _stop_active_session_if_any goes on when it was theirs.
Return(c, outcome) ==
    /\ call' = [call EXCEPT ![c].state = "over"]
    /\ mark' = Unmarked(c, outcome)
    /\ slot' = IF call[c].by = "tick" /\ outcome # "ok" THEN None ELSE slot
    /\ completed' = IF call[c].by = "tick" /\ call[c].action = "start" /\ outcome = "refused"
                    THEN completed \cup {call[c].to} ELSE completed
    /\ guess' = Guessed(c, outcome)
    /\ sure' = sure \ {c}
    /\ UNCHANGED <<inWindow, wasIn, sess, wireVars, nodeVars, lost>>

Answered(c) ==
    /\ Waiting(c) /\ call[c].state # "waiting"
    /\ Return(c, call[c].state)

TimesOut(c) == call[c] # None /\ call[c].state = "waiting" /\ Return(c, "offline")

----------------------------------------------------------------------------
(* CalibrationOrchestrator._tick; it awaits the command it sends. *)

TickIdle == \A c \in Calls : Waiting(c) => call[c].by # "tick"

\* A window edge clears the book-keeping.
CompletedNow == IF inWindow # wasIn THEN {} ELSE completed

Eligible == {w \in Workers \ CompletedNow : sess[w] = "ready"}

\* Mutant: a new session starts whatever the slot says.
SlotFree_Always == TRUE

SlotFree == slot = None

\* _pick_next_provider passes over workers that are unhealthy or in use, and
\* books those with nothing to calibrate as completed.
TickStarts(c, w) ==
    /\ TickIdle /\ inWindow /\ SlotFree
    /\ w \in Eligible
    /\ slot' = w
    /\ \E done \in SUBSET (Eligible \ {w}) : completed' = CompletedNow \cup done
    /\ wasIn' = inWindow
    /\ Send(c, w, "start", "tick")
    /\ lost' = FALSE
    /\ UNCHANGED <<inWindow, nodeVars>>

\* Nobody is picked, or the one who is cannot be reached.
TickStartsNobody ==
    /\ TickIdle /\ inWindow /\ SlotFree
    /\ slot' = None
    /\ \E done \in SUBSET Eligible : completed' = CompletedNow \cup done
    /\ wasIn' = inWindow
    /\ UNCHANGED <<inWindow, regVars, wireVars, nodeVars, histVars>>

TickStops(c) ==
    /\ TickIdle /\ ~inWindow /\ slot # None
    /\ completed' = CompletedNow /\ wasIn' = inWindow
    /\ Send(c, slot, "stop", "tick")
    /\ UNCHANGED <<inWindow, slot, nodeVars, lost>>

\* The active worker has no session or its socket refuses the command.
TickStopFails ==
    /\ TickIdle /\ ~inWindow /\ slot # None
    /\ slot \notin link
    /\ slot' = None
    /\ completed' = CompletedNow /\ wasIn' = inWindow
    /\ UNCHANGED <<inWindow, regVars, wireVars, nodeVars, histVars>>

\* A tick that has nothing to do but the book-keeping.
TickRests ==
    /\ TickIdle /\ (inWindow <=> slot # None) /\ inWindow # wasIn
    /\ completed' = CompletedNow /\ wasIn' = inWindow
    /\ UNCHANGED <<inWindow, slot, regVars, wireVars, nodeVars, histVars>>

\* The clock; a window and the pause between two are longer than a tick.
WindowTurns ==
    /\ wasIn = inWindow
    /\ inWindow' = ~inWindow
    /\ UNCHANGED <<orchVars, regVars, wireVars, nodeVars, histVars>>

\* The two admin endpoints (calibrate_uncalibrated) go past the orchestrator.
AdminStarts(c, w) ==
    /\ sess[w] = "ready"
    /\ Send(c, w, "start", "admin")
    /\ UNCHANGED <<inWindow, orchVars, nodeVars, lost>>

\* CapacityPlanner._is_plannable, checked again right before an action.
Plannable(w) == sess[w] = "ready" /\ ~mark[w]

\* A lane is added, applied, woken or reconfigured.
PlannerGrows(c, w) ==
    /\ Plannable(w)
    /\ Send(c, w, "grow", "planner")
    /\ UNCHANGED <<inWindow, orchVars, nodeVars, lost>>

----------------------------------------------------------------------------
(* The orchestrator's end of the socket *)

\* Mutant: the orchestrator is not subscribed.
OnEvent_NotSubscribed(w, e) ==
    /\ mark' = [mark EXCEPT ![w] = e = "started"]
    /\ UNCHANGED <<sess, call, slot, completed>>

\* Mutant: a terminal event frees the slot whoever sent it.
OnEvent_FromAnyone(w, e) ==
    /\ mark' = [mark EXCEPT ![w] = e = "started"]
    /\ slot' = IF e = "ended" THEN None ELSE slot
    /\ completed' = IF e = "ended" THEN completed \cup {slot} ELSE completed
    /\ UNCHANGED <<sess, call>>

\* _track_calibration_state and CalibrationOrchestrator._on_provider_event, both
\* called by append_event.
OnEvent(w, e) ==
    /\ mark' = [mark EXCEPT ![w] = e = "started"]
    /\ slot' = IF e = "ended" /\ slot = w THEN None ELSE slot
    /\ completed' = IF e = "ended" /\ slot = w THEN completed \cup {w} ELSE completed
    /\ UNCHANGED <<sess, call>>

\* on_command_result: an answer to a call that is gone is dropped.
OnResult(m) ==
    /\ call' = IF call[m.call] # None /\ call[m.call].state = "waiting"
               THEN [call EXCEPT ![m.call].state = IF m.ok THEN "ok" ELSE "refused"]
               ELSE call
    /\ UNCHANGED <<sess, mark, slot, completed>>

\* The mark is the worker's word now; no start knows it yet.
Heard(w) ==
    /\ guess' = guess \ {w}
    /\ sure' = {c \in sure : call[c].to # w}

\* logosnode_session handles one message after the other.
Receive(w) ==
    /\ up[w] # <<>>
    /\ up' = [up EXCEPT ![w] = Tail(@)]
    /\ LET m == Head(up[w]) IN
        \/ /\ m.type = "hello"
           /\ mark' = [mark EXCEPT ![w] = m.calibrating]
           /\ Heard(w)
           /\ UNCHANGED <<sess, call, slot, completed>>
        \/ /\ m.type = "status"
           /\ sess' = [sess EXCEPT ![w] = "ready"]
           /\ UNCHANGED <<mark, call, slot, completed, guess, sure>>
        \/ m.type = "result" /\ OnResult(m) /\ UNCHANGED <<guess, sure>>
        \/ m.type = "event" /\ OnEvent(w, m.event) /\ Heard(w)
    /\ UNCHANGED <<inWindow, wasIn, link, down, nodeVars, lost>>

\* The session of w ends or is replaced: the calls sent on it become orphans,
\* which get an answer only from a detach.
Orphaned(w, answer) ==
    [c \in Calls |->
        IF call[c] # None /\ call[c].open /\ call[c].to = w
        THEN [call[c] EXCEPT !.open = FALSE,
                             !.state = IF answer /\ @ = "waiting" THEN "offline" ELSE @]
        ELSE call[c]]

\* detach_session, once the handler sees the disconnect.
Detach(w) ==
    /\ w \notin link /\ sess[w] # "none"
    /\ sess' = [sess EXCEPT ![w] = "none"]
    /\ mark' = [mark EXCEPT ![w] = FALSE]
    /\ call' = Orphaned(w, TRUE)
    /\ Heard(w)
    /\ UNCHANGED <<inWindow, orchVars, wireVars, nodeVars, lost>>

----------------------------------------------------------------------------
(* The worker's bridge *)

\* The event that ends a session of w is on its way.
Ending(w) ==
    \/ \E i \in DOMAIN unsent[w] : unsent[w][i] = "ended"
    \/ \E i \in DOMAIN up[w] : up[w][i] = Event("ended")

LinkBreaks(w) ==
    /\ w \in link
    /\ link' = link \ {w}
    /\ down' = [down EXCEPT ![w] = <<>>]
    /\ up' = [up EXCEPT ![w] = <<>>]
    /\ unsent' = [unsent EXCEPT ![w] = <<>>]
    /\ lost' = (lost \/ (slot = w /\ Ending(w)))
    /\ UNCHANGED <<inWindow, orchVars, regVars, busy, live, guess, sure>>

\* Mutant: the status goes out first.
Greeting_StatusFirst(w) == <<Status, Hello(w \in live)>>

\* _send_hello with the authoritative state, then the first status.
Greeting(w) == <<Hello(w \in live), Status>>

\* _run connects again, not before _handle_message has returned; the server
\* attaches a new session, replacing one it has not detached yet.  Events that
\* are in the log by now are sent as replay, which changes nothing there.
Connect(w) ==
    /\ w \notin link /\ busy[w] = None
    /\ link' = link \cup {w}
    /\ sess' = [sess EXCEPT ![w] = "attached"]
    /\ mark' = [mark EXCEPT ![w] = FALSE]
    /\ call' = Orphaned(w, FALSE)
    /\ up' = [up EXCEPT ![w] = Greeting(w)]
    /\ Heard(w)
    /\ UNCHANGED <<inWindow, orchVars, down, nodeVars, lost>>

\* The worker's process dies and its session and event log with it.
Crash(w) ==
    /\ link' = link \ {w}
    /\ down' = [down EXCEPT ![w] = <<>>]
    /\ up' = [up EXCEPT ![w] = <<>>]
    /\ busy' = [busy EXCEPT ![w] = None]
    /\ live' = live \ {w}
    /\ unsent' = [unsent EXCEPT ![w] = <<>>]
    /\ lost' = (lost \/ (slot = w /\ (w \in live \/ Ending(w))))
    /\ UNCHANGED <<inWindow, orchVars, regVars, guess, sure>>

\* _record_calibration_event; without a link it only becomes backlog.
Record(w, e) ==
    /\ Len(unsent[w]) < MaxUnsent
    /\ unsent' = IF w \in link THEN [unsent EXCEPT ![w] = Append(@, e)] ELSE unsent

\* The answer to the command c; lost when the link is down.
Reply(w, c, ok) == up' = IF w \in link THEN [up EXCEPT ![w] = Append(@, Result(c, ok))] ELSE up

\* The next command is read: _handle_message awaits the one before.
NextCommand(w, action) ==
    /\ busy[w] = None /\ down[w] # <<>>
    /\ call[Head(down[w])].action = action
    /\ down' = [down EXCEPT ![w] = Tail(@)]

\* _handle_start_calibration_session and the first step of the session's task.
StartAccepted(w) ==
    /\ NextCommand(w, "start") /\ w \notin live
    /\ live' = live \cup {w}
    /\ Record(w, "started")
    /\ Reply(w, Head(down[w]), TRUE)
    /\ UNCHANGED <<inWindow, orchVars, regVars, link, busy, histVars>>

\* A session runs already.
StartRefused(w) ==
    /\ NextCommand(w, "start") /\ w \in live
    /\ Reply(w, Head(down[w]), FALSE)
    /\ UNCHANGED <<inWindow, orchVars, regVars, link, nodeVars, histVars>>

\* evaluate_node_health says no.
StartRefusedUnhealthy(w) ==
    /\ NextCommand(w, "start") /\ w \notin live
    /\ Reply(w, Head(down[w]), FALSE)
    /\ UNCHANGED <<inWindow, orchVars, regVars, link, nodeVars, histVars>>

\* Mutant: the bridge leaves the guard to the server.
GrowAllowed_Always(w) == TRUE

\* _execute_command: no lane grows while a session is live.
GrowAllowed(w) == w \notin live

GrowBegins(w) ==
    /\ NextCommand(w, "grow") /\ GrowAllowed(w)
    /\ busy' = [busy EXCEPT ![w] = Head(down[w])]
    /\ UNCHANGED <<inWindow, orchVars, regVars, link, up, live, unsent, histVars>>

GrowRefused(w) ==
    /\ NextCommand(w, "grow") /\ ~GrowAllowed(w)
    /\ Reply(w, Head(down[w]), FALSE)
    /\ UNCHANGED <<inWindow, orchVars, regVars, link, nodeVars, histVars>>

\* _handle_stop_calibration_session waits up to 15 seconds for the session.
StopBegins(w) ==
    /\ NextCommand(w, "stop")
    /\ busy' = [busy EXCEPT ![w] = Head(down[w])]
    /\ UNCHANGED <<inWindow, orchVars, regVars, link, up, live, unsent, histVars>>

\* The lane is up or failed; the session stopped, was not there or takes longer.
BusyEnds(w) ==
    /\ busy[w] # None
    /\ busy' = [busy EXCEPT ![w] = None]
    /\ Reply(w, busy[w], TRUE)
    /\ UNCHANGED <<inWindow, orchVars, regVars, link, down, live, unsent, histVars>>

\* The finally block of _run_calibration_session.
SessionEnds(w) ==
    /\ w \in live
    /\ live' = live \ {w}
    /\ Record(w, "ended")
    /\ lost' = (lost \/ (slot = w /\ w \notin link))
    /\ UNCHANGED <<inWindow, orchVars, regVars, wireVars, busy, guess, sure>>

\* _event_loop polls the log every second.
EventForwarded(w) ==
    /\ w \in link /\ unsent[w] # <<>> /\ Len(up[w]) < MaxUp
    /\ up' = [up EXCEPT ![w] = Append(@, Event(Head(unsent[w])))]
    /\ unsent' = [unsent EXCEPT ![w] = Tail(@)]
    /\ UNCHANGED <<inWindow, orchVars, regVars, link, down, busy, live, histVars>>

----------------------------------------------------------------------------
Ticking ==
    \/ \E c \in Calls : TickStops(c) \/ \E w \in Workers : TickStarts(c, w)
    \/ TickStartsNobody \/ TickStopFails \/ TickRests

\* What goes on at a worker and its socket while nothing breaks.
Working(w) ==
    \/ Receive(w) \/ EventForwarded(w)
    \/ StartAccepted(w) \/ StartRefused(w) \/ GrowBegins(w) \/ GrowRefused(w)
    \/ StopBegins(w) \/ BusyEnds(w)

\* Nothing breaks, nobody is late, and only the orchestrator starts sessions.
TickingNext ==
    \/ Ticking \/ WindowTurns
    \/ \E c \in Calls : Answered(c)
    \/ \E w \in Workers :
         Working(w) \/ StartRefusedUnhealthy(w) \/ SessionEnds(w) \/ Connect(w)

\* The planner places lanes meanwhile.
SteadyNext == TickingNext \/ \E c \in Calls, w \in Workers : PlannerGrows(c, w)

\* The admin endpoints are used as well.
AdminNext == SteadyNext \/ \E c \in Calls, w \in Workers : AdminStarts(c, w)

\* Connections break, workers crash, commands time out.
Faults ==
    \/ \E c \in Calls : TimesOut(c)
    \/ \E w \in Workers : LinkBreaks(w) \/ Detach(w) \/ Crash(w)

Next == AdminNext \/ Faults

\* The loops of all parties run, a session ends (each probe has a timeout), a
\* worker connects, the clock moves on, and a tick comes every minute.
Fairness ==
    /\ \A w \in Workers :
        /\ WF_vars(Receive(w)) /\ WF_vars(EventForwarded(w)) /\ WF_vars(Working(w))
        /\ WF_vars(SessionEnds(w)) /\ WF_vars(Connect(w))
    /\ \A c \in Calls : WF_vars(Answered(c))
    /\ WF_vars(Ticking) /\ WF_vars(WindowTurns)

Spec       == Init /\ [][Next]_vars
SteadySpec == Init /\ [][SteadyNext]_vars /\ Fairness

----------------------------------------------------------------------------
(* Properties *)

Growing(w) == busy[w] # None /\ call[busy[w]].action = "grow"

\* No lane grows on a worker while its probes hold the memory, whatever the
\* server believes at that time: "Refusing locally makes those races harmless"
\* (logos_bridge.py:582-587).
NoGrowthWhileCalibrating == \A w \in live : ~Growing(w)

\* A reconnecting worker that calibrates is marked before its session becomes
\* plannable (logosnode_registry.py:599-604).
HelloSettles ==
    [][\A w \in live : sess[w] = "attached" /\ sess'[w] = "ready" => mark'[w]]_vars

\* "Only one worker calibrates at a time across the cluster"
\* (calibration_orchestrator.py:19).
OneAtATime == \A v, w \in live : v = w

\* The mark is up before the session is, and comes down after it: the planner
\* never takes a calibrating worker for free (logosnode_registry.py:925-932).
MarkCoversSession == \A w \in live : ~Plannable(w)

\* "The worker's terminal event, or its hello on the next connect, settles the
\* flag either way" (logosnode_registry.py:970-971): the mark of a connected
\* worker with no word on its way says whether it calibrates, whatever timed out
\* or broke before, unless it was put there by a start the worker has not said
\* anything about, or put back by one that was refused after a newer word.
MarkAgrees ==
    \A w \in link \ guess :
        up[w] = <<>> /\ unsent[w] = <<>> => (mark[w] <=> w \in live)

\* The slot is held for a session that runs, for a start under way or until an
\* event arrives that is on its way, and for ever only if that event was lost
\* with a connection or a process: "a stale active slot would block other
\* workers" (calibration_orchestrator.py:426-427).
SlotHasReason ==
    \A w \in Workers \ live :
        /\ slot = w /\ up[w] = <<>> /\ unsent[w] = <<>>
        /\ \A c \in Calls : Waiting(c) => call[c].to # w
        => lost

\* While nothing breaks, the slot is freed once the session it stands for is
\* over, "so the next tick can pick someone else" (calibration_orchestrator.py:
\* 15-16), whether the event or the answer to the start comes first.
SlotFreed ==
    \A w \in Workers : slot = w /\ w \notin live ~> slot # w \/ w \in live
=============================================================================

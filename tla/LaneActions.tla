---------------------------- MODULE LaneActions ----------------------------
(***************************************************************************)
(* The capacity planner puts lanes of a Logos worker to sleep, wakes,      *)
(* loads and stops them while requests are routed to them.  Between the    *)
(* two stand the cold marks, which keep lane selection away from a lane    *)
(* that is about to go, and the worker's reports, which are always older   *)
(* than the lanes they describe.                                           *)
(*                                                                         *)
(* The planner works on one action at a time.  The worker reads commands   *)
(* and requests in the order they were sent, carries out one lane command  *)
(* at a time and answers it on the connection it came over; requests are   *)
(* tasks beside it.  LaneManager has the worker's side in detail.          *)
(***************************************************************************)
EXTENDS Integers, Sequences

CONSTANTS
    Lanes,          \* the planner's lanes for one model
    Requests,
    None,
    MaxTries,       \* _LOGOSNODE_PRETOKEN_RETRIES + 1
    MaxActions,     \* bound: actions the planner starts
    MaxFaults       \* bound: broken connections and processes that die

ASSUME LaneActionsAssumption ==
    MaxTries \in Nat \ {0} /\ MaxActions \in Nat /\ MaxFaults \in Nat

VARIABLES
    lane,       \* the worker's lanes
    tasks,      \* the worker's inference tasks
    work,       \* the lane command the worker is carrying out
    wire,       \* messages on their way to the worker
    conn,       \* the connection: "up", "broken", or "down" on the worker's side too
    session,    \* the orchestrator's ProviderSession, with the last report
    mark,       \* _cold_marked_lanes
    act,        \* the action the planner is executing
    req,        \* the requests, as the orchestrator has them
    early,      \* tasks that were reported when the action's lane was marked
    disturbed,  \* lanes that changed, or may have, without the planner being told
    actions, faults

worker == <<lane, tasks, work>>
vars   == <<worker, wire, conn, session, mark, act, req, early, disturbed, actions, faults>>

-----------------------------------------------------------------------------
LaneStates == {"gone", "starting", "awake", "asleep"}
Kinds      == {"sleep", "wake", "load", "stop"}
Takes(kind) == kind \in {"sleep", "stop"}

Tasks    == [req : Requests, try : 1..MaxTries, lane : Lanes, pc : {"arrived", "running"}]
Commands == [kind : Kinds, lane : Lanes, n : 1..MaxActions]
Infers   == [kind : {"infer"}, req : Requests, try : 1..MaxTries, lane : Lanes]

ASSUME NoneAssumption == None \notin Lanes /\ None \notin Commands

NoReport(open) == [open |-> open, told |-> FALSE,
                   state |-> [l \in Lanes |-> "gone"], active |-> {}]
NoAction == [pc |-> "idle", kind |-> None, lane |-> None, n |-> 0, here |-> FALSE]

RunningOn(l) == {t \in tasks : t.lane = l /\ t.pc = "running"}

(* The worker has been up for a while, with every lane awake.              *)
Init ==
    /\ lane = [l \in Lanes |-> "awake"]
    /\ tasks = {} /\ work = None /\ wire = <<>>
    /\ conn = "up" /\ session = NoReport(TRUE)
    /\ mark = {} /\ act = NoAction /\ early = {} /\ disturbed = {}
    /\ req = [r \in Requests |-> [pc |-> "new", lane |-> None, try |-> 0, here |-> FALSE]]
    /\ actions = 0 /\ faults = 0

-----------------------------------------------------------------------------
(* Requests.  Once a lane is selected every attempt goes to that lane.      *)

Selectable(l) == session.state[l] \in {"awake", "starting"} /\ l \notin mark

Select(r, l) ==
    /\ req[r].pc = "new"
    /\ session.open /\ Selectable(l)
    /\ req' = [req EXCEPT ![r] = [pc |-> "selected", lane |-> l, try |-> 1, here |-> FALSE]]
    /\ UNCHANGED <<worker, wire, conn, session, mark, act, early, disturbed, actions, faults>>

(* The resolver tries for two minutes, then there is no lane.               *)
NoLane(r) ==
    /\ req[r].pc = "new"
    /\ \A l \in Lanes : ~(session.open /\ Selectable(l))
    /\ req' = [req EXCEPT ![r].pc = "done"]
    /\ UNCHANGED <<worker, wire, conn, session, mark, act, early, disturbed, actions, faults>>

Sent(m) == wire' = IF conn = "up" THEN Append(wire, m) ELSE wire

(* Mutant: one attempt too many.                                            *)
Failed_Unbounded(r, why) ==
    [req EXCEPT ![r] = IF @.try <= MaxTries THEN [@ EXCEPT !.pc = "selected", !.try = @ + 1]
                       ELSE [@ EXCEPT !.pc = why]]

(* A pre-token failure is tried again, on the same lane.                    *)
Failed(r, why) ==
    LET q == req[r]
    IN  [req EXCEPT ![r] = IF q.try < MaxTries
                           THEN [q EXCEPT !.pc = "selected", !.try = q.try + 1]
                           ELSE [q EXCEPT !.pc = why]]

Send(r) ==
    /\ req[r].pc = "selected"
    /\ \/ /\ session.open
          /\ Sent([kind |-> "infer", req |-> r, try |-> req[r].try, lane |-> req[r].lane])
          /\ req' = [req EXCEPT ![r].pc = "waiting", ![r].here = TRUE]
       \/ /\ ~session.open \/ conn # "up"
          /\ req' = Failed(r, "done")
          /\ UNCHANGED wire
    /\ UNCHANGED <<worker, conn, session, mark, act, early, disturbed, actions, faults>>

(* No answer in time; a stream that had begun is not tried again.           *)
StreamTimeout(r) ==
    /\ req[r].pc = "waiting"
    /\ req' \in {Failed(r, "done"), [req EXCEPT ![r].pc = "done"]}
    /\ UNCHANGED <<worker, wire, conn, session, mark, act, early, disturbed, actions, faults>>

-----------------------------------------------------------------------------
(* The planner.                                                            *)

Begin(kind, l, pc) ==
    act' = [pc |-> pc, kind |-> kind, lane |-> l, n |-> actions + 1, here |-> pc = "await"]

(* A wake or a load of l that the worker has not carried out.               *)
Rising(l) ==
    LET Raises(m) == m.kind \in {"wake", "load"} /\ m.lane = l
    IN  \/ work # None /\ Raises(work)
        \/ \E i \in DOMAIN wire : Raises(wire[i])

(* An action ends; the lane may be selected again.  A wake or a load that   *)
(* nobody heard of, and that is still to come, leaves it disturbed.         *)
EndUnmarked ==
    /\ act' = NoAction
    /\ mark' = mark \ {act.lane}
    /\ early' = {}
    /\ disturbed' = IF Rising(act.lane) THEN disturbed ELSE disturbed \ {act.lane}

EndMarked ==
    /\ act' = NoAction
    /\ early' = {}
    /\ UNCHANGED <<mark, disturbed>>

Worth(kind, l) ==
    LET s == session.state[l]
    IN  \/ kind = "sleep" /\ s = "awake"
        \/ kind = "wake"  /\ s = "asleep"
        \/ kind = "load"  /\ s = "gone"
        \/ kind = "stop"  /\ s \in {"awake", "asleep"}

(* A sleep or a stop marks the lane, then waits for its requests; a wake or *)
(* a load is sent at once.  A provider that has not reported is left alone. *)
StartAction(kind, l) ==
    /\ act.pc = "idle" /\ actions < MaxActions
    /\ session.open /\ session.told /\ Worth(kind, l)
    /\ actions' = actions + 1
    /\ IF Takes(kind)
       THEN /\ Begin(kind, l, "drain")
            /\ mark' = mark \cup {l}
            /\ early' = {t \in session.active : t.lane = l} \cap tasks
            /\ UNCHANGED wire
       ELSE /\ \/ /\ Begin(kind, l, "await")
                  /\ Sent([kind |-> kind, lane |-> l, n |-> actions + 1])
               \/ conn # "up" /\ UNCHANGED <<act, wire>>         \* it cannot be sent
            /\ UNCHANGED <<mark, early>>
    /\ UNCHANGED <<worker, conn, session, req, disturbed, faults>>

(* Mutant: an action does not wait for the lane's requests.                 *)
Drained_Always(l) == TRUE

Drained(l) ==
    \/ ~session.open
    \/ session.state[l] = "gone"
    \/ \A t \in session.active : t.lane # l

Drain ==
    /\ act.pc = "drain"
    /\ Drained(act.lane)
    /\ \/ /\ session.open
          /\ Sent([kind |-> act.kind, lane |-> act.lane, n |-> act.n])
          /\ act' = [act EXCEPT !.pc = "await", !.here = TRUE]
          /\ UNCHANGED <<mark, early, disturbed>>
       \/ /\ ~session.open \/ conn # "up"
          /\ EndUnmarked
          /\ UNCHANGED wire
    /\ UNCHANGED <<worker, conn, session, req, actions, faults>>

DrainTimeout ==
    /\ act.pc = "drain"
    /\ ~Drained(act.lane)
    /\ EndUnmarked
    /\ UNCHANGED <<worker, wire, conn, session, req, actions, faults>>

(* Mutant: a sleep that could not be sent leaves its mark.                  *)
CommandFailed_Marked ==
    IF act.kind = "stop" THEN EndUnmarked ELSE EndMarked

CommandFailed == IF Takes(act.kind) THEN EndUnmarked ELSE EndMarked

(* The command may still be carried out.                                    *)
Unheard ==
    IF Takes(act.kind) THEN EndUnmarked
    ELSE /\ act' = NoAction /\ early' = {} /\ UNCHANGED mark
         /\ disturbed' = disturbed \cup {act.lane}

CommandTimeout ==
    /\ act.pc = "await"
    /\ Unheard
    /\ UNCHANGED <<worker, wire, conn, session, req, actions, faults>>

(* _check_expected_state on the last report.                                *)
Expected ==
    LET s == session.state[act.lane]
    IN  \/ act.kind = "sleep" /\ s = "asleep"
        \/ act.kind \in {"wake", "load"} /\ s = "awake"
        \/ act.kind = "stop" /\ s = "gone"

(* Mutant: a woken lane keeps the mark its sleep was given.                 *)
Confirmed_WakeKeepsMark ==
    IF act.kind \in {"sleep", "wake"} THEN EndMarked ELSE EndUnmarked

(* Only a lane that sleeps stays marked.                                    *)
Confirmed == IF act.kind = "sleep" THEN EndMarked ELSE EndUnmarked

Confirm ==
    /\ act.pc = "poll"
    /\ session.open /\ Expected
    /\ Confirmed
    /\ UNCHANGED <<worker, wire, conn, session, req, actions, faults>>

PollTimeout ==
    /\ act.pc = "poll"
    /\ ~(session.open /\ Expected)
    /\ IF act.kind = "sleep" THEN EndUnmarked
       ELSE /\ act' = NoAction /\ early' = {} /\ UNCHANGED mark
            /\ disturbed' = disturbed \cup {act.lane}
    /\ UNCHANGED <<worker, wire, conn, session, req, actions, faults>>

-----------------------------------------------------------------------------
(* The worker.                                                             *)

Take ==
    /\ work = None /\ wire # <<>>
    /\ LET m == Head(wire)
       IN  IF m.kind = "infer"
           THEN /\ tasks' = tasks \cup {[req |-> m.req, try |-> m.try, lane |-> m.lane, pc |-> "arrived"]}
                /\ UNCHANGED <<lane, work>>
           ELSE /\ work' = m
                /\ lane' = IF m.kind = "load" /\ lane[m.lane] = "gone"
                           THEN [lane EXCEPT ![m.lane] = "starting"] ELSE lane
                /\ UNCHANGED tasks
    /\ wire' = Tail(wire)
    /\ UNCHANGED <<conn, session, mark, act, req, early, disturbed, actions, faults>>

Awaited == act.pc = "await" /\ work # None /\ act.n = work.n

(* The answer reaches the planner that still waits for it.                  *)
Answer(ok) ==
    /\ work' = None
    /\ IF conn = "up" /\ Awaited
       THEN IF ok THEN act' = [act EXCEPT !.pc = "poll"] /\ UNCHANGED <<mark, early, disturbed>>
            ELSE CommandFailed
       ELSE UNCHANGED <<act, mark, early, disturbed>>
    /\ UNCHANGED <<wire, conn, session, req, actions, faults>>

Becomes(s) == lane' = [lane EXCEPT ![work.lane] = s]

(* A request that is running calls a sleep off.                             *)
SleepLane ==
    /\ work # None /\ work.kind = "sleep"
    /\ \/ lane[work.lane] \in {"awake", "asleep"} /\ RunningOn(work.lane) = {}
          /\ Becomes("asleep") /\ Answer(TRUE)
       \/ lane[work.lane] = "awake" /\ RunningOn(work.lane) # {}
          /\ UNCHANGED lane /\ Answer(TRUE)
       \/ UNCHANGED lane /\ Answer(FALSE)
    /\ UNCHANGED tasks

(* A lane that runs out of memory as it wakes is removed.                   *)
WakeLane ==
    /\ work # None /\ work.kind = "wake"
    /\ \/ lane[work.lane] \in {"awake", "asleep"} /\ Becomes("awake") /\ Answer(TRUE)
       \/ lane[work.lane] = "asleep" /\ Becomes("gone") /\ Answer(FALSE)
       \/ UNCHANGED lane /\ Answer(FALSE)
    /\ UNCHANGED tasks

LoadLane ==
    /\ work # None /\ work.kind = "load"
    /\ \/ lane[work.lane] = "starting" /\ Becomes("awake") /\ Answer(TRUE)
       \/ lane[work.lane] = "starting" /\ Becomes("gone") /\ Answer(FALSE)
       \/ lane[work.lane] # "starting" /\ UNCHANGED lane /\ Answer(FALSE)
    /\ UNCHANGED tasks

(* A removal waits for the lane's requests, but not for ever.               *)
StopLane ==
    /\ work # None /\ work.kind = "stop"
    /\ \/ /\ lane[work.lane] \in {"awake", "asleep"}
          /\ Becomes("gone") /\ Answer(TRUE)
          /\ tasks' = tasks \ RunningOn(work.lane)
       \/ lane[work.lane] = "gone" /\ UNCHANGED <<lane, tasks>> /\ Answer(FALSE)

(* acquire_lane_for_infer: counted, or refused.                             *)
Acquire(t) ==
    /\ t.pc = "arrived" /\ lane[t.lane] # "starting"
    /\ IF lane[t.lane] = "awake"
       THEN /\ tasks' = (tasks \ {t}) \cup {[t EXCEPT !.pc = "running"]}
            /\ UNCHANGED req
       ELSE /\ tasks' = tasks \ {t}
            /\ req' = IF conn = "up" /\ req[t.req].pc = "waiting" /\ req[t.req].try = t.try
                      THEN Failed(t.req, "refused") ELSE req
    /\ UNCHANGED <<lane, work, wire, conn, session, mark, act, early, disturbed, actions, faults>>

Finish(t) ==
    /\ t.pc = "running"
    /\ tasks' = tasks \ {t}
    /\ req' = IF conn = "up" /\ req[t.req].pc = "waiting" /\ req[t.req].try = t.try
              THEN [req EXCEPT ![t.req].pc = "done"] ELSE req
    /\ UNCHANGED <<lane, work, wire, conn, session, mark, act, early, disturbed, actions, faults>>

(* update_runtime: the worker's report replaces the last one.               *)
Report ==
    /\ conn = "up" /\ session.open
    /\ session' = [open |-> TRUE, told |-> TRUE, state |-> lane,
                   active |-> {t \in tasks : t.pc = "running"}]
    /\ UNCHANGED <<worker, wire, conn, mark, act, req, early, disturbed, actions, faults>>

-----------------------------------------------------------------------------
(* The connection.                                                         *)

Fault == faults < MaxFaults /\ faults' = faults + 1

Break ==
    /\ Fault
    /\ conn = "up" /\ conn' = "broken"
    /\ UNCHANGED <<worker, wire, session, mark, act, req, early, disturbed, actions>>

(* What was sent over this session is answered with "Worker disconnected".  *)
Detach ==
    /\ conn # "up" /\ session.open
    /\ session' = NoReport(FALSE)
    /\ req' \in {[r \in Requests |-> IF req[r].pc = "waiting" /\ req[r].here
                                     THEN Failed(r, "done")[r] ELSE req[r]],
                 [r \in Requests |-> IF req[r].pc = "waiting" /\ req[r].here
                                     THEN [req[r] EXCEPT !.pc = "done"] ELSE req[r]]}
    /\ IF act.pc = "await" /\ act.here THEN Unheard
       ELSE UNCHANGED <<act, mark, early, disturbed>>
    /\ UNCHANGED <<worker, wire, conn, actions, faults>>

(* The bridge ends the lane command it is carrying out before it sees that  *)
(* the connection is lost; then it cancels the request tasks.               *)
WorkerNotices ==
    /\ conn = "broken" /\ work = None
    /\ conn' = "down"
    /\ wire' = <<>> /\ tasks' = {}
    /\ UNCHANGED <<lane, work, session, mark, act, req, early, disturbed, actions, faults>>

(* attach_session.  What waits on a session that is replaced is not told.   *)
Reconnect ==
    /\ conn = "down" /\ conn' = "up"
    /\ session' = NoReport(TRUE)
    /\ act' = [act EXCEPT !.here = FALSE]
    /\ req' = [r \in Requests |-> [req[r] EXCEPT !.here = FALSE]]
    /\ UNCHANGED <<worker, wire, mark, early, disturbed, actions, faults>>

(* A process dies; the worker's status loop starts the lane again, or ends it. *)
Crash(l) ==
    /\ Fault
    /\ lane[l] \in {"awake", "asleep"}
    /\ \E s \in {"awake", "gone"} : lane' = [lane EXCEPT ![l] = s]
    /\ tasks' = tasks \ RunningOn(l)
    /\ disturbed' = disturbed \cup {l}
    /\ UNCHANGED <<work, wire, conn, session, mark, act, req, early, actions>>

-----------------------------------------------------------------------------
Ask     == \E r \in Requests : Send(r) \/ StreamTimeout(r) \/ NoLane(r) \/ \E l \in Lanes : Select(r, l)
Execute == Drain \/ DrainTimeout \/ CommandTimeout \/ Confirm \/ PollTimeout
Serve   == \/ Take \/ SleepLane \/ WakeLane \/ LoadLane \/ StopLane
           \/ \E t \in tasks : Acquire(t) \/ Finish(t)
Link    == Detach \/ WorkerNotices \/ Reconnect

Next ==
    \/ Ask \/ Execute \/ Serve \/ Report \/ Link \/ Break
    \/ \E kind \in Kinds, l \in Lanes : StartAction(kind, l)
    \/ \E l \in Lanes : Crash(l)

(* Loops and timeouts go on; the planner need not start anything, no       *)
(* request need come, and nothing need break.                              *)
Fairness ==
    /\ WF_vars(Execute) /\ WF_vars(Report) /\ WF_vars(Link)
    /\ WF_vars(Take) /\ WF_vars(SleepLane \/ WakeLane \/ LoadLane \/ StopLane)

Spec == Init /\ [][Next]_vars /\ Fairness

-----------------------------------------------------------------------------
TypeOK ==
    /\ lane \in [Lanes -> LaneStates]
    /\ tasks \subseteq Tasks /\ early \subseteq Tasks
    /\ work \in Commands \cup {None}
    /\ wire \in Seq(Commands \cup Infers)
    /\ conn \in {"up", "broken", "down"}
    /\ session.open \in BOOLEAN /\ session.told \in BOOLEAN
    /\ session.state \in [Lanes -> LaneStates] /\ session.active \subseteq Tasks
    /\ mark \subseteq Lanes /\ disturbed \subseteq Lanes
    /\ act.pc \in {"idle", "drain", "await", "poll"}
    /\ act.pc # "idle" => act.kind \in Kinds /\ act.lane \in Lanes /\ act.n \in 1..MaxActions
    /\ \A r \in Requests : req[r].pc \in {"new", "selected", "waiting", "done", "refused"}
    /\ actions \in 0..MaxActions /\ faults \in 0..MaxFaults

(* A lane that is awake is not left marked by an action that is over,      *)
(* unless the lane changed behind the planner's back: its process died, or *)
(* a wake or a load was not heard of in time.                              *)
MarkIsLifted ==
    \A l \in mark : lane[l] = "awake" /\ act.lane # l => l \in disturbed

(* While the planner waits for a stop to be carried out, it never cuts a   *)
(* request that the worker had reported when the lane was marked.          *)
StopSparesReported ==
    [][StopLane /\ Awaited => early \cap tasks \subseteq tasks']_vars

(* A request that the worker refused because its lane was on its way out   *)
(* does not fail while another could be selected (acquire_lane_for_infer). *)
RefusalReroutes ==
    [][\A r \in Requests : req[r].pc # "refused" /\ req'[r].pc = "refused"
                              => ~\E l \in Lanes : session.open /\ Selectable(l)]_vars

(* A lane does not stay awake and marked, whatever the planner was doing,  *)
(* but for the cases MarkIsLifted names.                                   *)
Awakened == \A l \in Lanes : [](l \in mark => <>(l \notin mark \/ lane[l] # "awake" \/ l \in disturbed))
=============================================================================

--------------------------- MODULE SlotScheduler ---------------------------
(***************************************************************************)
(* The request scheduler of the Logos orchestrator: the model-only         *)
(* priority queue (queue/priority_queue.py), the ETTFT-correcting          *)
(* scheduler (pipeline/correcting_scheduler.py on top of                   *)
(* pipeline/base_scheduler.py), and the slot accounting it keeps in the    *)
(* SDI facade (sdi/logosnode_facade.py, sdi/providers/logosnode_provider). *)
(*                                                                         *)
(* Everything runs on one asyncio event loop, so the code between two      *)
(* awaits is one action.  A queued request waits on a Future; whoever      *)
(* dispatches it does not resume it but schedules Future.set_result with   *)
(* call_soon_threadsafe, so a dispatch takes three steps of the loop:      *)
(*     dispatch -> DeliverResult (set_result) -> Resume (the waiter).      *)
(* A timeout or a client disconnect may fall between any two of them.      *)
(***************************************************************************)
EXTENDS Integers, FiniteSets

CONSTANTS
    Requests,     \* request ids; a request is submitted once
    Models,       \* model ids
    Local,        \* logosnode providers: worker nodes whose slots are counted
    Cloud,        \* azure and cloud providers: no slots, accept or reject
    Capacity,     \* get_parallel_capacity of a (model, worker) deployment
    Wants,        \* the models classification leaves a request to choose from
    Prio,         \* LOW = 1, NORMAL = 5, HIGH = 10
    Rank,         \* position of a provider in the iteration of _model_registry
    Registered,   \* the logosnode deployments registered at start-up
    None

Providers   == Local \cup Cloud
Deployments == Models \X Providers
LocalPairs  == Models \X Local

ASSUME ConstantsAssumption ==
    /\ IsFiniteSet(Requests) /\ IsFiniteSet(Local)
    /\ Local \cap Cloud = {}
    /\ Capacity \in Nat \ {0}
    /\ Wants \in [Requests -> SUBSET Models]
    /\ Prio \in [Requests -> {1, 5, 10}]
    /\ Rank \in [Providers -> Nat]
    /\ Registered \subseteq LocalPairs
    /\ None \notin Deployments
    /\ None \notin [model : Models, provider : Providers, transferred : BOOLEAN]

VARIABLES
    pc,          \* where the task that serves the request stands
    fut,         \* the Future the request waits on in the queue
    cancelled,   \* Task.cancel() was called: by wait_for's timer or a disconnect
    entryId,     \* the entry_id that _queue_and_wait got from its own enqueue
    grant,       \* the SchedulingResult made for the request
    inFlight,    \* requests whose set_result sits in the loop's ready queue
    queue,       \* the heaps of PriorityQueueManager, as a set of keyed entries
    nextId,      \* _entry_counter; it also stands for the entry's timestamp
    tracking,    \* LogosNodeSchedulingDataFacade._request_tracking
    counted,     \* LogosNodeDataProvider._active_request_ids, all providers
    active,      \* LogosNodeDataProvider._model_active, all providers
    deployed,    \* the (model, worker) pairs the facade knows
    lane,        \* "down", "ready" or "saturated" (backend queue too long)
    node,        \* "online", "stale" (heartbeat too old) or "gone" (no session)
    confirming   \* loads and wakes the capacity planner has not yet confirmed

reqVars   == <<pc, fut, cancelled, entryId, grant, inFlight>>
queueVars == <<queue, nextId>>
slotVars  == <<tracking, counted, active>>
envVars   == <<deployed, lane, node, confirming>>
vars      == <<reqVars, queueVars, slotVars, envVars>>

----------------------------------------------------------------------------
(* Shapes *)

Entry == [id : Nat, model : Models, req : Requests, prio : {1, 5, 10}]
Grant == [model : Models, provider : Providers, transferred : BOOLEAN]

PairOf(g) == <<g.model, g.provider>>

TypeOK ==
    /\ pc \in [Requests -> {"idle", "queued", "resolving", "handed", "executing", "done"}]
    /\ fut \in [Requests -> {"none", "pending", "result", "cancelled"}]
    /\ cancelled \in [Requests -> BOOLEAN]
    /\ entryId \in [Requests -> Nat]
    /\ grant \in [Requests -> Grant \cup {None}]
    /\ inFlight \subseteq Requests
    /\ queue \subseteq Entry
    /\ nextId \in Nat
    /\ tracking \in [Requests -> LocalPairs \cup {None}]
    /\ counted \in [Requests -> LocalPairs \cup {None}]
    /\ active \in [LocalPairs -> Nat]
    /\ deployed \subseteq LocalPairs
    /\ lane \in [Deployments -> {"down", "ready", "saturated"}]
    /\ node \in [Local -> {"online", "stale", "gone"}]
    /\ confirming \subseteq LocalPairs

Init ==
    /\ pc = [r \in Requests |-> "idle"]
    /\ fut = [r \in Requests |-> "none"]
    /\ cancelled = [r \in Requests |-> FALSE]
    /\ entryId = [r \in Requests |-> 0]
    /\ grant = [r \in Requests |-> None]
    /\ inFlight = {}
    /\ queue = {}
    /\ nextId = 1
    /\ tracking = [r \in Requests |-> None]
    /\ counted = [r \in Requests |-> None]
    /\ active = [d \in LocalPairs |-> 0]
    /\ deployed = Registered
    /\ lane \in [Deployments -> {"down", "ready"}]
    /\ node = [p \in Local |-> "online"]
    /\ confirming = {}

----------------------------------------------------------------------------
(* The priority queue: a heap ordered by (-priority, timestamp) per model. *)

\* Mutant: arrival order only.
Before_IgnoresPriority(e, f) == e.id < f.id

Before(e, f) == e.prio > f.prio \/ (e.prio = f.prio /\ e.id < f.id)

\* Mutant: done Futures are not skipped.
Live_AlsoDone(m) == {e \in queue : e.model = m}

\* Waiters a dispatcher may wake: entries whose Future is not done.
Live(m) == {e \in queue : e.model = m /\ fut[e.req] = "pending"}

Ahead(e) == Cardinality({f \in Live(e.model) : Before(f, e)})

\* Mutant: one entry too many is popped.
Popped_OneTooMany(m, n) == {e \in queue : e.model = m /\ Ahead(e) <= n}

\* What popping until n live entries are found takes off the queue of m: those
\* n and every done Future met on the way.
Popped(m, n) == {e \in queue : e.model = m /\ Ahead(e) < n}

\* Mutant: the default priority, whatever was asked for.
NewEntry_Normal(m, r, prio) == [id |-> nextId, model |-> m, req |-> r, prio |-> 5]

\* A queue entry is made by every enqueue, also when a waiter is put back.
NewEntry(m, r, prio) == [id |-> nextId, model |-> m, req |-> r, prio |-> prio]

----------------------------------------------------------------------------
(* Lanes, candidates and the SDI view of a deployment. *)

\* _is_model_lane_ready: it looks at the last runtime snapshot, stale or not.
LaneReady(d) == d \in deployed /\ node[d[2]] # "gone" /\ lane[d] # "down"

\* Mutant: the bound is off by one.
Reservable_OffByOne(d) == LaneReady(d) /\ lane[d] = "ready" /\ active[d] <= Capacity

\* try_reserve_capacity succeeds.
Reservable(d) == LaneReady(d) /\ lane[d] = "ready" /\ active[d] < Capacity

\* _compute_candidate_scores: offline workers and unavailable clouds are out.
\* The request read the list of deployments earlier, so one of them may have
\* been dropped since.
Candidates(r) ==
    {d \in Wants[r] \X Providers :
        IF d[2] \in Cloud THEN lane[d] # "down" ELSE node[d[2]] = "online"}

\* The deployments a request may be given at once.
Acceptable(d) == d[2] \in Cloud \/ Reservable(d)

\* Mutant: slot_transferred keeps its default.
GrantOf_AlwaysTransferred(d, transferred) ==
    [model |-> d[1], provider |-> d[2], transferred |-> TRUE]

GrantOf(d, transferred) ==
    [model |-> d[1], provider |-> d[2], transferred |-> transferred]

----------------------------------------------------------------------------
(* ClassificationCorrectingScheduler.schedule *)

\* try_reserve_capacity, then _create_result starts the tracking.
ReserveLocal(r, d) ==
    /\ pc[r] = "idle"
    /\ d \in Candidates(r) /\ d \in LocalPairs /\ Reservable(d)
    /\ pc' = [pc EXCEPT ![r] = "resolving"]
    /\ grant' = [grant EXCEPT ![r] = GrantOf(d, FALSE)]
    /\ tracking' = [tracking EXCEPT ![r] = d]
    /\ counted' = [counted EXCEPT ![r] = d]
    /\ active' = [active EXCEPT ![d] = @ + 1]
    /\ UNCHANGED <<fut, cancelled, entryId, inFlight, queueVars, envVars>>

\* Cloud upstreams accept immediately; nothing is counted for them.
AcceptCloud(r, d) ==
    /\ pc[r] = "idle"
    /\ d \in Candidates(r) /\ d[2] \in Cloud
    /\ pc' = [pc EXCEPT ![r] = "resolving"]
    /\ grant' = [grant EXCEPT ![r] = GrantOf(d, FALSE)]
    /\ UNCHANGED <<fut, cancelled, entryId, inFlight, queueVars, slotVars, envVars>>

\* _queue_and_wait up to its await.  The request queues when the best candidate
\* is sleeping or cold (it is not downgraded to a warm one), or when no
\* candidate accepts.
Enqueue(r, d) ==
    /\ pc[r] = "idle"
    /\ d \in Candidates(r) /\ d \in LocalPairs
    /\ ~LaneReady(d) \/ \A c \in Candidates(r) : ~Acceptable(c)
    /\ pc' = [pc EXCEPT ![r] = "queued"]
    /\ fut' = [fut EXCEPT ![r] = "pending"]
    /\ entryId' = [entryId EXCEPT ![r] = nextId]
    /\ queue' = queue \cup {NewEntry(d[1], r, Prio[r])}
    /\ nextId' = nextId + 1
    /\ UNCHANGED <<cancelled, grant, inFlight, slotVars, envVars>>

\* No candidate left, but what was dropped before the request read its list:
\* schedule returns None and the caller answers 503.
Reject(r) ==
    /\ pc[r] = "idle"
    /\ Candidates(r) \subseteq LocalPairs \ deployed
    /\ pc' = [pc EXCEPT ![r] = "done"]
    /\ UNCHANGED <<fut, cancelled, entryId, grant, inFlight, queueVars, slotVars, envVars>>

----------------------------------------------------------------------------
(* The waiter *)

\* future.set_result as the loop runs it; on a Future that is already
\* cancelled it raises InvalidStateError into the loop and the result is gone.
DeliverResult(r) ==
    /\ r \in inFlight
    /\ inFlight' = inFlight \ {r}
    /\ fut' = [fut EXCEPT ![r] = IF @ = "pending" THEN "result" ELSE @]
    /\ UNCHANGED <<pc, cancelled, entryId, grant, queueVars, slotVars, envVars>>

\* wait_for's timer fires, or the client goes away: Task.cancel() cancels the
\* Future when it is pending and otherwise cancels the waiter's next step.
Cancel(r) ==
    /\ pc[r] = "queued" /\ ~cancelled[r]
    /\ cancelled' = [cancelled EXCEPT ![r] = TRUE]
    /\ fut' = [fut EXCEPT ![r] = IF @ = "pending" THEN "cancelled" ELSE @]
    /\ UNCHANGED <<pc, entryId, grant, inFlight, queueVars, slotVars, envVars>>

\* The except clauses of _queue_and_wait: remove(entry_id) and give up.
ResumeCancelled(r) ==
    /\ pc[r] = "queued" /\ cancelled[r]
    /\ pc' = [pc EXCEPT ![r] = "done"]
    /\ queue' = {e \in queue : e.id # entryId[r]}
    /\ UNCHANGED <<fut, cancelled, entryId, grant, inFlight, nextId, slotVars, envVars>>

\* The waiter goes on with its result.  The facade is told only if it knows the
\* provider (a KeyError is swallowed: a cloud, or a worker that was dropped); a
\* fresh dispatch raises the count, a transferred slot does not.
Resume(r) ==
    LET d == PairOf(grant[r]) IN
    /\ pc[r] = "queued" /\ ~cancelled[r] /\ fut[r] = "result"
    /\ \/ /\ ~\E m \in Models : <<m, d[2]>> \in deployed
          /\ pc' = [pc EXCEPT ![r] = "resolving"]
          /\ UNCHANGED slotVars
       \/ /\ d \in deployed
          /\ pc' = [pc EXCEPT ![r] = "resolving"]
          /\ tracking' = [tracking EXCEPT ![r] = d]
          /\ counted' = [counted EXCEPT ![r] = d]
          /\ active' = IF grant[r].transferred \/ counted[r] # None
                       THEN active
                       ELSE [active EXCEPT ![d] = @ + 1]
       \/ \* provider known, model not: get_model_status raises ValueError
          /\ d \notin deployed /\ \E m \in Models : <<m, d[2]>> \in deployed
          /\ pc' = [pc EXCEPT ![r] = "done"]
          /\ UNCHANGED slotVars
    /\ UNCHANGED <<fut, cancelled, entryId, grant, inFlight, queueVars, envVars>>

----------------------------------------------------------------------------
(* BaseScheduler.release *)

\* Mutant: the decrement is not clamped and knows no heir.
CompleteSlot_Unclamped(r, reuse) ==
    IF tracking[r] = None
    THEN UNCHANGED slotVars
    ELSE /\ tracking' = [tracking EXCEPT ![r] = None]
         /\ counted' = [counted EXCEPT ![r] = None]
         /\ active' = [active EXCEPT ![tracking[r]] = @ - 1]

\* on_request_complete and decrement_active; an untracked request is a
\* KeyError that release swallows.
CompleteSlot(r, reuse) ==
    IF tracking[r] = None
    THEN UNCHANGED slotVars
    ELSE LET d == tracking[r] IN
         /\ tracking' = [tracking EXCEPT ![r] = None]
         /\ counted' = [counted EXCEPT ![r] = None]
         /\ active' = IF reuse \/ active[d] = 0
                      THEN active
                      ELSE [active EXCEPT ![d] = @ - 1]

\* The queue holds no live waiter for the model.
ReleaseToNobody(r) ==
    LET d == PairOf(grant[r]) IN
    /\ Live(d[1]) = {}
    /\ queue' = queue \ Popped(d[1], 1)
    /\ CompleteSlot(r, FALSE)
    /\ grant' = [grant EXCEPT ![r] = None]
    /\ UNCHANGED <<inFlight, nextId>>

\* The first live waiter inherits the slot: the count stays, and set_result
\* with slot_transferred=True is scheduled.
ReleaseToWaiter(r) ==
    LET d == PairOf(grant[r]) IN
    \E e \in Live(d[1]) :
        /\ \A f \in Live(d[1]) \ {e} : Before(e, f)
        /\ d[2] \in Cloud \/ LaneReady(d)
        /\ queue' = queue \ Popped(d[1], 1)
        /\ CompleteSlot(r, TRUE)
        /\ grant' = [grant EXCEPT ![r] = None, ![e.req] = GrantOf(d, TRUE)]
        /\ inFlight' = inFlight \cup {e.req}
        /\ UNCHANGED nextId

\* The lane sleeps or drains: the slot is given back and the waiter is put back
\* in the queue, at the tail of its priority and under a new entry id.
ReleaseAndRequeue(r) ==
    LET d == PairOf(grant[r]) IN
    \E e \in Live(d[1]) :
        /\ \A f \in Live(d[1]) \ {e} : Before(e, f)
        /\ d[2] \in Local /\ ~LaneReady(d)
        /\ queue' = (queue \ Popped(d[1], 1)) \cup {NewEntry(d[1], e.req, e.prio)}
        /\ nextId' = nextId + 1
        /\ CompleteSlot(r, FALSE)
        /\ grant' = [grant EXCEPT ![r] = None]
        /\ UNCHANGED inFlight

Release(r) ==
    /\ ReleaseToNobody(r) \/ ReleaseToWaiter(r) \/ ReleaseAndRequeue(r)
    /\ pc' = [pc EXCEPT ![r] = "done"]
    /\ UNCHANGED <<fut, cancelled, entryId, envVars>>

----------------------------------------------------------------------------
(* RequestPipeline after scheduling, and the response built in main.py *)

\* Context resolution failed or timed out, or the rate limiter said no.
ContextFailed(r) == pc[r] = "resolving" /\ Release(r)

\* The request runs inside a frame whose finally releases (_sync_response).
ContextResolved(r) ==
    /\ pc[r] = "resolving"
    /\ pc' = [pc EXCEPT ![r] = "executing"]
    /\ UNCHANGED <<fut, cancelled, entryId, grant, inFlight, queueVars, slotVars, envVars>>

\* A streaming response: its generator, which releases in its finally, exists
\* but nobody has started it.
StreamHandedOn(r) ==
    /\ pc[r] = "resolving"
    /\ pc' = [pc EXCEPT ![r] = "handed"]
    /\ UNCHANGED <<fut, cancelled, entryId, grant, inFlight, queueVars, slotVars, envVars>>

StreamStarted(r) ==
    /\ pc[r] = "handed"
    /\ pc' = [pc EXCEPT ![r] = "executing"]
    /\ UNCHANGED <<fut, cancelled, entryId, grant, inFlight, queueVars, slotVars, envVars>>

\* The answer is complete, failed, timed out or was cut off.
Finish(r) == pc[r] = "executing" /\ Release(r)

\* The client leaves while the context is resolved (CancelledError passes the
\* except Exception clauses) or before the stream's generator starts (aclose on
\* a generator that never ran skips its finally): nothing calls release.
Abandon(r) ==
    /\ pc[r] \in {"resolving", "handed"}
    /\ pc' = [pc EXCEPT ![r] = "done"]
    /\ UNCHANGED <<fut, cancelled, entryId, grant, inFlight, queueVars, slotVars, envVars>>

----------------------------------------------------------------------------
(* BaseScheduler.reevaluate_model_queues *)

Eligible(m) ==
    {p \in Local : <<m, p>> \in deployed /\ node[p] = "online" /\ LaneReady(<<m, p>>)}

\* Mutant: the last slot is never offered.
FreeSlots_OneShort(d) == IF active[d] + 1 < Capacity THEN Capacity - active[d] - 1 ELSE 0

\* max(0, max_capacity - current_active), from the count as it stands: waiters
\* dispatched but not resumed are not in it yet.
FreeSlots(d) == IF active[d] < Capacity THEN Capacity - active[d] ELSE 0

\* The free slots of the workers in P, each as a worker and a number.
SlotsOf(m, P) ==
    Cardinality({s \in P \X (1..Capacity) : s[2] <= FreeSlots(<<m, s[1]>>)})

\* The deployment whose turn it is in the loop when entry e is popped.
Serves(p, e) ==
    LET earlier == SlotsOf(e.model, {q \in Eligible(e.model) : Rank[q] < Rank[p]})
    IN  /\ p \in Eligible(e.model)
        /\ earlier <= Ahead(e) /\ Ahead(e) < earlier + FreeSlots(<<e.model, p>>)

Dispatchable == {e \in queue : /\ fut[e.req] = "pending"
                               /\ Ahead(e) < SlotsOf(e.model, Eligible(e.model))}

\* on_state_change after the planner confirmed a load or a wake: every free slot
\* of every ready deployment is handed out at once, slot_transferred=False.
Reevaluate(d) ==
    /\ d \in confirming /\ lane[d] # "down"
    /\ confirming' = confirming \ {d}
    /\ \E to \in [Dispatchable -> Local] :
        /\ \A e \in Dispatchable : Serves(to[e], e)
        /\ grant' = [r \in Requests |->
              IF \E e \in Dispatchable : e.req = r
              THEN LET e == CHOOSE e \in Dispatchable : e.req = r
                   IN  GrantOf(<<e.model, to[e]>>, FALSE)
              ELSE grant[r]]
    /\ inFlight' = inFlight \cup {e.req : e \in Dispatchable}
    /\ queue' = queue \ UNION {Popped(m, SlotsOf(m, Eligible(m))) : m \in Models}
    /\ UNCHANGED <<pc, fut, cancelled, entryId, nextId, slotVars, deployed, lane, node>>

----------------------------------------------------------------------------
(* The world around the scheduler *)

\* The planner orders a load or a wake of a lane.
PlannerOrders(d) ==
    /\ d \in deployed /\ node[d[2]] = "online" /\ lane[d] = "down"
    /\ confirming' = confirming \cup {d}
    /\ UNCHANGED <<reqVars, queueVars, slotVars, deployed, lane, node>>

\* The order fails or its confirmation times out.
PlannerGivesUp(d) ==
    /\ d \in confirming
    /\ confirming' = confirming \ {d}
    /\ UNCHANGED <<reqVars, queueVars, slotVars, deployed, lane, node>>

\* A status report changes what the orchestrator knows of a lane.
LaneChanges(d, s) ==
    /\ lane[d] # s
    /\ d[2] \in Local => node[d[2]] # "gone"
    /\ d[2] \in Cloud => s # "saturated"
    /\ lane' = [lane EXCEPT ![d] = s]
    /\ UNCHANGED <<reqVars, queueVars, slotVars, deployed, node, confirming>>

\* A worker's session goes stale, is dropped (its lanes with it) or comes back.
NodeChanges(p, s) ==
    /\ node[p] # s
    /\ s = "stale" => node[p] = "online"
    /\ node' = [node EXCEPT ![p] = s]
    /\ lane' = IF s = "gone"
               THEN [d \in Deployments |-> IF d[2] = p THEN "down" ELSE lane[d]]
               ELSE lane
    /\ UNCHANGED <<reqVars, queueVars, slotVars, deployed, confirming>>

\* Mutant: the counts of dropped deployments survive.
Refresh_KeepsCounts(D) ==
    /\ D # deployed
    /\ deployed' = D
    /\ tracking' = [r \in Requests |-> IF tracking[r] \in D THEN tracking[r] ELSE None]
    /\ counted' = [r \in Requests |-> IF counted[r] \in D THEN counted[r] ELSE None]
    /\ confirming' = confirming \cap D
    /\ UNCHANGED <<reqVars, queueVars, active, lane, node>>

\* Mutant: the queue is rebuilt as well.
Refresh_DropsQueue(D) ==
    /\ D # deployed
    /\ deployed' = D
    /\ tracking' = [r \in Requests |-> IF tracking[r] \in D THEN tracking[r] ELSE None]
    /\ counted' = [r \in Requests |-> IF counted[r] \in D THEN counted[r] ELSE None]
    /\ active' = [d \in LocalPairs |-> IF d \in D THEN active[d] ELSE 0]
    /\ confirming' = confirming \cap D
    /\ queue' = {}
    /\ UNCHANGED <<reqVars, nextId, lane, node>>

\* refresh_pipeline_runtime_state: LogosNodeSchedulingDataFacade
\* .replace_registrations.  What belonged to a dropped deployment is forgotten.
Refresh(D) ==
    /\ D # deployed
    /\ deployed' = D
    /\ tracking' = [r \in Requests |-> IF tracking[r] \in D THEN tracking[r] ELSE None]
    /\ counted' = [r \in Requests |-> IF counted[r] \in D THEN counted[r] ELSE None]
    /\ active' = [d \in LocalPairs |-> IF d \in D THEN active[d] ELSE 0]
    /\ confirming' = confirming \cap D
    /\ UNCHANGED <<reqVars, queueVars, lane, node>>

----------------------------------------------------------------------------
Scheduling(r) ==
    \/ \E d \in Deployments : ReserveLocal(r, d) \/ AcceptCloud(r, d) \/ Enqueue(r, d)
    \/ Reject(r)

Waiting(r) == DeliverResult(r) \/ Resume(r) \/ ResumeCancelled(r)

Serving(r) == ContextFailed(r) \/ ContextResolved(r) \/ StreamHandedOn(r)
              \/ StreamStarted(r) \/ Finish(r)

Planner(d) == PlannerOrders(d) \/ Reevaluate(d) \/ PlannerGivesUp(d)

Workers == \/ \E d \in Deployments, s \in {"down", "ready", "saturated"} : LaneChanges(d, s)
           \/ \E p \in Local, s \in {"online", "stale", "gone"} : NodeChanges(p, s)

\* With the set of deployments fixed.
Next ==
    \/ \E r \in Requests : Scheduling(r) \/ Waiting(r) \/ Serving(r)
    \/ \E r \in Requests : Cancel(r) \/ Abandon(r)
    \/ \E d \in LocalPairs : Planner(d)
    \/ Workers

Spec == Init /\ [][Next]_vars

\* With deployments added and dropped while requests are served.
RefreshNext == Next \/ \E D \in SUBSET LocalPairs : Refresh(D)

RefreshSpec == Init /\ [][RefreshNext]_vars

----------------------------------------------------------------------------
(* Liveness: nobody cancels or leaves, workers stay, and the planner has the
   memory to load what is asked for.  A lane then goes up and down by planner
   actions only, one at a time (the planner's lane lock). *)

LaneLoads(d)  == d \in confirming /\ lane[d] = "down" /\ LaneChanges(d, "ready")
LaneSleeps(d) == d \notin confirming /\ LaneChanges(d, "down")

PlannerServes(d) == PlannerOrders(d) \/ LaneLoads(d) \/ Reevaluate(d)

QuietNext ==
    \/ \E r \in Requests : Scheduling(r) \/ Waiting(r) \/ Serving(r)
    \/ \E d \in LocalPairs : PlannerServes(d) \/ LaneSleeps(d)

\* The event loop runs every ready callback and task; executions end
\* (every await in them has a timeout); the planner's loop keeps cycling.
Fairness ==
    /\ \A r \in Requests : WF_vars(Waiting(r)) /\ WF_vars(Serving(r))
    /\ \A d \in LocalPairs : WF_vars(PlannerServes(d))

QuietSpec == Init /\ [][QuietNext]_vars /\ Fairness

----------------------------------------------------------------------------
(* Properties *)

\* Requests that stand for one unit of active[d]: the provider counts them, or
\* they were handed a transferred slot they have not taken over yet.
Owners(d) ==
    {r \in Requests :
        \/ counted[r] = d
        \/ /\ counted[r] = None /\ grant[r] # None
           /\ grant[r].transferred /\ PairOf(grant[r]) = d}

\* Every unit of the active count is accounted for: the count of a deployment
\* equals the requests it counts plus the slots release() passed on and whose
\* heirs have not resumed (base_scheduler.py:163-205 against
\* correcting_scheduler.py:729-737).
SlotAccounting == \A d \in LocalPairs : active[d] = Cardinality(Owners(d))

\* A waiter nobody has dispatched is in the queue, once, under a model it wants:
\* the pops of release(), the putting back of a waiter and the removal on a
\* timeout never lose or double one (base_scheduler.py:148-187).
NoWaiterLost ==
    \A r \in Requests :
        pc[r] = "queued" /\ fut[r] = "pending" /\ r \notin inFlight =>
            \E e \in queue : /\ e.req = r /\ e.model \in Wants[r]
                             /\ \A f \in queue : f.req = r => f = e

\* A request is dispatched once: set_result is never scheduled for one that has
\* a result, and a result is never replaced by another deployment's.
DispatchedOnce ==
    [][\A r \in Requests :
          /\ grant[r] # None => grant'[r] \in {grant[r], None}
          /\ r \in inFlight' \ inFlight => grant[r] = None /\ fut[r] = "pending"]_vars

\* Priority order: whoever is dispatched from the queue, no live waiter of
\* strictly higher priority for the same model stays behind.
StrictPriority ==
    [][\A e \in queue, f \in queue :
          /\ e.req \in inFlight' \ inFlight
          /\ f.model = e.model /\ f.prio > e.prio /\ fut[f.req] = "pending"
          => f.req \in inFlight']_vars

\* The count of a deployment passes its capacity only when a waiter resumes that
\* reevaluate_model_queues dispatched: reservations and transfers never do it.
OnlyReevaluateOvershoots ==
    [][\A d \in LocalPairs :
          active'[d] > active[d] /\ active[d] >= Capacity =>
              \E r \in Requests : /\ pc[r] = "queued" /\ pc'[r] = "resolving"
                                  /\ ~grant[r].transferred]_vars

\* Under a refresh the count may lose requests it should hold but never counts
\* one that is not there: no slot leaks (logosnode_provider.py:95-108).
NeverOvercounts == \A d \in LocalPairs : active[d] <= Cardinality(Owners(d))

\* No waiter is forgotten: release() and reevaluate_model_queues between them
\* dispatch everyone who queued (base_scheduler.py:134-386).
WaiterIsServed == \A r \in Requests : pc[r] = "queued" ~> pc[r] # "queued"

\* "otherwise the lane stays booked for a request that is already gone"
\* (main.py:3615-3617): a request that is gone owns no slot, neither one it was
\* counted for nor one that release() passed on to it.
GoneIsNotBooked ==
    \A d \in LocalPairs : \A r \in Owners(d) : pc[r] # "done"

----------------------------------------------------------------------------
(* Refinement: what a request may rely on is Admission. *)

\* A waiter whose result is on its way is granted; one whose Future was
\* cancelled while it waited is gone.
Undispatched(r) == pc[r] = "queued" /\ grant[r] = None

Phase(r) ==
    IF pc[r] = "idle" THEN "new"
    ELSE IF Undispatched(r) /\ fut[r] = "pending" THEN "waiting"
    ELSE IF Undispatched(r) \/ pc[r] = "done" THEN "gone"
    ELSE "granted"

Abstract == INSTANCE Admission WITH
    phase <- [r \in Requests |-> Phase(r)],
    waits <- {<<e.model, e.req>> : e \in {e \in queue : fut[e.req] = "pending"}},
    at    <- [r \in Requests |-> IF Phase(r) = "granted" THEN PairOf(grant[r]) ELSE None]

\* The queue, its futures and the three-step dispatch give each request what
\* Admission promises: one deployment of a model it wants, once, and in the
\* order of the priorities, or a clean way out (correcting_scheduler.py:108-201,
\* 654-757, base_scheduler.py:134-386).
Admits == Abstract!Spec
=============================================================================

-------------------------- MODULE LaneActionsProofs --------------------------
(* Safety of the planner's actions for any number of lanes, requests, tries, *)
(* actions and faults.                                                       *)
EXTENDS LaneActions, SequenceTheorems, TLAPS

----------------------------------------------------------------------------
(* The invariant *)

Raised == {"wake", "load"}

Acts == [pc : {"idle", "drain", "await", "poll"}, kind : Kinds \cup {None},
         lane : Lanes \cup {None}, n : 0..MaxActions, here : BOOLEAN]

Asked == [pc : {"new", "selected", "waiting", "done", "refused"}, lane : Lanes \cup {None},
          try : 0..MaxTries, here : BOOLEAN]

\* A request as the orchestrator has it.
Row(q) ==
    /\ q \in Asked
    /\ q.pc \in {"selected", "waiting"} => q.lane \in Lanes /\ q.try \in 1..MaxTries
    /\ q.pc = "new" => q.try = 0

ReqsOK == req \in [Requests -> Asked] /\ \A r \in Requests : Row(req[r])

Reports == [open : BOOLEAN, told : BOOLEAN, state : [Lanes -> LaneStates], active : SUBSET Tasks]

Types ==
    /\ lane \in [Lanes -> LaneStates]
    /\ tasks \subseteq Tasks /\ early \subseteq Tasks
    /\ work \in Commands \cup {None}
    /\ wire \in Seq(Commands \cup Infers)
    /\ conn \in {"up", "broken", "down"}
    /\ session \in Reports
    /\ mark \subseteq Lanes /\ disturbed \subseteq Lanes
    /\ act \in Acts
    /\ act.pc # "idle" => act.kind \in Kinds /\ act.lane \in Lanes /\ act.n \in 1..MaxActions
    /\ actions \in 0..MaxActions /\ faults \in 0..MaxFaults

\* The planner's action and its lane; an action that takes the lane marks it.
Acting ==
    /\ act.pc = "idle" => act.lane = None /\ act.n = 0 /\ early = {}
    /\ act.pc # "idle" => act.n <= actions
    /\ act.pc = "drain" => Takes(act.kind)

\* Requests run only on lanes that are awake, and none is left of a connection
\* that is down.
Served ==
    /\ \A t \in tasks : t.pc = "running" => lane[t.lane] = "awake"
    /\ \A t \in session.active : t.pc = "running"
    /\ conn = "down" => tasks = {} /\ work = None /\ wire = <<>>

\* Attempt k of the request q was sent.
Beyond(q, k) == k < q.try \/ (k = q.try /\ q.pc \notin {"new", "selected"})

WasSent(r, k) == Beyond(req[r], k)

Attempt(t, u) == t.req = u.req /\ t.try = u.try

\* An attempt is at one place: on its way, or with the worker.
Attempts ==
    /\ \A i \in DOMAIN wire : wire[i].kind = "infer" =>
          /\ WasSent(wire[i].req, wire[i].try)
          /\ \A j \in DOMAIN wire : wire[j].kind = "infer" /\ Attempt(wire[i], wire[j]) => i = j
    /\ \A t \in tasks \cup early :
          /\ WasSent(t.req, t.try)
          /\ \A i \in DOMAIN wire : wire[i].kind = "infer" => ~Attempt(wire[i], t)
          /\ \A u \in tasks : Attempt(t, u) => t = u

\* What was running when the lane was marked, and has not ended, is in every
\* report until the drain has passed.
Spared ==
    /\ \A t \in early : t.pc = "running" /\ t.lane = act.lane
    /\ act.pc = "drain" /\ session.open =>
          \A t \in early \cap tasks : t \in session.active /\ session.state[act.lane] # "gone"
    /\ act.pc \in {"await", "poll"} => early \cap tasks = {}

\* The commands that the worker has not carried out are all different.
Numbered ==
    /\ work # None => work.n <= actions
    /\ \A i \in DOMAIN wire : wire[i].kind # "infer" =>
          /\ wire[i].n <= actions
          /\ work # None => work.n # wire[i].n
          /\ \A j \in DOMAIN wire : wire[j].kind # "infer" /\ wire[j].n = wire[i].n => j = i

\* A command of the current action belongs to it; one that raises a lane and
\* that nobody awaits has the lane counted as disturbed.
Accounted(m) ==
    /\ m.n = act.n => act.pc = "await" /\ act.kind = m.kind /\ act.lane = m.lane
    /\ m.kind \in Raised /\ m.n # act.n => m.lane \in disturbed

Pending ==
    /\ work # None => Accounted(work)
    /\ \A i \in DOMAIN wire : wire[i].kind # "infer" => Accounted(wire[i])

\* A lane is only starting while the worker loads it.
Loading == \A l \in Lanes : lane[l] = "starting" => work # None /\ work.kind = "load" /\ work.lane = l

\* A command that the worker has not carried out.
Pends(m) ==
    \/ work # None /\ m = work
    \/ \E i \in DOMAIN wire : m = wire[i] /\ m.kind # "infer"

\* The command that the planner awaits has not been carried out.
Open == \E m : Pends(m) /\ m.n = act.n

\* A lane that nobody disturbed is not raised but by the action on it, and once
\* it was put to sleep it sleeps.
MarksOK ==
    /\ \A l \in mark : act.lane # l /\ l \notin disturbed => lane[l] # "awake"
    /\ act.pc # "idle" /\ act.kind = "sleep" /\ act.lane \notin disturbed
          /\ session.state[act.lane] = "asleep" => lane[act.lane] # "awake"
    /\ act.pc = "await" /\ act.kind \in Raised /\ act.lane \in mark /\ act.lane \notin disturbed /\ Open
          => lane[act.lane] # "awake"

----------------------------------------------------------------------------
(* Queues *)

\* What is left of a queue once its head is taken.
LEMMA TailView ==
    ASSUME NEW S, NEW s \in Seq(S), s # <<>>
    PROVE  /\ 1 \in DOMAIN s /\ Head(s) = s[1] /\ Head(s) \in S
           /\ Tail(s) \in Seq(S)
           /\ \A i \in DOMAIN Tail(s) : i \in Nat \ {0} /\ i + 1 \in DOMAIN s /\ Tail(s)[i] = s[i + 1]
<1>1. Len(s) \in Nat \ {0} /\ DOMAIN s = 1 .. Len(s) /\ Head(s) = s[1]
  BY HeadTailProperties, LenProperties, EmptySeq
<1>2. /\ Tail(s) \in Seq(S) /\ Len(Tail(s)) = Len(s) - 1 /\ Head(s) \in S
      /\ \A i \in 1 .. Len(Tail(s)) : Tail(s)[i] = s[i + 1]
  BY HeadTailProperties
<1>3. DOMAIN Tail(s) = 1 .. (Len(s) - 1)
  BY <1>2, LenProperties
<1>4. QED
  BY <1>1, <1>2, <1>3

\* A queue to which something is added.
LEMMA AppendView ==
    ASSUME NEW S, NEW s \in Seq(S), NEW e \in S
    PROVE  /\ Append(s, e) \in Seq(S)
           /\ \A i \in DOMAIN s : i # Len(s) + 1 /\ i \in DOMAIN Append(s, e) /\ Append(s, e)[i] = s[i]
           /\ Len(s) + 1 \in DOMAIN Append(s, e) /\ Append(s, e)[Len(s) + 1] = e
           /\ \A i \in DOMAIN Append(s, e) : i \in DOMAIN s \/ i = Len(s) + 1
<1>1. Len(s) \in Nat /\ DOMAIN s = 1 .. Len(s)
  BY LenProperties
<1>2. /\ Append(s, e) \in Seq(S) /\ Len(Append(s, e)) = Len(s) + 1
      /\ \A i \in 1 .. Len(s) : Append(s, e)[i] = s[i]
      /\ Append(s, e)[Len(s) + 1] = e
  BY AppendProperties
<1>3. DOMAIN Append(s, e) = 1 .. (Len(s) + 1)
  BY <1>2, LenProperties
<1>4. QED
  BY <1>1, <1>2, <1>3

\* The messages on their way to the worker.
LEMMA Queued ==
    ASSUME Types
    PROVE  \A i \in DOMAIN wire : wire[i] \in Commands \cup Infers
<1>1. wire \in Seq(Commands \cup Infers)
  BY DEF Types
<1>2. QED
  BY <1>1, LenProperties, ElementOfSeq

\* A message is a command or a request.
LEMMA MessageKinds ==
    ASSUME NEW m \in Commands \cup Infers
    PROVE  /\ m.kind = "infer" => m \in Infers /\ m.req \in Requests /\ m.try \in 1 .. MaxTries /\ m.lane \in Lanes
           /\ m.kind # "infer" => /\ m \in Commands /\ m.kind \in Kinds /\ m.lane \in Lanes
                                  /\ m.n \in 1 .. MaxActions /\ m # None
BY NoneAssumption DEF Commands, Infers, Kinds

----------------------------------------------------------------------------
(* The requests *)

\* A request that has failed is selected again or ends.
Again(q)      == [q EXCEPT !.pc = "selected", !.try = q.try + 1]
Over(q, why)  == [q EXCEPT !.pc = why]
Fails(q, why) == IF q.try < MaxTries THEN Again(q) ELSE Over(q, why)

LEMMA FailedView ==
    ASSUME ReqsOK, NEW r \in Requests, NEW why
    PROVE  /\ Failed(r, why) = [req EXCEPT ![r] = Fails(req[r], why)]
           /\ Failed(r, why)[r] = Fails(req[r], why)
<1>1. Failed(r, why) = [req EXCEPT ![r] = Fails(req[r], why)]
  BY DEF Failed, Fails, Again, Over
<1>2. QED
  BY <1>1 DEF ReqsOK

\* The attempts that were sent stay sent.
Further(q, s) == \A k \in 1 .. MaxTries : Beyond(q, k) => Beyond(s, k)

ReqsMove ==
    /\ req' \in [Requests -> Asked]
    /\ \A r \in Requests : Row(req'[r]) /\ Further(req[r], req'[r])

\* A request fails, once it was selected.
LEMMA FailedMoves ==
    ASSUME ReqsOK, NEW r \in Requests, req[r].pc \in {"selected", "waiting"},
           NEW why \in {"done", "refused"}
    PROVE  Row(Fails(req[r], why)) /\ Further(req[r], Fails(req[r], why))
<1>0. /\ req[r] \in Asked /\ MaxTries \in Nat \ {0}
      /\ req[r].lane \in Lanes /\ req[r].try \in 1 .. MaxTries
  BY LaneActionsAssumption DEF ReqsOK, Row
<1>1. CASE req[r].try < MaxTries
  <2>1. /\ Again(req[r]).pc = "selected" /\ Again(req[r]).lane = req[r].lane
        /\ Again(req[r]).try = req[r].try + 1
    BY <1>0 DEF Again, Asked
  <2>2. req[r].try + 1 \in 1 .. MaxTries /\ req[r].try + 1 \in 0 .. MaxTries
    BY <1>0, <1>1
  <2>3. Again(req[r]) \in Asked
    BY <1>0, <2>2 DEF Again, Asked
  <2>4. Row(Again(req[r])) /\ Further(req[r], Again(req[r]))
    BY <1>0, <1>1, <2>1, <2>2, <2>3 DEF Row, Further, Beyond
  <2>5. QED
    BY <1>1, <2>4 DEF Fails
<1>2. CASE ~(req[r].try < MaxTries)
  <2>1. /\ Over(req[r], why) \in Asked /\ Over(req[r], why).pc = why
        /\ Over(req[r], why).try = req[r].try
    BY <1>0 DEF Over, Asked
  <2>2. Row(Over(req[r], why)) /\ Further(req[r], Over(req[r], why))
    BY <1>0, <2>1 DEF Row, Further, Beyond
  <2>3. QED
    BY <1>2, <2>2 DEF Fails
<1>3. QED
  BY <1>1, <1>2

\* One request moves, or none.
LEMMA OneMoves ==
    ASSUME ReqsOK, NEW r \in Requests, NEW s, Row(s), Further(req[r], s),
           req' = [req EXCEPT ![r] = s]
    PROVE  ReqsMove
<1>1. req \in [Requests -> Asked] /\ s \in Asked /\ \A q \in Requests : Row(req[q])
  BY DEF ReqsOK, Row
<1>2. \A q \in Requests : Further(req[q], req[q])
  BY DEF Further, Beyond
<1>3. QED
  BY <1>1, <1>2 DEF ReqsMove

LEMMA FailedOneMoves ==
    ASSUME ReqsOK, NEW r \in Requests, req[r].pc \in {"selected", "waiting"},
           NEW why \in {"done", "refused"}, req' = Failed(r, why)
    PROVE  ReqsMove
BY FailedMoves, FailedView, OneMoves

LEMMA NoneMoves ==
    ASSUME ReqsOK, UNCHANGED req
    PROVE  ReqsMove
BY DEF ReqsOK, ReqsMove, Further, Beyond

\* A request takes its next step and stays on its lane.
LEMMA EndMoves ==
    ASSUME ReqsOK, NEW r \in Requests, req[r].pc \in {"new", "selected", "waiting"}
    PROVE  Row([req[r] EXCEPT !.pc = "done"]) /\ Further(req[r], [req[r] EXCEPT !.pc = "done"])
<1>0. /\ req \in [Requests -> Asked] /\ Row(req[r]) /\ req[r] \in Asked
  BY DEF ReqsOK, Row
<1> DEFINE s == [req[r] EXCEPT !.pc = "done"]
<1>1. s \in Asked /\ s.pc = "done" /\ s.try = req[r].try
  BY <1>0 DEF Asked
<1>2. QED
  BY <1>1 DEF Row, Further, Beyond

LEMMA RequestsMove ==
    ASSUME Types, ReqsOK, Next
    PROVE  ReqsMove
<1>0. /\ req \in [Requests -> Asked] /\ MaxTries \in Nat \ {0}
      /\ \A r \in Requests : Row(req[r]) /\ req[r] \in Asked
  BY LaneActionsAssumption DEF ReqsOK, Row
<1>1. ASSUME NEW r \in Requests, NEW l \in Lanes, Select(r, l) PROVE ReqsMove
  <2> DEFINE s == [pc |-> "selected", lane |-> l, try |-> 1, here |-> FALSE]
  <2>1. Row(s) /\ Further(req[r], s)
    BY <1>0, <1>1 DEF Select, Row, Asked, Further, Beyond
  <2>2. req' = [req EXCEPT ![r] = s]
    BY <1>1 DEF Select
  <2>3. QED
    BY <2>1, <2>2, OneMoves
<1>2. ASSUME NEW r \in Requests, NoLane(r) PROVE ReqsMove
  <2>1. req' = [req EXCEPT ![r] = [req[r] EXCEPT !.pc = "done"]] /\ req[r].pc = "new"
    BY <1>0, <1>2 DEF NoLane
  <2>2. QED
    BY <2>1, EndMoves, OneMoves
<1>3. ASSUME NEW r \in Requests, Send(r) PROVE ReqsMove
  <2>0. req[r].pc = "selected"
    BY <1>3 DEF Send
  <2>1. CASE req' = Failed(r, "done")
    BY <2>0, <2>1, FailedOneMoves
  <2>2. CASE req' = [req EXCEPT ![r].pc = "waiting", ![r].here = TRUE]
    <3> DEFINE s == [req[r] EXCEPT !.pc = "waiting", !.here = TRUE]
    <3>1. s \in Asked /\ s.pc = "waiting" /\ s.try = req[r].try /\ s.lane = req[r].lane
      BY <1>0 DEF Asked
    <3>2. Row(s) /\ Further(req[r], s)
      BY <1>0, <2>0, <3>1 DEF Row, Further, Beyond
    <3>3. req' = [req EXCEPT ![r] = s]
      BY <1>0, <2>2
    <3>4. QED
      BY <3>2, <3>3, OneMoves
  <2>3. QED
    BY <1>3, <2>1, <2>2 DEF Send
<1>4. ASSUME NEW r \in Requests, StreamTimeout(r) PROVE ReqsMove
  <2>0. req[r].pc = "waiting"
    BY <1>4 DEF StreamTimeout
  <2>1. CASE req' = Failed(r, "done")
    BY <2>0, <2>1, FailedOneMoves
  <2>2. CASE req' = [req EXCEPT ![r].pc = "done"]
    <3>1. req' = [req EXCEPT ![r] = [req[r] EXCEPT !.pc = "done"]]
      BY <1>0, <2>2
    <3>2. QED
      BY <2>0, <3>1, EndMoves, OneMoves
  <2>3. QED
    BY <1>4, <2>1, <2>2 DEF StreamTimeout
<1>5. ASSUME NEW t \in tasks, Acquire(t) PROVE ReqsMove
  <2>1. t.req \in Requests
    BY DEF Types, Tasks
  <2>2. UNCHANGED req \/ (req[t.req].pc = "waiting" /\ req' = Failed(t.req, "refused"))
    BY <1>5 DEF Acquire
  <2>3. QED
    BY <2>1, <2>2, NoneMoves, FailedOneMoves
<1>6. ASSUME NEW t \in tasks, Finish(t) PROVE ReqsMove
  <2>1. t.req \in Requests
    BY DEF Types, Tasks
  <2>2. \/ UNCHANGED req
        \/ req[t.req].pc = "waiting" /\ req' = [req EXCEPT ![t.req] = [req[t.req] EXCEPT !.pc = "done"]]
    BY <1>0, <1>6, <2>1 DEF Finish
  <2>3. QED
    BY <2>1, <2>2, NoneMoves, EndMoves, OneMoves
<1>7. CASE Detach
  <2>1. \A r \in Requests : Further(req[r], req[r])
    BY DEF Further, Beyond
  <2>2. CASE req' = [r \in Requests |-> IF req[r].pc = "waiting" /\ req[r].here THEN Failed(r, "done")[r] ELSE req[r]]
    <3>1. \A r \in Requests : Row(req'[r]) /\ Further(req[r], req'[r])
      BY <1>0, <2>1, <2>2, FailedMoves, FailedView
    <3>2. QED
      BY <2>2, <3>1 DEF ReqsMove, Row
  <2>3. CASE req' = [r \in Requests |-> IF req[r].pc = "waiting" /\ req[r].here
                                        THEN [req[r] EXCEPT !.pc = "done"] ELSE req[r]]
    <3>1. \A r \in Requests : Row(req'[r]) /\ Further(req[r], req'[r])
      BY <1>0, <2>1, <2>3, EndMoves
    <3>2. QED
      BY <2>3, <3>1 DEF ReqsMove, Row
  <2>4. QED
    BY <1>7, <2>2, <2>3 DEF Detach
<1>8. CASE Reconnect
  <2>1. req' = [r \in Requests |-> [req[r] EXCEPT !.here = FALSE]]
    BY <1>8 DEF Reconnect
  <2>2. ASSUME NEW r \in Requests PROVE Row(req'[r]) /\ Further(req[r], req'[r])
    <3> DEFINE s == [req[r] EXCEPT !.here = FALSE]
    <3>1. s \in Asked /\ s.pc = req[r].pc /\ s.try = req[r].try /\ s.lane = req[r].lane
      BY <1>0 DEF Asked
    <3>2. Row(s) /\ Further(req[r], s)
      BY <1>0, <3>1 DEF Row, Further, Beyond
    <3>3. QED
      BY <2>1, <3>2
  <2>3. QED
    BY <2>1, <2>2 DEF ReqsMove, Row
<1>9. ASSUME UNCHANGED req PROVE ReqsMove
  BY <1>9, NoneMoves
<1>10. QED
  BY <1>1, <1>2, <1>3, <1>4, <1>5, <1>6, <1>7, <1>8, <1>9
  DEF Next, Ask, Execute, Serve, Link, Report, Break, StartAction, Crash, Drain, DrainTimeout,
      CommandTimeout, Confirm, PollTimeout, Take, SleepLane, WakeLane, LoadLane, StopLane, Answer,
      WorkerNotices

----------------------------------------------------------------------------
(* Types *)

\* An action is over.
LEMMA Ends ==
    ASSUME Types, act.pc # "idle", EndUnmarked \/ EndMarked \/ Unheard
    PROVE  /\ act' = NoAction /\ early' = {}
           /\ mark' \subseteq mark /\ disturbed' \subseteq Lanes
           /\ \A l \in Lanes : l \in disturbed /\ l # act.lane => l \in disturbed'
BY DEF Types, EndUnmarked, EndMarked, Unheard

LEMMA NoActionTypes == NoAction \in Acts /\ NoAction.pc = "idle" /\ NoAction.n = 0 /\ NoAction.lane = None
BY LaneActionsAssumption DEF NoAction, Acts

\* The part of the types that the planner's action and its marks are in.
PlanTypes ==
    /\ mark \subseteq Lanes /\ disturbed \subseteq Lanes /\ early \subseteq Tasks
    /\ act \in Acts
    /\ act.pc # "idle" => act.kind \in Kinds /\ act.lane \in Lanes /\ act.n \in 1..MaxActions

\* The part that the worker and its connection are in.
SideTypes ==
    /\ lane \in [Lanes -> LaneStates]
    /\ tasks \subseteq Tasks
    /\ work \in Commands \cup {None}
    /\ wire \in Seq(Commands \cup Infers)
    /\ conn \in {"up", "broken", "down"}
    /\ session \in Reports
    /\ actions \in 0..MaxActions /\ faults \in 0..MaxFaults

LEMMA TypeParts == Types <=> PlanTypes /\ SideTypes
BY DEF Types, PlanTypes, SideTypes

LEMMA EndTypes ==
    ASSUME Types, act.pc # "idle", EndUnmarked \/ EndMarked \/ Unheard
    PROVE  PlanTypes'
<1>1. /\ act' = NoAction /\ early' = {} /\ mark' \subseteq mark /\ disturbed' \subseteq Lanes
  BY Ends
<1>2. mark \subseteq Lanes
  BY DEF Types
<1>3. QED
  BY <1>1, <1>2, NoActionTypes DEF PlanTypes

\* What is sent is a command or a request.
LEMMA SentTypes ==
    ASSUME Types, NEW m \in Commands \cup Infers, Sent(m)
    PROVE  wire' \in Seq(Commands \cup Infers)
BY AppendView DEF Types, Sent

LEMMA StepTypes ==
    ASSUME Types, ReqsOK, Next
    PROVE  Types'
<1>0. /\ PlanTypes /\ SideTypes
      /\ MaxTries \in Nat \ {0} /\ MaxActions \in Nat /\ MaxFaults \in Nat
  BY TypeParts, LaneActionsAssumption
<1> SUFFICES PlanTypes' /\ SideTypes'
  BY DEF Types, PlanTypes, SideTypes
<1>1. CASE Ask
  <2>1. PlanTypes'
    BY <1>0, <1>1 DEF Ask, Send, StreamTimeout, NoLane, Select, PlanTypes
  <2>2. wire' \in Seq(Commands \cup Infers)
    <3>1. ASSUME NEW r \in Requests, Send(r), UNCHANGED wire PROVE wire' \in Seq(Commands \cup Infers)
      BY <1>0, <3>1 DEF SideTypes
    <3>2. ASSUME NEW r \in Requests, Send(r), wire' # wire PROVE wire' \in Seq(Commands \cup Infers)
      <4> DEFINE m == [kind |-> "infer", req |-> r, try |-> req[r].try, lane |-> req[r].lane]
      <4>1. Sent(m)
        BY <3>2 DEF Send
      <4>2. m \in Infers
        BY <3>2 DEF Send, ReqsOK, Row, Infers
      <4>3. QED
        BY <4>1, <4>2, SentTypes
    <3>3. QED
      BY <1>0, <1>1, <3>1, <3>2 DEF Ask, StreamTimeout, NoLane, Select, SideTypes
  <2>3. UNCHANGED <<lane, tasks, work, conn, session, actions, faults>>
    BY <1>1 DEF Ask, Send, StreamTimeout, NoLane, Select, worker
  <2>4. QED
    BY <1>0, <2>1, <2>2, <2>3 DEF SideTypes
<1>2. ASSUME NEW kind \in Kinds, NEW l \in Lanes, StartAction(kind, l) PROVE PlanTypes' /\ SideTypes'
  <2>0. act.pc = "idle" /\ actions + 1 \in 1..MaxActions /\ actions + 1 \in 0..MaxActions /\ actions' = actions + 1 /\ actions' \in 0..MaxActions
    BY <1>0, <1>2 DEF StartAction, SideTypes
  <2>1. wire' \in Seq(Commands \cup Infers)
    <3>1. [kind |-> kind, lane |-> l, n |-> actions + 1] \in Commands
      BY <2>0 DEF Commands
    <3>2. QED
      BY <1>0, <1>2, <3>1, SentTypes DEF StartAction, SideTypes
  <2>2. act' = act \/ act' = [pc |-> "drain", kind |-> kind, lane |-> l, n |-> actions + 1, here |-> FALSE]
                   \/ act' = [pc |-> "await", kind |-> kind, lane |-> l, n |-> actions + 1, here |-> TRUE]
    BY <1>2 DEF StartAction, Begin
  <2>3. act' \in Acts /\ (act'.pc # "idle" => act'.kind \in Kinds /\ act'.lane \in Lanes /\ act'.n \in 1..MaxActions)
    <3>1. /\ [pc |-> "drain", kind |-> kind, lane |-> l, n |-> actions + 1, here |-> FALSE] \in Acts
          /\ [pc |-> "await", kind |-> kind, lane |-> l, n |-> actions + 1, here |-> TRUE] \in Acts
      BY <2>0 DEF Acts
    <3>2. act' = act => act'.pc = "idle"
      BY <2>0
    <3>3. CASE act' = act
      BY <1>0, <3>2, <3>3 DEF PlanTypes
    <3>4. CASE act' # act
      <4>1. act' \in Acts
        BY <2>2, <3>1, <3>4
      <4>2. act'.kind = kind /\ act'.lane = l /\ act'.n = actions + 1
        BY <2>2, <3>4
      <4>3. QED
        BY <2>0, <4>1, <4>2
    <3>5. QED
      BY <3>3, <3>4
  <2>4. mark' \subseteq Lanes /\ disturbed' \subseteq Lanes /\ early' \subseteq Tasks
    BY <1>0, <1>2 DEF StartAction, PlanTypes, SideTypes
  <2>5. UNCHANGED <<lane, tasks, work, conn, session, faults>>
    BY <1>2 DEF StartAction, worker
  <2>6. QED
    BY <1>0, <2>0, <2>1, <2>3, <2>4, <2>5 DEF SideTypes, PlanTypes
<1>3. CASE Execute
  <2>1. UNCHANGED <<lane, tasks, work, conn, session, actions, faults>>
    BY <1>3 DEF Execute, Drain, DrainTimeout, CommandTimeout, Confirm, PollTimeout, worker
  <2>2. CASE Drain /\ session.open /\ Sent([kind |-> act.kind, lane |-> act.lane, n |-> act.n])
             /\ act' = [act EXCEPT !.pc = "await", !.here = TRUE] /\ UNCHANGED <<mark, early, disturbed>>
    <3>1. [kind |-> act.kind, lane |-> act.lane, n |-> act.n] \in Commands
      BY <1>0, <2>2 DEF Drain, PlanTypes, Commands
    <3>2. wire' \in Seq(Commands \cup Infers)
      BY <2>2, <3>1, SentTypes
    <3>3. act' \in Acts /\ act'.pc = "await" /\ act'.kind = act.kind /\ act'.lane = act.lane /\ act'.n = act.n
      BY <1>0, <2>2 DEF PlanTypes, Acts
    <3>4. PlanTypes'
      BY <1>0, <2>2, <3>3 DEF PlanTypes, Drain
    <3>5. QED
      BY <1>0, <2>1, <3>2, <3>4 DEF SideTypes
  <2>3. CASE (EndUnmarked \/ EndMarked \/ Unheard) /\ UNCHANGED wire
    BY <1>0, <2>1, <2>3, <1>3, EndTypes
    DEF SideTypes, Execute, Drain, DrainTimeout, CommandTimeout, Confirm, PollTimeout
  <2>4. CASE PollTimeout /\ act' = NoAction /\ early' = {} /\ UNCHANGED mark
             /\ disturbed' = disturbed \cup {act.lane}
    <3>1. PlanTypes'
      BY <1>0, <2>4, NoActionTypes DEF PlanTypes, PollTimeout
    <3>2. QED
      BY <1>0, <2>1, <2>4, <3>1 DEF SideTypes, PollTimeout
  <2>5. QED
    BY <1>3, <2>2, <2>3, <2>4 DEF Execute, Drain, DrainTimeout, CommandTimeout, Confirm, Confirmed, PollTimeout
<1>4. CASE Take
  <2>1. PlanTypes' /\ UNCHANGED <<conn, session, actions, faults>>
    BY <1>0, <1>4 DEF Take, PlanTypes
  <2>2. wire' \in Seq(Commands \cup Infers) /\ Head(wire) \in Commands \cup Infers
    BY <1>0, <1>4, TailView DEF Take, SideTypes
  <2>3. CASE Head(wire).kind = "infer"
    <3>1. tasks' \subseteq Tasks /\ UNCHANGED <<lane, work>>
      BY <1>0, <1>4, <2>2, <2>3, MessageKinds DEF Take, SideTypes, Tasks
    <3>2. QED
      BY <1>0, <2>1, <2>2, <3>1 DEF SideTypes
  <2>4. CASE Head(wire).kind # "infer"
    <3>1. work' \in Commands /\ lane' \in [Lanes -> LaneStates] /\ UNCHANGED tasks
      BY <1>0, <1>4, <2>2, <2>4, MessageKinds DEF Take, SideTypes, LaneStates
    <3>2. QED
      BY <1>0, <2>1, <2>2, <3>1 DEF SideTypes
  <2>5. QED
    BY <2>3, <2>4
<1>5. CASE SleepLane \/ WakeLane \/ LoadLane \/ StopLane
  <2>1. (Answer(TRUE) \/ Answer(FALSE)) /\ work # None
    BY <1>5 DEF SleepLane, WakeLane, LoadLane, StopLane
  <2>2. UNCHANGED <<wire, conn, session, actions, faults>> /\ work' = None
    BY <2>1 DEF Answer
  <2>3. lane' \in [Lanes -> LaneStates] /\ tasks' \subseteq tasks
    BY <1>0, <1>5 DEF SleepLane, WakeLane, LoadLane, StopLane, Becomes, SideTypes, LaneStates
  <2>4. PlanTypes'
    <3>1. CASE EndUnmarked \/ EndMarked
      <4>1. CASE act.pc # "idle"
        BY <3>1, <4>1, EndTypes
      <4>2. CASE act.pc = "idle"
        BY <1>0, <3>1, <4>2, NoActionTypes DEF PlanTypes, EndUnmarked, EndMarked
      <4>3. QED
        BY <4>1, <4>2
    <3>2. CASE UNCHANGED <<act, mark, early, disturbed>>
      BY <1>0, <3>2 DEF PlanTypes
    <3>3. CASE Awaited /\ act' = [act EXCEPT !.pc = "poll"] /\ UNCHANGED <<mark, early, disturbed>>
      <4>1. act' \in Acts /\ act'.pc = "poll" /\ act'.kind = act.kind /\ act'.lane = act.lane /\ act'.n = act.n
        BY <1>0, <3>3 DEF PlanTypes, Acts
      <4>2. QED
        BY <1>0, <3>3, <4>1 DEF PlanTypes, Awaited
    <3>4. QED
      BY <2>1, <3>1, <3>2, <3>3 DEF Answer, CommandFailed
  <2>5. QED
    BY <1>0, <2>2, <2>3, <2>4 DEF SideTypes
<1>6. ASSUME NEW t \in tasks, Acquire(t) \/ Finish(t) PROVE PlanTypes' /\ SideTypes'
  <2>1. tasks' \subseteq Tasks
    <3>1. t \in Tasks /\ [t EXCEPT !.pc = "running"] \in Tasks
      BY <1>0 DEF SideTypes, Tasks
    <3>2. QED
      BY <1>0, <1>6, <3>1 DEF Acquire, Finish, SideTypes
  <2>2. QED
    BY <1>0, <1>6, <2>1 DEF Acquire, Finish, SideTypes, PlanTypes
<1>7. CASE Report
  <2>1. session' \in Reports
    BY <1>0, <1>7 DEF Report, Reports, SideTypes
  <2>2. QED
    BY <1>0, <1>7, <2>1 DEF Report, worker, SideTypes, PlanTypes
<1>8. CASE Detach
  <2>1. session' \in Reports
    BY <1>8 DEF Detach, NoReport, Reports, LaneStates
  <2>2. PlanTypes'
    <3>1. CASE act.pc = "await" /\ Unheard
      BY <3>1, EndTypes
    <3>2. CASE UNCHANGED <<act, mark, early, disturbed>>
      BY <1>0, <3>2 DEF PlanTypes
    <3>3. QED
      BY <1>8, <3>1, <3>2 DEF Detach
  <2>3. QED
    BY <1>0, <1>8, <2>1, <2>2 DEF Detach, worker, SideTypes
<1>9. CASE WorkerNotices
  <2>1. wire' \in Seq(Commands \cup Infers)
    BY <1>9 DEF WorkerNotices
  <2>2. QED
    BY <1>0, <1>9, <2>1 DEF WorkerNotices, SideTypes, PlanTypes
<1>10. CASE Reconnect
  <2>1. session' \in Reports
    BY <1>10 DEF Reconnect, NoReport, Reports, LaneStates
  <2>2. act' \in Acts /\ act'.pc = act.pc /\ act'.kind = act.kind /\ act'.lane = act.lane /\ act'.n = act.n
    BY <1>0, <1>10 DEF Reconnect, PlanTypes, Acts
  <2>3. QED
    BY <1>0, <1>10, <2>1, <2>2 DEF Reconnect, worker, SideTypes, PlanTypes
<1>11. CASE Break
  BY <1>0, <1>11 DEF Break, Fault, worker, SideTypes, PlanTypes
<1>12. ASSUME NEW l \in Lanes, Crash(l) PROVE PlanTypes' /\ SideTypes'
  <2>1. lane' \in [Lanes -> LaneStates] /\ tasks' \subseteq tasks
    BY <1>0, <1>12 DEF Crash, SideTypes, LaneStates
  <2>2. QED
    BY <1>0, <1>12, <2>1 DEF Crash, Fault, SideTypes, PlanTypes
<1>13. QED
  BY <1>1, <1>2, <1>3, <1>4, <1>5, <1>6, <1>7, <1>8, <1>9, <1>10, <1>11, <1>12
  DEF Next, Serve, Link

----------------------------------------------------------------------------
(* The planner's action, and what the worker does *)

LEMMA ActingKept ==
    ASSUME Types, Acting, Next
    PROVE  Acting'
<1>0. /\ act \in Acts /\ actions \in Nat /\ MaxActions \in Nat
      /\ act.pc # "idle" => act.n \in 1..MaxActions
  BY LaneActionsAssumption DEF Types
<1>1. ASSUME act' = NoAction, early' = {} PROVE Acting'
  BY <1>1, NoActionTypes DEF Acting
<1>2. ASSUME UNCHANGED <<act, early, actions>> PROVE Acting'
  BY <1>2 DEF Acting
<1>3. ASSUME act.pc # "idle", NEW p \in {"await", "poll"}, NEW h \in BOOLEAN, UNCHANGED actions,
             act' = [act EXCEPT !.pc = p, !.here = h]
      PROVE  Acting'
  <2>1. act'.pc = p /\ act'.n = act.n
    BY <1>0, <1>3 DEF Acts
  <2>2. QED
    BY <1>3, <2>1 DEF Acting
<1>4. ASSUME NEW kind \in Kinds, NEW l \in Lanes, StartAction(kind, l) PROVE Acting'
  <2>1. CASE UNCHANGED act /\ UNCHANGED early
    BY <1>0, <1>4, <2>1 DEF StartAction, Acting
  <2>2. CASE Takes(kind)
    <3>1. act'.pc = "drain" /\ act'.kind = kind /\ act'.n = actions + 1 /\ actions' = actions + 1
      BY <1>4, <2>2 DEF StartAction, Begin
    <3>2. QED
      BY <1>0, <2>2, <3>1 DEF Acting, Takes
  <2>3. CASE ~Takes(kind) /\ Begin(kind, l, "await")
    <3>1. act'.pc = "await" /\ act'.n = actions + 1 /\ actions' = actions + 1
      BY <1>4, <2>3 DEF StartAction, Begin
    <3>2. QED
      BY <1>0, <3>1 DEF Acting
  <2>4. QED
    BY <1>4, <2>1, <2>2, <2>3 DEF StartAction
<1>5. CASE Execute
  <2>1. CASE Drain /\ act' = [act EXCEPT !.pc = "await", !.here = TRUE]
    BY <1>3, <2>1 DEF Drain
  <2>2. QED
    BY <1>1, <1>5, <2>1
    DEF Execute, Drain, DrainTimeout, CommandTimeout, Confirm, Confirmed, PollTimeout, Unheard,
        EndMarked, EndUnmarked
<1>6. CASE SleepLane \/ WakeLane \/ LoadLane \/ StopLane
  <2>1. Answer(TRUE) \/ Answer(FALSE)
    BY <1>6 DEF SleepLane, WakeLane, LoadLane, StopLane
  <2>2. CASE Awaited /\ act' = [act EXCEPT !.pc = "poll"] /\ UNCHANGED actions
    <3>1. act'.pc = "poll" /\ act'.n = act.n
      BY <1>0, <2>2 DEF Acts
    <3>2. QED
      BY <2>2, <3>1 DEF Acting, Awaited
  <2>3. QED
    BY <1>1, <1>2, <2>1, <2>2 DEF Answer, CommandFailed, EndMarked, EndUnmarked
<1>7. CASE Detach
  BY <1>1, <1>2, <1>7 DEF Detach, Unheard, EndUnmarked
<1>8. CASE Reconnect
  <2>1. act'.pc = act.pc /\ act'.n = act.n /\ act'.kind = act.kind
    BY <1>0, <1>8 DEF Reconnect, Acts
  <2>2. act'.lane = act.lane
    BY <1>0, <1>8 DEF Reconnect, Acts
  <2>3. QED
    BY <1>8, <2>1, <2>2 DEF Reconnect, Acting
<1>9. QED
  BY <1>2, <1>4, <1>5, <1>6, <1>7, <1>8
  DEF Next, Ask, Send, StreamTimeout, NoLane, Select, Serve, Take, Acquire, Finish, Report, Link,
      WorkerNotices, Break, Fault, Crash

\* A sleep, a wake, a load or a stop: what becomes of the lane and its tasks.
Lowers(l)  == lane'[l] \in {"asleep", "gone"} /\ RunningOn(l) = {} /\ UNCHANGED tasks
Raises(l)  == lane'[l] = "awake" /\ UNCHANGED tasks
Removes(l) == lane'[l] = "gone" /\ tasks' = tasks \ RunningOn(l)

LEMMA CommandEffect ==
    ASSUME Types, Served, Loading, SleepLane \/ WakeLane \/ LoadLane \/ StopLane
    PROVE  /\ work \in Commands /\ work.lane \in Lanes /\ work.kind \in Kinds
           /\ Answer(TRUE) \/ Answer(FALSE)
           /\ \A l \in Lanes : l # work.lane => lane'[l] = lane[l]
           /\ lane'[work.lane] # "starting"
           /\ \/ UNCHANGED <<lane, tasks>>
              \/ Lowers(work.lane)
              \/ work.kind \in {"wake", "load"} /\ Raises(work.lane) /\ Answer(TRUE)
              \/ Removes(work.lane)
<1>1. /\ work \in Commands /\ work.lane \in Lanes /\ work.kind \in Kinds /\ lane \in [Lanes -> LaneStates]
      /\ work # None
  BY DEF Types, Commands, SleepLane, WakeLane, LoadLane, StopLane
<1>2. RunningOn(work.lane) # {} => lane[work.lane] = "awake"
  BY DEF Served, RunningOn
<1>3. \A l \in Lanes : l # work.lane => lane'[l] = lane[l]
  BY <1>1 DEF SleepLane, WakeLane, LoadLane, StopLane, Becomes
<1>4. lane[work.lane] = "starting" => work.kind = "load"
  BY <1>1 DEF Loading
<1>5. CASE SleepLane
  BY <1>1, <1>2, <1>3, <1>4, <1>5 DEF SleepLane, Becomes, Lowers
<1>6. CASE WakeLane
  BY <1>1, <1>2, <1>3, <1>4, <1>6 DEF WakeLane, Becomes, Lowers, Raises
<1>7. CASE LoadLane
  BY <1>1, <1>2, <1>3, <1>4, <1>7 DEF LoadLane, Becomes, Lowers, Raises
<1>8. CASE StopLane
  BY <1>1, <1>2, <1>3, <1>4, <1>8 DEF StopLane, Becomes, Removes
<1>9. QED
  BY <1>5, <1>6, <1>7, <1>8

\* What Take does.
LEMMA TakeEffect ==
    ASSUME Types, Take
    PROVE  /\ work = None /\ wire # <<>> /\ wire[1] \in Commands \cup Infers /\ 1 \in DOMAIN wire
           /\ \A i \in DOMAIN wire' : i \in Nat \ {0} /\ i + 1 \in DOMAIN wire /\ wire'[i] = wire[i + 1]
           /\ \/ /\ wire[1].kind = "infer" /\ UNCHANGED <<lane, work>>
                 /\ tasks' = tasks \cup {[req |-> wire[1].req, try |-> wire[1].try,
                                          lane |-> wire[1].lane, pc |-> "arrived"]}
              \/ /\ wire[1].kind # "infer" /\ wire[1] \in Commands /\ work' = wire[1] /\ UNCHANGED tasks
                 /\ \/ UNCHANGED lane
                    \/ /\ wire[1].kind = "load" /\ lane[wire[1].lane] = "gone"
                       /\ lane' = [lane EXCEPT ![wire[1].lane] = "starting"]
<1>1. wire \in Seq(Commands \cup Infers) /\ wire # <<>> /\ work = None
  BY DEF Types, Take
<1>2. 1 \in DOMAIN wire /\ Head(wire) = wire[1] /\ wire[1] \in Commands \cup Infers
  BY <1>1, TailView
<1>3. \A i \in DOMAIN wire' : i \in Nat \ {0} /\ i + 1 \in DOMAIN wire /\ wire'[i] = wire[i + 1]
  BY <1>1, TailView DEF Take
<1>4. wire[1].kind # "infer" => wire[1] \in Commands
  BY <1>2, MessageKinds
<1>5. QED
  BY <1>1, <1>2, <1>3, <1>4 DEF Take

LEMMA ServedKept ==
    ASSUME Types, Served, Loading, Next
    PROVE  Served' /\ Loading'
<1>0. /\ lane \in [Lanes -> LaneStates] /\ tasks \subseteq Tasks
      /\ \A t \in tasks : t.lane \in Lanes /\ (t.pc = "running" => lane[t.lane] = "awake")
  BY DEF Types, Tasks, Served
<1>1. CASE Ask
  BY <1>1 DEF Ask, Send, Sent, StreamTimeout, NoLane, Select, worker, Served, Loading
<1>2. ASSUME NEW kind \in Kinds, NEW l \in Lanes, StartAction(kind, l) PROVE Served' /\ Loading'
  BY <1>2 DEF StartAction, Sent, worker, Served, Loading
<1>3. CASE Execute
  BY <1>3 DEF Execute, Drain, Sent, DrainTimeout, CommandTimeout, Confirm, PollTimeout, worker, Served, Loading
<1>4. CASE Take
  <2>1. UNCHANGED <<conn, session>> /\ conn # "down"
    BY <1>4 DEF Take, Served
  <2>2. \A l \in Lanes : lane[l] # "starting"
    BY <1>4 DEF Loading, Take
  <2>3. \A l \in Lanes : lane[l] = "awake" => lane'[l] = "awake"
    BY <1>0, <1>4, TakeEffect
  <2>4. \A t \in tasks' : t.pc = "running" => t \in tasks
    BY <1>4, TakeEffect
  <2>5. Served'
    BY <1>0, <2>1, <2>3, <2>4 DEF Served
  <2>6. ASSUME NEW l \in Lanes, lane'[l] = "starting"
        PROVE  work' # None /\ work'.kind = "load" /\ work'.lane = l
    <3>1. lane' # lane
      BY <2>2, <2>6
    <3>2. /\ wire[1] \in Commands /\ work' = wire[1] /\ wire[1].kind = "load"
          /\ lane' = [lane EXCEPT ![wire[1].lane] = "starting"]
      BY <1>4, <3>1, TakeEffect
    <3>3. wire[1].lane = l
      BY <1>0, <2>2, <2>6, <3>2
    <3>4. QED
      BY <3>2, <3>3, NoneAssumption
  <2>7. QED
    BY <2>5, <2>6 DEF Loading
<1>5. CASE SleepLane \/ WakeLane \/ LoadLane \/ StopLane
  <2>0. work \in Commands /\ work # None /\ conn # "down" /\ UNCHANGED <<conn, session, wire>> /\ work' = None
    BY <1>5, CommandEffect, NoneAssumption DEF Answer, Served
  <2>1. tasks' \subseteq tasks
    BY <1>5, CommandEffect DEF Lowers, Raises, Removes
  <2>2. \A t \in tasks' : t.pc = "running" => lane'[t.lane] = "awake"
    BY <1>0, <1>5, <2>1, CommandEffect DEF Lowers, Raises, Removes, RunningOn
  <2>3. \A l \in Lanes : lane'[l] # "starting"
    BY <1>5, CommandEffect DEF Loading
  <2>4. QED
    BY <2>0, <2>2, <2>3 DEF Served, Loading
<1>6. ASSUME NEW t \in tasks, Acquire(t) PROVE Served' /\ Loading'
  <2>1. [t EXCEPT !.pc = "running"].lane = t.lane
    BY <1>0 DEF Tasks
  <2>2. QED
    BY <1>0, <1>6, <2>1 DEF Acquire, Served, Loading
<1>7. ASSUME NEW t \in tasks, Finish(t) PROVE Served' /\ Loading'
  BY <1>7 DEF Finish, Served, Loading
<1>8. CASE Report
  BY <1>8 DEF Report, worker, Served, Loading
<1>9. CASE Detach
  BY <1>9 DEF Detach, NoReport, worker, Served, Loading
<1>10. CASE WorkerNotices
  BY <1>10 DEF WorkerNotices, Served, Loading
<1>11. CASE Reconnect
  BY <1>11 DEF Reconnect, NoReport, worker, Served, Loading
<1>12. CASE Break
  BY <1>12 DEF Break, worker, Served, Loading
<1>13. ASSUME NEW l \in Lanes, Crash(l) PROVE Served' /\ Loading'
  <2>1. /\ lane'[l] \in {"awake", "gone"} /\ \A k \in Lanes : k # l => lane'[k] = lane[k]
        /\ tasks' = tasks \ RunningOn(l) /\ UNCHANGED <<work, wire, conn, session>>
    BY <1>0, <1>13 DEF Crash
  <2>2. \A t \in tasks' : t.pc = "running" => t \in tasks /\ t.lane # l
    BY <2>1 DEF RunningOn
  <2>3. QED
    BY <1>0, <2>1, <2>2 DEF Served, Loading
<1>14. QED
  BY <1>1, <1>2, <1>3, <1>4, <1>5, <1>6, <1>7, <1>8, <1>9, <1>10, <1>11, <1>12, <1>13
  DEF Next, Serve, Link

----------------------------------------------------------------------------
(* The attempts of requests *)

\* The wire loses its first message, or none; it gets one more, or none.
Fewer(k) == \A i \in DOMAIN wire' : i \in Nat /\ i + k \in DOMAIN wire /\ wire'[i] = wire[i + k]

Added(m, n) ==
    /\ n \notin DOMAIN wire /\ n \in DOMAIN wire' /\ wire'[n] = m
    /\ \A i \in DOMAIN wire' : i \in Nat /\ (i = n \/ (i \in DOMAIN wire /\ wire'[i] = wire[i]))

LEMMA Positions == ASSUME Types PROVE \A i \in DOMAIN wire : i \in Nat /\ i + 0 = i
<1>1. wire \in Seq(Commands \cup Infers)
  BY DEF Types
<1>2. QED
  BY <1>1, LenProperties

LEMMA WireStays == ASSUME Types, UNCHANGED wire PROVE Fewer(0)
BY Positions DEF Fewer

LEMMA WireSent ==
    ASSUME Types, NEW m \in Commands \cup Infers, Sent(m)
    PROVE  Fewer(0) \/ \E n : Added(m, n)
<1>1. wire \in Seq(Commands \cup Infers)
  BY DEF Types
<1>2. CASE UNCHANGED wire
  BY <1>2, WireStays
<1>3. CASE wire' = Append(wire, m)
  <2>1. Len(wire) + 1 \in Nat /\ Len(wire) + 1 \notin DOMAIN wire
    BY <1>1, LenProperties
  <2>2. Added(m, Len(wire) + 1)
    BY <1>1, <1>3, <2>1, AppendView, Positions DEF Added
  <2>3. QED
    BY <2>2
<1>4. QED
  BY <1>2, <1>3 DEF Sent

LEMMA SentStays ==
    ASSUME ReqsMove, NEW r \in Requests, NEW k \in 1 .. MaxTries, WasSent(r, k)
    PROVE  Beyond(req'[r], k)
BY DEF ReqsMove, Further, WasSent

\* The requests on the wire, and the tasks.
LEMMA AttemptKinds ==
    ASSUME Types
    PROVE  /\ \A i \in DOMAIN wire : wire[i].kind = "infer" =>
                 wire[i].req \in Requests /\ wire[i].try \in 1 .. MaxTries
           /\ \A t \in tasks \cup early : t.req \in Requests /\ t.try \in 1 .. MaxTries
BY Queued, MessageKinds DEF Types, Tasks

\* Nothing new is asked of the worker.
LEMMA AttemptsFewer ==
    ASSUME Types, Attempts, ReqsMove, NEW k \in {0, 1},
           \A i \in DOMAIN wire' : wire'[i].kind = "infer" =>
               i \in Nat /\ i + k \in DOMAIN wire /\ wire'[i] = wire[i + k],
           tasks' \subseteq tasks, early' \subseteq early \cup tasks
    PROVE  Attempts'
<1>1. ASSUME NEW i \in DOMAIN wire', wire'[i].kind = "infer"
      PROVE  Beyond(req'[wire'[i].req], wire'[i].try)
  <2>1. i + k \in DOMAIN wire /\ wire'[i] = wire[i + k]
    BY <1>1
  <2>2. WasSent(wire[i + k].req, wire[i + k].try)
    BY <1>1, <2>1 DEF Attempts
  <2>3. wire[i + k].req \in Requests /\ wire[i + k].try \in 1 .. MaxTries
    BY <1>1, <2>1, AttemptKinds
  <2>4. QED
    BY <2>1, <2>2, <2>3, SentStays DEF WasSent
<1>2. ASSUME NEW i \in DOMAIN wire', NEW j \in DOMAIN wire', wire'[i].kind = "infer",
             wire'[j].kind = "infer", Attempt(wire'[i], wire'[j])
      PROVE  i = j
  <2>1. i \in Nat /\ j \in Nat /\ i + k = j + k
    BY <1>2 DEF Attempts, Attempt
  <2>2. QED
    BY <2>1
<1>3. ASSUME NEW t \in tasks' \cup early' PROVE Beyond(req'[t.req], t.try)
  <2>1. t \in tasks \cup early
    BY <1>3
  <2>2. WasSent(t.req, t.try) /\ t.req \in Requests /\ t.try \in 1 .. MaxTries
    BY <2>1, AttemptKinds DEF Attempts
  <2>3. QED
    BY <2>2, SentStays
<1>4. ASSUME NEW t \in tasks' \cup early', NEW i \in DOMAIN wire', wire'[i].kind = "infer"
      PROVE  ~Attempt(wire'[i], t)
  BY <1>4 DEF Attempts, Attempt
<1>5. ASSUME NEW t \in tasks' \cup early', NEW u \in tasks', Attempt(t, u) PROVE t = u
  BY <1>5 DEF Attempts, Attempt
<1>6. QED
  BY <1>1, <1>2, <1>3, <1>4, <1>5 DEF Attempts, Attempt, WasSent

\* A request is sent.
LEMMA AttemptsSend ==
    ASSUME Types, ReqsOK, Attempts, ReqsMove, NEW r \in Requests, Send(r)
    PROVE  Attempts'
<1> DEFINE m == [kind |-> "infer", req |-> r, try |-> req[r].try, lane |-> req[r].lane]
<1>0. req[r].pc = "selected" /\ tasks' = tasks /\ early' = early
  BY DEF Send, worker
<1>1. m \in Infers /\ m.kind = "infer" /\ m.req = r /\ m.try = req[r].try /\ m.try \in 1 .. MaxTries
  BY <1>0 DEF ReqsOK, Row, Infers
<1>2. CASE Fewer(0)
  BY <1>0, <1>2, AttemptsFewer DEF Fewer
<1>3. ASSUME NEW n, Added(m, n), wire' # wire PROVE Attempts'
  <2>0. req' = [req EXCEPT ![r].pc = "waiting", ![r].here = TRUE]
    BY <1>3 DEF Send
  <2>1. req'[r].pc = "waiting" /\ req'[r].try = req[r].try
    BY <1>0, <2>0 DEF ReqsOK, Asked
  <2>2. ~WasSent(r, m.try) /\ Beyond(req'[r], m.try)
    BY <1>0, <1>1, <2>1 DEF WasSent, Beyond
  <2>3. \A i \in DOMAIN wire : wire[i].kind = "infer" => ~Attempt(wire[i], m)
    <3>1. ASSUME NEW i \in DOMAIN wire, wire[i].kind = "infer", Attempt(wire[i], m) PROVE FALSE
      <4>1. WasSent(wire[i].req, wire[i].try)
        BY <3>1 DEF Attempts
      <4>2. wire[i].req = r /\ wire[i].try = m.try
        BY <1>1, <3>1 DEF Attempt
      <4>3. QED
        BY <2>2, <4>1, <4>2
    <3>2. QED
      BY <3>1
  <2>4. \A t \in tasks \cup early : ~Attempt(t, m) /\ ~Attempt(m, t)
    <3>1. ASSUME NEW t \in tasks \cup early, t.req = r, t.try = m.try PROVE FALSE
      BY <2>2, <3>1 DEF Attempts
    <3>2. QED
      BY <1>1, <3>1 DEF Attempt
  <2>5. \A i \in DOMAIN wire' : i = n \/ (i \in DOMAIN wire /\ wire'[i] = wire[i])
    BY <1>3 DEF Added
  <2>6. wire'[n] = m
    BY <1>3 DEF Added
  <2>7. ASSUME NEW i \in DOMAIN wire', wire'[i].kind = "infer"
        PROVE  Beyond(req'[wire'[i].req], wire'[i].try)
    <3>1. CASE i = n
      BY <1>1, <2>2, <2>6, <3>1 DEF WasSent
    <3>2. CASE i \in DOMAIN wire /\ wire'[i] = wire[i]
      <4>1. WasSent(wire[i].req, wire[i].try) /\ wire[i].req \in Requests /\ wire[i].try \in 1 .. MaxTries
        BY <2>7, <3>2, AttemptKinds DEF Attempts
      <4>2. QED
        BY <3>2, <4>1, SentStays DEF WasSent
    <3>3. QED
      BY <2>5, <3>1, <3>2
  <2>8. ASSUME NEW i \in DOMAIN wire', NEW j \in DOMAIN wire', wire'[i].kind = "infer",
               wire'[j].kind = "infer", Attempt(wire'[i], wire'[j])
        PROVE  i = j
    <3>1. CASE i = n \/ j = n
      BY <2>3, <2>5, <2>6, <2>8, <3>1 DEF Attempt
    <3>2. CASE i # n /\ j # n
      BY <2>5, <2>8, <3>2 DEF Attempts
    <3>3. QED
      BY <3>1, <3>2
  <2>9. ASSUME NEW t \in tasks \cup early
        PROVE  /\ Beyond(req'[t.req], t.try)
               /\ \A i \in DOMAIN wire' : wire'[i].kind = "infer" => ~Attempt(wire'[i], t)
               /\ \A u \in tasks : Attempt(t, u) => t = u
    <3>1. Beyond(req'[t.req], t.try)
      BY <2>9, AttemptKinds, SentStays DEF Attempts
    <3>2. QED
      BY <2>4, <2>5, <2>6, <2>9, <3>1 DEF Attempts
  <2>10. QED
    BY <1>0, <2>7, <2>8, <2>9 DEF Attempts, Attempt, WasSent
<1>4. CASE UNCHANGED wire
  BY <1>2, <1>4, WireStays
<1>5. CASE ~UNCHANGED wire
  <2>1. Sent(m)
    BY <1>5 DEF Send
  <2>2. QED
    BY <1>1, <1>2, <1>3, <1>5, <2>1, WireSent
<1>6. QED
  BY <1>4, <1>5

\* The worker takes a request, or a command.
LEMMA AttemptsTake ==
    ASSUME Types, Attempts, ReqsMove, Take
    PROVE  Attempts'
<1>0. /\ wire[1] \in Commands \cup Infers /\ 1 \in DOMAIN wire /\ early' = early
      /\ \A i \in DOMAIN wire' : i \in Nat \ {0} /\ i + 1 \in DOMAIN wire /\ wire'[i] = wire[i + 1]
  BY TakeEffect DEF Take
<1>1. CASE wire[1].kind # "infer"
  <2>1. tasks' = tasks
    BY <1>1, TakeEffect
  <2>2. QED
    BY <1>0, <2>1, AttemptsFewer
<1>2. CASE wire[1].kind = "infer"
  <2> DEFINE m == wire[1]
             n == [req |-> m.req, try |-> m.try, lane |-> m.lane, pc |-> "arrived"]
  <2>1. tasks' = tasks \cup {n} /\ n.req = m.req /\ n.try = m.try
    BY <1>2, TakeEffect
  <2>2. m.req \in Requests /\ m.try \in 1 .. MaxTries /\ WasSent(m.req, m.try)
    BY <1>0, <1>2, AttemptKinds DEF Attempts
  <2>3. Beyond(req'[n.req], n.try)
    BY <2>1, <2>2, SentStays DEF WasSent
  <2>4. \A i \in DOMAIN wire' : wire'[i].kind = "infer" => ~Attempt(wire'[i], n)
    <3>1. ASSUME NEW i \in DOMAIN wire', wire'[i].kind = "infer", Attempt(wire'[i], n) PROVE FALSE
      <4>1. i + 1 \in DOMAIN wire /\ wire'[i] = wire[i + 1] /\ i + 1 # 1
        BY <1>0, <3>1
      <4>2. Attempt(wire[i + 1], wire[1])
        BY <2>1, <3>1, <4>1 DEF Attempt
      <4>3. QED
        BY <1>0, <1>2, <3>1, <4>1, <4>2 DEF Attempts
    <3>2. QED
      BY <3>1
  <2>5. \A t \in tasks \cup early : ~Attempt(t, n) /\ ~Attempt(n, t)
    BY <1>0, <1>2, <2>1 DEF Attempts, Attempt
  <2>6. ASSUME NEW t \in tasks \cup early
        PROVE  /\ Beyond(req'[t.req], t.try)
               /\ \A i \in DOMAIN wire' : wire'[i].kind = "infer" => ~Attempt(wire'[i], t)
               /\ \A u \in tasks : Attempt(t, u) => t = u
    <3>1. Beyond(req'[t.req], t.try)
      BY <2>6, AttemptKinds, SentStays DEF Attempts
    <3>2. QED
      BY <1>0, <2>6, <3>1 DEF Attempts
  <2>7. ASSUME NEW i \in DOMAIN wire', wire'[i].kind = "infer"
        PROVE  Beyond(req'[wire'[i].req], wire'[i].try)
    <3>1. i + 1 \in DOMAIN wire /\ wire'[i] = wire[i + 1] /\ wire[i + 1].kind = "infer"
      BY <1>0, <2>7
    <3>2. /\ WasSent(wire[i + 1].req, wire[i + 1].try)
          /\ wire[i + 1].req \in Requests /\ wire[i + 1].try \in 1 .. MaxTries
      BY <3>1, AttemptKinds DEF Attempts
    <3>3. QED
      BY <3>1, <3>2, SentStays DEF WasSent
  <2>8. ASSUME NEW i \in DOMAIN wire', NEW j \in DOMAIN wire', wire'[i].kind = "infer",
               wire'[j].kind = "infer", Attempt(wire'[i], wire'[j])
        PROVE  i = j
    <3>1. i \in Nat /\ j \in Nat /\ i + 1 = j + 1
      BY <1>0, <2>8 DEF Attempts
    <3>2. QED
      BY <3>1
  <2>9. \A t \in tasks' \cup early' : t = n \/ t \in tasks \cup early
    BY <1>0, <2>1
  <2>10. ASSUME NEW t \in tasks' \cup early'
         PROVE  /\ Beyond(req'[t.req], t.try)
                /\ \A i \in DOMAIN wire' : wire'[i].kind = "infer" => ~Attempt(wire'[i], t)
                /\ \A u \in tasks' : Attempt(t, u) => t = u
    <3>1. CASE t = n
      BY <2>1, <2>3, <2>4, <2>5, <3>1
    <3>2. CASE t \in tasks \cup early
      BY <2>1, <2>5, <2>6, <3>2
    <3>3. QED
      BY <2>9, <3>1, <3>2
  <2>11. QED
    BY <2>7, <2>8, <2>10 DEF Attempts, Attempt, WasSent
<1>3. QED
  BY <1>1, <1>2

\* A request begins to run.
LEMMA AttemptsAcquire ==
    ASSUME Types, Attempts, ReqsMove, Spared, NEW t \in tasks, Acquire(t)
    PROVE  Attempts'
<1>0. t \in Tasks /\ t.pc = "arrived" /\ wire' = wire /\ early' = early
  BY DEF Types, Acquire
<1>1. CASE tasks' = tasks \ {t}
  BY <1>0, <1>1, WireStays, AttemptsFewer DEF Fewer
<1>2. CASE tasks' = (tasks \ {t}) \cup {[t EXCEPT !.pc = "running"]}
  <2> DEFINE s == [t EXCEPT !.pc = "running"]
  <2>1. s.req = t.req /\ s.try = t.try
    BY <1>0 DEF Tasks
  <2>2. t \notin early
    BY <1>0 DEF Spared
  <2>3. \A u \in (tasks \ {t}) \cup early : ~Attempt(u, t) /\ ~Attempt(t, u)
    BY <2>2 DEF Attempts, Attempt
  <2>4. \A i \in DOMAIN wire : wire[i].kind = "infer" => ~Attempt(wire[i], s) /\ Beyond(req'[wire[i].req], wire[i].try)
    <3>1. \A i \in DOMAIN wire : wire[i].kind = "infer" => ~Attempt(wire[i], s)
      BY <2>1 DEF Attempts, Attempt
    <3>2. QED
      BY <3>1, AttemptKinds, SentStays DEF Attempts
  <2>5. \A u \in tasks \cup early : Beyond(req'[u.req], u.try)
    BY AttemptKinds, SentStays DEF Attempts
  <2>6. Beyond(req'[s.req], s.try)
    BY <2>1, <2>5
  <2>7. ASSUME NEW u \in tasks' \cup early'
        PROVE  /\ Beyond(req'[u.req], u.try)
               /\ \A i \in DOMAIN wire : wire[i].kind = "infer" => ~Attempt(wire[i], u)
               /\ \A v \in tasks' : Attempt(u, v) => u = v
    <3>1. CASE u = s
      <4>1. \A v \in tasks' : v = s \/ v \in tasks \ {t}
        BY <1>2
      <4>2. QED
        BY <2>1, <2>3, <2>4, <2>6, <3>1, <4>1 DEF Attempt
    <3>2. CASE u # s
      <4>1. u \in (tasks \ {t}) \cup early /\ \A v \in tasks' : v = s \/ v \in tasks
        BY <1>0, <1>2, <3>2
      <4>2. ~Attempt(u, s)
        BY <2>1, <2>3, <4>1 DEF Attempt
      <4>3. QED
        BY <2>5, <4>1, <4>2 DEF Attempts
    <3>3. QED
      BY <3>1, <3>2
  <2>8. QED
    BY <1>0, <2>4, <2>7 DEF Attempts, Attempt, WasSent
<1>3. QED
  BY <1>1, <1>2 DEF Acquire

LEMMA AttemptsKept ==
    ASSUME Types, ReqsOK, Served, Loading, Attempts, Spared, Next
    PROVE  Attempts'
<1>0. ReqsMove
  BY RequestsMove
<1>1. ASSUME Fewer(0), tasks' \subseteq tasks, early' \subseteq early \cup tasks PROVE Attempts'
  BY <1>0, <1>1, AttemptsFewer DEF Fewer
<1>2. ASSUME UNCHANGED wire, tasks' \subseteq tasks, early' \subseteq early \cup tasks PROVE Attempts'
  BY <1>1, <1>2, WireStays
<1>3. ASSUME NEW m \in Commands, Sent(m), tasks' \subseteq tasks, early' \subseteq early \cup tasks PROVE Attempts'
  <2>1. m.kind # "infer"
    BY DEF Commands, Kinds
  <2>2. ASSUME NEW n, Added(m, n) PROVE Attempts'
    <3>1. \A i \in DOMAIN wire' : wire'[i].kind = "infer" => i \in Nat /\ i + 0 \in DOMAIN wire /\ wire'[i] = wire[i + 0]
      BY <2>1, <2>2, Positions DEF Added
    <3>2. QED
      BY <1>0, <1>3, <3>1, AttemptsFewer
  <2>3. QED
    BY <1>1, <1>3, <2>2, WireSent
<1>4. ASSUME NEW r \in Requests, Send(r) PROVE Attempts'
  BY <1>0, <1>4, AttemptsSend
<1>5. ASSUME NEW r \in Requests, StreamTimeout(r) \/ NoLane(r) \/ \E l \in Lanes : Select(r, l) PROVE Attempts'
  BY <1>2, <1>5 DEF StreamTimeout, NoLane, Select, worker
<1>6. ASSUME NEW kind \in Kinds, NEW l \in Lanes, StartAction(kind, l) PROVE Attempts'
  <2>1. tasks' \subseteq tasks /\ early' \subseteq early \cup tasks
    BY <1>6 DEF StartAction, worker
  <2>2. [kind |-> kind, lane |-> l, n |-> actions + 1] \in Commands
    BY <1>6, LaneActionsAssumption DEF StartAction, Types, Commands
  <2>3. QED
    BY <1>2, <1>3, <1>6, <2>1, <2>2 DEF StartAction
<1>7. CASE Execute
  <2>1. tasks' \subseteq tasks /\ early' \subseteq early \cup tasks
    BY <1>7 DEF Execute, Drain, DrainTimeout, CommandTimeout, Confirm, Confirmed, PollTimeout, Unheard,
                EndMarked, EndUnmarked, worker
  <2>2. CASE Drain
    <3>1. [kind |-> act.kind, lane |-> act.lane, n |-> act.n] \in Commands
      BY <2>2 DEF Drain, Types, Commands
    <3>2. QED
      BY <1>2, <1>3, <2>1, <2>2, <3>1 DEF Drain
  <2>3. QED
    BY <1>2, <1>7, <2>1, <2>2 DEF Execute, DrainTimeout, CommandTimeout, Confirm, PollTimeout
<1>8. CASE Take
  BY <1>0, <1>8, AttemptsTake
<1>9. CASE SleepLane \/ WakeLane \/ LoadLane \/ StopLane
  <2>1. tasks' \subseteq tasks
    BY <1>9, CommandEffect DEF Lowers, Raises, Removes
  <2>2. early' \subseteq early /\ UNCHANGED wire
    BY <1>9, CommandEffect DEF Answer, CommandFailed, EndMarked, EndUnmarked
  <2>3. QED
    BY <1>2, <2>1, <2>2
<1>10. ASSUME NEW t \in tasks, Acquire(t) PROVE Attempts'
  BY <1>0, <1>10, AttemptsAcquire
<1>11. ASSUME NEW t \in tasks, Finish(t) PROVE Attempts'
  BY <1>2, <1>11 DEF Finish
<1>12. CASE Report \/ Detach \/ Reconnect \/ Break
  BY <1>2, <1>12 DEF Report, Detach, Unheard, EndUnmarked, Reconnect, Break, worker
<1>13. CASE WorkerNotices
  <2>1. Fewer(0)
    <3>1. DOMAIN wire' = {}
      BY <1>13 DEF WorkerNotices
    <3>2. QED
      BY <3>1 DEF Fewer
  <2>2. QED
    BY <1>1, <1>13, <2>1 DEF WorkerNotices
<1>14. ASSUME NEW l \in Lanes, Crash(l) PROVE Attempts'
  BY <1>2, <1>14 DEF Crash
<1>15. QED
  BY <1>4, <1>5, <1>6, <1>7, <1>8, <1>9, <1>10, <1>11, <1>12, <1>13, <1>14
  DEF Next, Ask, Serve, Link

----------------------------------------------------------------------------
(* The requests that an action must spare *)

\* Nothing that matters to the draining of the lane changes.
LEMMA SparedFewer ==
    ASSUME Spared, early' = early, act'.pc = act.pc, act'.lane = act.lane, session' = session,
           early \cap tasks' \subseteq tasks
    PROVE  Spared'
BY DEF Spared

LEMMA SparedOver ==
    ASSUME early' = {}
    PROVE  Spared'
BY DEF Spared

LEMMA SparedKept ==
    ASSUME Types, Acting, Served, Loading, Attempts, Spared, Next
    PROVE  Spared'
<1>0. act \in Acts /\ tasks \subseteq Tasks
  BY DEF Types
<1>1. CASE Ask
  BY <1>1, SparedFewer DEF Ask, Send, StreamTimeout, NoLane, Select, worker
<1>2. ASSUME NEW kind \in Kinds, NEW l \in Lanes, StartAction(kind, l) PROVE Spared'
  <2>1. early = {}
    BY <1>2 DEF StartAction, Acting
  <2>2. CASE UNCHANGED early
    BY <2>1, <2>2, SparedOver
  <2>3. CASE Takes(kind)
    <3>1. /\ act'.pc = "drain" /\ act'.lane = l /\ session' = session /\ tasks' = tasks
          /\ early' = {t \in session.active : t.lane = l} \cap tasks
      BY <1>2, <2>3 DEF StartAction, Begin, worker
    <3>2. session.state[l] # "gone"
      BY <1>2, <2>3 DEF StartAction, Worth, Takes
    <3>3. QED
      BY <3>1, <3>2 DEF Spared, Served
  <2>4. QED
    BY <1>2, <2>2, <2>3 DEF StartAction
<1>3. CASE Execute
  <2>1. CASE Drain /\ session.open /\ act' = [act EXCEPT !.pc = "await", !.here = TRUE] /\ UNCHANGED early
    <3>1. act'.pc = "await" /\ act'.lane = act.lane /\ tasks' = tasks /\ session' = session
      BY <1>0, <2>1 DEF Acts, Drain, worker
    <3>2. early \cap tasks = {}
      BY <2>1 DEF Drain, Drained, Spared
    <3>3. QED
      BY <2>1, <3>1, <3>2 DEF Spared
  <2>2. QED
    BY <1>3, <2>1, SparedOver
    DEF Execute, Drain, DrainTimeout, CommandTimeout, Confirm, Confirmed, PollTimeout, Unheard,
        EndMarked, EndUnmarked
<1>4. CASE Take
  <2>1. UNCHANGED <<early, act, session>>
    BY <1>4 DEF Take
  <2>2. \A t \in tasks' : t \in tasks \/ t.pc = "arrived"
    BY <1>4, TakeEffect
  <2>3. early \cap tasks' \subseteq tasks
    BY <2>2 DEF Spared
  <2>4. QED
    BY <2>1, <2>3, SparedFewer
<1>5. CASE SleepLane \/ WakeLane \/ LoadLane \/ StopLane
  <2>1. tasks' \subseteq tasks
    BY <1>5, CommandEffect DEF Lowers, Raises, Removes
  <2>2. Answer(TRUE) \/ Answer(FALSE)
    BY <1>5, CommandEffect
  <2>3. CASE Awaited /\ act' = [act EXCEPT !.pc = "poll"] /\ UNCHANGED early
    <3>1. act'.pc = "poll" /\ act'.lane = act.lane
      BY <1>0, <2>3 DEF Acts
    <3>2. QED
      BY <2>1, <2>3, <3>1 DEF Spared, Awaited
  <2>4. session' = session
    BY <2>2 DEF Answer
  <2>5. CASE UNCHANGED <<act, early>>
    BY <2>1, <2>4, <2>5, SparedFewer
  <2>6. QED
    BY <2>2, <2>3, <2>5, SparedOver DEF Answer, CommandFailed, EndMarked, EndUnmarked
<1>6. ASSUME NEW t \in tasks, Acquire(t) PROVE Spared'
  <2> DEFINE s == [t EXCEPT !.pc = "running"]
  <2>1. s.req = t.req /\ s.try = t.try /\ s.pc = "running" /\ t.pc = "arrived"
    BY <1>0, <1>6 DEF Tasks, Acquire
  <2>2. s \notin early
    BY <2>1 DEF Attempts, Attempt
  <2>3. early \cap tasks' \subseteq tasks
    BY <1>6, <2>2 DEF Acquire
  <2>4. QED
    BY <1>6, <2>3, SparedFewer DEF Acquire
<1>7. ASSUME NEW t \in tasks, Finish(t) PROVE Spared'
  BY <1>7, SparedFewer DEF Finish
<1>8. CASE Report
  <2>1. /\ session'.state = lane /\ session'.active = {t \in tasks : t.pc = "running"}
        /\ UNCHANGED <<tasks, early, act>>
    BY <1>8 DEF Report, worker
  <2>2. \A t \in early \cap tasks : t \in session'.active /\ session'.state[act.lane] # "gone"
    BY <2>1 DEF Spared, Served
  <2>3. QED
    BY <2>1, <2>2 DEF Spared
<1>9. CASE Detach
  <2>1. session'.open = FALSE /\ tasks' = tasks
    BY <1>9 DEF Detach, NoReport, worker
  <2>2. CASE UNCHANGED <<act, early>>
    BY <2>1, <2>2 DEF Spared
  <2>3. QED
    BY <1>9, <2>2, SparedOver DEF Detach, Unheard, EndUnmarked
<1>10. CASE WorkerNotices
  BY <1>10, SparedFewer DEF WorkerNotices
<1>11. CASE Reconnect
  <2>1. act'.pc = act.pc /\ act'.lane = act.lane /\ early' = early /\ tasks' = tasks
    BY <1>0, <1>11 DEF Reconnect, Acts, worker
  <2>2. tasks = {}
    BY <1>11 DEF Reconnect, Served
  <2>3. QED
    BY <2>1, <2>2 DEF Spared
<1>12. CASE Break
  BY <1>12, SparedFewer DEF Break, worker
<1>13. ASSUME NEW l \in Lanes, Crash(l) PROVE Spared'
  BY <1>13, SparedFewer DEF Crash
<1>14. QED
  BY <1>1, <1>2, <1>3, <1>4, <1>5, <1>6, <1>7, <1>8, <1>9, <1>10, <1>11, <1>12, <1>13
  DEF Next, Serve, Link

----------------------------------------------------------------------------
(* The commands that are under way *)

\* What is known of one command on the wire.
LEMMA OnTheWire ==
    ASSUME Types, Numbered, Pending, NEW i \in DOMAIN wire, wire[i].kind # "infer"
    PROVE  /\ wire[i] \in Commands /\ wire[i].n \in 1 .. MaxActions /\ wire[i].lane \in Lanes
           /\ wire[i].n <= actions /\ Accounted(wire[i])
BY Queued, MessageKinds DEF Numbered, Pending

LEMMA InHand ==
    ASSUME Types, Numbered, Pending, work # None
    PROVE  /\ work \in Commands /\ work.n \in 1 .. MaxActions /\ work.lane \in Lanes
           /\ work.n <= actions /\ Accounted(work)
BY DEF Types, Commands, Numbered, Pending

\* The commands under way are as many or fewer.
LEMMA NumberedFewer ==
    ASSUME Types, Numbered, Pending, Fewer(0), work' \in {work, None}, actions' >= actions, actions' \in Nat
    PROVE  Numbered'
<1>1. \A i \in DOMAIN wire' : i \in DOMAIN wire /\ wire'[i] = wire[i]
  BY DEF Fewer
<1>2. ASSUME NEW i \in DOMAIN wire', wire'[i].kind # "infer"
      PROVE  /\ wire'[i].n <= actions'
             /\ work' # None => work'.n # wire'[i].n
             /\ \A j \in DOMAIN wire' : wire'[j].kind # "infer" /\ wire'[j].n = wire'[i].n => j = i
  <2>1. wire[i].n <= actions /\ wire[i].n \in Nat /\ actions \in Nat
    BY <1>1, <1>2, OnTheWire DEF Types
  <2>2. QED
    BY <1>1, <1>2, <2>1 DEF Numbered
<1>3. work' # None => work'.n <= actions'
  BY InHand DEF Types
<1>4. QED
  BY <1>2, <1>3 DEF Numbered

\* A request is sent, or a command with a number that no other has.
LEMMA NumberedSent ==
    ASSUME Types, Numbered, Pending, NEW m, NEW n, Added(m, n), work' = work,
           actions' >= actions, actions' \in Nat,
           m.kind # "infer" =>
               /\ m.n <= actions'
               /\ work # None => work.n # m.n
               /\ \A i \in DOMAIN wire : wire[i].kind # "infer" => wire[i].n # m.n
    PROVE  Numbered'
<1>1. /\ wire'[n] = m /\ n \in DOMAIN wire'
      /\ \A i \in DOMAIN wire' : i = n \/ (i \in DOMAIN wire /\ wire'[i] = wire[i])
  BY DEF Added
<1>2. ASSUME NEW i \in DOMAIN wire', wire'[i].kind # "infer"
      PROVE  /\ wire'[i].n <= actions'
             /\ work' # None => work'.n # wire'[i].n
             /\ \A j \in DOMAIN wire' : wire'[j].kind # "infer" /\ wire'[j].n = wire'[i].n => j = i
  <2>1. CASE i = n
    BY <1>1, <1>2, <2>1
  <2>2. CASE i # n
    <3>1. i \in DOMAIN wire /\ wire'[i] = wire[i] /\ wire[i].n <= actions /\ wire[i].n \in Nat /\ actions \in Nat
      BY <1>1, <1>2, <2>2, OnTheWire DEF Types
    <3>2. QED
      BY <1>1, <1>2, <2>2, <3>1 DEF Numbered
  <2>3. QED
    BY <2>1, <2>2
<1>3. work' # None => work'.n <= actions'
  BY InHand DEF Types
<1>4. QED
  BY <1>2, <1>3 DEF Numbered

\* The worker takes a command or a request.
LEMMA NumberedTake ==
    ASSUME Types, Numbered, Pending, Take
    PROVE  Numbered'
<1>0. /\ work = None /\ 1 \in DOMAIN wire /\ actions' = actions
      /\ \A i \in DOMAIN wire' : i \in Nat \ {0} /\ i + 1 \in DOMAIN wire /\ wire'[i] = wire[i + 1]
  BY TakeEffect DEF Take
<1>1. work' = None \/ (work' = wire[1] /\ wire[1].kind # "infer")
  BY <1>0, TakeEffect
<1>2. ASSUME NEW i \in DOMAIN wire', wire'[i].kind # "infer"
      PROVE  /\ wire'[i].n <= actions'
             /\ work' # None => work'.n # wire'[i].n
             /\ \A j \in DOMAIN wire' : wire'[j].kind # "infer" /\ wire'[j].n = wire'[i].n => j = i
  <2>1. i \in Nat \ {0} /\ i + 1 \in DOMAIN wire /\ wire'[i] = wire[i + 1] /\ wire[i + 1].kind # "infer"
    BY <1>0, <1>2
  <2>2. wire[i + 1].n <= actions
    BY <2>1 DEF Numbered
  <2>3. work' # None => work'.n # wire[i + 1].n
    BY <1>0, <1>1, <2>1 DEF Numbered
  <2>4. \A j \in DOMAIN wire' : wire'[j].kind # "infer" /\ wire'[j].n = wire'[i].n => j = i
    <3>1. ASSUME NEW j \in DOMAIN wire', wire'[j].kind # "infer", wire'[j].n = wire'[i].n PROVE j = i
      <4>1. j \in Nat \ {0} /\ j + 1 \in DOMAIN wire /\ wire'[j] = wire[j + 1]
        BY <1>0, <3>1
      <4>2. j + 1 = i + 1
        BY <2>1, <3>1, <4>1 DEF Numbered
      <4>3. QED
        BY <2>1, <4>1, <4>2
    <3>2. QED
      BY <3>1
  <2>5. QED
    BY <1>0, <2>1, <2>2, <2>3, <2>4
<1>3. work' # None => work'.n <= actions'
  BY <1>0, <1>1 DEF Numbered
<1>4. QED
  BY <1>2, <1>3 DEF Numbered

LEMMA PendsKnown ==
    ASSUME Types, Numbered, Pending, NEW m, Pends(m)
    PROVE  m \in Commands /\ m.n \in 1 .. MaxActions /\ m.lane \in Lanes /\ m.n <= actions /\ Accounted(m)
BY OnTheWire, InHand DEF Pends

LEMMA PendsFewer ==
    ASSUME Fewer(0), work' \in {work, None}, NEW m, Pends(m)'
    PROVE  Pends(m)
<1>1. \A i \in DOMAIN wire' : i \in DOMAIN wire /\ wire'[i] = wire[i]
  BY DEF Fewer
<1>2. QED
  BY <1>1 DEF Pends

LEMMA PendsAdded ==
    ASSUME NEW c, NEW n, Added(c, n), work' \in {work, None}, NEW m, Pends(m)'
    PROVE  Pends(m) \/ (m = c /\ m.kind # "infer")
BY DEF Added, Pends

LEMMA PendsTake ==
    ASSUME Types, Take, NEW m, Pends(m)'
    PROVE  Pends(m)
<1>1. \A i \in DOMAIN wire' : i + 1 \in DOMAIN wire /\ wire'[i] = wire[i + 1]
  BY TakeEffect
<1>2. 1 \in DOMAIN wire /\ (work' = work \/ (work' = wire[1] /\ wire[1].kind # "infer"))
  BY TakeEffect
<1>3. QED
  BY <1>1, <1>2 DEF Pends

\* The other command is the action's own.
LEMMA AwaitedIsOwn ==
    ASSUME Types, Numbered, Pending, Awaited, NEW m, Pends(m), m.n = act.n
    PROVE  m = work
BY DEF Numbered, Awaited, Pends

LEMMA PendingAll ==
    ASSUME \A m : Pends(m)' => Accounted(m)'
    PROVE  Pending'
BY DEF Pending, Pends

\* The action goes on as it was.
LEMMA AccountedOn ==
    ASSUME NEW m, Accounted(m), act'.pc = act.pc, act'.kind = act.kind, act'.lane = act.lane, act'.n = act.n,
           disturbed \subseteq disturbed'
    PROVE  Accounted(m)'
BY DEF Accounted

\* The action is over.
LEMMA AccountedOver ==
    ASSUME NEW m, Accounted(m), m.n \in 1 .. MaxActions, m.lane \in Lanes, act' = NoAction,
           m.kind \in Raised =>
               \/ m.lane \in disturbed'
               \/ m.n # act.n /\ (m.lane \in disturbed => m.lane \in disturbed')
    PROVE  Accounted(m)'
<1>1. act'.n = 0 /\ m.n # 0
  BY NoActionTypes
<1>2. QED
  BY <1>1 DEF Accounted

\* An action that lifts its mark leaves a lane that may still be raised disturbed.
LEMMA UnmarkedKeeps ==
    ASSUME EndUnmarked, NEW m, Pends(m), m.kind \in Raised, m.lane \in disturbed
    PROVE  m.lane \in disturbed'
<1>1. CASE m.lane = act.lane
  <2>1. Rising(act.lane)
    BY <1>1 DEF Rising, Pends, Raised
  <2>2. QED
    BY <2>1 DEF EndUnmarked
<1>2. CASE m.lane # act.lane
  BY <1>2 DEF EndUnmarked
<1>3. QED
  BY <1>1, <1>2

\* The planner gives up waiting.
LEMMA PendingUnheard ==
    ASSUME Types, Numbered, Pending, act.pc = "await", Unheard, NEW m, Pends(m)
    PROVE  Accounted(m)'
<1>1. m.n \in 1 .. MaxActions /\ m.lane \in Lanes /\ Accounted(m) /\ act.kind \in Kinds
  BY PendsKnown DEF Types
<1>2. CASE Takes(act.kind)
  <2>1. EndUnmarked
    BY <1>2 DEF Unheard
  <2>2. m.kind \in Raised => m.n # act.n
    BY <1>1, <1>2 DEF Accounted, Takes, Raised
  <2>3. QED
    BY <1>1, <2>1, <2>2, UnmarkedKeeps, AccountedOver DEF EndUnmarked
<1>3. CASE ~Takes(act.kind)
  <2>1. act' = NoAction /\ disturbed' = disturbed \cup {act.lane}
    BY <1>3 DEF Unheard
  <2>2. m.n = act.n => m.lane \in disturbed'
    BY <1>1, <2>1 DEF Accounted
  <2>3. QED
    BY <1>1, <2>1, <2>2, AccountedOver
<1>4. QED
  BY <1>2, <1>3

\* The planner's action ends while nothing of its own is under way.
LEMMA PendingEnds ==
    ASSUME Types, Numbered, Pending, NEW m, Pends(m), m.n # act.n,
           EndUnmarked \/ EndMarked \/ (act' = NoAction /\ disturbed' = disturbed \cup {act.lane})
    PROVE  Accounted(m)'
<1>1. m.n \in 1 .. MaxActions /\ m.lane \in Lanes /\ Accounted(m)
  BY PendsKnown
<1>2. act' = NoAction
  BY DEF EndUnmarked, EndMarked
<1>3. m.kind \in Raised /\ m.lane \in disturbed => m.lane \in disturbed'
  BY UnmarkedKeeps DEF EndMarked
<1>4. QED
  BY <1>1, <1>2, <1>3, AccountedOver

LEMMA CommandsKept ==
    ASSUME Types, ReqsOK, Acting, Served, Loading, Numbered, Pending, Next
    PROVE  Numbered' /\ Pending'
<1>0. /\ act \in Acts /\ actions \in Nat /\ actions <= MaxActions /\ MaxActions \in Nat
      /\ act.pc # "idle" => act.n \in 1..MaxActions /\ act.n <= actions /\ act.lane \in Lanes /\ act.kind \in Kinds
      /\ act.pc = "idle" => act.n = 0
      /\ \A m : Pends(m) => m.n \in 1 .. MaxActions /\ m.n <= actions /\ Accounted(m)
  BY LaneActionsAssumption, PendsKnown DEF Types, Acting
<1>1. ASSUME UNCHANGED <<act, actions>>, disturbed \subseteq disturbed', UNCHANGED wire,
             work' \in {work, None}
      PROVE  Numbered' /\ Pending'
  <2>1. Fewer(0)
    BY <1>1, WireStays
  <2>2. QED
    BY <1>0, <1>1, <2>1, NumberedFewer, PendsFewer, AccountedOn, PendingAll
<1>2. ASSUME NEW c \in Commands \cup Infers, Sent(c), UNCHANGED work, actions' \in {actions, actions + 1},
             c.kind # "infer" => c.n <= actions' /\ \A m : Pends(m) => m.n # c.n,
             \A m : Pends(m) => Accounted(m)', c.kind # "infer" => Accounted(c)'
      PROVE  Numbered' /\ Pending'
  <2>1. CASE Fewer(0)
    <3>1. Numbered'
      BY <1>0, <1>2, <2>1, NumberedFewer
    <3>2. \A m : Pends(m)' => Accounted(m)'
      BY <1>2, <2>1, PendsFewer
    <3>3. QED
      BY <3>1, <3>2, PendingAll
  <2>2. ASSUME NEW n, Added(c, n) PROVE Numbered' /\ Pending'
    <3>1. c.kind # "infer" =>
               /\ c.n <= actions'
               /\ work # None => work.n # c.n
               /\ \A i \in DOMAIN wire : wire[i].kind # "infer" => wire[i].n # c.n
      BY <1>2 DEF Pends
    <3>2. Numbered'
      BY <1>0, <1>2, <2>2, <3>1, NumberedSent
    <3>3. \A m : Pends(m)' => Accounted(m)'
      BY <1>2, <2>2, PendsAdded
    <3>4. QED
      BY <3>2, <3>3, PendingAll
  <2>3. QED
    BY <1>2, <2>1, <2>2, WireSent
<1>3. ASSUME UNCHANGED <<wire, actions>>, work' \in {work, None},
             \A m : Pends(m) /\ Pends(m)' => Accounted(m)'
      PROVE  Numbered' /\ Pending'
  <2>1. Fewer(0)
    BY <1>3, WireStays
  <2>2. Numbered'
    BY <1>0, <1>3, <2>1, NumberedFewer
  <2>3. \A m : Pends(m)' => Accounted(m)'
    BY <1>3, <2>1, PendsFewer
  <2>4. QED
    BY <2>2, <2>3, PendingAll
<1>4. CASE Ask
  <2>1. UNCHANGED <<act, actions, disturbed, work>>
    BY <1>4 DEF Ask, Send, StreamTimeout, NoLane, Select, worker
  <2>2. CASE UNCHANGED wire
    BY <1>1, <2>1, <2>2
  <2>3. ASSUME NEW r \in Requests, Send(r), ~UNCHANGED wire PROVE Numbered' /\ Pending'
    <3> DEFINE c == [kind |-> "infer", req |-> r, try |-> req[r].try, lane |-> req[r].lane]
    <3>1. Sent(c)
      BY <2>3 DEF Send
    <3>2. c \in Infers /\ c.kind = "infer"
      BY <2>3 DEF Send, ReqsOK, Row, Infers
    <3>3. \A m : Pends(m) => Accounted(m)'
      BY <1>0, <2>1, AccountedOn
    <3>4. QED
      BY <1>0, <1>2, <2>1, <3>1, <3>2, <3>3
  <2>4. QED
    BY <1>4, <2>2, <2>3 DEF Ask, StreamTimeout, NoLane, Select
<1>5. ASSUME NEW kind \in Kinds, NEW l \in Lanes, StartAction(kind, l) PROVE Numbered' /\ Pending'
  <2>0. act.pc = "idle" /\ actions' = actions + 1 /\ actions + 1 \in 1 .. MaxActions
        /\ UNCHANGED <<work, disturbed>>
    BY <1>0, <1>5 DEF StartAction, worker
  <2>1. \A m : Pends(m) => m.n # act.n /\ m.n # actions + 1
    BY <1>0, <2>0
  <2>2. ASSUME Begin(kind, l, "drain") \/ Begin(kind, l, "await") \/ UNCHANGED act, NEW m, Pends(m)
        PROVE Accounted(m)'
    <3>1. act'.n = actions + 1 \/ act' = act
      BY <2>2 DEF Begin
    <3>2. QED
      BY <1>0, <2>0, <2>1, <2>2, <3>1 DEF Accounted
  <2>3. CASE UNCHANGED wire /\ (Begin(kind, l, "drain") \/ UNCHANGED act)
    <3>1. Fewer(0)
      BY <2>3, WireStays
    <3>2. Numbered'
      BY <1>0, <2>0, <3>1, NumberedFewer
    <3>3. \A m : Pends(m)' => Accounted(m)'
      BY <2>0, <2>2, <2>3, <3>1, PendsFewer
    <3>4. QED
      BY <3>2, <3>3, PendingAll
  <2>4. CASE Begin(kind, l, "await") /\ Sent([kind |-> kind, lane |-> l, n |-> actions + 1])
    <3>0. PICK c : c = [kind |-> kind, lane |-> l, n |-> actions + 1]
      OBVIOUS
    <3>1. /\ c \in Commands /\ c.n = actions + 1 /\ c.kind = kind /\ c.lane = l
          /\ Sent(c)
      BY <2>0, <2>4, <3>0 DEF Commands
    <3>2. act'.pc = "await" /\ act'.kind = kind /\ act'.lane = l /\ act'.n = actions + 1
      BY <2>4 DEF Begin
    <3>3. Accounted(c)'
      BY <3>1, <3>2 DEF Accounted
    <3>4. c.n <= actions' /\ \A m : Pends(m) => m.n # c.n
      BY <1>0, <2>0, <2>1, <3>1
    <3>5. \A m : Pends(m) => Accounted(m)'
      BY <2>2, <2>4
    <3>6. QED
      BY <1>2, <2>0, <2>4, <3>1, <3>3, <3>4, <3>5
  <2>5. QED
    BY <1>5, <2>3, <2>4 DEF StartAction
<1>6. CASE Drain
  <2>0. act.pc = "drain" /\ UNCHANGED <<work, actions>>
    BY <1>6 DEF Drain, worker
  <2>1. \A m : Pends(m) => m.n # act.n
    BY <1>0, <2>0 DEF Accounted
  <2>2. CASE Sent([kind |-> act.kind, lane |-> act.lane, n |-> act.n])
             /\ act' = [act EXCEPT !.pc = "await", !.here = TRUE] /\ UNCHANGED disturbed
    <3>0. PICK c : c = [kind |-> act.kind, lane |-> act.lane, n |-> act.n]
      OBVIOUS
    <3>1. /\ c \in Commands /\ c.n = act.n /\ c.kind = act.kind /\ c.lane = act.lane
          /\ Sent(c)
      BY <1>0, <2>0, <2>2, <3>0 DEF Commands
    <3>2. act'.pc = "await" /\ act'.kind = act.kind /\ act'.lane = act.lane /\ act'.n = act.n
      BY <1>0, <2>2 DEF Acts
    <3>3. Accounted(c)'
      BY <3>1, <3>2 DEF Accounted
    <3>4. \A m : Pends(m) => Accounted(m)'
      BY <1>0, <2>1, <2>2, <3>2 DEF Accounted
    <3>5. QED
      BY <1>0, <1>2, <2>0, <2>1, <2>2, <3>1, <3>3, <3>4
  <2>3. CASE EndUnmarked /\ UNCHANGED wire
    <3>1. \A m : Pends(m) => Accounted(m)'
      BY <2>1, <2>3, PendingEnds
    <3>2. QED
      BY <1>3, <2>0, <2>3, <3>1
  <2>4. QED
    BY <1>6, <2>2, <2>3 DEF Drain
<1>7. CASE DrainTimeout \/ Confirm \/ PollTimeout
  <2>1. UNCHANGED <<work, actions, wire>> /\ act.pc \in {"drain", "poll"}
    BY <1>7 DEF DrainTimeout, Confirm, PollTimeout, worker
  <2>2. \A m : Pends(m) => m.n # act.n
    BY <1>0, <2>1 DEF Accounted
  <2>3. EndUnmarked \/ EndMarked \/ (act' = NoAction /\ disturbed' = disturbed \cup {act.lane})
    BY <1>7 DEF DrainTimeout, Confirm, Confirmed, PollTimeout
  <2>4. \A m : Pends(m) => Accounted(m)'
    BY <2>2, <2>3, PendingEnds
  <2>5. QED
    BY <1>3, <2>1, <2>4
<1>8. CASE CommandTimeout
  <2>1. \A m : Pends(m) => Accounted(m)'
    BY <1>8, PendingUnheard DEF CommandTimeout
  <2>2. QED
    BY <1>3, <1>8, <2>1 DEF CommandTimeout, worker
<1>9. CASE Take
  <2>1. Numbered'
    BY <1>9, NumberedTake
  <2>2. UNCHANGED <<act, disturbed>>
    BY <1>9 DEF Take
  <2>3. \A m : Pends(m)' => Accounted(m)'
    BY <1>0, <1>9, <2>2, PendsTake, AccountedOn
  <2>4. QED
    BY <2>1, <2>3, PendingAll
<1>10. CASE SleepLane \/ WakeLane \/ LoadLane \/ StopLane
  <2>0. (Answer(TRUE) \/ Answer(FALSE)) /\ work \in Commands /\ work # None
    BY <1>10, CommandEffect, NoneAssumption
  <2>1. UNCHANGED <<wire, actions>> /\ work' = None
    BY <2>0 DEF Answer
  <2>2. ASSUME NEW m, Pends(m), Pends(m)' PROVE m.n # work.n
    BY <2>0, <2>1, <2>2 DEF Pends, Numbered
  <2>3. CASE UNCHANGED act /\ UNCHANGED disturbed
    BY <1>1, <2>1, <2>3
  <2>4. CASE Awaited /\ act' = [act EXCEPT !.pc = "poll"] /\ UNCHANGED disturbed
    <3>1. act'.pc = "poll" /\ act'.n = act.n /\ act.n = work.n
      BY <1>0, <2>4 DEF Acts, Awaited
    <3>2. \A m : Pends(m) /\ Pends(m)' => Accounted(m)'
      BY <1>0, <2>2, <2>4, <3>1 DEF Accounted
    <3>3. QED
      BY <1>3, <2>1, <3>2
  <2>5. CASE Awaited /\ (EndUnmarked \/ EndMarked)
    <3>1. \A m : Pends(m) /\ Pends(m)' => Accounted(m)'
      BY <2>2, <2>5, PendingEnds DEF Awaited
    <3>2. QED
      BY <1>3, <2>1, <3>1
  <2>6. QED
    BY <2>0, <2>3, <2>4, <2>5 DEF Answer, CommandFailed
<1>11. CASE Detach
  <2>0. UNCHANGED <<work, wire, actions>>
    BY <1>11 DEF Detach, worker
  <2>1. CASE UNCHANGED <<act, disturbed>>
    BY <1>1, <2>0, <2>1
  <2>2. CASE act.pc = "await" /\ Unheard
    <3>1. \A m : Pends(m) => Accounted(m)'
      BY <2>2, PendingUnheard
    <3>2. QED
      BY <1>3, <2>0, <3>1
  <2>3. QED
    BY <1>11, <2>1, <2>2 DEF Detach
<1>12. CASE WorkerNotices
  <2>1. DOMAIN wire' = {} /\ work' = None /\ actions' = actions
    BY <1>12 DEF WorkerNotices
  <2>2. QED
    BY <2>1 DEF Numbered, Pending
<1>13. CASE Reconnect
  <2>1. /\ act'.pc = act.pc /\ act'.kind = act.kind /\ act'.lane = act.lane /\ act'.n = act.n
        /\ UNCHANGED <<work, wire, actions, disturbed>>
    BY <1>0, <1>13 DEF Reconnect, Acts, worker
  <2>2. \A m : Pends(m) => Accounted(m)'
    BY <1>0, <2>1, AccountedOn
  <2>3. QED
    BY <1>3, <2>1, <2>2
<1>14. QED
  BY <1>1, <1>4, <1>5, <1>6, <1>7, <1>8, <1>9, <1>10, <1>11, <1>12, <1>13
  DEF Next, Execute, Serve, Acquire, Finish, Report, Link, Break, Fault, Crash, worker

----------------------------------------------------------------------------
(* The marks *)

\* No lane is raised but one that is disturbed, and the action goes on.
LEMMA MarksStay ==
    ASSUME Types, MarksOK, mark' = mark, disturbed \subseteq disturbed',
           act'.pc = act.pc, act'.kind = act.kind, act'.lane = act.lane, act'.n = act.n,
           \A l \in Lanes : lane'[l] = "awake" => lane[l] = "awake" \/ l \in disturbed',
           act.pc # "idle" /\ session'.state[act.lane] = "asleep" =>
               session.state[act.lane] = "asleep" \/ lane'[act.lane] # "awake",
           \A m : Pends(m)' => Pends(m)
    PROVE  MarksOK'
<1>0. mark \subseteq Lanes /\ (act.pc # "idle" => act.lane \in Lanes)
  BY DEF Types
<1>1. Open' => Open
  BY DEF Open
<1>2. \A l \in mark' : act'.lane # l /\ l \notin disturbed' => lane'[l] # "awake"
  BY <1>0 DEF MarksOK
<1>3. act'.pc # "idle" /\ act'.kind = "sleep" /\ act'.lane \notin disturbed'
         /\ session'.state[act'.lane] = "asleep" => lane'[act'.lane] # "awake"
  BY <1>0 DEF MarksOK
<1>4. act'.pc = "await" /\ act'.kind \in Raised /\ act'.lane \in mark' /\ act'.lane \notin disturbed' /\ Open'
         => lane'[act'.lane] # "awake"
  BY <1>0, <1>1 DEF MarksOK
<1>5. QED
  BY <1>2, <1>3, <1>4 DEF MarksOK, Raised

\* The action is over.
LEMMA MarksOver ==
    ASSUME act' = NoAction, \A l \in mark' : l \notin disturbed' => lane'[l] # "awake"
    PROVE  MarksOK'
BY NoActionTypes DEF MarksOK

\* The action is over and its lane is no longer marked, or is disturbed.
LEMMA MarksLifted ==
    ASSUME Types, MarksOK,
           EndUnmarked \/ Unheard
              \/ (act' = NoAction /\ mark' = mark /\ disturbed' = disturbed \cup {act.lane}),
           \A l \in Lanes : lane'[l] = "awake" => lane[l] = "awake"
    PROVE  MarksOK'
<1>1. act' = NoAction
  BY DEF EndUnmarked, Unheard
<1>2. mark \subseteq Lanes
  BY DEF Types
<1>3. \A l \in mark' : l \in mark /\ (l \notin disturbed' => l # act.lane /\ l \notin disturbed)
  BY DEF EndUnmarked, Unheard
<1>4. \A l \in mark' : l \notin disturbed' => lane'[l] # "awake"
  BY <1>2, <1>3 DEF MarksOK
<1>5. QED
  BY <1>1, <1>4, MarksOver

\* A lane command ends.
LEMMA MarksCommand ==
    ASSUME Types, Served, Loading, Numbered, Pending, MarksOK,
           SleepLane \/ WakeLane \/ LoadLane \/ StopLane
    PROVE  MarksOK'
<1>0. /\ work \in Commands /\ work # None /\ work.lane \in Lanes /\ mark \subseteq Lanes
      /\ Accounted(work) /\ act \in Acts
      /\ act.pc # "idle" => act.lane \in Lanes /\ act.kind \in Kinds
  BY CommandEffect, NoneAssumption, InHand DEF Types
<1>1. /\ Answer(TRUE) \/ Answer(FALSE)
      /\ wire' = wire /\ session' = session /\ work' = None
  BY CommandEffect DEF Answer
<1>2. /\ \A l \in Lanes : l # work.lane => lane'[l] = lane[l]
      /\ lane'[work.lane] = "awake" /\ lane[work.lane] # "awake"
            => work.kind \in Raised /\ Answer(TRUE)
  BY CommandEffect DEF Lowers, Raises, Removes, Raised
<1>3. \A m : Pends(m)' => Pends(m) /\ m.n # work.n
  BY <1>0, <1>1 DEF Pends, Numbered
<1>4. CASE UNCHANGED <<act, mark, disturbed>> /\ work.n # act.n
  <2>1. \A l \in Lanes : lane'[l] = "awake" => lane[l] = "awake" \/ l \in disturbed'
    BY <1>0, <1>2, <1>4 DEF Accounted
  <2>2. QED
    BY <1>1, <1>3, <1>4, <2>1, MarksStay
<1>5. CASE UNCHANGED <<mark, disturbed>> /\ act'.pc \in {act.pc, "poll"} /\ act'.kind = act.kind
           /\ act'.lane = act.lane /\ act'.n = act.n /\ work.n = act.n
  <2>1. act.pc = "await" /\ act.kind = work.kind /\ act.lane = work.lane
    BY <1>0, <1>5 DEF Accounted
  <2>2. ~Open'
    BY <1>3, <1>5 DEF Open
  <2>3. \A l \in mark' : act'.lane # l /\ l \notin disturbed' => lane'[l] # "awake"
    BY <1>0, <1>2, <1>5, <2>1 DEF MarksOK
  <2>4. act'.kind = "sleep" /\ act'.lane \notin disturbed'
           /\ session'.state[act'.lane] = "asleep" => lane'[act'.lane] # "awake"
    BY <1>0, <1>1, <1>2, <1>5, <2>1 DEF MarksOK, Raised
  <2>5. QED
    BY <2>2, <2>3, <2>4 DEF MarksOK
<1>6. CASE Awaited /\ CommandFailed
  <2>1. act.pc = "await" /\ work.n = act.n /\ act.kind = work.kind /\ act.lane = work.lane
    BY <1>0, <1>6 DEF Accounted, Awaited
  <2>2. act'.pc = "idle"
    BY <1>6, NoActionTypes DEF CommandFailed, EndMarked, EndUnmarked
  <2>3. ~Answer(TRUE) \/ UNCHANGED act
    <3>1. [act EXCEPT !.pc = "poll"].pc = "poll"
      BY <1>0 DEF Acts
    <3>2. QED
      BY <2>2, <3>1 DEF Answer
  <2>4. \A l \in Lanes : lane'[l] = "awake" => lane[l] = "awake"
    BY <1>2, <2>1, <2>2, <2>3
  <2>5. CASE EndUnmarked
    BY <2>4, <2>5, MarksLifted
  <2>6. CASE EndMarked /\ ~Takes(act.kind)
    <3>1. act.kind \in Raised
      BY <1>0, <2>1, <2>6 DEF Takes, Kinds, Raised
    <3>2. Open
      BY <1>0, <2>1 DEF Open, Pends
    <3>3. act.lane \in mark /\ act.lane \notin disturbed => lane[act.lane] # "awake"
      BY <2>1, <3>1, <3>2 DEF MarksOK
    <3>4. \A l \in mark : l \notin disturbed => lane[l] # "awake"
      BY <3>3 DEF MarksOK
    <3>5. act' = NoAction /\ UNCHANGED <<mark, disturbed>>
      BY <2>6 DEF EndMarked
    <3>6. \A l \in mark' : l \notin disturbed' => lane'[l] # "awake"
      BY <1>0, <2>4, <3>4, <3>5
    <3>7. QED
      BY <3>5, <3>6, MarksOver
  <2>7. QED
    BY <1>6, <2>5, <2>6 DEF CommandFailed
<1>7. QED
  <2>1. CASE UNCHANGED <<act, mark, disturbed>>
    BY <1>4, <1>5, <2>1
  <2>2. CASE Awaited /\ act' = [act EXCEPT !.pc = "poll"] /\ UNCHANGED <<mark, disturbed>>
    <3>1. act'.pc = "poll" /\ act'.kind = act.kind /\ act'.lane = act.lane /\ act'.n = act.n
      BY <1>0, <2>2 DEF Acts
    <3>2. QED
      BY <1>5, <2>2, <3>1 DEF Awaited
  <2>3. QED
    BY <1>1, <1>6, <2>1, <2>2 DEF Answer

\* An action begins.
LEMMA MarksStart ==
    ASSUME Types, Acting, Numbered, Pending, MarksOK,
           NEW kind \in Kinds, NEW l \in Lanes, StartAction(kind, l)
    PROVE  MarksOK'
<1>0. /\ act.pc = "idle" /\ act.lane = None /\ mark \subseteq Lanes /\ None \notin Lanes
      /\ UNCHANGED <<lane, session, disturbed>>
      /\ session.state[l] = "asleep" => kind # "sleep"
  BY NoneAssumption DEF StartAction, Acting, Types, worker, Worth
<1>1. \A k \in mark : k \notin disturbed => lane[k] # "awake"
  BY <1>0 DEF MarksOK
<1>2. CASE UNCHANGED act
  <2>1. mark' = mark \/ mark' = mark \cup {l}
    BY DEF StartAction
  <2>2. ~Takes(kind)
    BY <1>0, <1>2 DEF StartAction, Begin
  <2>3. mark' = mark
    BY <2>2 DEF StartAction
  <2>4. QED
    BY <1>0, <1>1, <1>2, <2>3 DEF MarksOK
<1>3. CASE Takes(kind) /\ Begin(kind, l, "drain")
  <2>1. act'.pc = "drain" /\ act'.kind = kind /\ act'.lane = l /\ mark' = mark \cup {l}
    BY <1>3 DEF Begin, StartAction
  <2>2. QED
    BY <1>0, <1>1, <2>1 DEF MarksOK
<1>4. CASE ~Takes(kind) /\ Begin(kind, l, "await")
  <2>1. act'.pc = "await" /\ act'.kind = kind /\ act'.lane = l /\ mark' = mark
    BY <1>4 DEF Begin, StartAction
  <2>2. kind # "sleep"
    BY <1>4 DEF Takes
  <2>3. QED
    BY <1>0, <1>1, <2>1, <2>2 DEF MarksOK
<1>5. QED
  BY <1>2, <1>3, <1>4 DEF StartAction

LEMMA MarksKept ==
    ASSUME Types, ReqsOK, Acting, Served, Loading, Numbered, Pending, MarksOK, Next
    PROVE  MarksOK'
<1>0. /\ act \in Acts /\ mark \subseteq Lanes /\ lane \in [Lanes -> LaneStates] /\ wire \in Seq(Commands \cup Infers)
      /\ act.pc # "idle" => act.lane \in Lanes /\ act.kind \in Kinds
  BY DEF Types
<1>1. ASSUME UNCHANGED <<act, mark, lane, disturbed, session>>, \A m : Pends(m)' => Pends(m)
      PROVE  MarksOK'
  BY <1>1, MarksStay
<1>2. ASSUME UNCHANGED <<wire, work>> PROVE \A m : Pends(m)' => Pends(m)
  BY <1>2 DEF Pends
<1>3. CASE Ask
  <2>1. UNCHANGED <<act, mark, lane, work, disturbed, session>>
    BY <1>3 DEF Ask, Send, StreamTimeout, NoLane, Select, worker
  <2>2. CASE UNCHANGED wire
    BY <1>1, <1>2, <2>1, <2>2
  <2>3. ASSUME NEW r \in Requests, Send(r), ~UNCHANGED wire PROVE MarksOK'
    <3>1. PICK c : c = [kind |-> "infer", req |-> r, try |-> req[r].try, lane |-> req[r].lane]
      OBVIOUS
    <3>2. Sent(c) /\ c \in Infers /\ c.kind = "infer"
      BY <2>3, <3>1 DEF Send, ReqsOK, Row, Infers
    <3>3. \A m : Pends(m)' => Pends(m)
      BY <2>1, <3>2, WireSent, PendsFewer, PendsAdded
    <3>4. QED
      BY <1>1, <2>1, <3>3
  <2>4. QED
    BY <1>3, <2>2, <2>3 DEF Ask, StreamTimeout, NoLane, Select
<1>4. ASSUME NEW kind \in Kinds, NEW l \in Lanes, StartAction(kind, l) PROVE MarksOK'
  BY <1>4, MarksStart
<1>5. CASE Drain
  <2>1. CASE EndUnmarked
    BY <1>5, <2>1, MarksLifted DEF Drain, worker
  <2>2. CASE act' = [act EXCEPT !.pc = "await", !.here = TRUE] /\ UNCHANGED <<mark, disturbed>>
    <3>1. act'.pc = "await" /\ act'.kind = act.kind /\ act'.lane = act.lane /\ act.pc = "drain"
          /\ UNCHANGED <<lane, session>>
      BY <1>0, <1>5, <2>2 DEF Acts, Drain, worker
    <3>2. act.kind \notin Raised
      BY <3>1 DEF Acting, Takes, Raised
    <3>3. QED
      BY <2>2, <3>1, <3>2 DEF MarksOK
  <2>3. QED
    BY <1>5, <2>1, <2>2 DEF Drain
<1>6. CASE DrainTimeout \/ CommandTimeout \/ PollTimeout
  BY <1>6, MarksLifted DEF DrainTimeout, CommandTimeout, PollTimeout, worker
<1>7. CASE Confirm
  <2>1. UNCHANGED lane /\ act.pc = "poll"
    BY <1>7 DEF Confirm, worker
  <2>2. CASE act.kind # "sleep"
    BY <1>7, <2>1, <2>2, MarksLifted DEF Confirm, Confirmed
  <2>3. CASE act.kind = "sleep"
    <3>1. session.state[act.lane] = "asleep" /\ act' = NoAction /\ UNCHANGED <<mark, disturbed>>
      BY <1>7, <2>3 DEF Confirm, Confirmed, Expected, EndMarked
    <3>2. \A l \in mark' : l \notin disturbed' => lane'[l] # "awake"
      BY <2>1, <2>3, <3>1 DEF MarksOK
    <3>3. QED
      BY <3>1, <3>2, MarksOver
  <2>4. QED
    BY <2>2, <2>3
<1>8. CASE Take
  <2>1. UNCHANGED <<act, mark, disturbed, session>>
    BY <1>8 DEF Take
  <2>2. \A l \in Lanes : lane'[l] = "awake" => lane[l] = "awake"
    BY <1>0, <1>8, TakeEffect
  <2>3. \A m : Pends(m)' => Pends(m)
    BY <1>8, PendsTake
  <2>4. QED
    BY <2>1, <2>2, <2>3, MarksStay
<1>9. CASE SleepLane \/ WakeLane \/ LoadLane \/ StopLane
  BY <1>9, MarksCommand
<1>10. CASE (\E t \in tasks : Acquire(t) \/ Finish(t)) \/ Break
  BY <1>1, <1>2, <1>10 DEF Acquire, Finish, Break, worker
<1>11. CASE Report
  <2>1. UNCHANGED <<act, mark, disturbed, lane, wire, work>> /\ session'.state = lane
    BY <1>11 DEF Report, worker
  <2>2. QED
    BY <1>0, <1>2, <2>1, MarksStay
<1>12. CASE Detach
  <2>1. UNCHANGED <<lane, wire, work>> /\ \A l \in Lanes : session'.state[l] = "gone"
    BY <1>12 DEF Detach, NoReport, worker
  <2>2. CASE Unheard
    BY <2>1, <2>2, MarksLifted
  <2>3. CASE UNCHANGED <<act, mark, disturbed>>
    BY <1>0, <1>2, <2>1, <2>3, MarksStay
  <2>4. QED
    BY <1>12, <2>2, <2>3 DEF Detach
<1>13. CASE WorkerNotices
  <2>1. DOMAIN wire' = {} /\ work' = None
    BY <1>13 DEF WorkerNotices
  <2>2. \A m : Pends(m)' => Pends(m)
    BY <2>1 DEF Pends
  <2>3. QED
    BY <1>1, <1>13, <2>2 DEF WorkerNotices
<1>14. CASE Reconnect
  <2>1. UNCHANGED <<lane, wire, work, mark, disturbed>> /\ \A l \in Lanes : session'.state[l] = "gone"
    BY <1>14 DEF Reconnect, NoReport, worker
  <2>2. act'.pc = act.pc /\ act'.kind = act.kind /\ act'.lane = act.lane /\ act'.n = act.n
    BY <1>0, <1>14 DEF Reconnect, Acts
  <2>3. QED
    BY <1>0, <1>2, <2>1, <2>2, MarksStay
<1>15. ASSUME NEW l \in Lanes, Crash(l) PROVE MarksOK'
  <2>1. /\ UNCHANGED <<act, mark, session, wire, work>> /\ disturbed' = disturbed \cup {l}
        /\ \A k \in Lanes : k # l => lane'[k] = lane[k]
    BY <1>0, <1>15 DEF Crash
  <2>2. QED
    BY <1>2, <2>1, MarksStay
<1>16. QED
  BY <1>3, <1>4, <1>5, <1>6, <1>7, <1>8, <1>9, <1>10, <1>11, <1>12, <1>13, <1>14, <1>15
  DEF Next, Execute, Serve, Link

----------------------------------------------------------------------------
(* The theorems *)

Inv ==
    /\ Types /\ ReqsOK /\ Acting /\ Served /\ Attempts
    /\ Spared /\ Numbered /\ Pending /\ Loading /\ MarksOK

LEMMA InitInv == Init => Inv
<1> SUFFICES ASSUME Init PROVE Inv
  OBVIOUS
<1>1. /\ lane = [l \in Lanes |-> "awake"] /\ tasks = {} /\ work = None /\ wire = <<>> /\ conn = "up"
      /\ session = NoReport(TRUE) /\ mark = {} /\ act = NoAction /\ early = {} /\ disturbed = {}
      /\ actions = 0 /\ faults = 0 /\ DOMAIN wire = {}
  BY DEF Init
<1>2. session \in Reports /\ session.active = {} /\ wire \in Seq(Commands \cup Infers)
  BY <1>1 DEF NoReport, Reports, LaneStates
<1>3. Types
  <2>1. lane \in [Lanes -> LaneStates]
    BY <1>1 DEF LaneStates
  <2>2. tasks \subseteq Tasks /\ early \subseteq Tasks /\ mark \subseteq Lanes /\ disturbed \subseteq Lanes
    BY <1>1
  <2>3. actions \in 0..MaxActions /\ faults \in 0..MaxFaults
    BY <1>1, LaneActionsAssumption
  <2>4. act \in Acts /\ act.pc = "idle"
    BY <1>1, NoActionTypes
  <2>5. QED
    BY <1>1, <1>2, <2>1, <2>2, <2>3, <2>4 DEF Types
<1>4. ReqsOK
  BY LaneActionsAssumption DEF Init, ReqsOK, Row, Asked
<1>5. Acting /\ MarksOK
  BY <1>1, NoActionTypes DEF Acting, MarksOK
<1>6. Served /\ Attempts /\ Spared /\ Numbered /\ Pending /\ Loading
  BY <1>1, <1>2, NoActionTypes DEF Served, Attempts, Spared, Numbered, Pending, Loading
<1>7. QED
  BY <1>3, <1>4, <1>5, <1>6 DEF Inv

LEMMA StutterInv == Inv /\ UNCHANGED vars => Inv'
<1> SUFFICES ASSUME Inv, UNCHANGED vars PROVE Inv'
  OBVIOUS
<1>1. Types' /\ ReqsOK' /\ Acting' /\ Served' /\ Loading'
  BY DEF Inv, vars, worker, Types, ReqsOK, Acting, Served, Loading
<1>2. Attempts' /\ Spared'
  BY DEF Inv, vars, worker, Attempts, Spared, WasSent
<1>3. Numbered' /\ Pending'
  BY DEF Inv, vars, worker, Numbered, Pending, Accounted
<1>4. MarksOK'
  BY DEF Inv, vars, worker, MarksOK, Open, Pends
<1>5. QED
  BY <1>1, <1>2, <1>3, <1>4 DEF Inv

LEMMA NextInv == Inv /\ [Next]_vars => Inv'
<1> SUFFICES ASSUME Inv, Next PROVE Inv'
  BY StutterInv
<1>1. Types' /\ ReqsOK'
  BY StepTypes, RequestsMove DEF Inv, ReqsMove, ReqsOK
<1>2. Acting' /\ Served' /\ Loading'
  BY ActingKept, ServedKept DEF Inv
<1>3. Attempts' /\ Spared'
  BY AttemptsKept, SparedKept DEF Inv
<1>4. Numbered' /\ Pending' /\ MarksOK'
  BY CommandsKept, MarksKept DEF Inv
<1>5. QED
  BY <1>1, <1>2, <1>3, <1>4 DEF Inv

LEMMA SpecInv == Spec => []Inv
<1>1. QED
  BY InitInv, NextInv, PTL DEF Spec

\* The variables keep their types.
THEOREM ActionsTyped == Spec => []TypeOK
<1>1. Inv => TypeOK
  <2> SUFFICES ASSUME Inv PROVE TypeOK
    OBVIOUS
  <2>1. /\ session.open \in BOOLEAN /\ session.told \in BOOLEAN
        /\ session.state \in [Lanes -> LaneStates] /\ session.active \subseteq Tasks
    <3>1. session \in Reports
      BY DEF Inv, Types
    <3>2. session.open \in BOOLEAN /\ session.told \in BOOLEAN
      BY <3>1, Zenon DEF Reports
    <3>3. session.state \in [Lanes -> LaneStates] /\ session.active \subseteq Tasks
      BY <3>1 DEF Reports
    <3>4. QED
      BY <3>2, <3>3
  <2>2. act.pc \in {"idle", "drain", "await", "poll"}
    BY DEF Inv, Types, Acts
  <2>3. \A r \in Requests : req[r].pc \in {"new", "selected", "waiting", "done", "refused"}
    BY DEF Inv, ReqsOK, Asked
  <2>4. QED
    BY <2>1, <2>2, <2>3 DEF Inv, Types, TypeOK
<1>2. QED
  BY <1>1, SpecInv, PTL

\* _execute_action_with_confirmation lifts the mark of every lane that is not
\* put to sleep: a lane that is awake is not left marked by an action that is
\* over, unless its process died or a wake or a load of it was not heard of.
THEOREM MarksLift == Spec => []MarkIsLifted
<1>1. Inv => MarkIsLifted
  BY DEF Inv, MarksOK, MarkIsLifted
<1>2. QED
  BY <1>1, SpecInv, PTL

\* _drain_lane waits long enough: the removal that the planner awaits cuts
\* none of the requests the worker had reported when the lane was marked.
THEOREM StopsSpare == Spec => StopSparesReported
<1>1. Inv /\ [Next]_vars => [StopLane /\ Awaited => early \cap tasks \subseteq tasks']_vars
  BY DEF Inv, Spared, Awaited
<1>2. QED
  BY <1>1, SpecInv, PTL DEF Spec, StopSparesReported
=============================================================================

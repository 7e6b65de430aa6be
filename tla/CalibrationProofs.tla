-------------------------- MODULE CalibrationProofs --------------------------
(* Safety of calibration for any number of workers and commands. *)
EXTENDS Calibration, SequenceTheorems, TLAPS

----------------------------------------------------------------------------
(* Type correctness *)

\* Writing to a call's fields keeps the type of the calls.
LEMMA CallStateType ==
    ASSUME TypeOK, NEW c \in Calls, call[c] # None,
           NEW s \in {"waiting", "ok", "refused", "offline", "over"}
    PROVE  [call EXCEPT ![c].state = s] \in [Calls -> CallRecord \cup {None}]
<1>1. call[c] \in CallRecord
  BY DEF TypeOK
<1>2. [call[c] EXCEPT !.state = s] \in CallRecord
  BY <1>1 DEF CallRecord
<1>3. QED
  BY <1>2 DEF TypeOK

\* The calls of a session that ends.
LEMMA OrphanedType ==
    ASSUME TypeOK, NEW w \in Workers, NEW answer \in BOOLEAN
    PROVE  Orphaned(w, answer) \in [Calls -> CallRecord \cup {None}]
<1>1. SUFFICES ASSUME NEW c \in Calls
               PROVE  Orphaned(w, answer)[c] \in CallRecord \cup {None}
  BY DEF Orphaned
<1>2. CASE call[c] # None /\ call[c].open /\ call[c].to = w
  <2>1. call[c] \in CallRecord
    BY <1>2 DEF TypeOK
  <2>2. Orphaned(w, answer)[c] = [call[c] EXCEPT !.open = FALSE,
                  !.state = IF answer /\ @ = "waiting" THEN "offline" ELSE @]
    BY <1>2 DEF Orphaned
  <2>3. QED
    BY <2>1, <2>2 DEF CallRecord
<1>3. CASE ~(call[c] # None /\ call[c].open /\ call[c].to = w)
  BY <1>3 DEF Orphaned, TypeOK
<1>4. QED
  BY <1>2, <1>3

\* The messages of the protocol.
LEMMA Messages ==
    /\ \A b \in BOOLEAN : Hello(b) \in Message
    /\ Status \in Message
    /\ \A c \in Calls, ok \in BOOLEAN : Result(c, ok) \in Message
    /\ \A e \in {"started", "ended"} : Event(e) \in Message
BY DEF Hello, Status, Result, Event, Message

\* send_command.
LEMMA SendType ==
    ASSUME TypeOK, NEW c \in Calls, NEW w \in Workers,
           NEW action \in {"start", "stop", "grow"}, NEW by \in {"tick", "admin", "planner"},
           Send(c, w, action, by)
    PROVE  /\ call' \in [Calls -> CallRecord \cup {None}]
           /\ mark' \in [Workers -> BOOLEAN]
           /\ down' \in [Workers -> Seq(Calls)]
           /\ guess' \subseteq Workers /\ sure' \subseteq Calls
           /\ UNCHANGED <<sess, link, up>>
<1>1. call' \in [Calls -> CallRecord \cup {None}]
  BY DEF Send, TypeOK, CallRecord
<1>2. mark' \in [Workers -> BOOLEAN]
  BY DEF Send, Marked, TypeOK
<1>3. down' \in [Workers -> Seq(Calls)]
  BY DEF Send, TypeOK
<1>4. guess' \subseteq Workers /\ sure' \subseteq Calls
  BY DEF Send, TypeOK
<1>5. QED
  BY <1>1, <1>2, <1>3, <1>4 DEF Send

\* The end of a call, answered or not.
LEMMA ReturnType ==
    ASSUME TypeOK, NEW c \in Calls, call[c] # None,
           NEW outcome, Return(c, outcome)
    PROVE  TypeOK'
<1>1. call' \in [Calls -> CallRecord \cup {None}]
  BY CallStateType DEF Return
<1>2. call[c] \in CallRecord
  BY DEF TypeOK
<1>3. mark' \in [Workers -> BOOLEAN]
  BY <1>2 DEF Return, Unmarked, TypeOK, CallRecord
<1>4. slot' \in Workers \cup {None} /\ completed' \subseteq Workers
  BY <1>2 DEF Return, TypeOK, CallRecord
<1>5. guess' \subseteq Workers /\ sure' \subseteq Calls
  BY <1>2 DEF Return, Guessed, TypeOK, CallRecord
<1>6. QED
  BY <1>1, <1>3, <1>4, <1>5 DEF Return, TypeOK, wireVars, nodeVars

\* A tick of the orchestrator.
LEMMA TickType ==
    ASSUME TypeOK, Ticking
    PROVE  TypeOK'
<1>1. CompletedNow \subseteq Workers /\ Eligible \subseteq Workers
  BY DEF CompletedNow, Eligible, TypeOK
<1>2. ASSUME NEW c \in Calls, TickStops(c) PROVE TypeOK'
  <2>1. slot \in Workers /\ Send(c, slot, "stop", "tick")
    BY <1>2 DEF TickStops, TypeOK
  <2>2. QED
    BY <1>1, <1>2, <2>1, SendType DEF TickStops, TypeOK, nodeVars
<1>3. ASSUME NEW c \in Calls, NEW w \in Workers, TickStarts(c, w) PROVE TypeOK'
  <2>1. Send(c, w, "start", "tick")
    BY <1>3 DEF TickStarts
  <2>2. QED
    BY <1>1, <1>3, <2>1, SendType DEF TickStarts, TypeOK, nodeVars
<1>4. CASE TickStartsNobody
  BY <1>1, <1>4 DEF TickStartsNobody, TypeOK, regVars, wireVars, nodeVars, histVars
<1>5. CASE TickStopFails
  BY <1>1, <1>5 DEF TickStopFails, TypeOK, regVars, wireVars, nodeVars, histVars
<1>6. CASE TickRests
  BY <1>1, <1>6 DEF TickRests, TypeOK, regVars, wireVars, nodeVars, histVars
<1>7. QED
  BY <1>2, <1>3, <1>4, <1>5, <1>6 DEF Ticking

\* One message from a worker.
LEMMA ReceiveType ==
    ASSUME TypeOK, NEW w \in Workers, Receive(w)
    PROVE  TypeOK'
<1> DEFINE m == Head(up[w])
<1>1. up[w] \in Seq(Message) /\ up[w] # <<>>
  BY DEF Receive, TypeOK
<1>2. m \in Message /\ Tail(up[w]) \in Seq(Message)
  BY <1>1, HeadTailProperties
<1>3. up' \in [Workers -> Seq(Message)]
  BY <1>2 DEF Receive, TypeOK
<1>4. /\ call' \in [Calls -> CallRecord \cup {None}]
      /\ sess' \in [Workers -> {"none", "attached", "ready"}]
      /\ mark' \in [Workers -> BOOLEAN]
      /\ slot' \in Workers \cup {None}
      /\ completed' \subseteq Workers
      /\ guess' \subseteq Workers /\ sure' \subseteq Calls
  <2>1. CASE /\ m.type = "hello"
             /\ mark' = [mark EXCEPT ![w] = m.calibrating]
             /\ Heard(w)
             /\ UNCHANGED <<sess, call, slot, completed>>
    <3>1. m.calibrating \in BOOLEAN
      BY <1>2, <2>1 DEF Message
    <3>2. QED
      BY <2>1, <3>1 DEF Heard, TypeOK
  <2>2. CASE /\ m.type = "status"
             /\ sess' = [sess EXCEPT ![w] = "ready"]
             /\ UNCHANGED <<mark, call, slot, completed, guess, sure>>
    BY <2>2 DEF TypeOK
  <2>3. CASE m.type = "result" /\ OnResult(m) /\ UNCHANGED <<guess, sure>>
    <3>1. m.call \in Calls
      BY <1>2, <2>3 DEF Message
    <3>2. call' \in [Calls -> CallRecord \cup {None}]
      <4>1. CASE call[m.call] # None /\ call[m.call].state = "waiting"
        BY <2>3, <3>1, <4>1, CallStateType DEF OnResult
      <4>2. CASE ~(call[m.call] # None /\ call[m.call].state = "waiting")
        BY <2>3, <4>2 DEF OnResult, TypeOK
      <4>3. QED
        BY <4>1, <4>2
    <3>3. QED
      BY <2>3, <3>2 DEF OnResult, TypeOK
  <2>4. CASE m.type = "event" /\ OnEvent(w, m.event) /\ Heard(w)
    BY <2>4 DEF OnEvent, Heard, TypeOK
  <2>5. QED
    BY <2>1, <2>2, <2>3, <2>4 DEF Receive
<1>5. QED
  BY <1>3, <1>4 DEF Receive, TypeOK, nodeVars

\* Answers of a worker.
LEMMA ReplyType ==
    ASSUME TypeOK, NEW w \in Workers, NEW c \in Calls, NEW ok \in BOOLEAN, Reply(w, c, ok)
    PROVE  up' \in [Workers -> Seq(Message)]
BY Messages DEF Reply, TypeOK

\* Events of a worker.
LEMMA RecordType ==
    ASSUME TypeOK, NEW w \in Workers, NEW e \in {"started", "ended"}, Record(w, e)
    PROVE  unsent' \in [Workers -> Seq({"started", "ended"})]
BY DEF Record, TypeOK

\* The next command of a worker.
LEMMA NextCommandType ==
    ASSUME TypeOK, NEW w \in Workers, NEW action, NextCommand(w, action)
    PROVE  Head(down[w]) \in Calls /\ down' \in [Workers -> Seq(Calls)]
<1>1. down[w] \in Seq(Calls) /\ down[w] # <<>>
  BY DEF NextCommand, TypeOK
<1>2. Head(down[w]) \in Calls /\ Tail(down[w]) \in Seq(Calls)
  BY <1>1, HeadTailProperties
<1>3. QED
  BY <1>2 DEF NextCommand, TypeOK

\* The steps of a worker and its socket while nothing breaks.
LEMMA WorkingType ==
    ASSUME TypeOK, NEW w \in Workers, Working(w)
    PROVE  TypeOK'
<1>1. CASE Receive(w)
  BY <1>1, ReceiveType
<1>2. CASE EventForwarded(w)
  <2>1. unsent[w] \in Seq({"started", "ended"}) /\ unsent[w] # <<>>
    BY <1>2 DEF EventForwarded, TypeOK
  <2>2. /\ Head(unsent[w]) \in {"started", "ended"}
        /\ Tail(unsent[w]) \in Seq({"started", "ended"})
    BY <2>1, HeadTailProperties
  <2>3. Event(Head(unsent[w])) \in Message
    BY <2>2, Messages
  <2>4. up' \in [Workers -> Seq(Message)]
    BY <1>2, <2>3 DEF EventForwarded, TypeOK
  <2>5. unsent' \in [Workers -> Seq({"started", "ended"})]
    BY <1>2, <2>2 DEF EventForwarded, TypeOK
  <2>6. QED
    BY <1>2, <2>4, <2>5 DEF EventForwarded, TypeOK, orchVars, regVars, histVars
<1>3. CASE StartAccepted(w)
  <2>1. up' \in [Workers -> Seq(Message)]
    BY <1>3, NextCommandType, ReplyType DEF StartAccepted
  <2>2. down' \in [Workers -> Seq(Calls)]
    BY <1>3, NextCommandType DEF StartAccepted
  <2>3. unsent' \in [Workers -> Seq({"started", "ended"})]
    BY <1>3, RecordType DEF StartAccepted
  <2>4. QED
    BY <1>3, <2>1, <2>2, <2>3 DEF StartAccepted, TypeOK, orchVars, regVars, histVars
<1>4. CASE StartRefused(w) \/ GrowRefused(w)
  <2>1. up' \in [Workers -> Seq(Message)] /\ down' \in [Workers -> Seq(Calls)]
    BY <1>4, NextCommandType, ReplyType DEF StartRefused, GrowRefused
  <2>2. QED
    BY <1>4, <2>1 DEF StartRefused, GrowRefused, TypeOK, orchVars, regVars, nodeVars, histVars
<1>5. CASE GrowBegins(w) \/ StopBegins(w)
  <2>1. Head(down[w]) \in Calls /\ down' \in [Workers -> Seq(Calls)]
    BY <1>5, NextCommandType DEF GrowBegins, StopBegins
  <2>2. QED
    BY <1>5, <2>1 DEF GrowBegins, StopBegins, TypeOK, orchVars, regVars, histVars
<1>6. CASE BusyEnds(w)
  <2>1. up' \in [Workers -> Seq(Message)]
    BY <1>6, ReplyType DEF BusyEnds, TypeOK
  <2>2. QED
    BY <1>6, <2>1 DEF BusyEnds, TypeOK, orchVars, regVars, histVars
<1>7. QED
  BY <1>1, <1>2, <1>3, <1>4, <1>5, <1>6 DEF Working

\* Connections that break and come back.
LEMMA FaultType ==
    ASSUME TypeOK, NEW w \in Workers,
           LinkBreaks(w) \/ Detach(w) \/ Crash(w) \/ Connect(w)
    PROVE  TypeOK'
<1>1. CASE LinkBreaks(w)
  BY <1>1 DEF LinkBreaks, TypeOK, orchVars, regVars
<1>2. CASE Detach(w)
  BY <1>2, OrphanedType DEF Detach, Heard, TypeOK, orchVars, wireVars, nodeVars
<1>3. CASE Crash(w)
  BY <1>3 DEF Crash, TypeOK, orchVars, regVars
<1>4. CASE Connect(w)
  <2>1. Greeting(w) \in Seq(Message)
    <3>1. Hello(w \in live) \in Message
      BY DEF Hello, Message
    <3>2. QED
      BY <3>1, Messages DEF Greeting
  <2>2. QED
    BY <1>4, <2>1, OrphanedType DEF Connect, Heard, TypeOK, orchVars, nodeVars
<1>5. QED
  BY <1>1, <1>2, <1>3, <1>4

\* Every step keeps the types.
LEMMA TypeStep ==
    ASSUME TypeOK, [Next]_vars
    PROVE  TypeOK'
<1>1. CASE Ticking
  BY <1>1, TickType
<1>2. CASE WindowTurns
  BY <1>2 DEF WindowTurns, TypeOK, orchVars, regVars, wireVars, nodeVars, histVars
<1>3. ASSUME NEW c \in Calls, Answered(c) \/ TimesOut(c) PROVE TypeOK'
  BY <1>3, ReturnType DEF Answered, TimesOut, Waiting
<1>4. ASSUME NEW w \in Workers, Working(w) PROVE TypeOK'
  BY <1>4, WorkingType
<1>5. ASSUME NEW w \in Workers, StartRefusedUnhealthy(w) PROVE TypeOK'
  <2>1. up' \in [Workers -> Seq(Message)] /\ down' \in [Workers -> Seq(Calls)]
    BY <1>5, NextCommandType, ReplyType DEF StartRefusedUnhealthy
  <2>2. QED
    BY <1>5, <2>1 DEF StartRefusedUnhealthy, TypeOK, orchVars, regVars, nodeVars,
     histVars
<1>6. ASSUME NEW w \in Workers, SessionEnds(w) PROVE TypeOK'
  <2>1. unsent' \in [Workers -> Seq({"started", "ended"})]
    BY <1>6, RecordType DEF SessionEnds
  <2>2. QED
    BY <1>6, <2>1 DEF SessionEnds, TypeOK, orchVars, regVars, wireVars
<1>7. ASSUME NEW w \in Workers, LinkBreaks(w) \/ Detach(w) \/ Crash(w) \/ Connect(w)
      PROVE TypeOK'
  BY <1>7, FaultType
<1>8. ASSUME NEW c \in Calls, NEW w \in Workers, PlannerGrows(c, w) PROVE TypeOK'
  <2>1. Send(c, w, "grow", "planner")
    BY <1>8 DEF PlannerGrows
  <2>2. QED
    BY <1>8, <2>1, SendType DEF PlannerGrows, TypeOK, orchVars, nodeVars
<1>9. ASSUME NEW c \in Calls, NEW w \in Workers, AdminStarts(c, w) PROVE TypeOK'
  <2>1. Send(c, w, "start", "admin")
    BY <1>9 DEF AdminStarts
  <2>2. QED
    BY <1>9, <2>1, SendType DEF AdminStarts, TypeOK, orchVars, nodeVars
<1>10. CASE UNCHANGED vars
  BY <1>10 DEF TypeOK, vars, orchVars, regVars, wireVars, nodeVars, histVars
<1>11. QED
  BY <1>1, <1>2, <1>3, <1>4, <1>5, <1>6, <1>7, <1>8, <1>9, <1>10
     DEF Next, AdminNext, SteadyNext, TickingNext, Faults

\* The initial state has the types.
LEMMA TypeInit == Init => TypeOK
<1>1. Init => down \in [Workers -> Seq(Calls)]
  BY EmptySeq DEF Init
<1>2. Init => up \in [Workers -> Seq(Message)]
  BY EmptySeq DEF Init
<1>3. Init => unsent \in [Workers -> Seq({"started", "ended"})]
  BY EmptySeq DEF Init
<1>4. QED
  BY <1>1, <1>2, <1>3 DEF Init, TypeOK

\* The state keeps its shape whatever breaks; in particular the slot is only
\* ever taken by a worker, and only workers are booked as completed.
THEOREM TypeCorrect == Spec => []TypeOK
<1>1. QED
  BY TypeInit, TypeStep, PTL DEF Spec

----------------------------------------------------------------------------
(* No lane grows beside a session *)

\* The command a worker is busy with is still the one that was sent.
LEMMA GrowthUnchanged ==
    ASSUME TypeOK, NoGrowthWhileCalibrating,
           UNCHANGED <<busy, live>>,
           \A w \in Workers : busy[w] # None => call'[busy[w]].action = call[busy[w]].action
    PROVE  NoGrowthWhileCalibrating'
BY DEF NoGrowthWhileCalibrating, Growing, TypeOK

\* A new call takes an id that no worker is busy with.
LEMMA SendKeepsBusy ==
    ASSUME TypeOK, NEW c \in Calls, NEW v \in Workers, NEW action, NEW by,
           Send(c, v, action, by),
           NEW w \in Workers, busy[w] # None
    PROVE  call'[busy[w]].action = call[busy[w]].action
<1>1. busy[w] \in Calls /\ busy[w] # c
  BY DEF TypeOK, Send, Free
<1>2. QED
  BY <1>1 DEF Send, TypeOK

\* Ending a call changes only its state.
LEMMA ReturnKeepsAction ==
    ASSUME TypeOK, NEW c \in Calls, NEW d \in Calls, NEW outcome,
           call[d] # None, Return(d, outcome)
    PROVE  call'[c].action = call[c].action
<1>1. call[d] \in CallRecord
  BY DEF TypeOK
<1>2. QED
  BY <1>1 DEF Return, TypeOK, CallRecord

\* Closing a session leaves what was sent on it.
LEMMA OrphanedKeepsAction ==
    ASSUME TypeOK, NEW c \in Calls, NEW w \in Workers, NEW answer \in BOOLEAN
    PROVE  Orphaned(w, answer)[c].action = call[c].action
<1>1. CASE call[c] # None
  <2>1. call[c] \in CallRecord
    BY <1>1 DEF TypeOK
  <2>2. QED
    BY <2>1 DEF Orphaned, CallRecord
<1>2. CASE call[c] = None
  BY <1>2 DEF Orphaned
<1>3. QED
  BY <1>1, <1>2

\* One message from a worker changes no call's action.
LEMMA ReceiveKeepsAction ==
    ASSUME TypeOK, NEW w \in Workers, Receive(w), NEW c \in Calls
    PROVE  call'[c].action = call[c].action
<1> DEFINE m == Head(up[w])
<1>1. CASE UNCHANGED call
  BY <1>1
<1>2. CASE m.type = "result" /\ OnResult(m)
  <2>1. CASE call[m.call] # None /\ call[m.call].state = "waiting"
    <3>1. m \in Message
      BY HeadTailProperties DEF Receive, TypeOK
    <3>2. m.call \in Calls
      BY <1>2, <3>1 DEF Message
    <3>3. call[m.call] \in CallRecord
      BY <2>1, <3>2 DEF TypeOK
    <3>4. QED
      BY <1>2, <2>1, <3>2, <3>3 DEF OnResult, TypeOK, CallRecord
  <2>2. CASE ~(call[m.call] # None /\ call[m.call].state = "waiting")
    BY <1>2, <2>2 DEF OnResult
  <2>3. QED
    BY <2>1, <2>2
<1>3. QED
  BY <1>1, <1>2 DEF Receive, OnEvent

\* Every step keeps growth and sessions apart: a session starts only while the
\* worker is not busy, and a growth begins only while no session runs.
LEMMA NoGrowthStep ==
    ASSUME TypeOK, NoGrowthWhileCalibrating, [Next]_vars
    PROVE  NoGrowthWhileCalibrating'
<1>1. ASSUME NEW c \in Calls, NEW v \in Workers, NEW action, NEW by,
             Send(c, v, action, by), UNCHANGED nodeVars
      PROVE  NoGrowthWhileCalibrating'
  BY <1>1, SendKeepsBusy, GrowthUnchanged DEF nodeVars
<1>2. ASSUME UNCHANGED <<call, nodeVars>>
      PROVE  NoGrowthWhileCalibrating'
  BY <1>2, GrowthUnchanged DEF nodeVars
<1>3. CASE Ticking
  <2>1. ASSUME NEW c \in Calls, TickStops(c)
        PROVE  NoGrowthWhileCalibrating'
    BY <1>1, <2>1 DEF TickStops, TypeOK
  <2>2. ASSUME NEW c \in Calls, NEW w \in Workers, TickStarts(c, w)
        PROVE  NoGrowthWhileCalibrating'
    BY <1>1, <2>2 DEF TickStarts
  <2>3. CASE TickStartsNobody \/ TickStopFails \/ TickRests
    BY <1>2, <2>3 DEF TickStartsNobody, TickStopFails, TickRests, regVars, nodeVars
  <2>4. QED
    BY <1>3, <2>1, <2>2, <2>3 DEF Ticking
<1>4. CASE WindowTurns
  BY <1>2, <1>4 DEF WindowTurns, regVars, nodeVars
<1>5. ASSUME NEW c \in Calls, Answered(c) \/ TimesOut(c)
      PROVE  NoGrowthWhileCalibrating'
  <2>1. call[c] # None
    BY <1>5 DEF Answered, TimesOut, Waiting
  <2>2. \A w \in Workers : busy[w] # None => call'[busy[w]].action = call[busy[w]].action
    BY <1>5, <2>1, ReturnKeepsAction DEF Answered, TimesOut, TypeOK
  <2>3. QED
    BY <1>5, <2>2, GrowthUnchanged DEF Answered, TimesOut, Return, nodeVars
<1>6. ASSUME NEW w \in Workers, Working(w)
      PROVE  NoGrowthWhileCalibrating'
  <2>1. CASE Receive(w)
    <3>1. \A v \in Workers : busy[v] # None => call'[busy[v]].action = call[busy[v]].action
      BY <2>1, ReceiveKeepsAction DEF TypeOK
    <3>2. QED
      BY <2>1, <3>1, GrowthUnchanged DEF Receive, nodeVars
  <2>2. CASE EventForwarded(w)
    BY <2>2, GrowthUnchanged DEF EventForwarded, regVars
  <2>3. CASE StartAccepted(w)
    BY <2>3 DEF StartAccepted, NextCommand, regVars, NoGrowthWhileCalibrating, Growing, TypeOK
  <2>4. CASE StartRefused(w) \/ GrowRefused(w)
    BY <1>2, <2>4 DEF StartRefused, GrowRefused, regVars, nodeVars
  <2>5. CASE GrowBegins(w)
    BY <2>5 DEF GrowBegins, GrowAllowed, regVars, NoGrowthWhileCalibrating, Growing, TypeOK
  <2>6. CASE StopBegins(w)
    <3>1. busy' = [busy EXCEPT ![w] = Head(down[w])] /\ call[Head(down[w])].action = "stop"
      BY <2>6 DEF StopBegins, NextCommand
    <3>2. QED
      BY <2>6, <3>1 DEF StopBegins, regVars, NoGrowthWhileCalibrating, Growing, TypeOK
  <2>7. CASE BusyEnds(w)
    BY <2>7 DEF BusyEnds, regVars, NoGrowthWhileCalibrating, Growing, TypeOK
  <2>8. QED
    BY <1>6, <2>1, <2>2, <2>3, <2>4, <2>5, <2>6, <2>7 DEF Working
<1>7. ASSUME NEW w \in Workers, StartRefusedUnhealthy(w)
      PROVE  NoGrowthWhileCalibrating'
  BY <1>2, <1>7 DEF StartRefusedUnhealthy, regVars, nodeVars
<1>8. ASSUME NEW w \in Workers, SessionEnds(w)
      PROVE  NoGrowthWhileCalibrating'
  BY <1>8 DEF SessionEnds, regVars, NoGrowthWhileCalibrating, Growing, TypeOK
<1>9. ASSUME NEW w \in Workers, LinkBreaks(w)
      PROVE  NoGrowthWhileCalibrating'
  BY <1>9, GrowthUnchanged DEF LinkBreaks, regVars
<1>10. ASSUME NEW w \in Workers, Detach(w) \/ Connect(w)
       PROVE  NoGrowthWhileCalibrating'
  <2>1. PICK answer \in BOOLEAN : call' = Orphaned(w, answer)
    BY <1>10 DEF Detach, Connect
  <2>2. \A v \in Workers : busy[v] # None => call'[busy[v]].action = call[busy[v]].action
    BY <2>1, OrphanedKeepsAction DEF TypeOK
  <2>3. QED
    BY <1>10, <2>2, GrowthUnchanged DEF Detach, Connect, nodeVars
<1>11. ASSUME NEW w \in Workers, Crash(w)
       PROVE  NoGrowthWhileCalibrating'
  BY <1>11 DEF Crash, regVars, NoGrowthWhileCalibrating, Growing, TypeOK
<1>12. ASSUME NEW c \in Calls, NEW w \in Workers, PlannerGrows(c, w) \/ AdminStarts(c, w)
       PROVE  NoGrowthWhileCalibrating'
  BY <1>1, <1>12 DEF PlannerGrows, AdminStarts
<1>13. CASE UNCHANGED vars
  BY <1>2, <1>13 DEF vars, regVars
<1>14. QED
  BY <1>3, <1>4, <1>5, <1>6, <1>7, <1>8, <1>9, <1>10, <1>11, <1>12, <1>13
     DEF Next, AdminNext, SteadyNext, TickingNext, Faults

\* Whatever the server believes about a worker, and however commands, events
\* and failures interleave, no lane grows there while its session runs: the
\* refusal in _execute_command and the serial command loop suffice.
THEOREM GrowthRefused == Spec => []NoGrowthWhileCalibrating
<1>1. Init => NoGrowthWhileCalibrating
  BY DEF Init, NoGrowthWhileCalibrating
<1>2. QED
  BY <1>1, TypeInit, TypeStep, NoGrowthStep, PTL DEF Spec

----------------------------------------------------------------------------
(* The greeting of a reconnecting worker *)

\* Nothing is on a broken link.
Unlinked == \A w \in Workers \ link : up[w] = <<>> /\ down[w] = <<>>

\* A command on its way was sent to that worker on its current session.
OnItsWay ==
    \A w \in Workers : \A i \in DOMAIN down[w] :
        LET c == down[w][i] IN call[c] # None /\ call[c].to = w /\ call[c].open

\* No session is started on a worker that has not sent a status.
NoStartYet ==
    \A w \in Workers, c \in Calls :
        sess[w] = "attached" /\ call[c] # None /\ call[c].to = w /\ call[c].open
        => call[c].action # "start"

\* The hello is still to come, or it came and the status is next.
Greeted(w) ==
    \/ /\ Len(up[w]) > 1
       /\ up[w][1].type = "hello" /\ (w \in live => up[w][1].calibrating)
       /\ up[w][2].type = "status"
    \/ /\ Len(up[w]) > 0
       /\ up[w][1].type = "status" /\ (w \in live => mark[w])

\* A worker that has not sent a status is greeted.
GreetingAhead == \A w \in link : sess[w] = "attached" => Greeted(w)

\* The inductive invariant behind HelloSettles.
HelloInv == TypeOK /\ Unlinked /\ OnItsWay /\ NoStartYet /\ GreetingAhead

\* What the steps of a worker have in common: they read the next command, add a
\* message, and start a session only for a start command.
NodeStep(w) ==
    /\ UNCHANGED <<regVars, link>>
    /\ \/ down' = down
       \/ down[w] # <<>> /\ down' = [down EXCEPT ![w] = Tail(@)]
    /\ \/ up' = up
       \/ w \in link /\ \E m \in Message : up' = [up EXCEPT ![w] = Append(@, m)]
    /\ \/ live' \subseteq live
       \/ /\ live' = live \cup {w}
          /\ down[w] # <<>> /\ call[Head(down[w])].action = "start"

\* A step of a worker keeps the invariant.
LEMMA NodeStepKeeps ==
    ASSUME HelloInv, NEW w \in Workers, NodeStep(w), TypeOK'
    PROVE  HelloInv'
<1>1. ASSUME NEW v \in Workers, NEW i \in DOMAIN down'[v]
      PROVE  \E j \in DOMAIN down[v] : down'[v][i] = down[v][j]
  <2>1. CASE down' = down
    BY <1>1, <2>1
  <2>2. CASE down[w] # <<>> /\ down' = [down EXCEPT ![w] = Tail(@)]
    <3>1. CASE v = w
      <4>1. down[w] \in Seq(Calls) /\ down'[w] = Tail(down[w])
        BY <2>2 DEF HelloInv, TypeOK
      <4>2. /\ Tail(down[w]) \in Seq(Calls)
            /\ Len(Tail(down[w])) = Len(down[w]) - 1
            /\ \A k \in 1 .. Len(Tail(down[w])) : Tail(down[w])[k] = down[w][k+1]
        BY <2>2, <4>1, HeadTailProperties
      <4>3. i \in 1 .. Len(Tail(down[w]))
        BY <1>1, <3>1, <4>1, <4>2, LenProperties
      <4>4. i + 1 \in 1 .. Len(down[w])
        BY <4>1, <4>2, <4>3, LenProperties
      <4>5. i + 1 \in DOMAIN down[w]
        BY <4>1, <4>4, LenProperties
      <4>6. QED
        BY <3>1, <4>1, <4>2, <4>3, <4>5
    <3>2. CASE v # w
      BY <1>1, <2>2, <3>2 DEF HelloInv, TypeOK
    <3>3. QED
      BY <3>1, <3>2
  <2>3. QED
    BY <2>1, <2>2 DEF NodeStep
<1>2. OnItsWay'
  BY <1>1 DEF HelloInv, OnItsWay, NodeStep, regVars
<1>3. Unlinked'
  BY DEF HelloInv, TypeOK, Unlinked, NodeStep
<1>4. NoStartYet'
  BY DEF HelloInv, NoStartYet, NodeStep, regVars
<1>5. GreetingAhead'
  <2>1. SUFFICES ASSUME NEW v \in link, sess[v] = "attached"
                 PROVE  Greeted(v)'
    BY DEF GreetingAhead, NodeStep, regVars
  <2>2. Greeted(v) /\ v \in Workers
    BY <2>1 DEF HelloInv, GreetingAhead, TypeOK
  <2>3. v \in live' => v \in live
    <3>1. CASE live' \subseteq live
      BY <3>1
    <3>2. CASE /\ live' = live \cup {w}
               /\ down[w] # <<>> /\ call[Head(down[w])].action = "start"
      <4>1. down[w] \in Seq(Calls) /\ 1 \in DOMAIN down[w] /\ Head(down[w]) = down[w][1]
        <5>1. down[w] \in Seq(Calls)
          BY DEF HelloInv, TypeOK
        <5>2. Len(down[w]) \in Nat \ {0}
          BY <3>2, <5>1, EmptySeq
        <5>3. QED
          BY <5>1, <5>2, LenProperties
      <4>2. Head(down[w]) \in Calls
        BY <3>2, <4>1, HeadTailProperties
      <4>3. sess[w] # "attached"
        BY <3>2, <4>1, <4>2 DEF HelloInv, OnItsWay, NoStartYet
      <4>4. QED
        BY <2>1, <3>2, <4>3
    <3>3. QED
      BY <3>1, <3>2 DEF NodeStep
  <2>4. CASE up' = up
    BY <2>2, <2>3, <2>4 DEF Greeted, NodeStep, regVars
  <2>5. ASSUME NEW m \in Message, up' = [up EXCEPT ![w] = Append(@, m)]
        PROVE  Greeted(v)'
    <3>1. CASE v = w
      <4>1. up[w] \in Seq(Message) /\ up'[w] = Append(up[w], m)
        BY <2>5 DEF HelloInv, TypeOK
      <4>2. /\ Len(up'[w]) = Len(up[w]) + 1 /\ Len(up[w]) \in Nat
            /\ \A k \in 1 .. Len(up[w]) : up'[w][k] = up[w][k]
        BY <4>1, AppendProperties, LenProperties
      <4>3. QED
        BY <2>2, <2>3, <3>1, <4>2 DEF Greeted, NodeStep, regVars
    <3>2. CASE v # w
      BY <2>2, <2>3, <2>5, <3>2 DEF Greeted, NodeStep, regVars, HelloInv, TypeOK
    <3>3. QED
      BY <3>1, <3>2
  <2>6. QED
    BY <2>4, <2>5 DEF NodeStep
<1>6. QED
  BY <1>2, <1>3, <1>4, <1>5 DEF HelloInv

\* A start goes to a worker that is ready, a stop to any.
LEMMA SendKeeps ==
    ASSUME HelloInv, NEW c \in Calls, NEW w \in Workers,
           NEW action \in {"start", "stop", "grow"}, NEW by \in {"tick", "admin", "planner"},
           Send(c, w, action, by), action = "start" => sess[w] = "ready",
           UNCHANGED live, TypeOK'
    PROVE  HelloInv'
<1>1. /\ call'[c] = [to |-> w, action |-> action, by |-> by, was |-> mark[w],
                     open |-> TRUE, state |-> "waiting"]
      /\ \A d \in Calls \ {c} : call'[d] = call[d]
      /\ call'[c] # None
  <2>1. /\ call'[c] = [to |-> w, action |-> action, by |-> by, was |-> mark[w],
                       open |-> TRUE, state |-> "waiting"]
        /\ \A d \in Calls \ {c} : call'[d] = call[d]
    BY DEF Send, HelloInv, TypeOK
  <2>2. call'[c] \in CallRecord
    BY <2>1 DEF CallRecord, HelloInv, TypeOK
  <2>3. QED
    BY <2>1, <2>2, NoneAssumption
<1>2. Unlinked'
  BY DEF Send, HelloInv, TypeOK, Unlinked
<1>3. OnItsWay'
  <2>1. SUFFICES ASSUME NEW v \in Workers, NEW i \in DOMAIN down'[v]
                 PROVE  call'[down'[v][i]] # None /\ call'[down'[v][i]].to = v
                        /\ call'[down'[v][i]].open
    BY DEF OnItsWay
  <2>2. CASE i \in DOMAIN down[v] /\ down'[v][i] = down[v][i]
    <3>1. down[v][i] \in Calls
      BY <2>2, LenProperties, ElementOfSeq DEF HelloInv, TypeOK
    <3>2. down[v][i] # c
      BY <2>2 DEF Send, Free
    <3>3. call[down[v][i]] # None /\ call[down[v][i]].to = v /\ call[down[v][i]].open
      BY <2>2 DEF HelloInv, OnItsWay
    <3>4. QED
      BY <1>1, <2>2, <3>1, <3>2, <3>3
  <2>3. CASE v = w /\ down'[v][i] = c
    BY <1>1, <2>3
  <2>4. \/ i \in DOMAIN down[v] /\ down'[v][i] = down[v][i]
        \/ v = w /\ down'[v][i] = c
    <3>1. CASE v = w /\ w \in link
      <4>1. down[w] \in Seq(Calls) /\ down'[w] = Append(down[w], c)
        BY <3>1 DEF Send, HelloInv, TypeOK
      <4>2. /\ down'[w] \in Seq(Calls) /\ Len(down'[w]) = Len(down[w]) + 1
            /\ \A k \in 1 .. Len(down[w]) : down'[w][k] = down[w][k]
            /\ down'[w][Len(down[w]) + 1] = c
        BY <4>1, AppendProperties
      <4>3. i \in 1 .. Len(down[w]) + 1 /\ DOMAIN down[w] = 1 .. Len(down[w]) /\ Len(down[w]) \in Nat
        BY <2>1, <3>1, <4>1, <4>2, LenProperties
      <4>4. QED
        BY <3>1, <4>2, <4>3
    <3>2. CASE ~(v = w /\ w \in link)
      BY <2>1, <3>2 DEF Send, HelloInv, TypeOK
    <3>3. QED
      BY <3>1, <3>2
  <2>5. QED
    BY <2>2, <2>3, <2>4
<1>4. NoStartYet'
  BY <1>1 DEF Send, HelloInv, NoStartYet
<1>5. GreetingAhead'
  BY DEF Send, Marked, HelloInv, TypeOK, GreetingAhead, Greeted
<1>6. QED
  BY <1>2, <1>3, <1>4, <1>5 DEF HelloInv

\* Only the start of a worker that was ready is undone.
LEMMA ReturnKeeps ==
    ASSUME HelloInv, NEW c \in Calls, NEW outcome, call[c] # None, Return(c, outcome), TypeOK'
    PROVE  HelloInv'
<1>1. /\ \A d \in Calls \ {c} : call'[d] = call[d]
      /\ call'[c].to = call[c].to /\ call'[c].open = call[c].open
      /\ call'[c].action = call[c].action /\ call'[c] # None
      /\ call[c].to \in Workers
  <2>1. call[c] \in CallRecord
    BY DEF HelloInv, TypeOK
  <2>2. call'[c] = [call[c] EXCEPT !.state = "over"]
    BY DEF Return, HelloInv, TypeOK
  <2>3. call'[c] \in CallRecord
    BY <2>1, <2>2 DEF CallRecord
  <2>4. \A d \in Calls \ {c} : call'[d] = call[d]
    BY DEF Return, HelloInv, TypeOK
  <2>5. QED
    BY <2>1, <2>2, <2>3, <2>4, NoneAssumption DEF CallRecord
<1>2. Unlinked'
  BY DEF Return, wireVars, HelloInv, Unlinked
<1>3. OnItsWay'
  <2>1. SUFFICES ASSUME NEW v \in Workers, NEW i \in DOMAIN down[v]
                 PROVE  call'[down[v][i]] # None /\ call'[down[v][i]].to = v
                        /\ call'[down[v][i]].open
    BY DEF OnItsWay, Return, wireVars
  <2>2. down[v][i] \in Calls
    BY LenProperties, ElementOfSeq DEF HelloInv, TypeOK
  <2>3. call[down[v][i]] # None /\ call[down[v][i]].to = v /\ call[down[v][i]].open
    BY DEF HelloInv, OnItsWay
  <2>4. QED
    BY <1>1, <2>2, <2>3
<1>4. NoStartYet'
  BY <1>1 DEF Return, HelloInv, NoStartYet
<1>5. GreetingAhead'
  <2>1. SUFFICES ASSUME NEW v \in link, sess[v] = "attached"
                 PROVE  Greeted(v)'
    BY DEF GreetingAhead, Return, wireVars
  <2>2. v \in Workers /\ Greeted(v)
    BY <2>1 DEF HelloInv, GreetingAhead, TypeOK
  <2>3. mark'[v] = mark[v]
    BY <1>1, <2>1, <2>2 DEF Return, Unmarked, HelloInv, NoStartYet, TypeOK
  <2>4. QED
    BY <2>2, <2>3 DEF Greeted, Return, wireVars, nodeVars
<1>6. QED
  BY <1>2, <1>3, <1>4, <1>5 DEF HelloInv

\* A call that gets its answer stays what it was.
LEMMA ResultKeepsCall ==
    ASSUME TypeOK, NEW m \in Message, m.type = "result", OnResult(m), NEW c \in Calls
    PROVE  /\ call'[c] # None => call[c] # None
           /\ call[c] # None => /\ call'[c] # None /\ call'[c].to = call[c].to
                                /\ call'[c].open = call[c].open
                                /\ call'[c].action = call[c].action
<1>1. CASE call[m.call] # None /\ call[m.call].state = "waiting" /\ c = m.call
  <2>1. call[c] \in CallRecord
    BY <1>1 DEF TypeOK
  <2>2. PICK s \in {"ok", "refused"} : call'[c] = [call[c] EXCEPT !.state = s]
    BY <1>1 DEF OnResult, TypeOK
  <2>3. call'[c] \in CallRecord
    BY <2>1, <2>2 DEF CallRecord
  <2>4. QED
    BY <1>1, <2>1, <2>2, <2>3, NoneAssumption DEF CallRecord
<1>2. CASE ~(call[m.call] # None /\ call[m.call].state = "waiting" /\ c = m.call)
  BY <1>2 DEF OnResult, TypeOK
<1>3. QED
  BY <1>1, <1>2

\* The messages are taken in order: the hello makes way for the status, and the
\* status ends the session's first phase.
LEMMA ReceiveKeeps ==
    ASSUME HelloInv, NEW w \in Workers, Receive(w), TypeOK'
    PROVE  HelloInv'
<1> DEFINE m == Head(up[w])
<1>1. /\ up[w] \in Seq(Message) /\ up[w] # <<>> /\ up'[w] = Tail(up[w])
      /\ \A v \in Workers \ {w} : up'[v] = up[v]
      /\ UNCHANGED <<link, down, live>>
  BY DEF Receive, HelloInv, TypeOK, nodeVars
<1>2. m \in Message /\ m = up[w][1]
  BY <1>1, HeadTailProperties
<1>3. w \in link
  BY <1>1 DEF HelloInv, Unlinked
<1>4. \A c \in Calls :
        /\ call'[c] # None => call[c] # None
        /\ call[c] # None => /\ call'[c] # None /\ call'[c].to = call[c].to
                             /\ call'[c].open = call[c].open
                             /\ call'[c].action = call[c].action
  <2>1. CASE UNCHANGED call
    BY <2>1
  <2>2. CASE m.type = "result" /\ OnResult(m)
    BY <1>2, <2>2, ResultKeepsCall DEF HelloInv
  <2>3. QED
    BY <2>1, <2>2 DEF Receive, OnEvent
<1>5. \A v \in Workers : sess'[v] = "attached" => sess[v] = "attached"
  BY DEF Receive, OnEvent, OnResult, HelloInv, TypeOK
<1>6. Unlinked'
  BY <1>1, <1>3 DEF HelloInv, Unlinked
<1>7. OnItsWay'
  <2>1. SUFFICES ASSUME NEW v \in Workers, NEW i \in DOMAIN down[v]
                 PROVE  call'[down[v][i]] # None /\ call'[down[v][i]].to = v
                        /\ call'[down[v][i]].open
    BY <1>1 DEF OnItsWay
  <2>2. down[v][i] \in Calls
    BY LenProperties, ElementOfSeq DEF HelloInv, TypeOK
  <2>3. call[down[v][i]] # None /\ call[down[v][i]].to = v /\ call[down[v][i]].open
    BY DEF HelloInv, OnItsWay
  <2>4. QED
    BY <1>4, <2>2, <2>3
<1>8. NoStartYet'
  BY <1>4, <1>5 DEF HelloInv, NoStartYet
<1>9. GreetingAhead'
  <2>1. SUFFICES ASSUME NEW v \in link, sess'[v] = "attached"
                 PROVE  Greeted(v)'
    BY <1>1 DEF GreetingAhead
  <2>2. v \in Workers /\ Greeted(v)
    BY <1>5, <2>1 DEF HelloInv, GreetingAhead, TypeOK
  <2>3. CASE v # w
    <3>1. mark'[v] = mark[v]
      BY <2>2, <2>3 DEF Receive, OnEvent, OnResult, HelloInv, TypeOK
    <3>2. QED
      BY <1>1, <2>2, <2>3, <3>1 DEF Greeted
  <2>4. CASE v = w
    <3>1. m.type # "status"
      BY <2>1, <2>2, <2>4, <1>2 DEF Receive, OnEvent, OnResult, HelloInv, TypeOK
    <3>2. /\ Len(up[w]) > 1
          /\ m.type = "hello" /\ (w \in live => m.calibrating)
          /\ up[w][2].type = "status"
      BY <1>2, <2>2, <2>4, <3>1 DEF Greeted
    <3>3. mark'[w] = m.calibrating
      BY <3>2 DEF Receive, HelloInv, TypeOK
    <3>4. /\ Len(Tail(up[w])) = Len(up[w]) - 1 /\ Len(up[w]) \in Nat
          /\ \A k \in 1 .. Len(Tail(up[w])) : Tail(up[w])[k] = up[w][k+1]
      BY <1>1, HeadTailProperties, LenProperties
    <3>5. Len(up'[w]) > 0 /\ up'[w][1] = up[w][2]
      BY <1>1, <3>2, <3>4
    <3>6. QED
      BY <1>1, <2>4, <3>2, <3>3, <3>5 DEF Greeted
  <2>5. QED
    BY <2>3, <2>4
<1>10. QED
  BY <1>6, <1>7, <1>8, <1>9 DEF HelloInv

\* The calls of other workers, and those of w but for their being open.
LEMMA OrphanedKeepsCall ==
    ASSUME TypeOK, NEW w \in Workers, NEW answer \in BOOLEAN, NEW c \in Calls
    PROVE  LET o == Orphaned(w, answer)[c] IN
           /\ o # None => call[c] # None
           /\ call[c] # None => /\ o # None /\ o.to = call[c].to /\ o.action = call[c].action
                                /\ (o.open <=> call[c].open /\ call[c].to # w)
<1>1. CASE call[c] # None
  <2>1. call[c] \in CallRecord
    BY <1>1 DEF TypeOK
  <2>2. CASE call[c].open /\ call[c].to = w
    <3>1. Orphaned(w, answer)[c] = [call[c] EXCEPT !.open = FALSE,
                  !.state = IF answer /\ @ = "waiting" THEN "offline" ELSE @]
      BY <1>1, <2>2 DEF Orphaned
    <3>2. Orphaned(w, answer)[c] \in CallRecord
      BY <2>1, <3>1 DEF CallRecord
    <3>3. QED
      BY <1>1, <2>1, <2>2, <3>1, <3>2, NoneAssumption DEF CallRecord
  <2>3. CASE ~(call[c].open /\ call[c].to = w)
    BY <1>1, <2>1, <2>3 DEF Orphaned, CallRecord
  <2>4. QED
    BY <2>2, <2>3
<1>2. CASE call[c] = None
  BY <1>2 DEF Orphaned
<1>3. QED
  BY <1>1, <1>2

\* A break empties the link, a new connection begins with the greeting.
LEMMA FaultKeeps ==
    ASSUME HelloInv, NEW w \in Workers,
           LinkBreaks(w) \/ Crash(w) \/ Detach(w) \/ Connect(w), TypeOK'
    PROVE  HelloInv'
<1>1. CASE LinkBreaks(w) \/ Crash(w)
  <2>1. /\ link' = link \ {w} /\ live' \subseteq live
        /\ up' = [up EXCEPT ![w] = <<>>] /\ down' = [down EXCEPT ![w] = <<>>]
        /\ UNCHANGED <<sess, mark, call>>
    BY <1>1 DEF LinkBreaks, Crash, regVars
  <2>2. Unlinked'
    BY <2>1 DEF HelloInv, TypeOK, Unlinked
  <2>3. OnItsWay'
    BY <2>1 DEF HelloInv, TypeOK, OnItsWay
  <2>4. NoStartYet'
    BY <2>1 DEF HelloInv, NoStartYet
  <2>5. GreetingAhead'
    BY <2>1 DEF HelloInv, TypeOK, GreetingAhead, Greeted
  <2>6. QED
    BY <2>2, <2>3, <2>4, <2>5 DEF HelloInv
<1>2. CASE Detach(w) \/ Connect(w)
  <2>1. PICK answer \in BOOLEAN : call' = Orphaned(w, answer)
    BY <1>2 DEF Detach, Connect
  <2>2. /\ w \notin link /\ down[w] = <<>> /\ UNCHANGED <<down, live>>
        /\ link' \in {link, link \cup {w}}
        /\ \A v \in Workers \ {w} : sess'[v] = sess[v] /\ mark'[v] = mark[v] /\ up'[v] = up[v]
    <3>1. CASE Detach(w)
      BY <3>1 DEF Detach, wireVars, nodeVars, HelloInv, TypeOK, Unlinked
    <3>2. CASE Connect(w)
      BY <3>2 DEF Connect, nodeVars, HelloInv, TypeOK, Unlinked
    <3>3. QED
      BY <1>2, <3>1, <3>2
  <2>3. Unlinked'
    <3>1. CASE Detach(w)
      BY <2>2, <3>1 DEF Detach, wireVars, HelloInv, Unlinked
    <3>2. CASE Connect(w)
      <4>1. link' = link \cup {w}
        BY <3>2 DEF Connect
      <4>2. QED
        BY <2>2, <4>1 DEF HelloInv, Unlinked
    <3>3. QED
      BY <1>2, <3>1, <3>2
  <2>4. OnItsWay'
    <3>1. SUFFICES ASSUME NEW v \in Workers, NEW i \in DOMAIN down[v]
                   PROVE  call'[down[v][i]] # None /\ call'[down[v][i]].to = v
                          /\ call'[down[v][i]].open
      BY <2>2 DEF OnItsWay
    <3>2. down[v][i] \in Calls
      BY LenProperties, ElementOfSeq DEF HelloInv, TypeOK
    <3>3. call[down[v][i]] # None /\ call[down[v][i]].to = v /\ call[down[v][i]].open
      BY DEF HelloInv, OnItsWay
    <3>4. v # w
      BY <2>2, <3>1, EmptySeq, LenProperties DEF HelloInv, TypeOK
    <3>5. call'[down[v][i]] = Orphaned(w, answer)[down[v][i]]
      BY <2>1
    <3>6. QED
      BY <3>2, <3>3, <3>4, <3>5, OrphanedKeepsCall DEF HelloInv
  <2>5. NoStartYet'
    <3>1. SUFFICES ASSUME NEW v \in Workers, NEW c \in Calls, sess'[v] = "attached",
                          call'[c] # None, call'[c].to = v, call'[c].open
                   PROVE  call'[c].action # "start"
      BY DEF NoStartYet
    <3>2. /\ call[c] # None /\ call[c].to = v /\ call[c].to # w /\ call[c].open
          /\ call'[c].action = call[c].action
      BY <2>1, <3>1, OrphanedKeepsCall DEF HelloInv
    <3>3. QED
      BY <2>2, <3>1, <3>2 DEF HelloInv, NoStartYet
  <2>6. GreetingAhead'
    <3>1. SUFFICES ASSUME NEW v \in link', sess'[v] = "attached"
                   PROVE  Greeted(v)'
      BY DEF GreetingAhead
    <3>2. CASE v # w
      <4>1. v \in link /\ v \in Workers /\ sess[v] = "attached"
        BY <2>2, <3>1, <3>2 DEF HelloInv, TypeOK
      <4>2. Greeted(v)
        BY <4>1 DEF HelloInv, GreetingAhead
      <4>3. up'[v] = up[v] /\ mark'[v] = mark[v] /\ live' = live
        BY <2>2, <3>2, <4>1
      <4>4. QED
        BY <4>2, <4>3 DEF Greeted
    <3>3. CASE v = w
      <4>1. Connect(w) /\ up'[w] = <<Hello(w \in live), Status>>
        BY <1>2, <2>2, <3>1, <3>3 DEF Detach, Connect, wireVars, Greeting, HelloInv, TypeOK
      <4>2. Len(up'[w]) = 2 /\ up'[w][1] = Hello(w \in live) /\ up'[w][2] = Status
        BY <4>1
      <4>3. /\ up'[w][1].type = "hello" /\ up'[w][2].type = "status"
            /\ w \in live => up'[w][1].calibrating
        <5>1. Hello(w \in live).type = "hello" /\ Status.type = "status"
          BY DEF Hello, Status
        <5>2. Hello(w \in live).calibrating = (w \in live)
          BY DEF Hello
        <5>3. QED
          BY <4>2, <5>1, <5>2
      <4>4. QED
        BY <2>2, <3>3, <4>2, <4>3 DEF Greeted
    <3>4. QED
      BY <3>2, <3>3
  <2>7. QED
    BY <2>3, <2>4, <2>5, <2>6 DEF HelloInv
<1>3. QED
  BY <1>1, <1>2

\* Every step keeps the invariant.
LEMMA HelloStep ==
    ASSUME HelloInv, [Next]_vars
    PROVE  HelloInv'
<1>1. TypeOK'
  BY TypeStep DEF HelloInv
<1>2. ASSUME UNCHANGED <<sess, mark, call, link, down, up, live>>
      PROVE  HelloInv'
  BY <1>1, <1>2 DEF HelloInv, Unlinked, OnItsWay, NoStartYet, GreetingAhead, Greeted
<1>3. CASE Ticking
  <2>1. ASSUME NEW c \in Calls, TickStops(c)
        PROVE  HelloInv'
    <3>1. slot \in Workers /\ Send(c, slot, "stop", "tick") /\ UNCHANGED live
      BY <2>1 DEF TickStops, HelloInv, TypeOK, nodeVars
    <3>2. QED
      BY <1>1, <3>1, SendKeeps
  <2>2. ASSUME NEW c \in Calls, NEW w \in Workers, TickStarts(c, w)
        PROVE  HelloInv'
    <3>1. sess[w] = "ready" /\ Send(c, w, "start", "tick") /\ UNCHANGED live
      BY <2>2 DEF TickStarts, Eligible, nodeVars
    <3>2. QED
      BY <1>1, <3>1, SendKeeps
  <2>3. CASE TickStartsNobody \/ TickStopFails \/ TickRests
    BY <1>2, <2>3 DEF TickStartsNobody, TickStopFails, TickRests, regVars, wireVars, nodeVars
  <2>4. QED
    BY <1>3, <2>1, <2>2, <2>3 DEF Ticking
<1>4. CASE WindowTurns
  BY <1>2, <1>4 DEF WindowTurns, regVars, wireVars, nodeVars
<1>5. ASSUME NEW c \in Calls, Answered(c) \/ TimesOut(c)
      PROVE  HelloInv'
  BY <1>1, <1>5, ReturnKeeps DEF Answered, TimesOut, Waiting
<1>6. ASSUME NEW w \in Workers, Receive(w)
      PROVE  HelloInv'
  BY <1>1, <1>6, ReceiveKeeps
<1>7. ASSUME NEW w \in Workers,
             \/ EventForwarded(w) \/ StartAccepted(w) \/ StartRefused(w) \/ GrowBegins(w)
             \/ GrowRefused(w) \/ StopBegins(w) \/ BusyEnds(w)
             \/ StartRefusedUnhealthy(w) \/ SessionEnds(w)
      PROVE  HelloInv'
  <2>1. ASSUME NEW c \in Calls, NEW ok \in BOOLEAN, Reply(w, c, ok)
        PROVE  \/ up' = up
               \/ w \in link /\ \E m \in Message : up' = [up EXCEPT ![w] = Append(@, m)]
    BY <2>1, Messages DEF Reply
  <2>2. CASE EventForwarded(w)
    <3>1. Head(unsent[w]) \in {"started", "ended"}
      BY <2>2, HeadTailProperties DEF EventForwarded, HelloInv, TypeOK
    <3>2. Event(Head(unsent[w])) \in Message
      BY <3>1, Messages
    <3>3. NodeStep(w)
      BY <2>2, <3>2 DEF EventForwarded, NodeStep
    <3>4. QED
      BY <1>1, <3>3, NodeStepKeeps
  <2>3. CASE StartAccepted(w)
    <3>1. Head(down[w]) \in Calls
      BY <2>3, NextCommandType DEF StartAccepted, HelloInv
    <3>2. NodeStep(w)
      BY <2>1, <2>3, <3>1 DEF StartAccepted, NextCommand, NodeStep
    <3>3. QED
      BY <1>1, <3>2, NodeStepKeeps
  <2>4. CASE StartRefused(w) \/ GrowRefused(w) \/ StartRefusedUnhealthy(w)
    <3>1. Head(down[w]) \in Calls
      BY <2>4, NextCommandType DEF StartRefused, GrowRefused, StartRefusedUnhealthy, HelloInv
    <3>2. NodeStep(w)
      BY <2>1, <2>4, <3>1
         DEF StartRefused, GrowRefused, StartRefusedUnhealthy, NextCommand, NodeStep, nodeVars
    <3>3. QED
      BY <1>1, <3>2, NodeStepKeeps
  <2>5. CASE GrowBegins(w) \/ StopBegins(w)
    <3>1. NodeStep(w)
      BY <2>5 DEF GrowBegins, StopBegins, NextCommand, NodeStep
    <3>2. QED
      BY <1>1, <3>1, NodeStepKeeps
  <2>6. CASE BusyEnds(w)
    <3>1. busy[w] \in Calls
      BY <2>6 DEF BusyEnds, HelloInv, TypeOK
    <3>2. NodeStep(w)
      BY <2>1, <2>6, <3>1 DEF BusyEnds, NodeStep
    <3>3. QED
      BY <1>1, <3>2, NodeStepKeeps
  <2>7. CASE SessionEnds(w)
    <3>1. NodeStep(w)
      BY <2>7 DEF SessionEnds, NodeStep, wireVars
    <3>2. QED
      BY <1>1, <3>1, NodeStepKeeps
  <2>8. QED
    BY <1>7, <2>2, <2>3, <2>4, <2>5, <2>6, <2>7
<1>8. ASSUME NEW w \in Workers, LinkBreaks(w) \/ Detach(w) \/ Crash(w) \/ Connect(w)
      PROVE  HelloInv'
  BY <1>1, <1>8, FaultKeeps
<1>9. ASSUME NEW c \in Calls, NEW w \in Workers, PlannerGrows(c, w) \/ AdminStarts(c, w)
      PROVE  HelloInv'
  <2>1. sess[w] = "ready" /\ UNCHANGED live
    BY <1>9 DEF PlannerGrows, AdminStarts, Plannable, nodeVars
  <2>2. \/ Send(c, w, "grow", "planner")
        \/ Send(c, w, "start", "admin")
    BY <1>9 DEF PlannerGrows, AdminStarts
  <2>3. QED
    BY <1>1, <2>1, <2>2, SendKeeps
<1>10. CASE UNCHANGED vars
  BY <1>2, <1>10 DEF vars, regVars, wireVars, nodeVars
<1>11. QED
  BY <1>3, <1>4, <1>5, <1>6, <1>7, <1>8, <1>9, <1>10
     DEF Next, AdminNext, SteadyNext, TickingNext, Faults, Working

\* A worker becomes ready by a status that is read.
LEMMA NewStatus ==
    ASSUME TypeOK, [Next]_vars, NEW w \in Workers, sess[w] = "attached", sess'[w] = "ready"
    PROVE  Receive(w) /\ Head(up[w]).type = "status" /\ UNCHANGED mark
<1>1. sess'[w] # sess[w]
  OBVIOUS
<1>2. ASSUME NEW v \in Workers, Detach(v) \/ Connect(v)
      PROVE  FALSE
  BY <1>2 DEF Detach, Connect, TypeOK
<1>3. ~Ticking
  BY <1>1 DEF Ticking, TickStops, TickStarts, TickStartsNobody, TickStopFails, TickRests, Send, regVars
<1>4. ASSUME NEW v \in Workers, Working(v)
      PROVE  Receive(v)
  BY <1>1, <1>4
     DEF Working, EventForwarded, StartAccepted, StartRefused, GrowBegins, GrowRefused,
         StopBegins, BusyEnds, regVars
<1>5. PICK v \in Workers : Receive(v)
  BY <1>1, <1>2, <1>3, <1>4
     DEF Next, AdminNext, SteadyNext, TickingNext, Faults, WindowTurns, Answered, TimesOut,
         Return, StartRefusedUnhealthy, SessionEnds, LinkBreaks, Crash, PlannerGrows,
         AdminStarts, Send, vars, regVars, wireVars, nodeVars
<1>6. v = w /\ Head(up[w]).type = "status" /\ UNCHANGED mark
  BY <1>1, <1>5 DEF Receive, OnResult, OnEvent, TypeOK
<1>7. QED
  BY <1>5, <1>6

\* The hello settles the mark before the first status makes the worker
\* plannable: both are sent first on a connection, and nothing that could clear
\* the mark or start a session comes between them.
THEOREM HelloIsAuthority == Spec => HelloSettles
<1>1. Init => HelloInv
  <2>1. Init => OnItsWay
    BY EmptySeq, LenProperties DEF Init, OnItsWay
  <2>2. QED
    BY <2>1, TypeInit DEF Init, HelloInv, Unlinked, NoStartYet, GreetingAhead
<1>2. ASSUME HelloInv, [Next]_vars, NEW w \in live, sess[w] = "attached", sess'[w] = "ready"
      PROVE  mark'[w]
  <2>1. w \in Workers
    BY <1>2 DEF HelloInv, TypeOK
  <2>2. Receive(w) /\ Head(up[w]).type = "status" /\ UNCHANGED mark
    BY <1>2, <2>1, NewStatus DEF HelloInv
  <2>3. up[w] # <<>> /\ Head(up[w]) = up[w][1]
    BY <2>1, <2>2, HeadTailProperties DEF Receive, HelloInv, TypeOK
  <2>4. w \in link
    BY <1>2, <2>1, <2>3 DEF HelloInv, Unlinked
  <2>5. Greeted(w)
    BY <1>2, <2>4 DEF HelloInv, GreetingAhead
  <2>6. QED
    BY <1>2, <2>2, <2>3, <2>5 DEF Greeted
<1>3. HelloInv /\ [Next]_vars
      => [\A w \in live : sess[w] = "attached" /\ sess'[w] = "ready" => mark'[w]]_vars
  BY <1>2
<1>4. QED
  BY <1>1, <1>3, HelloStep, PTL DEF Spec, HelloSettles

----------------------------------------------------------------------------
(* Queues *)

\* What is left of a queue once its head is taken.
LEMMA TailView ==
    ASSUME NEW S, NEW s \in Seq(S), s # <<>>
    PROVE  /\ Len(s) \in Nat \ {0} /\ DOMAIN s = 1 .. Len(s) /\ 1 \in DOMAIN s /\ Head(s) = s[1]
           /\ Tail(s) \in Seq(S)
           /\ \A i \in DOMAIN Tail(s) : i \in Nat \ {0} /\ i + 1 \in DOMAIN s /\ Tail(s)[i] = s[i + 1]
           /\ \A i \in DOMAIN s : i # 1 => i - 1 \in DOMAIN Tail(s) /\ Tail(s)[i - 1] = s[i]
<1>1. Len(s) \in Nat \ {0} /\ DOMAIN s = 1 .. Len(s) /\ Head(s) = s[1]
  BY HeadTailProperties, LenProperties, EmptySeq
<1>2. /\ Tail(s) \in Seq(S) /\ Len(Tail(s)) = Len(s) - 1
      /\ \A i \in 1 .. Len(Tail(s)) : Tail(s)[i] = s[i + 1]
  BY HeadTailProperties
<1>3. DOMAIN Tail(s) = 1 .. (Len(s) - 1)
  BY <1>2, LenProperties
<1>4. QED
  BY <1>1, <1>2, <1>3

\* The last of a queue stays the last.
LEMMA LastOfTail ==
    ASSUME NEW S, NEW s \in Seq(S), s # <<>>
    PROVE  /\ Tail(s) = <<>> => Len(s) = 1
           /\ Tail(s) # <<>> => Tail(s)[Len(Tail(s))] = s[Len(s)]
<1>1. PICK n : n = Len(s)
  OBVIOUS
<1>2. PICK r : r = Tail(s)
  OBVIOUS
<1>3. /\ n \in Nat \ {0} /\ r \in Seq(S) /\ Len(r) = n - 1
      /\ \A i \in 1 .. Len(r) : r[i] = s[i + 1]
  BY <1>1, <1>2, TailView, HeadTailProperties
<1>4. r = <<>> <=> n = 1
  BY <1>3, EmptySeq
<1>5. ASSUME n # 1 PROVE r[Len(r)] = s[n]
  <2>1. Len(r) \in 1 .. Len(r) /\ Len(r) + 1 = n
    BY <1>3, <1>5
  <2>2. QED
    BY <1>3, <2>1
<1>6. QED
  BY <1>1, <1>2, <1>4, <1>5

\* A queue to which something is added.
LEMMA AppendView ==
    ASSUME NEW S, NEW s \in Seq(S), NEW e \in S
    PROVE  /\ Len(s) \in Nat /\ DOMAIN s = 1 .. Len(s)
           /\ Append(s, e) \in Seq(S) /\ Len(Append(s, e)) = Len(s) + 1
           /\ DOMAIN Append(s, e) = 1 .. (Len(s) + 1)
           /\ \A i \in DOMAIN s : i \in DOMAIN Append(s, e) /\ Append(s, e)[i] = s[i]
           /\ Append(s, e)[Len(s) + 1] = e
           /\ \A i \in DOMAIN Append(s, e) : i \in DOMAIN s \/ i = Len(s) + 1
<1>1. Len(s) \in Nat /\ DOMAIN s = 1 .. Len(s)
  BY LenProperties
<1>2. /\ Append(s, e) \in Seq(S) /\ Len(Append(s, e)) = Len(s) + 1
      /\ \A i \in 1 .. Len(s) : Append(s, e)[i] = s[i]
      /\ Append(s, e)[Len(s) + 1] = e
  BY AppendProperties
<1>3. DOMAIN Append(s, e) = 1 .. (Len(s) + 1)
  BY <1>2, LenProperties
<1>4. QED
  BY <1>1, <1>2, <1>3

\* What is in the queues of a worker.
LEMMA Queued ==
    ASSUME TypeOK, NEW w \in Workers
    PROVE  /\ down[w] \in Seq(Calls) /\ up[w] \in Seq(Message) /\ unsent[w] \in Seq({"started", "ended"})
           /\ \A i \in DOMAIN down[w] : down[w][i] \in Calls
           /\ \A i \in DOMAIN up[w] : up[w][i] \in Message
           /\ \A i \in DOMAIN unsent[w] : unsent[w][i] \in {"started", "ended"}
<1>1. down[w] \in Seq(Calls) /\ up[w] \in Seq(Message) /\ unsent[w] \in Seq({"started", "ended"})
  BY DEF TypeOK
<1>2. QED
  BY <1>1, LenProperties, ElementOfSeq

\* The fields of a message depend on what it is.
LEMMA MessageKinds ==
    ASSUME NEW m \in Message
    PROVE  /\ m.type \in {"hello", "status", "result", "event"}
           /\ m.type = "hello" => m.calibrating \in BOOLEAN
           /\ m.type = "result" => m.call \in Calls /\ m.ok \in BOOLEAN
           /\ m.type = "event" => m.event \in {"started", "ended"}
BY DEF Message

\* A call's state changes, and nothing else of it.
LEMMA StateWritten ==
    ASSUME TypeOK, NEW c \in Calls, call[c] \in CallRecord,
           NEW s \in {"waiting", "ok", "refused", "offline", "over"},
           call' = [call EXCEPT ![c].state = s]
    PROVE  /\ call'[c] # None /\ call'[c].to = call[c].to /\ call'[c].action = call[c].action
           /\ call'[c].by = call[c].by /\ (call'[c].open <=> call[c].open)
           /\ (call'[c].was <=> call[c].was) /\ call'[c].state = s
           /\ \A d \in Calls \ {c} : call'[d] = call[d]
<1>1. call'[c] = [call[c] EXCEPT !.state = s] /\ \A d \in Calls \ {c} : call'[d] = call[d]
  BY DEF TypeOK
<1>2. call'[c] \in CallRecord
  BY <1>1 DEF CallRecord
<1>3. call'[c] # None
  BY <1>2, NoneAssumption
<1>4. /\ call'[c].to = call[c].to /\ call'[c].action = call[c].action
      /\ call'[c].by = call[c].by /\ (call'[c].open <=> call[c].open)
      /\ (call'[c].was <=> call[c].was) /\ call'[c].state = s
  BY <1>1 DEF CallRecord
<1>5. QED
  BY <1>1, <1>3, <1>4

----------------------------------------------------------------------------
(* The mark of a connected worker *)

\* A message that says whether its worker calibrates, and what it says.
IsWord(m) == m.type \in {"hello", "event"}

Says(m) == IF m.type = "hello" THEN m.calibrating ELSE m.event = "started"

\* A word of the worker is on its way.
Unheard(w) == unsent[w] # <<>> \/ \E i \in DOMAIN up[w] : IsWord(up[w][i])

\* The last word on the way says what the worker does now.
LastWord(w) ==
    /\ unsent[w] # <<>> => (unsent[w][Len(unsent[w])] = "started" <=> w \in live)
    /\ unsent[w] = <<>> =>
          \A i \in DOMAIN up[w] :
              IsWord(up[w][i]) /\ (\A j \in DOMAIN up[w] : j > i => ~IsWord(up[w][j]))
              => (Says(up[w][i]) <=> w \in live)

\* The call c is a start on the current session of w.
StartOf(c, w) ==
    call[c] # None /\ call[c].action = "start" /\ call[c].open /\ call[c].to = w

\* Once every word is heard, a mark that is no guess is right, and so is the one
\* that a refused start puts back.
Told(w) ==
    ~Unheard(w) =>
        /\ w \notin guess => (mark[w] <=> w \in live)
        /\ \A c \in sure : StartOf(c, w) => (call[c].was <=> w \in live)

Mute == \A w \in Workers \ link : unsent[w] = <<>>

Worded == \A w \in link : LastWord(w) /\ Told(w)

\* The inductive invariant behind MarkAgrees.
WordInv == TypeOK /\ Mute /\ Worded

\* A step that says nothing new of w.
LEMMA NoNews ==
    ASSUME NEW w \in Workers, LastWord(w), Told(w),
           up'[w] = up[w], unsent'[w] = unsent[w], w \in live' <=> w \in live,
           w \in guess' <=> w \in guess, mark'[w] = mark[w],
           \A c \in sure' : StartOf(c, w)' => c \in sure /\ StartOf(c, w) /\ (call'[c].was <=> call[c].was)
    PROVE  LastWord(w)' /\ Told(w)'
<1>1. LastWord(w)'
  BY DEF LastWord
<1>2. Unheard(w)' <=> Unheard(w)
  BY DEF Unheard
<1>3. Told(w)'
  BY <1>2 DEF Told
<1>4. QED
  BY <1>1, <1>3

\* A call that stays what it was, and as sure as it was.
LEMMA SameStart ==
    ASSUME NEW c \in Calls, NEW w \in Workers, call'[c] = call[c]
    PROVE  (StartOf(c, w)' <=> StartOf(c, w)) /\ (call'[c].was <=> call[c].was)
BY DEF StartOf

\* A command is sent: a start makes the mark a guess, and knows whether it was
\* one before.
LEMMA SendWords ==
    ASSUME WordInv, TypeOK', NEW c \in Calls, NEW w \in Workers,
           NEW action \in {"start", "stop", "grow"}, NEW by \in {"tick", "admin", "planner"},
           Send(c, w, action, by), UNCHANGED nodeVars
    PROVE  WordInv'
<1>1. /\ call'[c] = [to |-> w, action |-> action, by |-> by, was |-> mark[w],
                     open |-> TRUE, state |-> "waiting"]
      /\ \A d \in Calls \ {c} : call'[d] = call[d]
  BY DEF Send, WordInv, TypeOK
<1>2. Mute'
  BY DEF Send, nodeVars, WordInv, Mute
<1>3. ASSUME NEW v \in link
      PROVE  LastWord(v)' /\ Told(v)'
  <2>1. LastWord(v) /\ Told(v) /\ v \in Workers
    BY DEF WordInv, Worded, TypeOK
  <2>2. UNCHANGED <<up, unsent, live>>
    BY DEF Send, nodeVars
  <2>3. LastWord(v)' /\ (Unheard(v)' <=> Unheard(v))
    BY <2>1, <2>2 DEF LastWord, Unheard
  <2>4. v \notin guess' => v \notin guess /\ mark'[v] = mark[v]
    BY <2>1 DEF Send, Marked, WordInv, TypeOK
  <2>5. ASSUME ~Unheard(v), NEW d \in sure', StartOf(d, v)'
        PROVE  call'[d].was <=> v \in live
    <3>1. CASE d = c
      <4>1. v = w /\ w \notin guess
        BY <1>1, <2>5, <3>1 DEF StartOf, Send
      <4>2. call'[d].was <=> mark[v]
        BY <1>1, <3>1, <4>1
      <4>3. QED
        BY <2>1, <2>5, <4>1, <4>2 DEF Told
    <3>2. CASE d # c
      <4>1. d \in Calls /\ d \in sure /\ call'[d] = call[d]
        BY <1>1, <2>5, <3>2 DEF Send, WordInv, TypeOK
      <4>2. StartOf(d, v) /\ (call'[d].was <=> call[d].was)
        BY <2>1, <2>5, <4>1, SameStart
      <4>3. QED
        BY <2>1, <2>5, <4>1, <4>2 DEF Told
    <3>3. QED
      BY <3>1, <3>2
  <2>6. Told(v)'
    BY <2>1, <2>2, <2>3, <2>4, <2>5 DEF Told
  <2>7. QED
    BY <2>3, <2>6
<1>4. Worded'
  BY <1>3 DEF Send, Worded
<1>5. QED
  BY <1>2, <1>4 DEF WordInv

\* A call ends: a refused start that was sure puts the worker's word back.
LEMMA ReturnWords ==
    ASSUME WordInv, TypeOK', NEW c \in Calls, call[c] # None, NEW outcome, Return(c, outcome)
    PROVE  WordInv'
<1>1. call[c] \in CallRecord
  BY DEF WordInv, TypeOK
<1>2. /\ call'[c] # None /\ call'[c].to = call[c].to /\ call'[c].action = call[c].action
      /\ \A d \in Calls \ {c} : call'[d] = call[d]
  BY <1>1, StateWritten DEF Return, WordInv
<1>3. Mute'
  BY DEF Return, wireVars, nodeVars, WordInv, Mute
<1>4. ASSUME NEW v \in link
      PROVE  LastWord(v)' /\ Told(v)'
  <2>1. LastWord(v) /\ Told(v) /\ v \in Workers
    BY DEF WordInv, Worded, TypeOK
  <2>2. UNCHANGED <<up, unsent, live>>
    BY DEF Return, wireVars, nodeVars
  <2>3. LastWord(v)' /\ (Unheard(v)' <=> Unheard(v))
    BY <2>1, <2>2 DEF LastWord, Unheard
  <2>4. ASSUME NEW d \in sure', StartOf(d, v)'
        PROVE  d \in sure /\ StartOf(d, v) /\ (call'[d].was <=> call[d].was)
    <3>1. d \in sure /\ d # c /\ d \in Calls
      BY <2>4 DEF Return, WordInv, TypeOK
    <3>2. call'[d] = call[d]
      BY <1>2, <3>1
    <3>3. QED
      BY <2>1, <2>4, <3>1, <3>2, SameStart
  <2>5. CASE call[c].action = "start" /\ outcome = "refused" /\ call[c].open /\ call[c].to = v
    <3>1. mark'[v] = call[c].was
      BY <2>1, <2>5 DEF Return, Unmarked, WordInv, TypeOK
    <3>2. v \notin guess' => c \in sure
      BY <2>5 DEF Return, Guessed
    <3>3. StartOf(c, v)
      BY <2>5 DEF StartOf
    <3>4. ~Unheard(v) /\ v \notin guess' => (mark'[v] <=> v \in live)
      BY <2>1, <3>1, <3>2, <3>3 DEF Told
    <3>5. Told(v)'
      BY <2>1, <2>2, <2>3, <2>4, <3>4 DEF Told
    <3>6. QED
      BY <2>3, <3>5
  <2>6. CASE ~(call[c].action = "start" /\ outcome = "refused" /\ call[c].open /\ call[c].to = v)
    <3>1. mark'[v] = mark[v]
      BY <1>1, <2>1, <2>6 DEF Return, Unmarked, WordInv, TypeOK
    <3>2. v \in guess' <=> v \in guess
      BY <2>6 DEF Return, Guessed
    <3>3. QED
      BY <2>1, <2>2, <2>4, <3>1, <3>2, NoNews
  <2>7. QED
    BY <2>5, <2>6
<1>5. Worded'
  BY <1>4 DEF Return, wireVars, Worded
<1>6. QED
  BY <1>3, <1>5 DEF WordInv

\* A message is read: the last word makes the mark right.
LEMMA ReceiveWords ==
    ASSUME WordInv, TypeOK', NEW w \in Workers, Receive(w)
    PROVE  WordInv'
<1> DEFINE m == Head(up[w])
<1>1. up[w] # <<>> /\ up[w] \in Seq(Message) /\ up' = [up EXCEPT ![w] = Tail(@)]
  BY DEF Receive, WordInv, TypeOK
<1>2. /\ DOMAIN up[w] = 1 .. Len(up[w]) /\ Len(up[w]) \in Nat \ {0} /\ m = up[w][1]
      /\ \A i \in DOMAIN Tail(up[w]) : i \in Nat \ {0} /\ i + 1 \in DOMAIN up[w]
                                       /\ Tail(up[w])[i] = up[w][i + 1]
      /\ \A i \in DOMAIN up[w] : i # 1 => i - 1 \in DOMAIN Tail(up[w])
                                          /\ Tail(up[w])[i - 1] = up[w][i]
  BY <1>1, TailView
<1>3. m \in Message
  BY <1>1, <1>2, HeadTailProperties
<1>4. up'[w] = Tail(up[w]) /\ \A v \in Workers \ {w} : up'[v] = up[v]
  BY <1>1 DEF WordInv, TypeOK
<1>5. UNCHANGED <<link, unsent, live>>
  BY DEF Receive, nodeVars
<1>6. Mute'
  BY <1>5 DEF WordInv, Mute
<1>7. ASSUME NEW c \in Calls, NEW v \in Workers
      PROVE  /\ StartOf(c, v)' <=> StartOf(c, v)
             /\ StartOf(c, v) => (call'[c].was <=> call[c].was)
  <2>1. CASE UNCHANGED call
    BY <2>1 DEF StartOf
  <2>2. CASE m.type = "result" /\ OnResult(m)
    <3>1. m.call \in Calls
      BY <1>3, <2>2, MessageKinds
    <3>2. CASE call[m.call] # None /\ call[m.call].state = "waiting"
      <4>1. call[m.call] \in CallRecord
        BY <3>1, <3>2 DEF WordInv, TypeOK
      <4>2. PICK s \in {"ok", "refused"} : call' = [call EXCEPT ![m.call].state = s]
        BY <2>2, <3>2 DEF OnResult
      <4>3. CASE c = m.call
        BY <3>1, <3>2, <4>1, <4>2, <4>3, StateWritten DEF StartOf, WordInv
      <4>4. CASE c # m.call
        <5>1. call'[c] = call[c]
          BY <4>2, <4>4 DEF WordInv, TypeOK
        <5>2. QED
          BY <5>1, SameStart
      <4>5. QED
        BY <4>3, <4>4
    <3>3. CASE ~(call[m.call] # None /\ call[m.call].state = "waiting")
      BY <2>2, <3>3 DEF OnResult, StartOf
    <3>4. QED
      BY <3>2, <3>3
  <2>3. QED
    BY <2>1, <2>2 DEF Receive, OnEvent
<1>8. sure' \subseteq sure /\ sure' \subseteq Calls
  BY DEF Receive, Heard, WordInv, TypeOK
<1>9. ASSUME NEW v \in link, v # w
      PROVE  LastWord(v)' /\ Told(v)'
  <2>1. LastWord(v) /\ Told(v) /\ v \in Workers
    BY DEF WordInv, Worded, TypeOK
  <2>2. mark'[v] = mark[v] /\ (v \in guess' <=> v \in guess)
    BY <1>9, <2>1 DEF Receive, OnEvent, OnResult, Heard, WordInv, TypeOK
  <2>3. QED
    BY <1>4, <1>5, <1>7, <1>8, <1>9, <2>1, <2>2, NoNews
<1>10. ASSUME w \in link
       PROVE  LastWord(w)' /\ Told(w)'
  <2>1. LastWord(w) /\ Told(w)
    BY <1>10 DEF WordInv, Worded
  <2>2. ASSUME unsent[w] = <<>>, NEW i \in DOMAIN up'[w], IsWord(up'[w][i]),
               \A j \in DOMAIN up'[w] : j > i => ~IsWord(up'[w][j])
        PROVE  Says(up'[w][i]) <=> w \in live
    <3>1. i + 1 \in DOMAIN up[w] /\ up'[w][i] = up[w][i + 1] /\ i \in Nat \ {0}
      BY <1>2, <1>4, <2>2
    <3>2. ASSUME NEW j \in DOMAIN up[w], j > i + 1 PROVE ~IsWord(up[w][j])
      <4>1. j # 1 /\ j \in Nat
        BY <1>2, <3>1, <3>2
      <4>2. j - 1 \in DOMAIN up'[w] /\ up'[w][j - 1] = up[w][j]
        BY <1>2, <1>4, <4>1
      <4>3. j - 1 > i
        BY <3>1, <3>2, <4>1
      <4>4. QED
        BY <2>2, <4>2, <4>3
    <3>3. QED
      BY <2>1, <2>2, <3>1, <3>2 DEF LastWord
  <2>3. LastWord(w)'
    BY <1>5, <2>1, <2>2 DEF LastWord
  <2>4. CASE IsWord(m)
    <3>1. /\ mark' = [mark EXCEPT ![w] = Says(m)] /\ Heard(w)
      BY <2>4 DEF IsWord, Says, Receive, OnEvent
    <3>2. mark'[w] = Says(m)
      BY <3>1 DEF WordInv, TypeOK
    <3>3. ASSUME ~Unheard(w)'
          PROVE  Says(m) <=> w \in live
      <4>1. unsent[w] = <<>> /\ \A i \in DOMAIN up'[w] : ~IsWord(up'[w][i])
        BY <1>5, <3>3 DEF Unheard
      <4>2. ASSUME NEW j \in DOMAIN up[w], j > 1 PROVE ~IsWord(up[w][j])
        <5>1. j - 1 \in DOMAIN up'[w] /\ up'[w][j - 1] = up[w][j]
          BY <1>2, <1>4, <4>2
        <5>2. QED
          BY <4>1, <5>1
      <4>3. 1 \in DOMAIN up[w]
        BY <1>2
      <4>4. QED
        BY <1>2, <2>1, <2>4, <4>1, <4>2, <4>3 DEF LastWord
    <3>4. ASSUME NEW c \in sure', StartOf(c, w)' PROVE FALSE
      <4>1. c \in Calls /\ StartOf(c, w)
        BY <1>7, <1>8, <3>4
      <4>2. call[c].to # w
        BY <3>1, <3>4 DEF Heard
      <4>3. QED
        BY <4>1, <4>2 DEF StartOf
    <3>5. Told(w)'
      BY <1>5, <3>2, <3>3, <3>4 DEF Told
    <3>6. QED
      BY <2>3, <3>5
  <2>5. CASE ~IsWord(m)
    <3>1. UNCHANGED <<guess, sure, mark>>
      BY <2>5 DEF IsWord, Receive, OnResult
    <3>2. ASSUME Unheard(w), unsent[w] = <<>> PROVE Unheard(w)'
      <4>1. PICK i \in DOMAIN up[w] : IsWord(up[w][i])
        BY <3>2 DEF Unheard
      <4>2. i # 1
        BY <1>2, <2>5, <4>1
      <4>3. i - 1 \in DOMAIN up'[w] /\ up'[w][i - 1] = up[w][i]
        BY <1>2, <1>4, <4>2
      <4>4. QED
        BY <4>1, <4>3 DEF Unheard
    <3>3. Unheard(w) => Unheard(w)'
      BY <1>5, <3>2 DEF Unheard
    <3>4. ASSUME ~Unheard(w)', NEW c \in sure', StartOf(c, w)'
          PROVE  call'[c].was <=> w \in live
      <4>1. c \in Calls /\ StartOf(c, w) /\ (call'[c].was <=> call[c].was) /\ c \in sure
        BY <1>7, <1>8, <3>4
      <4>2. QED
        BY <2>1, <3>3, <3>4, <4>1 DEF Told
    <3>5. Told(w)'
      BY <1>5, <2>1, <3>1, <3>3, <3>4 DEF Told
    <3>6. QED
      BY <2>3, <3>5
  <2>6. QED
    BY <2>4, <2>5
<1>11. Worded'
  BY <1>5, <1>9, <1>10 DEF Worded
<1>12. QED
  BY <1>6, <1>11 DEF WordInv

\* A step of the worker w: to what is on its way it adds nothing, an answer, or
\* its oldest event; or its session begins or ends and the event is recorded.
Adds(w, m) == w \in link /\ up' = [up EXCEPT ![w] = Append(@, m)]

SessionStep(w) ==
    /\ UNCHANGED <<regVars, link, guess, sure>>
    /\ \/ up' = up
       \/ \E m \in Message : ~IsWord(m) /\ Adds(w, m)
    /\ \/ UNCHANGED <<live, unsent>>
       \/ \E e \in {"started", "ended"} :
            /\ live' = IF e = "started" THEN live \cup {w} ELSE live \ {w}
            /\ unsent' = IF w \in link THEN [unsent EXCEPT ![w] = Append(@, e)] ELSE unsent

\* The steps of a worker that neither read nor forward.
Worked(w) ==
    \/ StartAccepted(w) \/ StartRefused(w) \/ GrowBegins(w) \/ GrowRefused(w)
    \/ StopBegins(w) \/ BusyEnds(w) \/ StartRefusedUnhealthy(w) \/ SessionEnds(w)

LEMMA SessionSteps ==
    ASSUME TypeOK, NEW w \in Workers, Worked(w)
    PROVE  SessionStep(w)
<1>1. ASSUME NEW c \in Calls, NEW ok \in BOOLEAN, Reply(w, c, ok)
      PROVE  up' = up \/ \E m \in Message : ~IsWord(m) /\ Adds(w, m)
  <2>1. Result(c, ok) \in Message /\ ~IsWord(Result(c, ok))
    BY Messages DEF Result, IsWord
  <2>2. QED
    BY <1>1, <2>1 DEF Reply, Adds
<1>2. CASE StartAccepted(w)
  <2>1. Head(down[w]) \in Calls
    BY <1>2, NextCommandType DEF StartAccepted
  <2>2. live' = live \cup {w}
        /\ unsent' = IF w \in link THEN [unsent EXCEPT ![w] = Append(@, "started")] ELSE unsent
    BY <1>2 DEF StartAccepted, Record
  <2>3. QED
    BY <1>1, <1>2, <2>1, <2>2 DEF StartAccepted, SessionStep, histVars
<1>3. CASE StartRefused(w) \/ GrowRefused(w) \/ StartRefusedUnhealthy(w)
  <2>1. Head(down[w]) \in Calls
    BY <1>3, NextCommandType DEF StartRefused, GrowRefused, StartRefusedUnhealthy
  <2>2. QED
    BY <1>1, <1>3, <2>1
       DEF StartRefused, GrowRefused, StartRefusedUnhealthy, SessionStep, nodeVars, histVars
<1>4. CASE GrowBegins(w) \/ StopBegins(w)
  BY <1>4 DEF GrowBegins, StopBegins, SessionStep, histVars
<1>5. CASE BusyEnds(w)
  <2>1. busy[w] \in Calls
    BY <1>5 DEF BusyEnds, TypeOK
  <2>2. QED
    BY <1>1, <1>5, <2>1 DEF BusyEnds, SessionStep, histVars
<1>6. CASE SessionEnds(w)
  <2>1. live' = live \ {w}
        /\ unsent' = IF w \in link THEN [unsent EXCEPT ![w] = Append(@, "ended")] ELSE unsent
    BY <1>6 DEF SessionEnds, Record
  <2>2. QED
    BY <1>6, <2>1 DEF SessionEnds, SessionStep, wireVars
<1>7. QED
  BY <1>2, <1>3, <1>4, <1>5, <1>6 DEF Worked

LEMMA SessionStepWords ==
    ASSUME WordInv, TypeOK', NEW w \in Workers, SessionStep(w)
    PROVE  WordInv'
<1>1. Mute'
  BY DEF SessionStep, WordInv, Mute, TypeOK
<1>2. \A c \in Calls, v \in Workers : StartOf(c, v)' <=> StartOf(c, v)
  BY DEF SessionStep, regVars, StartOf
<1>3. ASSUME NEW v \in link, v # w
      PROVE  LastWord(v)' /\ Told(v)'
  <2>1. LastWord(v) /\ Told(v) /\ v \in Workers
    BY DEF WordInv, Worded, TypeOK
  <2>2. up'[v] = up[v] /\ unsent'[v] = unsent[v] /\ (v \in live' <=> v \in live)
    BY <1>3, <2>1 DEF SessionStep, Adds, WordInv, TypeOK
  <2>3. QED
    BY <1>2, <2>1, <2>2, NoNews DEF SessionStep, regVars, WordInv, TypeOK
<1>4. ASSUME w \in link
      PROVE  LastWord(w)' /\ Told(w)'
  <2>1. LastWord(w) /\ Told(w)
    BY <1>4 DEF WordInv, Worded
  <2>2. CASE UNCHANGED <<live, unsent>>
    <3>1. CASE up' = up
      BY <1>2, <2>1, <2>2, <3>1, NoNews DEF SessionStep, regVars, WordInv, TypeOK
    <3>2. CASE \E m \in Message : ~IsWord(m) /\ Adds(w, m)
      <4>1. PICK m \in Message : ~IsWord(m) /\ up' = [up EXCEPT ![w] = Append(@, m)]
        BY <3>2 DEF Adds
      <4>2. up[w] \in Seq(Message) /\ up'[w] = Append(up[w], m)
        BY <4>1 DEF WordInv, TypeOK
      <4>3. /\ Len(up[w]) \in Nat /\ DOMAIN up[w] = 1 .. Len(up[w])
            /\ \A i \in DOMAIN up[w] : i \in DOMAIN up'[w] /\ up'[w][i] = up[w][i]
            /\ up'[w][Len(up[w]) + 1] = m
            /\ \A i \in DOMAIN up'[w] : i \in DOMAIN up[w] \/ i = Len(up[w]) + 1
        BY <4>2, AppendView
      <4>4. \A i \in DOMAIN up'[w] : IsWord(up'[w][i])
              => i \in DOMAIN up[w] /\ up'[w][i] = up[w][i]
        BY <4>1, <4>3
      <4>5. LastWord(w)'
        BY <2>1, <2>2, <4>3, <4>4 DEF LastWord
      <4>6. Unheard(w) => Unheard(w)'
        BY <2>2, <4>3 DEF Unheard
      <4>7. Told(w)'
        BY <1>2, <2>1, <2>2, <4>6 DEF Told, SessionStep, regVars, WordInv, TypeOK
      <4>8. QED
        BY <4>5, <4>7
    <3>3. QED
      BY <3>1, <3>2 DEF SessionStep
  <2>3. ASSUME NEW e \in {"started", "ended"},
               live' = IF e = "started" THEN live \cup {w} ELSE live \ {w},
               unsent' = [unsent EXCEPT ![w] = Append(@, e)]
        PROVE  LastWord(w)' /\ Told(w)'
    <3>1. unsent[w] \in Seq({"started", "ended"}) /\ unsent'[w] = Append(unsent[w], e)
      BY <2>3 DEF WordInv, TypeOK
    <3>2. /\ Len(unsent'[w]) = Len(unsent[w]) + 1 /\ Len(unsent[w]) \in Nat
          /\ unsent'[w][Len(unsent[w]) + 1] = e
      BY <3>1, AppendView
    <3>3. unsent'[w] # <<>>
      BY <3>2, EmptySeq
    <3>4. Unheard(w)'
      BY <3>3 DEF Unheard
    <3>5. (e = "started") <=> w \in live'
      BY <2>3
    <3>6. LastWord(w)'
      BY <3>2, <3>3, <3>5 DEF LastWord
    <3>7. QED
      BY <3>4, <3>6 DEF Told
  <2>4. QED
    BY <1>4, <2>2, <2>3 DEF SessionStep
<1>5. Worded'
  BY <1>3, <1>4 DEF Worded, SessionStep
<1>6. QED
  BY <1>1, <1>5 DEF WordInv

\* An event is forwarded: it is the last word if no other waits behind it.
LEMMA ForwardWords ==
    ASSUME WordInv, TypeOK', NEW w \in Workers, EventForwarded(w)
    PROVE  WordInv'
<1> DEFINE e == Head(unsent[w])
<1>1. /\ w \in link /\ unsent[w] # <<>> /\ unsent[w] \in Seq({"started", "ended"})
      /\ up' = [up EXCEPT ![w] = Append(@, Event(e))]
      /\ unsent' = [unsent EXCEPT ![w] = Tail(@)]
      /\ UNCHANGED <<regVars, link, live, guess, sure>>
  BY DEF EventForwarded, WordInv, TypeOK, histVars
<1>2. /\ Len(unsent[w]) \in Nat \ {0} /\ e = unsent[w][1] /\ e \in {"started", "ended"}
      /\ Tail(unsent[w]) \in Seq({"started", "ended"})
      /\ Len(Tail(unsent[w])) = Len(unsent[w]) - 1
      /\ \A i \in 1 .. Len(Tail(unsent[w])) : Tail(unsent[w])[i] = unsent[w][i + 1]
  BY <1>1, HeadTailProperties, TailView
<1>3. /\ Tail(unsent[w]) = <<>> => Len(unsent[w]) = 1
      /\ Tail(unsent[w]) # <<>>
           => Tail(unsent[w])[Len(Tail(unsent[w]))] = unsent[w][Len(unsent[w])]
  BY <1>1, LastOfTail
<1>4. Mute'
  BY <1>1 DEF WordInv, Mute, TypeOK
<1>5. \A c \in Calls, v \in Workers : StartOf(c, v)' <=> StartOf(c, v)
  BY <1>1 DEF regVars, StartOf
<1>6. ASSUME NEW v \in link, v # w
      PROVE  LastWord(v)' /\ Told(v)'
  <2>1. LastWord(v) /\ Told(v) /\ v \in Workers
    BY DEF WordInv, Worded, TypeOK
  <2>2. up'[v] = up[v] /\ unsent'[v] = unsent[v]
    BY <1>1, <1>6, <2>1 DEF WordInv, TypeOK
  <2>3. QED
    BY <1>1, <1>5, <2>1, <2>2, NoNews DEF regVars, WordInv, TypeOK
<1>7. LastWord(w)' /\ Told(w)'
  <2>1. LastWord(w)
    BY <1>1 DEF WordInv, Worded
  <2>2. up[w] \in Seq(Message) /\ up'[w] = Append(up[w], Event(e)) /\ Event(e) \in Message
    BY <1>1, <1>2, Messages DEF WordInv, TypeOK
  <2>3. /\ Len(up[w]) \in Nat /\ DOMAIN up[w] = 1 .. Len(up[w])
        /\ DOMAIN up'[w] = 1 .. (Len(up[w]) + 1)
        /\ up'[w][Len(up[w]) + 1] = Event(e)
    BY <2>2, AppendView
  <2>4. Event(e).type = "event" /\ Event(e).event = e
    BY DEF Event
  <2>5. IsWord(Event(e)) /\ (Says(Event(e)) <=> e = "started")
    BY <2>4 DEF IsWord, Says
  <2>6. Unheard(w)'
    BY <2>3, <2>5 DEF Unheard
  <2>7. unsent'[w] = Tail(unsent[w])
    BY <1>1 DEF WordInv, TypeOK
  <2>8. ASSUME unsent'[w] # <<>>
        PROVE  unsent'[w][Len(unsent'[w])] = "started" <=> w \in live'
    <3>1. unsent'[w][Len(unsent'[w])] = unsent[w][Len(unsent[w])]
      BY <1>3, <2>7, <2>8
    <3>2. QED
      BY <1>1, <2>1, <3>1 DEF LastWord
  <2>9. ASSUME unsent'[w] = <<>>, NEW i \in DOMAIN up'[w],
               \A j \in DOMAIN up'[w] : j > i => ~IsWord(up'[w][j])
        PROVE  Says(up'[w][i]) <=> w \in live'
    <3>1. Len(unsent[w]) = 1
      BY <1>3, <2>7, <2>9
    <3>2. e = "started" <=> w \in live
      BY <1>1, <1>2, <2>1, <3>1 DEF LastWord
    <3>3. i = Len(up[w]) + 1
      <4>1. Len(up[w]) + 1 \in DOMAIN up'[w] /\ i \in 1 .. (Len(up[w]) + 1)
        BY <2>3, <2>9
      <4>2. ~(Len(up[w]) + 1 > i)
        BY <2>3, <2>5, <2>9, <4>1
      <4>3. QED
        BY <2>3, <4>1, <4>2
    <3>4. QED
      BY <1>1, <2>3, <2>5, <3>2, <3>3
  <2>10. LastWord(w)'
    BY <2>8, <2>9 DEF LastWord
  <2>11. QED
    BY <2>6, <2>10 DEF Told
<1>8. Worded'
  BY <1>1, <1>6, <1>7 DEF Worded
<1>9. QED
  BY <1>4, <1>8 DEF WordInv

\* A break takes the worker off the link, a connection begins with its word.
LEMMA FaultWords ==
    ASSUME WordInv, TypeOK', NEW w \in Workers,
           LinkBreaks(w) \/ Crash(w) \/ Detach(w) \/ Connect(w)
    PROVE  WordInv'
<1>1. /\ link' \in {link, link \ {w}, link \cup {w}}
      /\ w \notin link' => unsent'[w] = <<>>
      /\ \A v \in Workers \ {w} :
            /\ up'[v] = up[v] /\ unsent'[v] = unsent[v] /\ (v \in live' <=> v \in live)
            /\ mark'[v] = mark[v] /\ (v \in guess' <=> v \in guess)
  <2>1. CASE LinkBreaks(w) \/ Crash(w)
    BY <2>1 DEF LinkBreaks, Crash, regVars, WordInv, TypeOK
  <2>2. CASE Detach(w)
    BY <2>2 DEF Detach, Heard, wireVars, nodeVars, WordInv, TypeOK, Mute
  <2>3. CASE Connect(w)
    BY <2>3 DEF Connect, Heard, nodeVars, WordInv, TypeOK
  <2>4. QED
    BY <2>1, <2>2, <2>3
<1>2. Mute'
  BY <1>1 DEF WordInv, Mute
<1>3. ASSUME NEW v \in link', v # w
      PROVE  LastWord(v)' /\ Told(v)'
  <2>1. LastWord(v) /\ Told(v) /\ v \in Workers
    BY <1>1, <1>3 DEF WordInv, Worded, TypeOK
  <2>2. ASSUME NEW c \in sure', StartOf(c, v)'
        PROVE  c \in sure /\ StartOf(c, v) /\ (call'[c].was <=> call[c].was)
    <3>1. c \in sure /\ c \in Calls
      BY <2>2 DEF LinkBreaks, Crash, Detach, Connect, Heard, WordInv, TypeOK
    <3>2. CASE UNCHANGED call
      BY <2>1, <2>2, <3>1, <3>2, SameStart
    <3>3. CASE Detach(w) \/ Connect(w)
      <4>1. PICK answer \in BOOLEAN : call' = Orphaned(w, answer)
        BY <3>3 DEF Detach, Connect
      <4>2. call[c] # None /\ call[c].to = v
        BY <2>2, <3>1, <4>1, OrphanedKeepsCall DEF StartOf, WordInv
      <4>3. call'[c] = call[c]
        BY <1>3, <3>1, <4>1, <4>2 DEF Orphaned
      <4>4. QED
        BY <2>1, <2>2, <3>1, <4>3, SameStart
    <3>4. QED
      BY <3>2, <3>3 DEF LinkBreaks, Crash, regVars
  <2>3. QED
    BY <1>1, <1>3, <2>1, <2>2, NoNews
<1>4. ASSUME w \in link'
      PROVE  LastWord(w)' /\ Told(w)'
  <2>1. Connect(w)
    BY <1>4 DEF LinkBreaks, Crash, Detach, wireVars, WordInv, TypeOK
  <2>2. up'[w] = <<Hello(w \in live), Status>> /\ unsent'[w] = <<>> /\ live' = live
    BY <2>1 DEF Connect, Greeting, nodeVars, WordInv, TypeOK, Mute
  <2>3. DOMAIN up'[w] = 1 .. 2 /\ up'[w][1] = Hello(w \in live) /\ up'[w][2] = Status
    BY <2>2
  <2>4. /\ Hello(w \in live).type = "hello" /\ Status.type = "status"
        /\ Hello(w \in live).calibrating = (w \in live)
    BY DEF Hello, Status
  <2>5. IsWord(up'[w][1]) /\ ~IsWord(up'[w][2]) /\ Says(up'[w][1]) = (w \in live)
    BY <2>3, <2>4 DEF IsWord, Says
  <2>6. Unheard(w)'
    BY <2>3, <2>5 DEF Unheard
  <2>7. ASSUME NEW i \in DOMAIN up'[w], IsWord(up'[w][i])
        PROVE  Says(up'[w][i]) <=> w \in live'
    <3>1. i = 1
      BY <2>3, <2>5, <2>7
    <3>2. QED
      BY <2>2, <2>5, <3>1
  <2>8. LastWord(w)'
    BY <2>2, <2>7 DEF LastWord
  <2>9. QED
    BY <2>6, <2>8 DEF Told
<1>5. Worded'
  BY <1>3, <1>4 DEF Worded
<1>6. QED
  BY <1>2, <1>5 DEF WordInv

\* Every step keeps the invariant.
LEMMA WordStep ==
    ASSUME WordInv, [Next]_vars
    PROVE  WordInv'
<1>1. TypeOK'
  BY TypeStep DEF WordInv
<1>2. ASSUME UNCHANGED <<mark, call, link, up, live, unsent, guess, sure>>
      PROVE  WordInv'
  BY <1>1, <1>2 DEF WordInv, Mute, Worded, LastWord, Told, Unheard, StartOf
<1>3. CASE Ticking
  <2>1. ASSUME NEW c \in Calls, TickStops(c)
        PROVE  WordInv'
    BY <1>1, <2>1, SendWords DEF TickStops, WordInv, TypeOK
  <2>2. ASSUME NEW c \in Calls, NEW w \in Workers, TickStarts(c, w)
        PROVE  WordInv'
    BY <1>1, <2>2, SendWords DEF TickStarts
  <2>3. CASE TickStartsNobody \/ TickStopFails \/ TickRests
    BY <1>2, <2>3
       DEF TickStartsNobody, TickStopFails, TickRests, regVars, wireVars, nodeVars, histVars
  <2>4. QED
    BY <1>3, <2>1, <2>2, <2>3 DEF Ticking
<1>4. CASE WindowTurns
  BY <1>2, <1>4 DEF WindowTurns, regVars, wireVars, nodeVars, histVars
<1>5. ASSUME NEW c \in Calls, Answered(c) \/ TimesOut(c)
      PROVE  WordInv'
  BY <1>1, <1>5, ReturnWords DEF Answered, TimesOut, Waiting
<1>6. ASSUME NEW w \in Workers, Receive(w)
      PROVE  WordInv'
  BY <1>1, <1>6, ReceiveWords
<1>7. ASSUME NEW w \in Workers, EventForwarded(w)
      PROVE  WordInv'
  BY <1>1, <1>7, ForwardWords
<1>8. ASSUME NEW w \in Workers, Worked(w)
      PROVE  WordInv'
  BY <1>1, <1>8, SessionSteps, SessionStepWords DEF WordInv
<1>9. ASSUME NEW w \in Workers, LinkBreaks(w) \/ Crash(w) \/ Detach(w) \/ Connect(w)
      PROVE  WordInv'
  BY <1>1, <1>9, FaultWords
<1>10. ASSUME NEW c \in Calls, NEW w \in Workers, PlannerGrows(c, w) \/ AdminStarts(c, w)
       PROVE  WordInv'
  BY <1>1, <1>10, SendWords DEF PlannerGrows, AdminStarts
<1>11. CASE UNCHANGED vars
  BY <1>2, <1>11 DEF vars, regVars, wireVars, nodeVars, histVars
<1>12. QED
  BY <1>3, <1>4, <1>5, <1>6, <1>7, <1>8, <1>9, <1>10, <1>11
     DEF Next, AdminNext, SteadyNext, TickingNext, Faults, Working, Worked

\* Whatever timed out, was refused, broke or died before: once nothing is on its
\* way from a connected worker, its mark says whether it calibrates, except where
\* a start put it there and the worker has not said anything since.
THEOREM MarksAgree == Spec => []MarkAgrees
<1>1. Init => WordInv
  BY TypeInit DEF Init, WordInv, Mute, Worded
<1>2. WordInv => MarkAgrees
  <2>1. SUFFICES ASSUME WordInv, NEW w \in link \ guess, up[w] = <<>>, unsent[w] = <<>>
                 PROVE  mark[w] <=> w \in live
    BY DEF MarkAgrees
  <2>2. ~Unheard(w)
    BY <2>1, EmptySeq, LenProperties DEF Unheard
  <2>3. QED
    BY <2>1, <2>2 DEF WordInv, Worded, Told
<1>3. QED
  BY <1>1, <1>2, WordStep, PTL DEF Spec

----------------------------------------------------------------------------
(* The slot and what it is held for *)

\* The start the tick sent to w.
TickStart(c, w) ==
    call[c] # None /\ call[c].by = "tick" /\ call[c].action = "start" /\ call[c].to = w

\* The slot is held for a session, or until an event arrives, or that was lost.
Reasoned(w) == slot = w => lost \/ w \in live \/ Ending(w)

\* What keeps a worker busy is not a start.
BusyOther == \A w \in Workers : busy[w] # None => call[busy[w]].action # "start"

\* A start that was accepted has begun its session, before the answer is read ...
Accepted ==
    \A v, w \in Workers : \A i \in DOMAIN up[v] :
        /\ up[v][i].type = "result" /\ up[v][i].ok
        /\ TickStart(up[v][i].call, w) /\ call[up[v][i].call].state = "waiting"
        => Reasoned(w)

\* ... and after it.
AcceptedRead ==
    \A c \in Calls, w \in Workers : TickStart(c, w) /\ call[c].state = "ok" => Reasoned(w)

\* Else the slot is held for a start that is not answered, or not with a yes.
Pending(c, w) == TickStart(c, w) /\ call[c].state \notin {"ok", "over"}

Held == \A w \in Workers : Reasoned(w) \/ \E c \in Calls : Pending(c, w)

\* The inductive invariant behind SlotHasReason.
SlotInv == HelloInv /\ BusyOther /\ Accepted /\ AcceptedRead /\ Held

\* A message or an event that is added covers no event up.
LEMMA AddedKeepsEnding ==
    ASSUME TypeOK, NEW v \in Workers, NEW w \in Workers, Ending(w),
           up' = up \/ \E m \in Message : up' = [up EXCEPT ![v] = Append(@, m)],
           unsent' = unsent \/ \E e \in {"started", "ended"} : unsent' = [unsent EXCEPT ![v] = Append(@, e)]
    PROVE  Ending(w)'
<1>1. CASE \E i \in DOMAIN unsent[w] : unsent[w][i] = "ended"
  <2>1. PICK i \in DOMAIN unsent[w] : unsent[w][i] = "ended"
    BY <1>1
  <2>2. i \in DOMAIN unsent'[w] /\ unsent'[w][i] = unsent[w][i]
    <3>1. CASE unsent'[w] = unsent[w]
      BY <3>1
    <3>2. ASSUME NEW e \in {"started", "ended"}, unsent'[w] = Append(unsent[w], e)
          PROVE  i \in DOMAIN unsent'[w] /\ unsent'[w][i] = unsent[w][i]
      BY <3>2, Queued, AppendView
    <3>3. QED
      BY <3>1, <3>2 DEF TypeOK
  <2>3. QED
    BY <2>1, <2>2 DEF Ending
<1>2. CASE \E i \in DOMAIN up[w] : up[w][i] = Event("ended")
  <2>1. PICK i \in DOMAIN up[w] : up[w][i] = Event("ended")
    BY <1>2
  <2>2. i \in DOMAIN up'[w] /\ up'[w][i] = up[w][i]
    <3>1. CASE up'[w] = up[w]
      BY <3>1
    <3>2. ASSUME NEW m \in Message, up'[w] = Append(up[w], m)
          PROVE  i \in DOMAIN up'[w] /\ up'[w][i] = up[w][i]
      BY <3>2, Queued, AppendView
    <3>3. QED
      BY <3>1, <3>2 DEF TypeOK
  <2>3. QED
    BY <2>1, <2>2 DEF Ending
<1>3. QED
  BY <1>1, <1>2 DEF Ending

\* An event that ends a session is passed on, not lost.
LEMMA ForwardKeepsEnding ==
    ASSUME TypeOK, NEW v \in Workers, NEW w \in Workers, Ending(w), EventForwarded(v)
    PROVE  Ending(w)'
<1>1. CASE v # w
  BY <1>1 DEF EventForwarded, Ending, TypeOK
<1>2. CASE v = w
  <2> DEFINE e == Head(unsent[w])
  <2>1. /\ unsent[w] # <<>> /\ unsent[w] \in Seq({"started", "ended"}) /\ up[w] \in Seq(Message)
        /\ up'[w] = Append(up[w], Event(e)) /\ unsent'[w] = Tail(unsent[w])
    BY <1>2, Queued DEF EventForwarded, TypeOK
  <2>2. /\ e = unsent[w][1] /\ e \in {"started", "ended"}
        /\ \A i \in DOMAIN unsent[w] : i # 1 => i - 1 \in DOMAIN unsent'[w]
                                                /\ unsent'[w][i - 1] = unsent[w][i]
    BY <2>1, TailView, HeadTailProperties
  <2>3. Event(e) \in Message
    BY <2>2, Messages
  <2>4. /\ \A i \in DOMAIN up[w] : i \in DOMAIN up'[w] /\ up'[w][i] = up[w][i]
        /\ Len(up[w]) + 1 \in DOMAIN up'[w] /\ up'[w][Len(up[w]) + 1] = Event(e)
    BY <2>1, <2>3, AppendView
  <2>5. CASE \E i \in DOMAIN up[w] : up[w][i] = Event("ended")
    BY <2>4, <2>5 DEF Ending
  <2>6. ASSUME NEW i \in DOMAIN unsent[w], unsent[w][i] = "ended"
        PROVE  Ending(w)'
    <3>1. CASE i = 1
      BY <2>2, <2>4, <2>6, <3>1 DEF Ending
    <3>2. CASE i # 1
      BY <2>2, <2>6, <3>2 DEF Ending
    <3>3. QED
      BY <3>1, <3>2
  <2>7. QED
    BY <2>5, <2>6 DEF Ending
<1>3. QED
  BY <1>1, <1>2

\* The event that ends a session frees the slot when it is read.
LEMMA ReadKeepsReason ==
    ASSUME TypeOK, NEW v \in Workers, NEW w \in Workers, Reasoned(w), Receive(v)
    PROVE  Reasoned(w)'
<1> DEFINE m == Head(up[v])
<1>1. UNCHANGED <<live, unsent, lost>> /\ slot' \in {slot, None}
  BY DEF Receive, nodeVars, OnEvent, OnResult
<1>2. SUFFICES ASSUME slot' = w, slot = w, Ending(w)
               PROVE  Ending(w)'
  BY <1>1, CalibrationAssumption DEF Reasoned
<1>3. CASE \E i \in DOMAIN unsent[w] : unsent[w][i] = "ended"
  BY <1>1, <1>3 DEF Ending
<1>4. ASSUME NEW i \in DOMAIN up[w], up[w][i] = Event("ended")
      PROVE  Ending(w)'
  <2>1. CASE v # w
    BY <1>4, <2>1 DEF Receive, Ending, TypeOK
  <2>2. CASE v = w
    <3>1. /\ up[w] # <<>> /\ up[w] \in Seq(Message) /\ up'[w] = Tail(up[w])
      BY <2>2, Queued DEF Receive, TypeOK
    <3>2. /\ m = up[w][1]
          /\ i # 1 => i - 1 \in DOMAIN up'[w] /\ up'[w][i - 1] = up[w][i]
      BY <1>4, <2>2, <3>1, TailView
    <3>3. CASE i = 1
      <4>1. m.type = "event" /\ m.event = "ended"
        BY <1>4, <3>2, <3>3 DEF Event
      <4>2. slot' = None
        BY <1>2, <2>2, <4>1 DEF Receive, OnEvent
      <4>3. QED
        BY <1>2, <4>2, CalibrationAssumption
    <3>4. CASE i # 1
      BY <1>4, <3>2, <3>4 DEF Ending
    <3>5. QED
      BY <3>3, <3>4
  <2>3. QED
    BY <2>1, <2>2
<1>5. QED
  BY <1>2, <1>3, <1>4 DEF Ending

\* Nothing but a new start takes the reason away.
LEMMA ReasonKept ==
    ASSUME HelloInv, [Next]_vars, NEW w \in Workers, Reasoned(w),
           \A c \in Calls : ~TickStarts(c, w)
    PROVE  Reasoned(w)'
<1> USE DEF HelloInv
<1>1. ASSUME slot' \in {slot, None}, lost => lost', w \in live => w \in live',
             up'[w] = up[w], unsent'[w] = unsent[w]
      PROVE  Reasoned(w)'
  BY <1>1, CalibrationAssumption DEF Reasoned, Ending
<1>2. CASE Ticking
  <2>1. ASSUME NEW c \in Calls, NEW v \in Workers, TickStarts(c, v)
        PROVE  Reasoned(w)'
    BY <2>1 DEF TickStarts, Reasoned
  <2>2. ASSUME NEW c \in Calls, TickStops(c) PROVE Reasoned(w)'
    BY <1>1, <2>2 DEF TickStops, Send, nodeVars
  <2>3. CASE TickStartsNobody \/ TickStopFails \/ TickRests
    BY <1>1, <2>3 DEF TickStartsNobody, TickStopFails, TickRests, wireVars, nodeVars, histVars
  <2>4. QED
    BY <1>2, <2>1, <2>2, <2>3 DEF Ticking
<1>3. CASE WindowTurns
  BY <1>1, <1>3 DEF WindowTurns, orchVars, wireVars, nodeVars, histVars
<1>4. ASSUME NEW c \in Calls, Answered(c) \/ TimesOut(c) PROVE Reasoned(w)'
  BY <1>1, <1>4 DEF Answered, TimesOut, Return, wireVars, nodeVars
<1>5. ASSUME NEW v \in Workers, Receive(v) PROVE Reasoned(w)'
  BY <1>5, ReadKeepsReason
<1>6. ASSUME NEW v \in Workers, EventForwarded(v) PROVE Reasoned(w)'
  BY <1>6, ForwardKeepsEnding DEF EventForwarded, Reasoned, orchVars, histVars
<1>7. ASSUME NEW v \in Workers, Worked(v) PROVE Reasoned(w)'
  <2>1. SessionStep(v)
    BY <1>7, SessionSteps
  <2>2. Ending(w) => Ending(w)'
    BY <2>1, AddedKeepsEnding DEF SessionStep, Adds
  <2>3. slot' = slot
    BY <1>7
       DEF Worked, StartAccepted, StartRefused, GrowBegins, GrowRefused, StopBegins, BusyEnds,
           StartRefusedUnhealthy, SessionEnds, orchVars
  <2>4. CASE SessionEnds(v)
    <3>1. (lost => lost') /\ (w \in live => w \in live' \/ w = v)
          /\ (slot = w /\ w = v /\ w \notin link => lost')
      BY <2>4 DEF SessionEnds
    <3>2. ASSUME w = v, w \in link PROVE Ending(w)'
      <4>1. unsent[w] \in Seq({"started", "ended"}) /\ unsent'[w] = Append(unsent[w], "ended")
        BY <2>4, <3>2, Queued DEF SessionEnds, Record, TypeOK
      <4>2. Len(unsent[w]) + 1 \in DOMAIN unsent'[w] /\ unsent'[w][Len(unsent[w]) + 1] = "ended"
        BY <4>1, AppendView
      <4>3. QED
        BY <4>2 DEF Ending
    <3>3. QED
      BY <2>2, <2>3, <3>1, <3>2 DEF Reasoned
  <2>5. CASE ~SessionEnds(v)
    <3>1. lost' = lost /\ live \subseteq live'
      BY <1>7, <2>5
         DEF Worked, StartAccepted, StartRefused, GrowBegins, GrowRefused, StopBegins, BusyEnds,
             StartRefusedUnhealthy, nodeVars, histVars
    <3>2. QED
      BY <2>2, <2>3, <3>1 DEF Reasoned
  <2>6. QED
    BY <2>4, <2>5
<1>8. ASSUME NEW v \in Workers, LinkBreaks(v) \/ Crash(v) PROVE Reasoned(w)'
  <2>1. CASE v # w
    BY <1>1, <1>8, <2>1 DEF LinkBreaks, Crash, orchVars, TypeOK
  <2>2. CASE v = w
    BY <1>8, <2>2 DEF LinkBreaks, Crash, orchVars, Reasoned
  <2>3. QED
    BY <2>1, <2>2
<1>9. ASSUME NEW v \in Workers, Detach(v) PROVE Reasoned(w)'
  BY <1>1, <1>9 DEF Detach, orchVars, wireVars, nodeVars
<1>10. ASSUME NEW v \in Workers, Connect(v) PROVE Reasoned(w)'
  <2>1. v \notin link /\ up[v] = <<>>
    BY <1>10 DEF Connect, HelloInv, Unlinked
  <2>2. Ending(w) => Ending(w)'
    BY <1>10, <2>1, EmptySeq, LenProperties DEF Connect, nodeVars, Ending, TypeOK
  <2>3. QED
    BY <1>10, <2>2 DEF Connect, orchVars, nodeVars, Reasoned
<1>11. ASSUME NEW c \in Calls, NEW v \in Workers, PlannerGrows(c, v) \/ AdminStarts(c, v)
       PROVE  Reasoned(w)'
  BY <1>1, <1>11 DEF PlannerGrows, AdminStarts, Send, orchVars, nodeVars
<1>12. CASE UNCHANGED vars
  BY <1>1, <1>12 DEF vars, orchVars, wireVars, nodeVars, histVars
<1>13. QED
  BY <1>2, <1>3, <1>4, <1>5, <1>6, <1>7, <1>8, <1>9, <1>10, <1>11, <1>12
     DEF Next, AdminNext, SteadyNext, TickingNext, Faults, Working, Worked

\* A step that brings no news of the calls: none becomes the tick's start or an
\* accepted one, and no answer is new that accepts a start.
LEMMA CallsStay ==
    ASSUME SlotInv, [Next]_vars, HelloInv', BusyOther',
           \A c \in Calls, w \in Workers : ~TickStarts(c, w),
           \A c \in Calls, w \in Workers : TickStart(c, w)' =>
               /\ TickStart(c, w)
               /\ call'[c].state = call[c].state \/ call'[c].state \in {"offline", "over"},
           \A c \in Calls, w \in Workers : Pending(c, w) => Pending(c, w)' \/ slot' # w,
           \A v, w \in Workers : \A i \in DOMAIN up'[v] :
               up'[v][i].type = "result" /\ up'[v][i].ok /\ TickStart(up[v][i].call, w)' =>
                   \/ \E k \in DOMAIN up[v] : up[v][k] = up'[v][i]
                   \/ Reasoned(w)'
    PROVE  SlotInv'
<1>1. \A w \in Workers : Reasoned(w) => Reasoned(w)'
  BY ReasonKept DEF SlotInv
<1>2. Accepted'
  <2>1. SUFFICES ASSUME NEW v \in Workers, NEW w \in Workers, NEW i \in DOMAIN up'[v],
                        up'[v][i].type = "result", up'[v][i].ok,
                        TickStart(up[v][i].call, w)', call'[up'[v][i].call].state = "waiting"
                 PROVE  Reasoned(w)'
    BY DEF Accepted
  <2>2. CASE \E k \in DOMAIN up[v] : up[v][k] = up'[v][i]
    <3>1. PICK k \in DOMAIN up[v] : up[v][k] = up'[v][i]
      BY <2>2
    <3>2. up[v][k].call \in Calls
      BY <2>1, <3>1, Queued, MessageKinds DEF SlotInv, HelloInv
    <3>3. TickStart(up[v][k].call, w) /\ call[up[v][k].call].state = "waiting"
      BY <2>1, <3>1, <3>2
    <3>4. QED
      BY <1>1, <2>1, <3>1, <3>3 DEF SlotInv, Accepted
  <2>3. QED
    BY <2>1, <2>2
<1>3. AcceptedRead'
  BY <1>1 DEF SlotInv, AcceptedRead
<1>4. Held'
  <2>1. SUFFICES ASSUME NEW w \in Workers PROVE Reasoned(w)' \/ \E c \in Calls : Pending(c, w)'
    BY DEF Held
  <2>2. slot' # w => Reasoned(w)'
    BY DEF Reasoned
  <2>3. QED
    BY <1>1, <2>2 DEF SlotInv, Held
<1>5. QED
  BY <1>2, <1>3, <1>4 DEF SlotInv

\* What a worker is busy with stays no start.
LEMMA BusyStay ==
    ASSUME HelloInv, BusyOther, [Next]_vars
    PROVE  BusyOther'
<1>1. ASSUME \A w \in Workers : busy'[w] # None => busy[w] = busy'[w]
                                 /\ call'[busy[w]].action = call[busy[w]].action
      PROVE  BusyOther'
  BY <1>1 DEF BusyOther
<1>2. ASSUME NEW c \in Calls, NEW v \in Workers, NEW action, NEW by,
             Send(c, v, action, by), UNCHANGED nodeVars
      PROVE  BusyOther'
  BY <1>1, <1>2, SendKeepsBusy DEF HelloInv, nodeVars
<1>3. CASE UNCHANGED <<busy, call>>
  BY <1>3 DEF BusyOther
<1>4. CASE Ticking
  BY <1>2, <1>3, <1>4
     DEF Ticking, TickStops, TickStarts, TickStartsNobody, TickStopFails, TickRests, regVars,
         nodeVars, HelloInv, TypeOK
<1>5. ASSUME NEW c \in Calls, Answered(c) \/ TimesOut(c)
      PROVE  BusyOther'
  BY <1>1, <1>5, ReturnKeepsAction
     DEF Answered, TimesOut, Waiting, Return, nodeVars, HelloInv, TypeOK
<1>6. ASSUME NEW w \in Workers, Receive(w)
      PROVE  BusyOther'
  BY <1>1, <1>6, ReceiveKeepsAction DEF Receive, nodeVars, HelloInv, TypeOK
<1>7. ASSUME NEW w \in Workers, GrowBegins(w) \/ StopBegins(w)
      PROVE  BusyOther'
  <2>1. /\ busy' = [busy EXCEPT ![w] = Head(down[w])] /\ UNCHANGED call
        /\ call[Head(down[w])].action \in {"grow", "stop"}
    BY <1>7 DEF GrowBegins, StopBegins, NextCommand, regVars
  <2>2. QED
    BY <2>1 DEF BusyOther, HelloInv, TypeOK
<1>8. ASSUME NEW w \in Workers, BusyEnds(w) \/ Crash(w)
      PROVE  BusyOther'
  BY <1>8 DEF BusyEnds, Crash, regVars, BusyOther, HelloInv, TypeOK
<1>9. ASSUME NEW w \in Workers, Detach(w) \/ Connect(w)
      PROVE  BusyOther'
  <2>1. PICK answer \in BOOLEAN : call' = Orphaned(w, answer)
    BY <1>9 DEF Detach, Connect
  <2>2. UNCHANGED busy
    BY <1>9 DEF Detach, Connect, nodeVars
  <2>3. QED
    BY <1>1, <2>1, <2>2, OrphanedKeepsAction DEF HelloInv, TypeOK
<1>10. ASSUME NEW c \in Calls, NEW w \in Workers, PlannerGrows(c, w) \/ AdminStarts(c, w)
       PROVE  BusyOther'
  BY <1>2, <1>10 DEF PlannerGrows, AdminStarts
<1>11. ASSUME NEW w \in Workers,
              \/ EventForwarded(w) \/ StartAccepted(w) \/ StartRefused(w) \/ GrowRefused(w)
              \/ StartRefusedUnhealthy(w) \/ SessionEnds(w) \/ LinkBreaks(w)
       PROVE  BusyOther'
  BY <1>3, <1>11
     DEF EventForwarded, StartAccepted, StartRefused, GrowRefused, StartRefusedUnhealthy,
         SessionEnds, LinkBreaks, regVars, nodeVars
<1>12. QED
  BY <1>3, <1>4, <1>5, <1>6, <1>7, <1>8, <1>9, <1>10, <1>11
     DEF Next, AdminNext, SteadyNext, TickingNext, Faults, Working, WindowTurns, vars, regVars,
         nodeVars

\* Calls and answers that stay what they are.
LEMMA NothingNew ==
    ASSUME SlotInv, [Next]_vars, UNCHANGED call,
           \A c \in Calls, w \in Workers : ~TickStarts(c, w),
           \A v \in Workers : \A i \in DOMAIN up'[v] :
               up'[v][i].type = "result" => \E k \in DOMAIN up[v] : up[v][k] = up'[v][i]
    PROVE  SlotInv'
<1>1. \A c \in Calls, w \in Workers : (TickStart(c, w)' <=> TickStart(c, w))
                                      /\ (Pending(c, w)' <=> Pending(c, w))
  BY DEF TickStart, Pending
<1>2. HelloInv' /\ BusyOther'
  BY HelloStep, BusyStay DEF SlotInv
<1>3. QED
  BY <1>1, <1>2, CallsStay

\* A tick takes the slot for the start it sends; no other start of the tick is
\* under way.
LEMMA TickStartsHeld ==
    ASSUME SlotInv, [Next]_vars, NEW c \in Calls, NEW w \in Workers, TickStarts(c, w)
    PROVE  SlotInv'
<1>1. HelloInv' /\ BusyOther' /\ TypeOK
  BY HelloStep, BusyStay DEF SlotInv, HelloInv
<1>2. /\ call'[c] = [to |-> w, action |-> "start", by |-> "tick", was |-> mark[w],
                     open |-> TRUE, state |-> "waiting"]
      /\ \A d \in Calls \ {c} : call'[d] = call[d]
      /\ slot' = w /\ up' = up
  BY <1>1 DEF TickStarts, Send, TypeOK
<1>3. call'[c] \in CallRecord /\ call'[c] # None
  <2>1. call'[c] \in CallRecord
    BY <1>1, <1>2 DEF CallRecord, TypeOK
  <2>2. QED
    BY <2>1, NoneAssumption
<1>4. \A d \in Calls \ {c}, v \in Workers :
         TickStart(d, v)' => call'[d].state \in {"over"}
  <2>1. ASSUME NEW d \in Calls \ {c}, NEW v \in Workers, TickStart(d, v)'
        PROVE  call'[d].state = "over"
    <3>1. call[d] # None /\ call[d].by = "tick" /\ call'[d] = call[d]
      BY <1>2, <2>1 DEF TickStart
    <3>2. ~Waiting(d)
      BY <3>1 DEF TickStarts, TickIdle
    <3>3. QED
      BY <3>1, <3>2 DEF Waiting
  <2>2. QED
    BY <2>1
<1>5. Accepted'
  <2>1. SUFFICES ASSUME NEW v \in Workers, NEW x \in Workers, NEW i \in DOMAIN up[v],
                        up[v][i].type = "result", TickStart(up[v][i].call, x)',
                        call'[up[v][i].call].state = "waiting"
                 PROVE  FALSE
    BY <1>2 DEF Accepted
  <2>2. up[v][i].call \in Calls
    BY <1>1, <2>1, Queued, MessageKinds
  <2>3. up[v][i].call # c
    BY <2>1 DEF TickStarts, Send, Free
  <2>4. QED
    BY <1>2, <1>4, <2>1, <2>2, <2>3
<1>6. AcceptedRead'
  BY <1>2, <1>4 DEF AcceptedRead
<1>7. Held'
  <2>1. Pending(c, w)'
    BY <1>2, <1>3 DEF Pending, TickStart
  <2>2. \A v \in Workers : v # w => Reasoned(v)'
    BY <1>2 DEF Reasoned
  <2>3. QED
    BY <2>1, <2>2 DEF Held
<1>8. QED
  BY <1>1, <1>5, <1>6, <1>7 DEF SlotInv

\* Another command takes an id that is free, and is no start of the tick.
LEMMA OtherSendHeld ==
    ASSUME SlotInv, [Next]_vars, NEW c \in Calls, NEW w \in Workers,
           NEW action \in {"start", "stop", "grow"}, NEW by \in {"tick", "admin", "planner"},
           Send(c, w, action, by), ~(action = "start" /\ by = "tick"),
           \A d \in Calls, v \in Workers : ~TickStarts(d, v)
    PROVE  SlotInv'
<1>1. HelloInv' /\ BusyOther' /\ TypeOK
  BY HelloStep, BusyStay DEF SlotInv, HelloInv
<1>2. /\ call'[c] = [to |-> w, action |-> action, by |-> by, was |-> mark[w],
                     open |-> TRUE, state |-> "waiting"]
      /\ \A d \in Calls \ {c} : call'[d] = call[d]
      /\ up' = up
  BY <1>1 DEF Send, TypeOK
<1>3. \A v \in Workers : ~TickStart(c, v)' /\ ~Pending(c, v)
  BY <1>2 DEF TickStart, Pending, Send, Free, Waiting
<1>4. \A d \in Calls, v \in Workers : d # c =>
         /\ TickStart(d, v)' <=> TickStart(d, v)
         /\ Pending(d, v)' <=> Pending(d, v)
         /\ call'[d].state = call[d].state
  BY <1>2 DEF TickStart, Pending
<1>5. QED
  BY <1>1, <1>2, <1>3, <1>4, CallsStay

\* A start that was not accepted gives the slot back when its call ends.
LEMMA ReturnHeld ==
    ASSUME SlotInv, [Next]_vars, NEW c \in Calls, Answered(c) \/ TimesOut(c),
           \A d \in Calls, v \in Workers : ~TickStarts(d, v)
    PROVE  SlotInv'
<1>1. HelloInv' /\ BusyOther' /\ TypeOK
  BY HelloStep, BusyStay DEF SlotInv, HelloInv
<1>2. PICK outcome : /\ Return(c, outcome) /\ call[c] # None
                     /\ outcome = "ok" => call[c].state = "ok"
  BY DEF Answered, TimesOut, Waiting
<1>3. call[c] \in CallRecord
  BY <1>1, <1>2 DEF TypeOK
<1>4. /\ call'[c] # None /\ call'[c].to = call[c].to /\ call'[c].action = call[c].action
      /\ call'[c].by = call[c].by /\ call'[c].state = "over"
      /\ \A d \in Calls \ {c} : call'[d] = call[d]
  BY <1>1, <1>2, <1>3, StateWritten DEF Return
<1>5. up' = up
  BY <1>2 DEF Return, wireVars
<1>6. \A d \in Calls, v \in Workers : TickStart(d, v)' =>
         /\ TickStart(d, v)
         /\ call'[d].state = call[d].state \/ call'[d].state \in {"offline", "over"}
  BY <1>2, <1>4 DEF TickStart
<1>7. ASSUME NEW d \in Calls, NEW v \in Workers, Pending(d, v)
      PROVE  Pending(d, v)' \/ slot' # v
  <2>1. CASE d = c
    <3>1. outcome # "ok" /\ call[c].by = "tick"
      BY <1>2, <1>7, <2>1 DEF Pending, TickStart
    <3>2. QED
      BY <1>2, <3>1, CalibrationAssumption DEF Return
  <2>2. CASE d # c
    BY <1>4, <1>7, <2>2 DEF Pending, TickStart
  <2>3. QED
    BY <2>1, <2>2
<1>8. QED
  BY <1>1, <1>5, <1>6, <1>7, CallsStay

\* The answer that accepts a start is read.
LEMMA ReceiveHeld ==
    ASSUME SlotInv, [Next]_vars, NEW w \in Workers, Receive(w),
           \A d \in Calls, v \in Workers : ~TickStarts(d, v)
    PROVE  SlotInv'
<1> DEFINE m == Head(up[w])
<1>1. HelloInv' /\ BusyOther' /\ TypeOK
  BY HelloStep, BusyStay DEF SlotInv, HelloInv
<1>2. /\ up[w] # <<>> /\ up[w] \in Seq(Message) /\ up'[w] = Tail(up[w])
      /\ \A v \in Workers \ {w} : up'[v] = up[v]
  BY <1>1, Queued DEF Receive, TypeOK
<1>3. /\ 1 \in DOMAIN up[w] /\ m = up[w][1] /\ m \in Message
      /\ \A i \in DOMAIN up'[w] : i + 1 \in DOMAIN up[w] /\ up'[w][i] = up[w][i + 1]
  BY <1>2, TailView, HeadTailProperties
<1>4. \A v \in Workers : \A i \in DOMAIN up'[v] : \E k \in DOMAIN up[v] : up[v][k] = up'[v][i]
  BY <1>2, <1>3
<1>5. CASE UNCHANGED call
  BY <1>4, <1>5, NothingNew
<1>6. ASSUME m.type = "result", OnResult(m), call[m.call] # None, call[m.call].state = "waiting"
      PROVE  SlotInv'
  <2>1. PICK c \in Calls : c = m.call
    BY <1>3, <1>6, MessageKinds
  <2>2. PICK s \in {"ok", "refused"} :
            call' = [call EXCEPT ![c].state = s] /\ (s = "ok" => m.ok)
    BY <1>6, <2>1 DEF OnResult
  <2>3. call[c] \in CallRecord
    BY <1>1, <1>6, <2>1 DEF TypeOK
  <2>4. /\ call'[c] # None /\ call'[c].to = call[c].to /\ call'[c].action = call[c].action
        /\ call'[c].by = call[c].by /\ call'[c].state = s
        /\ \A d \in Calls \ {c} : call'[d] = call[d]
    BY <1>1, <2>1, <2>2, <2>3, StateWritten
  <2>5. \A d \in Calls, v \in Workers : TickStart(d, v)' <=> TickStart(d, v)
    BY <1>6, <2>1, <2>4 DEF TickStart
  <2>6. \A v \in Workers : Reasoned(v) => Reasoned(v)'
    BY ReasonKept DEF SlotInv
  <2>7. ASSUME s = "ok", NEW v \in Workers, TickStart(c, v) PROVE Reasoned(v)'
    <3>1. up[w][1].type = "result" /\ up[w][1].ok /\ up[w][1].call = c
      BY <1>3, <1>6, <2>1, <2>2, <2>7
    <3>2. Reasoned(v)
      BY <1>3, <1>6, <2>7, <3>1 DEF SlotInv, Accepted
    <3>3. QED
      BY <2>6, <3>2
  <2>8. Accepted'
    <3>1. SUFFICES ASSUME NEW x \in Workers, NEW v \in Workers, NEW i \in DOMAIN up'[x],
                          up'[x][i].type = "result", up'[x][i].ok,
                          TickStart(up[x][i].call, v)', call'[up'[x][i].call].state = "waiting"
                   PROVE  Reasoned(v)'
      BY DEF Accepted
    <3>2. PICK k \in DOMAIN up[x] : up[x][k] = up'[x][i]
      BY <1>4
    <3>3. up[x][k].call \in Calls
      BY <1>1, <3>1, <3>2, Queued, MessageKinds
    <3>4. up[x][k].call # c
      BY <2>4, <3>1, <3>2
    <3>5. TickStart(up[x][k].call, v) /\ call[up[x][k].call].state = "waiting"
      BY <2>4, <2>5, <3>1, <3>2, <3>3, <3>4
    <3>6. Reasoned(v)
      BY <3>1, <3>2, <3>5 DEF SlotInv, Accepted
    <3>7. QED
      BY <2>6, <3>6
  <2>9. AcceptedRead'
    <3>1. SUFFICES ASSUME NEW d \in Calls, NEW v \in Workers, TickStart(d, v)', call'[d].state = "ok"
                   PROVE  Reasoned(v)'
      BY DEF AcceptedRead
    <3>2. CASE d = c
      BY <2>4, <2>5, <2>7, <3>1, <3>2
    <3>3. CASE d # c
      BY <2>4, <2>5, <2>6, <3>1, <3>3 DEF SlotInv, AcceptedRead
    <3>4. QED
      BY <3>2, <3>3
  <2>10. Held'
    <3>1. SUFFICES ASSUME NEW v \in Workers, ~Reasoned(v)'
                   PROVE  \E d \in Calls : Pending(d, v)'
      BY DEF Held
    <3>2. PICK d \in Calls : Pending(d, v)
      BY <2>6, <3>1 DEF SlotInv, Held
    <3>3. CASE d = c
      <4>1. TickStart(c, v) /\ s # "ok"
        BY <2>7, <3>1, <3>2, <3>3 DEF Pending
      <4>2. Pending(c, v)'
        BY <2>1, <2>2, <2>4, <2>5, <4>1 DEF Pending
      <4>3. QED
        BY <2>1, <4>2
    <3>4. CASE d # c
      BY <2>4, <2>5, <3>2, <3>4 DEF Pending
    <3>5. QED
      BY <3>3, <3>4
  <2>11. QED
    BY <1>1, <2>8, <2>9, <2>10 DEF SlotInv
<1>7. QED
  BY <1>5, <1>6 DEF Receive, OnEvent, OnResult

\* An answer is added; one that accepts a start comes with the session.
LEMMA WorkedHeld ==
    ASSUME SlotInv, [Next]_vars, NEW w \in Workers, Worked(w),
           \A d \in Calls, v \in Workers : ~TickStarts(d, v)
    PROVE  SlotInv'
<1>1. HelloInv' /\ BusyOther' /\ TypeOK
  BY HelloStep, BusyStay DEF SlotInv, HelloInv
<1>2. UNCHANGED call
  BY DEF Worked, StartAccepted, StartRefused, GrowBegins, GrowRefused, StopBegins, BusyEnds,
         StartRefusedUnhealthy, SessionEnds, regVars
<1>3. \A c \in Calls, v \in Workers : (TickStart(c, v)' <=> TickStart(c, v))
                                      /\ (Pending(c, v)' <=> Pending(c, v))
  BY <1>2 DEF TickStart, Pending
<1>4. ASSUME NEW c \in Calls, NEW ok \in BOOLEAN, Reply(w, c, ok),
             NEW v \in Workers, NEW i \in DOMAIN up'[v], up'[v][i].ok,
             up'[v][i].type = "result", \A k \in DOMAIN up[v] : up[v][k] # up'[v][i]
      PROVE  up'[v][i] = Result(c, ok)
  <2>1. Result(c, ok) \in Message
    BY Messages
  <2>2. up[v] \in Seq(Message)
    BY <1>1 DEF TypeOK
  <2>3. up'[v] # up[v]
    BY <1>4
  <2>4. up'[v] = Append(up[v], Result(c, ok))
    BY <1>1, <1>4, <2>3 DEF Reply, TypeOK
  <2>5. QED
    BY <1>4, <2>1, <2>2, <2>4, AppendView
<1>5. ASSUME NEW v \in Workers, NEW x \in Workers, NEW i \in DOMAIN up'[v],
             up'[v][i].type = "result", up'[v][i].ok, TickStart(up[v][i].call, x)',
             \A k \in DOMAIN up[v] : up[v][k] # up'[v][i]
      PROVE  Reasoned(x)'
  <2>1. CASE StartAccepted(w)
    <3>1. Head(down[w]) \in Calls /\ 1 \in DOMAIN down[w] /\ Head(down[w]) = down[w][1]
      BY <1>1, <2>1, NextCommandType, Queued, TailView DEF StartAccepted, NextCommand
    <3>2. up'[v][i] = Result(Head(down[w]), TRUE)
      BY <1>4, <1>5, <2>1, <3>1 DEF StartAccepted
    <3>3. call[Head(down[w])].to = w
      BY <3>1 DEF SlotInv, HelloInv, OnItsWay
    <3>4. x = w
      BY <1>2, <1>5, <3>2, <3>3 DEF TickStart, Result
    <3>5. QED
      BY <2>1, <3>4 DEF StartAccepted, Reasoned
  <2>2. CASE StartRefused(w) \/ GrowRefused(w) \/ StartRefusedUnhealthy(w)
    <3>1. Head(down[w]) \in Calls
      BY <1>1, <2>2, NextCommandType DEF StartRefused, GrowRefused, StartRefusedUnhealthy
    <3>2. Reply(w, Head(down[w]), FALSE)
      BY <2>2 DEF StartRefused, GrowRefused, StartRefusedUnhealthy
    <3>3. up'[v][i] = Result(Head(down[w]), FALSE)
      BY <1>4, <1>5, <3>1, <3>2
    <3>4. QED
      BY <1>5, <3>3 DEF Result
  <2>3. CASE BusyEnds(w)
    <3>1. busy[w] \in Calls /\ busy[w] # None
      BY <1>1, <2>3 DEF BusyEnds, TypeOK
    <3>2. up'[v][i] = Result(busy[w], TRUE)
      BY <1>4, <1>5, <2>3, <3>1 DEF BusyEnds
    <3>3. QED
      BY <1>2, <1>5, <3>1, <3>2 DEF TickStart, Result, SlotInv, BusyOther
  <2>4. CASE GrowBegins(w) \/ StopBegins(w) \/ SessionEnds(w)
    BY <1>5, <2>4 DEF GrowBegins, StopBegins, SessionEnds, wireVars
  <2>5. QED
    BY <2>1, <2>2, <2>3, <2>4 DEF Worked
<1>6. \A v, x \in Workers : \A i \in DOMAIN up'[v] :
          up'[v][i].type = "result" /\ up'[v][i].ok /\ TickStart(up[v][i].call, x)' =>
              \/ \E k \in DOMAIN up[v] : up[v][k] = up'[v][i]
              \/ Reasoned(x)'
  BY <1>5
<1>7. QED
  BY <1>1, <1>2, <1>3, <1>6, CallsStay

\* A call that is orphaned stays a pending one.
LEMMA OrphanedHeld ==
    ASSUME SlotInv, [Next]_vars, NEW w \in Workers, Detach(w) \/ Connect(w),
           \A d \in Calls, v \in Workers : ~TickStarts(d, v)
    PROVE  SlotInv'
<1>1. HelloInv' /\ BusyOther' /\ TypeOK
  BY HelloStep, BusyStay DEF SlotInv, HelloInv
<1>2. PICK answer \in BOOLEAN : call' = Orphaned(w, answer)
  BY DEF Detach, Connect
<1>3. ASSUME NEW c \in Calls, call[c] # None
      PROVE  /\ call'[c] # None /\ call'[c].to = call[c].to /\ call'[c].by = call[c].by
             /\ call'[c].action = call[c].action
             /\ \/ call'[c].state = call[c].state
                \/ call[c].state = "waiting" /\ call'[c].state = "offline"
  <2>1. call[c] \in CallRecord
    BY <1>1, <1>3 DEF TypeOK
  <2>2. CASE call[c].open /\ call[c].to = w
    <3>1. call'[c] = [call[c] EXCEPT !.open = FALSE,
                  !.state = IF answer /\ @ = "waiting" THEN "offline" ELSE @]
      BY <1>2, <1>3, <2>2 DEF Orphaned
    <3>2. call'[c] \in CallRecord
      BY <2>1, <3>1 DEF CallRecord
    <3>3. QED
      BY <2>1, <3>1, <3>2, NoneAssumption DEF CallRecord
  <2>3. CASE ~(call[c].open /\ call[c].to = w)
    BY <1>2, <1>3, <2>3 DEF Orphaned
  <2>4. QED
    BY <2>2, <2>3
<1>4. \A c \in Calls : call[c] = None => call'[c] = None
  BY <1>2 DEF Orphaned
<1>5. \A c \in Calls, v \in Workers : TickStart(c, v)' =>
         /\ TickStart(c, v)
         /\ call'[c].state = call[c].state \/ call'[c].state \in {"offline", "over"}
  BY <1>3, <1>4 DEF TickStart
<1>6. \A c \in Calls, v \in Workers : Pending(c, v) => Pending(c, v)'
  BY <1>3 DEF Pending, TickStart
<1>7. ASSUME NEW v \in Workers, NEW i \in DOMAIN up'[v], up'[v][i].type = "result"
      PROVE  \E k \in DOMAIN up[v] : up[v][k] = up'[v][i]
  <2>1. CASE up'[v] = up[v]
    BY <1>7, <2>1
  <2>2. CASE Connect(w) /\ v = w
    <3>1. up'[w] = <<Hello(w \in live), Status>>
      BY <1>1, <2>2 DEF Connect, Greeting, TypeOK
    <3>2. i \in 1 .. 2 /\ up'[w][1] = Hello(w \in live) /\ up'[w][2] = Status
      BY <1>7, <2>2, <3>1
    <3>3. up'[w][1].type = "hello" /\ up'[w][2].type = "status"
      BY <3>2 DEF Hello, Status
    <3>4. QED
      BY <1>7, <2>2, <3>2, <3>3
  <2>3. QED
    BY <1>1, <2>1, <2>2 DEF Detach, Connect, wireVars, TypeOK
<1>8. QED
  BY <1>1, <1>5, <1>6, <1>7, CallsStay

\* Every step keeps the invariant.
LEMMA SlotStep ==
    ASSUME SlotInv, [Next]_vars
    PROVE  SlotInv'
<1>1. ASSUME NEW c \in Calls, NEW w \in Workers, TickStarts(c, w)
      PROVE  SlotInv'
  BY <1>1, TickStartsHeld
<1>2. SUFFICES ASSUME \A c \in Calls, w \in Workers : ~TickStarts(c, w)
               PROVE  SlotInv'
  BY <1>1
<1>3. CASE UNCHANGED <<call, up>>
  BY <1>2, <1>3, NothingNew
<1>4. CASE Ticking
  <2>1. ASSUME NEW c \in Calls, TickStops(c)
        PROVE  SlotInv'
    <3>1. slot \in Workers /\ Send(c, slot, "stop", "tick")
      BY <2>1 DEF TickStops, SlotInv, HelloInv, TypeOK
    <3>2. QED
      BY <1>2, <3>1, OtherSendHeld
  <2>2. CASE TickStartsNobody \/ TickStopFails \/ TickRests
    BY <1>3, <2>2 DEF TickStartsNobody, TickStopFails, TickRests, regVars, wireVars
  <2>3. QED
    BY <1>2, <1>4, <2>1, <2>2 DEF Ticking
<1>5. ASSUME NEW c \in Calls, Answered(c) \/ TimesOut(c) PROVE SlotInv'
  BY <1>2, <1>5, ReturnHeld
<1>6. ASSUME NEW w \in Workers, Receive(w) PROVE SlotInv'
  BY <1>2, <1>6, ReceiveHeld
<1>7. ASSUME NEW w \in Workers, Worked(w) PROVE SlotInv'
  BY <1>2, <1>7, WorkedHeld
<1>8. ASSUME NEW w \in Workers, EventForwarded(w) PROVE SlotInv'
  <2>1. TypeOK /\ Head(unsent[w]) \in {"started", "ended"}
    BY <1>8, HeadTailProperties DEF EventForwarded, SlotInv, HelloInv, TypeOK
  <2>2. Event(Head(unsent[w])) \in Message /\ Event(Head(unsent[w])).type = "event"
    BY <2>1, Messages DEF Event
  <2>3. ASSUME NEW v \in Workers, NEW i \in DOMAIN up'[v], up'[v][i].type = "result"
        PROVE  \E k \in DOMAIN up[v] : up[v][k] = up'[v][i]
    <3>1. CASE up'[v] = up[v]
      BY <2>3, <3>1
    <3>2. CASE up'[v] = Append(up[v], Event(Head(unsent[w])))
      BY <2>1, <2>2, <2>3, <3>2, AppendView DEF TypeOK
    <3>3. QED
      BY <1>8, <2>1, <3>1, <3>2 DEF EventForwarded, TypeOK
  <2>4. QED
    BY <1>2, <1>8, <2>3, NothingNew DEF EventForwarded, regVars
<1>9. ASSUME NEW w \in Workers, LinkBreaks(w) \/ Crash(w) PROVE SlotInv'
  <2>1. UNCHANGED call /\ up' = [up EXCEPT ![w] = <<>>]
    BY <1>9 DEF LinkBreaks, Crash, regVars
  <2>2. ASSUME NEW v \in Workers, NEW i \in DOMAIN up'[v]
        PROVE  \E k \in DOMAIN up[v] : up[v][k] = up'[v][i]
    <3>1. v # w
      BY <2>1, <2>2, EmptySeq, LenProperties DEF SlotInv, HelloInv, TypeOK
    <3>2. QED
      BY <2>1, <2>2, <3>1 DEF SlotInv, HelloInv, TypeOK
  <2>3. QED
    BY <1>2, <2>1, <2>2, NothingNew
<1>10. ASSUME NEW w \in Workers, Detach(w) \/ Connect(w) PROVE SlotInv'
  BY <1>2, <1>10, OrphanedHeld
<1>11. ASSUME NEW c \in Calls, NEW w \in Workers, PlannerGrows(c, w) \/ AdminStarts(c, w)
       PROVE  SlotInv'
  BY <1>2, <1>11, OtherSendHeld DEF PlannerGrows, AdminStarts
<1>12. QED
  BY <1>3, <1>4, <1>5, <1>6, <1>7, <1>8, <1>9, <1>10, <1>11
     DEF Next, AdminNext, SteadyNext, TickingNext, Faults, Working, Worked, WindowTurns, vars,
         regVars, wireVars

\* A slot whose worker does not calibrate, with no call to it under way and
\* nothing coming from it, is held because the event that ends its session was
\* lost with a connection or a process, and for no other reason.
THEOREM SlotReasoned == Spec => []SlotHasReason
<1>1. Init => SlotInv
  <2>1. Init => OnItsWay /\ Accepted
    BY EmptySeq, LenProperties DEF Init, OnItsWay, Accepted
  <2>2. Init => BusyOther /\ AcceptedRead /\ Held
    BY CalibrationAssumption DEF Init, BusyOther, AcceptedRead, TickStart, Held, Reasoned
  <2>3. QED
    BY <2>1, <2>2, TypeInit DEF Init, HelloInv, Unlinked, NoStartYet, GreetingAhead, SlotInv
<1>2. SlotInv => SlotHasReason
  <2>1. SUFFICES ASSUME SlotInv, NEW w \in Workers \ live, slot = w, up[w] = <<>>, unsent[w] = <<>>,
                        \A c \in Calls : Waiting(c) => call[c].to # w
                 PROVE  lost
    BY DEF SlotHasReason
  <2>2. ~Ending(w)
    BY <2>1, EmptySeq, LenProperties DEF Ending
  <2>3. \A c \in Calls : ~Pending(c, w)
    BY <2>1 DEF Pending, TickStart, Waiting
  <2>4. QED
    BY <2>1, <2>2, <2>3 DEF SlotInv, Held, Reasoned
<1>3. QED
  BY <1>1, <1>2, SlotStep, PTL DEF Spec
=============================================================================

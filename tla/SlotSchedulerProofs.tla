------------------------- MODULE SlotSchedulerProofs -------------------------
(* Safety of the slot scheduler for every value of its constants. *)
EXTENDS SlotScheduler, FiniteSetTheorems, TLAPS

----------------------------------------------------------------------------
(* Type correctness *)

\* CompleteSlot keeps the types of the three slot variables.
LEMMA CompleteSlotType ==
    ASSUME TypeOK, NEW r \in Requests, NEW reuse \in BOOLEAN, CompleteSlot(r, reuse)
    PROVE  /\ tracking' \in [Requests -> LocalPairs \cup {None}]
           /\ counted' \in [Requests -> LocalPairs \cup {None}]
           /\ active' \in [LocalPairs -> Nat]
<1>1. CASE tracking[r] = None
  BY <1>1 DEF CompleteSlot, TypeOK, slotVars
<1>2. CASE tracking[r] # None
  <2>1. tracking[r] \in LocalPairs
    BY <1>2 DEF TypeOK
  <2>2. active' \in [LocalPairs -> Nat]
    BY <1>2, <2>1 DEF CompleteSlot, TypeOK
  <2>3. QED
    BY <1>2, <2>2 DEF CompleteSlot, TypeOK
<1>3. QED
  BY <1>1, <1>2

\* release() keeps the types, whichever of its three ways it takes.
LEMMA ReleaseType ==
    ASSUME TypeOK, NEW r \in Requests, Release(r)
    PROVE  TypeOK'
<1> DEFINE d == PairOf(grant[r])
<1>1. /\ pc' \in [Requests -> {"idle", "queued", "resolving", "handed", "executing", "done"}]
      /\ fut' \in [Requests -> {"none", "pending", "result", "cancelled"}]
      /\ cancelled' \in [Requests -> BOOLEAN]
      /\ entryId' \in [Requests -> Nat]
      /\ deployed' \subseteq LocalPairs
      /\ lane' \in [Deployments -> {"down", "ready", "saturated"}]
      /\ node' \in [Local -> {"online", "stale", "gone"}]
      /\ confirming' \subseteq LocalPairs
  BY DEF Release, TypeOK, envVars
<1>2. CASE ReleaseToNobody(r)
  BY <1>1, <1>2, CompleteSlotType DEF ReleaseToNobody, TypeOK, Popped
<1>3. CASE ReleaseToWaiter(r)
  <2>1. PICK e \in Live(d[1]) :
          /\ d[2] \in Cloud \/ LaneReady(d)
          /\ queue' = queue \ Popped(d[1], 1)
          /\ CompleteSlot(r, TRUE)
          /\ grant' = [grant EXCEPT ![r] = None, ![e.req] = GrantOf(d, TRUE)]
          /\ inFlight' = inFlight \cup {e.req}
          /\ UNCHANGED nextId
    BY <1>3 DEF ReleaseToWaiter
  <2>2. e \in Entry /\ d[1] \in Models
    BY <2>1 DEF Live, TypeOK, Entry
  <2>3. d[2] \in Providers
    BY <2>1 DEF LaneReady, TypeOK, LocalPairs, Providers
  <2>4. GrantOf(d, TRUE) \in Grant
    BY <2>2, <2>3 DEF GrantOf, Grant
  <2>5. /\ grant' \in [Requests -> Grant \cup {None}]
        /\ inFlight' \subseteq Requests
        /\ queue' \subseteq Entry
        /\ nextId' \in Nat
    BY <2>1, <2>2, <2>4 DEF TypeOK, Entry
  <2>6. /\ tracking' \in [Requests -> LocalPairs \cup {None}]
        /\ counted' \in [Requests -> LocalPairs \cup {None}]
        /\ active' \in [LocalPairs -> Nat]
    BY <2>1, CompleteSlotType, Zenon
  <2>7. QED
    BY <1>1, <2>5, <2>6 DEF TypeOK
<1>4. CASE ReleaseAndRequeue(r)
  <2>1. PICK e \in Live(d[1]) :
          /\ queue' = (queue \ Popped(d[1], 1)) \cup {NewEntry(d[1], e.req, e.prio)}
          /\ nextId' = nextId + 1
          /\ CompleteSlot(r, FALSE)
          /\ grant' = [grant EXCEPT ![r] = None]
          /\ UNCHANGED inFlight
    BY <1>4 DEF ReleaseAndRequeue
  <2>2. e \in Entry /\ d[1] \in Models
    BY <2>1 DEF Live, TypeOK, Entry
  <2>3. NewEntry(d[1], e.req, e.prio) \in Entry
    BY <2>2 DEF NewEntry, Entry, TypeOK
  <2>4. /\ tracking' \in [Requests -> LocalPairs \cup {None}]
        /\ counted' \in [Requests -> LocalPairs \cup {None}]
        /\ active' \in [LocalPairs -> Nat]
    BY <2>1, CompleteSlotType, Zenon
  <2>5. /\ grant' \in [Requests -> Grant \cup {None}]
        /\ inFlight' \subseteq Requests
        /\ queue' \subseteq Entry
        /\ nextId' \in Nat
    BY <2>1, <2>3 DEF TypeOK
  <2>6. QED
    BY <1>1, <2>4, <2>5 DEF TypeOK
<1>5. QED
  BY <1>2, <1>3, <1>4 DEF Release

\* Every action keeps the types, a refresh included.
LEMMA TypeStep == TypeOK /\ [RefreshNext]_vars => TypeOK'
<1> SUFFICES ASSUME TypeOK, [RefreshNext]_vars PROVE TypeOK'
  OBVIOUS
<1>1. ASSUME NEW r \in Requests, NEW d \in Deployments, ReserveLocal(r, d) PROVE TypeOK'
  <2>1. d \in LocalPairs /\ GrantOf(d, FALSE) \in Grant
    BY <1>1 DEF ReserveLocal, GrantOf, Grant, Deployments
  <2>2. active' \in [LocalPairs -> Nat]
    BY <1>1, <2>1 DEF ReserveLocal, TypeOK
  <2>3. QED
    BY <1>1, <2>1, <2>2 DEF ReserveLocal, TypeOK, queueVars, envVars
<1>2. ASSUME NEW r \in Requests, NEW d \in Deployments, AcceptCloud(r, d) PROVE TypeOK'
  <2>1. GrantOf(d, FALSE) \in Grant
    BY DEF GrantOf, Grant, Deployments
  <2>2. QED
    BY <1>2, <2>1 DEF AcceptCloud, TypeOK, queueVars, slotVars, envVars
<1>3. ASSUME NEW r \in Requests, NEW d \in Deployments, Enqueue(r, d) PROVE TypeOK'
  <2>1. NewEntry(d[1], r, Prio[r]) \in Entry
    BY ConstantsAssumption DEF NewEntry, Entry, TypeOK, Deployments
  <2>2. QED
    BY <1>3, <2>1 DEF Enqueue, TypeOK, slotVars, envVars
<1>4. ASSUME NEW r \in Requests, Reject(r) \/ DeliverResult(r) \/ Cancel(r) PROVE TypeOK'
  <2>1. CASE Reject(r)
    BY <2>1 DEF Reject, TypeOK, queueVars, slotVars, envVars
  <2>2. CASE DeliverResult(r)
    BY <2>2 DEF DeliverResult, TypeOK, queueVars, slotVars, envVars
  <2>3. CASE Cancel(r)
    BY <2>3 DEF Cancel, TypeOK, queueVars, slotVars, envVars
  <2>4. QED
    BY <1>4, <2>1, <2>2, <2>3
<1>5. ASSUME NEW r \in Requests, ResumeCancelled(r) PROVE TypeOK'
  BY <1>5 DEF ResumeCancelled, TypeOK, slotVars, envVars
<1>6. ASSUME NEW r \in Requests, Resume(r) PROVE TypeOK'
  BY <1>6 DEF Resume, TypeOK, queueVars, slotVars, envVars
<1>7. ASSUME NEW r \in Requests, ContextFailed(r) \/ Finish(r) PROVE TypeOK'
  BY <1>7, ReleaseType DEF ContextFailed, Finish
<1>8. ASSUME NEW r \in Requests,
             ContextResolved(r) \/ StreamHandedOn(r) \/ StreamStarted(r) \/ Abandon(r)
      PROVE  TypeOK'
  BY <1>8 DEF ContextResolved, StreamHandedOn, StreamStarted, Abandon, TypeOK,
              queueVars, slotVars, envVars
<1>9. ASSUME NEW d \in LocalPairs, PlannerOrders(d) \/ PlannerGivesUp(d) PROVE TypeOK'
  BY <1>9 DEF PlannerOrders, PlannerGivesUp, TypeOK, reqVars, queueVars, slotVars
<1>10. ASSUME NEW d \in LocalPairs, Reevaluate(d) PROVE TypeOK'
  <2>1. PICK to \in [Dispatchable -> Local] :
          grant' = [r \in Requests |->
              IF \E e \in Dispatchable : e.req = r
              THEN LET e == CHOOSE e \in Dispatchable : e.req = r
                   IN  GrantOf(<<e.model, to[e]>>, FALSE)
              ELSE grant[r]]
    BY <1>10 DEF Reevaluate
  <2>2. ASSUME NEW e \in Dispatchable
        PROVE  e.req \in Requests /\ GrantOf(<<e.model, to[e]>>, FALSE) \in Grant
    BY DEF Dispatchable, TypeOK, Entry, GrantOf, Grant, Providers
  <2>3. grant' \in [Requests -> Grant \cup {None}]
    BY <2>1, <2>2 DEF TypeOK
  <2>4. inFlight' = inFlight \cup {e.req : e \in Dispatchable}
    BY <1>10 DEF Reevaluate
  <2>5. inFlight' \subseteq Requests
    <3>1. inFlight \subseteq Requests /\ \A e \in Dispatchable : e.req \in Requests
      BY <2>2 DEF TypeOK
    <3>2. QED
      BY <2>4, <3>1
  <2>6. queue' \subseteq Entry /\ confirming' \subseteq LocalPairs
    BY <1>10 DEF Reevaluate, TypeOK
  <2>7. UNCHANGED <<pc, fut, cancelled, entryId, nextId, slotVars, deployed, lane, node>>
    BY <1>10 DEF Reevaluate
  <2>8. QED
    BY <2>3, <2>5, <2>6, <2>7 DEF TypeOK, slotVars
<1>11. ASSUME NEW d \in Deployments, NEW s \in {"down", "ready", "saturated"},
              LaneChanges(d, s)
       PROVE  TypeOK'
  BY <1>11 DEF LaneChanges, TypeOK, reqVars, queueVars, slotVars
<1>12. ASSUME NEW p \in Local, NEW s \in {"online", "stale", "gone"}, NodeChanges(p, s)
       PROVE  TypeOK'
  BY <1>12 DEF NodeChanges, TypeOK, reqVars, queueVars, slotVars
<1>13. ASSUME NEW D \in SUBSET LocalPairs, Refresh(D) PROVE TypeOK'
  BY <1>13 DEF Refresh, TypeOK, reqVars, queueVars
<1>14. CASE UNCHANGED vars
  BY <1>14 DEF TypeOK, vars, reqVars, queueVars, slotVars, envVars
<1>15. QED
  BY <1>1, <1>2, <1>3, <1>4, <1>5, <1>6, <1>7, <1>8, <1>9, <1>10, <1>11, <1>12, <1>13, <1>14
     DEF RefreshNext, Next, Scheduling, Waiting, Serving, Planner, Workers

\* The initial state has the types.
LEMMA TypeInit == Init => TypeOK
BY ConstantsAssumption DEF Init, TypeOK, LocalPairs

\* The state of the scheduler keeps its shape: the active counts stay natural
\* numbers although decrements and transfers are taken in any order.
THEOREM TypeCorrect == RefreshSpec => []TypeOK
<1>1. QED
  BY TypeInit, TypeStep, PTL DEF RefreshSpec

----------------------------------------------------------------------------
(* The queue: the inductive strengthening of NoWaiterLost *)

\* Entry ids are fresh when given, and name one entry.
IdsFresh == /\ 0 < nextId
            /\ \A e \in queue : 0 < e.id /\ e.id < nextId
            /\ \A r \in Requests : entryId[r] < nextId
            /\ \A e \in queue, f \in queue : e.id = f.id => e = f

\* A request has at most one entry; an entry stands for a request that has
\* queued for a model it wants and that nobody has dispatched.
OneEntryEach ==
    /\ \A e \in queue, f \in queue : e.req = f.req => e = f
    /\ \A e \in queue :
          /\ e.model \in Wants[e.req]
          /\ e.req \notin inFlight
          /\ fut[e.req] \in {"pending", "cancelled"}

\* What a waiter removes on a timeout is never another waiter's entry.
OwnEntry == \A e \in queue, r \in Requests : e.id = entryId[r] => e.req = r

\* A Future is pending only while its task waits for it uncancelled.
PendingWaits ==
    \A r \in Requests :
        /\ pc[r] = "idle" => fut[r] = "none" /\ ~cancelled[r] /\ r \notin inFlight
        /\ fut[r] = "pending" => pc[r] = "queued" /\ ~cancelled[r]

StillQueued ==
    \A r \in Requests :
        fut[r] = "pending" /\ r \notin inFlight => \E e \in queue : e.req = r

QueueInv == /\ TypeOK /\ IsFiniteSet(queue)
            /\ IdsFresh /\ OneEntryEach /\ OwnEntry /\ PendingWaits /\ StillQueued


\* A live entry behind another one is not among the first popped.
LEMMA FirstPopped ==
    ASSUME QueueInv, NEW m, NEW e \in Live(m), NEW f \in Live(m), Before(e, f)
    PROVE  f \notin Popped(m, 1)
<1> DEFINE S == {g \in Live(f.model) : Before(g, f)}
<1>1. e \in S /\ S \subseteq queue
  BY DEF Live
<1>2. IsFiniteSet(S)
  BY <1>1, FS_Subset DEF QueueInv
<1>3. Cardinality(S) # 0 /\ Cardinality(S) \in Nat
  BY <1>1, <1>2, FS_EmptySet, FS_CardinalityType
<1>4. QED
  BY <1>3 DEF Popped, Ahead

\* Popping one live entry takes the first one, and no other live one.
LEMMA PopTakesFirst ==
    ASSUME QueueInv, NEW m, NEW e \in Live(m), \A f \in Live(m) \ {e} : Before(e, f)
    PROVE  e \in Popped(m, 1) /\ \A f \in Popped(m, 1) : fut[f.req] = "pending" => f = e
<1>1. e \in queue /\ e.model = m
  BY DEF Live
<1>2. {g \in Live(m) : Before(g, e)} = {}
  <2>1. \A g \in Live(m) : ~Before(g, e)
    BY <1>1 DEF Before, Live, QueueInv, TypeOK, Entry
  <2>2. QED
    BY <2>1
<1>3. e \in Popped(m, 1)
  BY <1>1, <1>2, FS_EmptySet DEF Popped, Ahead
<1>4. \A f \in Popped(m, 1) : fut[f.req] = "pending" => f = e
  BY FirstPopped DEF Popped, Live
<1>5. QED
  BY <1>3, <1>4

\* Steps that leave the queue and the Futures alone.
LEMMA QueueUntouched ==
    ASSUME QueueInv, TypeOK',
           UNCHANGED <<queueVars, entryId, fut, cancelled, inFlight>>,
           \A r \in Requests :
               pc'[r] = pc[r] \/ (fut[r] # "pending" /\ pc'[r] # "idle")
    PROVE  QueueInv'
<1>1. IdsFresh' /\ OneEntryEach' /\ OwnEntry' /\ StillQueued'
  BY DEF QueueInv, IdsFresh, OneEntryEach, OwnEntry, StillQueued, queueVars
<1>2. PendingWaits'
  BY DEF QueueInv, PendingWaits
<1>3. QED
  BY <1>1, <1>2 DEF QueueInv, queueVars

\* release() takes the first live waiter off the queue, or puts it back under a
\* fresh entry: nobody else's place is touched.
LEMMA ReleaseQueue ==
    ASSUME QueueInv, TypeOK', NEW r \in Requests, Release(r),
           pc[r] \in {"resolving", "executing"}
    PROVE  QueueInv'
<1> DEFINE m == PairOf(grant[r])[1]
           P == Popped(m, 1)
<1>1. P \subseteq queue /\ \A f \in P : f.model = m
  BY DEF Popped
<1>2. /\ UNCHANGED <<fut, cancelled, entryId>>
      /\ pc' = [pc EXCEPT ![r] = "done"]
  BY DEF Release
<1>3. fut[r] # "pending"
  BY DEF PendingWaits, QueueInv
<1>4. ASSUME \A x \in inFlight' \ inFlight : pc[x] # "idle"
      PROVE  PendingWaits'
  BY <1>2, <1>3, <1>4 DEF PendingWaits, QueueInv, TypeOK
<1>5. CASE ReleaseToNobody(r)
  <2>1. queue' = queue \ P /\ inFlight' = inFlight /\ nextId' = nextId /\ Live(m) = {}
    BY <1>5 DEF ReleaseToNobody
  <2>2. IdsFresh' /\ OneEntryEach' /\ OwnEntry' /\ IsFiniteSet(queue')
    BY <1>2, <2>1, FS_Subset DEF QueueInv, IdsFresh, OneEntryEach, OwnEntry
  <2>3. StillQueued'
    BY <1>1, <1>2, <2>1 DEF QueueInv, StillQueued, Live
  <2>4. QED
    BY <1>4, <2>1, <2>2, <2>3 DEF QueueInv
<1>6. CASE ReleaseToWaiter(r)
  <2>1. PICK e \in Live(m) :
          /\ \A f \in Live(m) \ {e} : Before(e, f)
          /\ queue' = queue \ P
          /\ inFlight' = inFlight \cup {e.req}
          /\ nextId' = nextId
    BY <1>6 DEF ReleaseToWaiter
  <2>2. e \in queue /\ fut[e.req] = "pending" /\ e.req \in Requests
    BY DEF Live, QueueInv, TypeOK, Entry
  <2>3. e \in P /\ \A f \in P : fut[f.req] = "pending" => f = e
    BY <2>1, PopTakesFirst
  <2>5. IdsFresh' /\ OwnEntry' /\ IsFiniteSet(queue')
    BY <1>2, <2>1, FS_Subset DEF QueueInv, IdsFresh, OwnEntry
  <2>6. OneEntryEach'
    BY <1>2, <2>1, <2>2, <2>3 DEF QueueInv, OneEntryEach
  <2>7. StillQueued'
    BY <1>2, <2>1, <2>3 DEF QueueInv, StillQueued
  <2>8. PendingWaits'
    BY <1>4, <2>1, <2>2 DEF QueueInv, PendingWaits
  <2>9. QED
    BY <2>5, <2>6, <2>7, <2>8 DEF QueueInv
<1>7. CASE ReleaseAndRequeue(r)
  <2>1. PICK e \in Live(m) :
          /\ \A f \in Live(m) \ {e} : Before(e, f)
          /\ queue' = (queue \ P) \cup {NewEntry(m, e.req, e.prio)}
          /\ nextId' = nextId + 1
          /\ inFlight' = inFlight
    BY <1>7 DEF ReleaseAndRequeue
  <2> DEFINE n == NewEntry(m, e.req, e.prio)
  <2>2. /\ e \in queue /\ fut[e.req] = "pending" /\ e.req \in Requests
        /\ n.id = nextId /\ n.req = e.req /\ n.model = e.model
    BY DEF Live, QueueInv, TypeOK, Entry, NewEntry
  <2>3. e \in P /\ \A f \in P : fut[f.req] = "pending" => f = e
    BY <2>1, PopTakesFirst
  <2>5. IdsFresh'
    BY <1>2, <2>1, <2>2 DEF QueueInv, TypeOK, Entry, IdsFresh
  <2>6. OwnEntry'
    BY <1>2, <2>1, <2>2 DEF QueueInv, TypeOK, IdsFresh, OwnEntry
  <2>7. OneEntryEach'
    BY <1>2, <2>1, <2>2, <2>3 DEF QueueInv, OneEntryEach
  <2>8. StillQueued'
    BY <1>2, <2>1, <2>2, <2>3 DEF QueueInv, StillQueued
  <2>9. IsFiniteSet(queue')
    BY <2>1, FS_Subset, FS_AddElement DEF QueueInv
  <2>10. QED
    BY <1>4, <2>1, <2>5, <2>6, <2>7, <2>8, <2>9 DEF QueueInv
<1>8. QED
  BY <1>5, <1>6, <1>7 DEF Release

\* Reevaluation pops every waiter it can serve and schedules its result.
LEMMA ReevaluateQueue ==
    ASSUME QueueInv, TypeOK', NEW d \in LocalPairs, Reevaluate(d)
    PROVE  QueueInv'
<1> DEFINE P == UNION {Popped(m, SlotsOf(m, Eligible(m))) : m \in Models}
<1>1. /\ UNCHANGED <<pc, fut, cancelled, entryId, nextId>>
      /\ queue' = queue \ P
      /\ inFlight' = inFlight \cup {e.req : e \in Dispatchable}
  BY DEF Reevaluate
<1>2. \A e \in P : fut[e.req] = "pending" => e \in Dispatchable
  BY DEF Popped, Dispatchable
<1>3. \A e \in Dispatchable : e \in queue /\ e \in P /\ fut[e.req] = "pending"
  BY DEF Popped, Dispatchable, QueueInv, TypeOK, Entry
<1>4. IdsFresh' /\ OwnEntry' /\ IsFiniteSet(queue')
  BY <1>1, FS_Subset DEF QueueInv, IdsFresh, OwnEntry
<1>5. OneEntryEach'
  BY <1>1, <1>3 DEF QueueInv, OneEntryEach
<1>6. PendingWaits'
  BY <1>1, <1>3 DEF QueueInv, PendingWaits, TypeOK
<1>7. StillQueued'
  BY <1>1, <1>2 DEF QueueInv, StillQueued
<1>8. QED
  BY <1>4, <1>5, <1>6, <1>7 DEF QueueInv

\* No step loses a waiter.
LEMMA QueueStep == QueueInv /\ [RefreshNext]_vars => QueueInv'
<1> SUFFICES ASSUME QueueInv, [RefreshNext]_vars PROVE QueueInv'
  OBVIOUS
<1>0. TypeOK' /\ TypeOK
  BY TypeStep DEF QueueInv
<1>1. ASSUME NEW r \in Requests, NEW d \in Deployments,
             ReserveLocal(r, d) \/ AcceptCloud(r, d)
      PROVE  QueueInv'
  <2>1. fut[r] # "pending"
    BY <1>1 DEF QueueInv, PendingWaits, ReserveLocal, AcceptCloud
  <2>2. /\ UNCHANGED <<queueVars, entryId, fut, cancelled, inFlight>>
        /\ pc' = [pc EXCEPT ![r] = "resolving"]
    BY <1>1 DEF ReserveLocal, AcceptCloud
  <2>3. QED
    BY <1>0, <2>1, <2>2, QueueUntouched DEF TypeOK
<1>2. ASSUME NEW r \in Requests, NEW d \in Deployments, Enqueue(r, d) PROVE QueueInv'
  <2> DEFINE n == NewEntry(d[1], r, Prio[r])
  <2>1. /\ n.id = nextId /\ n.req = r /\ n.model = d[1] /\ d[1] \in Wants[r]
        /\ queue' = queue \cup {n} /\ nextId' = nextId + 1
        /\ pc' = [pc EXCEPT ![r] = "queued"]
        /\ fut' = [fut EXCEPT ![r] = "pending"]
        /\ entryId' = [entryId EXCEPT ![r] = nextId]
        /\ UNCHANGED <<cancelled, inFlight>>
    BY <1>2 DEF Enqueue, NewEntry, Candidates
  <2>2. fut[r] = "none" /\ r \notin inFlight /\ \A e \in queue : e.req # r
    BY <1>2 DEF Enqueue, QueueInv, PendingWaits, OneEntryEach
  <2>3. IdsFresh' /\ IsFiniteSet(queue')
    BY <1>0, <2>1, FS_AddElement DEF QueueInv, IdsFresh, TypeOK, Entry
  <2>4. OwnEntry'
    BY <1>0, <2>1 DEF QueueInv, OwnEntry, IdsFresh, TypeOK, Entry
  <2>5. OneEntryEach'
    BY <1>0, <2>1, <2>2 DEF QueueInv, OneEntryEach, TypeOK, Entry
  <2>6. ~cancelled[r]
    BY <1>2 DEF QueueInv, PendingWaits, Enqueue
  <2>7. PendingWaits'
    BY <1>0, <2>1, <2>6 DEF QueueInv, PendingWaits, TypeOK
  <2>8. StillQueued'
    BY <1>0, <2>1 DEF QueueInv, StillQueued, TypeOK
  <2>9. QED
    BY <1>0, <2>3, <2>4, <2>5, <2>7, <2>8 DEF QueueInv
<1>3. ASSUME NEW r \in Requests, Reject(r) PROVE QueueInv'
  <2>1. fut[r] # "pending"
    BY <1>3 DEF QueueInv, PendingWaits, Reject
  <2>2. QED
    BY <1>0, <1>3, <2>1, QueueUntouched DEF Reject, TypeOK
<1>4. ASSUME NEW r \in Requests, DeliverResult(r) PROVE QueueInv'
  <2>1. /\ inFlight' = inFlight \ {r} /\ r \in inFlight
        /\ fut' = [fut EXCEPT ![r] = IF @ = "pending" THEN "result" ELSE @]
        /\ UNCHANGED <<pc, cancelled, entryId, queue, nextId>>
    BY <1>4 DEF DeliverResult, queueVars
  <2>2. \A e \in queue : e.req # r
    BY <2>1 DEF QueueInv, OneEntryEach
  <2>3. IdsFresh' /\ OwnEntry' /\ OneEntryEach'
    BY <1>0, <2>1, <2>2 DEF QueueInv, IdsFresh, OwnEntry, OneEntryEach, TypeOK
  <2>4. PendingWaits' /\ StillQueued'
    BY <1>0, <2>1 DEF QueueInv, PendingWaits, StillQueued, TypeOK
  <2>5. QED
    BY <1>0, <2>1, <2>3, <2>4 DEF QueueInv
<1>5. ASSUME NEW r \in Requests, Cancel(r) PROVE QueueInv'
  <2>1. /\ cancelled' = [cancelled EXCEPT ![r] = TRUE]
        /\ fut' = [fut EXCEPT ![r] = IF @ = "pending" THEN "cancelled" ELSE @]
        /\ UNCHANGED <<pc, inFlight, entryId, queue, nextId>>
    BY <1>5 DEF Cancel, queueVars
  <2>2. IdsFresh' /\ OwnEntry' /\ OneEntryEach'
    BY <1>0, <2>1 DEF QueueInv, IdsFresh, OwnEntry, OneEntryEach, TypeOK, Entry
  <2>3. PendingWaits' /\ StillQueued'
    BY <1>0, <1>5, <2>1 DEF QueueInv, PendingWaits, StillQueued, TypeOK, Cancel
  <2>4. QED
    BY <1>0, <2>1, <2>2, <2>3 DEF QueueInv
<1>6. ASSUME NEW r \in Requests, ResumeCancelled(r) PROVE QueueInv'
  <2>1. /\ queue' = {e \in queue : e.id # entryId[r]}
        /\ pc' = [pc EXCEPT ![r] = "done"]
        /\ UNCHANGED <<fut, cancelled, inFlight, entryId, nextId>>
    BY <1>6 DEF ResumeCancelled
  <2>2. fut[r] # "pending"
    BY <1>6 DEF ResumeCancelled, QueueInv, PendingWaits
  <2>3. IdsFresh' /\ OwnEntry' /\ OneEntryEach' /\ IsFiniteSet(queue')
    BY <2>1, FS_Subset DEF QueueInv, IdsFresh, OwnEntry, OneEntryEach
  <2>4. StillQueued'
    BY <2>1, <2>2 DEF QueueInv, StillQueued, OwnEntry
  <2>5. PendingWaits'
    BY <1>0, <2>1, <2>2 DEF QueueInv, PendingWaits, TypeOK
  <2>6. QED
    BY <1>0, <2>3, <2>4, <2>5 DEF QueueInv
<1>7. ASSUME NEW r \in Requests, Resume(r) PROVE QueueInv'
  <2>1. UNCHANGED <<queueVars, entryId, fut, cancelled, inFlight>>
    BY <1>7 DEF Resume
  <2>2. /\ fut[r] # "pending"
        /\ \/ pc' = [pc EXCEPT ![r] = "resolving"]
           \/ pc' = [pc EXCEPT ![r] = "done"]
    BY <1>7 DEF Resume
  <2>3. QED
    BY <1>0, <2>1, <2>2, QueueUntouched DEF TypeOK
<1>8. ASSUME NEW r \in Requests, ContextFailed(r) \/ Finish(r) PROVE QueueInv'
  BY <1>0, <1>8, ReleaseQueue DEF ContextFailed, Finish
<1>9. ASSUME NEW r \in Requests,
             ContextResolved(r) \/ StreamHandedOn(r) \/ StreamStarted(r) \/ Abandon(r)
      PROVE  QueueInv'
  <2>1. /\ fut[r] # "pending"
        /\ \/ pc' = [pc EXCEPT ![r] = "executing"]
           \/ pc' = [pc EXCEPT ![r] = "handed"]
           \/ pc' = [pc EXCEPT ![r] = "done"]
    BY <1>9 DEF ContextResolved, StreamHandedOn, StreamStarted, Abandon, QueueInv, PendingWaits
  <2>2. UNCHANGED <<queueVars, entryId, fut, cancelled, inFlight>>
    BY <1>9 DEF ContextResolved, StreamHandedOn, StreamStarted, Abandon
  <2>3. QED
    BY <1>0, <2>1, <2>2, QueueUntouched DEF TypeOK
<1>10. ASSUME NEW d \in LocalPairs, Reevaluate(d) PROVE QueueInv'
  BY <1>0, <1>10, ReevaluateQueue
<1>11. ASSUME UNCHANGED <<reqVars, queueVars>> PROVE QueueInv'
  BY <1>0, <1>11, QueueUntouched DEF reqVars
<1>12. QED
  BY <1>1, <1>2, <1>3, <1>4, <1>5, <1>6, <1>7, <1>8, <1>9, <1>10, <1>11
     DEF RefreshNext, Next, Scheduling, Waiting, Serving, Planner, Workers, PlannerOrders,
         PlannerGivesUp, LaneChanges, NodeChanges, Refresh, vars

\* Initially nobody queues and nobody waits.
LEMMA InitQueue == Init => QueueInv
BY TypeInit, FS_EmptySet
   DEF Init, QueueInv, IdsFresh, OneEntryEach, OwnEntry, PendingWaits, StillQueued

\* An undispatched waiter stays in the queue exactly once, whatever is
\* cancelled, timed out, put back, dropped or refreshed meanwhile.
THEOREM WaitersKept == RefreshSpec => []NoWaiterLost
<1>1. Init => QueueInv
  BY TypeInit, FS_EmptySet
     DEF Init, QueueInv, IdsFresh, OneEntryEach, OwnEntry, PendingWaits, StillQueued
<1>2. QueueInv => NoWaiterLost
  BY DEF QueueInv, NoWaiterLost, StillQueued, OneEntryEach
<1>3. QED
  BY <1>1, <1>2, QueueStep, PTL DEF RefreshSpec

----------------------------------------------------------------------------
(* The slots: the inductive strengthening of SlotAccounting *)

GrantsKnown ==
    \A r \in Requests :
        /\ grant[r] # None /\ grant[r].provider \in Local => PairOf(grant[r]) \in deployed
        /\ pc[r] \in {"idle", "queued"} => counted[r] = None
        /\ pc[r] = "idle" => grant[r] = None

\* Whoever has a slot is counted exactly where its grant says.
HolderCounted ==
    \A r \in Requests :
        pc[r] \in {"resolving", "handed", "executing"} =>
            /\ grant[r] # None
            /\ counted[r] = IF grant[r].provider \in Local THEN PairOf(grant[r]) ELSE None

\* Nobody in the queue has a result; everybody dispatched has one.
GrantedOnDispatch ==
    /\ \A e \in queue : grant[e.req] = None
    /\ \A r \in Requests :
          pc[r] = "queued" /\ (r \in inFlight \/ fut[r] = "result") => grant[r] # None

SlotInv == /\ QueueInv /\ tracking = counted
           /\ GrantedOnDispatch /\ GrantsKnown /\ HolderCounted /\ SlotAccounting

\* The deployment of a grant.
LEMMA GrantPair ==
    ASSUME NEW d \in Deployments, NEW t \in BOOLEAN
    PROVE  /\ GrantOf(d, t) \in Grant /\ GrantOf(d, t) # None
           /\ GrantOf(d, t).provider = d[2] /\ GrantOf(d, t).transferred = t
           /\ PairOf(GrantOf(d, t)) = d
BY ConstantsAssumption DEF GrantOf, Grant, PairOf, Deployments

\* No deployment is None.
LEMMA NoneIsNoPair == None \notin LocalPairs
BY ConstantsAssumption DEF LocalPairs, Deployments, Providers

\* Finitely many requests are counted at a deployment.
LEMMA OwnersFinite == \A d : IsFiniteSet(Owners(d))
BY ConstantsAssumption, FS_Subset DEF Owners

\* A request that becomes an owner raises the count it owns.
LEMMA OwnerAdded ==
    ASSUME TypeOK, SlotAccounting, NEW d \in LocalPairs, NEW r, r \notin Owners(d),
           Owners(d)' = Owners(d) \cup {r},
           \A c \in LocalPairs \ {d} : Owners(c)' = Owners(c),
           active' = [active EXCEPT ![d] = @ + 1]
    PROVE  SlotAccounting'
<1>1. Cardinality(Owners(d) \cup {r}) = Cardinality(Owners(d)) + 1
  BY OwnersFinite, FS_AddElement
<1>2. QED
  BY <1>1 DEF SlotAccounting, TypeOK

\* A request that stops being an owner lowers it.
LEMMA OwnerRemoved ==
    ASSUME TypeOK, SlotAccounting, NEW d \in LocalPairs, NEW r, r \in Owners(d),
           Owners(d)' = Owners(d) \ {r},
           \A c \in LocalPairs \ {d} : Owners(c)' = Owners(c),
           active' = IF active[d] = 0 THEN active ELSE [active EXCEPT ![d] = @ - 1]
    PROVE  SlotAccounting'
<1>1. Cardinality(Owners(d) \ {r}) = Cardinality(Owners(d)) - 1
  BY OwnersFinite, FS_RemoveElement
<1>2. Cardinality(Owners(d)) # 0
  BY OwnersFinite, FS_EmptySet
<1>3. QED
  BY <1>1, <1>2 DEF SlotAccounting, TypeOK

\* A slot that changes hands leaves it.
LEMMA OwnerReplaced ==
    ASSUME TypeOK, SlotAccounting, NEW d \in LocalPairs, NEW r, NEW h,
           r \in Owners(d), h \notin Owners(d),
           Owners(d)' = (Owners(d) \ {r}) \cup {h},
           \A c \in LocalPairs \ {d} : Owners(c)' = Owners(c),
           UNCHANGED active
    PROVE  SlotAccounting'
<1>1. /\ Cardinality(Owners(d) \ {r}) = Cardinality(Owners(d)) - 1
      /\ Cardinality(Owners(d)) \in Nat
      /\ IsFiniteSet(Owners(d) \ {r})
  BY OwnersFinite, FS_RemoveElement, FS_CardinalityType
<1>2. Cardinality((Owners(d) \ {r}) \cup {h}) = Cardinality(Owners(d) \ {r}) + 1
  BY <1>1, FS_AddElement
<1>3. Cardinality(Owners(d)') = Cardinality(Owners(d))
  BY <1>1, <1>2
<1>4. QED
  BY <1>3 DEF SlotAccounting

\* Steps that touch neither slots nor grants.
LEMMA SlotsUntouched ==
    ASSUME SlotInv, TypeOK', UNCHANGED <<slotVars, grant, deployed>>, QueueInv',
           \A r \in Requests :
               \/ pc'[r] = pc[r]
               \/ pc'[r] = "done"
               \/ pc[r] = "idle" /\ pc'[r] = "queued"
               \/ /\ pc[r] \in {"resolving", "handed"}
                  /\ pc'[r] \in {"handed", "executing"},
           \A e \in queue' : e \in queue \/ grant[e.req] = None,
           \A r \in Requests :
               pc'[r] = "queued" /\ (r \in inFlight' \/ fut'[r] = "result") =>
               pc[r] = "queued" /\ (r \in inFlight \/ fut[r] = "result")
    PROVE  SlotInv'
<1>1. SlotAccounting' /\ (tracking = counted)'
  BY DEF SlotInv, SlotAccounting, Owners, slotVars
<1>2. GrantsKnown'
  BY DEF SlotInv, GrantsKnown, slotVars
<1>3. HolderCounted'
  BY DEF SlotInv, HolderCounted, slotVars
<1>4. GrantedOnDispatch'
  BY DEF SlotInv, GrantedOnDispatch
<1>5. QED
  BY <1>1, <1>2, <1>3, <1>4 DEF SlotInv

\* release() gives up the slot of the request, or hands it to the waiter.
LEMMA ReleaseSlots ==
    ASSUME SlotInv, TypeOK', QueueInv', NEW r \in Requests, Release(r),
           pc[r] \in {"resolving", "executing"}
    PROVE  SlotInv'
<1>0. TypeOK
  BY DEF SlotInv, QueueInv
<1>1. PICK d \in Deployments :
        /\ grant[r] # None /\ d = PairOf(grant[r])
        /\ counted[r] = IF d \in LocalPairs THEN d ELSE None
        /\ tracking[r] = counted[r]
        /\ d \in LocalPairs <=> d[2] \in Local
  <2>1. grant[r] # None /\ grant[r] \in Grant
    BY <1>0 DEF SlotInv, HolderCounted, TypeOK
  <2>2. /\ PairOf(grant[r]) \in Deployments
        /\ PairOf(grant[r]) \in LocalPairs <=> grant[r].provider \in Local
        /\ PairOf(grant[r])[2] = grant[r].provider
    BY <2>1 DEF PairOf, Grant, Deployments, LocalPairs
  <2>3. /\ counted[r] = IF grant[r].provider \in Local THEN PairOf(grant[r]) ELSE None
        /\ tracking[r] = counted[r]
    BY DEF SlotInv, HolderCounted
  <2>4. QED
    BY <2>1, <2>2, <2>3
<1>2. /\ pc' = [pc EXCEPT ![r] = "done"]
      /\ UNCHANGED <<fut, deployed>>
  BY DEF Release, envVars
<1>3. ASSUME CompleteSlot(r, TRUE) \/ CompleteSlot(r, FALSE)
      PROVE  /\ tracking' = counted'
             /\ counted' = [counted EXCEPT ![r] = None]
             /\ d \notin LocalPairs => active' = active
  <2>1. tracking \in [Requests -> LocalPairs \cup {None}] /\ tracking = counted
    BY <1>0 DEF TypeOK, SlotInv
  <2>2. CASE tracking[r] = None
    BY <1>3, <2>1, <2>2 DEF CompleteSlot, slotVars
  <2>3. CASE tracking[r] # None
    BY <1>1, <1>3, <2>1, <2>3 DEF CompleteSlot
  <2>4. QED
    BY <2>2, <2>3
<1>4. d \in LocalPairs => r \in Owners(d)
  BY <1>1 DEF Owners
<1>5. \A c \in LocalPairs \ {d} : r \notin Owners(c)
  BY <1>1, NoneIsNoPair DEF Owners
<1>6. CASE /\ UNCHANGED inFlight
           /\ grant' = [grant EXCEPT ![r] = None]
           /\ CompleteSlot(r, FALSE)
           /\ \A e \in queue' : \E f \in queue : f.req = e.req
  <2>1. \A c \in LocalPairs : Owners(c)' = Owners(c) \ {r}
    <3>1. SUFFICES ASSUME NEW c \in LocalPairs, NEW x \in Requests
                   PROVE  (x \in Owners(c))' <=> x # r /\ x \in Owners(c)
      BY DEF Owners
    <3>2. CASE x = r
      BY <1>0, <1>3, <1>6, <3>2, NoneIsNoPair DEF Owners, TypeOK
    <3>3. CASE x # r
      BY <1>0, <1>3, <1>6, <3>3 DEF Owners, TypeOK
    <3>4. QED
      BY <3>2, <3>3
  <2>2. SlotAccounting'
    <3>1. CASE d \in LocalPairs
      <4>1. active' = IF active[d] = 0 THEN active ELSE [active EXCEPT ![d] = @ - 1]
        BY <1>1, <1>6, <3>1, NoneIsNoPair DEF CompleteSlot
      <4>2. QED
        BY <1>0, <1>4, <1>5, <2>1, <3>1, <4>1, OwnerRemoved DEF SlotInv
    <3>2. CASE d \notin LocalPairs
      BY <1>3, <1>5, <1>6, <2>1, <3>2 DEF SlotInv, SlotAccounting
    <3>3. QED
      BY <3>1, <3>2
  <2>3. GrantsKnown' /\ HolderCounted'
    BY <1>0, <1>1, <1>2, <1>3, <1>6 DEF SlotInv, GrantsKnown, HolderCounted, TypeOK
  <2>4. GrantedOnDispatch'
    BY <1>0, <1>1, <1>2, <1>6 DEF SlotInv, GrantedOnDispatch, TypeOK, QueueInv
  <2>5. QED
    BY <1>3, <1>6, <2>2, <2>3, <2>4 DEF SlotInv
<1>7. CASE ReleaseToWaiter(r)
  <2>1. PICK e \in Live(d[1]) :
          /\ d[2] \in Cloud \/ LaneReady(d)
          /\ \A f \in Live(d[1]) \ {e} : Before(e, f)
          /\ queue' = queue \ Popped(d[1], 1)
          /\ CompleteSlot(r, TRUE)
          /\ grant' = [grant EXCEPT ![r] = None, ![e.req] = GrantOf(d, TRUE)]
          /\ inFlight' = inFlight \cup {e.req}
    BY <1>1, <1>7 DEF ReleaseToWaiter
  <2> DEFINE h == e.req
  <2>2. /\ e \in queue /\ h \in Requests /\ fut[h] = "pending" /\ grant[h] = None
        /\ pc[h] = "queued" /\ counted[h] = None /\ h # r
    BY <1>0 DEF Live, TypeOK, Entry, SlotInv, QueueInv, PendingWaits, GrantedOnDispatch,
                GrantsKnown
  <2>3. /\ grant'[r] = None /\ grant'[h] = GrantOf(d, TRUE)
        /\ \A x \in Requests \ {r, h} : grant'[x] = grant[x]
        /\ counted'[r] = None
        /\ \A x \in Requests \ {r} : counted'[x] = counted[x]
    <3>1. counted' = [counted EXCEPT ![r] = None]
      BY <1>3, <2>1
    <3>2. grant' = [grant EXCEPT ![r] = None, ![h] = GrantOf(d, TRUE)]
      BY <2>1
    <3>3. grant \in [Requests -> Grant \cup {None}]
          /\ counted \in [Requests -> LocalPairs \cup {None}]
      BY <1>0 DEF TypeOK
    <3>4. QED
      BY <2>2, <3>1, <3>2, <3>3
  <2>4. /\ GrantOf(d, TRUE) # None /\ GrantOf(d, TRUE).transferred
        /\ PairOf(GrantOf(d, TRUE)) = d /\ GrantOf(d, TRUE).provider = d[2]
    BY <1>1, GrantPair
  <2>5. \A c \in LocalPairs : h \notin Owners(c)
    BY <2>2, NoneIsNoPair DEF Owners
  <2>6. \A c \in LocalPairs \ {d} : Owners(c)' = Owners(c)
    <3>1. SUFFICES ASSUME NEW c \in LocalPairs \ {d}, NEW x \in Requests
                   PROVE  (x \in Owners(c))' <=> x \in Owners(c)
      BY DEF Owners
    <3>2. CASE x = r
      BY <1>5, <2>3, <3>2, NoneIsNoPair DEF Owners
    <3>3. CASE x = h
      BY <2>2, <2>3, <2>4, <2>5, <3>3 DEF Owners
    <3>4. CASE x \notin {r, h}
      BY <2>3, <3>4 DEF Owners
    <3>5. QED
      BY <3>2, <3>3, <3>4
  <2>7. d \in LocalPairs => Owners(d)' = (Owners(d) \ {r}) \cup {h}
    <3>1. SUFFICES ASSUME d \in LocalPairs, NEW x \in Requests
                   PROVE  (x \in Owners(d))' <=> x = h \/ (x # r /\ x \in Owners(d))
      BY <2>2 DEF Owners
    <3>2. CASE x = r
      BY <2>2, <2>3, <3>1, <3>2, NoneIsNoPair DEF Owners
    <3>3. CASE x = h
      BY <2>2, <2>3, <2>4, <3>3 DEF Owners
    <3>4. CASE x \notin {r, h}
      BY <2>3, <3>4 DEF Owners
    <3>5. QED
      BY <3>2, <3>3, <3>4
  <2>8. UNCHANGED active
    BY <1>0, <2>1 DEF CompleteSlot, slotVars
  <2>9. SlotAccounting'
    <3>1. CASE d \in LocalPairs
      BY <1>0, <1>4, <2>5, <2>6, <2>7, <2>8, <3>1, OwnerReplaced DEF SlotInv
    <3>2. CASE d \notin LocalPairs
      BY <2>6, <2>8, <3>2 DEF SlotInv, SlotAccounting
    <3>3. QED
      BY <3>1, <3>2
  <2>10. GrantsKnown'
    <3>1. d[2] \in Local => d \in deployed
      BY <2>1, ConstantsAssumption DEF LaneReady
    <3>2. \A x \in Requests : x # r => pc'[x] = pc[x]
      BY <1>0, <1>2 DEF TypeOK
    <3>3. pc'[r] = "done"
      BY <1>0, <1>2 DEF TypeOK
    <3>4. \A x \in Requests : pc'[x] = "idle" => grant'[x] = None
      BY <2>2, <2>3, <3>2, <3>3 DEF SlotInv, GrantsKnown
    <3>5. \A x \in Requests : pc'[x] \in {"idle", "queued"} => counted'[x] = None
      BY <2>3, <3>2, <3>3 DEF SlotInv, GrantsKnown
    <3>6. \A x \in Requests : grant'[x] # None /\ grant'[x].provider \in Local =>
                                  PairOf(grant'[x]) \in deployed
      <4>1. ASSUME NEW x \in Requests \ {r, h}, grant'[x] # None, grant'[x].provider \in Local
            PROVE  PairOf(grant'[x]) \in deployed
        <5>1. grant'[x] = grant[x]
          BY <2>3
        <5>2. QED
          BY <4>1, <5>1 DEF SlotInv, GrantsKnown
      <4>2. grant'[h].provider \in Local => PairOf(grant'[h]) \in deployed
        BY <2>3, <2>4, <3>1
      <4>3. QED
        BY <2>3, <4>1, <4>2
    <3>7. QED
      BY <1>2, <3>4, <3>5, <3>6 DEF GrantsKnown
  <2>11. HolderCounted'
    BY <1>0, <1>2, <2>2, <2>3 DEF SlotInv, HolderCounted, TypeOK
  <2>12. GrantedOnDispatch'
    <3>1. \A f \in queue' : f \in queue /\ f.req # h /\ f.req # r
      BY <1>1, <2>1, <2>2, PopTakesFirst
         DEF SlotInv, QueueInv, OneEntryEach, GrantedOnDispatch
    <3>2. \A f \in queue' : grant'[f.req] = None
      BY <1>0, <2>3, <3>1 DEF SlotInv, GrantedOnDispatch, TypeOK, Entry
    <3>3. \A x \in Requests : pc'[x] = "queued" => x # r /\ pc[x] = "queued"
      BY <1>0, <1>2 DEF TypeOK
    <3>4. QED
      BY <1>2, <2>1, <2>3, <2>4, <3>2, <3>3 DEF SlotInv, GrantedOnDispatch
  <2>13. QED
    BY <1>3, <2>1, <2>9, <2>10, <2>11, <2>12 DEF SlotInv
<1>8. QED
  <2>1. CASE ReleaseToNobody(r)
    BY <1>6, <2>1 DEF ReleaseToNobody
  <2>2. CASE ReleaseAndRequeue(r)
    <3>1. PICK e \in Live(d[1]) :
            /\ queue' = (queue \ Popped(d[1], 1)) \cup {NewEntry(d[1], e.req, e.prio)}
            /\ CompleteSlot(r, FALSE)
            /\ grant' = [grant EXCEPT ![r] = None]
            /\ UNCHANGED inFlight
      BY <1>1, <2>2 DEF ReleaseAndRequeue
    <3>2. e \in queue
      BY DEF Live
    <3>3. NewEntry(d[1], e.req, e.prio).req = e.req
      BY DEF NewEntry
    <3>4. \A f \in queue' : \E g \in queue : g.req = f.req
      BY <3>1, <3>2, <3>3
    <3>5. QED
      BY <1>6, <3>1, <3>4
  <2>3. QED
    BY <1>7, <2>1, <2>2 DEF Release

\* A waiter that resumes takes over its transferred slot, or counts a fresh one.
LEMMA ResumeSlots ==
    ASSUME SlotInv, TypeOK', QueueInv', NEW r \in Requests, Resume(r)
    PROVE  SlotInv'
<1>0. TypeOK
  BY DEF SlotInv, QueueInv
<1>1. /\ pc[r] = "queued" /\ fut[r] = "result"
      /\ pc' = [pc EXCEPT ![r] = "resolving"] \/ pc' = [pc EXCEPT ![r] = "done"]
      /\ UNCHANGED <<fut, grant, inFlight, queue, deployed>>
  BY DEF Resume, queueVars, envVars
<1>2. /\ grant[r] # None /\ grant[r] \in Grant /\ counted[r] = None
  BY <1>0, <1>1 DEF SlotInv, GrantedOnDispatch, GrantsKnown, TypeOK
<1>3. PICK d \in Deployments : d = PairOf(grant[r]) /\ grant[r].provider = d[2]
  <2>1. PairOf(grant[r]) \in Deployments /\ PairOf(grant[r])[2] = grant[r].provider
    BY <1>2 DEF PairOf, Grant, Deployments
  <2>2. QED
    BY <2>1
<1>4. d \in deployed <=> d[2] \in Local
  BY <1>0, <1>2, <1>3 DEF SlotInv, GrantsKnown, TypeOK, LocalPairs
<1>5. GrantedOnDispatch'
  BY <1>0, <1>1 DEF SlotInv, GrantedOnDispatch, TypeOK
<1>6. CASE d \in deployed
  <2>1. /\ pc' = [pc EXCEPT ![r] = "resolving"]
        /\ tracking' = [tracking EXCEPT ![r] = d]
        /\ counted' = [counted EXCEPT ![r] = d]
        /\ active' = IF grant[r].transferred THEN active ELSE [active EXCEPT ![d] = @ + 1]
    <3>1. \E m \in Models : <<m, d[2]>> \in deployed
      BY <1>0, <1>6 DEF Deployments
    <3>2. QED
      BY <1>2, <1>3, <1>6, <3>1 DEF Resume
  <2>2. d \in LocalPairs
    BY <1>0, <1>6 DEF TypeOK
  <2>3. /\ pc'[r] = "resolving" /\ counted'[r] = d
        /\ \A x \in Requests \ {r} : pc'[x] = pc[x] /\ counted'[x] = counted[x]
    BY <1>0, <2>1 DEF TypeOK
  <2>4. /\ r \in Owners(d) <=> grant[r].transferred
        /\ \A c \in LocalPairs \ {d} : r \notin Owners(c)
    BY <1>2, <1>3, <2>2, NoneIsNoPair DEF Owners
  <2>5. \A c \in LocalPairs : Owners(c)' = IF c = d THEN Owners(c) \cup {r} ELSE Owners(c)
    <3>1. SUFFICES ASSUME NEW c \in LocalPairs, NEW x \in Requests
                   PROVE  (x \in Owners(c))' <=> x \in Owners(c) \/ (c = d /\ x = r)
      BY DEF Owners
    <3>2. CASE x = r
      BY <2>2, <2>3, <2>4, <3>2, NoneIsNoPair DEF Owners
    <3>3. CASE x # r
      BY <1>1, <2>3, <3>3 DEF Owners
    <3>4. QED
      BY <3>2, <3>3
  <2>6. SlotAccounting'
    <3>1. CASE grant[r].transferred
      <4>1. /\ UNCHANGED active
            /\ \A c \in LocalPairs : Owners(c)' = Owners(c)
        BY <2>1, <2>4, <2>5, <3>1
      <4>2. QED
        BY <4>1 DEF SlotInv, SlotAccounting
    <3>2. CASE ~grant[r].transferred
      BY <1>0, <2>1, <2>2, <2>4, <2>5, <3>2, OwnerAdded DEF SlotInv
    <3>3. QED
      BY <3>1, <3>2
  <2>7. GrantsKnown'
    BY <1>1, <2>3 DEF SlotInv, GrantsKnown
  <2>8. HolderCounted'
    BY <1>1, <1>2, <1>3, <1>4, <1>6, <2>3 DEF SlotInv, HolderCounted
  <2>9. QED
    BY <1>5, <2>1, <2>6, <2>7, <2>8 DEF SlotInv
<1>7. CASE d \notin deployed
  <2>1. UNCHANGED slotVars
    BY <1>3, <1>7 DEF Resume
  <2>2. SlotAccounting' /\ (tracking = counted)'
    BY <1>1, <2>1 DEF SlotInv, SlotAccounting, Owners, slotVars
  <2>3. \A x \in Requests : pc'[x] = pc[x] \/ (x = r /\ pc'[x] \in {"resolving", "done"})
    BY <1>0, <1>1 DEF TypeOK
  <2>4. GrantsKnown'
    BY <1>1, <2>1, <2>3 DEF SlotInv, GrantsKnown, slotVars
  <2>5. HolderCounted'
    BY <1>1, <1>2, <1>3, <1>4, <1>7, <2>1, <2>3 DEF SlotInv, HolderCounted, slotVars
  <2>6. QED
    BY <1>5, <2>2, <2>4, <2>5 DEF SlotInv
<1>8. QED
  BY <1>6, <1>7

\* What reevaluation hands out is counted only when its takers resume.
LEMMA ReevaluateSlots ==
    ASSUME SlotInv, TypeOK', QueueInv', NEW c \in LocalPairs, Reevaluate(c)
    PROVE  SlotInv'
<1> DEFINE Served == {e.req : e \in Dispatchable}
<1>0. TypeOK
  BY DEF SlotInv, QueueInv
<1>1. /\ UNCHANGED <<pc, fut, slotVars, deployed>>
      /\ queue' \subseteq queue
      /\ inFlight' = inFlight \cup Served
  BY DEF Reevaluate
<1>2. PICK to \in [Dispatchable -> Local] :
        /\ \A e \in Dispatchable : Serves(to[e], e)
        /\ grant' = [r \in Requests |->
              IF \E e \in Dispatchable : e.req = r
              THEN LET e == CHOOSE e \in Dispatchable : e.req = r
                   IN  GrantOf(<<e.model, to[e]>>, FALSE)
              ELSE grant[r]]
  BY DEF Reevaluate
<1>3. \A e \in Dispatchable : /\ e \in queue /\ e.req \in Requests /\ e.model \in Models
                              /\ grant[e.req] = None /\ pc[e.req] = "queued"
                              /\ counted[e.req] = None
  BY <1>0 DEF Dispatchable, SlotInv, GrantedOnDispatch, GrantsKnown, QueueInv,
              PendingWaits, TypeOK, Entry
<1>4. ASSUME NEW r \in Served
      PROVE  /\ r \in Requests /\ grant[r] = None /\ counted[r] = None /\ pc[r] = "queued"
             /\ \E d \in deployed : grant'[r] = GrantOf(d, FALSE)
  <2>1. PICK e \in Dispatchable : /\ e.req = r
                                  /\ grant'[r] = GrantOf(<<e.model, to[e]>>, FALSE)
    BY <1>2, <1>3
  <2>2. <<e.model, to[e]>> \in deployed
    BY <1>2 DEF Serves, Eligible
  <2>3. QED
    BY <1>3, <2>1, <2>2
<1>5. ASSUME NEW r \in Requests \ Served
      PROVE  grant'[r] = grant[r]
  BY <1>2, <1>5
<1>6. ASSUME NEW r \in Served
      PROVE  /\ grant'[r] # None /\ ~grant'[r].transferred
             /\ PairOf(grant'[r]) \in deployed
  <2>1. PICK d \in deployed : grant'[r] = GrantOf(d, FALSE)
    BY <1>4
  <2>2. d \in Deployments
    BY <1>0 DEF TypeOK, LocalPairs, Deployments, Providers
  <2>3. QED
    BY <2>1, <2>2, GrantPair
<1>7. SlotAccounting'
  <2>1. ASSUME NEW d \in LocalPairs PROVE Owners(d)' = Owners(d)
    <3>1. SUFFICES ASSUME NEW x \in Requests
                   PROVE  (x \in Owners(d))' <=> x \in Owners(d)
      BY DEF Owners
    <3>2. CASE x \in Served
      BY <1>1, <1>4, <1>6, <3>2, NoneIsNoPair DEF Owners, slotVars
    <3>3. CASE x \notin Served
      BY <1>1, <1>5, <3>3 DEF Owners, slotVars
    <3>4. QED
      BY <3>2, <3>3
  <2>2. QED
    BY <1>1, <2>1 DEF SlotInv, SlotAccounting, slotVars
<1>8. GrantsKnown'
  <2>1. \A x \in Requests : pc[x] = "idle" => x \notin Served
    BY <1>4
  <2>2. QED
    BY <1>1, <1>5, <1>6, <2>1 DEF SlotInv, GrantsKnown, slotVars
<1>9. HolderCounted'
  BY <1>1, <1>4, <1>5 DEF SlotInv, HolderCounted, slotVars
<1>10. GrantedOnDispatch'
  <2>1. \A e \in queue' : e.req \in Requests \ Served
    <3>1. \A e \in queue' : e.req \notin inFlight' /\ e.req \in Requests
      BY DEF QueueInv, OneEntryEach, TypeOK, Entry
    <3>2. QED
      BY <1>1, <3>1
  <2>2. QED
    BY <1>1, <1>5, <1>6, <2>1 DEF SlotInv, GrantedOnDispatch
<1>11. QED
  BY <1>1, <1>7, <1>8, <1>9, <1>10 DEF SlotInv, slotVars

\* No step without a refresh loses or doubles a slot.
LEMMA SlotStep == SlotInv /\ [Next]_vars => SlotInv'
<1> SUFFICES ASSUME SlotInv, [Next]_vars PROVE SlotInv'
  OBVIOUS
<1>0. TypeOK /\ TypeOK' /\ QueueInv /\ QueueInv'
  BY QueueStep DEF SlotInv, QueueInv, RefreshNext
<1>1. ASSUME NEW r \in Requests, NEW d \in Deployments, ReserveLocal(r, d) PROVE SlotInv'
  <2>1. /\ d \in LocalPairs /\ d \in deployed /\ pc[r] = "idle"
        /\ pc' = [pc EXCEPT ![r] = "resolving"]
        /\ grant' = [grant EXCEPT ![r] = GrantOf(d, FALSE)]
        /\ tracking' = [tracking EXCEPT ![r] = d]
        /\ counted' = [counted EXCEPT ![r] = d]
        /\ active' = [active EXCEPT ![d] = @ + 1]
        /\ UNCHANGED <<fut, inFlight, queue, deployed>>
    BY <1>1 DEF ReserveLocal, Candidates, queueVars, envVars, Reservable, LaneReady
  <2>2. /\ counted[r] = None /\ grant[r] = None
        /\ \A e \in queue : e.req # r
    BY <1>0, <2>1 DEF SlotInv, GrantsKnown, QueueInv, PendingWaits, OneEntryEach
  <2>3. /\ pc'[r] = "resolving" /\ grant'[r] = GrantOf(d, FALSE) /\ counted'[r] = d
        /\ \A x \in Requests \ {r} : pc'[x] = pc[x] /\ grant'[x] = grant[x] /\ counted'[x] = counted[x]
    BY <1>0, <2>1 DEF TypeOK
  <2>4. /\ GrantOf(d, FALSE) # None /\ PairOf(GrantOf(d, FALSE)) = d
        /\ GrantOf(d, FALSE).provider = d[2] /\ d[2] \in Local
    BY <2>1, GrantPair DEF LocalPairs
  <2>5. \A c \in LocalPairs : Owners(c)' = IF c = d THEN Owners(c) \cup {r} ELSE Owners(c)
    <3>1. SUFFICES ASSUME NEW c \in LocalPairs, NEW x \in Requests
                   PROVE  (x \in Owners(c))' <=> x \in Owners(c) \/ (c = d /\ x = r)
      BY DEF Owners
    <3>2. CASE x = r
      BY <2>1, <2>2, <2>3, <3>2, NoneIsNoPair DEF Owners
    <3>3. CASE x # r
      BY <2>3, <3>3 DEF Owners
    <3>4. QED
      BY <3>2, <3>3
  <2>6. r \notin Owners(d)
    BY <2>1, <2>2, NoneIsNoPair DEF Owners
  <2>7. SlotAccounting'
    BY <1>0, <2>1, <2>5, <2>6, OwnerAdded DEF SlotInv
  <2>8. GrantsKnown'
    <3>1. \A x \in Requests : pc'[x] = "idle" => grant'[x] = None
      BY <2>3 DEF SlotInv, GrantsKnown
    <3>2. \A x \in Requests : pc'[x] \in {"idle", "queued"} => counted'[x] = None
      BY <2>3 DEF SlotInv, GrantsKnown
    <3>3. ASSUME NEW x \in Requests, grant'[x] # None, grant'[x].provider \in Local
          PROVE  PairOf(grant'[x]) \in deployed
      <4>1. CASE x = r
        BY <2>1, <2>3, <2>4, <3>3, <4>1
      <4>2. CASE x # r
        BY <2>3, <3>3, <4>2 DEF SlotInv, GrantsKnown
      <4>3. QED
        BY <4>1, <4>2
    <3>4. QED
      BY <2>1, <3>1, <3>2, <3>3 DEF GrantsKnown
  <2>9. HolderCounted'
    <3>1. SUFFICES ASSUME NEW x \in Requests, pc'[x] \in {"resolving", "handed", "executing"}
                   PROVE  /\ grant'[x] # None
                          /\ counted'[x] = IF grant'[x].provider \in Local
                                           THEN PairOf(grant'[x]) ELSE None
      BY DEF HolderCounted
    <3>2. CASE x = r
      BY <2>3, <2>4, <3>2
    <3>3. CASE x # r
      BY <2>3, <3>1, <3>3 DEF SlotInv, HolderCounted
    <3>4. QED
      BY <3>2, <3>3
  <2>10. GrantedOnDispatch'
    <3>1. ASSUME NEW e \in queue PROVE grant'[e.req] = None
      <4>1. e.req \in Requests \ {r}
        BY <1>0, <2>2, <3>1 DEF TypeOK, Entry
      <4>2. QED
        BY <2>3, <3>1, <4>1 DEF SlotInv, GrantedOnDispatch
    <3>2. ASSUME NEW x \in Requests, pc'[x] = "queued", x \in inFlight \/ fut[x] = "result"
          PROVE  grant'[x] # None
      <4>1. x \in Requests \ {r}
        BY <2>3, <3>2
      <4>2. QED
        BY <2>3, <3>2, <4>1 DEF SlotInv, GrantedOnDispatch
    <3>3. QED
      BY <2>1, <3>1, <3>2 DEF GrantedOnDispatch
  <2>11. QED
    BY <1>0, <2>1, <2>7, <2>8, <2>9, <2>10 DEF SlotInv
<1>2. ASSUME NEW r \in Requests, NEW d \in Deployments, AcceptCloud(r, d) PROVE SlotInv'
  <2>1. /\ d[2] \in Cloud /\ pc[r] = "idle"
        /\ pc' = [pc EXCEPT ![r] = "resolving"]
        /\ grant' = [grant EXCEPT ![r] = GrantOf(d, FALSE)]
        /\ UNCHANGED <<fut, inFlight, queue, deployed, tracking, counted, active>>
    BY <1>2 DEF AcceptCloud, queueVars, slotVars, envVars
  <2>2. /\ counted[r] = None /\ grant[r] = None
        /\ \A e \in queue : e.req # r
    BY <1>0, <2>1 DEF SlotInv, GrantsKnown, QueueInv, PendingWaits, OneEntryEach
  <2>3. /\ pc'[r] = "resolving" /\ grant'[r] = GrantOf(d, FALSE)
        /\ \A x \in Requests \ {r} : pc'[x] = pc[x] /\ grant'[x] = grant[x]
    BY <1>0, <2>1 DEF TypeOK
  <2>4. /\ GrantOf(d, FALSE) # None /\ GrantOf(d, FALSE).provider \notin Local
        /\ GrantOf(d, FALSE).transferred = FALSE
    BY <2>1, GrantPair, ConstantsAssumption
  <2>5. \A c \in LocalPairs : Owners(c)' = Owners(c)
    <3>1. SUFFICES ASSUME NEW c \in LocalPairs, NEW x \in Requests
                   PROVE  (x \in Owners(c))' <=> x \in Owners(c)
      BY DEF Owners
    <3>2. CASE x = r
      BY <2>1, <2>2, <2>3, <2>4, <3>2, NoneIsNoPair DEF Owners
    <3>3. CASE x # r
      BY <2>1, <2>3, <3>3 DEF Owners
    <3>4. QED
      BY <3>2, <3>3
  <2>6. SlotAccounting'
    BY <2>1, <2>5 DEF SlotInv, SlotAccounting
  <2>7. GrantsKnown'
    <3>1. \A x \in Requests : pc'[x] = "idle" => grant'[x] = None
      BY <2>3 DEF SlotInv, GrantsKnown
    <3>2. \A x \in Requests : pc'[x] \in {"idle", "queued"} => counted'[x] = None
      BY <2>1, <2>3 DEF SlotInv, GrantsKnown
    <3>3. ASSUME NEW x \in Requests, grant'[x] # None, grant'[x].provider \in Local
          PROVE  PairOf(grant'[x]) \in deployed
      <4>1. CASE x = r
        BY <2>1, <2>3, <2>4, <3>3, <4>1
      <4>2. CASE x # r
        BY <2>3, <3>3, <4>2 DEF SlotInv, GrantsKnown
      <4>3. QED
        BY <4>1, <4>2
    <3>4. QED
      BY <2>1, <3>1, <3>2, <3>3 DEF GrantsKnown
  <2>8. HolderCounted'
    BY <2>1, <2>2, <2>3, <2>4 DEF SlotInv, HolderCounted
  <2>9. GrantedOnDispatch'
    <3>1. ASSUME NEW e \in queue PROVE grant'[e.req] = None
      <4>1. e.req \in Requests \ {r}
        BY <1>0, <2>2, <3>1 DEF TypeOK, Entry
      <4>2. QED
        BY <2>3, <3>1, <4>1 DEF SlotInv, GrantedOnDispatch
    <3>2. ASSUME NEW x \in Requests, pc'[x] = "queued", x \in inFlight \/ fut[x] = "result"
          PROVE  grant'[x] # None
      <4>1. x \in Requests \ {r}
        BY <2>3, <3>2
      <4>2. QED
        BY <2>3, <3>2, <4>1 DEF SlotInv, GrantedOnDispatch
    <3>3. QED
      BY <2>1, <3>1, <3>2 DEF GrantedOnDispatch
  <2>10. QED
    BY <1>0, <2>1, <2>6, <2>7, <2>8, <2>9 DEF SlotInv
<1>3. ASSUME NEW r \in Requests, NEW d \in Deployments, Enqueue(r, d) PROVE SlotInv'
  <2>1. /\ pc[r] = "idle" /\ grant[r] = None
        /\ pc' = [pc EXCEPT ![r] = "queued"]
        /\ fut' = [fut EXCEPT ![r] = "pending"]
        /\ \A e \in queue' : e \in queue \/ e.req = r
        /\ UNCHANGED <<slotVars, grant, inFlight, deployed>>
    BY <1>3 DEF Enqueue, NewEntry, SlotInv, GrantsKnown, envVars
  <2>2. r \notin inFlight
    BY <1>0, <2>1 DEF QueueInv, PendingWaits
  <2>3. \A x \in Requests : pc'[x] = "queued" /\ (x \in inFlight' \/ fut'[x] = "result")
                              => pc[x] = "queued" /\ (x \in inFlight \/ fut[x] = "result")
    BY <1>0, <2>1, <2>2 DEF TypeOK
  <2>4. QED
    BY <1>0, <2>1, <2>3, SlotsUntouched DEF TypeOK
<1>4. ASSUME NEW r \in Requests,
             Reject(r) \/ DeliverResult(r) \/ Cancel(r) \/ ResumeCancelled(r) \/ Abandon(r)
             \/ ContextResolved(r) \/ StreamHandedOn(r) \/ StreamStarted(r)
      PROVE  SlotInv'
  <2>1. /\ UNCHANGED <<slotVars, grant, deployed>>
        /\ queue' \subseteq queue
    BY <1>4 DEF Reject, DeliverResult, Cancel, ResumeCancelled, Abandon, ContextResolved,
                StreamHandedOn, StreamStarted, queueVars, envVars
  <2>2. \A x \in Requests : \/ pc'[x] = pc[x]
                            \/ pc'[x] = "done"
                            \/ /\ pc[x] \in {"resolving", "handed"}
                               /\ pc'[x] \in {"handed", "executing"}
    BY <1>0, <1>4 DEF Reject, DeliverResult, Cancel, ResumeCancelled, Abandon,
                      ContextResolved, StreamHandedOn, StreamStarted, TypeOK
  <2>3. /\ inFlight' \subseteq inFlight
        /\ \A x \in Requests : fut'[x] = "result" => fut[x] = "result" \/ x \in inFlight
    BY <1>0, <1>4 DEF Reject, DeliverResult, Cancel, ResumeCancelled, Abandon,
                      ContextResolved, StreamHandedOn, StreamStarted, TypeOK
  <2>4. QED
    BY <1>0, <2>1, <2>2, <2>3, SlotsUntouched
<1>5. ASSUME NEW r \in Requests, Resume(r) PROVE SlotInv'
  BY <1>0, <1>5, ResumeSlots
<1>6. ASSUME NEW r \in Requests, ContextFailed(r) \/ Finish(r) PROVE SlotInv'
  BY <1>0, <1>6, ReleaseSlots DEF ContextFailed, Finish
<1>7. ASSUME NEW d \in LocalPairs, Reevaluate(d) PROVE SlotInv'
  BY <1>0, <1>7, ReevaluateSlots
<1>8. ASSUME UNCHANGED <<reqVars, queueVars, slotVars, deployed>> PROVE SlotInv'
  BY <1>0, <1>8, SlotsUntouched DEF reqVars, queueVars
<1>9. QED
  BY <1>1, <1>2, <1>3, <1>4, <1>5, <1>6, <1>7, <1>8
     DEF Next, Scheduling, Waiting, Serving, Planner, Workers, PlannerOrders,
         PlannerGivesUp, LaneChanges, NodeChanges, vars, envVars

\* At first nothing is counted.
LEMMA InitSlots == Init => SlotInv
<1> SUFFICES ASSUME Init PROVE SlotInv
  OBVIOUS
<1>1. QueueInv
  BY InitQueue
<1>2. \A d \in LocalPairs : Owners(d) = {}
  BY NoneIsNoPair DEF Init, Owners
<1>3. SlotAccounting
  BY <1>2, FS_EmptySet DEF Init, SlotAccounting
<1>4. QED
  BY <1>1, <1>3 DEF Init, SlotInv, GrantedOnDispatch, GrantsKnown, HolderCounted

\* The active count of every deployment is the number of requests it counts plus
\* the slots passed on by release() and not yet taken over.
THEOREM SlotsAccounted == Spec => []SlotAccounting
<1>1. SlotInv => SlotAccounting
  BY DEF SlotInv
<1>2. QED
  BY <1>1, InitSlots, SlotStep, PTL DEF Spec
----------------------------------------------------------------------------
(* Deployments that come and go: the inductive strengthening of NeverOvercounts *)

\* The owners of d that still have to give its unit back.  One whose worker was
\* dropped before it resumed, or that a refresh forgot, serves without a slot.
Holders(d) ==
    {r \in Requests :
        \/ counted[r] = d
        \/ /\ counted[r] = None /\ grant[r] # None
           /\ grant[r].transferred /\ PairOf(grant[r]) = d
           /\ pc[r] \notin {"resolving", "handed", "executing"}}

CountsHeld == \A d \in LocalPairs : active[d] <= Cardinality(Holders(d))

\* A refresh leaves no count for what it dropped, and nobody adds one later.
CountsKnown == \A d \in LocalPairs \ deployed : active[d] = 0

CountedAsGranted ==
    \A r \in Requests :
        /\ counted[r] # None => grant[r] # None /\ counted[r] = PairOf(grant[r])
        /\ pc[r] \in {"idle", "queued"} => counted[r] = None
        /\ pc[r] = "idle" => grant[r] = None

BoundInv == /\ QueueInv /\ tracking = counted
            /\ GrantedOnDispatch /\ CountedAsGranted /\ CountsKnown /\ CountsHeld

\* Holders are owners, finitely many.
LEMMA HoldersFinite ==
    \A d : Holders(d) \subseteq Owners(d) /\ IsFiniteSet(Holders(d))
BY ConstantsAssumption, FS_Subset DEF Holders, Owners

\* A count that does not grow stays within holders that do not leave.
LEMMA HoldersKept ==
    ASSUME TypeOK, TypeOK', CountsHeld, NEW d \in LocalPairs,
           Holders(d) \subseteq Holders(d)', active'[d] <= active[d]
    PROVE  active'[d] <= Cardinality(Holders(d))'
<1>1. IsFiniteSet(Holders(d)')
  BY ConstantsAssumption, FS_Subset DEF Holders
<1>2. Cardinality(Holders(d)) <= Cardinality(Holders(d)') /\ Cardinality(Holders(d)') \in Nat
  BY <1>1, FS_Subset, FS_CardinalityType
<1>3. active[d] <= Cardinality(Holders(d)) /\ Cardinality(Holders(d)) \in Nat
  BY HoldersFinite, FS_CardinalityType DEF CountsHeld
<1>4. QED
  BY <1>2, <1>3 DEF TypeOK

\* A new holder pays for one more unit.
LEMMA HolderJoins ==
    ASSUME TypeOK, TypeOK', CountsHeld, NEW d \in LocalPairs, NEW r, r \notin Holders(d),
           Holders(d) \cup {r} \subseteq Holders(d)', active'[d] = active[d] + 1
    PROVE  active'[d] <= Cardinality(Holders(d))'
<1>1. IsFiniteSet(Holders(d)') /\ IsFiniteSet(Holders(d))
  BY HoldersFinite, ConstantsAssumption, FS_Subset DEF Holders
<1>2. Cardinality(Holders(d) \cup {r}) = Cardinality(Holders(d)) + 1
  BY <1>1, FS_AddElement
<1>3. Cardinality(Holders(d) \cup {r}) <= Cardinality(Holders(d)')
  BY <1>1, FS_Subset
<1>4. Cardinality(Holders(d)) \in Nat /\ Cardinality(Holders(d)') \in Nat
  BY <1>1, FS_CardinalityType
<1>5. QED
  BY <1>2, <1>3, <1>4 DEF TypeOK, CountsHeld

\* A holder that leaves takes its unit along, unless there was none.
LEMMA HolderLeaves ==
    ASSUME TypeOK, TypeOK', CountsHeld, NEW d \in LocalPairs, NEW r, r \in Holders(d),
           Holders(d) \ {r} \subseteq Holders(d)',
           active'[d] = IF active[d] = 0 THEN 0 ELSE active[d] - 1
    PROVE  active'[d] <= Cardinality(Holders(d))'
<1>1. IsFiniteSet(Holders(d)') /\ IsFiniteSet(Holders(d))
  BY HoldersFinite, ConstantsAssumption, FS_Subset DEF Holders
<1>2. Cardinality(Holders(d) \ {r}) = Cardinality(Holders(d)) - 1
  BY <1>1, FS_RemoveElement
<1>3. Cardinality(Holders(d) \ {r}) <= Cardinality(Holders(d)')
  BY <1>1, FS_Subset
<1>4. Cardinality(Holders(d)) \in Nat /\ Cardinality(Holders(d)') \in Nat
  BY <1>1, FS_CardinalityType
<1>5. QED
  BY <1>2, <1>3, <1>4 DEF TypeOK, CountsHeld

\* A unit that release() passes on has its heir for a holder.
LEMMA HolderSwaps ==
    ASSUME TypeOK, TypeOK', CountsHeld, NEW d \in LocalPairs, NEW r, NEW h,
           r \in Holders(d), h \notin Holders(d),
           (Holders(d) \ {r}) \cup {h} \subseteq Holders(d)', active'[d] = active[d]
    PROVE  active'[d] <= Cardinality(Holders(d))'
<1>1. /\ IsFiniteSet(Holders(d)') /\ IsFiniteSet(Holders(d))
      /\ IsFiniteSet(Holders(d) \ {r})
  BY HoldersFinite, ConstantsAssumption, FS_Subset DEF Holders
<1>2. Cardinality(Holders(d) \ {r}) = Cardinality(Holders(d)) - 1
  BY <1>1, FS_RemoveElement
<1>3. Cardinality((Holders(d) \ {r}) \cup {h}) = Cardinality(Holders(d) \ {r}) + 1
  BY <1>1, FS_AddElement
<1>4. Cardinality((Holders(d) \ {r}) \cup {h}) <= Cardinality(Holders(d)')
  BY <1>1, FS_Subset
<1>5. Cardinality(Holders(d)) \in Nat /\ Cardinality(Holders(d)') \in Nat
  BY <1>1, FS_CardinalityType
<1>6. QED
  BY <1>2, <1>3, <1>4, <1>5 DEF TypeOK, CountsHeld

\* Steps that leave the slots and the deployments alone, and start no service.
LEMMA BoundUntouched ==
    ASSUME BoundInv, TypeOK', QueueInv', UNCHANGED <<slotVars, grant, deployed>>,
           \A r \in Requests :
               \/ pc'[r] = pc[r]
               \/ pc'[r] = "done"
               \/ pc[r] = "idle" /\ pc'[r] = "queued"
               \/ /\ pc[r] \in {"resolving", "handed"}
                  /\ pc'[r] \in {"handed", "executing"},
           \A e \in queue' : e \in queue \/ grant[e.req] = None,
           \A r \in Requests :
               pc'[r] = "queued" /\ (r \in inFlight' \/ fut'[r] = "result") =>
               pc[r] = "queued" /\ (r \in inFlight \/ fut[r] = "result")
    PROVE  BoundInv'
<1>1. GrantedOnDispatch'
  BY DEF BoundInv, GrantedOnDispatch
<1>2. (tracking = counted)' /\ CountsKnown'
  BY DEF BoundInv, CountsKnown, slotVars
<1>3. CountedAsGranted'
  BY DEF BoundInv, CountedAsGranted, slotVars
<1>4. CountsHeld'
  <2>1. ASSUME NEW d \in LocalPairs
        PROVE  Holders(d) \subseteq Holders(d)' /\ active'[d] <= active[d]
    BY DEF Holders, slotVars, BoundInv, QueueInv, TypeOK
  <2>2. QED
    BY <2>1, HoldersKept DEF BoundInv, QueueInv, CountsHeld
<1>5. QED
  BY <1>1, <1>2, <1>3, <1>4 DEF BoundInv

\* A reservation and a cloud's acceptance start from a request without a grant.
LEMMA AdmitBound ==
    ASSUME BoundInv, TypeOK', QueueInv', NEW r \in Requests, NEW d \in Deployments,
           ReserveLocal(r, d) \/ AcceptCloud(r, d)
    PROVE  BoundInv'
<1>0. TypeOK
  BY DEF BoundInv, QueueInv
<1>1. /\ pc[r] = "idle" /\ pc' = [pc EXCEPT ![r] = "resolving"]
      /\ grant' = [grant EXCEPT ![r] = GrantOf(d, FALSE)]
      /\ UNCHANGED <<fut, inFlight, queue, deployed>>
  BY DEF ReserveLocal, AcceptCloud, queueVars, envVars
<1>2. /\ counted[r] = None /\ grant[r] = None
      /\ \A e \in queue : e.req # r
  BY <1>0, <1>1 DEF BoundInv, CountedAsGranted, QueueInv, PendingWaits, OneEntryEach
<1>3. /\ pc'[r] = "resolving" /\ grant'[r] = GrantOf(d, FALSE)
      /\ \A x \in Requests \ {r} : pc'[x] = pc[x] /\ grant'[x] = grant[x]
  BY <1>0, <1>1 DEF TypeOK
<1>4. /\ GrantOf(d, FALSE) # None /\ PairOf(GrantOf(d, FALSE)) = d
      /\ ~GrantOf(d, FALSE).transferred
  BY GrantPair
<1>5. GrantedOnDispatch'
  <2>1. ASSUME NEW e \in queue PROVE grant'[e.req] = None
    <3>1. e.req \in Requests \ {r}
      BY <1>0, <1>2 DEF TypeOK, Entry
    <3>2. QED
      BY <1>3, <3>1 DEF BoundInv, GrantedOnDispatch
  <2>2. QED
    BY <1>1, <1>3, <2>1 DEF BoundInv, GrantedOnDispatch
<1>6. \A c \in LocalPairs : r \notin Holders(c)
  BY <1>2, NoneIsNoPair DEF Holders
<1>7. CASE AcceptCloud(r, d)
  <2>1. UNCHANGED <<tracking, counted, active>>
    BY <1>7 DEF AcceptCloud, slotVars
  <2>2. CountedAsGranted'
    BY <1>2, <1>3, <2>1 DEF BoundInv, CountedAsGranted
  <2>3. CountsHeld'
    <3>1. ASSUME NEW c \in LocalPairs PROVE Holders(c) \subseteq Holders(c)'
      BY <1>3, <1>6, <2>1 DEF Holders
    <3>2. QED
      BY <1>0, <2>1, <3>1, HoldersKept DEF BoundInv, CountsHeld, TypeOK
  <2>4. QED
    BY <1>1, <1>5, <2>1, <2>2, <2>3 DEF BoundInv, CountsKnown
<1>8. CASE ReserveLocal(r, d)
  <2>1. /\ d \in LocalPairs /\ d \in deployed
        /\ tracking' = [tracking EXCEPT ![r] = d]
        /\ counted' = [counted EXCEPT ![r] = d]
        /\ active' = [active EXCEPT ![d] = @ + 1]
    BY <1>8 DEF ReserveLocal, Reservable, LaneReady
  <2>2. counted'[r] = d /\ \A x \in Requests \ {r} : counted'[x] = counted[x]
    BY <1>0, <2>1 DEF TypeOK
  <2>3. CountedAsGranted'
    BY <1>2, <1>3, <1>4, <2>2 DEF BoundInv, CountedAsGranted
  <2>4. \A c \in LocalPairs : active'[c] = IF c = d THEN active[c] + 1 ELSE active[c]
    BY <1>0, <2>1 DEF TypeOK
  <2>5. ASSUME NEW c \in LocalPairs
        PROVE  Holders(c) \subseteq Holders(c)' /\ (c = d => r \in Holders(c)')
    BY <1>3, <1>6, <2>2 DEF Holders
  <2>6. ASSUME NEW c \in LocalPairs PROVE active'[c] <= Cardinality(Holders(c))'
    <3>1. CASE c = d
      <4>1. Holders(c) \cup {r} \subseteq Holders(c)' /\ r \notin Holders(c)
        BY <1>6, <2>5, <3>1
      <4>2. active'[c] = active[c] + 1
        BY <2>4, <3>1
      <4>3. QED
        BY <1>0, <4>1, <4>2, HolderJoins DEF BoundInv
    <3>2. CASE c # d
      <4>1. active'[c] <= active[c]
        BY <1>0, <2>4, <3>2 DEF TypeOK
      <4>2. QED
        BY <1>0, <2>5, <4>1, HoldersKept DEF BoundInv
    <3>3. QED
      BY <3>1, <3>2
  <2>7. CountsKnown'
    BY <1>1, <2>1, <2>4 DEF BoundInv, CountsKnown
  <2>8. (tracking = counted)'
    BY <2>1 DEF BoundInv
  <2>9. QED
    BY <1>5, <2>3, <2>6, <2>7, <2>8 DEF BoundInv, CountsHeld
<1>9. QED
  BY <1>7, <1>8

\* release() of a request the facade still counts lowers the count, or its heir
\* holds the unit; one it has forgotten gives nothing back.
LEMMA ReleaseBound ==
    ASSUME BoundInv, TypeOK', QueueInv', NEW r \in Requests, Release(r),
           pc[r] \in {"resolving", "executing"}
    PROVE  BoundInv'
<1>0. TypeOK
  BY DEF BoundInv, QueueInv
<1>d. PICK d : d = PairOf(grant[r])
  OBVIOUS
<1>1. /\ pc' = [pc EXCEPT ![r] = "done"]
      /\ UNCHANGED <<fut, deployed>>
  BY DEF Release, envVars
<1>2. pc'[r] = "done" /\ \A x \in Requests \ {r} : pc'[x] = pc[x]
  BY <1>0, <1>1 DEF TypeOK
<1>3. ASSUME CompleteSlot(r, TRUE) \/ CompleteSlot(r, FALSE)
      PROVE  /\ tracking' = counted' /\ counted'[r] = None
             /\ \A x \in Requests \ {r} : counted'[x] = counted[x]
             /\ \A c \in LocalPairs : c # counted[r] => active'[c] = active[c]
             /\ \A c \in LocalPairs : active'[c] <= active[c]
  <2>1. /\ tracking \in [Requests -> LocalPairs \cup {None}] /\ tracking = counted
        /\ active \in [LocalPairs -> Nat]
    BY <1>0 DEF TypeOK, BoundInv
  <2>2. CASE tracking[r] = None
    BY <1>3, <2>1, <2>2 DEF CompleteSlot, slotVars
  <2>3. CASE tracking[r] # None
    BY <1>3, <2>1, <2>3 DEF CompleteSlot
  <2>4. QED
    BY <2>2, <2>3
<1>4. ASSUME NEW c \in LocalPairs
      PROVE  r \in Holders(c) <=> counted[r] = c
  BY DEF Holders
<1>5. counted[r] # None => grant[r] # None /\ counted[r] = d
  BY <1>d DEF BoundInv, CountedAsGranted
<1>6. CASE /\ UNCHANGED inFlight
           /\ grant' = [grant EXCEPT ![r] = None]
           /\ CompleteSlot(r, FALSE)
           /\ \A e \in queue' : \E f \in queue : f.req = e.req
  <2>1. grant'[r] = None /\ \A x \in Requests \ {r} : grant'[x] = grant[x]
    BY <1>0, <1>6 DEF TypeOK
  <2>2. ASSUME NEW c \in LocalPairs PROVE Holders(c) \ {r} \subseteq Holders(c)'
    BY <1>2, <1>3, <1>6, <2>1 DEF Holders
  <2>3. ASSUME NEW c \in LocalPairs PROVE active'[c] <= Cardinality(Holders(c))'
    <3>1. CASE counted[r] = c
      <4>1. active'[c] = IF active[c] = 0 THEN 0 ELSE active[c] - 1
        BY <1>0, <1>6, <3>1, NoneIsNoPair DEF CompleteSlot, TypeOK, BoundInv
      <4>2. QED
        BY <1>0, <1>4, <2>2, <3>1, <4>1, HolderLeaves DEF BoundInv
    <3>2. CASE counted[r] # c
      <4>1. Holders(c) \subseteq Holders(c)' /\ active'[c] <= active[c]
        BY <1>3, <1>4, <1>6, <2>2, <3>2
      <4>2. QED
        BY <1>0, <4>1, HoldersKept DEF BoundInv
    <3>3. QED
      BY <3>1, <3>2
  <2>4. CountedAsGranted'
    BY <1>2, <1>3, <1>6, <2>1 DEF BoundInv, CountedAsGranted
  <2>5. CountsKnown'
    BY <1>0, <1>1, <1>3, <1>6 DEF BoundInv, CountsKnown, TypeOK
  <2>6. GrantedOnDispatch'
    <3>1. ASSUME NEW e \in queue' PROVE grant'[e.req] = None
      <4>1. PICK f \in queue : f.req = e.req
        BY <1>6
      <4>2. f.req \in Requests /\ grant[f.req] = None
        BY <1>0 DEF TypeOK, Entry, BoundInv, GrantedOnDispatch
      <4>3. QED
        BY <2>1, <4>1, <4>2
    <3>2. QED
      BY <1>1, <1>2, <1>6, <2>1, <3>1 DEF BoundInv, GrantedOnDispatch
  <2>7. QED
    BY <1>3, <1>6, <2>3, <2>4, <2>5, <2>6 DEF BoundInv, CountsHeld
<1>7. CASE ReleaseToWaiter(r)
  <2>1. PICK e \in Live(d[1]) :
          /\ \A f \in Live(d[1]) \ {e} : Before(e, f)
          /\ d[2] \in Cloud \/ LaneReady(d)
          /\ queue' = queue \ Popped(d[1], 1)
          /\ CompleteSlot(r, TRUE)
          /\ grant' = [grant EXCEPT ![r] = None, ![e.req] = GrantOf(d, TRUE)]
          /\ inFlight' = inFlight \cup {e.req}
    BY <1>7, <1>d DEF ReleaseToWaiter
  <2> DEFINE h == e.req
  <2>2. /\ e \in queue /\ h \in Requests /\ fut[h] = "pending" /\ grant[h] = None
        /\ pc[h] = "queued" /\ counted[h] = None /\ h # r
    BY <1>0 DEF Live, TypeOK, Entry, BoundInv, QueueInv, PendingWaits, GrantedOnDispatch,
                CountedAsGranted
  <2>3. /\ grant'[r] = None /\ grant'[h] = GrantOf(d, TRUE)
        /\ \A x \in Requests \ {r, h} : grant'[x] = grant[x]
    <3>1. grant' = [grant EXCEPT ![r] = None, ![h] = GrantOf(d, TRUE)]
      BY <2>1
    <3>2. grant \in [Requests -> Grant \cup {None}]
      BY <1>0 DEF TypeOK
    <3>3. QED
      BY <2>2, <3>1, <3>2
  <2>4. \A c \in LocalPairs : active'[c] = active[c]
    BY <2>1 DEF CompleteSlot, slotVars
  <2>5. /\ tracking' = counted' /\ counted'[r] = None
        /\ \A x \in Requests \ {r} : counted'[x] = counted[x]
    BY <1>3, <2>1
  <2>6. \A c \in LocalPairs : h \notin Holders(c)
    BY <2>2, NoneIsNoPair DEF Holders
  <2>7. ASSUME NEW c \in LocalPairs PROVE Holders(c) \ {r} \subseteq Holders(c)'
    BY <1>2, <2>3, <2>5, <2>6 DEF Holders
  <2>8. d \in LocalPairs => h \in Holders(d)'
    <3>1. SUFFICES ASSUME d \in LocalPairs PROVE h \in Holders(d)'
      OBVIOUS
    <3>2. d \in Deployments
      BY <3>1 DEF LocalPairs, Deployments, Providers
    <3>3. /\ GrantOf(d, TRUE) # None /\ GrantOf(d, TRUE).transferred
          /\ PairOf(GrantOf(d, TRUE)) = d
      BY <3>2, GrantPair
    <3>4. counted'[h] = None /\ pc'[h] = "queued"
      BY <1>2, <2>2, <2>5
    <3>5. QED
      BY <2>2, <2>3, <3>3, <3>4 DEF Holders
  <2>9. ASSUME NEW c \in LocalPairs PROVE active'[c] <= Cardinality(Holders(c))'
    <3>1. CASE counted[r] = c
      <4>1. c = d
        BY <1>5, <3>1, NoneIsNoPair
      <4>2. /\ r \in Holders(c) /\ h \notin Holders(c)
            /\ (Holders(c) \ {r}) \cup {h} \subseteq Holders(c)'
        BY <1>4, <2>6, <2>7, <2>8, <3>1, <4>1
      <4>3. QED
        BY <1>0, <2>4, <4>2, HolderSwaps DEF BoundInv
    <3>2. CASE counted[r] # c
      <4>1. Holders(c) \subseteq Holders(c)'
        BY <1>4, <2>7, <3>2
      <4>2. active'[c] <= active[c]
        BY <1>0, <2>4 DEF TypeOK
      <4>3. QED
        BY <1>0, <4>1, <4>2, HoldersKept DEF BoundInv
    <3>3. QED
      BY <3>1, <3>2
  <2>10. CountedAsGranted'
    <3>1. ASSUME NEW x \in Requests \ {r, h}
          PROVE  /\ pc'[x] = pc[x] /\ grant'[x] = grant[x] /\ counted'[x] = counted[x]
      BY <1>2, <2>3, <2>5
    <3>2. counted'[h] = None /\ pc'[h] = "queued" /\ pc'[r] = "done"
      BY <1>2, <2>2, <2>5
    <3>3. QED
      BY <2>5, <3>1, <3>2 DEF BoundInv, CountedAsGranted
  <2>11. CountsKnown'
    BY <1>1, <2>4 DEF BoundInv, CountsKnown
  <2>12. GrantedOnDispatch'
    <3>1. \A f \in queue' : f \in queue /\ f.req # h
      BY <2>1, <2>2, PopTakesFirst DEF BoundInv, QueueInv, OneEntryEach
    <3>2. \A f \in queue' : grant'[f.req] = None
      BY <1>0, <2>3, <3>1 DEF BoundInv, GrantedOnDispatch, TypeOK, Entry
    <3>3. grant'[h] # None
      <4>1. \A f \in Grant : f # None
        BY ConstantsAssumption DEF Grant
      <4>2. grant' \in [Requests -> Grant \cup {None}]
        BY DEF TypeOK
      <4>3. GrantOf(d, TRUE).transferred
        BY DEF GrantOf
      <4>4. d \in Deployments
        <5>1. d[1] \in Models
          BY <1>0, <2>2, <2>1 DEF Live, TypeOK, Entry
        <5>2. d[2] \in Providers
          BY <1>0, <2>1 DEF LaneReady, TypeOK, LocalPairs, Providers
        <5>3. d = <<d[1], d[2]>>
          BY <1>d DEF PairOf
        <5>4. QED
          BY <5>1, <5>2, <5>3 DEF Deployments
      <4>5. QED
        BY <2>3, <4>4, GrantPair
    <3>4. QED
      BY <1>1, <1>2, <2>1, <2>3, <3>2, <3>3 DEF BoundInv, GrantedOnDispatch
  <2>13. QED
    BY <2>5, <2>9, <2>10, <2>11, <2>12 DEF BoundInv, CountsHeld
<1>8. QED
  <2>1. CASE ReleaseToNobody(r)
    BY <1>6, <2>1 DEF ReleaseToNobody
  <2>2. CASE ReleaseAndRequeue(r)
    <3>1. PICK e \in Live(d[1]) :
            /\ queue' = (queue \ Popped(d[1], 1)) \cup {NewEntry(d[1], e.req, e.prio)}
            /\ CompleteSlot(r, FALSE)
            /\ grant' = [grant EXCEPT ![r] = None]
            /\ UNCHANGED inFlight
      BY <1>d, <2>2 DEF ReleaseAndRequeue
    <3>2. e \in queue
      BY DEF Live
    <3>3. NewEntry(d[1], e.req, e.prio).req = e.req
      BY DEF NewEntry
    <3>4. \A f \in queue' : \E g \in queue : g.req = f.req
      BY <3>1, <3>2, <3>3
    <3>5. QED
      BY <1>6, <3>1, <3>4
  <2>3. QED
    BY <1>7, <2>1, <2>2 DEF Release

\* A waiter that resumes counts itself, unless its deployment is gone; one that
\* serves without being counted holds nothing, and nothing is left to hold.
LEMMA ResumeBound ==
    ASSUME BoundInv, TypeOK', QueueInv', NEW r \in Requests, Resume(r)
    PROVE  BoundInv'
<1>0. TypeOK
  BY DEF BoundInv, QueueInv
<1>d. PICK d : d = PairOf(grant[r])
  OBVIOUS
<1>1. /\ pc[r] = "queued" /\ fut[r] = "result"
      /\ UNCHANGED <<fut, grant, inFlight, queue, deployed>>
      /\ pc' = [pc EXCEPT ![r] = "resolving"] \/ pc' = [pc EXCEPT ![r] = "done"]
  BY DEF Resume, queueVars, envVars
<1>2. grant[r] # None /\ counted[r] = None
  BY <1>1 DEF BoundInv, GrantedOnDispatch, CountedAsGranted
<1>3. /\ \A x \in Requests \ {r} : pc'[x] = pc[x]
      /\ pc'[r] \in {"resolving", "done"}
  BY <1>0, <1>1 DEF TypeOK
<1>4. GrantedOnDispatch'
  BY <1>1, <1>3 DEF BoundInv, GrantedOnDispatch
<1>5. CASE d \in deployed
  <2>1. /\ tracking' = [tracking EXCEPT ![r] = d]
        /\ counted' = [counted EXCEPT ![r] = d]
        /\ active' = IF grant[r].transferred THEN active ELSE [active EXCEPT ![d] = @ + 1]
    <3>1. d = <<d[1], d[2]>> /\ d[1] \in Models
      BY <1>0, <1>5 DEF TypeOK, LocalPairs
    <3>2. \E m \in Models : <<m, d[2]>> \in deployed
      BY <1>5, <3>1
    <3>3. QED
      BY <1>2, <1>d, <1>5, <3>2 DEF Resume
  <2>2. d \in LocalPairs
    BY <1>0, <1>5 DEF TypeOK
  <2>3. counted'[r] = d /\ \A x \in Requests \ {r} : counted'[x] = counted[x]
    BY <1>0, <2>1 DEF TypeOK
  <2>4. ASSUME NEW c \in LocalPairs, c # d
        PROVE  Holders(c) \subseteq Holders(c)' /\ active'[c] <= active[c]
    <3>1. r \notin Holders(c)
      BY <1>2, <1>d, <2>4, NoneIsNoPair DEF Holders
    <3>2. Holders(c) \subseteq Holders(c)'
      BY <1>1, <1>3, <2>3, <3>1 DEF Holders
    <3>3. active'[c] = active[c] /\ active[c] \in Nat
      BY <1>0, <2>1, <2>4 DEF TypeOK
    <3>4. QED
      BY <3>2, <3>3
  <2>5. Holders(d) \cup {r} \subseteq Holders(d)'
    BY <1>1, <1>3, <2>3 DEF Holders
  <2>6. active'[d] <= Cardinality(Holders(d))'
    <3>1. CASE grant[r].transferred
      <4>1. active'[d] <= active[d] /\ Holders(d) \subseteq Holders(d)'
        BY <1>0, <2>1, <2>2, <2>5, <3>1 DEF TypeOK
      <4>2. QED
        BY <1>0, <2>2, <4>1, HoldersKept DEF BoundInv
    <3>2. CASE ~grant[r].transferred
      <4>1. active'[d] = active[d] + 1
        BY <1>0, <2>1, <2>2, <3>2 DEF TypeOK
      <4>2. r \notin Holders(d)
        BY <1>2, <2>2, <3>2, NoneIsNoPair DEF Holders
      <4>3. QED
        BY <1>0, <2>2, <2>5, <4>1, <4>2, HolderJoins DEF BoundInv
    <3>3. QED
      BY <3>1, <3>2
  <2>7. CountsHeld'
    BY <1>0, <2>4, <2>6, HoldersKept DEF BoundInv, CountsHeld
  <2>8. CountsKnown'
    BY <1>0, <1>1, <1>5, <2>1 DEF BoundInv, CountsKnown, TypeOK
  <2>9. pc'[r] = "resolving"
    BY <1>0, <1>1, <1>d, <1>5 DEF Resume, TypeOK
  <2>10. CountedAsGranted'
    BY <1>1, <1>2, <1>3, <1>d, <2>3, <2>9 DEF BoundInv, CountedAsGranted
  <2>11. (tracking = counted)'
    BY <2>1 DEF BoundInv
  <2>12. QED
    BY <1>4, <2>7, <2>8, <2>10, <2>11 DEF BoundInv
<1>6. CASE d \notin deployed
  <2>1. UNCHANGED <<tracking, counted, active>>
    BY <1>d, <1>6 DEF Resume, slotVars
  <2>2. ASSUME NEW c \in LocalPairs PROVE active'[c] <= Cardinality(Holders(c))'
    <3>1. CASE c = d
      <4>1. active'[c] = 0
        BY <1>6, <2>1, <3>1 DEF BoundInv, CountsKnown
      <4>2. IsFiniteSet(Holders(c)')
        BY ConstantsAssumption, FS_Subset DEF Holders
      <4>3. Cardinality(Holders(c)') \in Nat
        BY <4>2, FS_CardinalityType
      <4>4. QED
        BY <4>1, <4>3
    <3>2. CASE c # d
      <4>1. r \notin Holders(c)
        BY <1>2, <1>d, <3>2, NoneIsNoPair DEF Holders
      <4>2. Holders(c) \subseteq Holders(c)'
        BY <1>1, <1>3, <2>1, <4>1 DEF Holders
      <4>3. active'[c] <= active[c]
        BY <1>0, <2>1 DEF TypeOK
      <4>4. QED
        BY <1>0, <4>2, <4>3, HoldersKept DEF BoundInv
    <3>3. QED
      BY <3>1, <3>2
  <2>3. CountedAsGranted'
    BY <1>1, <1>2, <1>3, <2>1 DEF BoundInv, CountedAsGranted
  <2>4. QED
    BY <1>1, <1>4, <2>1, <2>2, <2>3 DEF BoundInv, CountsHeld, CountsKnown
<1>7. QED
  BY <1>5, <1>6

\* Reevaluation grants fresh slots, which count only when they are taken up.
LEMMA ReevaluateBound ==
    ASSUME BoundInv, TypeOK', QueueInv', NEW c \in LocalPairs, Reevaluate(c)
    PROVE  BoundInv'
<1> DEFINE Served == {e.req : e \in Dispatchable}
<1>0. TypeOK
  BY DEF BoundInv, QueueInv
<1>1. /\ UNCHANGED <<pc, fut, slotVars, deployed>>
      /\ queue' \subseteq queue
      /\ inFlight' = inFlight \cup Served
  BY DEF Reevaluate
<1>2. PICK to \in [Dispatchable -> Local] :
        grant' = [r \in Requests |->
              IF \E e \in Dispatchable : e.req = r
              THEN LET e == CHOOSE e \in Dispatchable : e.req = r
                   IN  GrantOf(<<e.model, to[e]>>, FALSE)
              ELSE grant[r]]
  BY DEF Reevaluate
<1>3. \A e \in Dispatchable : /\ e \in queue /\ e.req \in Requests /\ e.model \in Models
                              /\ grant[e.req] = None /\ pc[e.req] = "queued"
                              /\ counted[e.req] = None
  BY <1>0 DEF Dispatchable, BoundInv, GrantedOnDispatch, CountedAsGranted, QueueInv,
              PendingWaits, TypeOK, Entry
<1>4. ASSUME NEW r \in Served
      PROVE  /\ r \in Requests /\ grant[r] = None /\ counted[r] = None /\ pc[r] = "queued"
             /\ grant'[r] # None
  <2>1. PICK e \in Dispatchable : /\ e.req = r
                                  /\ grant'[r] = GrantOf(<<e.model, to[e]>>, FALSE)
    BY <1>2, <1>3
  <2>2. <<e.model, to[e]>> \in Deployments
    BY <1>2, <1>3 DEF Deployments, Providers
  <2>3. GrantOf(<<e.model, to[e]>>, FALSE) # None
    BY <2>2, GrantPair
  <2>4. QED
    BY <1>3, <2>1, <2>3
<1>5. ASSUME NEW r \in Requests \ Served
      PROVE  grant'[r] = grant[r]
  BY <1>2, <1>5
<1>6. CountsHeld'
  <2>1. ASSUME NEW d \in LocalPairs PROVE Holders(d) \subseteq Holders(d)'
    <3>1. SUFFICES ASSUME NEW x \in Holders(d) PROVE x \in Holders(d)'
      OBVIOUS
    <3>2. x \in Requests \ Served
      BY <1>4, NoneIsNoPair DEF Holders
    <3>3. grant'[x] = grant[x]
      BY <1>5, <3>2
    <3>4. QED
      BY <1>1, <3>3 DEF Holders, slotVars
  <2>2. \A d \in LocalPairs : active'[d] <= active[d]
    BY <1>0, <1>1 DEF slotVars, TypeOK
  <2>3. QED
    BY <1>0, <2>1, <2>2, HoldersKept DEF BoundInv, CountsHeld
<1>7. CountedAsGranted'
  <2>1. \A x \in Requests : counted[x] # None \/ pc[x] = "idle" => x \notin Served
    BY <1>4
  <2>2. QED
    BY <1>1, <1>5, <2>1 DEF BoundInv, CountedAsGranted, slotVars
<1>8. GrantedOnDispatch'
  <2>1. \A e \in queue' : e.req \in Requests \ Served
    <3>1. \A e \in queue' : e.req \notin inFlight' /\ e.req \in Requests
      BY DEF QueueInv, OneEntryEach, TypeOK, Entry
    <3>2. QED
      BY <1>1, <3>1
  <2>2. QED
    BY <1>1, <1>4, <1>5, <2>1 DEF BoundInv, GrantedOnDispatch
<1>9. QED
  BY <1>1, <1>6, <1>7, <1>8 DEF BoundInv, CountsKnown, slotVars

\* A refresh forgets the requests of what it drops and the counts with them.
LEMMA RefreshBound ==
    ASSUME BoundInv, TypeOK', QueueInv', NEW D \in SUBSET LocalPairs, Refresh(D)
    PROVE  BoundInv'
<1>0. TypeOK
  BY DEF BoundInv, QueueInv
<1>1. /\ deployed' = D
      /\ tracking' = [r \in Requests |-> IF tracking[r] \in D THEN tracking[r] ELSE None]
      /\ counted' = [r \in Requests |-> IF counted[r] \in D THEN counted[r] ELSE None]
      /\ active' = [d \in LocalPairs |-> IF d \in D THEN active[d] ELSE 0]
      /\ UNCHANGED <<pc, fut, grant, inFlight, queue>>
  BY DEF Refresh, reqVars, queueVars
<1>2. (tracking = counted)' /\ GrantedOnDispatch' /\ CountsKnown'
  BY <1>1 DEF BoundInv, GrantedOnDispatch, CountsKnown
<1>3. CountedAsGranted'
  BY <1>1 DEF BoundInv, CountedAsGranted
<1>4. ASSUME NEW d \in LocalPairs PROVE active'[d] <= Cardinality(Holders(d))'
  <2>1. CASE d \in D
    <3>1. Holders(d) \subseteq Holders(d)'
      <4>1. None \notin D
        BY NoneIsNoPair
      <4>2. QED
        BY <1>1, <2>1, <4>1 DEF Holders
    <3>2. active'[d] <= active[d]
      BY <1>0, <1>1, <2>1 DEF TypeOK
    <3>3. QED
      BY <1>0, <3>1, <3>2, HoldersKept DEF BoundInv
  <2>2. CASE d \notin D
    <3>1. IsFiniteSet(Holders(d)')
      BY ConstantsAssumption, FS_Subset DEF Holders
    <3>2. Cardinality(Holders(d)') \in Nat
      BY <3>1, FS_CardinalityType
    <3>3. QED
      BY <1>1, <2>2, <3>2
  <2>3. QED
    BY <2>1, <2>2
<1>5. QED
  BY <1>2, <1>3, <1>4 DEF BoundInv, CountsHeld

\* No step, a refresh included, counts a unit that nobody holds.
LEMMA BoundStep == BoundInv /\ [RefreshNext]_vars => BoundInv'
<1> SUFFICES ASSUME BoundInv, [RefreshNext]_vars PROVE BoundInv'
  OBVIOUS
<1>0. TypeOK /\ TypeOK' /\ QueueInv /\ QueueInv'
  BY QueueStep DEF BoundInv, QueueInv
<1>1. ASSUME NEW r \in Requests, NEW d \in Deployments, ReserveLocal(r, d) \/ AcceptCloud(r, d)
      PROVE  BoundInv'
  BY <1>0, <1>1, AdmitBound
<1>2. ASSUME NEW r \in Requests, NEW d \in Deployments, Enqueue(r, d) PROVE BoundInv'
  <2>1. /\ pc[r] = "idle" /\ grant[r] = None
        /\ pc' = [pc EXCEPT ![r] = "queued"]
        /\ fut' = [fut EXCEPT ![r] = "pending"]
        /\ \A e \in queue' : e \in queue \/ e.req = r
        /\ UNCHANGED <<slotVars, grant, inFlight, deployed>>
    BY <1>2 DEF Enqueue, NewEntry, BoundInv, CountedAsGranted, envVars
  <2>2. r \notin inFlight
    BY <1>0, <2>1 DEF QueueInv, PendingWaits
  <2>3. \A x \in Requests : pc'[x] = "queued" /\ (x \in inFlight' \/ fut'[x] = "result")
                              => pc[x] = "queued" /\ (x \in inFlight \/ fut[x] = "result")
    BY <1>0, <2>1, <2>2 DEF TypeOK
  <2>4. QED
    BY <1>0, <2>1, <2>3, BoundUntouched DEF TypeOK
<1>3. ASSUME NEW r \in Requests,
             Reject(r) \/ DeliverResult(r) \/ Cancel(r) \/ ResumeCancelled(r) \/ Abandon(r)
             \/ ContextResolved(r) \/ StreamHandedOn(r) \/ StreamStarted(r)
      PROVE  BoundInv'
  <2>1. /\ UNCHANGED <<slotVars, grant, deployed>>
        /\ queue' \subseteq queue
    BY <1>3 DEF Reject, DeliverResult, Cancel, ResumeCancelled, Abandon, ContextResolved,
                StreamHandedOn, StreamStarted, queueVars, envVars
  <2>2. \A x \in Requests : \/ pc'[x] = pc[x]
                            \/ pc'[x] = "done"
                            \/ /\ pc[x] \in {"resolving", "handed"}
                               /\ pc'[x] \in {"handed", "executing"}
    BY <1>0, <1>3 DEF Reject, DeliverResult, Cancel, ResumeCancelled, Abandon,
                      ContextResolved, StreamHandedOn, StreamStarted, TypeOK
  <2>3. /\ inFlight' \subseteq inFlight
        /\ \A x \in Requests : fut'[x] = "result" => fut[x] = "result" \/ x \in inFlight
    BY <1>0, <1>3 DEF Reject, DeliverResult, Cancel, ResumeCancelled, Abandon,
                      ContextResolved, StreamHandedOn, StreamStarted, TypeOK
  <2>4. QED
    BY <1>0, <2>1, <2>2, <2>3, BoundUntouched
<1>4. ASSUME NEW r \in Requests, Resume(r) PROVE BoundInv'
  BY <1>0, <1>4, ResumeBound
<1>5. ASSUME NEW r \in Requests, ContextFailed(r) \/ Finish(r) PROVE BoundInv'
  BY <1>0, <1>5, ReleaseBound DEF ContextFailed, Finish
<1>6. ASSUME NEW d \in LocalPairs, Reevaluate(d) PROVE BoundInv'
  BY <1>0, <1>6, ReevaluateBound
<1>7. ASSUME NEW D \in SUBSET LocalPairs, Refresh(D) PROVE BoundInv'
  BY <1>0, <1>7, RefreshBound
<1>8. ASSUME UNCHANGED <<reqVars, queueVars, slotVars, deployed>> PROVE BoundInv'
  BY <1>0, <1>8, BoundUntouched DEF reqVars, queueVars
<1>9. QED
  BY <1>1, <1>2, <1>3, <1>4, <1>5, <1>6, <1>7, <1>8
     DEF RefreshNext, Next, Scheduling, Waiting, Serving, Planner, Workers, PlannerOrders,
         PlannerGivesUp, LaneChanges, NodeChanges, vars, envVars

\* However deployments are added and dropped while requests wait, are served,
\* cancelled or passed on, no deployment counts a request that is not there.
THEOREM NoSlotLeaks == RefreshSpec => []NeverOvercounts
<1>1. Init => BoundInv
  <2> SUFFICES ASSUME Init PROVE BoundInv
    OBVIOUS
  <2>1. QueueInv
    BY InitQueue
  <2>2. CountsHeld
    <3>1. \A d \in LocalPairs : active[d] = 0
      BY DEF Init
    <3>2. \A d \in LocalPairs : Cardinality(Holders(d)) \in Nat
      BY HoldersFinite, FS_CardinalityType
    <3>3. QED
      BY <3>1, <3>2 DEF CountsHeld
  <2>3. QED
    BY <2>1, <2>2 DEF Init, BoundInv, GrantedOnDispatch, CountedAsGranted, CountsKnown
<1>2. BoundInv => NeverOvercounts
  <2> SUFFICES ASSUME BoundInv, NEW d \in LocalPairs PROVE active[d] <= Cardinality(Owners(d))
    BY DEF NeverOvercounts
  <2>1. Cardinality(Holders(d)) <= Cardinality(Owners(d))
    BY HoldersFinite, OwnersFinite, FS_Subset
  <2>2. Cardinality(Holders(d)) \in Nat /\ Cardinality(Owners(d)) \in Nat
    BY HoldersFinite, OwnersFinite, FS_CardinalityType
  <2>3. QED
    BY <2>1, <2>2 DEF BoundInv, CountsHeld, QueueInv, TypeOK
<1>3. QED
  BY <1>1, <1>2, BoundStep, PTL DEF RefreshSpec
=============================================================================

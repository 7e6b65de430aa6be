--------------------------- MODULE AdmissionProofs ---------------------------
(* SlotScheduler implements Admission, for every value of its constants. *)
EXTENDS SlotSchedulerProofs

----------------------------------------------------------------------------
(* The mapping *)

\* Who waits for which model, as the refinement mapping reads it off the queue.
Waiters == {<<e.model, e.req>> : e \in {e \in queue : fut[e.req] = "pending"}}

\* A put-back waiter keeps its priority.
PrioKept == \A e \in queue : e.prio = Prio[e.req]

MapInv == SlotInv /\ PrioKept

\* Where each task stands decides what Admission sees of it.
LEMMA PhaseIs ==
    ASSUME NEW r \in Requests
    PROVE  /\ pc[r] = "idle" => Phase(r) = "new"
           /\ pc[r] = "queued" /\ grant[r] = None /\ fut[r] = "pending" => Phase(r) = "waiting"
           /\ pc[r] = "queued" /\ grant[r] = None /\ fut[r] # "pending" => Phase(r) = "gone"
           /\ pc[r] = "queued" /\ grant[r] # None => Phase(r) = "granted"
           /\ pc[r] \in {"resolving", "handed", "executing"} => Phase(r) = "granted"
           /\ pc[r] = "done" => Phase(r) = "gone"
BY DEF Phase, Undispatched

LEMMA PhaseBecomes ==
    ASSUME NEW r \in Requests
    PROVE  /\ pc'[r] = "idle" => Phase(r)' = "new"
           /\ pc'[r] = "queued" /\ grant'[r] = None /\ fut'[r] = "pending" => Phase(r)' = "waiting"
           /\ pc'[r] = "queued" /\ grant'[r] = None /\ fut'[r] # "pending" => Phase(r)' = "gone"
           /\ pc'[r] = "queued" /\ grant'[r] # None => Phase(r)' = "granted"
           /\ pc'[r] \in {"resolving", "handed", "executing"} => Phase(r)' = "granted"
           /\ pc'[r] = "done" => Phase(r)' = "gone"
BY DEF Phase, Undispatched

\* A task of which nothing changed looks the same to Admission.
LEMMA SamePhase ==
    ASSUME NEW r \in Requests,
           pc'[r] = pc[r], grant'[r] = grant[r], fut'[r] = fut[r]
    PROVE  Phase(r)' = Phase(r)
BY DEF Phase, Undispatched

\* Whoever waits in the queue is seen waiting, for that model only.
LEMMA WaitersWait ==
    ASSUME MapInv, NEW m, NEW r, <<m, r>> \in Waiters
    PROVE  /\ r \in Requests /\ m \in Models /\ Phase(r) = "waiting" /\ pc[r] = "queued"
           /\ grant[r] = None /\ fut[r] = "pending"
           /\ \A k : <<k, r>> \in Waiters => k = m
<1>1. PICK e \in queue : fut[e.req] = "pending" /\ e.model = m /\ e.req = r
  BY DEF Waiters
<1>2. e.req \in Requests /\ e.model \in Models
  BY <1>1 DEF MapInv, SlotInv, QueueInv, TypeOK, Entry
<1>3. grant[r] = None /\ pc[r] = "queued"
  BY <1>1, <1>2 DEF MapInv, SlotInv, GrantedOnDispatch, QueueInv, PendingWaits
<1>4. ASSUME NEW k, <<k, r>> \in Waiters PROVE k = m
  <2>1. PICK f \in queue : fut[f.req] = "pending" /\ f.model = k /\ f.req = r
    BY <1>4 DEF Waiters
  <2>2. f = e
    BY <1>1, <2>1 DEF MapInv, SlotInv, QueueInv, OneEntryEach
  <2>3. QED
    BY <1>1, <2>1, <2>2
<1>5. QED
  BY <1>1, <1>2, <1>3, <1>4, PhaseIs

----------------------------------------------------------------------------
(* Steps of Admission, from what they change *)

\* What Admission does not see.
LEMMA Unseen ==
    ASSUME \A x \in Requests : Phase(x)' = Phase(x),
           \A x \in Requests : Phase(x) = "granted" => grant'[x] = grant[x],
           Waiters' = Waiters
    PROVE  UNCHANGED Abstract!vars
<1>1. [x \in Requests |-> Phase(x)]' = [x \in Requests |-> Phase(x)]
  OBVIOUS
<1>2. [x \in Requests |-> IF Phase(x) = "granted" THEN PairOf(grant[x]) ELSE None]'
        = [x \in Requests |-> IF Phase(x) = "granted" THEN PairOf(grant[x]) ELSE None]
  BY DEF PairOf
<1>3. QED
  BY <1>1, <1>2 DEF Abstract!vars, Waiters

\* A request is given a deployment at once.
LEMMA Admitted ==
    ASSUME NEW r \in Requests, NEW d \in Deployments, d[1] \in Wants[r],
           Phase(r) = "new", Phase(r)' = "granted", PairOf(grant'[r]) = d,
           \A x \in Requests \ {r} : Phase(x)' = Phase(x) /\ grant'[x] = grant[x],
           Waiters' = Waiters
    PROVE  Abstract!Next
<1>1. [x \in Requests |-> Phase(x)]'
        = [[x \in Requests |-> Phase(x)] EXCEPT ![r] = "granted"]
  OBVIOUS
<1>2. [x \in Requests |-> IF Phase(x) = "granted" THEN PairOf(grant[x]) ELSE None]'
        = [[x \in Requests |-> IF Phase(x) = "granted" THEN PairOf(grant[x]) ELSE None]
              EXCEPT ![r] = d]
  BY DEF PairOf
<1>3. Abstract!Admit(r, d)
  BY <1>1, <1>2 DEF Abstract!Admit, Waiters
<1>4. d \in Abstract!Deployments
  BY DEF Abstract!Deployments, Deployments
<1>5. QED
  BY <1>3, <1>4 DEF Abstract!Next

\* A request begins to wait.
LEMMA Waits ==
    ASSUME NEW r \in Requests, NEW m \in Models, m \in Wants[r],
           Phase(r) = "new", Phase(r)' = "waiting",
           \A x \in Requests \ {r} : Phase(x)' = Phase(x) /\ grant'[x] = grant[x],
           Waiters' = Waiters \cup {<<m, r>>}
    PROVE  Abstract!Next
<1>1. [x \in Requests |-> Phase(x)]'
        = [[x \in Requests |-> Phase(x)] EXCEPT ![r] = "waiting"]
  OBVIOUS
<1>2. [x \in Requests |-> IF Phase(x) = "granted" THEN PairOf(grant[x]) ELSE None]'
        = [x \in Requests |-> IF Phase(x) = "granted" THEN PairOf(grant[x]) ELSE None]
  BY DEF PairOf
<1>3. Abstract!Wait(r, m)
  BY <1>1, <1>2 DEF Abstract!Wait, Waiters
<1>4. QED
  BY <1>3 DEF Abstract!Next

\* A request leaves.
LEMMA Leaves ==
    ASSUME NEW r \in Requests, Phase(r) # "gone", Phase(r)' = "gone",
           \A x \in Requests \ {r} :
               Phase(x)' = Phase(x) /\ (Phase(x) = "granted" => grant'[x] = grant[x]),
           Waiters' = {w \in Waiters : w[2] # r}
    PROVE  Abstract!Next
<1>1. [x \in Requests |-> Phase(x)]'
        = [[x \in Requests |-> Phase(x)] EXCEPT ![r] = "gone"]
  OBVIOUS
<1>2. [x \in Requests |-> IF Phase(x) = "granted" THEN PairOf(grant[x]) ELSE None]'
        = [[x \in Requests |-> IF Phase(x) = "granted" THEN PairOf(grant[x]) ELSE None]
              EXCEPT ![r] = None]
  BY DEF PairOf
<1>3. Waiters' = {w \in Waiters : w[2] \notin {r}}
  OBVIOUS
<1>4. Abstract!Leave(r)
  BY <1>1, <1>2, <1>3 DEF Abstract!Leave, Abstract!NoLonger, Waiters
<1>5. QED
  BY <1>4 DEF Abstract!Next

\* A request passes its deployment to the first waiter.
LEMMA HandsOver ==
    ASSUME NEW r \in Requests, NEW s \in Requests, r # s,
           Phase(r) = "granted", Phase(s) = "waiting",
           Phase(r)' = "gone", Phase(s)' = "granted",
           PairOf(grant'[s]) = PairOf(grant[r]),
           <<PairOf(grant[r])[1], s>> \in Waiters,
           \A x \in Requests \ {s}, m \in Models :
               <<m, s>> \in Waiters /\ <<m, x>> \in Waiters => Prio[x] <= Prio[s],
           \A x \in Requests \ {r, s} : Phase(x)' = Phase(x) /\ grant'[x] = grant[x],
           Waiters' = {w \in Waiters : w[2] # s}
    PROVE  Abstract!Next
<1> DEFINE phase == [x \in Requests |-> Phase(x)]
           at == [x \in Requests |-> IF Phase(x) = "granted" THEN PairOf(grant[x]) ELSE None]
<1>1. [x \in Requests |-> Phase(x)]' = [phase EXCEPT ![r] = "gone", ![s] = "granted"]
  OBVIOUS
<1>2. [x \in Requests |-> IF Phase(x) = "granted" THEN PairOf(grant[x]) ELSE None]'
        = [at EXCEPT ![r] = None, ![s] = at[r]]
  BY DEF PairOf
<1>3. Waiters' = {w \in Waiters : w[2] \notin {s}}
  OBVIOUS
<1>4. Abstract!InOrder({s})
  BY DEF Abstract!InOrder, Waiters
<1>5. phase[r] = "granted" /\ at[r] = PairOf(grant[r])
  OBVIOUS
<1>6. Abstract!HandOver(r, s)
  BY <1>1, <1>2, <1>3, <1>4, <1>5 DEF Abstract!HandOver, Abstract!NoLonger, Waiters
<1>7. s \in Abstract!Waiting
  BY DEF Abstract!Waiting
<1>8. QED
  BY <1>6, <1>7 DEF Abstract!Next

\* Waiters are taken, each to its deployment.
LEMMA Dispatches ==
    ASSUME NEW S \in SUBSET Requests,
           \A x \in S : /\ Phase(x) = "waiting" /\ Phase(x)' = "granted"
                        /\ PairOf(grant'[x]) \in Deployments
                        /\ <<PairOf(grant'[x])[1], x>> \in Waiters,
           \A x \in S, y \in Requests \ S, m \in Models :
               <<m, x>> \in Waiters /\ <<m, y>> \in Waiters => Prio[y] <= Prio[x],
           \A x \in Requests \ S : Phase(x)' = Phase(x) /\ grant'[x] = grant[x],
           Waiters' = {w \in Waiters : w[2] \notin S}
    PROVE  Abstract!Next
<1> DEFINE phase == [x \in Requests |-> Phase(x)]
           at == [x \in Requests |-> IF Phase(x) = "granted" THEN PairOf(grant[x]) ELSE None]
<1>0. PICK to : to = [x \in S |-> PairOf(grant'[x])]
  OBVIOUS
<1>1. [x \in Requests |-> Phase(x)]'
        = [x \in Requests |-> IF x \in S THEN "granted" ELSE phase[x]]
  OBVIOUS
<1>2. [x \in Requests |-> IF Phase(x) = "granted" THEN PairOf(grant[x]) ELSE None]'
        = [x \in Requests |-> IF x \in S THEN to[x] ELSE at[x]]
  BY <1>0 DEF PairOf
<1>3. Abstract!InOrder(S)
  BY DEF Abstract!InOrder, Waiters
<1>4. \A x \in S : <<to[x][1], x>> \in Waiters
  BY <1>0
<1>5. Abstract!Dispatch(S, to)
  BY <1>1, <1>2, <1>3, <1>4 DEF Abstract!Dispatch, Abstract!NoLonger, Waiters
<1>6. S \in SUBSET Abstract!Waiting /\ to \in [S -> Abstract!Deployments]
  BY <1>0 DEF Abstract!Waiting, Abstract!Deployments, Deployments
<1>7. QED
  BY <1>5, <1>6 DEF Abstract!Next

----------------------------------------------------------------------------
(* Steps of SlotScheduler *)

\* The first of the live entries has the highest priority among them.
LEMMA FirstIsHighest ==
    ASSUME MapInv, NEW m, NEW e \in Live(m), \A f \in Live(m) \ {e} : Before(e, f),
           NEW x, <<m, x>> \in Waiters
    PROVE  Prio[x] <= Prio[e.req]
<1>1. PICK f \in queue : fut[f.req] = "pending" /\ f.model = m /\ f.req = x
  BY DEF Waiters
<1>2. f \in Live(m) /\ e \in queue
  BY <1>1 DEF Live
<1>3. f.prio <= e.prio
  BY <1>2 DEF Before, MapInv, SlotInv, QueueInv, TypeOK, Entry
<1>4. QED
  BY <1>1, <1>2, <1>3 DEF MapInv, PrioKept

\* release() ends the request, with or without an heir.
LEMMA ReleaseMaps ==
    ASSUME MapInv, TypeOK', NEW r \in Requests, Release(r),
           pc[r] \in {"resolving", "executing"}
    PROVE  Abstract!Next
<1> DEFINE d == PairOf(grant[r])
           P == Popped(d[1], 1)
<1>0. TypeOK /\ QueueInv /\ SlotInv /\ PrioKept
  BY DEF MapInv, SlotInv, QueueInv
<1>1. /\ grant[r] # None /\ grant[r] \in Grant /\ d \in Deployments
      /\ Phase(r) = "granted"
  <2>1. grant[r] # None /\ grant[r] \in Grant
    BY <1>0 DEF SlotInv, HolderCounted, TypeOK
  <2>2. QED
    BY <2>1, PhaseIs DEF PairOf, Grant, Deployments
<1>2. /\ pc' = [pc EXCEPT ![r] = "done"] /\ fut' = fut
      /\ Phase(r)' = "gone"
  BY <1>0, PhaseBecomes DEF Release, TypeOK
<1>3. P \subseteq queue /\ \A e \in P : e.model = d[1]
  BY DEF Popped
<1>4. ASSUME UNCHANGED grant \/ grant' = [grant EXCEPT ![r] = None], Waiters' = Waiters
      PROVE  Abstract!Next
  <2>1. \A x \in Requests \ {r} : Phase(x)' = Phase(x) /\ grant'[x] = grant[x]
    BY <1>0, <1>2, <1>4, SamePhase DEF TypeOK
  <2>2. \A w \in Waiters : w[2] # r
    <3>1. ASSUME NEW w \in Waiters PROVE w[2] # r
      <4>1. w = <<w[1], w[2]>>
        BY <3>1 DEF Waiters
      <4>2. Phase(w[2]) = "waiting"
        BY <3>1, <4>1, WaitersWait
      <4>3. QED
        BY <1>1, <4>2
    <3>2. QED
      BY <3>1
  <2>3. Waiters' = {w \in Waiters : w[2] # r}
    BY <1>4, <2>2
  <2>4. QED
    BY <1>1, <1>2, <2>1, <2>3, Leaves
<1>5. CASE ReleaseToNobody(r)
  <2>1. queue' = queue \ P /\ Live(d[1]) = {} /\ grant' = [grant EXCEPT ![r] = None]
    BY <1>5 DEF ReleaseToNobody
  <2>2. \A e \in P : fut[e.req] # "pending"
    BY <1>3, <2>1 DEF Live
  <2>3. Waiters' = Waiters
    BY <1>2, <2>1, <2>2 DEF Waiters
  <2>4. QED
    BY <1>4, <2>1, <2>3
<1>6. CASE ReleaseToWaiter(r)
  <2>1. PICK e \in Live(d[1]) :
          /\ \A f \in Live(d[1]) \ {e} : Before(e, f)
          /\ queue' = queue \ P
          /\ grant' = [grant EXCEPT ![r] = None, ![e.req] = GrantOf(d, TRUE)]
    BY <1>6 DEF ReleaseToWaiter
  <2> DEFINE s == e.req
  <2>2. e \in queue /\ fut[s] = "pending" /\ e.model = d[1] /\ <<d[1], s>> \in Waiters
    BY DEF Live, Waiters
  <2>3. /\ s \in Requests /\ Phase(s) = "waiting" /\ pc[s] = "queued" /\ s # r
        /\ \A k : <<k, s>> \in Waiters => k = d[1]
    BY <1>1, <2>2, WaitersWait
  <2>4. /\ grant'[s] = GrantOf(d, TRUE)
        /\ \A x \in Requests \ {r, s} : grant'[x] = grant[x]
    <3>1. grant \in [Requests -> Grant \cup {None}] /\ s \in Requests /\ s # r
      BY <1>0, <2>3 DEF TypeOK
    <3>2. QED
      BY <2>1, <3>1
  <2>5. GrantOf(d, TRUE) # None /\ PairOf(GrantOf(d, TRUE)) = d
    BY <1>1, GrantPair
  <2>6. pc'[s] = "queued" /\ \A x \in Requests \ {r} : pc'[x] = pc[x]
    BY <1>0, <1>2, <2>3 DEF TypeOK
  <2>7. Phase(s)' = "granted"
    BY <2>3, <2>4, <2>5, <2>6, PhaseBecomes
  <2>8. \A x \in Requests \ {r, s} : Phase(x)' = Phase(x) /\ grant'[x] = grant[x]
    <3>1. \A x \in Requests \ {r, s} : /\ pc'[x] = pc[x] /\ fut'[x] = fut[x]
                                       /\ grant'[x] = grant[x]
      BY <1>2, <2>4, <2>6
    <3>2. QED
      BY <3>1, SamePhase
  <2>9. \A x \in Requests \ {s}, m \in Models :
            <<m, s>> \in Waiters /\ <<m, x>> \in Waiters => Prio[x] <= Prio[s]
    BY <2>1, <2>3, FirstIsHighest
  <2>10. Waiters' = {w \in Waiters : w[2] # s}
    <3>1. e \in P /\ \A f \in P : fut[f.req] = "pending" => f = e
      BY <1>0, <2>1, PopTakesFirst
    <3>2. \A f \in queue : f.req = s => f = e
      BY <1>0, <2>2 DEF QueueInv, OneEntryEach
    <3>3. QED
      BY <1>2, <2>1, <3>1, <3>2 DEF Waiters
  <2>11. QED
    BY <1>1, <1>2, <2>2, <2>3, <2>4, <2>5, <2>7, <2>8, <2>9, <2>10, HandsOver
<1>7. CASE ReleaseAndRequeue(r)
  <2>1. PICK e \in Live(d[1]) :
          /\ \A f \in Live(d[1]) \ {e} : Before(e, f)
          /\ queue' = (queue \ P) \cup {NewEntry(d[1], e.req, e.prio)}
          /\ grant' = [grant EXCEPT ![r] = None]
    BY <1>7 DEF ReleaseAndRequeue
  <2>2. e \in queue /\ fut[e.req] = "pending" /\ e.model = d[1]
    BY DEF Live
  <2>3. e \in P /\ \A f \in P : fut[f.req] = "pending" => f = e
    BY <1>0, <2>1, PopTakesFirst
  <2>4. NewEntry(d[1], e.req, e.prio).req = e.req /\ NewEntry(d[1], e.req, e.prio).model = d[1]
    BY DEF NewEntry
  <2>5. Waiters' = Waiters
    <3>1. \A w : w \in Waiters' => w \in Waiters
      BY <1>2, <2>1, <2>2, <2>4 DEF Waiters
    <3>2. ASSUME NEW w \in Waiters PROVE w \in Waiters'
      <4>1. PICK f \in queue : fut[f.req] = "pending" /\ w = <<f.model, f.req>>
        BY <3>2 DEF Waiters
      <4>2. CASE f = e
        BY <1>2, <2>1, <2>2, <2>4, <4>1, <4>2 DEF Waiters
      <4>3. CASE f # e
        BY <1>2, <2>1, <2>3, <4>1, <4>3 DEF Waiters
      <4>4. QED
        BY <4>2, <4>3
    <3>3. QED
      BY <3>1, <3>2
  <2>6. QED
    BY <1>4, <2>1, <2>5
<1>8. QED
  BY <1>5, <1>6, <1>7 DEF Release

\* The free slots of a model are finitely many.
LEMMA SlotsAreNat ==
    ASSUME NEW m \in Models
    PROVE  SlotsOf(m, Eligible(m)) \in Nat
<1>1. IsFiniteSet(Eligible(m)) /\ IsFiniteSet(1..Capacity)
  <2>1. Eligible(m) \in SUBSET Local /\ IsFiniteSet(Local) /\ Capacity \in Int
    BY ConstantsAssumption DEF Eligible
  <2>2. QED
    BY <2>1, FS_Subset, FS_Interval
<1>2. IsFiniteSet(Eligible(m) \X (1..Capacity))
  BY <1>1, FS_Product
<1>3. IsFiniteSet({s \in Eligible(m) \X (1..Capacity) : s[2] <= FreeSlots(<<m, s[1]>>)})
  BY <1>2, FS_Subset
<1>4. QED
  BY <1>3, FS_CardinalityType DEF SlotsOf

\* Whoever comes before a live entry has fewer live entries ahead.
LEMMA AheadGrows ==
    ASSUME MapInv, NEW e \in queue, NEW f \in queue, e.model = f.model, Before(f, e)
    PROVE  Ahead(f) <= Ahead(e) /\ Ahead(f) \in Nat /\ Ahead(e) \in Nat
<1> DEFINE F == {g \in Live(f.model) : Before(g, f)}
           E == {g \in Live(e.model) : Before(g, e)}
<1>1. F \subseteq E
  BY DEF Before, Live, MapInv, SlotInv, QueueInv, TypeOK, Entry
<1>2. IsFiniteSet(E) /\ IsFiniteSet(F)
  BY FS_Subset DEF Live, MapInv, SlotInv, QueueInv
<1>3. Cardinality(F) <= Cardinality(E)
  BY <1>1, <1>2, FS_Subset
<1>4. QED
  BY <1>2, <1>3, FS_CardinalityType DEF Ahead

\* Reevaluation takes the first live entries of each model, in one step.
LEMMA ReevaluateMaps ==
    ASSUME MapInv, TypeOK', NEW c \in LocalPairs, Reevaluate(c)
    PROVE  Abstract!Next
<1> DEFINE S == {e.req : e \in Dispatchable}
<1>0. TypeOK /\ QueueInv /\ SlotInv /\ PrioKept
  BY DEF MapInv, SlotInv, QueueInv
<1>1. /\ UNCHANGED <<pc, fut>>
      /\ queue' = queue \ UNION {Popped(m, SlotsOf(m, Eligible(m))) : m \in Models}
  BY DEF Reevaluate
<1>2. PICK to \in [Dispatchable -> Local] :
        grant' = [r \in Requests |->
            IF \E e \in Dispatchable : e.req = r
            THEN LET e == CHOOSE e \in Dispatchable : e.req = r
                 IN  GrantOf(<<e.model, to[e]>>, FALSE)
            ELSE grant[r]]
  BY DEF Reevaluate
<1>3. ASSUME NEW e \in Dispatchable
      PROVE  /\ e \in queue /\ e.req \in Requests /\ e.model \in Models
             /\ fut[e.req] = "pending" /\ <<e.model, e.req>> \in Waiters
             /\ grant'[e.req] = GrantOf(<<e.model, to[e]>>, FALSE)
             /\ <<e.model, to[e]>> \in Deployments
  <2>1. e \in queue /\ e.req \in Requests /\ e.model \in Models /\ fut[e.req] = "pending"
    BY <1>0 DEF Dispatchable, TypeOK, Entry
  <2>2. \A f \in Dispatchable : f.req = e.req => f = e
    BY <1>0, <2>1 DEF QueueInv, OneEntryEach, Dispatchable
  <2>3. (CHOOSE f \in Dispatchable : f.req = e.req) = e
    BY <2>2
  <2>4. grant'[e.req] = GrantOf(<<e.model, to[e]>>, FALSE)
    BY <1>2, <2>1, <2>3
  <2>5. <<e.model, to[e]>> \in Deployments
    BY <2>1 DEF Deployments, Providers
  <2>6. QED
    BY <2>1, <2>4, <2>5 DEF Waiters
<1>4. S \in SUBSET Requests
  BY <1>3
<1>5. ASSUME NEW x \in S
      PROVE  /\ Phase(x) = "waiting" /\ Phase(x)' = "granted"
             /\ PairOf(grant'[x]) \in Deployments
             /\ <<PairOf(grant'[x])[1], x>> \in Waiters
  <2>1. PICK e \in Dispatchable : e.req = x
    OBVIOUS
  <2>2. /\ <<e.model, x>> \in Waiters /\ x \in Requests
        /\ grant'[x] = GrantOf(<<e.model, to[e]>>, FALSE)
        /\ <<e.model, to[e]>> \in Deployments
    BY <1>3, <2>1
  <2>3. grant'[x] # None /\ PairOf(grant'[x]) = <<e.model, to[e]>>
    BY <2>2, GrantPair
  <2>4. Phase(x) = "waiting" /\ pc[x] = "queued"
    BY <2>2, WaitersWait
  <2>5. Phase(x)' = "granted"
    BY <1>1, <2>2, <2>3, <2>4, PhaseBecomes
  <2>6. PairOf(grant'[x]) \in Deployments /\ PairOf(grant'[x])[1] = e.model
    <3>1. PairOf(grant'[x]) \in Deployments
      BY <2>2, <2>3
    <3>2. <<e.model, to[e]>>[1] = e.model
      OBVIOUS
    <3>3. PairOf(grant'[x])[1] = e.model
      BY <2>3, <3>2
    <3>4. QED
      BY <3>1, <3>3
  <2>7. QED
    BY <2>2, <2>4, <2>5, <2>6
<1>6. ASSUME NEW x \in S, NEW y \in Requests \ S, NEW m \in Models,
             <<m, x>> \in Waiters, <<m, y>> \in Waiters
      PROVE  Prio[y] <= Prio[x]
  <2>1. PICK e \in Dispatchable : e.req = x
    OBVIOUS
  <2>2. PICK f \in queue : fut[f.req] = "pending" /\ f.model = m /\ f.req = y
    BY <1>6 DEF Waiters
  <2>3. e \in queue /\ <<e.model, x>> \in Waiters /\ f \notin Dispatchable
    BY <1>3, <2>1, <2>2
  <2>4. e.model = m
    BY <1>6, <2>3, WaitersWait
  <2>5. Ahead(e) < SlotsOf(m, Eligible(m)) /\ ~(Ahead(f) < SlotsOf(m, Eligible(m)))
    BY <2>1, <2>2, <2>3, <2>4 DEF Dispatchable
  <2>6. ~Before(f, e)
    BY <2>2, <2>3, <2>4, <2>5, SlotsAreNat, AheadGrows
  <2>7. f.prio <= e.prio
    BY <1>0, <2>2, <2>3, <2>6 DEF Before, TypeOK, Entry
  <2>8. QED
    BY <1>0, <2>1, <2>2, <2>3, <2>7 DEF PrioKept
<1>7. \A x \in Requests \ S : Phase(x)' = Phase(x) /\ grant'[x] = grant[x]
  <2>1. \A x \in Requests \ S : grant'[x] = grant[x]
    BY <1>2
  <2>2. QED
    BY <1>1, <2>1, SamePhase
<1>8. Waiters' = {w \in Waiters : w[2] \notin S}
  <2>1. ASSUME NEW e \in queue, fut[e.req] = "pending"
        PROVE  e \in queue' <=> e.req \notin S
    <3>1. e.model \in Models /\ e.req \in Requests
      BY <1>0 DEF TypeOK, Entry
    <3>2. e \in queue' <=> e \notin Dispatchable
      BY <1>1, <2>1, <3>1 DEF Popped, Dispatchable
    <3>3. e \in Dispatchable <=> e.req \in S
      BY <1>0, <1>3, <2>1 DEF QueueInv, OneEntryEach
    <3>4. QED
      BY <3>2, <3>3
  <2>2. queue' \subseteq queue
    BY <1>1
  <2>3. QED
    BY <1>1, <2>1, <2>2 DEF Waiters
<1>9. QED
  BY <1>4, <1>5, <1>6, <1>7, <1>8, Dispatches

\* A waiter keeps its priority, also when it is put back.
LEMMA PrioStep ==
    ASSUME SlotInv, PrioKept, [Next]_vars
    PROVE  PrioKept'
<1>0. TypeOK /\ QueueInv
  BY DEF SlotInv, QueueInv
<1>1. ASSUME NEW r \in Requests, NEW d \in Deployments, Enqueue(r, d) PROVE PrioKept'
  BY <1>1 DEF Enqueue, NewEntry, PrioKept
<1>2. ASSUME NEW r \in Requests, Release(r) PROVE PrioKept'
  <2> DEFINE m == PairOf(grant[r])[1]
  <2>1. CASE queue' \subseteq queue
    BY <2>1 DEF PrioKept
  <2>2. CASE ReleaseAndRequeue(r)
    <3>1. PICK e \in Live(m) :
            queue' = (queue \ Popped(m, 1)) \cup {NewEntry(m, e.req, e.prio)}
      BY <2>2 DEF ReleaseAndRequeue
    <3>2. NewEntry(m, e.req, e.prio).prio = Prio[NewEntry(m, e.req, e.prio).req]
      BY DEF NewEntry, PrioKept, Live
    <3>3. QED
      BY <3>1, <3>2 DEF PrioKept
  <2>3. QED
    BY <1>2, <2>1, <2>2 DEF Release, ReleaseToNobody, ReleaseToWaiter
<1>3. CASE queue' \subseteq queue
  BY <1>3 DEF PrioKept
<1>4. ASSUME NEW r \in Requests, NEW d \in Deployments, ReserveLocal(r, d) \/ AcceptCloud(r, d)
      PROVE  UNCHANGED queue
  BY <1>4 DEF ReserveLocal, AcceptCloud, queueVars
<1>5. ASSUME NEW r \in Requests,
             Reject(r) \/ DeliverResult(r) \/ Resume(r) \/ ResumeCancelled(r) \/ ContextResolved(r)
             \/ StreamHandedOn(r) \/ StreamStarted(r) \/ Cancel(r) \/ Abandon(r)
      PROVE  queue' \subseteq queue
  BY <1>5 DEF Reject, DeliverResult, Resume, ResumeCancelled, ContextResolved,
              StreamHandedOn, StreamStarted, Cancel, Abandon, queueVars
<1>6. ASSUME NEW d \in LocalPairs, Planner(d) PROVE queue' \subseteq queue
  BY <1>6 DEF Planner, PlannerOrders, Reevaluate, PlannerGivesUp, queueVars
<1>7. CASE Workers \/ UNCHANGED vars
  BY <1>3, <1>7 DEF Workers, LaneChanges, NodeChanges, vars, queueVars
<1>8. QED
  BY <1>1, <1>2, <1>3, <1>4, <1>5, <1>6, <1>7
     DEF Next, Scheduling, Waiting, Serving, ContextFailed, Finish

\* Every step is one of Admission's, or none that it sees.
LEMMA MapStep ==
    ASSUME MapInv, MapInv', [Next]_vars
    PROVE  [Abstract!Next]_Abstract!vars
<1>0. TypeOK /\ TypeOK' /\ QueueInv /\ SlotInv /\ QueueInv'
  BY DEF MapInv, SlotInv, QueueInv
<1>1. ASSUME NEW r \in Requests, NEW d \in Deployments, ReserveLocal(r, d) \/ AcceptCloud(r, d)
      PROVE  Abstract!Next
  <2>1. /\ pc[r] = "idle" /\ d[1] \in Wants[r]
        /\ pc' = [pc EXCEPT ![r] = "resolving"]
        /\ grant' = [grant EXCEPT ![r] = GrantOf(d, FALSE)]
        /\ UNCHANGED <<fut, queue>>
    BY <1>1 DEF ReserveLocal, AcceptCloud, Candidates, queueVars
  <2>2. Phase(r) = "new" /\ Phase(r)' = "granted"
    BY <1>0, <2>1, PhaseIs, PhaseBecomes DEF TypeOK
  <2>3. \A x \in Requests \ {r} : Phase(x)' = Phase(x) /\ grant'[x] = grant[x]
    <3>1. \A x \in Requests \ {r} : /\ pc'[x] = pc[x] /\ fut'[x] = fut[x]
                                    /\ grant'[x] = grant[x]
      BY <1>0, <2>1 DEF TypeOK
    <3>2. QED
      BY <3>1, SamePhase
  <2>4. PairOf(grant'[r]) = d
    <3>1. grant'[r] = GrantOf(d, FALSE)
      BY <1>0, <2>1 DEF TypeOK
    <3>2. QED
      BY <3>1, GrantPair
  <2>5. Waiters' = Waiters
    BY <2>1 DEF Waiters
  <2>6. QED
    BY <2>1, <2>2, <2>3, <2>4, <2>5, Admitted
<1>2. ASSUME NEW r \in Requests, NEW d \in Deployments, Enqueue(r, d) PROVE Abstract!Next
  <2> DEFINE n == NewEntry(d[1], r, Prio[r])
  <2>1. /\ pc[r] = "idle" /\ d[1] \in Wants[r] /\ d[1] \in Models
        /\ pc' = [pc EXCEPT ![r] = "queued"]
        /\ fut' = [fut EXCEPT ![r] = "pending"]
        /\ queue' = queue \cup {n} /\ n.req = r /\ n.model = d[1]
        /\ UNCHANGED grant
    BY <1>2 DEF Enqueue, Candidates, Deployments, NewEntry
  <2>2. grant[r] = None /\ \A e \in queue : e.req # r
    BY <1>0, <2>1 DEF SlotInv, GrantsKnown, QueueInv, PendingWaits, OneEntryEach
  <2>3. Phase(r) = "new" /\ Phase(r)' = "waiting"
    BY <1>0, <2>1, <2>2, PhaseIs, PhaseBecomes DEF TypeOK
  <2>4. \A x \in Requests \ {r} : Phase(x)' = Phase(x) /\ grant'[x] = grant[x]
    BY <1>0, <2>1, SamePhase DEF TypeOK
  <2>5. Waiters' = Waiters \cup {<<d[1], r>>}
    <3>1. \A e \in queue : fut'[e.req] = fut[e.req]
      BY <1>0, <2>1, <2>2 DEF TypeOK, Entry
    <3>2. fut'[n.req] = "pending"
      BY <1>0, <2>1 DEF TypeOK
    <3>3. QED
      BY <2>1, <3>1, <3>2 DEF Waiters
  <2>6. QED
    BY <2>1, <2>3, <2>4, <2>5, Waits
<1>3. ASSUME NEW r \in Requests, Reject(r) PROVE Abstract!Next
  <2>1. pc[r] = "idle" /\ pc' = [pc EXCEPT ![r] = "done"] /\ UNCHANGED <<grant, fut, queue>>
    BY <1>3 DEF Reject, queueVars
  <2>2. Phase(r) = "new" /\ Phase(r)' = "gone"
    BY <1>0, <2>1, PhaseIs, PhaseBecomes DEF TypeOK
  <2>3. \A x \in Requests \ {r} : Phase(x)' = Phase(x) /\ grant'[x] = grant[x]
    BY <1>0, <2>1, SamePhase DEF TypeOK
  <2>4. Waiters' = {w \in Waiters : w[2] # r}
    <3>1. \A e \in queue : fut[e.req] = "pending" => e.req # r
      BY <1>0, <2>1 DEF QueueInv, PendingWaits, TypeOK, Entry
    <3>2. QED
      BY <2>1, <3>1 DEF Waiters
  <2>5. QED
    BY <2>2, <2>3, <2>4, Leaves
<1>4. ASSUME NEW r \in Requests, DeliverResult(r) PROVE UNCHANGED Abstract!vars
  <2>1. /\ r \in inFlight /\ UNCHANGED <<pc, grant, queue>>
        /\ fut' = [fut EXCEPT ![r] = IF @ = "pending" THEN "result" ELSE @]
    BY <1>4 DEF DeliverResult, queueVars
  <2>2. /\ pc[r] = "queued" => grant[r] # None
        /\ \A e \in queue : e.req # r
    BY <1>0, <2>1 DEF SlotInv, GrantedOnDispatch, QueueInv, OneEntryEach
  <2>3. Phase(r)' = Phase(r)
    BY <1>0, <2>1, <2>2, PhaseIs, PhaseBecomes DEF TypeOK
  <2>4. \A x \in Requests \ {r} : Phase(x)' = Phase(x)
    BY <1>0, <2>1, SamePhase DEF TypeOK
  <2>5. Waiters' = Waiters
    <3>1. \A e \in queue : fut'[e.req] = fut[e.req]
      BY <1>0, <2>1, <2>2 DEF TypeOK, Entry
    <3>2. QED
      BY <2>1, <3>1 DEF Waiters
  <2>6. QED
    BY <2>1, <2>3, <2>4, <2>5, Unseen
<1>5. ASSUME NEW r \in Requests, Cancel(r) PROVE [Abstract!Next]_Abstract!vars
  <2>1. /\ pc[r] = "queued" /\ UNCHANGED <<pc, grant, queue>>
        /\ fut' = [fut EXCEPT ![r] = IF @ = "pending" THEN "cancelled" ELSE @]
    BY <1>5 DEF Cancel, queueVars
  <2>2. \A x \in Requests \ {r} : Phase(x)' = Phase(x) /\ grant'[x] = grant[x]
    BY <1>0, <2>1, SamePhase DEF TypeOK
  <2>3. \A e \in queue : e.req \in Requests /\ (e.req # r => fut'[e.req] = fut[e.req])
    BY <1>0, <2>1 DEF TypeOK, Entry
  <2>4. fut'[r] # "pending"
    BY <1>0, <2>1 DEF TypeOK
  <2>5. CASE grant[r] = None /\ fut[r] = "pending"
    <3>1. Phase(r) = "waiting" /\ Phase(r)' = "gone"
      BY <2>1, <2>4, <2>5, PhaseIs, PhaseBecomes
    <3>2. Waiters' = {w \in Waiters : w[2] # r}
      BY <2>1, <2>3, <2>4 DEF Waiters
    <3>3. QED
      BY <2>2, <3>1, <3>2, Leaves
  <2>6. CASE grant[r] # None \/ fut[r] # "pending"
    <3>1. Phase(r)' = Phase(r)
      BY <2>1, <2>4, <2>6, PhaseIs, PhaseBecomes
    <3>2. \A e \in queue : fut[e.req] = "pending" => e.req # r
      BY <1>0, <2>6 DEF SlotInv, GrantedOnDispatch
    <3>3. Waiters' = Waiters
      BY <2>1, <2>3, <2>4, <3>2 DEF Waiters
    <3>4. QED
      BY <2>1, <2>2, <3>1, <3>3, Unseen
  <2>7. QED
    BY <2>5, <2>6
<1>6. ASSUME NEW r \in Requests, ResumeCancelled(r) PROVE [Abstract!Next]_Abstract!vars
  <2>1. /\ pc[r] = "queued" /\ cancelled[r] /\ pc' = [pc EXCEPT ![r] = "done"]
        /\ queue' = {e \in queue : e.id # entryId[r]} /\ UNCHANGED <<fut, grant>>
    BY <1>6 DEF ResumeCancelled
  <2>2. fut[r] # "pending"
    BY <1>0, <2>1 DEF QueueInv, PendingWaits
  <2>3. \A x \in Requests \ {r} : Phase(x)' = Phase(x) /\ grant'[x] = grant[x]
    BY <1>0, <2>1, SamePhase DEF TypeOK
  <2>4. Phase(r)' = "gone"
    BY <1>0, <2>1, PhaseBecomes DEF TypeOK
  <2>5. \A e \in queue : fut[e.req] = "pending" => e.req # r /\ e \in queue'
    BY <1>0, <2>1, <2>2 DEF QueueInv, OwnEntry
  <2>6. Waiters' = Waiters /\ Waiters' = {w \in Waiters : w[2] # r}
    BY <2>1, <2>5 DEF Waiters
  <2>7. CASE Phase(r) = "gone"
    BY <2>1, <2>3, <2>4, <2>6, <2>7, Unseen
  <2>8. CASE Phase(r) # "gone"
    BY <2>3, <2>4, <2>6, <2>8, Leaves
  <2>9. QED
    BY <2>7, <2>8
<1>7. ASSUME NEW r \in Requests, Resume(r) \/ Abandon(r)
      PROVE  [Abstract!Next]_Abstract!vars
  <2>1. /\ UNCHANGED <<fut, grant, queue>>
        /\ pc' = [pc EXCEPT ![r] = "resolving"] \/ pc' = [pc EXCEPT ![r] = "done"]
    BY <1>7 DEF Resume, Abandon, queueVars
  <2>2. Phase(r) = "granted" /\ fut[r] # "pending"
    <3>1. \/ pc[r] = "queued" /\ fut[r] = "result"
          \/ pc[r] \in {"resolving", "handed"}
      BY <1>7 DEF Resume, Abandon
    <3>2. pc[r] = "queued" => grant[r] # None
      BY <1>0, <3>1 DEF SlotInv, GrantedOnDispatch
    <3>3. QED
      BY <1>0, <3>1, <3>2, PhaseIs DEF QueueInv, PendingWaits
  <2>3. \A x \in Requests \ {r} : Phase(x)' = Phase(x) /\ grant'[x] = grant[x]
    BY <1>0, <2>1, SamePhase DEF TypeOK
  <2>4. Waiters' = Waiters /\ Waiters' = {w \in Waiters : w[2] # r}
    BY <2>1, <2>2 DEF Waiters
  <2>5. Phase(r)' \in {"granted", "gone"}
    BY <1>0, <2>1, PhaseBecomes DEF TypeOK
  <2>6. CASE Phase(r)' = "granted"
    BY <2>1, <2>2, <2>3, <2>4, <2>6, Unseen
  <2>7. CASE Phase(r)' = "gone"
    BY <2>2, <2>3, <2>4, <2>7, Leaves
  <2>8. QED
    BY <2>5, <2>6, <2>7
<1>8. ASSUME NEW r \in Requests, ContextResolved(r) \/ StreamHandedOn(r) \/ StreamStarted(r)
      PROVE  UNCHANGED Abstract!vars
  <2>1. /\ UNCHANGED <<fut, grant, queue>> /\ pc[r] \in {"resolving", "handed"}
        /\ pc' = [pc EXCEPT ![r] = "handed"] \/ pc' = [pc EXCEPT ![r] = "executing"]
    BY <1>8 DEF ContextResolved, StreamHandedOn, StreamStarted, queueVars
  <2>2. Phase(r) = "granted" /\ Phase(r)' = "granted"
    BY <1>0, <2>1, PhaseIs, PhaseBecomes DEF TypeOK
  <2>3. \A x \in Requests \ {r} : Phase(x)' = Phase(x)
    BY <1>0, <2>1, SamePhase DEF TypeOK
  <2>4. Waiters' = Waiters
    BY <2>1 DEF Waiters
  <2>5. QED
    BY <2>1, <2>2, <2>3, <2>4, Unseen
<1>9. ASSUME NEW r \in Requests, ContextFailed(r) \/ Finish(r) PROVE Abstract!Next
  BY <1>0, <1>9, ReleaseMaps DEF ContextFailed, Finish
<1>10. ASSUME NEW d \in LocalPairs, Reevaluate(d) PROVE Abstract!Next
  BY <1>0, <1>10, ReevaluateMaps
<1>11. ASSUME UNCHANGED <<reqVars, queueVars>> PROVE UNCHANGED Abstract!vars
  <2>1. UNCHANGED <<pc, fut, grant, queue>>
    BY <1>11 DEF reqVars, queueVars
  <2>2. \A x \in Requests : Phase(x)' = Phase(x)
    BY <2>1, SamePhase
  <2>3. Waiters' = Waiters
    BY <2>1 DEF Waiters
  <2>4. QED
    BY <2>1, <2>2, <2>3, Unseen
<1>12. ASSUME NEW d \in LocalPairs, PlannerOrders(d) \/ PlannerGivesUp(d)
       PROVE  UNCHANGED <<reqVars, queueVars>>
  BY <1>12 DEF PlannerOrders, PlannerGivesUp
<1>13. CASE Workers \/ UNCHANGED vars
  BY <1>11, <1>13 DEF Workers, LaneChanges, NodeChanges, vars
<1>14. QED
  BY <1>1, <1>2, <1>3, <1>4, <1>5, <1>6, <1>7, <1>8, <1>9, <1>10, <1>11, <1>12, <1>13
     DEF Next, Scheduling, Waiting, Serving, Planner

\* What the mapping needs holds all along.
LEMMA MapInvInit == Init => MapInv
<1>1. Init => SlotInv
  BY InitSlots
<1>2. Init => PrioKept
  BY DEF Init, PrioKept
<1>3. QED
  BY <1>1, <1>2 DEF MapInv

LEMMA MapInvStep == MapInv /\ [Next]_vars => MapInv'
BY SlotStep, PrioStep DEF MapInv

\* The scheduler gives every request what Admission promises: the heap with its
\* dead entries, the futures, and a dispatch in three steps of the loop come to
\* one deployment per request, in the order of the priorities.
THEOREM ImplementsAdmission == Spec => Admits
<1>1. Init => Abstract!Init
  <2> SUFFICES ASSUME Init PROVE Abstract!Init
    OBVIOUS
  <2>1. \A x \in Requests : Phase(x) = "new"
    BY PhaseIs DEF Init
  <2>2. Waiters = {}
    BY DEF Init, Waiters
  <2>3. QED
    BY <2>1, <2>2 DEF Abstract!Init, Waiters
<1>2. MapInv /\ MapInv' /\ [Next]_vars => [Abstract!Next]_Abstract!vars
  BY MapStep
<1>3. QED
  BY <1>1, <1>2, MapInvInit, MapInvStep, PTL DEF Spec, Admits, Abstract!Spec

----------------------------------------------------------------------------
(* Dispatch *)

\* Only release() and reevaluation schedule results.
LEMMA OnlyDispatchers ==
    ASSUME [Next]_vars, ~(inFlight' \subseteq inFlight)
    PROVE  \/ \E r \in Requests : /\ Release(r) /\ ReleaseToWaiter(r)
                                  /\ pc[r] \in {"resolving", "executing"}
           \/ \E d \in LocalPairs : Reevaluate(d)
<1>1. ASSUME NEW r \in Requests, NEW d \in Deployments,
             ReserveLocal(r, d) \/ AcceptCloud(r, d) \/ Enqueue(r, d)
      PROVE  FALSE
  BY <1>1 DEF ReserveLocal, AcceptCloud, Enqueue
<1>2. ASSUME NEW r \in Requests,
             Reject(r) \/ DeliverResult(r) \/ Resume(r) \/ ResumeCancelled(r) \/ ContextResolved(r)
             \/ StreamHandedOn(r) \/ StreamStarted(r) \/ Cancel(r) \/ Abandon(r)
      PROVE  FALSE
  BY <1>2 DEF Reject, DeliverResult, Resume, ResumeCancelled, ContextResolved,
              StreamHandedOn, StreamStarted, Cancel, Abandon
<1>3. ASSUME NEW r \in Requests, Release(r) PROVE ReleaseToWaiter(r)
  BY <1>3 DEF Release, ReleaseToNobody, ReleaseAndRequeue
<1>4. ASSUME NEW d \in LocalPairs, PlannerOrders(d) \/ PlannerGivesUp(d) PROVE FALSE
  BY <1>4 DEF PlannerOrders, PlannerGivesUp, reqVars
<1>5. CASE Workers \/ UNCHANGED vars
  BY <1>5 DEF Workers, LaneChanges, NodeChanges, vars, reqVars
<1>6. QED
  BY <1>1, <1>2, <1>3, <1>4, <1>5
     DEF Next, Scheduling, Waiting, Serving, Planner, ContextFailed, Finish

\* Nobody is dispatched before a live waiter of strictly higher priority.
LEMMA PriorityStep ==
    ASSUME MapInv, [Next]_vars,
           NEW e \in queue, NEW f \in queue, e.req \in inFlight' \ inFlight,
           f.model = e.model, f.prio > e.prio, fut[f.req] = "pending"
    PROVE  f.req \in inFlight'
<1>0. TypeOK /\ QueueInv
  BY DEF MapInv, SlotInv, QueueInv
<1>1. ASSUME NEW r \in Requests, ReleaseToWaiter(r) PROVE f.req \in inFlight'
  <2> DEFINE m == PairOf(grant[r])[1]
  <2>1. PICK h \in Live(m) : /\ \A g \in Live(m) \ {h} : Before(h, g)
                            /\ inFlight' = inFlight \cup {h.req}
    BY <1>1 DEF ReleaseToWaiter
  <2>2. h = e /\ e.model = m
    BY <1>0, <2>1 DEF Live, QueueInv, OneEntryEach
  <2>3. f \in Live(m)
    BY <2>2 DEF Live
  <2>4. ~Before(e, f)
    BY <1>0 DEF Before, TypeOK, Entry
  <2>5. f = e
    BY <2>1, <2>2, <2>3, <2>4
  <2>6. QED
    BY <1>0, <2>5 DEF TypeOK, Entry
<1>2. ASSUME NEW d \in LocalPairs, Reevaluate(d) PROVE f.req \in inFlight'
  <2>1. inFlight' = inFlight \cup {g.req : g \in Dispatchable}
    BY <1>2 DEF Reevaluate
  <2>2. e \in Dispatchable
    BY <1>0, <2>1 DEF Dispatchable, QueueInv, OneEntryEach
  <2>3. Ahead(f) <= Ahead(e) /\ Ahead(f) \in Nat /\ Ahead(e) \in Nat
    BY AheadGrows DEF Before
  <2>4. SlotsOf(e.model, Eligible(e.model)) \in Nat
    BY <1>0, SlotsAreNat DEF TypeOK, Entry
  <2>5. f \in Dispatchable
    BY <2>2, <2>3, <2>4 DEF Dispatchable
  <2>6. QED
    BY <2>1, <2>5
<1>3. QED
  BY <1>1, <1>2, OnlyDispatchers

\* The order of priorities is kept by every dispatch, by release() as by
\* reevaluate_model_queues.
THEOREM PriorityKept == Spec => StrictPriority
<1>1. MapInv /\ [Next]_vars =>
        [\A e \in queue, f \in queue :
            /\ e.req \in inFlight' \ inFlight
            /\ f.model = e.model /\ f.prio > e.prio /\ fut[f.req] = "pending"
            => f.req \in inFlight']_vars
  BY PriorityStep
<1>2. QED
  BY <1>1, MapInvInit, MapInvStep, PTL DEF Spec, StrictPriority

\* A grant is given to who has none, and only taken back after that.
LEMMA OnceStep ==
    ASSUME MapInv, [Next]_vars, NEW x \in Requests
    PROVE  /\ grant[x] # None => grant'[x] \in {grant[x], None}
           /\ x \in inFlight' \ inFlight => grant[x] = None /\ fut[x] = "pending"
<1>0. TypeOK /\ QueueInv /\ SlotInv
  BY DEF MapInv, SlotInv, QueueInv
<1>1. ASSUME NEW r \in Requests, Release(r)
      PROVE  grant[x] # None => grant'[x] \in {grant[x], None}
  <2>1. CASE ReleaseToNobody(r) \/ ReleaseAndRequeue(r)
    <3>1. grant' = [grant EXCEPT ![r] = None]
      BY <2>1 DEF ReleaseToNobody, ReleaseAndRequeue
    <3>2. QED
      BY <1>0, <3>1 DEF TypeOK
  <2>2. CASE ReleaseToWaiter(r)
    <3>1. PICK e \in queue :
            /\ fut[e.req] = "pending"
            /\ grant' = [grant EXCEPT ![r] = None, ![e.req] = GrantOf(PairOf(grant[r]), TRUE)]
      BY <2>2 DEF ReleaseToWaiter, Live
    <3>2. grant[e.req] = None
      BY <1>0 DEF SlotInv, GrantedOnDispatch
    <3>3. QED
      BY <1>0, <3>1, <3>2 DEF TypeOK
  <2>3. QED
    BY <1>1, <2>1, <2>2 DEF Release
<1>2. ASSUME NEW r \in Requests, NEW d \in Deployments,
             ReserveLocal(r, d) \/ AcceptCloud(r, d) \/ Enqueue(r, d)
      PROVE  grant[x] # None => grant'[x] = grant[x]
  <2>1. grant[r] = None
    BY <1>0, <1>2 DEF ReserveLocal, AcceptCloud, Enqueue, SlotInv, GrantsKnown
  <2>2. QED
    BY <1>0, <1>2, <2>1 DEF ReserveLocal, AcceptCloud, Enqueue, TypeOK
<1>3. ASSUME NEW d \in LocalPairs, Reevaluate(d)
      PROVE  grant[x] # None => grant'[x] = grant[x]
  <2>1. \A e \in Dispatchable : grant[e.req] = None
    BY <1>0 DEF Dispatchable, SlotInv, GrantedOnDispatch
  <2>2. QED
    BY <1>3, <2>1 DEF Reevaluate
<1>4. ASSUME NEW r \in Requests,
             Reject(r) \/ DeliverResult(r) \/ Resume(r) \/ ResumeCancelled(r) \/ ContextResolved(r)
             \/ StreamHandedOn(r) \/ StreamStarted(r) \/ Cancel(r) \/ Abandon(r)
      PROVE  UNCHANGED grant
  BY <1>4 DEF Reject, DeliverResult, Resume, ResumeCancelled, ContextResolved,
              StreamHandedOn, StreamStarted, Cancel, Abandon
<1>5. ASSUME NEW d \in LocalPairs, PlannerOrders(d) \/ PlannerGivesUp(d) PROVE UNCHANGED grant
  BY <1>5 DEF PlannerOrders, PlannerGivesUp, reqVars
<1>6. CASE Workers \/ UNCHANGED vars
  BY <1>6 DEF Workers, LaneChanges, NodeChanges, vars, reqVars
<1>7. grant[x] # None => grant'[x] \in {grant[x], None}
  BY <1>1, <1>2, <1>3, <1>4, <1>5, <1>6
     DEF Next, Scheduling, Waiting, Serving, Planner, ContextFailed, Finish
<1>8. ASSUME x \in inFlight' \ inFlight PROVE grant[x] = None /\ fut[x] = "pending"
  <2>1. \E e \in queue : e.req = x /\ fut[x] = "pending"
    <3>1. ASSUME NEW r \in Requests, ReleaseToWaiter(r)
          PROVE  \E e \in queue : e.req = x /\ fut[x] = "pending"
      <4>1. PICK e \in Live(PairOf(grant[r])[1]) : inFlight' = inFlight \cup {e.req}
        BY <3>1 DEF ReleaseToWaiter
      <4>2. QED
        BY <1>8, <4>1 DEF Live
    <3>2. ASSUME NEW d \in LocalPairs, Reevaluate(d)
          PROVE  \E e \in queue : e.req = x /\ fut[x] = "pending"
      <4>1. inFlight' = inFlight \cup {e.req : e \in Dispatchable}
        BY <3>2 DEF Reevaluate
      <4>2. QED
        BY <1>8, <4>1 DEF Dispatchable
    <3>3. QED
      BY <1>8, <3>1, <3>2, OnlyDispatchers
  <2>2. QED
    BY <1>0, <2>1 DEF SlotInv, GrantedOnDispatch
<1>9. QED
  BY <1>7, <1>8

\* set_result is scheduled at most once for a request, and the deployment it
\* carries is not replaced by another.
THEOREM OneDispatch == Spec => DispatchedOnce
<1>1. MapInv /\ [Next]_vars =>
        [\A r \in Requests :
            /\ grant[r] # None => grant'[r] \in {grant[r], None}
            /\ r \in inFlight' \ inFlight => grant[r] = None /\ fut[r] = "pending"]_vars
  BY OnceStep
<1>2. QED
  BY <1>1, MapInvInit, MapInvStep, PTL DEF Spec, DispatchedOnce

\* Releases only lower a count or leave it.
LEMMA CompleteLowers ==
    ASSUME TypeOK, NEW r \in Requests, NEW reuse \in BOOLEAN, CompleteSlot(r, reuse),
           NEW d \in LocalPairs
    PROVE  active'[d] <= active[d]
<1>1. CASE tracking[r] = None
  BY <1>1 DEF CompleteSlot, slotVars, TypeOK
<1>2. CASE tracking[r] # None
  BY <1>2 DEF CompleteSlot, TypeOK
<1>3. QED
  BY <1>1, <1>2

\* Only a waiter that reevaluation dispatched raises a full count.
LEMMA OvershootStep ==
    ASSUME MapInv, [Next]_vars, NEW d \in LocalPairs,
           active'[d] > active[d], active[d] >= Capacity
    PROVE  \E r \in Requests : /\ pc[r] = "queued" /\ pc'[r] = "resolving"
                               /\ ~grant[r].transferred
<1>0. TypeOK
  BY DEF MapInv, SlotInv, QueueInv
<1>1. ASSUME NEW r \in Requests, NEW c \in Deployments, ReserveLocal(r, c) PROVE FALSE
  <2>1. active' = [active EXCEPT ![c] = @ + 1] /\ active[c] < Capacity
    BY <1>1 DEF ReserveLocal, Reservable
  <2>2. QED
    BY <1>0, <2>1, ConstantsAssumption DEF TypeOK
<1>2. ASSUME NEW r \in Requests, Release(r) PROVE FALSE
  <2>1. CompleteSlot(r, TRUE) \/ CompleteSlot(r, FALSE)
    BY <1>2 DEF Release, ReleaseToNobody, ReleaseToWaiter, ReleaseAndRequeue
  <2>2. active'[d] <= active[d]
    BY <1>0, <2>1, CompleteLowers
  <2>3. active[d] \in Nat /\ active'[d] \in Nat
    BY <1>0, <2>1, CompleteSlotType DEF TypeOK
  <2>4. QED
    BY <2>2, <2>3
<1>3. ASSUME NEW r \in Requests, Resume(r)
      PROVE  pc[r] = "queued" /\ pc'[r] = "resolving" /\ ~grant[r].transferred
  <2>1. active' # active
    BY <1>0 DEF TypeOK
  <2>2. pc[r] = "queued" /\ pc' = [pc EXCEPT ![r] = "resolving"] /\ ~grant[r].transferred
    <3> DEFINE c == PairOf(grant[r])
    <3>1. /\ pc[r] = "queued" /\ pc' = [pc EXCEPT ![r] = "resolving"]
          /\ active' = IF grant[r].transferred \/ counted[r] # None
                       THEN active ELSE [active EXCEPT ![c] = @ + 1]
      BY <1>3, <2>1 DEF Resume, slotVars
    <3>2. QED
      BY <2>1, <3>1
  <2>3. QED
    BY <1>0, <2>2 DEF TypeOK
<1>4. ASSUME UNCHANGED active PROVE FALSE
  BY <1>0, <1>4 DEF TypeOK
<1>5. ASSUME NEW r \in Requests, NEW c \in Deployments, AcceptCloud(r, c) \/ Enqueue(r, c)
      PROVE  UNCHANGED active
  BY <1>5 DEF AcceptCloud, Enqueue, slotVars
<1>6. ASSUME NEW r \in Requests,
             Reject(r) \/ DeliverResult(r) \/ ResumeCancelled(r) \/ ContextResolved(r)
             \/ StreamHandedOn(r) \/ StreamStarted(r) \/ Cancel(r) \/ Abandon(r)
      PROVE  UNCHANGED active
  BY <1>6 DEF Reject, DeliverResult, ResumeCancelled, ContextResolved,
              StreamHandedOn, StreamStarted, Cancel, Abandon, slotVars
<1>7. ASSUME NEW c \in LocalPairs, Planner(c) PROVE UNCHANGED active
  BY <1>7 DEF Planner, PlannerOrders, Reevaluate, PlannerGivesUp, slotVars
<1>8. CASE Workers \/ UNCHANGED vars
  BY <1>4, <1>8 DEF Workers, LaneChanges, NodeChanges, vars, slotVars
<1>9. QED
  BY <1>1, <1>2, <1>3, <1>4, <1>5, <1>6, <1>7, <1>8
     DEF Next, Scheduling, Waiting, Serving, ContextFailed, Finish

\* Reservations and transfers keep within the capacity: a full count is raised
\* only by who reevaluate_model_queues dispatched on a count it did not hold yet.
THEOREM OvershootsAreReevaluations == Spec => OnlyReevaluateOvershoots
<1>1. MapInv /\ [Next]_vars =>
        [\A d \in LocalPairs :
            active'[d] > active[d] /\ active[d] >= Capacity =>
                \E r \in Requests : /\ pc[r] = "queued" /\ pc'[r] = "resolving"
                                    /\ ~grant[r].transferred]_vars
  BY OvershootStep
<1>2. QED
  BY <1>1, MapInvInit, MapInvStep, PTL DEF Spec, OnlyReevaluateOvershoots
=============================================================================

-------------------------- MODULE LaneManagerProofs --------------------------
(* Safety of the worker's lanes for every value of the constants: any set of *)
(* lanes, ports, configurations and requests, finite or not.                 *)
EXTENDS LaneManager, FiniteSetTheorems, WellFoundedInduction, TLAPS

----------------------------------------------------------------------------
(* The port allocator *)

\* A set of ports that is not empty has a lowest one.
LEMMA Lowest ==
    ASSUME NEW S \in SUBSET Nat, S # {}
    PROVE  \E p \in S : \A q \in S : p <= q
<1> DEFINE R == {ss \in Nat \X Nat : ss[1] < ss[2]}
<1>1. IsWellFoundedOn(R, Nat)
  BY NatLessThanWellFounded DEF OpToRel
<1>2. PICK p \in S : \A q \in S : <<q, p>> \notin R
  <2> HIDE DEF R
  <2>1. S \subseteq Nat /\ S # {}
    OBVIOUS
  <2>2. \E p \in S : \A q \in S : ~ (<<q, p>> \in R)
    BY <1>1, <2>1, WFMin, Zenon
  <2>3. QED
    BY <2>2
<1>3. ASSUME NEW q \in S PROVE p <= q
  <2>1. <<q, p>> \in Nat \X Nat /\ <<q, p>>[1] = q /\ <<q, p>>[2] = p
    OBVIOUS
  <2>2. ~(q < p)
    BY <1>2, <2>1
  <2>3. QED
    BY <2>2
<1>4. QED
  BY <1>3

\* The allocator gives a lane the port it had left over, or a free one.
LEMMA PortForLane ==
    ASSUME NEW l \in Lanes, used \in [Lanes -> Ports \cup {None}], PortLeft(l)
    PROVE  /\ PortFor(l) \in Ports
           /\ PortFor(l) = used[l] \/ \A k \in Lanes : used[k] # PortFor(l)
<1>1. CASE used[l] # None
  BY <1>1 DEF PortFor
<1>2. CASE used[l] = None
  <2>1. FreePorts # {} /\ FreePorts \in SUBSET Nat
    BY <1>2, LanesAssumption DEF PortLeft, FreePorts
  <2>2. PortFor(l) \in FreePorts
    <3>1. \E p \in FreePorts : \A q \in FreePorts : p <= q
      BY <2>1, Lowest
    <3>2. PortFor(l) = CHOOSE p \in FreePorts : \A q \in FreePorts : p <= q
      BY <1>2 DEF PortFor
    <3>3. QED
      BY <3>1, <3>2
  <2>3. QED
    BY <2>2 DEF FreePorts
<1>3. QED
  BY <1>1, <1>2

----------------------------------------------------------------------------
(* The lanes: types, ports and counts *)

\* The records that TypeOK gives to requests and to the transaction.
Request == [pc : {"new", "arrived", "running", "leaving", "done"},
            lane : Lanes \cup {None}, stale : BOOLEAN]
Transaction ==
    [phase : {"none", "doing", "undoing"},
     target : [Lanes -> Configs \cup {None}], before : [Lanes -> Process \cup {None}],
     remove : SUBSET Lanes, restart : SUBSET Lanes, add : SUBSET Lanes,
     staggered : BOOLEAN,
     removed : SUBSET Lanes, restarted : SUBSET Lanes, added : SUBSET Lanes]

\* The half of TypeOK that the lanes and the requests are in.
LaneTypes ==
    /\ proc \in [Lanes -> Process \cup {None}]
    /\ used \in [Lanes -> Ports \cup {None}]
    /\ active \in [Lanes -> Nat]
    /\ late \subseteq Lanes
    /\ req \in [Requests -> Request]

\* The other half: the command, the transaction and the status loop.
ControlTypes ==
    /\ cmd \in Singles \cup Applies \cup {NoCommand}
    /\ txn \in Transaction
    /\ ~LockFree => cmd.kind = "apply"
    /\ stuck \in [Lanes -> Configs \cup {None}]
    /\ seen \in [Lanes -> Configs \cup {None}]
    /\ tries \in [Lanes -> 0 .. MaxRestarts]
    /\ commands \in 0 .. MaxCommands /\ faults \in 0 .. MaxFaults

\* Finitely many requests are counted at any time; one that is counted on a
\* lane names it, and a count that was thrown away belongs to one that leaves.
RequestsOK ==
    /\ IsFiniteSet({r \in Requests : Counted(r)})
    /\ \A r \in Requests :
          /\ req[r].pc # "new" => req[r].lane \in Lanes
          /\ req[r].stale => req[r].pc = "leaving"

\* The requests that the count of a lane stands for.
OnLane(l) == {r \in Requests : Counted(r) /\ req[r].lane = l /\ ~req[r].stale}

LanesOK == LaneTypes /\ RequestsOK /\ PortsAreOwn /\ CountIsTrue

LEMMA TypeParts == TypeOK <=> LaneTypes /\ ControlTypes
BY DEF TypeOK, LaneTypes, ControlTypes, Request, Transaction

\* CountIsTrue speaks of the requests on the lane.
LEMMA CountMeans ==
    CountIsTrue <=> \A l \in Lanes : Present(l) /\ l \notin late =>
                                        active[l] = Cardinality(OnLane(l))
BY DEF CountIsTrue, OnLane

\* A lane with a count of nothing has nobody running on it.
LEMMA NobodyRuns ==
    ASSUME LanesOK, NEW l \in Lanes, Present(l), active[l] = 0
    PROVE  Unserved(l)
<1> SUFFICES ASSUME l \notin late PROVE Running(l) = {}
  BY DEF Unserved
<1>1. OnLane(l) \subseteq {r \in Requests : Counted(r)}
  BY DEF OnLane
<1>2. IsFiniteSet(OnLane(l))
  BY <1>1, FS_Subset DEF LanesOK, RequestsOK
<1>3. OnLane(l) = {}
  BY <1>2, FS_EmptySet, CountMeans DEF LanesOK
<1>4. QED
  BY <1>3 DEF Running, OnLane, Counted, LanesOK, RequestsOK

\* The effects that a step can have on the requests of the lanes in S: their
\* streams break, or their counts are thrown away.
LEMMA SeveredRequests ==
    ASSUME LaneTypes, RequestsOK, NEW S, req' = Severed(S)
    PROVE  /\ req' \in [Requests -> Request]
           /\ RequestsOK'
           /\ \A l \in Lanes : OnLane(l)' = OnLane(l)
<1>1. ASSUME NEW r \in Requests
      PROVE  /\ req'[r] \in Request
             /\ req'[r].lane = req[r].lane /\ req'[r].stale = req[r].stale
             /\ Counted(r)' <=> Counted(r)
             /\ req'[r].pc = req[r].pc \/ (req[r].pc = "running" /\ req'[r].pc = "leaving")
  <2>1. req[r] \in Request
    BY DEF LaneTypes
  <2>2. CASE req[r].pc = "running" /\ req[r].lane \in S
    <3>1. req'[r] = [req[r] EXCEPT !.pc = "leaving"]
      BY <2>2 DEF Severed
    <3>2. QED
      BY <2>1, <2>2, <3>1 DEF Counted, Request
  <2>3. CASE ~(req[r].pc = "running" /\ req[r].lane \in S)
    BY <2>1, <2>3 DEF Severed, Counted
  <2>4. QED
    BY <2>2, <2>3
<1>2. req' \in [Requests -> Request]
  BY <1>1 DEF Severed
<1>3. {r \in Requests : Counted(r)}' = {r \in Requests : Counted(r)}
  BY <1>1
<1>4. RequestsOK'
  BY <1>1, <1>3 DEF RequestsOK
<1>5. \A l \in Lanes : OnLane(l)' = OnLane(l)
  BY <1>1 DEF OnLane
<1>6. QED
  BY <1>2, <1>4, <1>5

LEMMA ForgottenRequests ==
    ASSUME LaneTypes, RequestsOK, NEW S, req' = Forgotten(S)
    PROVE  /\ req' \in [Requests -> Request]
           /\ RequestsOK'
           /\ \A l \in Lanes : OnLane(l)' = IF l \in S THEN {} ELSE OnLane(l)
<1>1. ASSUME NEW r \in Requests
      PROVE  /\ req'[r] \in Request
             /\ req'[r].lane = req[r].lane
             /\ Counted(r)' <=> Counted(r)
             /\ IF Counted(r) /\ req[r].lane \in S
                THEN req'[r].pc = "leaving" /\ req'[r].stale
                ELSE req'[r] = req[r]
  <2>1. req[r] \in Request
    BY DEF LaneTypes
  <2>2. CASE Counted(r) /\ req[r].lane \in S
    <3>1. req'[r] = [req[r] EXCEPT !.pc = "leaving", !.stale = TRUE]
      BY <2>2 DEF Forgotten
    <3>2. QED
      BY <2>1, <2>2, <3>1 DEF Counted, Request
  <2>3. CASE ~(Counted(r) /\ req[r].lane \in S)
    <3>1. req'[r] = req[r]
      BY <2>3 DEF Forgotten
    <3>2. QED
      BY <2>1, <2>3, <3>1 DEF Counted
  <2>4. QED
    BY <2>2, <2>3
<1>2. req' \in [Requests -> Request]
  BY <1>1 DEF Forgotten
<1>3. {r \in Requests : Counted(r)}' = {r \in Requests : Counted(r)}
  BY <1>1
<1>4. RequestsOK'
  <2>1. ASSUME NEW r \in Requests
        PROVE  /\ req'[r].pc # "new" => req'[r].lane \in Lanes
               /\ req'[r].stale => req'[r].pc = "leaving"
    BY <1>1 DEF RequestsOK, Counted
  <2>2. QED
    BY <1>3, <2>1 DEF RequestsOK
<1>5. \A l \in Lanes : OnLane(l)' = IF l \in S THEN {} ELSE OnLane(l)
  <2>1. SUFFICES ASSUME NEW l \in Lanes, NEW r \in Requests
                 PROVE  (r \in OnLane(l))' <=> l \notin S /\ r \in OnLane(l)
    BY DEF OnLane
  <2>2. QED
    BY <1>1 DEF OnLane
<1>6. QED
  BY <1>2, <1>4, <1>5

\* A count stays true where neither it nor its requests change, and where both
\* start from nothing.
LEMMA CountKept ==
    ASSUME LanesOK,
           \A l \in Lanes : Present(l)' /\ l \notin late' =>
              \/ /\ Present(l) /\ l \notin late
                 /\ active'[l] = active[l] /\ OnLane(l)' = OnLane(l)
              \/ active'[l] = 0 /\ OnLane(l)' = {}
    PROVE  CountIsTrue'
<1>1. SUFFICES ASSUME NEW l \in Lanes, Present(l)', l \notin late'
               PROVE  active'[l] = Cardinality(OnLane(l)')
  BY DEF CountIsTrue, OnLane
<1>2. CASE active'[l] = 0 /\ OnLane(l)' = {}
  BY <1>2, FS_EmptySet
<1>3. CASE /\ Present(l) /\ l \notin late
           /\ active'[l] = active[l] /\ OnLane(l)' = OnLane(l)
  BY <1>3, CountMeans DEF LanesOK
<1>4. QED
  BY <1>1, <1>2, <1>3

\* A lane that is added gets a port of its own and a count of nothing.
LEMMA AddedLane ==
    ASSUME LanesOK, NEW l \in Lanes, NEW c \in Configs \cup {None}, Added(l, c)
    PROVE  LanesOK'
<1>1. /\ used \in [Lanes -> Ports \cup {None}] /\ PortLeft(l)
      /\ proc \in [Lanes -> Process \cup {None}]
      /\ active \in [Lanes -> Nat]
  BY DEF LanesOK, LaneTypes, Added
<1>2. PICK p : p = PortFor(l)
  OBVIOUS
<1>3. p \in Ports /\ (p = used[l] \/ \A k \in Lanes : used[k] # p)
  BY <1>1, <1>2, PortForLane
<1>4. /\ proc' = [proc EXCEPT ![l] = [config |-> c, port |-> p, state |-> "awake"]]
      /\ used' = [used EXCEPT ![l] = p]
      /\ active' = [active EXCEPT ![l] = 0]
      /\ late' = late \ {l}
      /\ req' = Forgotten({l})
  BY <1>2 DEF Added
<1>5. [config |-> c, port |-> p, state |-> "awake"] \in Process
  BY <1>3 DEF Process
<1>6. LaneTypes' /\ RequestsOK'
  BY <1>1, <1>3, <1>4, <1>5, ForgottenRequests DEF LanesOK, LaneTypes
<1>7. PortsAreOwn'
  <2>1. /\ proc'[l].port = p /\ used'[l] = p
        /\ \A k \in Lanes \ {l} : proc'[k] = proc[k] /\ used'[k] = used[k]
    BY <1>1, <1>4
  <2>2. \A k \in Lanes \ {l} : used[k] # p
    BY <1>3, LanesAssumption DEF LanesOK, PortsAreOwn
  <2>3. QED
    BY <2>1, <2>2 DEF LanesOK, PortsAreOwn, Present
<1>8. CountIsTrue'
  <2>1. \A k \in Lanes : OnLane(k)' = IF k \in {l} THEN {} ELSE OnLane(k)
    BY <1>4, ForgottenRequests DEF LanesOK
  <2>2. /\ active'[l] = 0
        /\ \A k \in Lanes \ {l} : /\ proc'[k] = proc[k] /\ active'[k] = active[k]
                                  /\ k \in late' <=> k \in late
    BY <1>1, <1>4
  <2>3. QED
    BY <2>1, <2>2, CountKept DEF Present
<1>9. QED
  BY <1>6, <1>7, <1>8 DEF LanesOK

\* Without a process to start, at most the port that was left over goes.
LEMMA NotAddedLane ==
    ASSUME LanesOK, NEW l \in Lanes, ~Present(l), NotAdded(l)
    PROVE  LanesOK'
<1>1. /\ used' = used \/ used' = [used EXCEPT ![l] = None]
      /\ UNCHANGED <<proc, active, late, req>>
  BY DEF NotAdded
<1>2. LaneTypes'
  BY <1>1 DEF LanesOK, LaneTypes
<1>3. RequestsOK' /\ CountIsTrue'
  BY <1>1 DEF LanesOK, RequestsOK, CountIsTrue, Counted, Present
<1>4. PortsAreOwn'
  BY <1>1 DEF LanesOK, LaneTypes, PortsAreOwn, Present
<1>5. QED
  BY <1>2, <1>3, <1>4 DEF LanesOK

\* Lanes that go take their ports and their counts with them.
LEMMA DetachedLanes ==
    ASSUME LanesOK, NEW S, Detached(S)
    PROVE  LanesOK'
<1>1. /\ proc' = [l \in Lanes |-> IF l \in S THEN None ELSE proc[l]]
      /\ used' = [l \in Lanes |-> IF l \in S THEN None ELSE used[l]]
      /\ active' = [l \in Lanes |-> IF l \in S THEN 0 ELSE active[l]]
      /\ late' = late \ S
      /\ req' = Forgotten(S)
  BY DEF Detached
<1>2. LaneTypes' /\ RequestsOK'
  BY <1>1, ForgottenRequests DEF LanesOK, LaneTypes
<1>3. PortsAreOwn'
  BY <1>1 DEF LanesOK, PortsAreOwn, Present
<1>4. CountIsTrue'
  <2>1. \A k \in Lanes : OnLane(k)' = IF k \in S THEN {} ELSE OnLane(k)
    BY <1>1, ForgottenRequests DEF LanesOK
  <2>2. \A k \in Lanes : IF k \in S THEN proc'[k] = None
                         ELSE /\ proc'[k] = proc[k] /\ active'[k] = active[k]
                              /\ k \in late' <=> k \in late
    BY <1>1
  <2>3. QED
    BY <2>1, <2>2, CountKept DEF Present
<1>5. QED
  BY <1>2, <1>3, <1>4 DEF LanesOK

\* A process that is exchanged or changes its state keeps port and count.
LEMMA LaneKept ==
    ASSUME LanesOK, UNCHANGED <<used, active, late>>, NEW S, req' = Severed(S),
           proc' \in [Lanes -> Process \cup {None}],
           \A l \in Lanes : Present(l)' => Present(l) /\ proc'[l].port = proc[l].port
    PROVE  LanesOK'
<1>1. LaneTypes' /\ RequestsOK' /\ \A l \in Lanes : OnLane(l)' = OnLane(l)
  BY SeveredRequests DEF LanesOK, LaneTypes
<1>2. PortsAreOwn'
  BY DEF LanesOK, PortsAreOwn
<1>3. CountIsTrue'
  BY <1>1, CountKept
<1>4. QED
  BY <1>1, <1>2, <1>3 DEF LanesOK

\* The ways in which a lane's process is exchanged or changes its state.
LEMMA RestartedLane ==
    ASSUME LanesOK, NEW l \in Lanes, Present(l), NEW c \in Configs \cup {None}, Restarted(l, c)
    PROVE  LanesOK'
<1>1. /\ proc' = [proc EXCEPT ![l] = [config |-> c, port |-> used[l], state |-> "awake"]]
      /\ req' = Severed({l})
      /\ UNCHANGED <<used, active, late>>
  BY DEF Restarted
<1>2. proc \in [Lanes -> Process \cup {None}] /\ proc[l] \in Process /\ used[l] = proc[l].port
  BY DEF LanesOK, LaneTypes, PortsAreOwn, Present
<1>3. [config |-> c, port |-> used[l], state |-> "awake"] \in Process
  BY <1>2 DEF Process
<1>4. proc' \in [Lanes -> Process \cup {None}]
  BY <1>1, <1>2, <1>3
<1>5. \A k \in Lanes : Present(k)' => Present(k) /\ proc'[k].port = proc[k].port
  BY <1>1, <1>2 DEF Present
<1>6. QED
  BY <1>1, <1>4, <1>5, LaneKept

LEMMA NotRestartedLane ==
    ASSUME LanesOK, NEW l \in Lanes, Present(l), NotRestarted(l)
    PROVE  LanesOK'
<1>1. CASE Detached({l})
  BY <1>1, DetachedLanes
<1>2. CASE /\ proc' = [proc EXCEPT ![l] = [config |-> None, port |-> @.port, state |-> "dead"]]
           /\ req' = Severed({l})
           /\ UNCHANGED <<used, active, late>>
  <2>1. proc \in [Lanes -> Process \cup {None}] /\ proc[l] \in Process
    BY DEF LanesOK, LaneTypes, Present
  <2>2. [config |-> None, port |-> proc[l].port, state |-> "dead"] \in Process
    BY <2>1 DEF Process
  <2>3. proc' \in [Lanes -> Process \cup {None}]
    BY <1>2, <2>1, <2>2
  <2>4. \A k \in Lanes : Present(k)' => Present(k) /\ proc'[k].port = proc[k].port
    BY <1>2, <2>1 DEF Present
  <2>5. QED
    BY <1>2, <2>3, <2>4, LaneKept
<1>3. QED
  BY <1>1, <1>2 DEF NotRestarted

LEMMA SleptLanes ==
    ASSUME LanesOK, NEW S, \A l \in S : l \in Lanes /\ Present(l), Slept(S)
    PROVE  LanesOK'
<1>1. /\ proc' = [l \in Lanes |-> IF l \in S THEN [proc[l] EXCEPT !.state = "asleep"]
                                             ELSE proc[l]]
      /\ req' = Severed(S)
      /\ UNCHANGED <<used, active, late>>
  BY DEF Slept
<1>2. proc \in [Lanes -> Process \cup {None}] /\ \A l \in S : proc[l] \in Process
  BY DEF LanesOK, LaneTypes, Present
<1>3. \A l \in S : /\ [proc[l] EXCEPT !.state = "asleep"] \in Process
                   /\ [proc[l] EXCEPT !.state = "asleep"].port = proc[l].port
  BY <1>2 DEF Process
<1>4. proc' \in [Lanes -> Process \cup {None}]
  BY <1>1, <1>2, <1>3
<1>5. \A k \in Lanes : Present(k)' => Present(k) /\ proc'[k].port = proc[k].port
  BY <1>1, <1>2, <1>3 DEF Present
<1>6. QED
  BY <1>1, <1>4, <1>5, LaneKept

LEMMA LaneDies ==
    ASSUME LanesOK, NEW l \in Lanes, Present(l), Dies(l)
    PROVE  LanesOK'
<1>1. /\ proc' = [proc EXCEPT ![l].state = "dead"]
      /\ req' = Severed({l})
      /\ UNCHANGED <<used, active, late>>
  BY DEF Dies
<1>2. proc \in [Lanes -> Process \cup {None}] /\ proc[l] \in Process
  BY DEF LanesOK, LaneTypes, Present
<1>3. /\ [proc[l] EXCEPT !.state = "dead"] \in Process
      /\ [proc[l] EXCEPT !.state = "dead"].port = proc[l].port
  BY <1>2 DEF Process
<1>4. proc' \in [Lanes -> Process \cup {None}]
  BY <1>1, <1>2, <1>3
<1>5. \A k \in Lanes : Present(k)' => Present(k) /\ proc'[k].port = proc[k].port
  BY <1>1, <1>2, <1>3 DEF Present
<1>6. QED
  BY <1>1, <1>4, <1>5, LaneKept

\* Waking changes the state of the process and nothing else.
LEMMA LaneWakes ==
    ASSUME LanesOK, NEW l \in Lanes, Present(l),
           proc' = [proc EXCEPT ![l].state = "awake"],
           UNCHANGED <<used, active, late, req>>
    PROVE  LanesOK'
<1>1. proc \in [Lanes -> Process \cup {None}] /\ proc[l] \in Process
  BY DEF LanesOK, LaneTypes, Present
<1>2. /\ [proc[l] EXCEPT !.state = "awake"] \in Process
      /\ [proc[l] EXCEPT !.state = "awake"].port = proc[l].port
  BY <1>1 DEF Process
<1>3. proc' \in [Lanes -> Process \cup {None}]
  BY <1>1, <1>2
<1>4. \A k \in Lanes : Present(k)' => Present(k) /\ proc'[k].port = proc[k].port
  BY <1>1, <1>2 DEF Present
<1>5. LaneTypes' /\ RequestsOK' /\ PortsAreOwn'
  BY <1>3, <1>4 DEF LanesOK, LaneTypes, RequestsOK, PortsAreOwn, Counted
<1>6. CountIsTrue'
  <2>1. \A k \in Lanes : OnLane(k)' = OnLane(k)
    BY DEF OnLane, Counted
  <2>2. QED
    BY <1>4, <2>1, CountKept
<1>7. QED
  BY <1>5, <1>6 DEF LanesOK

\* A rollback that brings a lane back takes the lane's old port, which nobody
\* else may have; one that fails leaves no process.
LEMMA RestoredLane ==
    ASSUME LanesOK, NEW l \in Lanes, txn.before[l] \in Process, Restored(l),
           \A k \in Lanes \ {l} : used[k] # txn.before[l].port
    PROVE  LanesOK'
<1>1. PICK b \in Process : b = txn.before[l]
  OBVIOUS
<1>2. /\ proc' = [proc EXCEPT ![l] = [b EXCEPT !.state = "awake"]]
      /\ used' = [used EXCEPT ![l] = b.port]
      /\ active' = [active EXCEPT ![l] = 0]
      /\ late' = late \ {l}
      /\ req' = Forgotten({l})
  BY <1>1 DEF Restored
<1>3. /\ [b EXCEPT !.state = "awake"] \in Process
      /\ [b EXCEPT !.state = "awake"].port = b.port /\ b.port \in Ports
  BY DEF Process
<1>4. LaneTypes' /\ RequestsOK'
  BY <1>2, <1>3, ForgottenRequests DEF LanesOK, LaneTypes
<1>5. PortsAreOwn'
  <2>1. /\ proc'[l].port = b.port /\ used'[l] = b.port
        /\ \A k \in Lanes \ {l} : proc'[k] = proc[k] /\ used'[k] = used[k]
    BY <1>2, <1>3 DEF LanesOK, LaneTypes
  <2>2. QED
    BY <1>1, <2>1 DEF LanesOK, PortsAreOwn, Present
<1>6. CountIsTrue'
  <2>1. \A k \in Lanes : OnLane(k)' = IF k \in {l} THEN {} ELSE OnLane(k)
    BY <1>2, ForgottenRequests DEF LanesOK
  <2>2. /\ active'[l] = 0
        /\ \A k \in Lanes \ {l} : /\ proc'[k] = proc[k] /\ active'[k] = active[k]
                                  /\ k \in late' <=> k \in late
    BY <1>2 DEF LanesOK, LaneTypes
  <2>3. QED
    BY <2>1, <2>2, CountKept DEF Present
<1>7. QED
  BY <1>4, <1>5, <1>6 DEF LanesOK

LEMMA NotRestoredLane ==
    ASSUME LanesOK, NEW l \in Lanes, NotRestored(l)
    PROVE  LanesOK'
<1>1. /\ proc' = [proc EXCEPT ![l] = None]
      /\ req' = Severed({l})
      /\ UNCHANGED <<used, active, late>>
  BY DEF NotRestored
<1>2. proc' \in [Lanes -> Process \cup {None}]
  BY <1>1 DEF LanesOK, LaneTypes
<1>3. \A k \in Lanes : Present(k)' => Present(k) /\ proc'[k].port = proc[k].port
  BY <1>1 DEF LanesOK, LaneTypes, Present
<1>4. QED
  BY <1>1, <1>2, <1>3, LaneKept

\* A request is read, counted, answered and taken off the count one by one.
LEMMA RequestMoves ==
    ASSUME LanesOK, NEW r \in Requests,
           \/ \E l \in Lanes : ReadRequest(r, l)
           \/ Acquire(r) \/ Answered(r) \/ Decrement(r)
    PROVE  LanesOK'
<1>1. /\ req \in [Requests -> Request] /\ req[r] \in Request
      /\ active \in [Lanes -> Nat] /\ late \subseteq Lanes
  BY DEF LanesOK, LaneTypes
<1>2. UNCHANGED <<proc, used>>
  BY DEF ReadRequest, Acquire, Answered, Decrement, lanes
<1>3. PortsAreOwn'
  BY <1>2 DEF LanesOK, PortsAreOwn, Present
<1>4. ASSUME req' \in [Requests -> Request], active' \in [Lanes -> Nat], late' \subseteq Lanes
      PROVE  LaneTypes'
  BY <1>2, <1>4 DEF LanesOK, LaneTypes
<1>5. ASSUME req'[r] \in Request, \A s \in Requests \ {r} : req'[s] = req[s],
             req'[r].pc # "new" => req'[r].lane \in Lanes,
             req'[r].stale => req'[r].pc = "leaving"
      PROVE  RequestsOK'
  <2>1. {s \in Requests : Counted(s)}' \subseteq {s \in Requests : Counted(s)} \cup {r}
    BY <1>5 DEF Counted
  <2>2. IsFiniteSet({s \in Requests : Counted(s)} \cup {r})
    BY FS_AddElement DEF LanesOK, RequestsOK
  <2>3. IsFiniteSet({s \in Requests : Counted(s)}')
    BY <2>1, <2>2, FS_Subset
  <2>4. QED
    BY <1>5, <2>3 DEF LanesOK, RequestsOK
<1>6. CASE \E l \in Lanes : ReadRequest(r, l)
  <2>1. PICK l \in Lanes : ReadRequest(r, l)
    BY <1>6
  <2>2. /\ req[r].pc = "new" /\ UNCHANGED <<active, late>>
        /\ req' = [req EXCEPT ![r] = [req[r] EXCEPT !.pc = "arrived", !.lane = l]]
    BY <1>1, <2>1 DEF ReadRequest, lanes
  <2>3. [req[r] EXCEPT !.pc = "arrived", !.lane = l] \in Request
    BY <1>1 DEF Request
  <2>4. /\ req' \in [Requests -> Request] /\ req'[r].pc = "arrived" /\ req'[r].lane = l
        /\ ~req'[r].stale
        /\ \A s \in Requests \ {r} : req'[s] = req[s]
    BY <1>1, <2>2, <2>3 DEF LanesOK, RequestsOK
  <2>5. LaneTypes' /\ RequestsOK'
    BY <1>1, <1>4, <1>5, <2>2, <2>4
  <2>6. \A k \in Lanes : OnLane(k)' = OnLane(k)
    BY <2>2, <2>4 DEF OnLane, Counted
  <2>7. CountIsTrue'
    BY <1>2, <2>2, <2>6, CountKept DEF Present
  <2>8. QED
    BY <1>3, <2>5, <2>7 DEF LanesOK
<1>7. CASE Answered(r)
  <2>1. /\ req[r].pc = "running" /\ UNCHANGED <<active, late>>
        /\ req' = [req EXCEPT ![r] = [req[r] EXCEPT !.pc = "leaving"]]
    BY <1>1, <1>7 DEF Answered, lanes
  <2>2. [req[r] EXCEPT !.pc = "leaving"] \in Request
    BY <1>1 DEF Request
  <2>3. /\ req' \in [Requests -> Request] /\ req'[r].pc = "leaving"
        /\ req'[r].lane = req[r].lane /\ req'[r].stale = req[r].stale
        /\ \A s \in Requests \ {r} : req'[s] = req[s]
    BY <1>1, <2>1, <2>2
  <2>4. req[r].lane \in Lanes
    BY <2>1 DEF LanesOK, RequestsOK
  <2>5. LaneTypes' /\ RequestsOK'
    BY <1>1, <1>4, <1>5, <2>1, <2>3, <2>4
  <2>6. \A k \in Lanes : OnLane(k)' = OnLane(k)
    BY <2>1, <2>3 DEF OnLane, Counted
  <2>7. CountIsTrue'
    BY <1>2, <2>1, <2>6, CountKept DEF Present
  <2>8. QED
    BY <1>3, <2>5, <2>7 DEF LanesOK
<1>8. CASE Acquire(r)
  <2> DEFINE routable == Present(req[r].lane) /\ proc[req[r].lane].state = "awake"
  <2>1. PICK l : l = req[r].lane
    OBVIOUS
  <2>2. /\ req[r].pc = "arrived" /\ l \in Lanes /\ late' = late
        /\ req' = [req EXCEPT ![r] = [req[r] EXCEPT !.pc = IF routable THEN "running" ELSE "done"]]
        /\ active' = IF routable THEN [active EXCEPT ![l] = @ + 1] ELSE active
    BY <1>1, <1>8, <2>1 DEF Acquire, LanesOK, RequestsOK
  <2>3. /\ req' \in [Requests -> Request] /\ req'[r].pc = IF routable THEN "running" ELSE "done"
        /\ req'[r].lane = l /\ ~req'[r].stale
        /\ \A s \in Requests \ {r} : req'[s] = req[s]
    <3>1. [req[r] EXCEPT !.pc = IF routable THEN "running" ELSE "done"] \in Request
      BY <1>1 DEF Request
    <3>2. ~req[r].stale
      BY <2>2 DEF LanesOK, RequestsOK
    <3>3. QED
      BY <1>1, <2>1, <2>2, <3>1, <3>2
  <2>4. active' \in [Lanes -> Nat]
    BY <1>1, <2>2
  <2>5. LaneTypes' /\ RequestsOK'
    BY <1>1, <1>4, <1>5, <2>2, <2>3, <2>4
  <2>6. CASE ~routable
    <3>1. \A k \in Lanes : OnLane(k)' = OnLane(k)
      BY <2>2, <2>3, <2>6 DEF OnLane, Counted
    <3>2. CountIsTrue'
      BY <1>2, <2>2, <2>6, <3>1, CountKept DEF Present
    <3>3. QED
      BY <1>3, <2>5, <3>2 DEF LanesOK
  <2>7. CASE routable
    <3>1. \A k \in Lanes : OnLane(k)' = IF k = l THEN OnLane(k) \cup {r} ELSE OnLane(k)
      <4>1. SUFFICES ASSUME NEW k \in Lanes, NEW s \in Requests
                     PROVE  (s \in OnLane(k))' <=> s \in OnLane(k) \/ (k = l /\ s = r)
        BY DEF OnLane
      <4>2. QED
        BY <2>2, <2>3, <2>7 DEF OnLane, Counted
    <3>2. r \notin OnLane(l)
      BY <2>2 DEF OnLane, Counted
    <3>3. IsFiniteSet(OnLane(l))
      <4>1. OnLane(l) \subseteq {s \in Requests : Counted(s)}
        BY DEF OnLane
      <4>2. QED
        BY <4>1, FS_Subset DEF LanesOK, RequestsOK
    <3>4. Cardinality(OnLane(l) \cup {r}) = Cardinality(OnLane(l)) + 1
      BY <3>2, <3>3, FS_AddElement
    <3>5. ASSUME NEW k \in Lanes, Present(k), k \notin late
          PROVE  active'[k] = Cardinality(OnLane(k)')
      <4>1. active[k] = Cardinality(OnLane(k))
        BY <3>5, CountMeans DEF LanesOK
      <4>2. CASE k = l
        <5>1. OnLane(k)' = OnLane(l) \cup {r}
          BY <3>1, <4>2
        <5>2. active'[k] = active[l] + 1
          BY <1>1, <2>2, <2>7, <4>2
        <5>3. QED
          BY <3>4, <4>1, <4>2, <5>1, <5>2
      <4>3. CASE k # l
        BY <1>1, <2>2, <2>7, <3>1, <4>1, <4>3
      <4>4. QED
        BY <4>2, <4>3
    <3>6. CountIsTrue'
      BY <1>2, <2>2, <3>5 DEF CountIsTrue, OnLane, Present
    <3>7. QED
      BY <1>3, <2>5, <3>6 DEF LanesOK
  <2>8. QED
    BY <2>6, <2>7
<1>9. CASE Decrement(r)
  <2>1. PICK l : l = req[r].lane
    OBVIOUS
  <2>2. /\ req[r].pc = "leaving" /\ l \in Lanes
        /\ req' = [req EXCEPT ![r] = [req[r] EXCEPT !.pc = "done", !.stale = FALSE]]
        /\ active' = IF Present(l) THEN [active EXCEPT ![l] = Lowered(@)] ELSE active
        /\ late' = IF Present(l) /\ req[r].stale /\ active[l] > 0
                   THEN late \cup {l} ELSE late
    BY <1>1, <1>9, <2>1 DEF Decrement, LanesOK, RequestsOK
  <2>3. [req[r] EXCEPT !.pc = "done", !.stale = FALSE] \in Request
    BY <1>1 DEF Request
  <2>4. /\ req' \in [Requests -> Request] /\ req'[r].pc = "done"
        /\ req'[r].lane = l /\ ~req'[r].stale
        /\ \A s \in Requests \ {r} : req'[s] = req[s]
    BY <1>1, <2>1, <2>2, <2>3
  <2>5. active' \in [Lanes -> Nat] /\ late' \subseteq Lanes
    BY <1>1, <2>2 DEF Lowered
  <2>6. LaneTypes' /\ RequestsOK'
    BY <1>1, <1>4, <1>5, <2>2, <2>4, <2>5
  <2>7. \A k \in Lanes : OnLane(k)' = OnLane(k) \ {r}
    <3>1. SUFFICES ASSUME NEW k \in Lanes, NEW s \in Requests
                   PROVE  (s \in OnLane(k))' <=> s # r /\ s \in OnLane(k)
      BY DEF OnLane
    <3>2. QED
      BY <2>4 DEF OnLane, Counted
  <2>8. \A k \in Lanes : r \in OnLane(k) <=> k = l /\ ~req[r].stale
    BY <2>1, <2>2 DEF OnLane, Counted
  <2>9. ASSUME NEW k \in Lanes, Present(k), k \notin late'
        PROVE  active'[k] = Cardinality(OnLane(k)')
    <3>1. active[k] = Cardinality(OnLane(k))
      BY <2>2, <2>9, CountMeans DEF LanesOK
    <3>2. IsFiniteSet(OnLane(k))
      <4>1. OnLane(k) \subseteq {s \in Requests : Counted(s)}
        BY DEF OnLane
      <4>2. QED
        BY <4>1, FS_Subset DEF LanesOK, RequestsOK
    <3>3. CASE r \notin OnLane(k)
      <4>1. OnLane(k)' = OnLane(k)
        BY <2>7, <3>3
      <4>2. active'[k] = active[k]
        <5>1. CASE k = l
          <6>1. req[r].stale /\ active[l] = 0
            BY <1>1, <2>2, <2>8, <2>9, <3>3, <5>1
          <6>2. QED
            BY <1>1, <2>2, <5>1, <6>1 DEF Lowered
        <5>2. CASE k # l
          BY <1>1, <2>2, <5>2
        <5>3. QED
          BY <5>1, <5>2
      <4>3. QED
        BY <3>1, <4>1, <4>2
    <3>4. CASE r \in OnLane(k)
      <4>1. Cardinality(OnLane(k) \ {r}) = Cardinality(OnLane(k)) - 1
        BY <3>2, <3>4, FS_RemoveElement
      <4>2. Cardinality(OnLane(k)) # 0
        BY <3>2, <3>4, FS_EmptySet
      <4>3. k = l
        BY <2>8, <3>4
      <4>4. active'[k] = active[k] - 1
        BY <1>1, <2>2, <2>9, <3>1, <4>2, <4>3 DEF Lowered
      <4>5. QED
        BY <2>7, <3>1, <4>1, <4>4
    <3>5. QED
      BY <3>3, <3>4
  <2>10. CountIsTrue'
    BY <1>2, <2>9 DEF CountIsTrue, OnLane, Present
  <2>11. QED
    BY <1>3, <2>6, <2>10 DEF LanesOK
<1>10. QED
  BY <1>6, <1>7, <1>8, <1>9

\* Steps that leave lanes and requests alone.
LEMMA LanesUntouched ==
    ASSUME LanesOK, UNCHANGED <<lanes, req>>
    PROVE  LanesOK'
<1>1. UNCHANGED <<proc, used, active, late, req>>
  BY DEF lanes
<1>2. LaneTypes' /\ RequestsOK' /\ PortsAreOwn' /\ CountIsTrue'
  BY <1>1 DEF LanesOK, LaneTypes, RequestsOK, PortsAreOwn, CountIsTrue, Counted, Present
<1>3. QED
  BY <1>2 DEF LanesOK

----------------------------------------------------------------------------
(* The transaction of apply_lanes *)

\* Two lanes that ran when apply_lanes began had different ports, and one that
\* has such a port now owned it then or was added since.
PortsKept ==
    \A l \in Lanes : txn.before[l] # None =>
        \A k \in Lanes \ {l} :
            /\ txn.before[k] # None => txn.before[k].port # txn.before[l].port
            /\ used[k] = txn.before[l].port => k \in txn.added

\* What is still to be done.
PlanOK ==
    /\ \A l \in txn.remove : txn.target[l] = None /\ txn.before[l] # None
    /\ \A l \in txn.restart : /\ txn.target[l] # None /\ txn.before[l] # None
                              /\ Applying => Present(l)
    /\ \A l \in txn.add : /\ txn.target[l] # None /\ txn.before[l] = None
                          /\ Applying => ~Present(l)

\* What has been done and not undone.
DoneOK ==
    /\ \A l \in txn.removed : txn.target[l] = None /\ txn.before[l] # None /\ ~Present(l)
    /\ \A l \in txn.restarted : txn.target[l] # None /\ txn.before[l] # None
    /\ \A l \in txn.added : txn.before[l] = None

\* Every other lane is as it was asked for, and as it was before.
Progress ==
    /\ Applying => \A l \in Lanes : l \in txn.remove \cup txn.restart \cup txn.add \/ AsAsked(l)
    /\ \A l \in Lanes : l \in txn.removed \cup txn.restarted \cup txn.added \/ AsBefore(l)

TxnOK == LockFree \/ (PlanOK /\ DoneOK /\ PortsKept /\ Progress)

Inv == LanesOK /\ ControlTypes /\ TxnOK

\* What the fields of a command are.
LEMMA CommandShape ==
    ASSUME ControlTypes
    PROVE  /\ cmd.kind \in {"none", "add", "reconfigure", "wake", "remove", "sleep", "apply"}
           /\ cmd.kind \in {"add", "reconfigure"} =>
                 cmd \in [kind : {"add", "reconfigure"}, lane : Lanes, config : Configs]
           /\ cmd.kind = "wake" => cmd \in [kind : {"wake"}, lane : Lanes]
           /\ cmd.kind = "remove" =>
                 cmd \in [kind : {"remove"}, lane : Lanes \ Static, expired : BOOLEAN]
           /\ cmd.kind = "sleep" =>
                 cmd \in [kind : {"sleep"}, lane : Lanes, force : BOOLEAN,
                          drain : SUBSET Lanes, expired : BOOLEAN, owed : {{}}]
           /\ cmd.kind = "apply" => cmd \in Applies
           /\ cmd.kind = "none" => cmd = NoCommand
BY DEF ControlTypes, Singles, Applies, NoCommand

\* What the fields of the transaction are.
LEMMA TxnShape ==
    ASSUME ControlTypes
    PROVE  /\ txn.phase \in {"none", "doing", "undoing"}
           /\ txn.target \in [Lanes -> Configs \cup {None}]
           /\ txn.before \in [Lanes -> Process \cup {None}]
           /\ txn.remove \subseteq Lanes /\ txn.restart \subseteq Lanes
           /\ txn.add \subseteq Lanes /\ txn.staggered \in BOOLEAN
           /\ txn.removed \subseteq Lanes /\ txn.restarted \subseteq Lanes
           /\ txn.added \subseteq Lanes
BY DEF ControlTypes, Transaction

\* While the lock is held the facts of the transaction hold.
LEMMA Held ==
    ASSUME TxnOK, Applying \/ Undoing
    PROVE  PlanOK /\ DoneOK /\ PortsKept /\ Progress /\ ~LockFree
BY DEF TxnOK, LockFree, Applying, Undoing

\* A lane that the rollback brings back finds its port free.
LEMMA OldPortFree ==
    ASSUME ControlTypes, TxnOK, Undoing, txn.added = {}, NEW l \in Lanes, txn.before[l] # None
    PROVE  /\ txn.before[l] \in Process
           /\ \A k \in Lanes \ {l} : used[k] # txn.before[l].port
BY Held, TxnShape DEF PortsKept

\* The commands keep the lanes consistent.
LEMMA CommandLanes ==
    ASSUME Inv, AddLane \/ RemoveLane \/ SleepLane \/ WakeLane \/ ReconfigureLane
    PROVE  LanesOK'
<1>0. LanesOK /\ ControlTypes
  BY DEF Inv
<1>1. CASE AddLane
  <2>1. PICK l \in Lanes, c \in Configs : l = cmd.lane /\ c = cmd.config
    BY <1>0, <1>1, CommandShape DEF AddLane, Ready
  <2>2. \/ ~Present(l) /\ Added(l, c)
        \/ ~Present(l) /\ NotAdded(l)
        \/ Unchanged
    BY <1>1, <2>1 DEF AddLane
  <2>3. QED
    BY <1>0, <2>2, AddedLane, NotAddedLane, LanesUntouched DEF Unchanged
<1>2. CASE RemoveLane
  <2>1. Detached({cmd.lane}) \/ Unchanged
    BY <1>2 DEF RemoveLane
  <2>2. QED
    BY <1>0, <2>1, DetachedLanes, LanesUntouched DEF Unchanged
<1>3. CASE SleepLane
  <2>1. PICK l \in Lanes : l = cmd.lane
    BY <1>0, <1>3, CommandShape DEF SleepLane, Ready
  <2>2. (Present(l) /\ Slept({l})) \/ Unchanged
    BY <1>3, <2>1 DEF SleepLane
  <2>3. QED
    BY <1>0, <2>2, SleptLanes, LanesUntouched DEF Unchanged
<1>4. CASE WakeLane
  <2>1. PICK l \in Lanes : l = cmd.lane
    BY <1>0, <1>4, CommandShape DEF WakeLane, Ready
  <2>2. \/ /\ Present(l) /\ proc' = [proc EXCEPT ![l].state = "awake"]
           /\ UNCHANGED <<used, active, late, req>>
        \/ Detached({l})
        \/ Unchanged
    BY <1>4, <2>1 DEF WakeLane
  <2>3. QED
    BY <1>0, <2>2, LaneWakes, DetachedLanes, LanesUntouched DEF Unchanged
<1>5. CASE ReconfigureLane
  <2>1. PICK l \in Lanes, c \in Configs : l = cmd.lane /\ c = cmd.config
    BY <1>0, <1>5, CommandShape DEF ReconfigureLane, Ready
  <2>2. \/ Present(l) /\ Restarted(l, c)
        \/ Present(l) /\ NotRestarted(l)
        \/ Unchanged
    BY <1>5, <2>1 DEF ReconfigureLane
  <2>3. QED
    BY <1>0, <2>2, RestartedLane, NotRestartedLane, LanesUntouched DEF Unchanged
<1>6. QED
  BY <1>1, <1>2, <1>3, <1>4, <1>5

\* The steps of apply_lanes and of its rollback do.
LEMMA ApplyLanes ==
    ASSUME Inv, Apply
    PROVE  LanesOK'
<1>0. LanesOK /\ ControlTypes /\ TxnOK
  BY DEF Inv
<1>1. CASE BeginApply \/ EndApply
  BY <1>0, <1>1, LanesUntouched DEF BeginApply, EndApply, Unchanged
<1>2. CASE ApplyStagger
  <2>1. PICK S \in SUBSET {l \in Lanes : Sleepable(l)} : Slept(S)
    BY <1>2 DEF ApplyStagger
  <2>2. \A l \in S : l \in Lanes /\ Present(l)
    BY DEF Sleepable
  <2>3. QED
    BY <1>0, <2>1, <2>2, SleptLanes
<1>3. ASSUME NEW l \in Lanes, ApplyRemove(l) \/ UndoAdded(l) PROVE LanesOK'
  BY <1>0, <1>3, DetachedLanes DEF ApplyRemove, UndoAdded
<1>4. ASSUME NEW l \in Lanes, ApplyRestart(l) PROVE LanesOK'
  <2>1. /\ Present(l) /\ txn.target[l] \in Configs \cup {None}
    BY <1>0, <1>4, Held, TxnShape DEF ApplyRestart, PlanOK
  <2>2. Restarted(l, txn.target[l]) \/ NotRestarted(l)
    BY <1>4 DEF ApplyRestart
  <2>3. QED
    BY <1>0, <2>1, <2>2, RestartedLane, NotRestartedLane
<1>5. ASSUME NEW l \in Lanes, ApplyAdd(l) PROVE LanesOK'
  <2>1. ~Present(l) /\ txn.target[l] \in Configs \cup {None}
    BY <1>0, <1>5, Held, TxnShape DEF ApplyAdd, PlanOK
  <2>2. Added(l, txn.target[l]) \/ NotAdded(l)
    BY <1>5 DEF ApplyAdd
  <2>3. QED
    BY <1>0, <2>1, <2>2, AddedLane, NotAddedLane
<1>6. ASSUME NEW l \in Lanes, UndoRestarted(l) \/ UndoRemoved(l) PROVE LanesOK'
  <2>1. /\ Undoing /\ txn.added = {}
        /\ l \in txn.restarted \cup txn.removed
        /\ Restored(l) \/ NotRestored(l) \/ Unchanged
    BY <1>6 DEF UndoRestarted, UndoRemoved
  <2>2. txn.before[l] # None
    BY <1>0, <2>1, Held DEF DoneOK
  <2>3. QED
    BY <1>0, <2>1, <2>2, OldPortFree, RestoredLane, NotRestoredLane, LanesUntouched
       DEF Unchanged
<1>7. QED
  BY <1>1, <1>2, <1>3, <1>4, <1>5, <1>6 DEF Apply

\* The recovery restarts a lane that is there with some configuration, fails to,
\* or leaves it alone.
LEMMA Recovered ==
    ASSUME LanesOK, ControlTypes, NEW l \in Lanes, Recover(l)
    PROVE  \E c \in Configs \cup {None} :
              (Present(l) /\ (Restarted(l, c) \/ NotRestarted(l))) \/ Unchanged
<1>1. seen[l] \in Configs \cup {None}
  BY DEF ControlTypes
<1>2. Present(l) => proc[l].config \in Configs \cup {None}
  BY DEF LanesOK, LaneTypes, Process, Present
<1>3. CASE Present(l) /\ proc[l].state = "dead"
  <2> DEFINE c == IF Stranded(l) THEN seen[l] ELSE proc[l].config
  <2>1. c \in Configs \cup {None}
    BY <1>1, <1>2, <1>3
  <2>2. Restarted(l, c) \/ NotRestarted(l)
    BY <1>3 DEF Recover
  <2>3. QED
    BY <1>3, <2>1, <2>2
<1>4. CASE ~(Present(l) /\ proc[l].state = "dead")
  BY <1>1, <1>4 DEF Recover
<1>5. QED
  BY <1>3, <1>4

\* So does every step.
LEMMA LanesStep ==
    ASSUME Inv, [Next]_vars
    PROVE  LanesOK'
<1>0. LanesOK /\ ControlTypes
  BY DEF Inv
<1>1. CASE Read
  <2>1. UNCHANGED <<lanes, req>>
    BY <1>1 DEF Read, ReadAdd, ReadReconfigure, ReadWake, ReadRemove, ReadSleep, ReadApply, Begin
  <2>2. QED
    BY <1>0, <2>1, LanesUntouched
<1>2. CASE DrainExpires \/ \E l \in Lanes : DrainEnds(l)
  BY <1>0, <1>2, LanesUntouched DEF DrainExpires, DrainEnds
<1>3. CASE AddLane \/ RemoveLane \/ SleepLane \/ WakeLane \/ ReconfigureLane
  BY <1>3, CommandLanes
<1>4. CASE Apply
  BY <1>4, ApplyLanes
<1>5. CASE Serve
  BY <1>0, <1>5, RequestMoves DEF Serve
<1>6. ASSUME NEW l \in Lanes, ProcessDies(l) \/ StuckStopped(l) PROVE LanesOK'
  BY <1>0, <1>6, LaneDies DEF ProcessDies, StuckStopped
<1>7. ASSUME NEW l \in Lanes, Recover(l) PROVE LanesOK'
  <2>1. PICK c \in Configs \cup {None} :
              (Present(l) /\ (Restarted(l, c) \/ NotRestarted(l))) \/ Unchanged
    BY <1>0, <1>7, Recovered
  <2>2. QED
    BY <1>0, <2>1, RestartedLane, NotRestartedLane, LanesUntouched DEF Unchanged
<1>8. ASSUME NEW l \in Lanes, RestartStuck(l) PROVE LanesOK'
  <2>1. stuck[l] \in Configs \cup {None}
    BY <1>0 DEF ControlTypes
  <2>2. \/ Present(l) /\ (Restarted(l, stuck[l]) \/ NotRestarted(l))
        \/ Unchanged
    BY <1>8 DEF RestartStuck
  <2>3. QED
    BY <1>0, <2>1, <2>2, RestartedLane, NotRestartedLane, LanesUntouched DEF Unchanged
<1>9. CASE DestroyAll
  BY <1>0, <1>9, DetachedLanes DEF DestroyAll
<1>10. CASE UNCHANGED vars \/ \E l \in Lanes : SeeDead(l)
  BY <1>0, <1>10, LanesUntouched DEF vars, SeeDead
<1>11. QED
  BY <1>1, <1>2, <1>3, <1>4, <1>5, <1>6, <1>7, <1>8, <1>9, <1>10
     DEF Next, Work, Watch, Rest

\* Steps that leave command and transaction alone.
LEMMA ControlKept ==
    ASSUME ControlTypes, UNCHANGED <<cmd, txn>>,
           stuck' \in [Lanes -> Configs \cup {None}],
           seen' \in [Lanes -> Configs \cup {None}],
           tries' \in [Lanes -> 0 .. MaxRestarts],
           commands' \in 0 .. MaxCommands, faults' \in 0 .. MaxFaults
    PROVE  ControlTypes'
BY DEF ControlTypes, LockFree

\* A command that is read, waits or ends keeps its shape.
LEMMA CommandKept ==
    ASSUME ControlTypes, UNCHANGED <<txn, stuck, seen, tries, faults>>,
           cmd' \in Singles \cup Applies \cup {NoCommand}, commands' \in 0 .. MaxCommands,
           LockFree \/ cmd'.kind = "apply"
    PROVE  ControlTypes'
BY DEF ControlTypes, LockFree

LEMMA CommandTypes ==
    ASSUME Inv,
           \/ Read \/ DrainExpires \/ (\E l \in Lanes : DrainEnds(l))
           \/ AddLane \/ RemoveLane \/ SleepLane \/ WakeLane \/ ReconfigureLane
    PROVE  ControlTypes'
<1>0. ControlTypes
  BY DEF Inv
<1>1. CASE Read
  <2>1. PICK c : c \in Singles \cup Applies /\ Begin(c)
    <3>1. ASSUME NEW l \in Lanes, NEW c \in Configs, ReadAdd(l, c) \/ ReadReconfigure(l, c)
          PROVE  \E x : x \in Singles \cup Applies /\ Begin(x)
      <4>1. /\ [kind |-> "add", lane |-> l, config |-> c] \in Singles
            /\ [kind |-> "reconfigure", lane |-> l, config |-> c] \in Singles
        BY DEF Singles
      <4>2. QED
        BY <3>1, <4>1 DEF ReadAdd, ReadReconfigure
    <3>2. ASSUME NEW l \in Lanes, ReadWake(l)
          PROVE  \E x : x \in Singles \cup Applies /\ Begin(x)
      <4>1. [kind |-> "wake", lane |-> l] \in Singles
        BY DEF Singles
      <4>2. QED
        BY <3>2, <4>1 DEF ReadWake
    <3>3. ASSUME NEW l \in Lanes, ReadRemove(l)
          PROVE  \E x : x \in Singles \cup Applies /\ Begin(x)
      <4>1. [kind |-> "remove", lane |-> l, expired |-> FALSE] \in Singles
        BY <3>3 DEF Singles, ReadRemove
      <4>2. QED
        BY <3>3, <4>1 DEF ReadRemove
    <3>4. ASSUME NEW l \in Lanes, NEW force \in BOOLEAN, ReadSleep(l, force)
          PROVE  \E x : x \in Singles \cup Applies /\ Begin(x)
      <4>1. [kind |-> "sleep", lane |-> l, force |-> force,
             drain |-> IF force THEN {} ELSE {l}, expired |-> FALSE, owed |-> {}] \in Singles
        BY DEF Singles
      <4>2. QED
        BY <3>4, <4>1 DEF ReadSleep
    <3>5. ASSUME NEW d \in Desired, ReadApply(d)
          PROVE  \E x : x \in Singles \cup Applies /\ Begin(x)
      <4> DEFINE leaving == {l \in Lanes \ Static : Present(l) /\ d[l] = None}
                 owed == UNION {Running(l) : l \in leaving}
      <4>1. owed \subseteq Requests
        BY DEF Running
      <4>2. [kind |-> "apply", desired |-> d, drain |-> leaving, expired |-> FALSE,
             owed |-> owed] \in Applies
        BY <4>1 DEF Applies
      <4>3. QED
        BY <3>5, <4>2 DEF ReadApply
    <3>6. QED
      BY <1>1, <3>1, <3>2, <3>3, <3>4, <3>5 DEF Read
  <2>2. /\ cmd = NoCommand /\ cmd' = c /\ commands < MaxCommands
        /\ commands' = commands + 1
        /\ UNCHANGED <<txn, stuck, seen, tries, faults>>
    BY <2>1 DEF Begin, Idle
  <2>3. commands' \in 0 .. MaxCommands
    BY <1>0, <2>2, LanesAssumption DEF ControlTypes
  <2>4. LockFree
    BY <1>0, <2>2 DEF ControlTypes, NoCommand
  <2>5. QED
    BY <1>0, <2>1, <2>2, <2>3, <2>4, CommandKept
<1>2. CASE DrainExpires
  <2>1. cmd.kind \in {"remove", "sleep", "apply"} /\ cmd' = [cmd EXCEPT !.expired = TRUE]
    BY <1>2 DEF DrainExpires, Draining
  <2>2. cmd' \in Singles \cup Applies \cup {NoCommand} /\ cmd'.kind = cmd.kind
    <3>1. CASE cmd.kind = "remove"
      <4>1. cmd' \in [kind : {"remove"}, lane : Lanes \ Static, expired : BOOLEAN]
        BY <1>0, <2>1, <3>1, CommandShape
      <4>2. QED
        BY <3>1, <4>1 DEF Singles
    <3>2. CASE cmd.kind = "sleep"
      <4>1. cmd' \in [kind : {"sleep"}, lane : Lanes, force : BOOLEAN,
                      drain : SUBSET Lanes, expired : BOOLEAN, owed : {{}}]
        BY <1>0, <2>1, <3>2, CommandShape
      <4>2. QED
        BY <3>2, <4>1 DEF Singles
    <3>3. CASE cmd.kind = "apply"
      <4>1. cmd' \in Applies
        BY <1>0, <2>1, <3>3, CommandShape DEF Applies
      <4>2. QED
        BY <3>3, <4>1 DEF Applies
    <3>4. QED
      BY <2>1, <3>1, <3>2, <3>3
  <2>3. LockFree \/ cmd'.kind = "apply"
    BY <1>0, <2>2 DEF ControlTypes
  <2>4. UNCHANGED <<txn, stuck, seen, tries, commands, faults>>
    BY <1>2 DEF DrainExpires
  <2>5. QED
    BY <1>0, <2>2, <2>3, <2>4, CommandKept DEF ControlTypes
<1>3. ASSUME NEW l \in Lanes, DrainEnds(l)
      PROVE  ControlTypes'
  <2>1. /\ cmd.kind \in {"sleep", "apply"}
        /\ cmd' = [cmd EXCEPT !.drain = cmd.drain \ {l}, !.expired = FALSE,
                              !.owed = IF cmd.expired THEN cmd.owed \ Running(l) ELSE cmd.owed]
    BY <1>3 DEF DrainEnds, Draining
  <2>2. cmd' \in Singles \cup Applies \cup {NoCommand} /\ cmd'.kind = cmd.kind
    <3>1. CASE cmd.kind = "sleep"
      <4>1. cmd' \in [kind : {"sleep"}, lane : Lanes, force : BOOLEAN,
                      drain : SUBSET Lanes, expired : BOOLEAN, owed : {{}}]
        BY <1>0, <2>1, <3>1, CommandShape
      <4>2. QED
        BY <3>1, <4>1 DEF Singles
    <3>2. CASE cmd.kind = "apply"
      <4>1. cmd' \in Applies
        BY <1>0, <2>1, <3>2, CommandShape DEF Applies
      <4>2. QED
        BY <3>2, <4>1 DEF Applies
    <3>3. QED
      BY <2>1, <3>1, <3>2
  <2>3. LockFree \/ cmd'.kind = "apply"
    BY <1>0, <2>2 DEF ControlTypes
  <2>4. UNCHANGED <<txn, stuck, seen, tries, commands, faults>>
    BY <1>3 DEF DrainEnds
  <2>5. QED
    BY <1>0, <2>2, <2>3, <2>4, CommandKept DEF ControlTypes
<1>4. CASE AddLane \/ RemoveLane \/ SleepLane \/ WakeLane \/ ReconfigureLane
  <2>1. LockFree /\ cmd' = NoCommand /\ UNCHANGED <<txn, stuck, seen, tries, commands, faults>>
    BY <1>4 DEF AddLane, RemoveLane, SleepLane, WakeLane, ReconfigureLane, Ready, End
  <2>2. QED
    BY <1>0, <2>1, CommandKept DEF ControlTypes
<1>5. QED
  BY <1>1, <1>2, <1>3, <1>4

\* A step of apply_lanes leaves a transaction behind, or ends the command.
LEMMA TxnKept ==
    ASSUME ControlTypes, UNCHANGED <<cmd, stuck, seen, tries, commands, faults>>,
           cmd.kind = "apply",
           txn' \in Transaction
    PROVE  ControlTypes'
BY DEF ControlTypes, LockFree

\* The target that apply_lanes works towards: the server's, with the static
\* lanes it left out.
LEMMA TargetShape ==
    ASSUME LaneTypes, NEW d \in Desired
    PROVE  Target(d) \in [Lanes -> Configs \cup {None}]
<1>1. d \in [Lanes -> Configs \cup {None}]
  BY LanesAssumption
<1>2. \A l \in Lanes : Present(l) => proc[l].config \in Configs \cup {None}
  BY DEF LaneTypes, Present, Process
<1>3. QED
  BY <1>1, <1>2 DEF Target

LEMMA ApplyTypes ==
    ASSUME Inv, Apply
    PROVE  ControlTypes'
<1>0. LanesOK /\ ControlTypes /\ TxnOK /\ LaneTypes
  BY DEF Inv, LanesOK
<1>1. CASE BeginApply
  <2>1. PICK d \in Desired : d = cmd.desired
    BY <1>0, <1>1, CommandShape DEF BeginApply, Ready, Applies
  <2>2. cmd.kind = "apply" /\ UNCHANGED <<cmd, stuck, seen, tries, commands, faults>>
    BY <1>1 DEF BeginApply, Ready
  <2>3. PICK t : t = Target(d)
    OBVIOUS
  <2>4. txn' = [NoTxn EXCEPT
               !.phase   = "doing",
               !.target  = t,
               !.before  = proc,
               !.remove  = {l \in Lanes \ Static : Present(l) /\ t[l] = None},
               !.restart = {l \in Lanes : Present(l) /\ t[l] # None /\ proc[l].config \notin {None, t[l]}},
               !.add     = {l \in Lanes : ~Present(l) /\ t[l] # None}]
    BY <1>1, <2>1, <2>3 DEF BeginApply
  <2>5. /\ t \in [Lanes -> Configs \cup {None}]
        /\ proc \in [Lanes -> Process \cup {None}]
    BY <1>0, <2>3, TargetShape DEF LaneTypes
  <2>6. txn' \in Transaction
    BY <2>4, <2>5 DEF NoTxn, Transaction
  <2>7. QED
    BY <1>0, <2>2, <2>6, TxnKept
<1>2. CASE EndApply
  <2>1. txn' = NoTxn /\ cmd' = NoCommand /\ UNCHANGED <<stuck, seen, tries, commands, faults>>
    BY <1>2 DEF EndApply
  <2>2. /\ NoTxn \in Transaction
        /\ NoTxn.phase = "none"
    BY DEF NoTxn, Transaction
  <2>3. QED
    BY <1>0, <2>1, <2>2 DEF ControlTypes, LockFree
<1>3. ASSUME ApplyStagger \/ \E l \in Lanes : \/ ApplyRemove(l) \/ ApplyRestart(l) \/ ApplyAdd(l)
                                              \/ UndoAdded(l) \/ UndoRestarted(l) \/ UndoRemoved(l)
      PROVE  ControlTypes'
  <2>1. Applying \/ Undoing
    BY <1>3 DEF ApplyStagger, ApplyRemove, ApplyRestart, ApplyAdd, UndoAdded, UndoRestarted,
                UndoRemoved
  <2>2. cmd.kind = "apply"
    BY <1>0, <2>1 DEF ControlTypes, LockFree, Applying, Undoing
  <2>3. UNCHANGED <<cmd, stuck, seen, tries, commands, faults>>
    BY <1>3 DEF ApplyStagger, ApplyRemove, ApplyRestart, ApplyAdd, UndoAdded, UndoRestarted,
                UndoRemoved, Step
  <2>4. \E l \in Lanes, p \in {"doing", "undoing"}, s \in BOOLEAN :
          \/ txn' = [txn EXCEPT !.phase = p, !.remove = @ \ {l}, !.removed = @ \cup {l}]
          \/ txn' = [txn EXCEPT !.restart = @ \ {l}, !.restarted = @ \cup {l}]
          \/ txn' = [txn EXCEPT !.phase = p]
          \/ txn' = [txn EXCEPT !.staggered = s]
          \/ txn' = [txn EXCEPT !.add = @ \ {l}, !.added = @ \cup {l}, !.staggered = s]
          \/ txn' = [txn EXCEPT !.added = @ \ {l}]
          \/ txn' = [txn EXCEPT !.restarted = @ \ {l}]
          \/ txn' = [txn EXCEPT !.removed = @ \ {l}]
    <3>1. CASE ApplyStagger
      <4>1. PICK l \in Lanes : TRUE
        BY <1>0, <3>1, TxnShape DEF ApplyStagger
      <4>2. QED
        BY <3>1, <4>1 DEF ApplyStagger
    <3>2. CASE \E l \in Lanes : ApplyRemove(l)
      BY <3>2 DEF ApplyRemove
    <3>3. CASE \E l \in Lanes : ApplyRestart(l)
      BY <3>3 DEF ApplyRestart
    <3>4. CASE \E l \in Lanes : ApplyAdd(l)
      BY <3>4 DEF ApplyAdd
    <3>5. CASE \E l \in Lanes : UndoAdded(l) \/ UndoRestarted(l) \/ UndoRemoved(l)
      BY <3>5 DEF UndoAdded, UndoRestarted, UndoRemoved
    <3>6. QED
      BY <1>3, <3>1, <3>2, <3>3, <3>4, <3>5
  <2>5. txn' \in Transaction
    <3>1. PICK l \in Lanes, p \in {"doing", "undoing"}, s \in BOOLEAN :
            \/ txn' = [txn EXCEPT !.phase = p, !.remove = @ \ {l}, !.removed = @ \cup {l}]
            \/ txn' = [txn EXCEPT !.restart = @ \ {l}, !.restarted = @ \cup {l}]
            \/ txn' = [txn EXCEPT !.phase = p]
            \/ txn' = [txn EXCEPT !.staggered = s]
            \/ txn' = [txn EXCEPT !.add = @ \ {l}, !.added = @ \cup {l}, !.staggered = s]
            \/ txn' = [txn EXCEPT !.added = @ \ {l}]
            \/ txn' = [txn EXCEPT !.restarted = @ \ {l}]
            \/ txn' = [txn EXCEPT !.removed = @ \ {l}]
      BY <2>4
    <3>2. txn \in Transaction
      BY <1>0 DEF ControlTypes
    <3>3. CASE txn' = [txn EXCEPT !.phase = p, !.remove = @ \ {l}, !.removed = @ \cup {l}]
      BY <3>2, <3>3 DEF Transaction
    <3>4. CASE txn' = [txn EXCEPT !.restart = @ \ {l}, !.restarted = @ \cup {l}]
      BY <3>2, <3>4 DEF Transaction
    <3>5. CASE txn' = [txn EXCEPT !.phase = p] \/ txn' = [txn EXCEPT !.staggered = s]
      BY <3>2, <3>5 DEF Transaction
    <3>6. CASE txn' = [txn EXCEPT !.add = @ \ {l}, !.added = @ \cup {l}, !.staggered = s]
      BY <3>2, <3>6 DEF Transaction
    <3>7. CASE \/ txn' = [txn EXCEPT !.added = @ \ {l}]
               \/ txn' = [txn EXCEPT !.restarted = @ \ {l}]
               \/ txn' = [txn EXCEPT !.removed = @ \ {l}]
      BY <3>2, <3>7 DEF Transaction
    <3>8. QED
      BY <3>1, <3>3, <3>4, <3>5, <3>6, <3>7
  <2>6. QED
    BY <1>0, <2>2, <2>3, <2>5, TxnKept
<1>4. QED
  BY <1>1, <1>2, <1>3 DEF Apply

\* Every step keeps the types of the control state.
LEMMA ControlStep ==
    ASSUME Inv, [Next]_vars
    PROVE  ControlTypes'
<1>0. LanesOK /\ ControlTypes
  BY DEF Inv
<1>1. CASE \/ Read \/ DrainExpires \/ (\E l \in Lanes : DrainEnds(l))
           \/ AddLane \/ RemoveLane \/ SleepLane \/ WakeLane \/ ReconfigureLane
  BY <1>1, CommandTypes
<1>2. CASE Apply
  BY <1>2, ApplyTypes
<1>3. CASE Serve
  <2>1. UNCHANGED <<cmd, txn, stuck, seen, tries, commands, faults>>
    BY <1>3 DEF Serve, ReadRequest, Acquire, Answered, Decrement
  <2>2. QED
    BY <1>0, <2>1, ControlKept DEF ControlTypes
<1>4. ASSUME NEW l \in Lanes, ProcessDies(l) PROVE ControlTypes'
  <2>1. faults' \in 0 .. MaxFaults /\ UNCHANGED <<cmd, txn, stuck, seen, tries, commands>>
    BY <1>0, <1>4, LanesAssumption DEF ProcessDies, ControlTypes
  <2>2. QED
    BY <1>0, <2>1, ControlKept DEF ControlTypes
<1>5. ASSUME NEW l \in Lanes, StuckStopped(l) PROVE ControlTypes'
  <2>1. faults' \in 0 .. MaxFaults /\ UNCHANGED <<cmd, txn, seen, tries, commands>>
    BY <1>0, <1>5, LanesAssumption DEF StuckStopped, ControlTypes
  <2>2. proc[l].config \in Configs \cup {None}
    BY <1>0, <1>5 DEF StuckStopped, LanesOK, LaneTypes, Process, Present
  <2>3. stuck' \in [Lanes -> Configs \cup {None}]
    BY <1>0, <1>5, <2>2 DEF StuckStopped, ControlTypes
  <2>4. QED
    BY <1>0, <2>1, <2>3, ControlKept DEF ControlTypes
<1>6. ASSUME NEW l \in Lanes, SeeDead(l) \/ Recover(l) PROVE ControlTypes'
  <2>1. UNCHANGED <<cmd, txn, stuck, commands, faults>>
    BY <1>6 DEF SeeDead, Recover
  <2>2. seen' \in [Lanes -> Configs \cup {None}]
    <3>1. CASE SeeDead(l)
      <4>1. proc[l].config \in Configs \cup {None}
        BY <1>0, <3>1 DEF SeeDead, LanesOK, LaneTypes, Process, Present
      <4>2. QED
        BY <1>0, <3>1, <4>1 DEF SeeDead, ControlTypes
    <3>2. CASE Recover(l)
      BY <1>0, <3>2 DEF Recover, ControlTypes
    <3>3. QED
      BY <1>6, <3>1, <3>2
  <2>3. tries' \in [Lanes -> 0 .. MaxRestarts]
    <3>1. CASE SeeDead(l)
      <4>1. tries[l] < MaxRestarts /\ tries' = [tries EXCEPT ![l] = @ + 1]
        BY <3>1 DEF SeeDead
      <4>2. QED
        BY <1>0, <4>1, LanesAssumption DEF ControlTypes
    <3>2. CASE Recover(l)
      <4>1. tries' = tries \/ tries' = [tries EXCEPT ![l] = 0]
        BY <3>2 DEF Recover
      <4>2. QED
        BY <1>0, <4>1, LanesAssumption DEF ControlTypes
    <3>3. QED
      BY <1>6, <3>1, <3>2
  <2>4. QED
    BY <1>0, <2>1, <2>2, <2>3, ControlKept DEF ControlTypes
<1>7. ASSUME NEW l \in Lanes, RestartStuck(l) PROVE ControlTypes'
  <2>1. stuck' = [stuck EXCEPT ![l] = None] /\ UNCHANGED <<cmd, txn, seen, tries, commands, faults>>
    BY <1>7 DEF RestartStuck
  <2>2. QED
    BY <1>0, <2>1, ControlKept DEF ControlTypes
<1>8. CASE DestroyAll
  <2>1. faults' \in 0 .. MaxFaults /\ UNCHANGED <<cmd, txn, stuck, seen, tries, commands>>
    BY <1>0, <1>8, LanesAssumption DEF DestroyAll, ControlTypes
  <2>2. QED
    BY <1>0, <2>1, ControlKept DEF ControlTypes
<1>9. CASE UNCHANGED vars
  BY <1>0, <1>9, ControlKept DEF ControlTypes, vars
<1>10. QED
  BY <1>1, <1>2, <1>3, <1>4, <1>5, <1>6, <1>7, <1>8, <1>9 DEF Next, Work, Watch, Rest

\* A lane that a step leaves as it is stays as asked and as before.
LEMMA SameLane ==
    ASSUME NEW l \in Lanes, proc'[l] = proc[l],
           txn'.target = txn.target, txn'.before = txn.before
    PROVE  /\ Present(l)' <=> Present(l)
           /\ AsAsked(l)' <=> AsAsked(l)
           /\ AsBefore(l)' <=> AsBefore(l)
BY DEF AsAsked, AsBefore, Stranded, Present

\* A lane without a process is as it was before, and as asked if it is not
\* wanted; so is one whose process a failed restart destroyed.
LEMMA GoneLane ==
    ASSUME NEW l \in Lanes, proc'[l] = None \/ (proc'[l] # None /\ proc'[l].config = None)
    PROVE  AsBefore(l)'
BY DEF AsBefore, Stranded, Present

\* While somebody else's lock keeps the transaction still, processes may die
\* and engines fall asleep, but lanes keep their ports and configurations.
LEMMA TxnStill ==
    ASSUME Inv, UNCHANGED <<txn, used>>,
           \A l \in Lanes : /\ Present(l)' <=> Present(l)
                            /\ Present(l) => /\ proc'[l].config = proc[l].config
                                             /\ proc'[l].port = proc[l].port
    PROVE  TxnOK'
<1>1. CASE LockFree
  BY <1>1 DEF TxnOK, LockFree
<1>2. CASE ~LockFree
  <2>1. PlanOK /\ DoneOK /\ PortsKept /\ Progress
    BY <1>2 DEF Inv, TxnOK
  <2>2. txn.removed \subseteq Lanes /\ txn.restart \subseteq Lanes /\ txn.add \subseteq Lanes
    BY TxnShape DEF Inv
  <2>3. PlanOK' /\ DoneOK' /\ PortsKept'
    BY <2>1, <2>2 DEF PlanOK, DoneOK, PortsKept, Applying
  <2>4. \A l \in Lanes : /\ AsAsked(l) => AsAsked(l)'
                         /\ AsBefore(l) => AsBefore(l)'
    BY DEF AsAsked, AsBefore, Stranded
  <2>5. Progress'
    BY <2>1, <2>4 DEF Progress, Applying
  <2>6. QED
    BY <2>3, <2>5 DEF TxnOK
<1>3. QED
  BY <1>1, <1>2

\* apply_lanes begins: what is neither to be removed, restarted nor added is
\* there as asked, or was not asked for and is not there.
LEMMA BeginTxn ==
    ASSUME Inv, BeginApply
    PROVE  TxnOK'
<1>0. LanesOK /\ ControlTypes /\ LaneTypes
  BY DEF Inv, LanesOK
<1>1. PICK d \in Desired : d = cmd.desired
  BY <1>0, CommandShape DEF BeginApply, Ready, Applies
<1>2. PICK t : t = Target(d)
  OBVIOUS
<1>3. t \in [Lanes -> Configs \cup {None}]
  BY <1>0, <1>2, TargetShape
<1>4. /\ txn'.phase = "doing" /\ txn'.target = t /\ txn'.before = proc
      /\ txn'.remove  = {l \in Lanes \ Static : Present(l) /\ t[l] = None}
      /\ txn'.restart = {l \in Lanes : Present(l) /\ t[l] # None /\ proc[l].config \notin {None, t[l]}}
      /\ txn'.add     = {l \in Lanes : ~Present(l) /\ t[l] # None}
      /\ txn'.removed = {} /\ txn'.restarted = {} /\ txn'.added = {}
      /\ UNCHANGED <<proc, used>>
  BY <1>1, <1>2 DEF BeginApply, NoTxn, Unchanged, lanes
<1>5. PlanOK' /\ DoneOK'
  BY <1>4 DEF PlanOK, DoneOK, Present
<1>6. PortsKept'
  BY <1>0, <1>4, LanesAssumption DEF PortsKept, LanesOK, PortsAreOwn, LaneTypes, Present, Process
<1>7. ASSUME NEW l \in Lanes
      PROVE  l \in txn'.remove \cup txn'.restart \cup txn'.add \/ AsAsked(l)'
  <2>1. CASE ~Present(l)
    BY <1>4, <2>1 DEF AsAsked, Present
  <2>2. CASE Present(l) /\ t[l] # None
    BY <1>4, <2>2 DEF AsAsked, Stranded, Present
  <2>3. CASE Present(l) /\ t[l] = None
    <3>1. CASE l \notin Static
      BY <1>4, <2>3, <3>1
    <3>2. CASE l \in Static
      <4>1. t[l] = IF d[l] = None THEN proc[l].config ELSE d[l]
        BY <1>2, <2>3, <3>2 DEF Target
      <4>2. proc[l].config = None
        BY <2>3, <4>1
      <4>3. QED
        BY <1>4, <2>3, <4>2 DEF AsAsked, Stranded, Present
    <3>3. QED
      BY <3>1, <3>2
  <2>4. QED
    BY <2>1, <2>2, <2>3
<1>8. \A l \in Lanes : AsBefore(l)'
  BY <1>4 DEF AsBefore, Present
<1>9. Progress'
  BY <1>7, <1>8 DEF Progress
<1>10. QED
  BY <1>5, <1>6, <1>9 DEF TxnOK

\* A lane is taken away.
LEMMA RemoveTxn ==
    ASSUME Inv, NEW l \in Lanes, ApplyRemove(l)
    PROVE  TxnOK'
<1>0. ControlTypes /\ PlanOK /\ DoneOK /\ PortsKept /\ Progress /\ Applying
  BY Held DEF Inv, ApplyRemove
<1>1. PICK p \in {"doing", "undoing"} :
        txn' = [txn EXCEPT !.phase = p, !.remove = @ \ {l}, !.removed = @ \cup {l}]
  BY DEF ApplyRemove
<1>2. /\ txn'.target = txn.target /\ txn'.before = txn.before
      /\ txn'.remove = txn.remove \ {l} /\ txn'.restart = txn.restart /\ txn'.add = txn.add
      /\ txn'.removed = txn.removed \cup {l} /\ txn'.restarted = txn.restarted
      /\ txn'.added = txn.added
  BY <1>0, <1>1 DEF ControlTypes, Transaction
<1>3. /\ proc'[l] = None /\ used'[l] = None /\ l \in txn.remove
      /\ \A k \in Lanes \ {l} : proc'[k] = proc[k] /\ used'[k] = used[k]
  BY DEF ApplyRemove, Detached
<1>4. /\ txn.remove \subseteq Lanes /\ txn.restart \subseteq Lanes /\ txn.add \subseteq Lanes
      /\ txn.removed \subseteq Lanes
      /\ txn.before \in [Lanes -> Process \cup {None}]
  BY <1>0, TxnShape
<1>5. PlanOK'
  BY <1>0, <1>2, <1>3, <1>4 DEF PlanOK, Applying, Present
<1>6. DoneOK'
  BY <1>0, <1>2, <1>3, <1>4 DEF PlanOK, DoneOK, Present
<1>7. PortsKept'
  BY <1>0, <1>2, <1>3, <1>4, LanesAssumption DEF PortsKept, Process
<1>8. \A k \in Lanes \ {l} : /\ AsAsked(k)' <=> AsAsked(k)
                             /\ AsBefore(k)' <=> AsBefore(k)
  BY <1>2, <1>3, SameLane
<1>9. AsAsked(l)'
  BY <1>0, <1>2, <1>3 DEF PlanOK, AsAsked, Present
<1>10. Progress'
  BY <1>0, <1>2, <1>8, <1>9 DEF Progress
<1>11. QED
  BY <1>5, <1>6, <1>7, <1>10 DEF TxnOK

\* A lane is restarted, or its restart fails and it is gone or stranded.
LEMMA RestartTxn ==
    ASSUME Inv, NEW l \in Lanes, ApplyRestart(l)
    PROVE  TxnOK'
<1>0. /\ ControlTypes /\ PlanOK /\ DoneOK /\ PortsKept /\ Progress /\ Applying
      /\ LanesOK /\ LaneTypes
  BY Held DEF Inv, LanesOK, ApplyRestart
<1>1. /\ txn.restart \subseteq Lanes /\ txn.add \subseteq Lanes
      /\ txn.removed \subseteq Lanes
      /\ txn.before \in [Lanes -> Process \cup {None}]
  BY <1>0, TxnShape
<1>2. /\ l \in txn.restart /\ Present(l) /\ txn.target[l] # None /\ txn.before[l] # None
      /\ txn.remove = {} /\ l \notin txn.add /\ l \notin txn.removed
      /\ proc \in [Lanes -> Process \cup {None}] /\ used[l] \in Ports
  BY <1>0 DEF ApplyRestart, PlanOK, DoneOK, LanesOK, LaneTypes, PortsAreOwn, Process, Present
<1>3. CASE /\ Restarted(l, txn.target[l])
           /\ txn' = [txn EXCEPT !.restart = @ \ {l}, !.restarted = @ \cup {l}]
  <2>1. /\ txn'.phase = txn.phase /\ txn'.target = txn.target /\ txn'.before = txn.before
        /\ txn'.remove = txn.remove /\ txn'.restart = txn.restart \ {l} /\ txn'.add = txn.add
        /\ txn'.removed = txn.removed /\ txn'.restarted = txn.restarted \cup {l}
        /\ txn'.added = txn.added
    BY <1>0, <1>3 DEF ControlTypes, Transaction
  <2>2. /\ proc'[l] = [config |-> txn.target[l], port |-> used[l], state |-> "awake"]
        /\ \A k \in Lanes \ {l} : proc'[k] = proc[k]
        /\ used' = used
    BY <1>2, <1>3 DEF Restarted
  <2>3. proc'[l] # None /\ proc'[l].config = txn.target[l]
    <3>1. txn.target[l] \in Configs \cup {None}
      BY <1>0, TxnShape
    <3>2. proc'[l] \in Process
      BY <1>2, <2>2, <3>1 DEF Process
    <3>3. QED
      BY <2>2, <3>2, NoneAssumption
  <2>4. PlanOK'
    BY <1>0, <1>1, <1>2, <2>1, <2>2 DEF PlanOK, Applying, Present
  <2>5. DoneOK'
    BY <1>0, <1>1, <1>2, <2>1, <2>2 DEF DoneOK, Present
  <2>6. PortsKept'
    BY <1>0, <2>1, <2>2 DEF PortsKept
  <2>7. \A k \in Lanes \ {l} : /\ AsAsked(k)' <=> AsAsked(k)
                               /\ AsBefore(k)' <=> AsBefore(k)
    BY <2>1, <2>2, SameLane
  <2>8. AsAsked(l)'
    BY <2>1, <2>3 DEF AsAsked, Present
  <2>9. Progress'
    BY <1>0, <2>1, <2>7, <2>8 DEF Progress, Applying
  <2>10. QED
    BY <2>4, <2>5, <2>6, <2>9 DEF TxnOK
<1>4. CASE NotRestarted(l) /\ txn' = [txn EXCEPT !.phase = "undoing"]
  <2>1. /\ txn'.phase = "undoing" /\ txn'.target = txn.target /\ txn'.before = txn.before
        /\ txn'.remove = txn.remove /\ txn'.restart = txn.restart /\ txn'.add = txn.add
        /\ txn'.removed = txn.removed /\ txn'.restarted = txn.restarted
        /\ txn'.added = txn.added
    BY <1>0, <1>4 DEF ControlTypes, Transaction
  <2>2. /\ proc'[l] = None \/ (proc'[l] # None /\ proc'[l].config = None)
        /\ used'[l] = None \/ used'[l] = used[l]
        /\ \A k \in Lanes \ {l} : proc'[k] = proc[k] /\ used'[k] = used[k]
    <3>1. CASE Detached({l})
      BY <3>1 DEF Detached
    <3>2. CASE /\ proc' = [proc EXCEPT ![l] = [config |-> None, port |-> @.port, state |-> "dead"]]
               /\ UNCHANGED used
      <4>1. proc[l] \in Process
        BY <1>2 DEF Present
      <4>2. [config |-> None, port |-> proc[l].port, state |-> "dead"] \in Process
        BY <4>1 DEF Process
      <4>3. QED
        BY <1>2, <3>2, <4>2, NoneAssumption
    <3>3. QED
      BY <1>4, <3>1, <3>2 DEF NotRestarted
  <2>3. PlanOK' /\ DoneOK'
    BY <1>0, <1>1, <1>2, <2>1, <2>2 DEF PlanOK, DoneOK, Applying, Present
  <2>4. PortsKept'
    BY <1>0, <1>1, <2>1, <2>2, LanesAssumption DEF PortsKept, Process
  <2>5. \A k \in Lanes \ {l} : AsBefore(k)' <=> AsBefore(k)
    BY <2>1, <2>2, SameLane
  <2>6. AsBefore(l)'
    BY <2>2, GoneLane
  <2>7. Progress'
    BY <1>0, <2>1, <2>5, <2>6 DEF Progress, Applying
  <2>8. QED
    BY <2>3, <2>4, <2>7 DEF TxnOK
<1>5. QED
  BY <1>3, <1>4 DEF ApplyRestart

\* Idle lanes are put to sleep to make room.
LEMMA StaggerTxn ==
    ASSUME Inv, ApplyStagger
    PROVE  TxnOK'
<1>0. /\ ControlTypes /\ PlanOK /\ DoneOK /\ PortsKept /\ Progress /\ Applying
      /\ LaneTypes
  BY Held DEF Inv, LanesOK, ApplyStagger
<1>1. /\ txn'.phase = txn.phase /\ txn'.target = txn.target /\ txn'.before = txn.before
      /\ txn'.remove = txn.remove /\ txn'.restart = txn.restart /\ txn'.add = txn.add
      /\ txn'.removed = txn.removed /\ txn'.restarted = txn.restarted
      /\ txn'.added = txn.added
  BY <1>0 DEF ControlTypes, Transaction, ApplyStagger
<1>2. PICK S \in SUBSET {l \in Lanes : Sleepable(l)} : Slept(S)
  BY DEF ApplyStagger
<1>3. ASSUME NEW l \in Lanes
      PROVE  /\ Present(l)' <=> Present(l)
             /\ Present(l) => /\ proc'[l].config = proc[l].config
                              /\ proc'[l].port = proc[l].port
  <2>1. CASE l \in S
    <3>1. proc[l] \in Process /\ Present(l)
      BY <1>0, <2>1 DEF Sleepable, LaneTypes, Present
    <3>2. proc'[l] = [proc[l] EXCEPT !.state = "asleep"]
      BY <1>2, <2>1 DEF Slept
    <3>3. proc'[l] \in Process /\ proc'[l].config = proc[l].config /\ proc'[l].port = proc[l].port
      BY <3>1, <3>2 DEF Process
    <3>4. QED
      BY <3>1, <3>3, NoneAssumption DEF Present
  <2>2. CASE l \notin S
    BY <1>2, <2>2 DEF Slept, Present
  <2>3. QED
    BY <2>1, <2>2
<1>4. used' = used
  BY <1>2 DEF Slept
<1>5. /\ txn.removed \subseteq Lanes /\ txn.restart \subseteq Lanes /\ txn.add \subseteq Lanes
  BY <1>0, TxnShape
<1>6. PlanOK' /\ DoneOK' /\ PortsKept'
  BY <1>0, <1>1, <1>3, <1>4, <1>5 DEF PlanOK, DoneOK, PortsKept, Applying
<1>7. \A l \in Lanes : /\ AsAsked(l) => AsAsked(l)'
                       /\ AsBefore(l) => AsBefore(l)'
  BY <1>1, <1>3 DEF AsAsked, AsBefore, Stranded
<1>8. Progress'
  BY <1>0, <1>1, <1>7 DEF Progress, Applying
<1>9. QED
  BY <1>6, <1>8 DEF TxnOK

\* A lane is added, or its start fails and apply_lanes turns back.
LEMMA AddTxn ==
    ASSUME Inv, NEW l \in Lanes, ApplyAdd(l)
    PROVE  TxnOK'
<1>0. /\ ControlTypes /\ PlanOK /\ DoneOK /\ PortsKept /\ Progress /\ Applying
      /\ LaneTypes
  BY Held DEF Inv, LanesOK, ApplyAdd
<1>1. /\ txn.remove \subseteq Lanes /\ txn.restart \subseteq Lanes /\ txn.add \subseteq Lanes
      /\ txn.removed \subseteq Lanes
      /\ txn.before \in [Lanes -> Process \cup {None}]
      /\ txn.target[l] \in Configs \cup {None}
  BY <1>0, TxnShape
<1>2. /\ l \in txn.add /\ ~Present(l) /\ txn.target[l] # None /\ txn.before[l] = None
      /\ l \notin txn.remove /\ l \notin txn.restart /\ l \notin txn.removed
      /\ proc \in [Lanes -> Process \cup {None}] /\ used \in [Lanes -> Ports \cup {None}]
  BY <1>0 DEF ApplyAdd, PlanOK, DoneOK, LaneTypes
<1>3. CASE /\ Added(l, txn.target[l])
           /\ txn' = [txn EXCEPT !.add = @ \ {l}, !.added = @ \cup {l}, !.staggered = txn.add = {l}]
  <2>1. /\ txn'.phase = txn.phase /\ txn'.target = txn.target /\ txn'.before = txn.before
        /\ txn'.remove = txn.remove /\ txn'.restart = txn.restart /\ txn'.add = txn.add \ {l}
        /\ txn'.removed = txn.removed /\ txn'.restarted = txn.restarted
        /\ txn'.added = txn.added \cup {l}
    BY <1>0, <1>3 DEF ControlTypes, Transaction
  <2>2. PICK p : p = PortFor(l)
    OBVIOUS
  <2>3. p \in Ports
    BY <1>2, <1>3, <2>2, PortForLane DEF Added
  <2>4. /\ proc'[l] = [config |-> txn.target[l], port |-> p, state |-> "awake"]
        /\ \A k \in Lanes \ {l} : proc'[k] = proc[k] /\ used'[k] = used[k]
    BY <1>2, <1>3, <2>2 DEF Added
  <2>5. proc'[l] # None /\ proc'[l].config = txn.target[l]
    <3>1. proc'[l] \in Process
      BY <1>1, <2>3, <2>4 DEF Process
    <3>2. QED
      BY <2>4, <3>1, NoneAssumption
  <2>6. PlanOK' /\ DoneOK'
    BY <1>0, <1>1, <1>2, <2>1, <2>4 DEF PlanOK, DoneOK, Applying, Present
  <2>7. PortsKept'
    BY <1>0, <1>2, <2>1, <2>4 DEF PortsKept
  <2>8. \A k \in Lanes \ {l} : /\ AsAsked(k)' <=> AsAsked(k)
                               /\ AsBefore(k)' <=> AsBefore(k)
    BY <2>1, <2>4, SameLane
  <2>9. AsAsked(l)'
    BY <2>1, <2>5 DEF AsAsked, Present
  <2>10. Progress'
    BY <1>0, <2>1, <2>8, <2>9 DEF Progress, Applying
  <2>11. QED
    BY <2>6, <2>7, <2>10 DEF TxnOK
<1>4. CASE NotAdded(l) /\ txn' = [txn EXCEPT !.phase = "undoing"]
  <2>1. /\ txn'.phase = "undoing" /\ txn'.target = txn.target /\ txn'.before = txn.before
        /\ txn'.remove = txn.remove /\ txn'.restart = txn.restart /\ txn'.add = txn.add
        /\ txn'.removed = txn.removed /\ txn'.restarted = txn.restarted
        /\ txn'.added = txn.added
    BY <1>0, <1>4 DEF ControlTypes, Transaction
  <2>2. /\ proc' = proc
        /\ \A k \in Lanes : used'[k] = None \/ used'[k] = used[k]
    BY <1>2, <1>4 DEF NotAdded
  <2>3. PlanOK' /\ DoneOK'
    BY <1>0, <1>1, <2>1, <2>2 DEF PlanOK, DoneOK, Applying, Present
  <2>4. PortsKept'
    BY <1>0, <1>1, <2>1, <2>2, LanesAssumption DEF PortsKept, Process
  <2>5. \A k \in Lanes : AsBefore(k)' <=> AsBefore(k)
    BY <2>1, <2>2, SameLane
  <2>6. Progress'
    BY <1>0, <2>1, <2>5 DEF Progress, Applying
  <2>7. QED
    BY <2>3, <2>4, <2>6 DEF TxnOK
<1>5. QED
  BY <1>3, <1>4 DEF ApplyAdd

\* The rollback takes an added lane away again.
LEMMA UndoAddedTxn ==
    ASSUME Inv, NEW l \in Lanes, UndoAdded(l)
    PROVE  TxnOK'
<1>0. /\ ControlTypes /\ PlanOK /\ DoneOK /\ PortsKept /\ Progress /\ ~Applying
  BY Held DEF Inv, UndoAdded, Undoing, Applying
<1>1. /\ txn.remove \subseteq Lanes /\ txn.restart \subseteq Lanes /\ txn.add \subseteq Lanes
      /\ txn.removed \subseteq Lanes
      /\ txn.before \in [Lanes -> Process \cup {None}]
  BY <1>0, TxnShape
<1>2. /\ txn'.phase = txn.phase /\ txn'.target = txn.target /\ txn'.before = txn.before
      /\ txn'.remove = txn.remove /\ txn'.restart = txn.restart /\ txn'.add = txn.add
      /\ txn'.removed = txn.removed /\ txn'.restarted = txn.restarted
      /\ txn'.added = txn.added \ {l}
  BY <1>0 DEF UndoAdded, ControlTypes, Transaction
<1>3. /\ proc'[l] = None /\ used'[l] = None
      /\ \A k \in Lanes \ {l} : proc'[k] = proc[k] /\ used'[k] = used[k]
  BY DEF UndoAdded, Detached
<1>4. PlanOK' /\ DoneOK'
  BY <1>0, <1>1, <1>2, <1>3 DEF PlanOK, DoneOK, Applying, Present
<1>5. PortsKept'
  BY <1>0, <1>1, <1>2, <1>3, LanesAssumption DEF PortsKept, Process
<1>6. \A k \in Lanes \ {l} : AsBefore(k)' <=> AsBefore(k)
  BY <1>2, <1>3, SameLane
<1>7. AsBefore(l)'
  BY <1>3, GoneLane
<1>8. Progress'
  BY <1>0, <1>2, <1>6, <1>7 DEF Progress, Applying
<1>9. QED
  BY <1>4, <1>5, <1>8 DEF TxnOK

\* A lane that the rollback starts again is as before, or gone.
LEMMA BackAgain ==
    ASSUME Inv, Undoing, NEW l \in Lanes, txn.before[l] # None,
           Restored(l) \/ NotRestored(l), txn'.before = txn.before
    PROVE  /\ AsBefore(l)'
           /\ used'[l] \in {used[l], txn.before[l].port}
           /\ \A k \in Lanes \ {l} : proc'[k] = proc[k] /\ used'[k] = used[k]
<1>0. /\ proc \in [Lanes -> Process \cup {None}] /\ used \in [Lanes -> Ports \cup {None}]
      /\ txn.before[l] \in Process
  BY TxnShape DEF Inv, LanesOK, LaneTypes
<1>1. CASE Restored(l)
  <2>1. PICK b \in Process : b = txn.before[l]
    BY <1>0
  <2>2. /\ proc'[l] = [b EXCEPT !.state = "awake"]
        /\ used'[l] = b.port
        /\ \A k \in Lanes \ {l} : proc'[k] = proc[k] /\ used'[k] = used[k]
    BY <1>0, <1>1, <2>1 DEF Restored
  <2>3. proc'[l].config = b.config /\ proc'[l].port = b.port
    BY <2>2 DEF Process
  <2>4. AsBefore(l)'
    BY <2>1, <2>3 DEF AsBefore
  <2>5. QED
    BY <2>1, <2>2, <2>4
<1>2. CASE NotRestored(l)
  <2>1. /\ proc'[l] = None /\ used' = used
        /\ \A k \in Lanes \ {l} : proc'[k] = proc[k]
    BY <1>0, <1>2 DEF NotRestored
  <2>2. QED
    BY <2>1, GoneLane
<1>3. QED
  BY <1>1, <1>2

LEMMA UndoRestartedTxn ==
    ASSUME Inv, NEW l \in Lanes, UndoRestarted(l)
    PROVE  TxnOK'
<1>0. /\ ControlTypes /\ PlanOK /\ DoneOK /\ PortsKept /\ Progress /\ ~Applying /\ Undoing
  BY Held DEF Inv, UndoRestarted, Undoing, Applying
<1>1. /\ txn.remove \subseteq Lanes /\ txn.restart \subseteq Lanes /\ txn.add \subseteq Lanes
      /\ txn.removed \subseteq Lanes
  BY <1>0, TxnShape
<1>2. /\ txn'.phase = txn.phase /\ txn'.target = txn.target /\ txn'.before = txn.before
      /\ txn'.remove = txn.remove /\ txn'.restart = txn.restart /\ txn'.add = txn.add
      /\ txn'.removed = txn.removed /\ txn'.restarted = txn.restarted \ {l}
      /\ txn'.added = txn.added
  BY <1>0 DEF UndoRestarted, ControlTypes, Transaction
<1>3. txn.before[l] # None /\ l \notin txn.removed
  BY <1>0 DEF UndoRestarted, DoneOK
<1>4. /\ AsBefore(l)'
      /\ used'[l] \in {used[l], txn.before[l].port}
      /\ \A k \in Lanes \ {l} : proc'[k] = proc[k] /\ used'[k] = used[k]
  BY <1>0, <1>2, <1>3, BackAgain DEF UndoRestarted
<1>5. PlanOK' /\ DoneOK'
  BY <1>0, <1>1, <1>2, <1>3, <1>4 DEF PlanOK, DoneOK, Applying, Present
<1>6. PortsKept'
  BY <1>0, <1>2, <1>3, <1>4 DEF PortsKept
<1>7. \A k \in Lanes \ {l} : AsBefore(k)' <=> AsBefore(k)
  BY <1>2, <1>4, SameLane
<1>8. Progress'
  BY <1>0, <1>2, <1>4, <1>7 DEF Progress, Applying
<1>9. QED
  BY <1>5, <1>6, <1>8 DEF TxnOK

\* A removed lane is brought back unless its process was destroyed before.
LEMMA UndoRemovedTxn ==
    ASSUME Inv, NEW l \in Lanes, UndoRemoved(l)
    PROVE  TxnOK'
<1>0. /\ ControlTypes /\ PlanOK /\ DoneOK /\ PortsKept /\ Progress /\ ~Applying /\ Undoing
  BY Held DEF Inv, UndoRemoved, Undoing, Applying
<1>1. /\ txn.remove \subseteq Lanes /\ txn.restart \subseteq Lanes /\ txn.add \subseteq Lanes
      /\ txn.removed \subseteq Lanes
  BY <1>0, TxnShape
<1>2. /\ txn'.phase = txn.phase /\ txn'.target = txn.target /\ txn'.before = txn.before
      /\ txn'.remove = txn.remove /\ txn'.restart = txn.restart /\ txn'.add = txn.add
      /\ txn'.removed = txn.removed \ {l} /\ txn'.restarted = txn.restarted
      /\ txn'.added = txn.added
  BY <1>0 DEF UndoRemoved, ControlTypes, Transaction
<1>3. txn.before[l] # None /\ ~Present(l)
  BY <1>0 DEF UndoRemoved, DoneOK
<1>4. /\ AsBefore(l)'
      /\ used'[l] \in {used[l], txn.before[l].port}
      /\ \A k \in Lanes \ {l} : proc'[k] = proc[k] /\ used'[k] = used[k]
  <2>1. CASE Restored(l) \/ NotRestored(l)
    BY <1>0, <1>2, <1>3, <2>1, BackAgain
  <2>2. CASE Unchanged
    BY <1>3, <2>2, GoneLane DEF Unchanged, lanes, Present
  <2>3. QED
    BY <2>1, <2>2 DEF UndoRemoved
<1>5. PlanOK' /\ DoneOK'
  BY <1>0, <1>1, <1>2, <1>4 DEF PlanOK, DoneOK, Applying, Present
<1>6. PortsKept'
  BY <1>0, <1>2, <1>3, <1>4 DEF PortsKept
<1>7. \A k \in Lanes \ {l} : AsBefore(k)' <=> AsBefore(k)
  BY <1>2, <1>4, SameLane
<1>8. Progress'
  BY <1>0, <1>2, <1>4, <1>7 DEF Progress, Applying
<1>9. QED
  BY <1>5, <1>6, <1>8 DEF TxnOK

\* Every step keeps the facts of the transaction.
LEMMA TxnStep ==
    ASSUME Inv, [Next]_vars
    PROVE  TxnOK'
<1>0. LanesOK /\ ControlTypes /\ LaneTypes
  BY DEF Inv, LanesOK
<1>1. ASSUME LockFree, UNCHANGED txn PROVE TxnOK'
  BY <1>1 DEF TxnOK, LockFree
<1>2. ASSUME UNCHANGED <<txn, proc, used>> PROVE TxnOK'
  BY <1>2, TxnStill DEF Present
<1>3. CASE Read
  <2>1. UNCHANGED <<lanes, txn>>
    BY <1>3 DEF Read, ReadAdd, ReadReconfigure, ReadWake, ReadRemove, ReadSleep, ReadApply, Begin
  <2>2. QED
    BY <1>2, <2>1 DEF lanes
<1>4. CASE DrainExpires \/ \E l \in Lanes : DrainEnds(l)
  BY <1>2, <1>4 DEF DrainExpires, DrainEnds, lanes
<1>5. CASE AddLane \/ RemoveLane \/ SleepLane \/ WakeLane \/ ReconfigureLane
  BY <1>1, <1>5 DEF AddLane, RemoveLane, SleepLane, WakeLane, ReconfigureLane, Ready, End
<1>6. CASE Apply
  <2>1. CASE EndApply
    BY <2>1 DEF EndApply, TxnOK, LockFree, NoTxn
  <2>2. QED
    BY <1>6, <2>1, BeginTxn, StaggerTxn, RemoveTxn, RestartTxn, AddTxn, UndoAddedTxn,
       UndoRestartedTxn, UndoRemovedTxn DEF Apply
<1>7. CASE Serve
  BY <1>2, <1>7 DEF Serve, ReadRequest, Acquire, Answered, Decrement, lanes
<1>8. ASSUME NEW l \in Lanes, ProcessDies(l) \/ StuckStopped(l) PROVE TxnOK'
  <2>1. /\ UNCHANGED <<txn, used>> /\ Present(l)
        /\ proc' = [proc EXCEPT ![l].state = "dead"]
    BY <1>8 DEF ProcessDies, StuckStopped, Dies
  <2>2. proc \in [Lanes -> Process \cup {None}] /\ proc[l] \in Process
    BY <1>0, <2>1 DEF LaneTypes, Present
  <2>3. [proc[l] EXCEPT !.state = "dead"] \in Process
    BY <2>2 DEF Process
  <2>4. /\ proc'[l] \in Process /\ proc'[l].config = proc[l].config /\ proc'[l].port = proc[l].port
        /\ \A k \in Lanes \ {l} : proc'[k] = proc[k]
    BY <2>1, <2>2, <2>3 DEF Process
  <2>5. ASSUME NEW k \in Lanes
        PROVE  /\ Present(k)' <=> Present(k)
               /\ Present(k) => /\ proc'[k].config = proc[k].config
                                /\ proc'[k].port = proc[k].port
    BY <2>1, <2>4, NoneAssumption DEF Present
  <2>6. QED
    BY <2>1, <2>5, TxnStill
<1>9. ASSUME NEW l \in Lanes, Recover(l) \/ RestartStuck(l) PROVE TxnOK'
  BY <1>1, <1>9 DEF Recover, RestartStuck
<1>10. CASE DestroyAll
  BY <1>1, <1>10 DEF DestroyAll
<1>11. CASE UNCHANGED vars \/ \E l \in Lanes : SeeDead(l)
  BY <1>2, <1>11 DEF vars, lanes, SeeDead
<1>12. QED
  BY <1>3, <1>4, <1>5, <1>6, <1>7, <1>8, <1>9, <1>10, <1>11 DEF Next, Work, Watch, Rest

----------------------------------------------------------------------------
(* The invariant and what follows from it *)

LEMMA InitInv ==
    ASSUME Init
    PROVE  Inv
<1>1. LaneTypes
  BY DEF Init, LaneTypes, Request
<1>2. RequestsOK
  <2>1. {r \in Requests : Counted(r)} = {}
    BY DEF Init, Counted
  <2>2. QED
    BY <2>1, FS_EmptySet DEF Init, RequestsOK
<1>3. PortsAreOwn /\ CountIsTrue
  BY DEF Init, PortsAreOwn, CountIsTrue, Present
<1>4. ControlTypes
  <2>1. txn \in Transaction /\ LockFree
    BY DEF Init, NoTxn, Transaction, LockFree
  <2>2. QED
    BY <2>1, LanesAssumption DEF Init, ControlTypes
<1>5. TxnOK
  BY DEF Init, NoTxn, TxnOK, LockFree
<1>6. QED
  BY <1>1, <1>2, <1>3, <1>4, <1>5 DEF Inv, LanesOK

LEMMA InvStep ==
    ASSUME Inv, [Next]_vars
    PROVE  Inv'
BY LanesStep, ControlStep, TxnStep DEF Inv

LEMMA InvHolds == Spec => []Inv
BY InitInv, InvStep, PTL DEF Spec

\* The variables have their types throughout, and there is a transaction only
\* while the bridge awaits apply_lanes.
THEOREM LanesTyped == Spec => []TypeOK
<1>1. Inv => TypeOK
  BY TypeParts DEF Inv, LanesOK
<1>2. QED
  BY <1>1, InvHolds, PTL

\* However lanes are added, restarted, rolled back or die, no two of them ever
\* share a port, and a process runs on the port the allocator has for it.
THEOREM PortsStayOwn == Spec => []PortsAreOwn
<1>1. Inv => PortsAreOwn
  BY DEF Inv, LanesOK
<1>2. QED
  BY <1>1, InvHolds, PTL

\* The number in _active_requests is the number of requests on the lane, as long
\* as no answer to an earlier process was counted off it.
THEOREM CountsStayTrue == Spec => []CountIsTrue
<1>1. Inv => CountIsTrue
  BY DEF Inv, LanesOK
<1>2. QED
  BY <1>1, InvHolds, PTL

----------------------------------------------------------------------------
(* What a step may never do *)

\* Engines fall asleep only where the code looked at the count first.
LEMMA FallsAsleep ==
    ASSUME Inv, [Next]_vars, NEW l \in Lanes, Present(l), PutToSleep(l)
    PROVE  active[l] = 0
<1>0. LanesOK /\ ControlTypes /\ LaneTypes /\ proc[l] \in Process
  BY DEF Inv, LanesOK, LaneTypes, Present
<1>1. /\ proc[l].state = "awake" /\ Present(l)' /\ proc'[l].state = "asleep"
      /\ cmd.kind = "sleep" => ~cmd.force
      /\ proc'[l] # proc[l]
  BY DEF PutToSleep
<1>2. ASSUME NEW k \in Lanes, NEW c \in Configs \cup {None}, Restarted(k, c) PROVE FALSE
  BY <1>0, <1>1, <1>2 DEF Restarted, LaneTypes
<1>3. ASSUME NEW k \in Lanes, NEW c \in Configs \cup {None}, Added(k, c) PROVE FALSE
  BY <1>0, <1>1, <1>3 DEF Added, LaneTypes
<1>4. ASSUME NEW S, Detached(S) PROVE FALSE
  BY <1>1, <1>4 DEF Detached, Present
<1>5. ASSUME NEW k \in Lanes, NotRestarted(k) PROVE FALSE
  BY <1>0, <1>1, <1>4, <1>5 DEF NotRestarted, LaneTypes
<1>6. ASSUME NEW k \in Lanes, Dies(k) PROVE FALSE
  <2>1. CASE k = l
    <3>1. proc'[l] = [proc[l] EXCEPT !.state = "dead"]
      BY <1>0, <1>6, <2>1 DEF Dies, LaneTypes
    <3>2. QED
      BY <1>0, <1>1, <3>1 DEF Process
  <2>2. CASE k # l
    BY <1>0, <1>1, <1>6, <2>2 DEF Dies, LaneTypes
  <2>3. QED
    BY <2>1, <2>2
<1>7. ASSUME NEW k \in Lanes, NotRestored(k) PROVE FALSE
  BY <1>0, <1>1, <1>7 DEF NotRestored, LaneTypes, Present
<1>8. ASSUME NEW k \in Lanes, Restored(k), txn.before[k] \in Process PROVE FALSE
  <2>1. CASE k = l
    <3>1. proc'[l] = [txn.before[k] EXCEPT !.state = "awake"]
      BY <1>0, <1>8, <2>1 DEF Restored, LaneTypes
    <3>2. QED
      BY <1>1, <1>8, <3>1 DEF Process
  <2>2. CASE k # l
    BY <1>0, <1>1, <1>8, <2>2 DEF Restored, LaneTypes
  <2>3. QED
    BY <2>1, <2>2
<1>9. ASSUME UNCHANGED proc PROVE FALSE
  BY <1>1, <1>9
<1>10. CASE Read \/ Serve \/ BeginApply \/ EndApply
            \/ DrainExpires \/ (\E k \in Lanes : DrainEnds(k) \/ SeeDead(k)) \/ UNCHANGED vars
  BY <1>9, <1>10 DEF SeeDead, Read, ReadAdd, ReadReconfigure, ReadWake, ReadRemove, ReadSleep, ReadApply,
     Begin, Serve, ReadRequest, Acquire, Answered, Decrement, BeginApply, EndApply, Unchanged,
     DrainExpires, DrainEnds, lanes, vars
<1>11. CASE AddLane \/ ReconfigureLane
  <2>1. PICK k \in Lanes, c \in Configs : k = cmd.lane /\ c = cmd.config
    BY <1>0, <1>11, CommandShape DEF AddLane, ReconfigureLane, Ready
  <2>2. Added(k, c) \/ NotAdded(k) \/ Restarted(k, c) \/ NotRestarted(k) \/ Unchanged
    BY <1>11, <2>1 DEF AddLane, ReconfigureLane
  <2>3. QED
    BY <1>2, <1>3, <1>5, <1>9, <2>2 DEF NotAdded, Unchanged, lanes
<1>12. CASE RemoveLane \/ DestroyAll
  BY <1>4, <1>9, <1>12 DEF RemoveLane, DestroyAll, Unchanged, lanes
<1>13. CASE WakeLane
  <2>1. PICK k \in Lanes : k = cmd.lane
    BY <1>0, <1>13, CommandShape DEF WakeLane, Ready
  <2>2. proc' = [proc EXCEPT ![k].state = "awake"]
    BY <1>4, <1>9, <1>13, <2>1 DEF WakeLane, Unchanged, lanes
  <2>3. QED
    BY <1>0, <1>1, <2>2 DEF LaneTypes, Process
<1>14. CASE SleepLane
  <2>1. PICK k \in Lanes : k = cmd.lane
    BY <1>0, <1>14, CommandShape DEF SleepLane, Ready
  <2>2. Slept({k}) /\ SleepAllowed(k) /\ cmd.kind = "sleep"
    BY <1>9, <1>14, <2>1 DEF SleepLane, Ready, Unchanged, lanes
  <2>3. k = l
    BY <1>1, <2>2 DEF Slept
  <2>4. QED
    BY <1>1, <2>2, <2>3 DEF SleepAllowed
<1>15. CASE ApplyStagger
  <2>1. PICK S \in SUBSET {k \in Lanes : Sleepable(k)} : Slept(S)
    BY <1>15 DEF ApplyStagger
  <2>2. l \in S
    BY <1>1, <2>1 DEF Slept
  <2>3. QED
    BY <2>2 DEF Sleepable
<1>16. ASSUME NEW k \in Lanes,
              \/ ApplyRemove(k) \/ ApplyRestart(k) \/ ApplyAdd(k)
              \/ UndoAdded(k) \/ UndoRestarted(k) \/ UndoRemoved(k)
       PROVE  FALSE
  <2>1. CASE ApplyRemove(k) \/ UndoAdded(k)
    BY <1>4, <2>1 DEF ApplyRemove, UndoAdded
  <2>2. CASE ApplyRestart(k) \/ ApplyAdd(k)
    <3>1. txn.target[k] \in Configs \cup {None}
      BY <1>0, TxnShape
    <3>2. \/ Restarted(k, txn.target[k]) \/ NotRestarted(k)
          \/ Added(k, txn.target[k]) \/ NotAdded(k)
      BY <2>2 DEF ApplyRestart, ApplyAdd
    <3>3. QED
      BY <1>2, <1>3, <1>5, <1>9, <3>1, <3>2 DEF NotAdded
  <2>3. CASE UndoRestarted(k) \/ UndoRemoved(k)
    <3>1. Restored(k) \/ NotRestored(k) \/ Unchanged
      BY <2>3 DEF UndoRestarted, UndoRemoved
    <3>2. txn.before[k] \in Process
      <4>1. Undoing /\ TxnOK /\ k \in txn.restarted \cup txn.removed
        BY <2>3 DEF UndoRestarted, UndoRemoved, Inv
      <4>2. txn.before[k] # None
        BY <4>1, Held DEF DoneOK
      <4>3. QED
        BY <1>0, <4>2, TxnShape
    <3>3. QED
      BY <1>7, <1>8, <1>9, <3>1, <3>2 DEF Unchanged, lanes
  <2>4. QED
    BY <1>16, <2>1, <2>2, <2>3
<1>17. ASSUME NEW k \in Lanes, ProcessDies(k) \/ StuckStopped(k) PROVE FALSE
  BY <1>6, <1>17 DEF ProcessDies, StuckStopped
<1>18. ASSUME NEW k \in Lanes, Recover(k) \/ RestartStuck(k) PROVE FALSE
  <2>1. stuck[k] \in Configs \cup {None}
    BY <1>0 DEF ControlTypes
  <2>2. \/ Restarted(k, stuck[k])
        \/ \E c \in Configs \cup {None} : Restarted(k, c)
        \/ NotRestarted(k)
        \/ Unchanged
    BY <1>0, <1>18, Recovered DEF RestartStuck
  <2>3. QED
    BY <1>2, <1>5, <1>9, <2>1, <2>2 DEF Unchanged, lanes
<1>19. QED
  BY <1>10, <1>11, <1>12, <1>13, <1>14, <1>15, <1>16, <1>17, <1>18
     DEF Next, Work, Apply, Watch, Rest

\* Only remove_lane itself ends a removal, and it looked at the count.
LEMMA RemovalLooks ==
    ASSUME Inv, [Next]_vars, NEW l \in Lanes, Present(l), TakenAway(l)
    PROVE  active[l] = 0
<1>0. /\ ControlTypes /\ cmd # NoCommand
      /\ cmd.kind = "remove" /\ cmd' = NoCommand /\ ~Present(l)' /\ ~cmd.expired
  BY DEF Inv, NoCommand, TakenAway
<1>1. ~LockFree => cmd.kind = "apply"
  BY <1>0 DEF ControlTypes
<1>2. LockFree /\ ~Applying /\ ~Undoing
  BY <1>0, <1>1 DEF LockFree, Applying, Undoing
<1>3. UNCHANGED cmd \/ RemoveLane \/ DrainExpires \/ (\E k \in Lanes : DrainEnds(k))
  BY <1>0, <1>2 DEF Next, Read, ReadAdd, ReadReconfigure, ReadWake, ReadRemove, ReadSleep,
     ReadApply, Begin, Idle, Work, AddLane, SleepLane, WakeLane, ReconfigureLane, Ready,
     Apply, BeginApply, ApplyStagger, EndApply, Done, ApplyRemove, ApplyRestart, ApplyAdd,
     UndoAdded, UndoRestarted, UndoRemoved, Step, Serve, ReadRequest, Acquire, Answered,
     Decrement, Watch, DestroyAll, ProcessDies, SeeDead, Recover, StuckStopped, RestartStuck, Rest, vars
<1>4. ~DrainExpires /\ \A k \in Lanes : ~DrainEnds(k)
  <2>1. cmd \in [kind : {"remove"}, lane : Lanes \ Static, expired : BOOLEAN]
    BY <1>0, CommandShape
  <2>2. cmd' # [cmd EXCEPT !.expired = TRUE]
    BY <1>0, <2>1 DEF NoCommand
  <2>3. QED
    BY <1>0, <2>2 DEF DrainExpires, DrainEnds, Draining
<1>5. RemoveLane
  BY <1>0, <1>3, <1>4
<1>6. active[cmd.lane] = 0 /\ Detached({cmd.lane})
  BY <1>0, <1>5 DEF RemoveLane, Unchanged, lanes, Present
<1>7. l = cmd.lane
  BY <1>0, <1>6 DEF Detached, Present
<1>8. QED
  BY <1>6, <1>7

\* Only EndApply lets the lock of apply_lanes go.
LEMMA LockLetGo ==
    ASSUME Inv, [Next]_vars, Applying \/ Undoing, LockFree'
    PROVE  EndApply
<1>1. ControlTypes /\ ~LockFree
  BY DEF Inv, LockFree, Applying, Undoing
<1>2. UNCHANGED txn \/ Apply
  BY <1>1 DEF Next, Read, ReadAdd, ReadReconfigure, ReadWake, ReadRemove, ReadSleep,
     ReadApply, Begin, Work, DrainExpires, DrainEnds, AddLane, RemoveLane, SleepLane,
     WakeLane, ReconfigureLane, Ready, Serve, ReadRequest, Acquire, Answered,
     Decrement, Watch, DestroyAll, ProcessDies, SeeDead, Recover, StuckStopped, RestartStuck, Rest, vars
<1>3. Apply
  BY <1>1, <1>2 DEF LockFree
<1>4. ~BeginApply
  BY <1>1 DEF BeginApply, Ready
<1>5. txn \in Transaction
  BY <1>1 DEF ControlTypes
<1>6. ~ApplyStagger
  BY <1>1, <1>5 DEF ApplyStagger, Transaction, LockFree
<1>7. ASSUME NEW l \in Lanes, ApplyRemove(l) PROVE FALSE
  BY <1>5, <1>7 DEF ApplyRemove, Transaction, LockFree
<1>8. ASSUME NEW l \in Lanes, ApplyRestart(l) PROVE FALSE
  BY <1>1, <1>5, <1>8 DEF ApplyRestart, Transaction, LockFree
<1>9. ASSUME NEW l \in Lanes, ApplyAdd(l) PROVE FALSE
  BY <1>1, <1>5, <1>9 DEF ApplyAdd, Transaction, LockFree
<1>10. ASSUME NEW l \in Lanes, UndoAdded(l) \/ UndoRestarted(l) \/ UndoRemoved(l) PROVE FALSE
  BY <1>1, <1>5, <1>10 DEF UndoAdded, UndoRestarted, UndoRemoved, Transaction, LockFree
<1>11. QED
  BY <1>3, <1>4, <1>6, <1>7, <1>8, <1>9, <1>10 DEF Apply

----------------------------------------------------------------------------
(* What apply_lanes owes the requests it found on the lanes it removes *)

\* A request runs on a process.
Hosted == \A r \in Requests : req[r].pc = "running" => Present(req[r].lane)

\* A request that apply_lanes found runs, if it still does, where the drain goes
\* on, unless its lane's count is no longer its own.  Under the lock no drain is
\* left, and lanes are to be removed only under the lock.
Owing ==
    /\ cmd.kind = "apply" => \A r \in cmd.owed :
          /\ req[r].pc \in {"running", "leaving", "done"}
          /\ req[r].pc = "running" => req[r].lane \in cmd.drain \cup late
    /\ ~LockFree => cmd.drain = {}
    /\ LockFree => txn.remove = {}

\* A request that runs after a step ran before it, on the same lane, which is
\* there and as late as it was.
Keeps(r) ==
    req'[r].pc = "running" =>
        /\ req[r].pc = "running" /\ req'[r].lane = req[r].lane
        /\ proc'[req[r].lane] # None
        /\ req[r].lane \in late => req[r].lane \in late'
\* A request that left does not come back.
Leaves(r) == req[r].pc \in {"running", "leaving", "done"} => req'[r].pc \in {"running", "leaving", "done"}
Calm == \A r \in Requests : Keeps(r) /\ Leaves(r)

\* The steps that break streams on the lanes in S, or throw their counts away,
\* and leave the other lanes there, keep the requests calm.
LEMMA CalmSevered ==
    ASSUME LaneTypes, RequestsOK, Hosted, NEW S, req' = Severed(S) \/ req' = Forgotten(S),
           \A k \in Lanes \ S : Present(k) => Present(k)',
           late \ S \subseteq late'
    PROVE  Calm
<1> SUFFICES ASSUME NEW r \in Requests PROVE Keeps(r) /\ Leaves(r)
  BY DEF Calm
<1>0. req[r] \in Request /\ (req[r].pc = "running" => req[r].lane \in Lanes)
  BY DEF LaneTypes, RequestsOK
<1>1. \/ req'[r] = req[r] /\ ~(req[r].pc = "running" /\ req[r].lane \in S)
      \/ req[r].pc \in {"running", "leaving"} /\ req'[r].pc = "leaving"
  BY <1>0 DEF Severed, Forgotten, Counted, Request
<1>2. QED
  BY <1>0, <1>1 DEF Keeps, Leaves, Hosted, Present

LEMMA CalmStill ==
    ASSUME Hosted, UNCHANGED <<proc, late, req>>
    PROVE  Calm
BY DEF Calm, Keeps, Leaves, Hosted, Present

\* The effects that the methods have on lanes do.
LEMMA CalmEffects ==
    ASSUME LaneTypes, RequestsOK, Hosted, NEW l \in Lanes
    PROVE  /\ \A c \in Configs \cup {None} : Added(l, c) => Calm
           /\ NotAdded(l) => Calm
           /\ \A S \in SUBSET Lanes : Detached(S) => Calm
           /\ \A c \in Configs \cup {None} : Restarted(l, c) => Calm
           /\ NotRestarted(l) => Calm
           /\ \A S \in SUBSET Lanes : Slept(S) => Calm
           /\ Restored(l) => Calm
           /\ NotRestored(l) => Calm
           /\ Dies(l) => Calm
           /\ Unchanged => Calm
<1>0. \A f \in [Lanes -> Process \cup {None}] : \A x : \A k \in Lanes \ {l} :
         [f EXCEPT ![l] = x][k] = f[k]
  OBVIOUS
<1>1. proc \in [Lanes -> Process \cup {None}]
  BY DEF LaneTypes
<1>2. ASSUME NEW c \in Configs \cup {None}, Added(l, c) PROVE Calm
  BY <1>0, <1>1, <1>2, CalmSevered DEF Added, Present
<1>3. NotAdded(l) => Calm
  BY CalmStill DEF NotAdded
<1>4. ASSUME NEW S \in SUBSET Lanes, Detached(S) PROVE Calm
  BY <1>1, <1>4, CalmSevered DEF Detached, Present
<1>5. ASSUME NEW c \in Configs \cup {None}, Restarted(l, c) PROVE Calm
  BY <1>0, <1>1, <1>5, CalmSevered DEF Restarted, Present
<1>6. NotRestarted(l) => Calm
  <2>1. {l} \in SUBSET Lanes
    OBVIOUS
  <2>2. CASE Detached({l})
    BY <1>4, <2>1, <2>2
  <2>3. ASSUME NotRestarted(l), ~Detached({l}) PROVE Calm
    BY <1>0, <1>1, <2>3, CalmSevered DEF NotRestarted, Present
  <2>4. QED
    BY <2>2, <2>3
<1>7. ASSUME NEW S \in SUBSET Lanes, Slept(S) PROVE Calm
  BY <1>1, <1>7, CalmSevered DEF Slept, Present
<1>8. Restored(l) => Calm
  BY <1>0, <1>1, CalmSevered DEF Restored, Present
<1>9. NotRestored(l) => Calm
  BY <1>0, <1>1, CalmSevered DEF NotRestored, Present
<1>10. Dies(l) => Calm
  BY <1>0, <1>1, CalmSevered DEF Dies, Present
<1>11. Unchanged => Calm
  BY CalmStill DEF Unchanged, lanes
<1>12. QED
  BY <1>2, <1>3, <1>4, <1>5, <1>6, <1>7, <1>8, <1>9, <1>10, <1>11

\* So does every step that is not one of a request.
LEMMA CalmStep ==
    ASSUME Inv, Hosted, [Next]_vars, ~Serve
    PROVE  Calm
<1>0. LanesOK /\ ControlTypes /\ LaneTypes /\ RequestsOK
  BY DEF Inv, LanesOK
<1>1. CASE \/ Read \/ DrainExpires \/ (\E k \in Lanes : DrainEnds(k) \/ SeeDead(k))
           \/ BeginApply \/ EndApply \/ UNCHANGED vars
  <2>1. UNCHANGED <<proc, late, req>>
    BY <1>1 DEF Read, ReadAdd, ReadReconfigure, ReadWake, ReadRemove, ReadSleep, ReadApply,
       Begin, DrainExpires, DrainEnds, SeeDead, BeginApply, EndApply, Unchanged, lanes, vars
  <2>2. QED
    BY <2>1, CalmStill
<1>2. CASE AddLane \/ ReconfigureLane
  <2>1. PICK l \in Lanes, c \in Configs : l = cmd.lane /\ c = cmd.config
    BY <1>0, <1>2, CommandShape DEF AddLane, ReconfigureLane, Ready
  <2>2. Added(l, c) \/ NotAdded(l) \/ Restarted(l, c) \/ NotRestarted(l) \/ Unchanged
    BY <1>2, <2>1 DEF AddLane, ReconfigureLane
  <2>3. QED
    BY <1>0, <2>2, CalmEffects
<1>3. CASE RemoveLane
  <2>1. PICK l \in Lanes : l = cmd.lane
    BY <1>0, <1>3, CommandShape DEF RemoveLane, Ready
  <2>2. Detached({l}) \/ Unchanged
    BY <1>3, <2>1 DEF RemoveLane
  <2>3. QED
    BY <1>0, <2>2, CalmEffects
<1>4. CASE SleepLane \/ WakeLane
  <2>1. PICK l \in Lanes : l = cmd.lane
    BY <1>0, <1>4, CommandShape DEF SleepLane, WakeLane, Ready
  <2>2. \/ Slept({l}) \/ Detached({l}) \/ Unchanged
        \/ proc' = [proc EXCEPT ![l].state = "awake"] /\ UNCHANGED <<late, req>> /\ Present(l)
    BY <1>4, <2>1 DEF SleepLane, WakeLane
  <2>3. ASSUME proc' = [proc EXCEPT ![l].state = "awake"], UNCHANGED <<late, req>>, Present(l)
        PROVE  Calm
    <3>1. \A k \in Lanes : Present(k) => Present(k)'
      <4>1. proc \in [Lanes -> Process \cup {None}] /\ proc[l] \in Process
        BY <1>0, <2>3 DEF LaneTypes, Present
      <4>2. [proc[l] EXCEPT !.state = "awake"] \in Process
        BY <4>1 DEF Process
      <4>3. QED
        BY <2>3, <4>1, <4>2, NoneAssumption DEF Present
    <3>2. \A r \in Requests : req[r].pc = "running" => req[r].lane \in Lanes
      BY <1>0 DEF RequestsOK
    <3>3. QED
      BY <2>3, <3>1, <3>2 DEF Calm, Keeps, Leaves, Hosted, Present
  <2>4. QED
    BY <1>0, <2>2, <2>3, CalmEffects
<1>5. CASE ApplyStagger
  <2>1. PICK S \in SUBSET {l \in Lanes : Sleepable(l)} : Slept(S)
    BY <1>5 DEF ApplyStagger
  <2>2. S \in SUBSET Lanes /\ \A l \in S : l \in Lanes
    OBVIOUS
  <2>3. CASE S = {}
    <3>1. proc' = proc /\ req' = req /\ late' = late
      BY <1>0, <2>1, <2>3 DEF Slept, Severed, LaneTypes
    <3>2. QED
      BY <3>1, CalmStill
  <2>4. ASSUME NEW l \in S PROVE Calm
    BY <1>0, <2>1, <2>2, CalmEffects
  <2>5. QED
    BY <2>3, <2>4
<1>6. ASSUME NEW l \in Lanes,
             \/ ApplyRemove(l) \/ ApplyRestart(l) \/ ApplyAdd(l)
             \/ UndoAdded(l) \/ UndoRestarted(l) \/ UndoRemoved(l)
      PROVE  Calm
  <2>1. txn.target[l] \in Configs \cup {None}
    BY <1>0, TxnShape
  <2>2. \/ Detached({l}) \/ Restarted(l, txn.target[l]) \/ NotRestarted(l)
        \/ Added(l, txn.target[l]) \/ NotAdded(l) \/ Restored(l) \/ NotRestored(l) \/ Unchanged
    BY <1>6 DEF ApplyRemove, ApplyRestart, ApplyAdd, UndoAdded, UndoRestarted, UndoRemoved
  <2>3. QED
    BY <1>0, <2>1, <2>2, CalmEffects
<1>7. ASSUME NEW l \in Lanes, ProcessDies(l) \/ StuckStopped(l) \/ Recover(l) \/ RestartStuck(l)
      PROVE  Calm
  <2>1. stuck[l] \in Configs \cup {None}
    BY <1>0 DEF ControlTypes
  <2>2. \/ Dies(l) \/ NotRestarted(l) \/ Unchanged
        \/ \E c \in Configs \cup {None} : Restarted(l, c)
    BY <1>0, <1>7, <2>1, Recovered DEF ProcessDies, StuckStopped, RestartStuck
  <2>3. QED
    BY <1>0, <2>2, CalmEffects
<1>8. CASE DestroyAll
  <2>1. PICK S \in SUBSET Lanes : Detached(S) /\ S = {k \in Lanes : Present(k)}
    BY <1>8 DEF DestroyAll
  <2>2. CASE S = {}
    <3>1. proc' = proc /\ req' = req /\ late' = late
      BY <1>0, <2>1, <2>2 DEF Detached, Forgotten, LaneTypes
    <3>2. QED
      BY <3>1, CalmStill
  <2>3. ASSUME NEW l \in S PROVE Calm
    <3>1. l \in Lanes
      OBVIOUS
    <3>2. QED
      BY <1>0, <2>1, <3>1, CalmEffects
  <2>4. QED
    BY <2>2, <2>3
<1>9. QED
  BY <1>1, <1>2, <1>3, <1>4, <1>5, <1>6, <1>7, <1>8 DEF Next, Work, Apply, Watch, Rest

\* A request starts to run on a process, and no other step of it lets one run.
LEMMA ServeStep ==
    ASSUME Inv, Hosted, Serve
    PROVE  /\ \A r \in Requests : Keeps(r) \/ (req[r].pc = "arrived" /\ proc'[req'[r].lane] # None)
           /\ \A r \in Requests : Leaves(r)
           /\ UNCHANGED <<cmd, txn>>
<1>0. LaneTypes /\ RequestsOK
  BY DEF Inv, LanesOK
<1>1. PICK q \in Requests :
        (\E l \in Lanes : ReadRequest(q, l)) \/ Acquire(q) \/ Answered(q) \/ Decrement(q)
  BY DEF Serve
<1>2. UNCHANGED <<cmd, txn, proc>> /\ late \subseteq late'
  BY <1>1 DEF ReadRequest, Acquire, Answered, Decrement, lanes
<1>3. \A r \in Requests \ {q} : req'[r] = req[r]
  BY <1>0, <1>1 DEF ReadRequest, Acquire, Answered, Decrement, LaneTypes
<1>4. \A r \in Requests \ {q} : Keeps(r) /\ Leaves(r)
  BY <1>2, <1>3 DEF Keeps, Leaves, Hosted, Present
<1>5. (Keeps(q) \/ (req[q].pc = "arrived" /\ proc'[req'[q].lane] # None)) /\ Leaves(q)
  <2>1. req \in [Requests -> Request] /\ req[q] \in Request
    BY <1>0 DEF LaneTypes
  <2>2. ASSUME NEW l \in Lanes, ReadRequest(q, l)
        PROVE  Keeps(q) /\ Leaves(q)
    BY <2>1, <2>2 DEF ReadRequest, Keeps, Leaves
  <2>3. CASE Acquire(q)
    <3>1. req[q].pc = "arrived"
      BY <2>3 DEF Acquire
    <3>2. CASE Present(req[q].lane) /\ proc[req[q].lane].state = "awake"
      <4>1. req' = [req EXCEPT ![q].pc = "running"]
        BY <2>3, <3>2 DEF Acquire
      <4>2. req'[q].lane = req[q].lane
        BY <2>1, <4>1 DEF Request
      <4>3. QED
        BY <1>2, <3>1, <3>2, <4>2 DEF Leaves, Present
    <3>3. CASE ~(Present(req[q].lane) /\ proc[req[q].lane].state = "awake")
      <4>1. req' = [req EXCEPT ![q].pc = "done"]
        BY <2>3, <3>3 DEF Acquire
      <4>2. req'[q].pc = "done"
        BY <2>1, <4>1 DEF Request
      <4>3. QED
        BY <3>1, <4>2 DEF Keeps, Leaves
    <3>4. QED
      BY <3>2, <3>3
  <2>4. CASE Answered(q)
    <3>1. req'[q].pc = "leaving"
      BY <2>1, <2>4 DEF Answered, Request
    <3>2. QED
      BY <3>1 DEF Keeps, Leaves
  <2>5. CASE Decrement(q)
    <3>1. req'[q].pc = "done"
      BY <2>1, <2>5 DEF Decrement, Request
    <3>2. QED
      BY <3>1 DEF Keeps, Leaves
  <2>6. QED
    BY <1>1, <2>2, <2>3, <2>4, <2>5
<1>6. QED
  BY <1>2, <1>4, <1>5

LEMMA HostedStep ==
    ASSUME Inv, Hosted, [Next]_vars
    PROVE  Hosted'
<1>1. \A r \in Requests : Keeps(r) \/ proc'[req'[r].lane] # None
  BY CalmStep, ServeStep DEF Calm
<1>2. QED
  BY <1>1 DEF Hosted, Keeps, Present

\* What a step that leaves command and transaction alone leaves owed.
LEMMA OwingKept ==
    ASSUME Inv, Owing, UNCHANGED <<cmd, txn>>,
           \A r \in Requests : Leaves(r) /\ (Keeps(r) \/ req[r].pc = "arrived")
    PROVE  Owing'
<1>1. cmd.kind = "apply" => cmd.owed \subseteq Requests
  BY CommandShape DEF Inv, Applies
<1>2. ASSUME cmd.kind = "apply", NEW r \in cmd.owed
      PROVE  /\ req'[r].pc \in {"running", "leaving", "done"}
             /\ req'[r].pc = "running" => req'[r].lane \in cmd.drain \cup late'
  <2>1. r \in Requests /\ Keeps(r) /\ Leaves(r)
    BY <1>1, <1>2 DEF Owing
  <2>2. QED
    BY <1>2, <2>1 DEF Owing, Keeps, Leaves
<1>3. QED
  BY <1>2 DEF Owing, LockFree

\* A drain ends when nobody runs on the lane, or gives up those who do.
LEMMA OwingDrained ==
    ASSUME Inv, Hosted, Owing, NEW l \in Lanes, DrainEnds(l)
    PROVE  Owing'
<1>0. LanesOK /\ ControlTypes
  BY DEF Inv
<1>1. /\ cmd.kind \in {"sleep", "apply"} /\ UNCHANGED <<lanes, req, txn>> /\ cmd.drain # {}
      /\ cmd' = [cmd EXCEPT !.drain = cmd.drain \ {l}, !.expired = FALSE,
                            !.owed = IF cmd.expired THEN cmd.owed \ Running(l) ELSE cmd.owed]
  BY DEF DrainEnds, Draining
<1>2. LockFree /\ txn'.remove = {} /\ LockFree'
  BY <1>1 DEF Owing, LockFree
<1>3. CASE cmd.kind = "sleep"
  <2>1. cmd'.kind = "sleep"
    BY <1>0, <1>1, <1>3, CommandShape
  <2>2. QED
    BY <1>2, <2>1 DEF Owing
<1>4. CASE cmd.kind = "apply"
  <2>1. /\ cmd \in Applies /\ cmd.owed \subseteq Requests
        /\ cmd'.drain = cmd.drain \ {l}
        /\ cmd'.owed = IF cmd.expired THEN cmd.owed \ Running(l) ELSE cmd.owed
    BY <1>0, <1>1, <1>4, CommandShape DEF Applies
  <2>2. l \in late \/ cmd'.owed \cap Running(l) = {}
    <3>1. CASE cmd.expired
      BY <2>1, <3>1
    <3>2. CASE ~Present(l)
      BY <3>2 DEF Running, Hosted
    <3>3. CASE Present(l) /\ active[l] = 0
      BY <1>0, <3>3, NobodyRuns DEF Unserved
    <3>4. QED
      BY <3>1, <3>2, <3>3 DEF DrainEnds
  <2>3. ASSUME NEW r \in cmd'.owed
        PROVE  /\ req'[r].pc \in {"running", "leaving", "done"}
               /\ req'[r].pc = "running" => req'[r].lane \in cmd'.drain \cup late'
    <3>1. r \in cmd.owed /\ r \in Requests /\ req' = req /\ late' = late
      BY <1>1, <2>1, <2>3 DEF lanes
    <3>2. CASE req[r].pc = "running" /\ req[r].lane = l
      BY <1>4, <2>2, <2>3, <3>1, <3>2 DEF Running
    <3>3. CASE ~(req[r].pc = "running" /\ req[r].lane = l)
      BY <1>4, <2>1, <3>1, <3>3 DEF Owing
    <3>4. QED
      BY <3>2, <3>3
  <2>4. QED
    BY <1>2, <2>3 DEF Owing
<1>5. QED
  BY <1>1, <1>3, <1>4

LEMMA OwingStep ==
    ASSUME Inv, Hosted, Owing, [Next]_vars
    PROVE  Owing'
<1>0. LanesOK /\ ControlTypes
  BY DEF Inv
<1>1. Serve \/ Calm
  BY CalmStep
<1>2. ASSUME UNCHANGED <<cmd, txn>> PROVE Owing'
  BY <1>1, <1>2, ServeStep, OwingKept DEF Calm
<1>3. ASSUME LockFree, UNCHANGED txn, cmd' = NoCommand PROVE Owing'
  BY <1>3 DEF Owing, LockFree, NoCommand
<1>4. ASSUME NEW c, Begin(c), c.kind # "apply" PROVE Owing'
  <2>1. LockFree /\ UNCHANGED txn /\ cmd' = c
    BY <1>0, <1>4 DEF Begin, Idle, ControlTypes, NoCommand
  <2>2. QED
    BY <1>4, <2>1 DEF Owing, LockFree
<1>5. CASE Read
  <2>1. ASSUME NEW l \in Lanes, NEW c \in Configs, ReadAdd(l, c) \/ ReadReconfigure(l, c)
        PROVE  Owing'
    BY <1>4, <2>1 DEF ReadAdd, ReadReconfigure
  <2>2. ASSUME NEW l \in Lanes, NEW force \in BOOLEAN,
               ReadWake(l) \/ ReadRemove(l) \/ ReadSleep(l, force)
        PROVE  Owing'
    BY <1>4, <2>2 DEF ReadWake, ReadRemove, ReadSleep
  <2>3. ASSUME NEW d \in Desired, ReadApply(d)
        PROVE  Owing'
    <3> DEFINE leaving == {l \in Lanes \ Static : Present(l) /\ d[l] = None}
    <3>1. /\ cmd'.owed = UNION {Running(l) : l \in leaving} /\ cmd'.drain = leaving
          /\ cmd = NoCommand /\ UNCHANGED <<lanes, req, txn>>
      BY <2>3 DEF ReadApply, Begin, Idle
    <3>2. LockFree /\ LockFree' /\ txn'.remove = {}
      BY <1>0, <3>1 DEF ControlTypes, NoCommand, LockFree, Owing
    <3>3. ASSUME NEW r \in cmd'.owed
          PROVE  /\ req'[r].pc = "running" /\ req'[r].lane \in cmd'.drain
      BY <3>1, <3>3 DEF Running
    <3>4. QED
      BY <3>2, <3>3 DEF Owing
  <2>4. QED
    BY <1>5, <2>1, <2>2, <2>3 DEF Read
<1>6. CASE DrainExpires
  <2>1. /\ cmd' = [cmd EXCEPT !.expired = TRUE] /\ UNCHANGED <<lanes, req, txn>>
        /\ cmd.kind \in {"remove", "sleep", "apply"}
    BY <1>6 DEF DrainExpires, Draining
  <2>2. cmd'.kind = cmd.kind
    BY <1>0, <2>1, CommandShape DEF Applies
  <2>3. cmd.kind = "apply" => cmd'.owed = cmd.owed /\ cmd'.drain = cmd.drain
    BY <1>0, <2>1, CommandShape DEF Applies
  <2>4. ~LockFree => cmd.kind = "apply"
    BY <1>0 DEF ControlTypes
  <2>5. QED
    BY <2>1, <2>2, <2>3, <2>4 DEF Owing, LockFree, lanes
<1>7. ASSUME NEW l \in Lanes, DrainEnds(l) PROVE Owing'
  BY <1>7, OwingDrained
<1>8. CASE AddLane \/ RemoveLane \/ SleepLane \/ WakeLane \/ ReconfigureLane
  BY <1>3, <1>8 DEF AddLane, RemoveLane, SleepLane, WakeLane, ReconfigureLane, Ready, End
<1>9. CASE Apply
  <2>1. CASE EndApply
    BY <2>1 DEF EndApply, Owing, NoTxn, NoCommand, LockFree
  <2>2. CASE BeginApply
    <3>1. UNCHANGED <<cmd, lanes, req>> /\ cmd.drain = {} /\ ~LockFree' /\ LockFree
      <4>1. UNCHANGED <<cmd, lanes, req>> /\ cmd.drain = {} /\ LockFree
        BY <2>2 DEF BeginApply, Ready, Unchanged
      <4>2. txn'.phase = "doing"
        BY <2>2 DEF BeginApply, NoTxn
      <4>3. QED
        BY <4>1, <4>2 DEF LockFree
    <3>2. QED
      BY <3>1 DEF Owing, lanes
  <2>3. CASE ~EndApply /\ ~BeginApply
    <3>1. UNCHANGED cmd /\ ~LockFree
      BY <1>9, <2>3 DEF Apply, ApplyStagger, ApplyRemove, ApplyRestart, ApplyAdd, UndoAdded,
         UndoRestarted, UndoRemoved, Step, Applying, Undoing, LockFree
    <3>2. ~LockFree'
      BY <2>3, <3>1, LockLetGo DEF Inv, ControlTypes, Transaction, LockFree, Applying, Undoing
    <3>3. UNCHANGED cmd /\ cmd.kind = "apply" /\ cmd.owed \subseteq Requests
      BY <1>0, <3>1, CommandShape DEF ControlTypes, Applies
    <3>4. \A r \in Requests : Leaves(r) /\ (Keeps(r) \/ req[r].pc = "arrived")
      BY <1>1, ServeStep DEF Calm
    <3>5. ASSUME NEW r \in cmd.owed
          PROVE  /\ req'[r].pc \in {"running", "leaving", "done"}
                 /\ req'[r].pc = "running" => req'[r].lane \in cmd.drain \cup late'
      <4>1. r \in Requests /\ Keeps(r) /\ Leaves(r)
        BY <3>3, <3>4, <3>5 DEF Owing
      <4>2. QED
        BY <3>3, <3>5, <4>1 DEF Owing, Keeps, Leaves
    <3>6. QED
      BY <3>1, <3>2, <3>3, <3>5 DEF Owing
  <2>4. QED
    BY <2>1, <2>2, <2>3
<1>10. CASE Serve
  BY <1>2, <1>10, ServeStep
<1>11. CASE Watch \/ Rest \/ UNCHANGED vars
  BY <1>2, <1>11 DEF Watch, DestroyAll, ProcessDies, SeeDead, Recover, StuckStopped,
     RestartStuck, Rest, vars
<1>12. QED
  BY <1>5, <1>6, <1>7, <1>8, <1>9, <1>10, <1>11 DEF Next, Work

LEMMA OwingHolds == Spec => [](Hosted /\ Owing)
<1>1. Init => Hosted /\ Owing
  BY DEF Init, Hosted, Owing, NoCommand, NoTxn, LockFree
<1>2. Inv /\ Hosted /\ Owing /\ [Next]_vars => Hosted' /\ Owing'
  BY HostedStep, OwingStep
<1>3. QED
  BY <1>1, <1>2, InvHolds, PTL DEF Spec

\* A lane is put to sleep or removed by remove_lane only when no request runs on
\* it, unless the server forces the sleep or the drain of the removal ran out of
\* time; and apply_lanes removes none under a request that ran on it when its
\* drain began and was not given up.
THEOREM RequestsSpared == Spec => DrainSparesRequests
<1>1. Inv /\ Hosted /\ Owing /\ [Next]_vars =>
        [ \A l \in Lanes : Present(l) =>
          /\ PutToSleep(l) \/ TakenAway(l) => Unserved(l)
          /\ TakenAwayByApply(l) => l \in late \/ Running(l) \cap cmd.owed = {} ]_vars
  <2>1. SUFFICES ASSUME Inv, Owing, [Next]_vars, NEW l \in Lanes, Present(l)
                 PROVE  /\ PutToSleep(l) \/ TakenAway(l) => Unserved(l)
                        /\ TakenAwayByApply(l) => l \in late \/ Running(l) \cap cmd.owed = {}
    OBVIOUS
  <2>2. active[l] = 0 => Unserved(l)
    BY <2>1, NobodyRuns DEF Inv
  <2>3. PutToSleep(l) => active[l] = 0
    BY <2>1, FallsAsleep
  <2>4. TakenAway(l) => active[l] = 0
    BY <2>1, RemovalLooks
  <2>5. ASSUME l \in txn.remove, l \notin late PROVE Running(l) \cap cmd.owed = {}
    <3>1. ~LockFree /\ cmd.drain = {}
      BY <2>1, <2>5 DEF Owing
    <3>2. cmd.kind = "apply"
      BY <2>1, <3>1 DEF Inv, ControlTypes
    <3>3. QED
      BY <2>1, <2>5, <3>1, <3>2 DEF Owing, Running
  <2>6. QED
    BY <2>2, <2>3, <2>4, <2>5 DEF TakenAwayByApply
<1>2. QED
  BY <1>1, InvHolds, OwingHolds, PTL DEF Spec, DrainSparesRequests

\* When apply_lanes lets the lock go, the worker has the lanes it was asked for,
\* or, after a failure, none that it did not have before.
THEOREM AppliedOrPutBack == Spec => AppliedOrUndone
<1>1. Inv /\ [Next]_vars =>
        [ /\ Applying /\ LockFree' => \A l \in Lanes : AsAsked(l)
          /\ Undoing /\ LockFree' => \A l \in Lanes : AsBefore(l) ]_vars
  <2>1. SUFFICES ASSUME Inv, [Next]_vars, Applying \/ Undoing, LockFree'
                 PROVE  /\ Applying => \A l \in Lanes : AsAsked(l)
                        /\ Undoing => \A l \in Lanes : AsBefore(l)
    OBVIOUS
  <2>2. Done
    BY <2>1, LockLetGo DEF EndApply
  <2>3. Progress /\ ~(Applying /\ Undoing)
    BY <2>1, Held DEF Inv, Applying, Undoing
  <2>4. QED
    BY <2>2, <2>3 DEF Done, Progress
<1>2. QED
  BY <1>1, InvHolds, PTL DEF Spec, AppliedOrUndone
=============================================================================

---------------------------- MODULE LaneManager ----------------------------
(***************************************************************************)
(* The lanes of one Logos worker: LaneManager, the commands that reach it  *)
(* over the bridge, the inference requests that are counted on a lane, and *)
(* the status loop that restarts dead and stuck lanes.                     *)
(*                                                                         *)
(* The bridge awaits a lane command before it reads its next message, so   *)
(* at most one command is at work; requests run as tasks beside it.  Lane  *)
(* state changes under LaneManager's lock.  A method that holds the lock   *)
(* from its check to its end is one action here; apply_lanes, which fails  *)
(* half way and rolls back, takes its steps one at a time while no one     *)
(* else may take the lock.                                                 *)
(***************************************************************************)
EXTENDS Integers, FiniteSets

CONSTANTS
    Lanes,          \* lane ids
    Static,         \* the lanes of the worker's own configuration
    Configs,        \* what a lane can be configured as
    Ports,          \* the port range
    Requests,
    Desired,        \* the lane sets apply_lanes is asked for
    None,
    MaxRestarts,    \* _MAX_CRASH_RESTARTS
    MaxCommands,    \* bound: commands read in a behaviour
    MaxFaults       \* bound: processes that die or get stuck

ASSUME LanesAssumption ==
    /\ Static \subseteq Lanes
    /\ Ports \subseteq Nat
    /\ None \notin Configs \cup Ports
    /\ Desired \subseteq [Lanes -> Configs \cup {None}]
    /\ MaxRestarts \in Nat /\ MaxCommands \in Nat /\ MaxFaults \in Nat

VARIABLES
    proc,       \* _handles: the process of a lane, or None
    used,       \* PortAllocator._used
    active,     \* _active_requests
    late,       \* lanes whose count an answer to an earlier process lowered
    req,        \* the inference requests
    cmd,        \* the command the bridge is awaiting
    txn,        \* what the apply_lanes that holds the lock has done so far
    stuck,      \* the configuration a stuck lane is to be restarted with
    seen,       \* the configuration of a lane that a status list shows dead
    tries,      \* _crash_restart_counts
    commands, faults

lanes == <<proc, used, active, late>>
vars  == <<lanes, req, cmd, txn, stuck, seen, tries, commands, faults>>

-----------------------------------------------------------------------------
(* A handle without a configuration is one whose process was destroyed.     *)
Process == [config : Configs \cup {None}, port : Ports, state : {"awake", "asleep", "dead"}]

ASSUME NoneAssumption == None \notin Process

Present(l) == proc[l] # None
Stranded(l) == Present(l) /\ proc[l].config = None

NoTxn == [phase |-> "none", target |-> [l \in Lanes |-> None],
          before |-> [l \in Lanes |-> None],
          remove |-> {}, restart |-> {}, add |-> {}, staggered |-> FALSE,
          removed |-> {}, restarted |-> {}, added |-> {}]

NoCommand == [kind |-> "none"]

Idle     == cmd = NoCommand
LockFree == txn.phase = "none"

Init ==
    /\ proc = [l \in Lanes |-> None]
    /\ used = [l \in Lanes |-> None]
    /\ active = [l \in Lanes |-> 0]
    /\ late = {}
    /\ req = [r \in Requests |-> [pc |-> "new", lane |-> None, stale |-> FALSE]]
    /\ cmd = NoCommand
    /\ txn = NoTxn
    /\ stuck = [l \in Lanes |-> None]
    /\ seen = [l \in Lanes |-> None]
    /\ tries = [l \in Lanes |-> 0]
    /\ commands = 0 /\ faults = 0

-----------------------------------------------------------------------------
(* Inference requests.  "stale" marks a request whose count was thrown     *)
(* away with the lane it was counted on.                                   *)

Counted(r) == req[r].pc \in {"running", "leaving"}
Running(l) == {r \in Requests : req[r].pc = "running" /\ req[r].lane = l}

(* A process that stops or sleeps breaks the streams that run on it.       *)
Severed(S) ==
    [r \in Requests |->
        IF req[r].pc = "running" /\ req[r].lane \in S
        THEN [req[r] EXCEPT !.pc = "leaving"] ELSE req[r]]

(* The count of a lane is dropped: its requests have yet to leave.         *)
Forgotten(S) ==
    [r \in Requests |->
        IF Counted(r) /\ req[r].lane \in S
        THEN [req[r] EXCEPT !.pc = "leaving", !.stale = TRUE] ELSE req[r]]

ReadRequest(r, l) ==
    /\ Idle
    /\ req[r].pc = "new"
    /\ req' = [req EXCEPT ![r].pc = "arrived", ![r].lane = l]
    /\ UNCHANGED <<lanes, cmd, txn, stuck, seen, tries, commands, faults>>

(* acquire_lane_for_infer: the check and the count under one lock.         *)
Acquire(r) ==
    LET l == req[r].lane
        routable == Present(l) /\ proc[l].state = "awake"
    IN  /\ LockFree
        /\ req[r].pc = "arrived"
        /\ req' = [req EXCEPT ![r].pc = IF routable THEN "running" ELSE "done"]
        /\ active' = IF routable THEN [active EXCEPT ![l] = @ + 1] ELSE active
        /\ UNCHANGED <<proc, used, late, cmd, txn, stuck, seen, tries, commands, faults>>

Answered(r) ==
    /\ req[r].pc = "running"
    /\ req' = [req EXCEPT ![r].pc = "leaving"]
    /\ UNCHANGED <<lanes, cmd, txn, stuck, seen, tries, commands, faults>>

(* Mutants: a count that may go below zero, or is taken off twice.          *)
Lowered_Unclamped(n) == n - 1
Lowered_Twice(n)     == IF n < 2 THEN 0 ELSE n - 2

Lowered(n) == IF n = 0 THEN 0 ELSE n - 1

(* decrement_active_requests, in the finally clause of the bridge.         *)
Decrement(r) ==
    LET l == req[r].lane
    IN  /\ LockFree
        /\ req[r].pc = "leaving"
        /\ req' = [req EXCEPT ![r].pc = "done", ![r].stale = FALSE]
        /\ active' = IF Present(l) THEN [active EXCEPT ![l] = Lowered(@)] ELSE active
        /\ late' = IF Present(l) /\ req[r].stale /\ active[l] > 0
                   THEN late \cup {l} ELSE late
        /\ UNCHANGED <<proc, used, cmd, txn, stuck, seen, tries, commands, faults>>

-----------------------------------------------------------------------------
(* What the methods below have in common.                                  *)

(* Mutant: the ports of other lanes are forgotten.                          *)
FreePorts_All == Ports

FreePorts == Ports \ {used[l] : l \in Lanes}

(* A lane that had a port left over gets it again.                         *)
PortFor(l) ==
    IF used[l] # None THEN used[l]
    ELSE CHOOSE p \in FreePorts : \A q \in FreePorts : p <= q

PortLeft(l) == used[l] # None \/ FreePorts # {}

(* _add_lane_unlocked: spawned, or the port is given back.                 *)
Added(l, c) ==
    /\ PortLeft(l)
    /\ proc' = [proc EXCEPT ![l] = [config |-> c, port |-> PortFor(l), state |-> "awake"]]
    /\ used' = [used EXCEPT ![l] = PortFor(l)]
    /\ active' = [active EXCEPT ![l] = 0]
    /\ late' = late \ {l}
    /\ req' = Forgotten({l})

(* Without a place on a GPU it fails before the port is looked at.         *)
NotAdded(l) ==
    /\ used' \in {used, [used EXCEPT ![l] = None]}
    /\ UNCHANGED <<proc, active, late, req>>

(* _detach_lane_unlocked and _finalize_detached_lane.                      *)
Detached(S) ==
    /\ proc' = [l \in Lanes |-> IF l \in S THEN None ELSE proc[l]]
    /\ used' = [l \in Lanes |-> IF l \in S THEN None ELSE used[l]]
    /\ active' = [l \in Lanes |-> IF l \in S THEN 0 ELSE active[l]]
    /\ late' = late \ S
    /\ req' = Forgotten(S)

(* _restart_lane_unlocked: the count goes on.                               *)
Restarted(l, c) ==
    /\ proc' = [proc EXCEPT ![l] = [config |-> c, port |-> used[l], state |-> "awake"]]
    /\ req' = Severed({l})
    /\ UNCHANGED <<used, active, late>>

(* A spawn that fails ends the lane.  When no GPU has a place for it the    *)
(* old process is gone already, and its handle stays.                       *)
NotRestarted(l) ==
    \/ Detached({l})
    \/ /\ proc' = [proc EXCEPT ![l] = [config |-> None, port |-> @.port, state |-> "dead"]]
       /\ req' = Severed({l})
       /\ UNCHANGED <<used, active, late>>

Slept(S) ==
    /\ proc' = [l \in Lanes |-> IF l \in S THEN [proc[l] EXCEPT !.state = "asleep"]
                                           ELSE proc[l]]
    /\ req' = Severed(S)
    /\ UNCHANGED <<used, active, late>>

Unchanged == UNCHANGED <<lanes, req>>

-----------------------------------------------------------------------------
(* The commands that work on one lane.  Each ends the bridge's wait.       *)

Begin(c) ==
    /\ Idle
    /\ commands < MaxCommands
    /\ commands' = commands + 1
    /\ cmd' = c
    /\ UNCHANGED <<lanes, req, txn, stuck, seen, tries, faults>>

ReadAdd(l, c)          == Begin([kind |-> "add", lane |-> l, config |-> c])
ReadReconfigure(l, c)  == Begin([kind |-> "reconfigure", lane |-> l, config |-> c])
ReadWake(l)            == Begin([kind |-> "wake", lane |-> l])
ReadRemove(l) ==
    /\ l \notin Static
    /\ Begin([kind |-> "remove", lane |-> l, expired |-> FALSE])
ReadSleep(l, force) ==
    Begin([kind |-> "sleep", lane |-> l, force |-> force,
           drain |-> IF force THEN {} ELSE {l}, expired |-> FALSE, owed |-> {}])

(* apply_lanes drains what it is going to remove before it takes the lock.  *)
(* "owed" is a history: the requests it found there and waits for.          *)
ReadApply(d) ==
    LET leaving == {l \in Lanes \ Static : Present(l) /\ d[l] = None}
    IN  Begin([kind |-> "apply", desired |-> d, drain |-> leaving, expired |-> FALSE,
               owed |-> UNION {Running(l) : l \in leaving}])

Draining == cmd.kind \in {"sleep", "apply"} /\ cmd.drain # {}
Ready(kind) ==
    /\ cmd.kind = kind
    /\ LockFree
    /\ kind \in {"sleep", "apply"} => cmd.drain = {}
End == cmd' = NoCommand /\ UNCHANGED <<txn, stuck, seen, tries, commands, faults>>

(* Mutant: only a removal gives up.                                         *)
DrainExpires_OnRemoval ==
    /\ cmd.kind = "remove"
    /\ ~cmd.expired
    /\ cmd' = [cmd EXCEPT !.expired = TRUE]
    /\ UNCHANGED <<lanes, req, txn, stuck, seen, tries, commands, faults>>

(* _drain_lane_inflight gives one lane up after its deadline.              *)
DrainExpires ==
    /\ Draining \/ cmd.kind = "remove"
    /\ ~cmd.expired
    /\ cmd' = [cmd EXCEPT !.expired = TRUE]
    /\ UNCHANGED <<lanes, req, txn, stuck, seen, tries, commands, faults>>

DrainEnds(l) ==
    /\ Draining
    /\ l \in cmd.drain
    /\ ~Present(l) \/ active[l] = 0 \/ cmd.expired
    /\ cmd' = [cmd EXCEPT !.drain = @ \ {l}, !.expired = FALSE,
                          !.owed  = IF cmd.expired THEN @ \ Running(l) ELSE @]
    /\ UNCHANGED <<lanes, req, txn, stuck, seen, tries, commands, faults>>

AddLane ==
    /\ Ready("add")
    /\ \/ ~Present(cmd.lane) /\ (Added(cmd.lane, cmd.config) \/ NotAdded(cmd.lane))
       \/ Present(cmd.lane) /\ Unchanged
    /\ End

(* remove_lane looks at the count and detaches under one lock.             *)
RemoveLane ==
    /\ Ready("remove")
    /\ \/ ~Present(cmd.lane) /\ Unchanged
       \/ active[cmd.lane] = 0 /\ Present(cmd.lane) /\ Detached({cmd.lane})
       \/ cmd.expired /\ Present(cmd.lane) /\ Detached({cmd.lane})
    /\ End

(* Mutant: the count is not looked at again under the lock.                 *)
SleepAllowed_Always(l) == TRUE

(* A request that came during the drain calls the sleep off.               *)
SleepAllowed(l) == cmd.force \/ active[l] = 0

SleepLane ==
    /\ Ready("sleep")
    /\ \/ /\ Present(cmd.lane) /\ proc[cmd.lane].state = "awake"
          /\ SleepAllowed(cmd.lane)
          /\ Slept({cmd.lane})
       \/ Unchanged                 \* called off, or the engine refuses
    /\ End

WakeLane ==
    /\ Ready("wake")
    /\ \/ /\ Present(cmd.lane) /\ proc[cmd.lane].state = "asleep"
          /\ \/ /\ proc' = [proc EXCEPT ![cmd.lane].state = "awake"]
                /\ UNCHANGED <<used, active, late, req>>
             \/ Detached({cmd.lane})                    \* out of GPU memory
       \/ Unchanged
    /\ End

ReconfigureLane ==
    /\ Ready("reconfigure")
    /\ IF Present(cmd.lane) /\ proc[cmd.lane].config \notin {None, cmd.config}
       THEN Restarted(cmd.lane, cmd.config) \/ NotRestarted(cmd.lane)
       ELSE Unchanged
    /\ End

-----------------------------------------------------------------------------
(* apply_lanes: remove, restart, add; on a failure undo what was done.     *)

(* A running static lane the server left out stays as it is.               *)
Target(d) ==
    [l \in Lanes |-> IF l \in Static /\ d[l] = None /\ Present(l)
                     THEN proc[l].config ELSE d[l]]

BeginApply ==
    LET t == Target(cmd.desired)
    IN  /\ Ready("apply")
        /\ txn' = [NoTxn EXCEPT
               !.phase   = "doing",
               !.target  = t,
               !.before  = proc,
               !.remove  = {l \in Lanes \ Static : Present(l) /\ t[l] = None},
               !.restart = {l \in Lanes : Present(l) /\ t[l] # None /\ proc[l].config \notin {None, t[l]}},
               !.add     = {l \in Lanes : ~Present(l) /\ t[l] # None}]
        /\ Unchanged
        /\ UNCHANGED <<cmd, stuck, seen, tries, commands, faults>>

Applying == txn.phase = "doing"
Step     == UNCHANGED <<cmd, stuck, seen, tries, commands, faults>>

ApplyRemove(l) ==
    /\ Applying
    /\ l \in txn.remove
    /\ Detached({l})
    /\ \E phase \in {"doing", "undoing"} :
          txn' = [txn EXCEPT !.phase = phase, !.remove = @ \ {l}, !.removed = @ \cup {l}]
    /\ Step

ApplyRestart(l) ==
    /\ Applying /\ txn.remove = {}
    /\ l \in txn.restart
    /\ \/ /\ Restarted(l, txn.target[l])
          /\ txn' = [txn EXCEPT !.restart = @ \ {l}, !.restarted = @ \cup {l}]
       \/ /\ NotRestarted(l)
          /\ txn' = [txn EXCEPT !.phase = "undoing"]
    /\ Step

(* Idle lanes may be put to sleep while new ones start.                    *)
Sleepable(l) == Present(l) /\ proc[l].state = "awake" /\ active[l] = 0

ApplyStagger ==
    /\ Applying /\ txn.remove = {} /\ txn.restart = {}
    /\ txn.add # {} /\ ~txn.staggered
    /\ \E S \in SUBSET {l \in Lanes : Sleepable(l)} : Slept(S)
    /\ txn' = [txn EXCEPT !.staggered = TRUE]
    /\ Step

ApplyAdd(l) ==
    /\ Applying /\ txn.staggered
    /\ l \in txn.add
    /\ \/ /\ Added(l, txn.target[l])
          /\ txn' = [txn EXCEPT !.add = @ \ {l}, !.added = @ \cup {l}, !.staggered = txn.add = {l}]
       \/ /\ NotAdded(l)
          /\ txn' = [txn EXCEPT !.phase = "undoing"]
    /\ Step

(* _rollback_unlocked: first what was added, then what was restarted, then *)
(* what was removed.                                                       *)
Undoing == txn.phase = "undoing"

UndoAdded(l) ==
    /\ Undoing
    /\ l \in txn.added
    /\ Detached({l})
    /\ txn' = [txn EXCEPT !.added = @ \ {l}]
    /\ Step

(* Mutant: the rollback starts the lane with the configuration that failed. *)
Restored_FromTarget(l) ==
    /\ proc' = [proc EXCEPT ![l] = [txn.before[l] EXCEPT !.config = txn.target[l],
                                                         !.state = "awake"]]
    /\ used' = [used EXCEPT ![l] = txn.before[l].port]
    /\ active' = [active EXCEPT ![l] = 0]
    /\ late' = late \ {l}
    /\ req' = Forgotten({l})

(* The lane comes back as it was, on its port, with nothing counted.       *)
Restored(l) ==
    /\ proc' = [proc EXCEPT ![l] = [txn.before[l] EXCEPT !.state = "awake"]]
    /\ used' = [used EXCEPT ![l] = txn.before[l].port]
    /\ active' = [active EXCEPT ![l] = 0]
    /\ late' = late \ {l}
    /\ req' = Forgotten({l})

NotRestored(l) ==
    /\ proc' = [proc EXCEPT ![l] = None]
    /\ req' = Severed({l})
    /\ UNCHANGED <<used, active, late>>

UndoRestarted(l) ==
    /\ Undoing /\ txn.added = {}
    /\ l \in txn.restarted
    /\ Restored(l) \/ NotRestored(l)
    /\ txn' = [txn EXCEPT !.restarted = @ \ {l}]
    /\ Step

UndoRemoved(l) ==
    /\ Undoing /\ txn.added = {} /\ txn.restarted = {}
    /\ l \in txn.removed
    /\ IF txn.before[l].config # None THEN Restored(l) \/ NotRestored(l) ELSE Unchanged
    /\ txn' = [txn EXCEPT !.removed = @ \ {l}]
    /\ Step

Done ==
    \/ Applying /\ txn.remove = {} /\ txn.restart = {} /\ txn.add = {}
    \/ Undoing /\ txn.added = {} /\ txn.restarted = {} /\ txn.removed = {}

EndApply ==
    /\ Done
    /\ txn' = NoTxn
    /\ cmd' = NoCommand
    /\ Unchanged
    /\ UNCHANGED <<stuck, seen, tries, commands, faults>>

-----------------------------------------------------------------------------
(* The status loop, and what may go wrong with a process.                  *)

Dies(l) ==
    /\ proc' = [proc EXCEPT ![l].state = "dead"]
    /\ req' = Severed({l})
    /\ UNCHANGED <<used, active, late>>

ProcessDies(l) ==
    /\ faults < MaxFaults
    /\ faults' = faults + 1
    /\ Present(l) /\ proc[l].state # "dead"
    /\ Dies(l)
    /\ UNCHANGED <<cmd, txn, stuck, seen, tries, commands>>

(* _recover_dead_lanes counts an attempt for a lane that is dead in a list *)
(* of statuses read before ...                                             *)
SeeDead(l) ==
    /\ Present(l) /\ ~Stranded(l) /\ proc[l].state = "dead"
    /\ seen[l] = None
    /\ tries[l] < MaxRestarts
    /\ seen'  = [seen EXCEPT ![l] = proc[l].config]
    /\ tries' = [tries EXCEPT ![l] = @ + 1]
    /\ UNCHANGED <<lanes, req, cmd, txn, stuck, commands, faults>>

(* ... and looks at the lane again under the lock, not at its             *)
(* configuration: a handle without one gets that of the list.              *)
Recover(l) ==
    /\ LockFree
    /\ seen[l] # None
    /\ seen' = [seen EXCEPT ![l] = None]
    /\ IF Present(l) /\ proc[l].state = "dead"
       THEN \/ /\ Restarted(l, IF Stranded(l) THEN seen[l] ELSE proc[l].config)
               /\ tries' = [tries EXCEPT ![l] = 0]
            \/ NotRestarted(l) /\ UNCHANGED tries
       ELSE Unchanged /\ UNCHANGED tries
    /\ UNCHANGED <<cmd, txn, stuck, commands, faults>>

(* _check_stuck_lanes stops the process without the lock ...               *)
StuckStopped(l) ==
    /\ faults < MaxFaults
    /\ faults' = faults + 1
    /\ Present(l) /\ proc[l].state = "awake"
    /\ stuck[l] = None
    /\ stuck' = [stuck EXCEPT ![l] = proc[l].config]
    /\ Dies(l)
    /\ UNCHANGED <<cmd, txn, seen, tries, commands>>

(* ... and restarts the lane with the configuration it read before.        *)
RestartStuck(l) ==
    /\ LockFree
    /\ stuck[l] # None
    /\ stuck' = [stuck EXCEPT ![l] = None]
    /\ IF Present(l) THEN Restarted(l, stuck[l]) \/ NotRestarted(l) ELSE Unchanged
    /\ UNCHANGED <<cmd, txn, seen, tries, commands, faults>>

(* A calibration session clears the worker through destroy_all.            *)
DestroyAll ==
    /\ LockFree
    /\ faults < MaxFaults
    /\ faults' = faults + 1
    /\ Detached({l \in Lanes : Present(l)})
    /\ UNCHANGED <<cmd, txn, stuck, seen, tries, commands>>

-----------------------------------------------------------------------------
Apply ==
    \/ BeginApply \/ ApplyStagger \/ EndApply
    \/ \E l \in Lanes :
          \/ ApplyRemove(l) \/ ApplyRestart(l) \/ ApplyAdd(l)
          \/ UndoAdded(l) \/ UndoRestarted(l) \/ UndoRemoved(l)

Read ==
    \/ \E l \in Lanes, c \in Configs : ReadAdd(l, c) \/ ReadReconfigure(l, c)
    \/ \E l \in Lanes : ReadWake(l) \/ ReadRemove(l)
    \/ \E l \in Lanes, force \in BOOLEAN : ReadSleep(l, force)
    \/ \E d \in Desired : ReadApply(d)

Work ==
    \/ DrainExpires \/ (\E l \in Lanes : DrainEnds(l))
    \/ AddLane \/ RemoveLane \/ SleepLane \/ WakeLane \/ ReconfigureLane
    \/ Apply

Serve == \E r \in Requests :
    (\E l \in Lanes : ReadRequest(r, l)) \/ Acquire(r) \/ Answered(r) \/ Decrement(r)

Watch ==
    \/ DestroyAll
    \/ \E l \in Lanes : ProcessDies(l) \/ SeeDead(l) \/ Recover(l)
                     \/ StuckStopped(l) \/ RestartStuck(l)

(* The worker has nothing left to do within the bounds.                    *)
Rest ==
    /\ Idle /\ commands = MaxCommands
    /\ UNCHANGED vars

Next == Read \/ Work \/ Serve \/ Watch \/ Rest

(* The bridge awaits the command: its coroutine, the drain's clock and the *)
(* spawns go on.  Nothing is assumed of requests and of the status loop.   *)
Fairness == WF_vars(Work)

Spec == Init /\ [][Next]_vars /\ Fairness

-----------------------------------------------------------------------------
(* Properties *)

Singles ==
    [kind : {"add", "reconfigure"}, lane : Lanes, config : Configs]
      \cup [kind : {"wake"}, lane : Lanes]
      \cup [kind : {"remove"}, lane : Lanes \ Static, expired : BOOLEAN]
      \cup [kind : {"sleep"}, lane : Lanes, force : BOOLEAN,
            drain : SUBSET Lanes, expired : BOOLEAN, owed : {{}}]
Applies == [kind : {"apply"}, desired : Desired, drain : SUBSET (Lanes \ Static),
            expired : BOOLEAN, owed : SUBSET Requests]

(* The variables have their types, and apply_lanes has a transaction only   *)
(* while its command is awaited.                                            *)
TypeOK ==
    /\ proc \in [Lanes -> Process \cup {None}]
    /\ used \in [Lanes -> Ports \cup {None}]
    /\ active \in [Lanes -> Nat]
    /\ late \subseteq Lanes
    /\ req \in [Requests -> [pc : {"new", "arrived", "running", "leaving", "done"},
                             lane : Lanes \cup {None}, stale : BOOLEAN]]
    /\ cmd \in Singles \cup Applies \cup {NoCommand}
    /\ txn \in [phase : {"none", "doing", "undoing"},
                target : [Lanes -> Configs \cup {None}],
                before : [Lanes -> Process \cup {None}],
                remove : SUBSET Lanes, restart : SUBSET Lanes, add : SUBSET Lanes,
                staggered : BOOLEAN,
                removed : SUBSET Lanes, restarted : SUBSET Lanes, added : SUBSET Lanes]
    /\ ~LockFree => cmd.kind = "apply"
    /\ stuck \in [Lanes -> Configs \cup {None}]
    /\ seen \in [Lanes -> Configs \cup {None}]
    /\ tries \in [Lanes -> 0 .. MaxRestarts]
    /\ commands \in 0 .. MaxCommands /\ faults \in 0 .. MaxFaults

(* _active_requests is the number of requests counted on the lane's process *)
(* or on one it was restarted from: whoever leaves is counted off once,     *)
(* whatever restarts, failed starts and rollbacks came between, unless one  *)
(* that a removed process left behind was counted off its successor.        *)
CountIsTrue ==
    \A l \in Lanes : Present(l) /\ l \notin late =>
        active[l] = Cardinality({r \in Requests :
                        Counted(r) /\ req[r].lane = l /\ ~req[r].stale})

(* No two lanes share a port, and a process runs on the port the allocator  *)
(* has for it: a lane a rollback brings back on its old port included.      *)
PortsAreOwn ==
    \A l \in Lanes :
        /\ Present(l) => proc[l].port = used[l]
        /\ \A k \in Lanes \ {l} : used[l] # None => used[l] # used[k]

(* A lane that is put to sleep, by a command or to make room for a new one, *)
(* has no request running on it, unless the server forces the sleep; nor    *)
(* has one that remove_lane takes away, unless its drain ran out of time.   *)
(* apply_lanes does not look again after its drains: what it takes away may *)
(* cut requests counted since, but never one that was running when it began *)
(* to drain, unless the drain of that lane ran out.                         *)
Unserved(l) == Running(l) = {} \/ l \in late
PutToSleep(l) ==
    /\ proc[l].state = "awake" /\ Present(l)' /\ proc'[l].state = "asleep"
    /\ cmd.kind = "sleep" => ~cmd.force
TakenAway(l) ==
    /\ cmd.kind = "remove" /\ cmd' = NoCommand /\ ~Present(l)'
    /\ ~cmd.expired
TakenAwayByApply(l) == l \in txn.remove /\ ~Present(l)'
DrainSparesRequests ==
    [][ \A l \in Lanes : Present(l) =>
          /\ PutToSleep(l) \/ TakenAway(l) => Unserved(l)
          /\ TakenAwayByApply(l) => l \in late \/ Running(l) \cap cmd.owed = {} ]_vars

(* When apply_lanes lets the lock go, the worker has exactly the lanes it   *)
(* was asked for, or, after a failure, none it did not have before: a lane  *)
(* is as it was, with its port and configuration, or gone because its       *)
(* process would not start again.  A handle whose process a failed restart  *)
(* destroyed stays through both.                                            *)
AsAsked(l) ==
    \/ Stranded(l)
    \/ IF Present(l) THEN proc[l].config = txn.target[l] ELSE txn.target[l] = None
AsBefore(l) ==
    \/ ~Present(l) \/ Stranded(l)
    \/ /\ txn.before[l] # None
       /\ proc[l].config = txn.before[l].config
       /\ proc[l].port = txn.before[l].port
AppliedOrUndone ==
    [][ /\ Applying /\ LockFree' => \A l \in Lanes : AsAsked(l)
        /\ Undoing /\ LockFree' => \A l \in Lanes : AsBefore(l) ]_vars

(* A command ends whatever it waits for: requests that never leave, failed  *)
(* starts, a rollback.                                                      *)
BridgeReadsOn == []<>Idle

(* "Lane is now dead - remove it from handles and release all bookkeeping   *)
(* so the dead lane is not reported as active" (lane_manager.py:1986): a    *)
(* restart that fails leaves no handle without a process.                   *)
FailedRestartEndsLane == \A l \in Lanes : ~Stranded(l)
=============================================================================

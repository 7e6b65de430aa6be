--------------------------- MODULE ChatRunProofs ---------------------------
(* Safety of a chat run for any number of events, retries and faults. *)
EXTENDS ChatRun, SequenceTheorems, TLAPS

----------------------------------------------------------------------------
(* Queues *)

\* What Append adds to the elements of a queue.
LEMMA AppendSet ==
    ASSUME NEW S, NEW s \in Seq(S), NEW e \in S
    PROVE  ToSet(Append(s, e)) = ToSet(s) \cup {e}
<1>1. /\ DOMAIN s = 1 .. Len(s) /\ Len(s) \in Nat
      /\ DOMAIN Append(s, e) = 1 .. (Len(s) + 1)
  BY AppendProperties, LenProperties
<1>2. /\ \A i \in 1 .. Len(s) : Append(s, e)[i] = s[i]
      /\ Append(s, e)[Len(s) + 1] = e
  BY AppendProperties
<1>3. QED
  BY <1>1, <1>2 DEF ToSet

\* What Tail leaves of them.
LEMMA TailSet ==
    ASSUME NEW S, NEW s \in Seq(S), s # <<>>
    PROVE  Tail(s) \in Seq(S) /\ ToSet(Tail(s)) \subseteq ToSet(s)
<1>1. /\ Tail(s) \in Seq(S) /\ Len(Tail(s)) = Len(s) - 1
      /\ \A i \in 1 .. Len(Tail(s)) : Tail(s)[i] = s[i + 1]
  BY HeadTailProperties
<1>2. /\ DOMAIN s = 1 .. Len(s) /\ Len(s) \in Nat
      /\ DOMAIN Tail(s) = 1 .. Len(Tail(s))
  BY <1>1, LenProperties
<1>3. QED
  BY <1>1, <1>2 DEF ToSet

\* A queue without elements is empty.
LEMMA EmptySet ==
    ASSUME NEW S, NEW s \in Seq(S)
    PROVE  /\ ToSet(s) \subseteq S
           /\ ToSet(s) = {} => s = <<>>
           /\ s = <<>> => ToSet(s) = {}
<1>1. DOMAIN s = 1 .. Len(s) /\ Len(s) \in Nat
  BY LenProperties
<1>2. ToSet(s) \subseteq S
  BY <1>1, ElementOfSeq DEF ToSet
<1>3. ASSUME ToSet(s) = {} PROVE s = <<>>
  <2>1. \A i \in 1 .. Len(s) : s[i] \in ToSet(s)
    BY <1>1 DEF ToSet
  <2>2. Len(s) = 0
    BY <1>1, <1>3, <2>1
  <2>3. QED
    BY <2>2, EmptySeq
<1>4. ASSUME s = <<>> PROVE ToSet(s) = {}
  BY <1>4 DEF ToSet
<1>5. QED
  BY <1>2, <1>3, <1>4

----------------------------------------------------------------------------
(* Synchronous calls *)

Ops == {"update", "intermediate", "result", "fields"}

\* A call is under way, or none.
LEMMA InCall ==
    ASSUME TypeOK, call.phase \in {"drain", "post"}
    PROVE  call \in Call /\ call # NoCall
BY DEF TypeOK, NoCall

\* A call begins, unless the run has ended.
LEMMA Begins ==
    ASSUME TypeOK, NEW op \in Ops, NEW state \in States, NEW withTitle \in BOOLEAN,
           Calls(op, state, withTitle)
    PROVE  /\ call = NoCall
           /\ UNCHANGED <<undelivered, queue, futures, emit, sender, artemis, late, deltas, faults>>
           /\ \/ terminal /\ UNCHANGED <<call, terminal>>
              \/ /\ ~terminal
                 /\ call' \in Call
                 /\ call'.phase = "drain" /\ call'.op = op /\ call'.state = state
                 /\ call'.waiting = {} /\ call'.before = ToSet(queue)
                 /\ call'.carried => call'.answer
                 /\ op = "result" => call'.answer
                 /\ op = "fields" /\ undelivered => call'.answer
                 /\ terminal' \in BOOLEAN
                 /\ terminal' <=> state \in Terminals
<1>1. /\ call = NoCall
      /\ UNCHANGED <<undelivered, queue, futures, emit, sender, artemis, late, deltas, faults>>
      /\ Begin(op, state, withTitle)
  BY DEF Calls, Ended
<1>2. CASE terminal
  BY <1>1, <1>2 DEF Begin
<1>3. CASE ~terminal
  <2> DEFINE chat     == op \in {"result", "fields"}
             answer   == IF chat THEN Merged(op = "result") ELSE FALSE
             carried  == chat /\ undelivered
             left     == IF chat THEN Tries(op, state) ELSE 1
  <2>1. /\ call' = [phase |-> "drain", op |-> op, state |-> state, answer |-> answer,
                    carried |-> carried, title |-> withTitle, left |-> left,
                    waiting |-> {}, before |-> ToSet(queue)]
        /\ terminal' = Marked(state)
    BY <1>1, <1>3 DEF Begin
  <2>2. ToSet(queue) \subseteq Emits
    BY EmptySet DEF TypeOK
  <2>3. left \in 1 .. Attempts
    BY ChatRunAssumption DEF Tries
  <2>4. /\ answer \in BOOLEAN /\ carried \in BOOLEAN
        /\ carried => answer
        /\ op = "result" => answer
        /\ op = "fields" /\ undelivered => answer
    BY DEF Merged, TypeOK
  <2> HIDE DEF answer, carried, left
  <2>5. call' \in Call
    BY <2>1, <2>2, <2>3, <2>4 DEF Call, Ops
  <2>6. /\ call'.phase = "drain" /\ call'.op = op /\ call'.state = state
        /\ call'.waiting = {} /\ call'.before = ToSet(queue)
        /\ call'.answer = answer /\ call'.carried = carried
    BY <2>1, Zenon
  <2>7. terminal' \in BOOLEAN /\ (terminal' <=> state \in Terminals)
    BY <1>3, <2>1 DEF Marked, TypeOK
  <2>8. QED
    BY <1>1, <1>3, <2>4, <2>5, <2>6, <2>7
<1>4. QED
  BY <1>2, <1>3

Stages == Drafting \cup {"start", "prepare", "unrefined", "hook", "answered", "titled",
                        "trailing", "broken", "end"}

Early    == {"start", "prepare", "unrefined"}
Trailing == {"trailing", "end"}

\* The steps of the pipeline that make a call, and what they do besides.
Synchronous ==
    \/ Start \/ Intermediate \/ SendResult \/ HookFails
    \/ SendSuggestions \/ SuggestionsFail \/ Finish \/ RunFailed

LEMMA SynchronousCalls ==
    ASSUME TypeOK, Synchronous
    PROVE  \E op \in Ops, state \in States, withTitle \in BOOLEAN :
               /\ Calls(op, state, withTitle)
               /\ stage' \in Stages
               /\ answered' \in BOOLEAN /\ title' \in {"none", "deferred", "attached"}
               /\ sent' \in 0 .. MaxIntermediate
               /\ gaveUp' = gaveUp
               /\ state \in Terminals => stage' \in Trailing /\ op = "fields"
               /\ UNCHANGED exercise
               /\ stage' = stage \/ stage' \notin Drafting \cup {"unrefined"}
               /\ stage \in Drafting <=> stage' \in Drafting
               /\ stage' \in Early => stage \in Early
               /\ stage \in Trailing => stage' \in Trailing
               /\ answered' = answered \/ (op = "result" /\ stage = "hook")
<1> USE DEF Ops, States, Terminals, Stages, Drafting, Early, Trailing
<1>1. CASE Start
  <2>1. Calls("update", "RUNNING", FALSE)
    BY <1>1 DEF Start
  <2>2. QED
    BY <1>1, <2>1 DEF Start, Goes, TypeOK
<1>2. CASE Intermediate
  <2>1. Calls("intermediate", "RUNNING", FALSE)
    BY <1>2 DEF Intermediate
  <2>2. sent' \in 0 .. MaxIntermediate
    <3>1. sent \in 0 .. MaxIntermediate /\ MaxIntermediate \in Nat
      BY ChatRunAssumption DEF TypeOK
    <3>2. QED
      BY <1>2, <3>1 DEF Intermediate
  <2>3. QED
    BY <1>2, <2>1, <2>2 DEF Intermediate, TypeOK
<1>3. CASE SendResult
  <2>1. Calls("result", "RUNNING", FALSE)
    BY <1>3 DEF SendResult
  <2>2. QED
    BY <1>3, <2>1 DEF SendResult, TypeOK
<1>4. CASE HookFails
  <2>1. Calls("fields", "FAILED", FALSE)
    BY <1>4 DEF HookFails
  <2>2. QED
    BY <1>4, <2>1 DEF HookFails, Goes, TypeOK
<1>5. CASE SendSuggestions \/ SuggestionsFail
  <2>1. PICK state \in {"RUNNING", "FAILED"} : Suggest(state)
    BY <1>5 DEF SendSuggestions, SuggestionsFail
  <2>2. Calls("fields", state, title = "deferred")
    BY <2>1 DEF Suggest
  <2>3. title' \in {"none", "deferred", "attached"}
    BY <2>1 DEF Suggest, Attached, TypeOK
  <2>4. (title = "deferred") \in BOOLEAN
    OBVIOUS
  <2>5. QED
    BY <2>1, <2>2, <2>3, <2>4 DEF Suggest, TypeOK
<1>6. CASE Finish
  <2>1. Calls("fields", "FINISHED", title = "deferred")
    BY <1>6 DEF Finish
  <2>2. (title = "deferred") \in BOOLEAN
    OBVIOUS
  <2>3. QED
    BY <1>6, <2>1, <2>2 DEF Finish, Goes, TypeOK
<1>7. CASE RunFailed
  <2>1. Calls("fields", "FAILED", FALSE)
    BY <1>7 DEF RunFailed
  <2>2. QED
    BY <1>7, <2>1 DEF RunFailed, Goes, TypeOK
<1>8. QED
  BY <1>1, <1>2, <1>3, <1>4, <1>5, <1>6, <1>7 DEF Synchronous

----------------------------------------------------------------------------
(* Type correctness *)

SenderRecord ==
    [state : {"off", "waiting", "posting", "gone"}, stopped : BOOLEAN,
     text : Nat, epoch : Nat, lastText : Nat, lastEpoch : Nat \cup {-1},
     out : Nat, outEpoch : Nat, fails : 0 .. DraftFailures]

ArtemisRecord == [last : States \cup {"none"}, end : Terminals \cup {"none"},
                  answer : BOOLEAN, title : BOOLEAN, draft : Nat]

RestOK ==
    /\ stage \in Stages /\ exercise \in BOOLEAN /\ late \in Nat
    /\ call \in Call \cup {NoCall}
    /\ terminal \in BOOLEAN /\ undelivered \in BOOLEAN
    /\ queue \in Seq(Emits)
    /\ futures \subseteq Emits
    /\ emit \in [Emits -> {"idle", "copied", "done"}]
    /\ answered \in BOOLEAN /\ title \in {"none", "deferred", "attached"}
    /\ gaveUp \in BOOLEAN
    /\ sent \in 0 .. MaxIntermediate /\ deltas \in 0 .. MaxDeltas /\ faults \in 0 .. MaxFaults

LEMMA TypeParts ==
    /\ TypeOK <=> RestOK /\ sender \in SenderRecord /\ artemis \in ArtemisRecord
    /\ TypeOK' <=> RestOK' /\ sender' \in SenderRecord /\ artemis' \in ArtemisRecord
BY DEF TypeOK, RestOK, SenderRecord, ArtemisRecord, Stages

\* A sender that may still fail has not failed too often.
FailsBelow ==
    sender.state = "posting" \/ ~sender.stopped => sender.fails < DraftFailures

\* What a POST leaves with Artemis.
LEMMA ReceivedType ==
    ASSUME TypeOK, NEW state \in States, NEW answer \in BOOLEAN, NEW withTitle \in BOOLEAN
    PROVE  /\ Received(state, answer, withTitle) \in ArtemisRecord
           /\ Received(state, answer, withTitle).last = state
           /\ Received(state, answer, withTitle).end =
                  (IF state \in Terminals THEN state ELSE artemis.end)
           /\ Received(state, answer, withTitle).answer <=> artemis.answer \/ answer
           /\ Received(state, answer, withTitle).title <=> artemis.title \/ withTitle
           /\ Received(state, answer, withTitle).draft = artemis.draft
<1>1. artemis \in ArtemisRecord
  BY DEF TypeOK, ArtemisRecord
<1> DEFINE both == artemis.answer \/ answer
           head == artemis.title \/ withTitle
           end  == IF state \in Terminals THEN state ELSE artemis.end
<1>2. both \in BOOLEAN /\ head \in BOOLEAN /\ end \in Terminals \cup {"none"}
  BY <1>1 DEF ArtemisRecord
<1>3. Received(state, answer, withTitle) =
          [artemis EXCEPT !.last = state, !.answer = both, !.title = head, !.end = end]
  BY DEF Received
<1> HIDE DEF both, head, end
<1>4. /\ Received(state, answer, withTitle) \in ArtemisRecord
      /\ Received(state, answer, withTitle).last = state
      /\ Received(state, answer, withTitle).end = end
      /\ Received(state, answer, withTitle).answer = both
      /\ Received(state, answer, withTitle).title = head
      /\ Received(state, answer, withTitle).draft = artemis.draft
  BY <1>1, <1>2, <1>3 DEF ArtemisRecord
<1>5. QED
  BY <1>4 DEF both, head, end

\* The failures counted stay below the bound.
LEMMA CountsType ==
    ASSUME TypeOK, NEW o \in Outcomes, Counts(o)
    PROVE  faults' \in 0 .. MaxFaults
BY ChatRunAssumption DEF TypeOK, Counts, Outcomes

\* The sender, by what its steps do to it.
LEMMA SenderType ==
    ASSUME TypeOK, FailsBelow, Drafts
    PROVE  /\ sender' \in SenderRecord /\ FailsBelow'
           /\ deltas' \in 0 .. MaxDeltas /\ faults' \in 0 .. MaxFaults
           /\ artemis' \in ArtemisRecord
           /\ artemis'.end = artemis.end /\ artemis'.answer = artemis.answer
           /\ artemis'.title = artemis.title
           /\ sender.stopped => sender'.stopped
           /\ sender'.state = "off" <=> sender.state = "off"
           /\ \/ sender'.state = sender.state
              \/ sender.state = "waiting" /\ ~sender.stopped /\ sender'.state = "posting"
              \/ sender.state = "posting" /\ sender'.state = "waiting"
              \/ sender'.state = "gone"
           /\ \/ UNCHANGED <<artemis, late>>
              \/ /\ sender.state = "posting" /\ sender'.state = "waiting"
                 /\ artemis' = [artemis EXCEPT !.last = "RUNNING", !.draft = sender.out]
                 /\ late' = IF stage \notin Drafting THEN late + 1 ELSE late
           /\ UNCHANGED <<pipeline, callback, emit, gaveUp>>
<1>0. /\ sender \in SenderRecord /\ artemis \in ArtemisRecord
      /\ DraftFailures \in Nat \ {0} /\ MaxDeltas \in Nat
  BY ChatRunAssumption DEF TypeOK, SenderRecord, ArtemisRecord
<1>a. sender \in SenderRecord /\ DraftFailures \in Nat \ {0}
  BY <1>0
<1>1. ASSUME NEW reset \in BOOLEAN, OnDelta(reset)
      PROVE  /\ sender' \in SenderRecord /\ FailsBelow' /\ sender'.state = sender.state
             /\ sender'.stopped = sender.stopped
             /\ deltas' \in 0 .. MaxDeltas
             /\ UNCHANGED <<pipeline, callback, emit, gaveUp, artemis, late, faults>>
  <2>1. /\ deltas' = deltas + 1 /\ deltas < MaxDeltas /\ deltas \in 0 .. MaxDeltas
        /\ sender' = IF reset THEN [sender EXCEPT !.text = 0, !.epoch = @ + 1]
                     ELSE [sender EXCEPT !.text = deltas + 1]
        /\ UNCHANGED <<pipeline, callback, emit, gaveUp, artemis, late, faults>>
    BY <1>1 DEF OnDelta, TypeOK
  <2>2. /\ [sender EXCEPT !.text = 0, !.epoch = @ + 1] \in SenderRecord
        /\ [sender EXCEPT !.text = deltas + 1] \in SenderRecord
    <3>1. deltas + 1 \in Nat /\ sender.epoch + 1 \in Nat /\ sender.epoch \in Nat
      BY <1>0, <2>1 DEF SenderRecord
    <3>2. [sender EXCEPT !.text = 0, !.epoch = sender.epoch + 1] \in SenderRecord
      BY <1>a, <3>1 DEF SenderRecord
    <3>3. [sender EXCEPT !.text = deltas + 1] \in SenderRecord
      BY <1>a, <3>1 DEF SenderRecord
    <3>4. QED
      BY <3>2, <3>3
  <2>3. /\ sender' \in SenderRecord /\ sender'.state = sender.state
        /\ sender'.fails = sender.fails /\ sender'.stopped = sender.stopped
    BY <1>a, <2>1, <2>2 DEF SenderRecord
  <2>4. FailsBelow'
    BY <2>3 DEF FailsBelow
  <2>5. deltas' \in 0 .. MaxDeltas
    BY <1>0, <2>1
  <2>6. QED
    BY <2>1, <2>3, <2>4, <2>5
<1>2. CASE NextPayload
  <2>1. /\ sender' = [sender EXCEPT !.state = "posting", !.out = sender.text,
                                    !.outEpoch = sender.epoch]
        /\ ~sender.stopped /\ sender.state = "waiting"
        /\ UNCHANGED <<pipeline, callback, emit, gaveUp, artemis, late, deltas, faults>>
    BY <1>2 DEF NextPayload
  <2>2. /\ sender' \in SenderRecord /\ FailsBelow' /\ sender'.state = "posting"
    BY <1>0, <2>1 DEF SenderRecord, FailsBelow
  <2>3. QED
    BY <1>0, <2>1, <2>2 DEF TypeOK
<1>3. CASE PostDraft
  <2>1. PICK o \in Outcomes, refused \in BOOLEAN :
          /\ Counts(o)
          /\ sender' = IF o.ok THEN Recorded(sender) ELSE Failed(sender, refused)
          /\ artemis' = IF o.received
                        THEN [artemis EXCEPT !.last = "RUNNING", !.draft = sender.out]
                        ELSE artemis
          /\ late' = IF o.received /\ stage \notin Drafting THEN late + 1 ELSE late
    BY <1>3 DEF PostDraft
  <2>2. sender.state = "posting" /\ UNCHANGED <<pipeline, callback, emit, gaveUp, deltas>>
    BY <1>3 DEF PostDraft
  <2>3. /\ Recorded(sender) \in SenderRecord
        /\ Recorded(sender).state = "waiting" /\ Recorded(sender).fails < DraftFailures
        /\ Recorded(sender).stopped = sender.stopped
    <3>1. Recorded(sender) \in SenderRecord
      <4>1. /\ sender.out \in Nat /\ sender.outEpoch \in Nat \cup {-1}
            /\ 0 \in 0 .. DraftFailures
        BY <1>a DEF SenderRecord
      <4>2. [sender EXCEPT !.state = "waiting", !.fails = 0] \in SenderRecord
        BY <1>a, <4>1 DEF SenderRecord
      <4>3. QED
        BY <4>1, <4>2 DEF SenderRecord, Recorded
    <3>2. /\ Recorded(sender).state = "waiting" /\ Recorded(sender).fails = 0
          /\ Recorded(sender).stopped = sender.stopped
      BY <1>a DEF SenderRecord, Recorded
    <3>3. QED
      BY <1>a, <3>1, <3>2
  <2>4. /\ Failed(sender, refused) \in SenderRecord /\ Failed(sender, refused).state = "waiting"
        /\ ~Failed(sender, refused).stopped => Failed(sender, refused).fails < DraftFailures
        /\ sender.stopped => Failed(sender, refused).stopped
    <3>1. sender.fails < DraftFailures
      BY <2>2 DEF FailsBelow
    <3> DEFINE over == sender.stopped \/ refused \/ sender.fails + 1 >= DraftFailures
    <3>2. over \in BOOLEAN
      OBVIOUS
    <3> HIDE DEF over
    <3>3. Failed(sender, refused) =
              [sender EXCEPT !.state = "waiting", !.stopped = over,
                             !.fails = IF refused THEN @ ELSE @ + 1]
      BY <1>0 DEF Failed, over, SenderRecord
    <3>4. (IF refused THEN sender.fails ELSE sender.fails + 1) \in 0 .. DraftFailures
      BY <1>a, <3>1 DEF SenderRecord
    <3>5. Failed(sender, refused) \in SenderRecord
      BY <1>a, <3>2, <3>3, <3>4 DEF SenderRecord
    <3>6. /\ Failed(sender, refused).state = "waiting"
          /\ Failed(sender, refused).stopped = over
          /\ Failed(sender, refused).fails = IF refused THEN sender.fails ELSE sender.fails + 1
      BY <1>a, <3>3 DEF SenderRecord
    <3>7. ~over => ~refused /\ sender.fails + 1 < DraftFailures
      BY <1>a DEF over, SenderRecord
    <3>8. sender.stopped => over
      BY DEF over
    <3>9. QED
      BY <3>5, <3>6, <3>7, <3>8
  <2>5. /\ artemis' \in ArtemisRecord
        /\ artemis'.end = artemis.end /\ artemis'.answer = artemis.answer
        /\ artemis'.title = artemis.title
    BY <1>0, <2>1 DEF ArtemisRecord, SenderRecord, States
  <2>6. /\ sender' \in SenderRecord /\ FailsBelow' /\ sender'.state = "waiting"
        /\ sender.stopped => sender'.stopped
    BY <2>1, <2>3, <2>4 DEF FailsBelow
  <2>7. QED
    BY <2>1, <2>2, <2>5, <2>6, CountsType DEF TypeOK
<1>4. CASE SenderEnds
  <2>1. /\ sender' = [NoSender EXCEPT !.state = "gone", !.stopped = TRUE]
        /\ UNCHANGED <<pipeline, callback, emit, gaveUp, artemis, late, deltas, faults>>
        /\ sender.state = "waiting"
    BY <1>4 DEF SenderEnds
  <2>2. /\ sender' \in SenderRecord /\ FailsBelow' /\ sender'.state = "gone"
        /\ sender'.stopped = TRUE
    <3>1. sender' = [state |-> "gone", stopped |-> TRUE, text |-> 0, epoch |-> 0,
                     lastText |-> 0, lastEpoch |-> -1, out |-> 0, outEpoch |-> 0, fails |-> 0]
      BY <2>1 DEF NoSender
    <3>2. QED
      BY <1>a, <3>1 DEF SenderRecord, FailsBelow
  <2>3. QED
    BY <1>0, <2>1, <2>2 DEF TypeOK
<1>5. QED
  BY <1>0, <1>1, <1>2, <1>3, <1>4 DEF Drafts, TypeOK

\* Waiting and trying again keep the type of a call.
LEMMA DrainType ==
    ASSUME TypeOK, Drain
    PROVE  /\ call \in Call /\ call' \in Call /\ futures' = {}
           /\ call'.op = call.op /\ call'.state = call.state
           /\ call'.answer = call.answer /\ call'.carried = call.carried
           /\ call'.title = call.title /\ call'.before = call.before
           /\ \/ futures = {} /\ call'.phase = "post"
              \/ call'.phase = "drain" /\ call'.waiting = futures
<1>1. call \in Call /\ futures \subseteq Emits /\ {} \subseteq Emits
  BY InCall DEF Drain, TypeOK
<1>2. futures' = {}
  BY DEF Drain, Remaining
<1>3. CASE futures = {}
  <2>1. call' = [call EXCEPT !.phase = "post", !.waiting = {}]
    BY <1>3 DEF Drain
  <2>2. call' \in Call /\ call'.phase = "post"
    BY <1>1, <2>1 DEF Call
  <2>3. QED
    BY <1>1, <1>2, <1>3, <2>1, <2>2 DEF Call
<1>4. CASE futures # {}
  <2>1. call' = [call EXCEPT !.waiting = futures] /\ call.phase = "drain"
    BY <1>4 DEF Drain
  <2>2. call' \in Call
    BY <1>1, <2>1 DEF Call
  <2>3. QED
    BY <1>1, <1>2, <2>1, <2>2 DEF Call
<1>5. QED
  BY <1>3, <1>4

\* What a POST of a call does: once more, or over.
LEMMA PostType ==
    ASSUME TypeOK, Post
    PROVE  \E o \in Outcomes :
               /\ call \in Call /\ call.phase = "post"
               /\ faults' \in 0 .. MaxFaults /\ undelivered' \in BOOLEAN
               /\ artemis' \in ArtemisRecord
               /\ artemis'.draft = artemis.draft
               /\ o.received => /\ artemis' = Received(call.state, call.answer, call.title)
                                /\ artemis'.end = IF call.state \in Terminals THEN call.state
                                                  ELSE artemis.end
                                /\ artemis'.answer <=> artemis.answer \/ call.answer
                                /\ artemis'.title <=> artemis.title \/ call.title
               /\ ~o.received => artemis' = artemis /\ ~o.ok
               /\ \/ /\ call' \in Call /\ call'.phase = "post"
                     /\ call'.op = call.op /\ call'.state = call.state
                     /\ call'.answer = call.answer /\ call'.carried = call.carried
                     /\ call'.title = call.title /\ call'.before = call.before
                     /\ undelivered' = undelivered
                  \/ /\ call' = NoCall
                     /\ o.ok => (undelivered' <=> undelivered /\ ~call.carried)
                     /\ ~o.ok => (undelivered' <=> undelivered \/ call.op = "result")
               /\ UNCHANGED <<pipeline, terminal, queue, futures, emit, sender, gaveUp, late,
                              deltas>>
<1>1. call \in Call /\ call.phase = "post"
  BY InCall DEF Post
<1>2. PICK o \in Outcomes :
          /\ Counts(o)
          /\ artemis' = IF o.received THEN Received(call.state, call.answer, call.title)
                                      ELSE artemis
          /\ IF ~o.ok /\ call.left > 1
             THEN call' = [call EXCEPT !.left = @ - 1] /\ UNCHANGED undelivered
             ELSE /\ call' = NoCall
                  /\ undelivered' = IF o.ok THEN undelivered /\ ~call.carried
                                    ELSE undelivered \/ call.op = "result"
  BY DEF Post
<1>3. UNCHANGED <<pipeline, terminal, queue, futures, emit, sender, gaveUp, late, deltas>>
  BY DEF Post
<1>4. faults' \in 0 .. MaxFaults
  BY <1>2, CountsType
<1>5. /\ call.state \in States /\ call.answer \in BOOLEAN /\ call.title \in BOOLEAN
      /\ call.carried \in BOOLEAN /\ undelivered \in BOOLEAN
  BY <1>1 DEF Call, TypeOK
<1>6. /\ artemis' \in ArtemisRecord /\ artemis'.draft = artemis.draft
      /\ o.received => /\ artemis' = Received(call.state, call.answer, call.title)
                       /\ artemis'.end = IF call.state \in Terminals THEN call.state
                                         ELSE artemis.end
                       /\ artemis'.answer <=> artemis.answer \/ call.answer
                       /\ artemis'.title <=> artemis.title \/ call.title
      /\ ~o.received => artemis' = artemis
  BY <1>2, <1>5, ReceivedType DEF TypeOK, ArtemisRecord
<1>7. ~o.received => ~o.ok
  BY DEF Outcomes
<1>8. CASE ~o.ok /\ call.left > 1
  <2>1. call' = [call EXCEPT !.left = call.left - 1] /\ undelivered' = undelivered
    BY <1>2, <1>8
  <2>2. call.left - 1 \in 1 .. Attempts
    BY <1>1, <1>8, ChatRunAssumption DEF Call
  <2>3. call' \in Call
    BY <1>1, <2>1, <2>2 DEF Call
  <2>4. /\ call'.phase = call.phase /\ call'.op = call.op /\ call'.state = call.state
        /\ call'.answer = call.answer /\ call'.carried = call.carried
        /\ call'.title = call.title /\ call'.before = call.before
    BY <1>1, <2>1 DEF Call
  <2>5. QED
    BY <1>1, <1>3, <1>4, <1>5, <1>6, <1>7, <2>1, <2>3, <2>4
<1>9. CASE ~(~o.ok /\ call.left > 1)
  <2>1. /\ call' = NoCall
        /\ undelivered' = IF o.ok THEN undelivered /\ ~call.carried
                          ELSE undelivered \/ call.op = "result"
    BY <1>2, <1>9
  <2>2. undelivered' \in BOOLEAN
    BY <1>5, <2>1
  <2>3. QED
    BY <1>1, <1>3, <1>4, <1>6, <1>7, <2>1, <2>2
<1>10. QED
  BY <1>8, <1>9

LEMMA TypeInit == Init => TypeOK /\ FailsBelow
<1> SUFFICES ASSUME Init PROVE TypeOK /\ FailsBelow
  OBVIOUS
<1>1. DraftFailures \in Nat \ {0} /\ {MaxIntermediate, MaxDeltas, MaxFaults} \subseteq Nat
  BY ChatRunAssumption
<1>2. sender = [state |-> "off", stopped |-> FALSE, text |-> 0, epoch |-> 0,
                lastText |-> 0, lastEpoch |-> -1, out |-> 0, outEpoch |-> 0, fails |-> 0]
  BY DEF Init, NoSender
<1>3. sender \in SenderRecord /\ FailsBelow
  BY <1>1, <1>2 DEF SenderRecord, FailsBelow
<1>4. artemis \in ArtemisRecord
  BY DEF Init, ArtemisRecord
<1>5. queue \in Seq(Emits) /\ emit \in [Emits -> {"idle", "copied", "done"}]
  BY EmptySeq DEF Init
<1>6. RestOK
  <2>1. sent \in 0 .. MaxIntermediate /\ deltas \in 0 .. MaxDeltas /\ faults \in 0 .. MaxFaults
    BY <1>1 DEF Init
  <2>2. /\ terminal \in BOOLEAN /\ undelivered \in BOOLEAN
        /\ answered \in BOOLEAN /\ gaveUp \in BOOLEAN
        /\ exercise \in BOOLEAN /\ late \in Nat
    BY DEF Init
  <2>3. /\ stage \in Stages /\ title \in {"none", "deferred", "attached"}
        /\ call = NoCall /\ futures \subseteq Emits
    BY DEF Init, Stages
  <2>4. QED
    BY <1>5, <2>1, <2>2, <2>3 DEF RestOK
<1>7. QED
  BY <1>3, <1>4, <1>6, TypeParts

LEMMA TypeStep == TypeOK /\ FailsBelow /\ [Next]_vars => TypeOK' /\ FailsBelow'
<1> SUFFICES ASSUME TypeOK, FailsBelow, [Next]_vars PROVE TypeOK' /\ FailsBelow'
  OBVIOUS
<1>0. RestOK /\ sender \in SenderRecord /\ artemis \in ArtemisRecord
  BY TypeParts
<1>1. CASE Synchronous
  <2>1. PICK op \in Ops, state \in States, withTitle \in BOOLEAN :
            /\ Calls(op, state, withTitle)
            /\ stage' \in Stages
            /\ answered' \in BOOLEAN /\ title' \in {"none", "deferred", "attached"}
            /\ sent' \in 0 .. MaxIntermediate
            /\ gaveUp' = gaveUp /\ exercise' = exercise
    BY <1>1, SynchronousCalls
  <2>2. /\ call' \in Call \cup {NoCall} /\ terminal' \in BOOLEAN
        /\ UNCHANGED <<undelivered, queue, futures, emit, sender, artemis, late, deltas, faults>>
    BY <1>0, <2>1, Begins DEF RestOK
  <2>3. RestOK'
    BY <1>0, <2>1, <2>2 DEF RestOK
  <2>4. QED
    BY <1>0, <2>2, <2>3, TypeParts DEF FailsBelow
<1>2. CASE Drain
  <2>1. UNCHANGED <<pipeline, terminal, undelivered, queue, emit, sender, gaveUp, artemis,
                    late, deltas, faults>>
    BY <1>2 DEF Drain
  <2>2. call' \in Call /\ futures' \subseteq Emits
    BY <1>2, DrainType
  <2>3. RestOK'
    BY <1>0, <2>1, <2>2 DEF RestOK, pipeline
  <2>4. QED
    BY <1>0, <2>1, <2>3, TypeParts DEF FailsBelow
<1>3. CASE Post
  <2>1. /\ call' \in Call \cup {NoCall} /\ undelivered' \in BOOLEAN
        /\ faults' \in 0 .. MaxFaults /\ artemis' \in ArtemisRecord
        /\ UNCHANGED <<pipeline, terminal, queue, futures, emit, sender, gaveUp, late, deltas>>
    BY <1>3, PostType
  <2>2. RestOK'
    BY <1>0, <2>1 DEF RestOK, pipeline
  <2>3. QED
    BY <1>0, <2>1, <2>2, TypeParts DEF FailsBelow
<1>4. ASSUME NEW e \in Emits, Snapshot(e) \/ Enqueue(e) PROVE TypeOK' /\ FailsBelow'
  <2>1. emit' \in [Emits -> {"idle", "copied", "done"}]
    BY <1>0, <1>4 DEF Snapshot, Enqueue, RestOK
  <2>2. queue' \in Seq(Emits) /\ futures' \subseteq Emits
    <3>1. \/ UNCHANGED <<queue, futures>>
          \/ queue' = Append(queue, e) /\ futures' = futures \cup {e}
      BY <1>4 DEF Snapshot, Enqueue, callback
    <3>2. queue \in Seq(Emits) /\ futures \subseteq Emits
      BY <1>0 DEF RestOK
    <3>3. Append(queue, e) \in Seq(Emits)
      BY <3>2, AppendProperties
    <3>4. QED
      BY <3>1, <3>2, <3>3
  <2>3. UNCHANGED <<pipeline, call, terminal, undelivered, sender, gaveUp, artemis, late, deltas,
                    faults>>
    BY <1>4 DEF Snapshot, Enqueue, callback
  <2>4. RestOK'
    BY <1>0, <2>1, <2>2, <2>3 DEF RestOK, pipeline
  <2>5. QED
    BY <1>0, <2>3, <2>4, TypeParts DEF FailsBelow
<1>5. CASE PostQueued
  <2>1. PICK o \in Outcomes :
          /\ Counts(o)
          /\ artemis' = IF o.received THEN Received("RUNNING", FALSE, FALSE) ELSE artemis
    BY <1>5 DEF PostQueued
  <2>2. artemis' \in ArtemisRecord
    BY <1>0, <2>1, ReceivedType DEF States
  <2>3. faults' \in 0 .. MaxFaults
    BY <2>1, CountsType
  <2>4. queue' \in Seq(Emits)
    BY <1>0, <1>5, TailSet DEF PostQueued, RestOK
  <2>5. UNCHANGED <<pipeline, call, terminal, undelivered, futures, emit, sender, gaveUp,
                    late, deltas>>
    BY <1>5 DEF PostQueued
  <2>6. RestOK'
    BY <1>0, <2>3, <2>4, <2>5 DEF RestOK, pipeline
  <2>7. QED
    BY <1>0, <2>2, <2>5, <2>6, TypeParts DEF FailsBelow
<1>6. CASE Drafts
  <2>1. /\ sender' \in SenderRecord /\ artemis' \in ArtemisRecord /\ FailsBelow'
        /\ deltas' \in 0 .. MaxDeltas /\ faults' \in 0 .. MaxFaults
        /\ late' = late \/ late' = late + 1
        /\ UNCHANGED <<pipeline, callback, emit, gaveUp>>
    BY <1>6, SenderType
  <2>2. RestOK'
    BY <1>0, <2>1 DEF RestOK, pipeline, callback
  <2>3. QED
    BY <2>1, <2>2, TypeParts
<1>7. CASE Agent \/ Stop \/ Refine \/ StopRefinement
  <2>1. /\ stage' \in Stages
        /\ UNCHANGED <<exercise, answered, title, sent, gaveUp, callback, emit, artemis, late,
                       deltas, faults>>
    BY <1>7 DEF Agent, Stop, Refine, StopRefinement, Goes, Stages, Drafting
  <2>2. sender' \in SenderRecord /\ FailsBelow'
    <3>1. CASE Streams
      <4>1. sender' = [state |-> "waiting", stopped |-> FALSE, text |-> 0, epoch |-> 0,
                       lastText |-> 0, lastEpoch |-> -1, out |-> 0, outEpoch |-> 0,
                       fails |-> 0]
        BY <3>1 DEF Streams, NoSender
      <4>2. QED
        BY <4>1, ChatRunAssumption DEF SenderRecord, FailsBelow
    <3>2. CASE sender' = sender \/ sender' = [sender EXCEPT !.stopped = TRUE]
      BY <1>0, <3>2 DEF SenderRecord, FailsBelow
    <3>3. QED
      BY <1>7, <3>1, <3>2 DEF Agent, Stop, Refine, StopRefinement
  <2>3. RestOK'
    BY <1>0, <2>1 DEF RestOK, callback
  <2>4. QED
    BY <1>0, <2>1, <2>2, <2>3, TypeParts
<1>8. CASE PrepareRaises \/ Join \/ MakeTitle \/ NoSuggestions
  <2>1. /\ stage' \in Stages /\ gaveUp' \in BOOLEAN
        /\ title' \in {"none", "deferred", "attached"}
        /\ UNCHANGED <<exercise, answered, sent, callback, emit, sender, artemis, late, deltas,
                       faults>>
    BY <1>0, <1>8
       DEF PrepareRaises, Join, AfterJoin, MakeTitle, NoSuggestions, Goes, Stages, RestOK
  <2>2. RestOK'
    BY <1>0, <2>1 DEF RestOK, callback
  <2>3. QED
    BY <1>0, <2>1, <2>2, TypeParts DEF FailsBelow
<1>9. CASE UNCHANGED vars
  <2>1. RestOK'
    BY <1>0, <1>9 DEF vars, RestOK, pipeline, callback
  <2>2. QED
    BY <1>0, <1>9, <2>1, TypeParts DEF vars, FailsBelow
<1>10. QED
  BY <1>1, <1>2, <1>3, <1>4, <1>5, <1>6, <1>7, <1>8, <1>9
     DEF Next, Pipeline, Activity, Rest, Synchronous

\* The variables of a run keep their types; a sender never counts more failures
\* than end its drafts.
THEOREM TypeCorrect == Spec => []TypeOK
<1>1. QED
  BY TypeInit, TypeStep, PTL DEF Spec

----------------------------------------------------------------------------
(* The inductive invariant *)

Calling == call.phase \in {"drain", "post"}

\* What waits for the executor is on the list, or being waited for.
QueuedTracked ==
    ToSet(queue) \subseteq futures \cup (IF call.phase = "drain" THEN call.waiting ELSE {})

\* An event is queued once.
QueuedDone ==
    /\ \A e \in ToSet(queue) : emit[e] = "done"
    /\ Calling => \A e \in call.before : emit[e] = "done"

\* A terminal call marks the run, and is the last thing posted.
EndsLast ==
    /\ terminal => stage \in Trailing
    /\ Calling /\ call.state \in Terminals => terminal
    /\ call.phase = "post" /\ call.state \in Terminals => queue = <<>>
    /\ artemis.end # "none" =>
           /\ terminal /\ queue = <<>>
           /\ \/ call = NoCall
              \/ /\ call.phase = "post" /\ call.state = artemis.end
                 /\ call.answer => artemis.answer
                 /\ call.title => artemis.title

\* An answer is with Artemis, on its way, or kept; a terminal call carries it.
AnswerKept ==
    /\ answered => artemis.answer \/ undelivered \/ (Calling /\ call.op = "result")
    /\ Calling => (call.op = "result" \/ call.carried => call.answer)
    /\ Calling /\ call.state \in Terminals /\ answered => call.answer \/ artemis.answer

\* A sender lives while what it streams is made, or was given up on; then it
\* makes no draft any more, and posts the one it has.
SenderDrafting ==
    /\ sender.state \in {"waiting", "posting"} => stage \in Drafting \/ gaveUp
    /\ sender.state \in {"waiting", "posting"} /\ stage \notin {"agent", "refine"} =>
           sender.stopped
    /\ stage \in Early \/ (exercise /\ stage \in {"agent", "stopped", "raised"}) =>
           sender.state = "off"

\* A draft comes late once at most.
LateOnce ==
    /\ stage \in Early \cup Drafting \/ sender.state = "posting" => late = 0
    /\ DraftsStopFirst

RunInv ==
    /\ TypeOK /\ FailsBelow
    /\ QueuedTracked /\ QueuedDone /\ QueuedFirst
    /\ EndsLast /\ AnswerKept /\ TerminalHasAnswer
    /\ SenderDrafting /\ LateOnce

\* Steps that leave the callback alone.
Aside ==
    \/ Drafts \/ Agent \/ Stop \/ Refine \/ StopRefinement \/ Join
    \/ PrepareRaises \/ MakeTitle \/ NoSuggestions
    \/ UNCHANGED vars

LEMMA AsideKeeps ==
    ASSUME TypeOK, FailsBelow, SenderDrafting, LateOnce, Aside
    PROVE  /\ UNCHANGED <<callback, emit, answered>>
           /\ artemis'.end = artemis.end /\ artemis'.answer = artemis.answer
           /\ artemis'.title = artemis.title
           /\ stage \in Trailing => stage' \in Trailing
           /\ SenderDrafting' /\ LateOnce'
           /\ artemis' # artemis /\ stage \notin Drafting => Straggles
<1> USE DEF Drafting, Early, Trailing
<1>0. sender \in SenderRecord /\ late \in Nat /\ artemis \in ArtemisRecord
  BY DEF TypeOK, SenderRecord, ArtemisRecord
<1>1. CASE Drafts
  <2>1. /\ artemis'.end = artemis.end /\ artemis'.answer = artemis.answer
        /\ artemis'.title = artemis.title
        /\ sender.stopped => sender'.stopped
        /\ sender'.state = "off" <=> sender.state = "off"
        /\ \/ sender'.state = sender.state
           \/ sender.state = "waiting" /\ ~sender.stopped /\ sender'.state = "posting"
           \/ sender.state = "posting" /\ sender'.state = "waiting"
           \/ sender'.state = "gone"
        /\ \/ UNCHANGED <<artemis, late>>
           \/ /\ sender.state = "posting" /\ sender'.state = "waiting"
              /\ artemis' = [artemis EXCEPT !.last = "RUNNING", !.draft = sender.out]
              /\ late' = IF stage \notin Drafting THEN late + 1 ELSE late
        /\ UNCHANGED <<pipeline, callback, emit, gaveUp>>
    BY <1>1, SenderType
  <2>2. UNCHANGED <<stage, exercise, answered, callback, emit, gaveUp>>
    BY <2>1 DEF pipeline
  <2>3. SenderDrafting'
    BY <2>1, <2>2 DEF SenderDrafting
  <2>4. CASE UNCHANGED <<artemis, late>>
    BY <2>1, <2>2, <2>3, <2>4 DEF LateOnce, DraftsStopFirst, SenderDrafting
  <2>5. CASE sender.state = "posting" /\ sender'.state = "waiting" /\ stage \in Drafting
             /\ late' = late
    BY <2>1, <2>2, <2>3, <2>5 DEF LateOnce, DraftsStopFirst
  <2>6. CASE sender.state = "posting" /\ sender'.state = "waiting" /\ stage \notin Drafting
             /\ late' = late + 1
             /\ artemis' = [artemis EXCEPT !.last = "RUNNING", !.draft = sender.out]
    <3>1. late = 0 /\ gaveUp
      BY <2>6 DEF LateOnce, SenderDrafting
    <3>2. stage \notin Early
      BY <2>6 DEF SenderDrafting
    <3>3. QED
      BY <2>1, <2>2, <2>3, <2>6, <3>1, <3>2 DEF LateOnce, DraftsStopFirst, Straggles
  <2>7. QED
    BY <2>1, <2>4, <2>5, <2>6
<1>2. ASSUME Agent \/ Refine
      PROVE  /\ UNCHANGED <<callback, emit, answered, artemis, late, gaveUp>>
             /\ stage \in Early /\ SenderDrafting' /\ LateOnce'
  <2>1. /\ UNCHANGED <<callback, emit, answered, artemis, late, gaveUp, exercise>>
        /\ stage \in Early
        /\ \/ stage' = "agent" /\ (~exercise \/ UNCHANGED sender)
           \/ stage' = "refine"
        /\ sender' = sender \/ sender'.state = "waiting"
    BY <1>2 DEF Agent, Refine, Streams, Goes, NoSender
  <2>2. SenderDrafting'
    BY <2>1 DEF SenderDrafting
  <2>3. late = 0
    BY <2>1 DEF LateOnce
  <2>4. QED
    BY <2>1, <2>2, <2>3 DEF LateOnce, DraftsStopFirst
<1>3. ASSUME Stop \/ StopRefinement
      PROVE  /\ UNCHANGED <<callback, emit, answered, artemis, late, gaveUp>>
             /\ stage \in Drafting /\ SenderDrafting' /\ LateOnce'
  <2>1. /\ UNCHANGED <<callback, emit, answered, artemis, late, gaveUp, exercise>>
        /\ \/ stage = "agent" /\ stage' \in {"stopped", "raised"}
           \/ stage = "refine" /\ stage' = "refined"
        /\ sender'.stopped = TRUE /\ sender'.state = sender.state
    BY <1>0, <1>3 DEF Stop, StopRefinement, Goes, SenderRecord
  <2>2. SenderDrafting'
    BY <2>1 DEF SenderDrafting
  <2>3. QED
    BY <2>1, <2>2 DEF LateOnce, DraftsStopFirst
<1>4. ASSUME Join
      PROVE  /\ UNCHANGED <<callback, emit, answered, artemis, late>>
             /\ stage \in Drafting /\ SenderDrafting' /\ LateOnce'
  <2>1. /\ UNCHANGED <<callback, emit, answered, artemis, late, sender, exercise>>
        /\ stage \in {"stopped", "raised", "refined"}
        /\ stage' \in {"broken", "unrefined", "hook"}
        /\ stage' = "unrefined" => stage = "stopped" /\ exercise
        /\ (Joined /\ UNCHANGED gaveUp) \/ gaveUp' = TRUE
    BY <1>4 DEF Join, AfterJoin
  <2>2. late = 0
    BY <2>1 DEF LateOnce
  <2>3. SenderDrafting'
    BY <2>1 DEF Joined, SenderDrafting
  <2>4. QED
    BY <2>1, <2>2, <2>3 DEF LateOnce, DraftsStopFirst
<1>5. ASSUME PrepareRaises \/ MakeTitle \/ NoSuggestions
      PROVE  /\ UNCHANGED <<callback, emit, answered, artemis, late, gaveUp>>
             /\ stage \notin Trailing /\ SenderDrafting' /\ LateOnce'
  <2>1. /\ UNCHANGED <<callback, emit, answered, artemis, late, sender, gaveUp, exercise>>
        /\ stage \in {"prepare", "answered", "titled"}
        /\ stage' \in {"broken", "titled", "trailing"}
    BY <1>5 DEF PrepareRaises, MakeTitle, NoSuggestions, Goes
  <2>2. QED
    BY <2>1 DEF SenderDrafting, LateOnce, DraftsStopFirst
<1>6. CASE UNCHANGED vars
  BY <1>6 DEF vars, pipeline, SenderDrafting, LateOnce, DraftsStopFirst
<1>7. QED
  BY <1>1, <1>2, <1>3, <1>4, <1>5, <1>6 DEF Aside

\* A step of the run is one of these.
LEMMA StepKinds ==
    ASSUME [Next]_vars
    PROVE  \/ Synchronous \/ Drain \/ Post \/ PostQueued \/ Aside
           \/ \E e \in Emits : Snapshot(e) \/ Enqueue(e)
BY DEF Next, Pipeline, Activity, Rest, Synchronous, Aside

----------------------------------------------------------------------------
(* The queue *)

\* What was queued before a call stays tracked until it is posted.
LEMMA QueueStep ==
    ASSUME RunInv, TypeOK', [Next]_vars
    PROVE  QueuedTracked' /\ QueuedDone' /\ QueuedFirst'
<1>0. TypeOK /\ FailsBelow /\ QueuedTracked /\ QueuedDone /\ QueuedFirst
      /\ EndsLast /\ SenderDrafting /\ LateOnce
  BY DEF RunInv
<1>1. CASE Synchronous
  <2>1. PICK op \in Ops, state \in States, withTitle \in BOOLEAN : Calls(op, state, withTitle)
    BY <1>0, <1>1, SynchronousCalls
  <2>2. /\ call = NoCall
        /\ UNCHANGED <<queue, futures, emit>>
        /\ \/ UNCHANGED call
           \/ call'.phase = "drain" /\ call'.waiting = {} /\ call'.before = ToSet(queue)
    BY <1>0, <2>1, Begins
  <2>3. ToSet(queue) \subseteq futures
    BY <1>0, <2>2 DEF QueuedTracked, NoCall
  <2>4. QED
    BY <1>0, <2>2, <2>3 DEF QueuedTracked, QueuedDone, QueuedFirst, NoCall, Calling
<1>2. CASE Drain
  <2>1. UNCHANGED <<queue, emit>> /\ call.phase = "drain" /\ Waited(call.waiting)
    BY <1>2 DEF Drain
  <2>2. ToSet(queue) \subseteq futures
    BY <1>0, <2>1 DEF QueuedTracked, Waited
  <2>3. /\ call'.before = call.before
        /\ \/ futures = {} /\ call'.phase = "post"
           \/ call'.phase = "drain" /\ call'.waiting = futures
    BY <1>0, <1>2, DrainType
  <2>4. QED
    BY <1>0, <2>1, <2>2, <2>3 DEF QueuedTracked, QueuedDone, QueuedFirst, Calling
<1>3. CASE Post
  <2>1. /\ UNCHANGED <<queue, futures, emit>> /\ call.phase = "post"
        /\ \/ call' = NoCall
           \/ call'.phase = "post" /\ call'.before = call.before
    BY <1>0, <1>3, PostType
  <2>2. QED
    BY <1>0, <2>1 DEF QueuedTracked, QueuedDone, QueuedFirst, NoCall, Calling
<1>4. CASE PostQueued
  <2>1. /\ UNCHANGED <<futures, emit, call>>
        /\ queue' = Tail(queue) /\ queue # <<>>
    BY <1>4 DEF PostQueued
  <2>2. ToSet(queue') \subseteq ToSet(queue)
    BY <1>0, <2>1, TailSet DEF TypeOK
  <2>3. QED
    BY <1>0, <2>1, <2>2 DEF QueuedTracked, QueuedDone, QueuedFirst, Calling
<1>5. ASSUME NEW e \in Emits, Snapshot(e) \/ Enqueue(e)
      PROVE  QueuedTracked' /\ QueuedDone' /\ QueuedFirst'
  <2>1. /\ emit[e] # "done" /\ call' = call
        /\ \A f \in Emits \ {e} : emit'[f] = emit[f]
        /\ \/ UNCHANGED <<queue, futures>>
           \/ /\ queue' = Append(queue, e) /\ futures' = futures \cup {e}
              /\ emit'[e] = "done"
    BY <1>0, <1>5 DEF Snapshot, Enqueue, callback, TypeOK
  <2>2. e \notin ToSet(queue) /\ (Calling => e \notin call.before)
    BY <1>0, <2>1 DEF QueuedDone
  <2>3. ToSet(queue) \subseteq Emits /\ (Calling => call.before \subseteq Emits)
    BY <1>0, EmptySet, InCall DEF TypeOK, Call, Calling
  <2>4. CASE UNCHANGED <<queue, futures>>
    BY <1>0, <2>1, <2>2, <2>3, <2>4 DEF QueuedTracked, QueuedDone, QueuedFirst, Calling
  <2>5. CASE queue' = Append(queue, e) /\ futures' = futures \cup {e} /\ emit'[e] = "done"
    <3>1. ToSet(queue') = ToSet(queue) \cup {e}
      <4>1. queue \in Seq(Emits)
        BY <1>0 DEF TypeOK
      <4>2. ToSet(Append(queue, e)) = ToSet(queue) \cup {e}
        BY <4>1, AppendSet
      <4>3. QED
        BY <2>5, <4>2, Zenon
    <3>2. QED
      BY <1>0, <2>1, <2>2, <2>3, <2>5, <3>1
         DEF QueuedTracked, QueuedDone, QueuedFirst, Calling
  <2>6. QED
    BY <2>1, <2>4, <2>5
<1>6. CASE Aside
  <2>1. UNCHANGED <<queue, futures, emit, call>>
    BY <1>0, <1>6, AsideKeeps DEF callback
  <2>2. QED
    BY <1>0, <2>1 DEF QueuedTracked, QueuedDone, QueuedFirst, Calling
<1>7. QED
  BY <1>1, <1>2, <1>3, <1>4, <1>5, <1>6, StepKinds

----------------------------------------------------------------------------
(* The end of a run *)

\* A terminal update stays the last.
LEMMA EndStep ==
    ASSUME RunInv, TypeOK', [Next]_vars
    PROVE  /\ EndsLast'
           /\ artemis.end # "none" /\ artemis' # artemis => Repeats \/ Straggles
<1>0. TypeOK /\ FailsBelow /\ QueuedTracked /\ EndsLast /\ SenderDrafting /\ LateOnce
  BY DEF RunInv
<1>1. CASE Synchronous
  <2>1. PICK op \in Ops, state \in States, withTitle \in BOOLEAN :
            /\ Calls(op, state, withTitle)
            /\ state \in Terminals => stage' \in Trailing
            /\ stage \in Trailing => stage' \in Trailing
    BY <1>0, <1>1, SynchronousCalls
  <2>2. /\ call = NoCall
        /\ UNCHANGED <<queue, artemis>>
        /\ \/ terminal /\ UNCHANGED <<call, terminal>>
           \/ /\ ~terminal /\ call'.phase = "drain" /\ call'.state = state
              /\ terminal' <=> state \in Terminals
    BY <1>0, <2>1, Begins
  <2>3. QED
    BY <1>0, <2>1, <2>2 DEF EndsLast, Calling, NoCall
<1>2. CASE Drain
  <2>1. /\ UNCHANGED <<stage, terminal, queue, artemis>>
        /\ call.phase = "drain" /\ Waited(call.waiting)
    BY <1>2 DEF Drain, pipeline
  <2>2. /\ call'.state = call.state
        /\ \/ futures = {} /\ call'.phase = "post"
           \/ call'.phase = "drain"
    BY <1>0, <1>2, DrainType
  <2>3. call'.phase = "post" => queue = <<>>
    <3>1. SUFFICES ASSUME futures = {} PROVE queue = <<>>
      BY <2>2
    <3>2. ToSet(queue) = {}
      BY <1>0, <2>1, <3>1 DEF QueuedTracked, Waited
    <3>3. QED
      BY <1>0, <3>2, EmptySet DEF TypeOK
  <2>4. artemis.end = "none"
    BY <1>0, <2>1 DEF EndsLast, NoCall
  <2>5. QED
    BY <1>0, <2>1, <2>2, <2>3, <2>4 DEF EndsLast, Calling
<1>3. CASE Post
  <2>1. PICK o \in Outcomes :
               /\ call \in Call /\ call.phase = "post"
               /\ o.received => /\ artemis' = Received(call.state, call.answer, call.title)
                                /\ artemis'.end = IF call.state \in Terminals THEN call.state
                                                  ELSE artemis.end
                                /\ artemis'.answer <=> artemis.answer \/ call.answer
                                /\ artemis'.title <=> artemis.title \/ call.title
               /\ ~o.received => artemis' = artemis
               /\ \/ /\ call'.phase = "post" /\ call'.state = call.state
                     /\ call'.answer = call.answer /\ call'.title = call.title
                  \/ call' = NoCall
               /\ UNCHANGED <<pipeline, terminal, queue>>
    BY <1>0, <1>3, PostType
  <2>2. /\ UNCHANGED <<stage, terminal, queue>> /\ call # NoCall
        /\ artemis \in ArtemisRecord /\ "none" \notin Terminals
    BY <1>0, <2>1, InCall DEF pipeline, TypeOK, ArtemisRecord, Terminals
  <2>3. EndsLast'
    BY <1>0, <2>1, <2>2 DEF EndsLast, Calling, NoCall
  <2>4. ASSUME artemis.end # "none", o.received PROVE Repeats
    <3>1. /\ call.state = artemis.end /\ call.state \in Terminals
          /\ call.answer => artemis.answer
          /\ call.title => artemis.title
      BY <1>0, <2>2, <2>4 DEF EndsLast, ArtemisRecord
    <3>2. /\ (artemis.answer \/ call.answer) = artemis.answer
          /\ (artemis.title \/ call.title) = artemis.title
      BY <2>1, <2>2, <3>1 DEF Call, ArtemisRecord
    <3>3. artemis' = [artemis EXCEPT !.last = call.state,
                                     !.answer = artemis.answer \/ call.answer,
                                     !.title = artemis.title \/ call.title,
                                     !.end = call.state]
      BY <2>1, <2>2, <2>4, <3>1 DEF Received, ArtemisRecord
    <3>4. artemis' = [artemis EXCEPT !.last = artemis.end, !.answer = artemis.answer,
                                     !.title = artemis.title, !.end = artemis.end]
      BY <3>1, <3>2, <3>3
    <3>5. QED
      BY <2>2, <3>4 DEF Repeats, ArtemisRecord
  <2>5. QED
    BY <2>1, <2>3, <2>4
<1>4. CASE PostQueued
  <2>1. /\ queue # <<>> /\ UNCHANGED <<stage, call, terminal>>
    BY <1>4 DEF PostQueued, pipeline
  <2>2. artemis'.end = artemis.end
    BY <1>0, <1>4, ReceivedType DEF PostQueued, States, Terminals
  <2>3. QED
    BY <1>0, <2>1, <2>2 DEF EndsLast, Calling, Terminals
<1>5. ASSUME NEW e \in Emits, Snapshot(e) \/ Enqueue(e)
      PROVE  EndsLast' /\ artemis' = artemis
  <2>1. /\ UNCHANGED <<stage, call, terminal, artemis>>
        /\ terminal => UNCHANGED queue
    BY <1>5 DEF Snapshot, Enqueue, pipeline, callback
  <2>2. QED
    BY <1>0, <2>1 DEF EndsLast, Calling
<1>6. CASE Aside
  <2>1. /\ UNCHANGED <<queue, call, terminal>>
        /\ artemis'.end = artemis.end /\ artemis'.answer = artemis.answer
        /\ artemis'.title = artemis.title
        /\ stage \in Trailing => stage' \in Trailing
        /\ artemis' # artemis /\ stage \notin Drafting => Straggles
    BY <1>0, <1>6, AsideKeeps DEF callback
  <2>2. EndsLast'
    BY <1>0, <2>1 DEF EndsLast, Calling
  <2>3. artemis.end # "none" => stage \notin Drafting
    BY <1>0 DEF EndsLast, Trailing, Drafting
  <2>4. QED
    BY <2>1, <2>2, <2>3
<1>7. QED
  BY <1>1, <1>2, <1>3, <1>4, <1>5, <1>6, StepKinds

----------------------------------------------------------------------------
(* The answer *)

\* An answer is kept until Artemis has it.
LEMMA AnswerStep ==
    ASSUME RunInv, TypeOK', [Next]_vars
    PROVE  AnswerKept' /\ TerminalHasAnswer'
<1>0. /\ TypeOK /\ FailsBelow /\ EndsLast /\ AnswerKept /\ TerminalHasAnswer
      /\ SenderDrafting /\ LateOnce
  BY DEF RunInv
<1>1. CASE Synchronous
  <2>1. PICK op \in Ops, state \in States, withTitle \in BOOLEAN :
            /\ Calls(op, state, withTitle)
            /\ state \in Terminals => op = "fields"
            /\ answered' = answered \/ (op = "result" /\ stage = "hook")
    BY <1>0, <1>1, SynchronousCalls
  <2>2. /\ call = NoCall
        /\ UNCHANGED <<undelivered, artemis>>
        /\ \/ terminal /\ UNCHANGED <<call, terminal>>
           \/ /\ ~terminal /\ call'.phase = "drain" /\ call'.state = state /\ call'.op = op
              /\ call'.carried => call'.answer
              /\ op = "result" => call'.answer
              /\ op = "fields" /\ undelivered => call'.answer
    BY <1>0, <2>1, Begins
  <2>3. answered => artemis.answer \/ undelivered
    BY <1>0, <2>2 DEF AnswerKept, Calling, NoCall
  <2>4. CASE terminal /\ UNCHANGED <<call, terminal>>
    <3>1. answered' = answered
      BY <1>0, <2>1, <2>4 DEF EndsLast, Trailing
    <3>2. ~Calling'
      BY <2>2, <2>4 DEF Calling, NoCall
    <3>3. QED
      BY <1>0, <2>2, <2>3, <3>1, <3>2 DEF AnswerKept, TerminalHasAnswer
  <2>5. CASE ~terminal /\ call'.phase = "drain"
    <3>1. artemis.end = "none"
      BY <1>0, <2>5 DEF EndsLast
    <3>2. state \in Terminals => answered' = answered
      BY <2>1
    <3>3. AnswerKept'
      BY <2>1, <2>2, <2>3, <2>5, <3>2 DEF AnswerKept, Calling, NoCall
    <3>4. QED
      BY <2>2, <3>1, <3>3 DEF TerminalHasAnswer
  <2>6. QED
    BY <2>2, <2>4, <2>5
<1>2. CASE Drain
  <2>1. /\ UNCHANGED <<answered, undelivered, artemis>> /\ call.phase = "drain"
    BY <1>2 DEF Drain, pipeline
  <2>2. /\ call'.op = call.op /\ call'.state = call.state
        /\ call'.answer = call.answer /\ call'.carried = call.carried
        /\ call'.phase \in {"drain", "post"}
    BY <1>0, <1>2, DrainType
  <2>3. QED
    BY <1>0, <2>1, <2>2 DEF AnswerKept, TerminalHasAnswer, Calling
<1>3. CASE Post
  <2>1. PICK o \in Outcomes :
               /\ call \in Call /\ call.phase = "post"
               /\ o.received => /\ artemis'.end = IF call.state \in Terminals THEN call.state
                                                  ELSE artemis.end
                                /\ artemis'.answer <=> artemis.answer \/ call.answer
               /\ ~o.received => artemis' = artemis /\ ~o.ok
               /\ \/ /\ call'.phase = "post"
                     /\ call'.op = call.op /\ call'.state = call.state
                     /\ call'.answer = call.answer /\ call'.carried = call.carried
                     /\ undelivered' = undelivered
                  \/ /\ call' = NoCall
                     /\ o.ok => (undelivered' <=> undelivered /\ ~call.carried)
                     /\ ~o.ok => (undelivered' <=> undelivered \/ call.op = "result")
               /\ UNCHANGED pipeline
    BY <1>0, <1>3, PostType
  <2>2. answered' = answered /\ Calling
    BY <2>1 DEF pipeline, Calling
  <2>3. /\ artemis.answer => artemis'.answer
        /\ o.received /\ call.answer => artemis'.answer
        /\ o.ok => o.received
    BY <2>1
  <2>4. answered => artemis'.answer \/ undelivered' \/ (Calling' /\ call'.op = "result")
    BY <1>0, <2>1, <2>2, <2>3 DEF AnswerKept, Calling
  <2>5. AnswerKept'
    BY <1>0, <2>1, <2>2, <2>3, <2>4 DEF AnswerKept, Calling, NoCall
  <2>6. TerminalHasAnswer'
    <3>1. CASE o.received
      BY <1>0, <2>1, <2>2, <2>3, <3>1 DEF AnswerKept, TerminalHasAnswer
    <3>2. CASE ~o.received
      BY <1>0, <2>1, <2>2, <3>2 DEF TerminalHasAnswer
    <3>3. QED
      BY <3>1, <3>2
  <2>7. QED
    BY <2>5, <2>6
<1>4. CASE PostQueued
  <2>1. UNCHANGED <<answered, undelivered, call>> /\ queue # <<>>
    BY <1>4 DEF PostQueued, pipeline
  <2>2. /\ artemis'.end = artemis.end
        /\ artemis'.answer <=> artemis.answer
    BY <1>0, <1>4, ReceivedType DEF PostQueued, States, Terminals
  <2>3. QED
    BY <1>0, <2>1, <2>2 DEF AnswerKept, TerminalHasAnswer, Calling, Terminals
<1>5. ASSUME NEW e \in Emits, Snapshot(e) \/ Enqueue(e)
      PROVE  AnswerKept' /\ TerminalHasAnswer'
  <2>1. UNCHANGED <<answered, undelivered, call, artemis>>
    BY <1>5 DEF Snapshot, Enqueue, pipeline, callback
  <2>2. QED
    BY <1>0, <2>1 DEF AnswerKept, TerminalHasAnswer, Calling
<1>6. CASE Aside
  <2>1. /\ UNCHANGED <<answered, undelivered, call>>
        /\ artemis'.end = artemis.end /\ artemis'.answer = artemis.answer
    BY <1>0, <1>6, AsideKeeps DEF callback
  <2>2. QED
    BY <1>0, <2>1 DEF AnswerKept, TerminalHasAnswer, Calling
<1>7. QED
  BY <1>1, <1>2, <1>3, <1>4, <1>5, <1>6, StepKinds

----------------------------------------------------------------------------
(* Drafts *)

\* A draft is posted while its sender lives.
LEMMA DraftStep ==
    ASSUME RunInv, TypeOK', [Next]_vars
    PROVE  SenderDrafting' /\ LateOnce'
<1>0. TypeOK /\ FailsBelow /\ SenderDrafting /\ LateOnce
  BY DEF RunInv
<1>1. CASE Synchronous
  <2>1. PICK op \in Ops, state \in States, withTitle \in BOOLEAN :
            /\ Calls(op, state, withTitle)
            /\ gaveUp' = gaveUp /\ exercise' = exercise
            /\ stage' = stage \/ stage' \notin Drafting \cup {"unrefined"}
            /\ stage \in Drafting <=> stage' \in Drafting
            /\ stage' \in Early => stage \in Early
    BY <1>0, <1>1, SynchronousCalls
  <2>2. UNCHANGED <<sender, late>>
    BY <1>0, <2>1, Begins
  <2>3. QED
    BY <1>0, <2>1, <2>2 DEF SenderDrafting, LateOnce, DraftsStopFirst, Drafting
<1>2. CASE Drain \/ Post
  <2>1. UNCHANGED <<stage, exercise, sender, gaveUp, late>>
    BY <1>2 DEF Drain, Post, pipeline
  <2>2. QED
    BY <1>0, <2>1 DEF SenderDrafting, LateOnce, DraftsStopFirst
<1>4. CASE PostQueued
  <2>1. UNCHANGED <<stage, exercise, sender, gaveUp, late>>
    BY <1>4 DEF PostQueued, pipeline
  <2>2. QED
    BY <1>0, <2>1 DEF SenderDrafting, LateOnce, DraftsStopFirst
<1>5. ASSUME NEW e \in Emits, Snapshot(e) \/ Enqueue(e)
      PROVE  SenderDrafting' /\ LateOnce'
  <2>1. UNCHANGED <<stage, exercise, sender, gaveUp, late>>
    BY <1>5 DEF Snapshot, Enqueue, pipeline
  <2>2. QED
    BY <1>0, <2>1 DEF SenderDrafting, LateOnce, DraftsStopFirst
<1>6. CASE Aside
  BY <1>0, <1>6, AsideKeeps
<1>7. QED
  BY <1>1, <1>2, <1>4, <1>5, <1>6, StepKinds

----------------------------------------------------------------------------
(* Theorems *)

LEMMA RunInvInit == Init => RunInv
<1> SUFFICES ASSUME Init PROVE RunInv
  OBVIOUS
<1>1. TypeOK /\ FailsBelow
  BY TypeInit
<1>2. /\ call = NoCall /\ queue = <<>> /\ artemis.end = "none"
      /\ answered = FALSE /\ terminal = FALSE /\ sender.state = "off" /\ late = 0
  BY DEF Init, NoSender
<1>3. ToSet(queue) = {}
  BY <1>1, <1>2, EmptySet DEF TypeOK
<1>4. ~Calling
  BY <1>2 DEF Calling, NoCall
<1>5. QueuedTracked /\ QueuedDone /\ QueuedFirst
  BY <1>3, <1>4 DEF QueuedTracked, QueuedDone, QueuedFirst, Calling
<1>6. EndsLast /\ AnswerKept /\ TerminalHasAnswer
  BY <1>2, <1>4 DEF EndsLast, AnswerKept, TerminalHasAnswer, Terminals, Calling
<1>7. SenderDrafting /\ LateOnce
  BY <1>2 DEF SenderDrafting, LateOnce, DraftsStopFirst
<1>8. QED
  BY <1>1, <1>5, <1>6, <1>7 DEF RunInv

LEMMA RunInvStep == RunInv /\ [Next]_vars => RunInv'
<1> SUFFICES ASSUME RunInv, [Next]_vars PROVE RunInv'
  OBVIOUS
<1>1. TypeOK' /\ FailsBelow'
  BY TypeStep DEF RunInv
<1>2. QED
  BY <1>1, QueueStep, EndStep, AnswerStep, DraftStep DEF RunInv

\* A synchronous call posts nothing before what was queued when it began, for
\* any number of events and any interleaving with the threads that queue them.
THEOREM ActivitiesFirst == Spec => []QueuedFirst
<1>1. RunInv => QueuedFirst
  BY DEF RunInv
<1>2. QED
  BY <1>1, RunInvInit, RunInvStep, PTL DEF Spec

\* Whoever has the terminal update of a run that answered has the answer,
\* whatever POSTs failed on the way.
THEOREM AnswerBeforeEnd == Spec => []TerminalHasAnswer
<1>1. RunInv => TerminalHasAnswer
  BY DEF RunInv
<1>2. QED
  BY <1>1, RunInvInit, RunInvStep, PTL DEF Spec

\* After a terminal update Artemis hears of the run only that update again and,
\* if stop() gave up on it, the one draft that was under way.
THEOREM EndIsLast == Spec => NothingAfterTerminal
<1>1. RunInv /\ [Next]_vars =>
          [artemis.end # "none" /\ artemis' # artemis => Repeats \/ Straggles]_vars
  BY RunInvStep, EndStep DEF RunInv
<1>2. QED
  BY <1>1, RunInvInit, RunInvStep, PTL DEF Spec, NothingAfterTerminal

\* No draft of the agent's answer, nor of its refinement, arrives outside the
\* stage that streams it if stop() waited for the sender; else at most one does.
THEOREM DraftsEnd == Spec => []DraftsStopFirst
<1>1. RunInv => DraftsStopFirst
  BY DEF RunInv, LateOnce
<1>2. QED
  BY <1>1, RunInvInit, RunInvStep, PTL DEF Spec
=============================================================================

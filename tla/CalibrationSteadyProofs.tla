----------------------- MODULE CalibrationSteadyProofs -----------------------
(* Calibration for any number of workers and commands while nothing breaks   *)
(* and only the orchestrator starts sessions: one worker at a time           *)
(* calibrates, and the mark of a worker covers its session.                  *)
EXTENDS CalibrationProofs

----------------------------------------------------------------------------
(* The invariant *)

\* A worker that has not begun a session, and about which nothing is on its way.
Idle(w) ==
    /\ w \notin live
    /\ unsent[w] = <<>>
    /\ \A i \in DOMAIN up[w] : up[w][i].type # "event"

\* A session that was begun and of whose end the orchestrator does not know.
Begun(w) ==
    \/ w \in live
    \/ \E i \in DOMAIN unsent[w] : unsent[w][i] = "ended"
    \/ \E i \in DOMAIN up[w] : up[w][i].type = "event" /\ up[w][i].event = "ended"

\* What is left of the greeting of a worker that does not calibrate.
Greetings == {<<Hello(FALSE), Status>>, <<Status>>}

\* A worker connects once; it is greeted before anything is sent to it.
Connected ==
    \A w \in Workers :
        /\ w \in link <=> sess[w] # "none"
        /\ sess[w] = "none" => up[w] = <<>>
        /\ sess[w] = "attached" => up[w] \in Greetings
        /\ sess[w] # "ready" => down[w] = <<>> /\ busy[w] = None
        /\ sess[w] = "ready" => \A i \in DOMAIN up[w] : up[w][i].type \in {"result", "event"}

\* The calls: the tick awaits one at a time, and only a start or a growth is
\* ever refused.
CallsOK ==
    /\ \A c \in Calls : call[c] # None =>
          /\ sess[call[c].to] = "ready" /\ call[c].open
          /\ call[c].state # "offline"
          /\ call[c].by = "tick" <=> call[c].action # "grow"
          /\ call[c].state = "refused" => call[c].action # "stop"
          /\ call[c].action = "start" /\ Waiting(c) => ~call[c].was
    /\ \A c, d \in Calls : Waiting(c) /\ Waiting(d) /\ call[c].by = "tick" /\ call[d].by = "tick"
                              => c = d

\* What a worker has in hand, and what it answered, are commands it was sent.
Mentioned ==
    \A w \in Workers :
        /\ \A i \in DOMAIN down[w] : call[down[w][i]] # None
        /\ busy[w] # None => call[busy[w]] # None /\ call[busy[w]].action # "start"
        /\ \A i \in DOMAIN up[w] : up[w][i].type = "result" =>
              /\ call[up[w][i].call] # None
              /\ ~up[w][i].ok => call[up[w][i].call].action # "stop"

\* The slot says which worker calibrates, and so does the mark.
SlotOK ==
    \A w \in Workers :
        /\ mark[w] <=> slot = w
        /\ slot # w => Idle(w)
        /\ slot = w =>
              /\ sess[w] = "ready"
              /\ \/ Begun(w)
                 \/ \E c \in Calls : Waiting(c) /\ call[c].action = "start" /\ call[c].to = w

\* A command to start is on its way only to the worker of the slot, which is
\* idle, and only once.
StartsDown ==
    \A w \in Workers : \A i \in DOMAIN down[w] : call[down[w][i]].action = "start" =>
        /\ call[down[w][i]].state = "waiting" /\ call[down[w][i]].to = w
        /\ slot = w /\ Idle(w)
        /\ \A j \in DOMAIN down[w] : call[down[w][j]].action = "start" => j = i
        /\ \A j \in DOMAIN up[w] : up[w][j].type = "result" => up[w][j].call # down[w][i]

\* An answer to it tells what the worker did.
StartsUp ==
    \A w \in Workers : \A i \in DOMAIN up[w] :
        up[w][i].type = "result" /\ call[up[w][i].call].action = "start"
            /\ call[up[w][i].call].state = "waiting" =>
        /\ call[up[w][i].call].to = w
        /\ up[w][i].ok => (slot = w => Begun(w))
        /\ ~up[w][i].ok => slot = w /\ Idle(w)

\* So does the answer that was read and that the tick has not taken up.
StartsAnswered ==
    \A c \in Calls, w \in Workers :
        call[c] # None /\ call[c].action = "start" /\ call[c].to = w =>
            /\ call[c].state = "ok" => (slot = w => Begun(w))
            /\ call[c].state = "refused" => slot = w /\ Idle(w)

\* A session's end is the last that is heard of it.
EndsLast ==
    \A w \in Workers :
        /\ \A i \in DOMAIN unsent[w] : unsent[w][i] = "ended" => w \notin live /\ i = Len(unsent[w])
        /\ \A i \in DOMAIN up[w] : up[w][i].type = "event" /\ up[w][i].event = "ended" =>
              /\ w \notin live /\ unsent[w] = <<>>
              /\ \A j \in DOMAIN up[w] : up[w][j].type = "event" => j <= i

SteadyInv ==
    /\ TypeOK
    /\ Connected /\ CallsOK /\ Mentioned
    /\ SlotOK /\ StartsDown /\ StartsUp /\ StartsAnswered /\ EndsLast

----------------------------------------------------------------------------
(* What the invariant says of a worker *)

\* A command to start is the tick's, so no two of them are under way.
LEMMA OneStart ==
    ASSUME TypeOK, CallsOK, NEW c \in Calls, NEW d \in Calls, Waiting(c), Waiting(d),
           call[c].action = "start", call[d].action # "grow"
    PROVE  c = d
BY DEF CallsOK, Waiting

----------------------------------------------------------------------------
(* A worker's own steps *)

\* What a step of w at its end of the socket changes: it reads a command or
\* none, and sends the message m or none.
OwnSide(w, reads, sends, m) ==
    /\ UNCHANGED <<slot, mark, sess, call, link>>
    /\ sess[w] = "ready"
    /\ \A v \in Workers \ {w} :
          /\ down'[v] = down[v] /\ up'[v] = up[v] /\ busy'[v] = busy[v] /\ unsent'[v] = unsent[v]
          /\ v \in live' <=> v \in live
    /\ IF reads THEN down[w] # <<>> /\ down'[w] = Tail(down[w]) ELSE down'[w] = down[w]
    /\ IF sends THEN up'[w] = Append(up[w], m) ELSE up'[w] = up[w]

\* What m may be.
Answers(w, reads, m) ==
    /\ m \in Message /\ m.type \in {"result", "event"}
    /\ m.type = "result" =>
          /\ call[m.call] # None
          /\ ~m.ok => call[m.call].action # "stop"
          /\ call[m.call].action = "start" => reads /\ m.call = Head(down[w])

\* Whether w is idle, and whether it has begun, changes only with its answer to
\* the command to start.
Accepts(sends, m) ==
    sends /\ m.type = "result" /\ m.ok /\ call[m.call].action = "start"

Turns(w, sends, m) ==
    /\ Begun(w) \/ Accepts(sends, m) => Begun(w)'
    /\ Idle(w) => Idle(w)' \/ Accepts(sends, m)

\* What is left of the commands, and what is added to the answers.
LEMMA OwnQueues ==
    ASSUME TypeOK, NEW w \in Workers, NEW reads \in BOOLEAN, NEW sends \in BOOLEAN, NEW m,
           OwnSide(w, reads, sends, m), Answers(w, reads, m)
    PROVE  /\ \A i \in DOMAIN down'[w] :
                 \E k \in DOMAIN down[w] :
                    /\ down'[w][i] = down[w][k]
                    /\ ~reads => i = k
                    /\ reads => i = k - 1 /\ k # 1
           /\ \A i \in DOMAIN up'[w] :
                 \/ i \in DOMAIN up[w] /\ up'[w][i] = up[w][i]
                 \/ sends /\ up'[w][i] = m
           /\ \A i \in DOMAIN up[w] : i \in DOMAIN up'[w] /\ up'[w][i] = up[w][i]
           /\ reads => 1 \in DOMAIN down[w] /\ Head(down[w]) = down[w][1]
           /\ \A k \in DOMAIN down[w] : k \in Nat
<1>1. down[w] \in Seq(Calls) /\ up[w] \in Seq(Message)
  BY Queued
<1>2. \A i \in DOMAIN down'[w] :
         \E k \in DOMAIN down[w] :
            /\ down'[w][i] = down[w][k]
            /\ ~reads => i = k
            /\ reads => i = k - 1 /\ k # 1
  <2>1. CASE reads
    <3>1. down[w] # <<>> /\ down'[w] = Tail(down[w])
      BY <2>1 DEF OwnSide
    <3>2. \A i \in DOMAIN Tail(down[w]) : i \in Nat \ {0} /\ i + 1 \in DOMAIN down[w]
                                          /\ Tail(down[w])[i] = down[w][i + 1]
      BY <1>1, <3>1, TailView
    <3>3. \A i \in DOMAIN down'[w] : i \in Nat \ {0} /\ i + 1 \in DOMAIN down[w]
                                          /\ down'[w][i] = down[w][i + 1]
      BY <3>1, <3>2
    <3>4. QED
      BY <2>1, <3>3
  <2>2. CASE ~reads
    BY <2>2 DEF OwnSide
  <2>3. QED
    BY <2>1, <2>2
<1>3. /\ \A i \in DOMAIN up'[w] :
            \/ i \in DOMAIN up[w] /\ up'[w][i] = up[w][i]
            \/ sends /\ up'[w][i] = m
      /\ \A i \in DOMAIN up[w] : i \in DOMAIN up'[w] /\ up'[w][i] = up[w][i]
  <2>1. CASE sends
    BY <1>1, <2>1, AppendView DEF OwnSide, Answers
  <2>2. CASE ~sends
    BY <2>2 DEF OwnSide
  <2>3. QED
    BY <2>1, <2>2
<1>4. /\ reads => 1 \in DOMAIN down[w] /\ Head(down[w]) = down[w][1]
      /\ \A k \in DOMAIN down[w] : k \in Nat
  <2>1. reads => down[w] # <<>>
    BY DEF OwnSide
  <2>2. \A k \in DOMAIN down[w] : k \in Nat
    BY <1>1, LenProperties
  <2>3. QED
    BY <1>1, <2>1, <2>2, TailView
<1>5. QED
  BY <1>2, <1>3, <1>4

\* Nobody else turns.
LEMMA OthersRest ==
    ASSUME NEW w \in Workers, NEW reads \in BOOLEAN, NEW sends \in BOOLEAN, NEW m,
           OwnSide(w, reads, sends, m), NEW v \in Workers, v # w
    PROVE  /\ Idle(v)' <=> Idle(v)
           /\ Begun(v)' <=> Begun(v)
<1>1. up'[v] = up[v] /\ unsent'[v] = unsent[v] /\ (v \in live' <=> v \in live)
  BY DEF OwnSide
<1>2. Idle(v)' <=> Idle(v)
  BY <1>1 DEF Idle
<1>3. Begun(v)' <=> Begun(v)
  BY <1>1 DEF Begun
<1>4. QED
  BY <1>2, <1>3

\* Such a step keeps the invariant but for the order of a session's events.
LEMMA OwnSideKeeps ==
    ASSUME SteadyInv, NEW w \in Workers, NEW reads \in BOOLEAN, NEW sends \in BOOLEAN, NEW m,
           OwnSide(w, reads, sends, m), Answers(w, reads, m), Turns(w, sends, m),
           busy'[w] # None => call[busy'[w]] # None /\ call[busy'[w]].action # "start"
    PROVE  Connected' /\ CallsOK' /\ Mentioned' /\ SlotOK' /\ StartsDown' /\ StartsUp' /\ StartsAnswered'
<1>0. TypeOK
  BY DEF SteadyInv
<1>1. /\ UNCHANGED <<slot, mark, sess, call, link>> /\ sess[w] = "ready"
      /\ \A v \in Workers \ {w} :
           /\ down'[v] = down[v] /\ up'[v] = up[v] /\ busy'[v] = busy[v] /\ unsent'[v] = unsent[v]
           /\ v \in live' <=> v \in live
  BY DEF OwnSide
<1>2. /\ \A i \in DOMAIN down'[w] :
            \E k \in DOMAIN down[w] :
               /\ down'[w][i] = down[w][k]
               /\ ~reads => i = k
               /\ reads => i = k - 1 /\ k # 1
      /\ \A i \in DOMAIN up'[w] :
            \/ i \in DOMAIN up[w] /\ up'[w][i] = up[w][i]
            \/ sends /\ up'[w][i] = m
      /\ \A i \in DOMAIN up[w] : i \in DOMAIN up'[w] /\ up'[w][i] = up[w][i]
      /\ reads => 1 \in DOMAIN down[w] /\ Head(down[w]) = down[w][1]
      /\ \A k \in DOMAIN down[w] : k \in Nat
  BY <1>0, OwnQueues
<1>3. \A v \in Workers \ {w} : (Idle(v)' <=> Idle(v)) /\ (Begun(v)' <=> Begun(v))
  BY OthersRest
<1>4. \A v \in Workers : Begun(v) => Begun(v)'
  BY <1>3 DEF Turns
<1>5. \A c \in Calls : Waiting(c)' <=> Waiting(c)
  BY <1>1 DEF Waiting
<1>6. Connected'
  <2>1. \A i \in DOMAIN up'[w] : up'[w][i].type \in {"result", "event"}
    BY <1>1, <1>2 DEF SteadyInv, Connected, Answers
  <2>2. QED
    BY <1>1, <2>1 DEF SteadyInv, Connected
<1>7. CallsOK'
  BY <1>1, <1>5 DEF SteadyInv, CallsOK
<1>8. Mentioned'
  <2>1. /\ \A i \in DOMAIN down'[w] : call[down'[w][i]] # None
        /\ \A i \in DOMAIN up'[w] : up'[w][i].type = "result" =>
              /\ call[up'[w][i].call] # None
              /\ ~up'[w][i].ok => call[up'[w][i].call].action # "stop"
    BY <1>2 DEF SteadyInv, Mentioned, Answers
  <2>2. QED
    BY <1>1, <2>1 DEF SteadyInv, Mentioned
\* The turn that the command to start makes leaves no trace of that command
\* but the answer.
<1>9. ASSUME Idle(w), ~Idle(w)'
      PROVE  /\ slot = w /\ Begun(w)'
             /\ \A i \in DOMAIN down'[w] : call[down'[w][i]].action # "start"
             /\ \A i \in DOMAIN up'[w] :
                   up'[w][i].type = "result" /\ call[up'[w][i].call].action = "start"
                      /\ call[up'[w][i].call].state = "waiting" => up'[w][i].ok
             /\ \A c \in Calls : call[c] # None /\ call[c].action = "start" =>
                   call[c].state # "refused"
  <2>1. /\ reads /\ sends /\ m.type = "result" /\ m.ok /\ m.call = Head(down[w])
        /\ call[m.call].action = "start" /\ Begun(w)'
    BY <1>9 DEF Turns, Accepts, Answers
  <2>2. 1 \in DOMAIN down[w] /\ m.call = down[w][1] /\ m.call \in Calls
    BY <1>0, <1>2, <2>1, Queued
  <2>3. /\ call[m.call].state = "waiting" /\ slot = w /\ call[m.call] # None
        /\ \A j \in DOMAIN down[w] : call[down[w][j]].action = "start" => j = 1
        /\ \A j \in DOMAIN up[w] : up[w][j].type = "result" => up[w][j].call # m.call
    BY <2>1, <2>2 DEF SteadyInv, StartsDown, Mentioned
  <2>4. \A i \in DOMAIN down'[w] : call[down'[w][i]].action # "start"
    BY <1>2, <2>1, <2>3
  <2>5. \A c \in Calls : call[c] # None /\ call[c].action = "start" /\ call[c].state # "over" => c = m.call
    BY <1>0, <2>1, <2>2, <2>3, OneStart DEF SteadyInv, Waiting
  <2>6. ASSUME NEW i \in DOMAIN up'[w], up'[w][i].type = "result",
               call[up'[w][i].call].action = "start", call[up'[w][i].call].state = "waiting"
        PROVE  up'[w][i].ok
    <3>1. CASE i \in DOMAIN up[w] /\ up'[w][i] = up[w][i]
      <4>1. up[w][i].call \in Calls /\ call[up[w][i].call] # None
        BY <1>0, <2>6, <3>1, Queued, MessageKinds DEF SteadyInv, Mentioned
      <4>2. QED
        BY <2>3, <2>5, <2>6, <3>1, <4>1
    <3>2. QED
      BY <1>2, <2>1, <2>6, <3>1
  <2>7. QED
    BY <2>1, <2>3, <2>4, <2>5, <2>6
<1>10. SlotOK'
  <2>1. \A v \in Workers : slot # v => Idle(v)'
    BY <1>3, <1>9 DEF SteadyInv, SlotOK
  <2>2. \A v \in Workers : slot = v =>
           Begun(v)' \/ \E c \in Calls : Waiting(c)' /\ call[c].action = "start" /\ call[c].to = v
    BY <1>4, <1>5 DEF SteadyInv, SlotOK
  <2>3. QED
    BY <1>1, <2>1, <2>2 DEF SteadyInv, SlotOK
<1>11. StartsDown'
  <2>1. SUFFICES ASSUME NEW v \in Workers, NEW i \in DOMAIN down'[v],
                        call[down'[v][i]].action = "start"
                 PROVE  /\ call[down'[v][i]].state = "waiting" /\ call[down'[v][i]].to = v
                        /\ slot = v /\ Idle(v)'
                        /\ \A j \in DOMAIN down'[v] : call[down'[v][j]].action = "start" => j = i
                        /\ \A j \in DOMAIN up'[v] :
                              up'[v][j].type = "result" => up'[v][j].call # down'[v][i]
    BY <1>1 DEF StartsDown
  <2>2. CASE v # w
    BY <1>1, <1>3, <2>1, <2>2 DEF SteadyInv, StartsDown
  <2>3. CASE v = w
    <3>1. PICK k \in DOMAIN down[w] :
             /\ down'[w][i] = down[w][k]
             /\ ~reads => i = k
             /\ reads => i = k - 1 /\ k # 1
      BY <1>2, <2>1, <2>3
    <3>2. /\ call[down[w][k]].state = "waiting" /\ call[down[w][k]].to = w /\ slot = w /\ Idle(w)
          /\ \A j \in DOMAIN down[w] : call[down[w][j]].action = "start" => j = k
          /\ \A j \in DOMAIN up[w] : up[w][j].type = "result" => up[w][j].call # down[w][k]
      BY <2>1, <2>3, <3>1 DEF SteadyInv, StartsDown
    <3>3. Idle(w)'
      BY <1>9, <2>1, <2>3, <3>2
    <3>4. \A j \in DOMAIN down'[w] : call[down'[w][j]].action = "start" => j = i
      BY <1>2, <3>1, <3>2
    <3>5. m.type = "result" => m.call # down'[w][i]
      BY <1>2, <2>1, <2>3, <3>1, <3>2 DEF Answers
    <3>6. QED
      BY <1>2, <2>3, <3>1, <3>2, <3>3, <3>4, <3>5
  <2>4. QED
    BY <2>2, <2>3
<1>12. StartsUp'
  <2>1. SUFFICES ASSUME NEW v \in Workers, NEW i \in DOMAIN up'[v],
                        up'[v][i].type = "result", call[up'[v][i].call].action = "start",
                        call[up'[v][i].call].state = "waiting"
                 PROVE  /\ call[up'[v][i].call].to = v
                        /\ up'[v][i].ok => (slot = v => Begun(v)')
                        /\ ~up'[v][i].ok => slot = v /\ Idle(v)'
    BY <1>1 DEF StartsUp
  <2>2. CASE v # w
    BY <1>1, <1>3, <2>1, <2>2 DEF SteadyInv, StartsUp
  <2>3. CASE v = w /\ i \in DOMAIN up[w] /\ up'[w][i] = up[w][i]
    <3>1. /\ call[up[w][i].call].to = w
          /\ up[w][i].ok => (slot = w => Begun(w))
          /\ ~up[w][i].ok => slot = w /\ Idle(w)
      BY <2>1, <2>3 DEF SteadyInv, StartsUp
    <3>2. QED
      BY <1>4, <1>9, <2>1, <2>3, <3>1
  <2>4. CASE v = w /\ sends /\ up'[w][i] = m
    <3>1. reads /\ m.call = down[w][1] /\ 1 \in DOMAIN down[w] /\ call[m.call].action = "start"
      BY <1>2, <2>1, <2>4 DEF Answers
    <3>2. call[m.call].to = w /\ slot = w /\ Idle(w)
      BY <3>1 DEF SteadyInv, StartsDown
    <3>3. m.ok => Begun(w)'
      BY <1>9, <2>1, <2>4, <3>2 DEF Turns, Accepts
    <3>4. ~m.ok => Idle(w)'
      BY <1>9, <2>1, <2>4, <3>2
    <3>5. QED
      BY <2>4, <3>2, <3>3, <3>4
  <2>5. QED
    BY <1>2, <2>1, <2>2, <2>3, <2>4
<1>13. StartsAnswered'
  <2>1. ASSUME NEW c \in Calls, NEW v \in Workers,
               call[c] # None, call[c].action = "start", call[c].to = v
        PROVE  /\ call[c].state = "ok" => (slot = v => Begun(v)')
               /\ call[c].state = "refused" => slot = v /\ Idle(v)'
    <3>1. call[c].state = "ok" => (slot = v => Begun(v)')
      BY <1>4, <2>1 DEF SteadyInv, StartsAnswered
    <3>2. call[c].state = "refused" => slot = v /\ Idle(v)'
      BY <1>3, <1>9, <2>1 DEF SteadyInv, StartsAnswered
    <3>3. QED
      BY <3>1, <3>2
  <2>2. QED
    BY <1>1, <2>1 DEF StartsAnswered
<1>14. QED
  BY <1>6, <1>7, <1>8, <1>10, <1>11, <1>12, <1>13

\* A command that w reads is one it was sent; one to start finds it idle.
LEMMA Commanded ==
    ASSUME SteadyInv, NEW w \in Workers, NEW action, NextCommand(w, action)
    PROVE  /\ sess[w] = "ready" /\ w \in link
           /\ Head(down[w]) \in Calls /\ call[Head(down[w])] # None
           /\ call[Head(down[w])].action = action
           /\ down[w] # <<>> /\ down'[w] = Tail(down[w])
           /\ \A v \in Workers \ {w} : down'[v] = down[v]
           /\ action = "start" => slot = w /\ Idle(w)
<1>0. TypeOK
  BY DEF SteadyInv
<1>1. down[w] # <<>> /\ call[Head(down[w])].action = action
      /\ down' = [down EXCEPT ![w] = Tail(down[w])]
  BY DEF NextCommand
<1>2. 1 \in DOMAIN down[w] /\ Head(down[w]) = down[w][1] /\ down[w][1] \in Calls
  BY <1>0, <1>1, Queued, TailView
<1>3. sess[w] = "ready" /\ w \in link
  BY <1>1 DEF SteadyInv, Connected
<1>4. call[Head(down[w])] # None
  BY <1>2 DEF SteadyInv, Mentioned
<1>5. action = "start" => slot = w /\ Idle(w)
  BY <1>1, <1>2 DEF SteadyInv, StartsDown
<1>6. down'[w] = Tail(down[w]) /\ \A v \in Workers \ {w} : down'[v] = down[v]
  BY <1>0, <1>1 DEF TypeOK
<1>7. QED
  BY <1>1, <1>2, <1>3, <1>4, <1>5, <1>6

\* An answer does not disturb the order of events.
LEMMA AnswerLast ==
    ASSUME SteadyInv, NEW w \in Workers, NEW reads \in BOOLEAN, NEW sends \in BOOLEAN, NEW m,
           OwnSide(w, reads, sends, m), Answers(w, reads, m), sends => m.type = "result",
           UNCHANGED <<live, unsent>>
    PROVE  EndsLast' /\ (Idle(w) => Idle(w)') /\ (Begun(w) => Begun(w)')
<1>0. TypeOK
  BY DEF SteadyInv
<1>1. /\ \A i \in DOMAIN up'[w] :
            \/ i \in DOMAIN up[w] /\ up'[w][i] = up[w][i]
            \/ up'[w][i].type = "result"
      /\ \A i \in DOMAIN up[w] : i \in DOMAIN up'[w] /\ up'[w][i] = up[w][i]
  BY <1>0, OwnQueues
<1>2. \A v \in Workers \ {w} : up'[v] = up[v]
  BY DEF OwnSide
<1>3. EndsLast'
  BY <1>1, <1>2 DEF SteadyInv, EndsLast
<1>4. Idle(w) => Idle(w)'
  BY <1>1 DEF Idle
<1>5. Begun(w) => Begun(w)'
  BY <1>1 DEF Begun
<1>6. QED
  BY <1>3, <1>4, <1>5

\* Commands but those to start: they only pass through the worker.
LEMMA PassThrough ==
    ASSUME SteadyInv, TypeOK', NEW w \in Workers,
           GrowBegins(w) \/ StopBegins(w) \/ GrowRefused(w) \/ BusyEnds(w)
    PROVE  SteadyInv'
<1>0. TypeOK
  BY DEF SteadyInv
<1>1. CASE GrowBegins(w) \/ StopBegins(w)
  <2>1. PICK action \in {"grow", "stop"} : NextCommand(w, action)
    BY <1>1 DEF GrowBegins, StopBegins
  <2>2. /\ sess[w] = "ready" /\ Head(down[w]) \in Calls /\ call[Head(down[w])] # None
        /\ call[Head(down[w])].action = action
        /\ down[w] # <<>> /\ down'[w] = Tail(down[w])
        /\ \A v \in Workers \ {w} : down'[v] = down[v]
    BY <2>1, Commanded
  <2>3. /\ UNCHANGED <<slot, mark, sess, call, link, up, live, unsent>>
        /\ busy'[w] = Head(down[w]) /\ \A v \in Workers \ {w} : busy'[v] = busy[v]
    BY <1>0, <1>1 DEF GrowBegins, StopBegins, orchVars, regVars, TypeOK
  <2>4. OwnSide(w, TRUE, FALSE, Event("ended"))
    BY <2>2, <2>3 DEF OwnSide
  <2>5. Answers(w, TRUE, Event("ended"))
    BY Messages DEF Answers, Event
  <2>6. EndsLast' /\ (Idle(w) => Idle(w)') /\ (Begun(w) => Begun(w)')
    BY <2>3, <2>4, <2>5, AnswerLast
  <2>7. Turns(w, FALSE, Event("ended"))
    BY <2>6 DEF Turns, Accepts
  <2>8. QED
    BY <2>2, <2>3, <2>4, <2>5, <2>6, <2>7, OwnSideKeeps DEF SteadyInv
<1>2. CASE GrowRefused(w)
  <2>1. NextCommand(w, "grow") /\ Reply(w, Head(down[w]), FALSE)
    BY <1>2 DEF GrowRefused
  <2>2. /\ sess[w] = "ready" /\ w \in link /\ Head(down[w]) \in Calls
        /\ call[Head(down[w])] # None /\ call[Head(down[w])].action = "grow"
        /\ down[w] # <<>> /\ down'[w] = Tail(down[w])
        /\ \A v \in Workers \ {w} : down'[v] = down[v]
    BY <2>1, Commanded
  <2>3. PICK m : m = Result(Head(down[w]), FALSE)
    OBVIOUS
  <2>4. /\ m \in Message /\ m.type = "result" /\ m.call = Head(down[w]) /\ ~m.ok
    BY <2>2, <2>3, Messages DEF Result
  <2>5. /\ UNCHANGED <<slot, mark, sess, call, link, busy, live, unsent>>
        /\ up'[w] = Append(up[w], m) /\ \A v \in Workers \ {w} : up'[v] = up[v]
    BY <1>0, <1>2, <2>1, <2>2, <2>3 DEF GrowRefused, Reply, orchVars, regVars, nodeVars, TypeOK
  <2>6. OwnSide(w, TRUE, TRUE, m)
    BY <2>2, <2>5 DEF OwnSide
  <2>7. Answers(w, TRUE, m)
    BY <2>2, <2>4 DEF Answers
  <2>8. EndsLast' /\ (Idle(w) => Idle(w)') /\ (Begun(w) => Begun(w)')
    BY <2>4, <2>5, <2>6, <2>7, AnswerLast
  <2>9. Turns(w, TRUE, m)
    BY <2>2, <2>4, <2>8 DEF Turns, Accepts
  <2>10. busy'[w] # None => call[busy'[w]] # None /\ call[busy'[w]].action # "start"
    BY <2>5 DEF SteadyInv, Mentioned
  <2>11. QED
    BY <2>6, <2>7, <2>8, <2>9, <2>10, OwnSideKeeps DEF SteadyInv
<1>3. CASE BusyEnds(w)
  <2>1. /\ busy[w] \in Calls /\ call[busy[w]] # None /\ call[busy[w]].action # "start"
        /\ sess[w] = "ready" /\ w \in link
    BY <1>0, <1>3 DEF BusyEnds, SteadyInv, Mentioned, Connected, TypeOK
  <2>2. PICK m : m = Result(busy[w], TRUE)
    OBVIOUS
  <2>3. /\ m \in Message /\ m.type = "result" /\ m.call = busy[w] /\ m.ok
    BY <2>1, <2>2, Messages DEF Result
  <2>4. /\ UNCHANGED <<slot, mark, sess, call, link, down, live, unsent>>
        /\ up'[w] = Append(up[w], m) /\ \A v \in Workers \ {w} : up'[v] = up[v]
        /\ busy'[w] = None /\ \A v \in Workers \ {w} : busy'[v] = busy[v]
    BY <1>0, <1>3, <2>1, <2>2 DEF BusyEnds, Reply, orchVars, regVars, TypeOK
  <2>5. OwnSide(w, FALSE, TRUE, m)
    BY <2>1, <2>4 DEF OwnSide
  <2>6. Answers(w, FALSE, m)
    BY <2>1, <2>3 DEF Answers
  <2>7. EndsLast' /\ (Idle(w) => Idle(w)') /\ (Begun(w) => Begun(w)')
    BY <2>3, <2>4, <2>5, <2>6, AnswerLast
  <2>8. Turns(w, TRUE, m)
    BY <2>1, <2>3, <2>7 DEF Turns, Accepts
  <2>9. QED
    BY <2>4, <2>5, <2>6, <2>7, <2>8, OwnSideKeeps DEF SteadyInv
<1>4. QED
  BY <1>1, <1>2, <1>3

\* The command to start.
LEMMA StartRead ==
    ASSUME SteadyInv, TypeOK', NEW w \in Workers,
           StartAccepted(w) \/ StartRefused(w) \/ StartRefusedUnhealthy(w)
    PROVE  SteadyInv'
<1>0. TypeOK
  BY DEF SteadyInv
<1>1. NextCommand(w, "start")
  BY DEF StartAccepted, StartRefused, StartRefusedUnhealthy
<1>2. /\ sess[w] = "ready" /\ w \in link /\ Head(down[w]) \in Calls
      /\ call[Head(down[w])] # None /\ call[Head(down[w])].action = "start"
      /\ down[w] # <<>> /\ down'[w] = Tail(down[w])
      /\ \A v \in Workers \ {w} : down'[v] = down[v]
      /\ slot = w /\ Idle(w)
  BY <1>1, Commanded
<1>3. CASE StartAccepted(w)
  <2>1. PICK m : m = Result(Head(down[w]), TRUE)
    OBVIOUS
  <2>2. /\ m \in Message /\ m.type = "result" /\ m.call = Head(down[w]) /\ m.ok
    BY <1>2, <2>1, Messages DEF Result
  <2>3. /\ UNCHANGED <<slot, mark, sess, call, link, busy>> /\ live' = live \cup {w}
        /\ up'[w] = Append(up[w], m) /\ \A v \in Workers \ {w} : up'[v] = up[v]
        /\ unsent'[w] = Append(<<>>, "started") /\ \A v \in Workers \ {w} : unsent'[v] = unsent[v]
    BY <1>0, <1>2, <1>3, <2>1 DEF StartAccepted, Reply, Record, Idle, orchVars, regVars, TypeOK
  <2>4. OwnSide(w, TRUE, TRUE, m)
    BY <1>2, <2>3 DEF OwnSide
  <2>5. Answers(w, TRUE, m)
    BY <1>2, <2>2 DEF Answers
  <2>6. Turns(w, TRUE, m)
    BY <1>2, <2>2, <2>3 DEF Turns, Accepts, Begun
  <2>7. EndsLast'
    <3>1. \A i \in DOMAIN up'[w] : up'[w][i].type # "event"
      <4>1. \A i \in DOMAIN up'[w] :
               \/ i \in DOMAIN up[w] /\ up'[w][i] = up[w][i]
               \/ up'[w][i] = m
        BY <1>0, <2>2, <2>3, Queued, AppendView
      <4>2. \A i \in DOMAIN up[w] : up[w][i].type # "event"
        BY <1>2 DEF Idle
      <4>3. QED
        BY <2>2, <4>1, <4>2
    <3>2. \A i \in DOMAIN unsent'[w] : unsent'[w][i] # "ended"
      BY <2>3
    <3>3. QED
      BY <2>3, <3>1, <3>2 DEF SteadyInv, EndsLast
  <2>8. busy'[w] # None => call[busy'[w]] # None /\ call[busy'[w]].action # "start"
    BY <2>3 DEF SteadyInv, Mentioned
  <2>9. QED
    BY <2>4, <2>5, <2>6, <2>7, <2>8, OwnSideKeeps DEF SteadyInv
<1>4. CASE StartRefusedUnhealthy(w)
  <2>1. PICK m : m = Result(Head(down[w]), FALSE)
    OBVIOUS
  <2>2. /\ m \in Message /\ m.type = "result" /\ m.call = Head(down[w]) /\ ~m.ok
    BY <1>2, <2>1, Messages DEF Result
  <2>3. /\ UNCHANGED <<slot, mark, sess, call, link, busy, live, unsent>>
        /\ up'[w] = Append(up[w], m) /\ \A v \in Workers \ {w} : up'[v] = up[v]
    BY <1>0, <1>2, <1>4, <2>1
       DEF StartRefusedUnhealthy, Reply, orchVars, regVars, nodeVars, TypeOK
  <2>4. OwnSide(w, TRUE, TRUE, m)
    BY <1>2, <2>3 DEF OwnSide
  <2>5. Answers(w, TRUE, m)
    BY <1>2, <2>2 DEF Answers
  <2>6. EndsLast' /\ (Idle(w) => Idle(w)') /\ (Begun(w) => Begun(w)')
    BY <2>2, <2>3, <2>4, <2>5, AnswerLast
  <2>7. Turns(w, TRUE, m)
    BY <2>2, <2>6 DEF Turns, Accepts
  <2>8. busy'[w] # None => call[busy'[w]] # None /\ call[busy'[w]].action # "start"
    BY <2>3 DEF SteadyInv, Mentioned
  <2>9. QED
    BY <2>4, <2>5, <2>6, <2>7, <2>8, OwnSideKeeps DEF SteadyInv
<1>5. CASE StartRefused(w)
  BY <1>2, <1>5 DEF StartRefused, Idle
<1>6. QED
  BY <1>3, <1>4, <1>5

\* A session ends, and what is to be told of it goes out.
LEMMA SessionTold ==
    ASSUME SteadyInv, TypeOK', NEW w \in Workers, SessionEnds(w) \/ EventForwarded(w)
    PROVE  SteadyInv'
<1>0. /\ TypeOK
      /\ unsent[w] \in Seq({"started", "ended"}) /\ up[w] \in Seq(Message)
  BY Queued DEF SteadyInv
<1>1. ~Idle(w) /\ sess[w] = "ready" /\ w \in link
  <2>1. ~Idle(w)
    BY DEF SessionEnds, EventForwarded, Idle
  <2>2. QED
    BY <2>1 DEF SteadyInv, SlotOK, Connected
<1>2. CASE SessionEnds(w)
  <2>1. /\ UNCHANGED <<slot, mark, sess, call, link, down, up, busy>> /\ live' = live \ {w} /\ w \in live
        /\ unsent'[w] = Append(unsent[w], "ended")
        /\ \A v \in Workers \ {w} : unsent'[v] = unsent[v]
    BY <1>0, <1>1, <1>2 DEF SessionEnds, Record, orchVars, regVars, wireVars, TypeOK
  <2>2. OwnSide(w, FALSE, FALSE, Event("ended"))
    BY <1>1, <2>1 DEF OwnSide
  <2>3. Answers(w, FALSE, Event("ended"))
    BY Messages DEF Answers, Event
  <2>4. /\ Len(unsent'[w]) = Len(unsent[w]) + 1
        /\ \A i \in DOMAIN unsent'[w] :
              \/ i \in DOMAIN unsent[w] /\ unsent'[w][i] = unsent[w][i]
              \/ i = Len(unsent[w]) + 1
        /\ Len(unsent[w]) + 1 \in DOMAIN unsent'[w] /\ unsent'[w][Len(unsent[w]) + 1] = "ended"
    BY <1>0, <2>1, AppendView
  <2>5. Begun(w)'
    BY <2>4 DEF Begun
  <2>6. Turns(w, FALSE, Event("ended"))
    BY <1>1, <2>5 DEF Turns
  <2>7. EndsLast'
    <3>1. /\ \A i \in DOMAIN unsent'[w] : unsent'[w][i] = "ended" => i = Len(unsent'[w])
          /\ \A i \in DOMAIN up'[w] : ~(up'[w][i].type = "event" /\ up'[w][i].event = "ended")
      BY <2>1, <2>4 DEF SteadyInv, EndsLast
    <3>2. QED
      BY <2>1, <3>1 DEF SteadyInv, EndsLast
  <2>8. busy'[w] # None => call[busy'[w]] # None /\ call[busy'[w]].action # "start"
    BY <2>1 DEF SteadyInv, Mentioned
  <2>9. QED
    BY <2>2, <2>3, <2>6, <2>7, <2>8, OwnSideKeeps DEF SteadyInv
<1>3. CASE EventForwarded(w)
  <2>1. unsent[w] # <<>>
    BY <1>3 DEF EventForwarded
  <2>2. /\ Len(unsent[w]) \in Nat \ {0} /\ DOMAIN unsent[w] = 1 .. Len(unsent[w])
        /\ Head(unsent[w]) = unsent[w][1]
        /\ \A i \in DOMAIN Tail(unsent[w]) :
              i \in Nat \ {0} /\ i + 1 \in DOMAIN unsent[w] /\ Tail(unsent[w])[i] = unsent[w][i + 1]
        /\ \A i \in DOMAIN unsent[w] :
              i # 1 => i - 1 \in DOMAIN Tail(unsent[w]) /\ Tail(unsent[w])[i - 1] = unsent[w][i]
    BY <1>0, <2>1, TailView
  <2>3. PICK m : m = Event(Head(unsent[w]))
    OBVIOUS
  <2>4. /\ m \in Message /\ m.type = "event" /\ m.event = unsent[w][1]
    BY <1>0, <2>2, <2>3, Queued, Messages DEF Event
  <2>5. /\ UNCHANGED <<slot, mark, sess, call, link, down, busy, live>>
        /\ unsent'[w] = Tail(unsent[w]) /\ \A v \in Workers \ {w} : unsent'[v] = unsent[v]
        /\ up'[w] = Append(up[w], m) /\ \A v \in Workers \ {w} : up'[v] = up[v]
    BY <1>0, <1>3, <2>3 DEF EventForwarded, orchVars, regVars, TypeOK
  <2>6. OwnSide(w, FALSE, TRUE, m)
    BY <1>1, <2>5 DEF OwnSide
  <2>7. Answers(w, FALSE, m)
    BY <2>4 DEF Answers
  <2>8. /\ Len(up[w]) \in Nat /\ DOMAIN up[w] = 1 .. Len(up[w])
        /\ DOMAIN up'[w] = 1 .. (Len(up[w]) + 1)
        /\ \A i \in DOMAIN up[w] : up'[w][i] = up[w][i]
        /\ up'[w][Len(up[w]) + 1] = m
    BY <1>0, <2>4, <2>5, AppendView
  <2>9. Begun(w) => Begun(w)'
    <3>1. CASE w \in live
      BY <2>5, <3>1 DEF Begun
    <3>2. ASSUME NEW i \in DOMAIN unsent[w], unsent[w][i] = "ended" PROVE Begun(w)'
      <4>1. CASE i = 1
        <5>1. /\ Len(up[w]) + 1 \in DOMAIN up'[w]
              /\ up'[w][Len(up[w]) + 1].type = "event" /\ up'[w][Len(up[w]) + 1].event = "ended"
          BY <2>4, <2>8, <3>2, <4>1
        <5>2. QED
          BY <5>1 DEF Begun
      <4>2. CASE i # 1
        <5>1. i - 1 \in DOMAIN unsent'[w] /\ unsent'[w][i - 1] = "ended"
          BY <2>2, <2>5, <3>2, <4>2
        <5>2. QED
          BY <5>1 DEF Begun
      <4>3. QED
        BY <4>1, <4>2
    <3>3. ASSUME NEW i \in DOMAIN up[w], up[w][i].type = "event", up[w][i].event = "ended"
          PROVE  Begun(w)'
      <4>1. i \in DOMAIN up'[w] /\ up'[w][i] = up[w][i]
        BY <2>8
      <4>2. QED
        BY <3>3, <4>1 DEF Begun
    <3>4. QED
      BY <3>1, <3>2, <3>3 DEF Begun
  <2>10. Turns(w, TRUE, m)
    BY <1>1, <2>4, <2>9 DEF Turns, Accepts
  <2>11. EndsLast'
    <3>1. \A i \in DOMAIN unsent'[w] : unsent'[w][i] = "ended" => w \notin live /\ i = Len(unsent'[w])
      <4>1. Len(unsent'[w]) = Len(unsent[w]) - 1
        BY <1>0, <2>1, <2>5, HeadTailProperties
      <4>2. QED
        BY <2>2, <2>5, <4>1 DEF SteadyInv, EndsLast
    <3>2. ASSUME NEW i \in DOMAIN up'[w], up'[w][i].type = "event", up'[w][i].event = "ended"
          PROVE  w \notin live /\ unsent'[w] = <<>> /\ i = Len(up[w]) + 1
      <4>1. i = Len(up[w]) + 1
        BY <2>1, <2>8, <3>2 DEF SteadyInv, EndsLast
      <4>2. 1 \in DOMAIN unsent[w] /\ unsent[w][1] = "ended"
        BY <2>2, <2>4, <2>8, <3>2, <4>1
      <4>3. w \notin live /\ Len(unsent[w]) = 1
        BY <4>2 DEF SteadyInv, EndsLast
      <4>4. Tail(unsent[w]) = <<>>
        <5>1. Tail(unsent[w]) \in Seq({"started", "ended"}) /\ Len(Tail(unsent[w])) = 0
          BY <1>0, <2>1, <4>3, HeadTailProperties
        <5>2. QED
          BY <5>1, EmptySeq
      <4>5. QED
        BY <2>5, <4>1, <4>3, <4>4
    <3>3. \A i \in DOMAIN up'[w] : up'[w][i].type = "event" /\ up'[w][i].event = "ended" =>
             /\ w \notin live' /\ unsent'[w] = <<>>
             /\ \A j \in DOMAIN up'[w] : up'[w][j].type = "event" => j <= i
      BY <2>5, <2>8, <3>2
    <3>4. QED
      BY <2>5, <3>1, <3>3 DEF SteadyInv, EndsLast
  <2>12. busy'[w] # None => call[busy'[w]] # None /\ call[busy'[w]].action # "start"
    BY <2>5 DEF SteadyInv, Mentioned
  <2>13. QED
    BY <2>6, <2>7, <2>10, <2>11, <2>12, OwnSideKeeps DEF SteadyInv
<1>4. QED
  BY <1>2, <1>3

----------------------------------------------------------------------------
(* The orchestrator's steps *)

\* Steps that touch neither the workers nor the calls.
LEMMA BooksOnly ==
    ASSUME SteadyInv, TypeOK', UNCHANGED <<slot, mark, sess, call, link, down, up, busy, live, unsent>>
    PROVE  SteadyInv'
<1>1. \A w \in Workers : (Idle(w)' <=> Idle(w)) /\ (Begun(w)' <=> Begun(w))
  BY DEF Idle, Begun
<1>2. \A c \in Calls : Waiting(c)' <=> Waiting(c)
  BY DEF Waiting
<1>3. Connected' /\ Mentioned' /\ EndsLast'
  BY DEF SteadyInv, Connected, Mentioned, EndsLast
<1>4. SlotOK' /\ StartsDown' /\ StartsUp' /\ StartsAnswered'
  BY <1>1, <1>2 DEF SteadyInv, SlotOK, StartsDown, StartsUp, StartsAnswered
<1>5. CallsOK'
  BY <1>2 DEF SteadyInv, CallsOK
<1>6. QED
  BY <1>3, <1>4, <1>5 DEF SteadyInv

\* A command is sent: a start while the slot is free, a stop while it is taken.
LEMMA SendSteady ==
    ASSUME SteadyInv, TypeOK', NEW c \in Calls, NEW w \in Workers,
           NEW action \in {"start", "stop", "grow"}, NEW by \in {"tick", "planner"},
           Send(c, w, action, by), UNCHANGED nodeVars, sess[w] = "ready",
           by = "tick" <=> action # "grow",
           by = "tick" => TickIdle,
           IF action = "start" THEN slot = None /\ slot' = w ELSE slot' = slot
    PROVE  SteadyInv'
<1>0. TypeOK
  BY DEF SteadyInv
<1>1. /\ UNCHANGED <<sess, link, up, busy, live, unsent>> /\ w \in link
      /\ call' = [call EXCEPT ![c] = [to |-> w, action |-> action, by |-> by,
                                      was |-> mark[w], open |-> TRUE, state |-> "waiting"]]
      /\ down'[w] = Append(down[w], c) /\ \A v \in Workers \ {w} : down'[v] = down[v]
  BY <1>0 DEF Send, nodeVars, SteadyInv, Connected, TypeOK
<1>2. /\ call'[c] # None /\ call'[c].to = w /\ call'[c].action = action /\ call'[c].by = by
      /\ call'[c].was = mark[w] /\ call'[c].open /\ call'[c].state = "waiting"
      /\ \A d \in Calls \ {c} : call'[d] = call[d]
  <2>1. call'[c] = [to |-> w, action |-> action, by |-> by,
                    was |-> mark[w], open |-> TRUE, state |-> "waiting"]
    BY <1>0, <1>1 DEF TypeOK
  <2>2. call'[c] \in CallRecord
    BY <1>0, <2>1 DEF TypeOK, CallRecord
  <2>3. QED
    BY <1>0, <1>1, <2>1, <2>2, NoneAssumption DEF TypeOK
<1>3. \A v \in Workers : (Idle(v)' <=> Idle(v)) /\ (Begun(v)' <=> Begun(v))
  BY <1>1 DEF Idle, Begun
<1>4. /\ ~Waiting(c) /\ Waiting(c)'
      /\ \A d \in Calls \ {c} : Waiting(d)' <=> Waiting(d)
  BY <1>2 DEF Send, Free, Waiting
<1>5. \A v \in Workers :
        /\ busy[v] # c
        /\ \A i \in DOMAIN down[v] : down[v][i] \in Calls \ {c}
        /\ \A i \in DOMAIN up[v] : up[v][i].type = "result" => up[v][i].call \in Calls \ {c}
  BY <1>0, Queued, MessageKinds DEF Send, Free
<1>6. \A v \in Workers : \A i \in DOMAIN down'[v] :
        \/ i \in DOMAIN down[v] /\ down'[v][i] = down[v][i]
        \/ v = w /\ down'[v][i] = c /\ i = Len(down[w]) + 1
  BY <1>0, <1>1, AppendView, Queued
<1>7. by = "tick" => \A d \in Calls : Waiting(d) => call[d].by # "tick"
  BY DEF TickIdle
<1>8. /\ \A v \in Workers : mark'[v] <=> slot' = v
      /\ action = "start" => ~mark[w]
  <2>1. CASE action = "start"
    <3>1. mark' = [mark EXCEPT ![w] = TRUE]
      BY <2>1 DEF Send, Marked
    <3>2. \A v \in Workers : ~mark[v]
      BY <2>1, CalibrationAssumption DEF SteadyInv, SlotOK
    <3>3. QED
      BY <1>0, <2>1, <3>1, <3>2 DEF TypeOK
  <2>2. CASE action # "start"
    BY <2>2 DEF Send, Marked, SteadyInv, SlotOK
  <2>3. QED
    BY <2>1, <2>2
<1>9. Connected'
  BY <1>1 DEF SteadyInv, Connected
<1>10. CallsOK'
  <2>1. ASSUME NEW d \in Calls, call'[d] # None
        PROVE  /\ sess'[call'[d].to] = "ready" /\ call'[d].open
               /\ call'[d].state # "offline"
               /\ call'[d].by = "tick" <=> call'[d].action # "grow"
               /\ call'[d].state = "refused" => call'[d].action # "stop"
               /\ call'[d].action = "start" /\ Waiting(d)' => ~call'[d].was
    <3>1. CASE d = c
      BY <1>1, <1>2, <1>8, <3>1
    <3>2. CASE d # c
      BY <1>1, <1>2, <1>4, <2>1, <3>2 DEF SteadyInv, CallsOK
    <3>3. QED
      BY <3>1, <3>2
  <2>2. ASSUME NEW d \in Calls, NEW e \in Calls, Waiting(d)', Waiting(e)',
               call'[d].by = "tick", call'[e].by = "tick"
        PROVE  d = e
    BY <1>2, <1>4, <1>7, <2>2 DEF SteadyInv, CallsOK
  <2>3. QED
    BY <2>1, <2>2 DEF CallsOK
<1>11. Mentioned'
  <2>1. SUFFICES ASSUME NEW v \in Workers
                 PROVE  /\ \A i \in DOMAIN down'[v] : call'[down'[v][i]] # None
                        /\ busy[v] # None => call'[busy[v]] # None /\ call'[busy[v]].action # "start"
                        /\ \A i \in DOMAIN up[v] : up[v][i].type = "result" =>
                              /\ call'[up[v][i].call] # None
                              /\ ~up[v][i].ok => call'[up[v][i].call].action # "stop"
    BY <1>1 DEF Mentioned
  <2>2. \A i \in DOMAIN down'[v] : call'[down'[v][i]] # None
    BY <1>2, <1>5, <1>6 DEF SteadyInv, Mentioned
  <2>3. busy[v] # None => busy[v] \in Calls \ {c}
    BY <1>0, <1>5 DEF TypeOK
  <2>4. QED
    BY <1>2, <1>5, <2>2, <2>3 DEF SteadyInv, Mentioned
<1>12. SlotOK'
  <2>1. \A v \in Workers : slot' # v => Idle(v)'
    BY <1>3, CalibrationAssumption DEF SteadyInv, SlotOK
  <2>2. ASSUME NEW v \in Workers, slot' = v
        PROVE  /\ sess'[v] = "ready"
               /\ \/ Begun(v)'
                  \/ \E d \in Calls : Waiting(d)' /\ call'[d].action = "start" /\ call'[d].to = v
    <3>1. CASE action = "start"
      BY <1>1, <1>2, <1>4, <2>2, <3>1
    <3>2. CASE action # "start"
      <4>1. sess[v] = "ready"
        BY <2>2, <3>2 DEF SteadyInv, SlotOK
      <4>2. CASE Begun(v)
        BY <1>1, <1>3, <4>1, <4>2
      <4>3. ASSUME NEW d \in Calls, Waiting(d), call[d].action = "start", call[d].to = v
            PROVE  Waiting(d)' /\ call'[d].action = "start" /\ call'[d].to = v
        BY <1>2, <1>4, <4>3
      <4>4. QED
        BY <1>1, <2>2, <3>2, <4>1, <4>2, <4>3 DEF SteadyInv, SlotOK
    <3>3. QED
      BY <3>1, <3>2
  <2>3. QED
    BY <1>8, <2>1, <2>2 DEF SlotOK
\* While a start is being sent, no other is under way.
<1>13. ASSUME action = "start", NEW d \in Calls \ {c}, call[d] # None, call[d].action = "start"
       PROVE  call[d].state = "over"
  BY <1>0, <1>7, <1>13 DEF SteadyInv, CallsOK, Waiting
<1>14. StartsDown'
  <2>1. SUFFICES ASSUME NEW v \in Workers, NEW i \in DOMAIN down'[v],
                        call'[down'[v][i]].action = "start"
                 PROVE  /\ call'[down'[v][i]].state = "waiting" /\ call'[down'[v][i]].to = v
                        /\ slot' = v /\ Idle(v)'
                        /\ \A j \in DOMAIN down'[v] : call'[down'[v][j]].action = "start" => j = i
                        /\ \A j \in DOMAIN up[v] :
                              up[v][j].type = "result" => up[v][j].call # down'[v][i]
    BY <1>1 DEF StartsDown
  <2>2. CASE action = "start"
    <3>1. \A u \in Workers : \A j \in DOMAIN down[u] : call[down[u][j]].action # "start"
      BY <1>5, <1>13, <2>2 DEF SteadyInv, StartsDown, Mentioned
    <3>2. v = w /\ down'[v][i] = c /\ i = Len(down[w]) + 1
      BY <1>2, <1>5, <1>6, <2>1, <3>1
    <3>3. \A j \in DOMAIN down'[w] : call'[down'[w][j]].action = "start" => j = i
      BY <1>2, <1>5, <1>6, <3>1, <3>2
    <3>4. Idle(w)
      BY <2>2, CalibrationAssumption DEF SteadyInv, SlotOK
    <3>5. QED
      BY <1>2, <1>3, <1>5, <2>2, <3>2, <3>3, <3>4
  <2>3. CASE action # "start"
    <3>1. i \in DOMAIN down[v] /\ down'[v][i] = down[v][i] /\ call'[down[v][i]] = call[down[v][i]]
      BY <1>2, <1>5, <1>6, <2>1, <2>3
    <3>2. /\ call[down[v][i]].state = "waiting" /\ call[down[v][i]].to = v
          /\ slot = v /\ Idle(v)
          /\ \A j \in DOMAIN down[v] : call[down[v][j]].action = "start" => j = i
          /\ \A j \in DOMAIN up[v] : up[v][j].type = "result" => up[v][j].call # down[v][i]
      BY <2>1, <3>1 DEF SteadyInv, StartsDown
    <3>3. \A j \in DOMAIN down'[v] : call'[down'[v][j]].action = "start" => j = i
      BY <1>2, <1>5, <1>6, <2>3, <3>2
    <3>4. QED
      BY <1>3, <2>3, <3>1, <3>2, <3>3
  <2>4. QED
    BY <2>2, <2>3
<1>15. StartsUp'
  <2>1. SUFFICES ASSUME NEW v \in Workers, NEW i \in DOMAIN up[v],
                        up[v][i].type = "result", call'[up[v][i].call].action = "start",
                        call'[up[v][i].call].state = "waiting"
                 PROVE  /\ call'[up[v][i].call].to = v
                        /\ up[v][i].ok => (slot' = v => Begun(v)')
                        /\ ~up[v][i].ok => slot' = v /\ Idle(v)'
    BY <1>1 DEF StartsUp
  <2>2. /\ up[v][i].call \in Calls \ {c} /\ call'[up[v][i].call] = call[up[v][i].call]
        /\ call[up[v][i].call] # None
    BY <1>2, <1>5, <2>1 DEF SteadyInv, Mentioned
  <2>3. action # "start"
    BY <1>13, <2>1, <2>2
  <2>4. QED
    BY <1>3, <2>1, <2>2, <2>3 DEF SteadyInv, StartsUp
<1>16. StartsAnswered'
  <2>1. SUFFICES ASSUME NEW d \in Calls, NEW v \in Workers,
                        call'[d] # None, call'[d].action = "start", call'[d].to = v
                 PROVE  /\ call'[d].state = "ok" => (slot' = v => Begun(v)')
                        /\ call'[d].state = "refused" => slot' = v /\ Idle(v)'
    BY DEF StartsAnswered
  <2>2. CASE d = c
    BY <1>2, <2>2
  <2>3. CASE d # c /\ action = "start"
    BY <1>2, <1>13, <2>1, <2>3
  <2>4. CASE d # c /\ action # "start"
    <3>1. call'[d] = call[d] /\ slot' = slot
      BY <1>2, <2>4
    <3>2. QED
      BY <1>3, <2>1, <3>1 DEF SteadyInv, StartsAnswered
  <2>5. QED
    BY <2>2, <2>3, <2>4
<1>17. EndsLast'
  BY <1>1 DEF SteadyInv, EndsLast
<1>18. QED
  BY <1>9, <1>10, <1>11, <1>12, <1>14, <1>15, <1>16, <1>17 DEF SteadyInv

\* The tick, or the planner, takes up an answer.  A start that was refused
\* frees the slot and takes its mark back.
LEMMA AnsweredSteady ==
    ASSUME SteadyInv, TypeOK', NEW c \in Calls, Answered(c)
    PROVE  SteadyInv'
<1>0. TypeOK
  BY DEF SteadyInv
<1>1. /\ Waiting(c) /\ call[c] # None /\ call[c] \in CallRecord
      /\ call[c].state \in {"ok", "refused"}
      /\ call[c].by = "tick" <=> call[c].action # "grow"
      /\ call[c].state = "refused" => call[c].action # "stop"
      /\ call[c].action = "start" => ~call[c].was
      /\ call[c].open
  BY <1>0 DEF Answered, Waiting, SteadyInv, CallsOK, TypeOK, CallRecord
<1>2. /\ UNCHANGED <<sess, link, down, up, busy, live, unsent>>
      /\ call' = [call EXCEPT ![c].state = "over"]
  BY DEF Answered, Return, wireVars, nodeVars
<1>3. /\ call'[c] # None /\ call'[c].to = call[c].to /\ call'[c].action = call[c].action
      /\ call'[c].by = call[c].by /\ call'[c].open /\ call'[c].state = "over"
      /\ \A d \in Calls \ {c} : call'[d] = call[d]
  BY <1>0, <1>1, <1>2, StateWritten
<1>4. \A v \in Workers : (Idle(v)' <=> Idle(v)) /\ (Begun(v)' <=> Begun(v))
  BY <1>2 DEF Idle, Begun
<1>5. ~Waiting(c)' /\ \A d \in Calls \ {c} : Waiting(d)' <=> Waiting(d)
  BY <1>3 DEF Waiting
<1>6. Connected' /\ EndsLast'
  BY <1>2 DEF SteadyInv, Connected, EndsLast
<1>7. CallsOK'
  <2>1. ASSUME NEW d \in Calls, call'[d] # None
        PROVE  /\ sess'[call'[d].to] = "ready" /\ call'[d].open
               /\ call'[d].state # "offline"
               /\ call'[d].by = "tick" <=> call'[d].action # "grow"
               /\ call'[d].state = "refused" => call'[d].action # "stop"
               /\ call'[d].action = "start" /\ Waiting(d)' => ~call'[d].was
    <3>1. CASE d = c
      BY <1>1, <1>2, <1>3, <1>5, <3>1 DEF SteadyInv, CallsOK
    <3>2. CASE d # c
      BY <1>2, <1>3, <1>5, <2>1, <3>2 DEF SteadyInv, CallsOK
    <3>3. QED
      BY <3>1, <3>2
  <2>2. ASSUME NEW d \in Calls, NEW e \in Calls, Waiting(d)', Waiting(e)',
               call'[d].by = "tick", call'[e].by = "tick"
        PROVE  d = e
    BY <1>3, <1>5, <2>2 DEF SteadyInv, CallsOK
  <2>3. QED
    BY <2>1, <2>2 DEF CallsOK
<1>8. \A d \in Calls : (call'[d] # None <=> call[d] # None) /\ call'[d].action = call[d].action
                       /\ call'[d].to = call[d].to
  BY <1>1, <1>3
<1>9. Mentioned'
  <2>1. \A v \in Workers : /\ \A i \in DOMAIN down[v] : down[v][i] \in Calls
                           /\ busy[v] # None => busy[v] \in Calls
                           /\ \A i \in DOMAIN up[v] : up[v][i].type = "result" => up[v][i].call \in Calls
    BY <1>0, Queued, MessageKinds DEF TypeOK
  <2>2. QED
    BY <1>2, <1>8, <2>1 DEF SteadyInv, Mentioned
<1>10. CASE call[c].state = "refused" /\ call[c].action = "start"
  <2>1. slot = call[c].to /\ Idle(call[c].to) /\ call[c].to \in Workers
    BY <1>1, <1>10 DEF SteadyInv, StartsAnswered, CallRecord
  <2>2. slot' = None /\ mark' = [mark EXCEPT ![call[c].to] = call[c].was]
    BY <1>1, <1>10 DEF Answered, Return, Unmarked
  <2>3. \A v \in Workers : Idle(v)' /\ ~mark'[v]
    BY <1>0, <1>1, <1>4, <1>10, <2>1, <2>2 DEF SteadyInv, SlotOK, TypeOK
  <2>4. \A d \in Calls : call[d] # None /\ call[d].action = "start" => call'[d].state = "over"
    BY <1>0, <1>1, <1>3, <1>10, OneStart DEF SteadyInv, Waiting
  <2>5. SlotOK'
    BY <2>2, <2>3, CalibrationAssumption DEF SlotOK
  <2>6. StartsDown'
    <3>1. SUFFICES ASSUME NEW v \in Workers, NEW i \in DOMAIN down[v]
                   PROVE  call'[down[v][i]].action # "start"
      BY <1>2 DEF StartsDown
    <3>2. down[v][i] \in Calls /\ call[down[v][i]] # None
      BY <1>0, Queued DEF SteadyInv, Mentioned
    <3>3. call[down[v][i]].action = "start" => call[down[v][i]].state = "waiting"
      BY DEF SteadyInv, StartsDown
    <3>4. QED
      BY <1>3, <1>8, <1>10, <2>4, <3>2, <3>3
  <2>7. StartsUp'
    <3>1. \A v \in Workers : \A i \in DOMAIN up[v] : up[v][i].type = "result" =>
             up[v][i].call \in Calls /\ call[up[v][i].call] # None
      BY <1>0, Queued, MessageKinds DEF SteadyInv, Mentioned
    <3>2. QED
      BY <1>2, <1>8, <2>4, <3>1 DEF StartsUp
  <2>8. StartsAnswered'
    BY <1>8, <2>4 DEF StartsAnswered
  <2>9. QED
    BY <1>6, <1>7, <1>9, <2>5, <2>6, <2>7, <2>8 DEF SteadyInv
<1>11. CASE ~(call[c].state = "refused" /\ call[c].action = "start")
  <2>1. slot' = slot /\ mark' = mark
    <3>1. call[c].action \in {"start", "stop", "grow"}
      BY <1>1 DEF CallRecord
    <3>2. ~(call[c].by = "tick" /\ call[c].state # "ok")
      BY <1>1, <1>11, <3>1
    <3>3. slot' = slot
      BY <3>2 DEF Answered, Return
    <3>4. mark' = mark
      BY <1>11 DEF Answered, Return, Unmarked
    <3>5. QED
      BY <3>3, <3>4
  <2>2. SlotOK'
    <3>1. ASSUME NEW v \in Workers, slot = v
          PROVE  \/ Begun(v)'
                 \/ \E d \in Calls : Waiting(d)' /\ call'[d].action = "start" /\ call'[d].to = v
      <4>1. CASE Begun(v)
        BY <1>4, <4>1
      <4>2. ASSUME NEW d \in Calls, Waiting(d), call[d].action = "start", call[d].to = v
            PROVE  \/ Begun(v)'
                   \/ Waiting(d)' /\ call'[d].action = "start" /\ call'[d].to = v
        <5>1. CASE d = c
          BY <1>1, <1>4, <1>11, <3>1, <4>2, <5>1 DEF SteadyInv, StartsAnswered
        <5>2. CASE d # c
          BY <1>3, <1>5, <4>2, <5>2
        <5>3. QED
          BY <5>1, <5>2
      <4>3. QED
        BY <3>1, <4>1, <4>2 DEF SteadyInv, SlotOK
    <3>2. QED
      BY <1>2, <1>4, <2>1, <3>1 DEF SteadyInv, SlotOK
  <2>3. StartsDown'
    <3>1. \A v \in Workers : \A i \in DOMAIN down[v] :
             /\ down[v][i] \in Calls
             /\ call[down[v][i]].action = "start" => down[v][i] # c
      BY <1>0, <1>1, Queued DEF SteadyInv, StartsDown
    <3>2. QED
      BY <1>2, <1>3, <1>4, <1>8, <2>1, <3>1 DEF SteadyInv, StartsDown
  <2>4. StartsUp'
    <3>1. \A v \in Workers : \A i \in DOMAIN up[v] : up[v][i].type = "result" => up[v][i].call \in Calls
      BY <1>0, Queued, MessageKinds
    <3>2. QED
      BY <1>2, <1>3, <1>4, <1>8, <2>1, <3>1 DEF SteadyInv, StartsUp
  <2>5. StartsAnswered'
    BY <1>3, <1>4, <1>8, <2>1 DEF SteadyInv, StartsAnswered
  <2>6. QED
    BY <1>6, <1>7, <1>9, <2>2, <2>3, <2>4, <2>5 DEF SteadyInv
<1>12. QED
  BY <1>10, <1>11

\* What reading a message does to its worker.
LEMMA ReadOne ==
    ASSUME SteadyInv, NEW w \in Workers, Receive(w)
    PROVE  /\ up[w] # <<>> /\ 1 \in DOMAIN up[w] /\ Head(up[w]) = up[w][1] /\ up[w][1] \in Message
           /\ up'[w] = Tail(up[w]) /\ \A v \in Workers \ {w} : up'[v] = up[v]
           /\ \A i \in DOMAIN up'[w] : i + 1 \in DOMAIN up[w] /\ up'[w][i] = up[w][i + 1] /\ i \in Nat \ {0}
           /\ UNCHANGED <<link, down, busy, live, unsent>>
           /\ EndsLast'
           /\ Idle(w) => Idle(w)'
           /\ Begun(w) /\ ~(up[w][1].type = "event" /\ up[w][1].event = "ended") => Begun(w)'
           /\ \A v \in Workers \ {w} : (Idle(v)' <=> Idle(v)) /\ (Begun(v)' <=> Begun(v))
<1>0. TypeOK /\ up[w] \in Seq(Message)
  BY Queued DEF SteadyInv
<1>1. /\ up[w] # <<>> /\ up'[w] = Tail(up[w]) /\ \A v \in Workers \ {w} : up'[v] = up[v]
      /\ UNCHANGED <<link, down, busy, live, unsent>>
  BY <1>0 DEF Receive, nodeVars, TypeOK
<1>2. /\ Len(up[w]) \in Nat \ {0} /\ DOMAIN up[w] = 1 .. Len(up[w])
      /\ 1 \in DOMAIN up[w] /\ Head(up[w]) = up[w][1]
      /\ \A i \in DOMAIN up'[w] : i + 1 \in DOMAIN up[w] /\ up'[w][i] = up[w][i + 1] /\ i \in Nat \ {0}
      /\ \A i \in DOMAIN up[w] : i # 1 => i - 1 \in DOMAIN up'[w] /\ up'[w][i - 1] = up[w][i]
  BY <1>0, <1>1, TailView
<1>3. up[w][1] \in Message
  BY <1>0, <1>2, Queued
<1>4. EndsLast'
  <2>1. ASSUME NEW i \in DOMAIN up'[w], up'[w][i].type = "event", up'[w][i].event = "ended"
        PROVE  /\ w \notin live /\ unsent[w] = <<>>
               /\ \A j \in DOMAIN up'[w] : up'[w][j].type = "event" => j <= i
    <3>1. /\ w \notin live /\ unsent[w] = <<>>
          /\ \A j \in DOMAIN up[w] : up[w][j].type = "event" => j <= i + 1
      BY <1>2, <2>1 DEF SteadyInv, EndsLast
    <3>2. QED
      BY <1>2, <3>1
  <2>2. QED
    BY <1>1, <2>1 DEF SteadyInv, EndsLast
<1>5. Idle(w) => Idle(w)'
  BY <1>1, <1>2 DEF Idle
<1>6. ASSUME Begun(w), ~(up[w][1].type = "event" /\ up[w][1].event = "ended") PROVE Begun(w)'
  <2>1. CASE w \in live \/ \E i \in DOMAIN unsent[w] : unsent[w][i] = "ended"
    BY <1>1, <2>1 DEF Begun
  <2>2. ASSUME NEW i \in DOMAIN up[w], up[w][i].type = "event", up[w][i].event = "ended"
        PROVE  Begun(w)'
    <3>1. i - 1 \in DOMAIN up'[w] /\ up'[w][i - 1] = up[w][i]
      BY <1>2, <1>6, <2>2
    <3>2. QED
      BY <2>2, <3>1 DEF Begun
  <2>3. QED
    BY <1>6, <2>1, <2>2 DEF Begun
<1>7. \A v \in Workers \ {w} : (Idle(v)' <=> Idle(v)) /\ (Begun(v)' <=> Begun(v))
  BY <1>1 DEF Idle, Begun
<1>8. QED
  BY <1>1, <1>2, <1>3, <1>4, <1>5, <1>6, <1>7

\* The greeting: the hello says that the worker does not calibrate, and the
\* status makes it one that can be picked.
LEMMA GreetingRead ==
    ASSUME SteadyInv, TypeOK', NEW w \in Workers, Receive(w), up[w][1].type \in {"hello", "status"}
    PROVE  SteadyInv'
<1>0. TypeOK
  BY DEF SteadyInv
<1>1. /\ Head(up[w]) = up[w][1]
      /\ up'[w] = Tail(up[w]) /\ \A v \in Workers \ {w} : up'[v] = up[v]
      /\ UNCHANGED <<link, down, busy, live, unsent>>
      /\ EndsLast'
      /\ Idle(w) => Idle(w)'
      /\ \A v \in Workers \ {w} : (Idle(v)' <=> Idle(v)) /\ (Begun(v)' <=> Begun(v))
      /\ up[w] # <<>> /\ 1 \in DOMAIN up[w]
  BY ReadOne
<1>2. /\ sess[w] = "attached" /\ up[w] \in Greetings
      /\ w \in link /\ slot # w /\ Idle(w) /\ ~mark[w] /\ down[w] = <<>> /\ busy[w] = None
  <2>1. sess[w] = "attached"
    <3>1. sess[w] \in {"none", "attached", "ready"}
      BY <1>0 DEF TypeOK
    <3>2. sess[w] # "none" /\ sess[w] # "ready"
      BY <1>1 DEF SteadyInv, Connected
    <3>3. QED
      BY <3>1, <3>2
  <2>2. slot # w
    BY <2>1 DEF SteadyInv, SlotOK
  <2>3. QED
    BY <2>1, <2>2 DEF SteadyInv, SlotOK, Connected
<1>3. UNCHANGED <<call, slot>>
  BY <1>1 DEF Receive
<1>4. /\ mark' = mark
      /\ \A v \in Workers \ {w} : sess'[v] = sess[v]
      /\ \/ sess'[w] = "attached" /\ up'[w] = <<Status>>
         \/ sess'[w] = "ready" /\ up'[w] = <<>>
  <2>1. CASE up[w] = <<Hello(FALSE), Status>>
    <3>1. up[w][1].type = "hello" /\ ~up[w][1].calibrating /\ Tail(up[w]) = <<Status>>
      BY <2>1 DEF Hello
    <3>2. mark' = [mark EXCEPT ![w] = up[w][1].calibrating] /\ sess' = sess
      BY <1>1, <3>1 DEF Receive
    <3>3. mark' = mark
      BY <1>0, <1>2, <3>1, <3>2 DEF TypeOK
    <3>4. QED
      BY <1>1, <1>2, <3>1, <3>2, <3>3
  <2>2. CASE up[w] = <<Status>>
    <3>1. up[w][1].type = "status" /\ Tail(up[w]) = <<>>
      BY <2>2 DEF Status
    <3>2. mark' = mark /\ sess' = [sess EXCEPT ![w] = "ready"]
      BY <1>1, <3>1 DEF Receive
    <3>3. QED
      BY <1>0, <1>1, <3>1, <3>2 DEF TypeOK
  <2>3. QED
    BY <1>2, <2>1, <2>2 DEF Greetings
<1>5. \A c \in Calls : Waiting(c)' <=> Waiting(c)
  BY <1>3 DEF Waiting
<1>6. \A i \in DOMAIN up'[w] : up'[w][i].type = "status"
  BY <1>4 DEF Status
<1>7. Connected'
  <2>1. ASSUME NEW v \in Workers
        PROVE  /\ v \in link' <=> sess'[v] # "none"
               /\ sess'[v] = "none" => up'[v] = <<>>
               /\ sess'[v] = "attached" => up'[v] \in Greetings
               /\ sess'[v] # "ready" => down'[v] = <<>> /\ busy'[v] = None
               /\ sess'[v] = "ready" => \A i \in DOMAIN up'[v] : up'[v][i].type \in {"result", "event"}
    <3>1. CASE v = w
      <4>1. CASE sess'[w] = "attached" /\ up'[w] = <<Status>>
        BY <1>1, <1>2, <3>1, <4>1 DEF Greetings
      <4>2. CASE sess'[w] = "ready" /\ up'[w] = <<>>
        <5>1. \A i \in DOMAIN up'[w] : FALSE
          BY <4>2
        <5>2. QED
          BY <1>1, <1>2, <3>1, <4>2, <5>1
      <4>3. QED
        BY <1>4, <4>1, <4>2
    <3>2. CASE v # w
      BY <1>1, <1>4, <3>2 DEF SteadyInv, Connected
    <3>3. QED
      BY <3>1, <3>2
  <2>2. QED
    BY <2>1 DEF Connected
<1>8. CallsOK'
  <2>1. \A c \in Calls : call[c] # None => call[c].to \in Workers
    BY <1>0 DEF TypeOK, CallRecord
  <2>2. \A v \in Workers : sess[v] = "ready" => sess'[v] = "ready"
    BY <1>2, <1>4
  <2>3. QED
    BY <1>3, <1>5, <2>1, <2>2 DEF SteadyInv, CallsOK
<1>9. Mentioned'
  <2>1. ASSUME NEW v \in Workers, NEW i \in DOMAIN up'[v], up'[v][i].type = "result"
        PROVE  /\ call[up'[v][i].call] # None
               /\ ~up'[v][i].ok => call[up'[v][i].call].action # "stop"
    <3>1. v # w /\ up'[v] = up[v]
      BY <1>1, <1>6, <2>1
    <3>2. QED
      BY <2>1, <3>1 DEF SteadyInv, Mentioned
  <2>2. QED
    BY <1>1, <1>3, <2>1 DEF SteadyInv, Mentioned
<1>10. SlotOK'
  BY <1>1, <1>2, <1>3, <1>4, <1>5 DEF SteadyInv, SlotOK
<1>11. StartsDown'
  <2>1. \A v \in Workers : down[v] # <<>> => v # w
    BY <1>2
  <2>2. \A i \in DOMAIN down[w] : FALSE
    BY <1>2
  <2>3. QED
    BY <1>1, <1>3, <2>2 DEF SteadyInv, StartsDown
<1>12. StartsUp'
  <2>1. SUFFICES ASSUME NEW v \in Workers, NEW i \in DOMAIN up'[v],
                        up'[v][i].type = "result", call[up'[v][i].call].action = "start",
                        call[up'[v][i].call].state = "waiting"
                 PROVE  /\ call[up'[v][i].call].to = v
                        /\ up'[v][i].ok => (slot = v => Begun(v)')
                        /\ ~up'[v][i].ok => slot = v /\ Idle(v)'
    BY <1>3 DEF StartsUp
  <2>2. v # w /\ up'[v] = up[v]
    BY <1>1, <1>6, <2>1
  <2>3. QED
    BY <1>1, <2>1, <2>2 DEF SteadyInv, StartsUp
<1>13. StartsAnswered'
  BY <1>1, <1>2, <1>3 DEF SteadyInv, StartsAnswered
<1>14. QED
  BY <1>1, <1>7, <1>8, <1>9, <1>10, <1>11, <1>12, <1>13 DEF SteadyInv

\* An answer reaches the call it belongs to.
LEMMA ResultRead ==
    ASSUME SteadyInv, TypeOK', NEW w \in Workers, Receive(w), up[w][1].type = "result"
    PROVE  SteadyInv'
<1>0. TypeOK
  BY DEF SteadyInv
<1>1. /\ Head(up[w]) = up[w][1] /\ up[w][1] \in Message /\ 1 \in DOMAIN up[w] /\ up[w] # <<>>
      /\ \A v \in Workers \ {w} : up'[v] = up[v]
      /\ \A i \in DOMAIN up'[w] : i + 1 \in DOMAIN up[w] /\ up'[w][i] = up[w][i + 1] /\ i \in Nat \ {0}
      /\ UNCHANGED <<link, down, busy, live, unsent>>
      /\ EndsLast'
      /\ Idle(w) => Idle(w)'
      /\ Begun(w) => Begun(w)'
      /\ \A v \in Workers \ {w} : (Idle(v)' <=> Idle(v)) /\ (Begun(v)' <=> Begun(v))
  BY ReadOne
<1>2. OnResult(up[w][1]) /\ UNCHANGED <<sess, mark, slot>>
  BY <1>1 DEF Receive, OnResult
<1>3. PICK m : m = up[w][1]
  OBVIOUS
<1>4. PICK c : c = m.call
  OBVIOUS
<1>5. c \in Calls /\ m.ok \in BOOLEAN /\ call[c] # None /\ call[c] \in CallRecord
      /\ (~m.ok => call[c].action # "stop")
  BY <1>0, <1>1, <1>3, <1>4, MessageKinds DEF SteadyInv, Mentioned, TypeOK
<1>6. sess[w] = "ready"
  <2>1. sess[w] # "none"
    BY <1>1 DEF SteadyInv, Connected
  <2>2. sess[w] # "attached"
    <3>1. SUFFICES ASSUME sess[w] = "attached" PROVE FALSE
      OBVIOUS
    <3>2. up[w] = <<Hello(FALSE), Status>> \/ up[w] = <<Status>>
      BY <3>1 DEF SteadyInv, Connected, Greetings
    <3>3. up[w][1] = Hello(FALSE) \/ up[w][1] = Status
      <4>1. CASE up[w] = <<Hello(FALSE), Status>>
        BY <4>1
      <4>2. CASE up[w] = <<Status>>
        BY <4>2
      <4>3. QED
        BY <3>2, <4>1, <4>2
    <3>4. QED
      BY <3>3 DEF Hello, Status
  <2>3. QED
    BY <1>0, <2>1, <2>2 DEF TypeOK
<1>7. Connected'
  <2>1. ASSUME NEW v \in Workers
        PROVE  /\ v \in link' <=> sess'[v] # "none"
               /\ sess'[v] = "none" => up'[v] = <<>>
               /\ sess'[v] = "attached" => up'[v] \in Greetings
               /\ sess'[v] # "ready" => down'[v] = <<>> /\ busy'[v] = None
               /\ sess'[v] = "ready" => \A i \in DOMAIN up'[v] : up'[v][i].type \in {"result", "event"}
    <3>1. CASE v = w
      <4>1. \A i \in DOMAIN up[w] : up[w][i].type \in {"result", "event"}
        BY <1>6 DEF SteadyInv, Connected
      <4>2. w \in link
        BY <1>6 DEF SteadyInv, Connected
      <4>3. QED
        BY <1>1, <1>2, <1>6, <3>1, <4>1, <4>2
    <3>2. CASE v # w
      BY <1>1, <1>2, <3>2 DEF SteadyInv, Connected
    <3>3. QED
      BY <3>1, <3>2
  <2>2. QED
    BY <2>1 DEF Connected
<1>8. CASE call[c].state # "waiting"
  <2>1. UNCHANGED call
    BY <1>2, <1>3, <1>4, <1>8 DEF OnResult
  <2>2. \A d \in Calls : Waiting(d)' <=> Waiting(d)
    BY <2>1 DEF Waiting
  <2>3. Connected'
    BY <1>7
  <2>4. CallsOK'
    BY <1>2, <2>1, <2>2 DEF SteadyInv, CallsOK
  <2>5. Mentioned'
    BY <1>1, <2>1 DEF SteadyInv, Mentioned
  <2>6. SlotOK'
    BY <1>1, <1>2, <2>1, <2>2 DEF SteadyInv, SlotOK
  <2>7. StartsDown'
    BY <1>1, <1>2, <2>1 DEF SteadyInv, StartsDown
  <2>8. StartsUp'
    <3>1. SUFFICES ASSUME NEW v \in Workers, NEW i \in DOMAIN up'[v],
                          up'[v][i].type = "result", call[up'[v][i].call].action = "start",
                          call[up'[v][i].call].state = "waiting"
                   PROVE  /\ call[up'[v][i].call].to = v
                          /\ up'[v][i].ok => (slot = v => Begun(v)')
                          /\ ~up'[v][i].ok => slot = v /\ Idle(v)'
      BY <1>2, <2>1 DEF StartsUp
    <3>2. PICK k \in DOMAIN up[v] : up'[v][i] = up[v][k]
      BY <1>1, <3>1
    <3>3. /\ call[up[v][k].call].to = v
          /\ up[v][k].ok => (slot = v => Begun(v))
          /\ ~up[v][k].ok => slot = v /\ Idle(v)
      BY <3>1, <3>2 DEF SteadyInv, StartsUp
    <3>4. QED
      BY <1>1, <3>2, <3>3
  <2>9. StartsAnswered'
    BY <1>1, <1>2, <2>1 DEF SteadyInv, StartsAnswered
  <2>10. QED
    BY <1>1, <2>3, <2>4, <2>5, <2>6, <2>7, <2>8, <2>9 DEF SteadyInv
<1>9. CASE call[c].state = "waiting"
  <2>1. call' = [call EXCEPT ![c].state = IF m.ok THEN "ok" ELSE "refused"]
    BY <1>2, <1>3, <1>4, <1>5, <1>9 DEF OnResult
  <2>2. /\ call'[c] # None /\ call'[c].to = call[c].to /\ call'[c].action = call[c].action
        /\ call'[c].by = call[c].by /\ (call'[c].open <=> call[c].open) /\ (call'[c].was <=> call[c].was)
        /\ call'[c].state = IF m.ok THEN "ok" ELSE "refused"
        /\ \A d \in Calls \ {c} : call'[d] = call[d]
    <3>1. PICK s \in {"ok", "refused"} : s = IF m.ok THEN "ok" ELSE "refused"
      OBVIOUS
    <3>2. call' = [call EXCEPT ![c].state = s]
      BY <2>1, <3>1
    <3>3. /\ call'[c] # None /\ call'[c].to = call[c].to /\ call'[c].action = call[c].action
          /\ call'[c].by = call[c].by /\ (call'[c].open <=> call[c].open)
          /\ (call'[c].was <=> call[c].was) /\ call'[c].state = s
          /\ \A d \in Calls \ {c} : call'[d] = call[d]
      BY <1>0, <1>5, <3>2, StateWritten
    <3>4. QED
      BY <3>1, <3>3
  <2>3. \A d \in Calls : /\ Waiting(d)' <=> Waiting(d)
                         /\ call'[d] # None <=> call[d] # None
                         /\ call'[d].action = call[d].action /\ call'[d].to = call[d].to
                         /\ call'[d].by = call[d].by
                         /\ call'[d].state = "waiting" => d # c
    BY <1>5, <1>9, <2>2 DEF Waiting
  <2>4. \A v \in Workers : /\ \A i \in DOMAIN down[v] : down[v][i] \in Calls
                           /\ busy[v] # None => busy[v] \in Calls
                           /\ \A i \in DOMAIN up[v] : up[v][i].type = "result" => up[v][i].call \in Calls
    <3>1. \A v \in Workers : busy[v] # None => busy[v] \in Calls
      BY <1>0 DEF TypeOK
    <3>2. \A v \in Workers : /\ \A i \in DOMAIN down[v] : down[v][i] \in Calls
                             /\ \A i \in DOMAIN up[v] : up[v][i] \in Message
      BY <1>0, Queued
    <3>3. QED
      BY <3>1, <3>2, MessageKinds
  <2>5. Connected'
    BY <1>7
  <2>6. CallsOK'
    <3>1. ASSUME NEW d \in Calls, call'[d] # None
          PROVE  /\ sess'[call'[d].to] = "ready" /\ call'[d].open
                 /\ call'[d].state # "offline"
                 /\ call'[d].by = "tick" <=> call'[d].action # "grow"
                 /\ call'[d].state = "refused" => call'[d].action # "stop"
                 /\ call'[d].action = "start" /\ Waiting(d)' => ~call'[d].was
      <4>1. CASE d = c
        BY <1>2, <1>5, <2>2, <2>3, <4>1 DEF SteadyInv, CallsOK
      <4>2. CASE d # c
        BY <1>2, <2>2, <2>3, <3>1, <4>2 DEF SteadyInv, CallsOK
      <4>3. QED
        BY <4>1, <4>2
    <3>2. ASSUME NEW d \in Calls, NEW e \in Calls, Waiting(d)', Waiting(e)',
                 call'[d].by = "tick", call'[e].by = "tick"
          PROVE  d = e
      BY <2>3, <3>2 DEF SteadyInv, CallsOK
    <3>3. QED
      BY <3>1, <3>2 DEF CallsOK
  <2>7. Mentioned'
    <3>1. \A v \in Workers : \A i \in DOMAIN up'[v] :
             \E k \in DOMAIN up[v] : up'[v][i] = up[v][k]
      BY <1>1
    <3>2. QED
      BY <1>1, <2>3, <2>4, <3>1 DEF SteadyInv, Mentioned
  <2>8. SlotOK'
    BY <1>1, <1>2, <2>3 DEF SteadyInv, SlotOK
  <2>9. \A v \in Workers : \A i \in DOMAIN down[v] : call[down[v][i]].action = "start" => down[v][i] # c
    <3>1. call[c].action = "start" => call[c].to = w
      BY <1>1, <1>3, <1>4, <1>9 DEF SteadyInv, StartsUp
    <3>2. QED
      BY <1>1, <1>3, <1>4, <3>1 DEF SteadyInv, StartsDown
  <2>10. StartsDown'
    <3>1. SUFFICES ASSUME NEW v \in Workers, NEW i \in DOMAIN down[v],
                          call'[down[v][i]].action = "start"
                   PROVE  /\ call'[down[v][i]].state = "waiting" /\ call'[down[v][i]].to = v
                          /\ slot = v /\ Idle(v)'
                          /\ \A j \in DOMAIN down[v] : call'[down[v][j]].action = "start" => j = i
                          /\ \A j \in DOMAIN up'[v] :
                                up'[v][j].type = "result" => up'[v][j].call # down[v][i]
      BY <1>1, <1>2 DEF StartsDown
    <3>2. call[down[v][i]].action = "start" /\ call'[down[v][i]] = call[down[v][i]]
      BY <2>2, <2>3, <2>4, <2>9, <3>1
    <3>3. /\ call[down[v][i]].state = "waiting" /\ call[down[v][i]].to = v
          /\ slot = v /\ Idle(v)
          /\ \A j \in DOMAIN down[v] : call[down[v][j]].action = "start" => j = i
          /\ \A j \in DOMAIN up[v] : up[v][j].type = "result" => up[v][j].call # down[v][i]
      BY <3>2 DEF SteadyInv, StartsDown
    <3>4. \A j \in DOMAIN down[v] : call'[down[v][j]].action = "start" => j = i
      BY <2>3, <2>4, <3>3
    <3>5. QED
      BY <1>1, <3>2, <3>3, <3>4
  <2>11. StartsUp'
    <3>1. SUFFICES ASSUME NEW v \in Workers, NEW i \in DOMAIN up'[v],
                          up'[v][i].type = "result", call'[up'[v][i].call].action = "start",
                          call'[up'[v][i].call].state = "waiting"
                   PROVE  /\ call'[up'[v][i].call].to = v
                          /\ up'[v][i].ok => (slot = v => Begun(v)')
                          /\ ~up'[v][i].ok => slot = v /\ Idle(v)'
      BY <1>2 DEF StartsUp
    <3>2. PICK k \in DOMAIN up[v] : up'[v][i] = up[v][k]
      BY <1>1, <3>1
    <3>3. up[v][k].call \in Calls \ {c} /\ call'[up[v][k].call] = call[up[v][k].call]
      BY <2>2, <2>3, <2>4, <3>1, <3>2
    <3>4. /\ call[up[v][k].call].to = v
          /\ up[v][k].ok => (slot = v => Begun(v))
          /\ ~up[v][k].ok => slot = v /\ Idle(v)
      BY <3>1, <3>2, <3>3 DEF SteadyInv, StartsUp
    <3>5. QED
      BY <1>1, <3>2, <3>3, <3>4
  <2>12. StartsAnswered'
    <3>1. SUFFICES ASSUME NEW d \in Calls, NEW v \in Workers,
                          call'[d] # None, call'[d].action = "start", call'[d].to = v
                   PROVE  /\ call'[d].state = "ok" => (slot = v => Begun(v)')
                          /\ call'[d].state = "refused" => slot = v /\ Idle(v)'
      BY <1>2 DEF StartsAnswered
    <3>2. CASE d = c
      <4>1. /\ call[c].to = w
            /\ m.ok => (slot = w => Begun(w))
            /\ ~m.ok => slot = w /\ Idle(w)
        BY <1>1, <1>3, <1>4, <1>9, <2>2, <3>1, <3>2 DEF SteadyInv, StartsUp
      <4>2. QED
        BY <1>1, <1>5, <2>2, <3>1, <3>2, <4>1
    <3>3. CASE d # c
      BY <1>1, <2>2, <3>1, <3>3 DEF SteadyInv, StartsAnswered
    <3>4. QED
      BY <3>2, <3>3
  <2>13. QED
    BY <1>1, <2>5, <2>6, <2>7, <2>8, <2>10, <2>11, <2>12 DEF SteadyInv
<1>10. QED
  BY <1>8, <1>9

\* The start of a session changes nothing: the mark was up before.  The end of
\* it frees the slot and takes the mark down.
LEMMA EventRead ==
    ASSUME SteadyInv, TypeOK', NEW w \in Workers, Receive(w), up[w][1].type = "event"
    PROVE  SteadyInv'
<1>0. TypeOK
  BY DEF SteadyInv
<1>1. /\ Head(up[w]) = up[w][1] /\ up[w][1] \in Message /\ 1 \in DOMAIN up[w] /\ up[w] # <<>>
      /\ \A v \in Workers \ {w} : up'[v] = up[v]
      /\ \A i \in DOMAIN up'[w] : i + 1 \in DOMAIN up[w] /\ up'[w][i] = up[w][i + 1] /\ i \in Nat \ {0}
      /\ UNCHANGED <<link, down, busy, live, unsent>>
      /\ EndsLast'
      /\ Begun(w) /\ ~(up[w][1].type = "event" /\ up[w][1].event = "ended") => Begun(w)'
      /\ \A v \in Workers \ {w} : (Idle(v)' <=> Idle(v)) /\ (Begun(v)' <=> Begun(v))
  BY ReadOne
<1>2. ~Idle(w) /\ slot = w /\ sess[w] = "ready"
  <2>1. ~Idle(w)
    BY <1>1 DEF Idle
  <2>2. QED
    BY <2>1 DEF SteadyInv, SlotOK
<1>3. /\ UNCHANGED <<sess, call>>
      /\ up[w][1].event \in {"started", "ended"}
      /\ mark' = [mark EXCEPT ![w] = up[w][1].event = "started"]
      /\ slot' = IF up[w][1].event = "ended" THEN None ELSE slot
  <2>1. OnEvent(w, up[w][1].event)
    BY <1>1 DEF Receive
  <2>2. QED
    BY <1>1, <1>2, <2>1, MessageKinds DEF OnEvent
<1>4. \A c \in Calls : Waiting(c)' <=> Waiting(c)
  BY <1>3 DEF Waiting
<1>5. \A v \in Workers : \A i \in DOMAIN up'[v] : \E k \in DOMAIN up[v] : up'[v][i] = up[v][k]
  BY <1>1
<1>6. Connected'
  <2>1. ASSUME NEW v \in Workers
        PROVE  /\ v \in link' <=> sess'[v] # "none"
               /\ sess'[v] = "none" => up'[v] = <<>>
               /\ sess'[v] = "attached" => up'[v] \in Greetings
               /\ sess'[v] # "ready" => down'[v] = <<>> /\ busy'[v] = None
               /\ sess'[v] = "ready" => \A i \in DOMAIN up'[v] : up'[v][i].type \in {"result", "event"}
    <3>1. CASE v = w
      BY <1>1, <1>2, <1>3, <3>1 DEF SteadyInv, Connected
    <3>2. CASE v # w
      BY <1>1, <1>3, <3>2 DEF SteadyInv, Connected
    <3>3. QED
      BY <3>1, <3>2
  <2>2. QED
    BY <2>1 DEF Connected
<1>7. CallsOK'
  BY <1>3, <1>4 DEF SteadyInv, CallsOK
<1>8. Mentioned'
  BY <1>1, <1>3, <1>5 DEF SteadyInv, Mentioned
\* Nobody waits for w to start: it would be idle.
<1>9. /\ \A v \in Workers : \A i \in DOMAIN down[v] : call[down[v][i]].action # "start"
      /\ \A v \in Workers : \A i \in DOMAIN up[v] :
            up[v][i].type = "result" /\ call[up[v][i].call].action = "start"
               /\ call[up[v][i].call].state = "waiting" =>
            /\ call[up[v][i].call].to = v
            /\ up[v][i].ok /\ (slot = v => Begun(v))
      /\ \A c \in Calls, v \in Workers :
            call[c] # None /\ call[c].action = "start" /\ call[c].to = v =>
               /\ call[c].state = "ok" => (slot = v => Begun(v))
               /\ call[c].state # "refused"
  BY <1>2 DEF SteadyInv, StartsDown, StartsUp, StartsAnswered
<1>10. StartsDown'
  BY <1>1, <1>3, <1>9 DEF StartsDown
<1>11. CASE up[w][1].event = "started"
  <2>1. mark' = mark /\ slot' = slot
    BY <1>0, <1>2, <1>3, <1>11 DEF SteadyInv, SlotOK, TypeOK
  <2>2. \A v \in Workers : Begun(v) => Begun(v)'
    BY <1>1, <1>11
  <2>3. SlotOK'
    BY <1>1, <1>2, <1>3, <1>4, <2>1, <2>2 DEF SteadyInv, SlotOK
  <2>4. StartsUp'
    BY <1>3, <1>5, <1>9, <2>1, <2>2 DEF StartsUp
  <2>5. StartsAnswered'
    BY <1>3, <1>9, <2>1, <2>2 DEF StartsAnswered
  <2>6. QED
    BY <1>1, <1>6, <1>7, <1>8, <1>10, <2>3, <2>4, <2>5 DEF SteadyInv
<1>12. CASE up[w][1].event = "ended"
  <2>1. slot' = None /\ \A v \in Workers : ~mark'[v]
    BY <1>0, <1>2, <1>3, <1>12 DEF SteadyInv, SlotOK, TypeOK
  <2>2. Idle(w)'
    <3>1. /\ w \notin live /\ unsent[w] = <<>>
          /\ \A j \in DOMAIN up[w] : up[w][j].type = "event" => j <= 1
      BY <1>1, <1>12 DEF SteadyInv, EndsLast
    <3>2. \A i \in DOMAIN up'[w] : up'[w][i].type # "event"
      BY <1>1, <3>1
    <3>3. QED
      BY <1>1, <3>1, <3>2 DEF Idle
  <2>3. \A v \in Workers : Idle(v)'
    BY <1>1, <1>2, <2>2 DEF SteadyInv, SlotOK
  <2>4. SlotOK'
    BY <2>1, <2>3, CalibrationAssumption DEF SlotOK
  <2>5. StartsUp'
    BY <1>3, <1>5, <1>9, <2>1, CalibrationAssumption DEF StartsUp
  <2>6. StartsAnswered'
    BY <1>3, <1>9, <2>1, CalibrationAssumption DEF StartsAnswered
  <2>7. QED
    BY <1>1, <1>6, <1>7, <1>8, <1>10, <2>4, <2>5, <2>6 DEF SteadyInv
<1>13. QED
  BY <1>3, <1>11, <1>12

\* A worker connects: nothing was ever sent to it.
LEMMA ConnectSteady ==
    ASSUME SteadyInv, TypeOK', NEW w \in Workers, Connect(w)
    PROVE  SteadyInv'
<1>0. TypeOK
  BY DEF SteadyInv
<1>1. /\ sess[w] = "none" /\ slot # w /\ Idle(w) /\ ~mark[w] /\ down[w] = <<>> /\ busy[w] = None
  BY DEF Connect, SteadyInv, Connected, SlotOK
<1>2. \A c \in Calls : call[c] # None => call[c].to # w
  BY <1>1 DEF SteadyInv, CallsOK
<1>3. call' = call
  <2>1. call = [c \in Calls |-> call[c]]
    BY <1>0 DEF TypeOK
  <2>2. Orphaned(w, FALSE) = [c \in Calls |-> call[c]]
    BY <1>2 DEF Orphaned
  <2>3. QED
    BY <2>1, <2>2 DEF Connect
<1>4. /\ mark' = mark /\ UNCHANGED <<slot, down, busy, live, unsent>>
      /\ link' = link \cup {w} /\ sess'[w] = "attached" /\ \A v \in Workers \ {w} : sess'[v] = sess[v]
      /\ \A v \in Workers \ {w} : up'[v] = up[v]
  BY <1>0, <1>1 DEF Connect, orchVars, nodeVars, TypeOK
<1>5. up'[w] = <<Hello(FALSE), Status>>
  <2>1. (w \in live) = FALSE
    BY <1>1 DEF Idle
  <2>2. Greeting(w) = <<Hello(FALSE), Status>>
    BY <2>1 DEF Greeting
  <2>3. QED
    BY <1>0, <2>2 DEF Connect, TypeOK
<1>6. \A i \in DOMAIN up'[w] : up'[w][i].type \in {"hello", "status"}
  BY <1>5 DEF Hello, Status
<1>7. /\ Idle(w)'
      /\ \A v \in Workers \ {w} : (Idle(v)' <=> Idle(v)) /\ (Begun(v)' <=> Begun(v))
  BY <1>1, <1>4, <1>6 DEF Idle, Begun
<1>8. \A c \in Calls : Waiting(c)' <=> Waiting(c)
  BY <1>3 DEF Waiting
<1>9. Connected'
  <2>1. ASSUME NEW v \in Workers
        PROVE  /\ v \in link' <=> sess'[v] # "none"
               /\ sess'[v] = "none" => up'[v] = <<>>
               /\ sess'[v] = "attached" => up'[v] \in Greetings
               /\ sess'[v] # "ready" => down'[v] = <<>> /\ busy'[v] = None
               /\ sess'[v] = "ready" => \A i \in DOMAIN up'[v] : up'[v][i].type \in {"result", "event"}
    <3>1. CASE v = w
      BY <1>1, <1>4, <1>5, <3>1 DEF Greetings
    <3>2. CASE v # w
      BY <1>4, <3>2 DEF SteadyInv, Connected
    <3>3. QED
      BY <3>1, <3>2
  <2>2. QED
    BY <2>1 DEF Connected
<1>10. CallsOK'
  <2>1. \A c \in Calls : call[c] # None => call[c].to \in Workers \ {w}
    BY <1>0, <1>2 DEF TypeOK, CallRecord
  <2>2. QED
    BY <1>3, <1>4, <1>8, <2>1 DEF SteadyInv, CallsOK
\* No message of a connection is an answer yet.
<1>11. \A v \in Workers : \A i \in DOMAIN up'[v] :
          up'[v][i].type = "result" \/ up'[v][i].type = "event" => v # w
  BY <1>6
<1>12. Mentioned'
  <2>1. ASSUME NEW v \in Workers, NEW i \in DOMAIN up'[v], up'[v][i].type = "result"
        PROVE  /\ call[up'[v][i].call] # None
               /\ ~up'[v][i].ok => call[up'[v][i].call].action # "stop"
    BY <1>4, <1>11, <2>1 DEF SteadyInv, Mentioned
  <2>2. QED
    BY <1>3, <1>4, <2>1 DEF SteadyInv, Mentioned
<1>13. SlotOK'
  BY <1>1, <1>3, <1>4, <1>7, <1>8 DEF SteadyInv, SlotOK
<1>14. StartsDown'
  <2>1. \A i \in DOMAIN down[w] : FALSE
    BY <1>1
  <2>2. QED
    BY <1>3, <1>4, <1>7, <2>1 DEF SteadyInv, StartsDown
<1>15. StartsUp'
  <2>1. SUFFICES ASSUME NEW v \in Workers, NEW i \in DOMAIN up'[v],
                        up'[v][i].type = "result", call[up'[v][i].call].action = "start",
                        call[up'[v][i].call].state = "waiting"
                 PROVE  /\ call[up'[v][i].call].to = v
                        /\ up'[v][i].ok => (slot = v => Begun(v)')
                        /\ ~up'[v][i].ok => slot = v /\ Idle(v)'
    BY <1>3, <1>4 DEF StartsUp
  <2>2. v # w /\ up'[v] = up[v]
    BY <1>4, <1>11, <2>1
  <2>3. QED
    BY <1>7, <2>1, <2>2 DEF SteadyInv, StartsUp
<1>16. StartsAnswered'
  BY <1>2, <1>3, <1>4, <1>7 DEF SteadyInv, StartsAnswered
<1>17. EndsLast'
  <2>1. ASSUME NEW v \in Workers, NEW i \in DOMAIN up'[v],
               up'[v][i].type = "event", up'[v][i].event = "ended"
        PROVE  /\ v \notin live /\ unsent[v] = <<>>
               /\ \A j \in DOMAIN up'[v] : up'[v][j].type = "event" => j <= i
    BY <1>4, <1>11, <2>1 DEF SteadyInv, EndsLast
  <2>2. QED
    BY <1>4, <2>1 DEF SteadyInv, EndsLast
<1>18. QED
  BY <1>9, <1>10, <1>12, <1>13, <1>14, <1>15, <1>16, <1>17 DEF SteadyInv

----------------------------------------------------------------------------
(* One worker at a time *)

LEMMA SteadyStep ==
    ASSUME SteadyInv, [SteadyNext]_vars
    PROVE  SteadyInv'
<1>1. TypeOK'
  BY TypeStep DEF SteadyInv, Next, AdminNext
<1>2. CASE Ticking
  <2>1. ASSUME NEW c \in Calls, TickStops(c) PROVE SteadyInv'
    <3>1. slot \in Workers /\ sess[slot] = "ready" /\ UNCHANGED <<slot, nodeVars>>
      BY <2>1 DEF TickStops, SteadyInv, TypeOK, SlotOK
    <3>2. QED
      BY <1>1, <2>1, <3>1, SendSteady DEF TickStops
  <2>2. ASSUME NEW c \in Calls, NEW w \in Workers, TickStarts(c, w) PROVE SteadyInv'
    <3>1. slot = None /\ slot' = w /\ sess[w] = "ready" /\ UNCHANGED nodeVars
      BY <2>2 DEF TickStarts, SlotFree, Eligible
    <3>2. QED
      BY <1>1, <2>2, <3>1, SendSteady DEF TickStarts
  <2>3. CASE TickStartsNobody \/ TickRests
    BY <1>1, <2>3, BooksOnly
       DEF TickStartsNobody, TickRests, SlotFree, regVars, wireVars, nodeVars
  <2>4. CASE TickStopFails
    <3>1. slot \in Workers /\ sess[slot] = "ready"
      BY <2>4 DEF TickStopFails, SteadyInv, TypeOK, SlotOK
    <3>2. slot \in link
      BY <3>1 DEF SteadyInv, Connected
    <3>3. QED
      BY <2>4, <3>2 DEF TickStopFails
  <2>5. QED
    BY <1>2, <2>1, <2>2, <2>3, <2>4 DEF Ticking
<1>3. CASE WindowTurns
  BY <1>1, <1>3, BooksOnly DEF WindowTurns, orchVars, regVars, wireVars, nodeVars
<1>4. ASSUME NEW c \in Calls, Answered(c) PROVE SteadyInv'
  BY <1>1, <1>4, AnsweredSteady
<1>5. ASSUME NEW w \in Workers, Receive(w) PROVE SteadyInv'
  <2>1. up[w][1] \in Message
    BY <1>5, ReadOne
  <2>2. QED
    BY <1>1, <1>5, <2>1, MessageKinds, GreetingRead, ResultRead, EventRead
<1>6. ASSUME NEW w \in Workers, Working(w) \/ StartRefusedUnhealthy(w) \/ SessionEnds(w) \/ Connect(w)
      PROVE  SteadyInv'
  BY <1>1, <1>5, <1>6, PassThrough, StartRead, SessionTold, ConnectSteady DEF Working
<1>7. ASSUME NEW c \in Calls, NEW w \in Workers, PlannerGrows(c, w) PROVE SteadyInv'
  <2>1. sess[w] = "ready" /\ Send(c, w, "grow", "planner") /\ UNCHANGED <<slot, nodeVars>>
    BY <1>7 DEF PlannerGrows, Plannable, orchVars
  <2>2. QED
    BY <1>1, <2>1, SendSteady
<1>8. CASE UNCHANGED vars
  BY <1>1, <1>8, BooksOnly DEF vars, orchVars, regVars, wireVars, nodeVars
<1>9. QED
  BY <1>2, <1>3, <1>4, <1>6, <1>7, <1>8 DEF SteadyNext, TickingNext

LEMMA SteadyInit == Init => SteadyInv
<1> SUFFICES ASSUME Init PROVE SteadyInv
  OBVIOUS
<1>1. TypeOK
  BY TypeInit
<1>2. \A w \in Workers : /\ up[w] = <<>> /\ down[w] = <<>> /\ unsent[w] = <<>> /\ w \notin live
                         /\ \A i \in DOMAIN up[w] : FALSE
                         /\ \A i \in DOMAIN down[w] : FALSE
                         /\ \A i \in DOMAIN unsent[w] : FALSE
  BY DEF Init
<1>3. \A w \in Workers : Idle(w)
  BY <1>2 DEF Idle
<1>4. Connected /\ CallsOK /\ Mentioned
  BY <1>2 DEF Init, Connected, CallsOK, Mentioned, Waiting
<1>5. SlotOK
  BY <1>3, CalibrationAssumption DEF Init, SlotOK
<1>6. StartsDown /\ StartsUp /\ StartsAnswered /\ EndsLast
  BY <1>2 DEF Init, StartsDown, StartsUp, StartsAnswered, EndsLast
<1>7. QED
  BY <1>1, <1>4, <1>5, <1>6 DEF SteadyInv

LEMMA SteadyAlways == SteadySpec => []SteadyInv
BY SteadyInit, SteadyStep, PTL DEF SteadySpec

\* One worker at a time calibrates: a session runs only on the worker that has
\* the slot, from the start it was sent to the end the orchestrator hears of.
THEOREM OneCalibrates == SteadySpec => []OneAtATime
<1>1. SteadyInv => OneAtATime
  BY DEF SteadyInv, SlotOK, TypeOK, Idle, OneAtATime
<1>2. QED
  BY <1>1, SteadyAlways, PTL

\* The planner never takes a calibrating worker for free: the mark goes up
\* before the start is sent and comes down when the end is heard of, or the
\* worker's refusal.
THEOREM MarkCovers == SteadySpec => []MarkCoversSession
<1>1. SteadyInv => MarkCoversSession
  BY DEF SteadyInv, SlotOK, TypeOK, Idle, MarkCoversSession, Plannable
<1>2. QED
  BY <1>1, SteadyAlways, PTL
=============================================================================

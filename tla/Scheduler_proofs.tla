-------------------------- MODULE Scheduler_proofs --------------------------
(***************************************************************************)
(* What holds of a job for any number of loops, executions and clients and *)
(* any intervals.  Requests come at any time, before Start and during it;   *)
(* what is said of the loops ends with the first of them that met Start    *)
(* halfway (raced).                                                        *)
(***************************************************************************)
EXTENDS Scheduler, TLAPS

(* The flag executeJob competes for is set while the job runs.             *)
FlagIsHeld == \A e \in Runs : run[e] = "running" => running

RunInv == TypeOK /\ NoOverlap /\ FlagIsHeld

(* Start publishes the root context first.                                 *)
RootFirst ==
  /\ rootSet <=> start # "new"
  /\ \A p \in Clients : request[p].started => rootSet

(* Start decides on a flag that nobody changes under it, and no request    *)
(* launches a loop before it.                                              *)
NoLoopBeforeStart ==
  start # "blocked" => stopCh = None /\ (start = "launch" => ~paused)

(* From then on the job has a stop channel unless it is paused, and the    *)
(* channel has a loop that ticks.                                          *)
ChannelUnlessPaused == start = "blocked" => (paused <=> stopCh = None)

ChannelHasLoop == stopCh # None => stopCh \in Ticking

(* The one loop that ticks is the one the channel belongs to.              *)
LoopOfChannel ==
  \A l \in Ticking : l = stopCh /\ loop[l].interval = interval

Orderly ==
  /\ LoopOfChannel /\ NoLoopBeforeStart /\ ChannelUnlessPaused
  /\ ChannelHasLoop

LoopInv == TypeOK /\ RootFirst /\ (~raced => Orderly)
-----------------------------------------------------------------------------
(* Launch turns a free loop into the one that ticks, at the given interval.*)
LEMMA LaunchType ==
  ASSUME TypeOK, NEW l \in Loops, NEW i \in Intervals, NEW old \in SUBSET Loops,
         Launch(l, i, old)
  PROVE  /\ loop' \in [Loops -> [pc : {"free", "first", "select"},
                                 closed : BOOLEAN, interval : Intervals]]
         /\ stopCh' \in Loops
  BY DEF TypeOK, Launch

(* It leaves no other loop ticking than those that ticked and were not     *)
(* closed.                                                                 *)
LEMMA LaunchTicks ==
  ASSUME TypeOK, NEW l \in Loops, NEW i \in Intervals, NEW old \in SUBSET Loops,
         Launch(l, i, old)
  PROVE  /\ Ticking' = (Ticking \ old) \cup {l}
         /\ loop'[l].interval = i
         /\ stopCh' = l
<1>1. l \notin Ticking /\ stopCh' = l
  BY DEF Launch, Ticking
<1>2. loop'[l] = [pc |-> "first", closed |-> FALSE, interval |-> i]
  BY DEF Launch
<1>3. l \in Ticking'
  BY <1>2 DEF Ticking
<1>4. ASSUME NEW k \in Loops, k # l
      PROVE  k \in Ticking' <=> k \in Ticking /\ k \notin old
  <2>1. CASE k \in old
    <3>1. loop'[k] = [loop[k] EXCEPT !.closed = TRUE]
      BY <1>4, <2>1 DEF Launch
    <3>2. loop[k] \in [pc : {"free", "first", "select"}, closed : BOOLEAN,
                       interval : Intervals]
      BY DEF TypeOK
    <3>3. loop'[k].closed = TRUE
      BY <3>1, <3>2
    <3> QED
      BY <2>1, <3>3 DEF Ticking
  <2>2. CASE k \notin old
    <3>1. loop'[k] = loop[k]
      BY <1>4, <2>2 DEF Launch
    <3> QED
      BY <2>2, <3>1 DEF Ticking
  <2> QED
    BY <2>1, <2>2
<1>5. Ticking \subseteq Loops /\ Ticking' \subseteq Loops
  BY DEF Ticking
<1> QED
  BY <1>1, <1>2, <1>3, <1>4, <1>5
-----------------------------------------------------------------------------
LEMMA NoLoopType ==
  ASSUME interval \in Intervals
  PROVE  /\ NoLoop \in [pc : {"free", "first", "select"}, closed : BOOLEAN,
                        interval : Intervals]
         /\ NoLoop.pc = "free"
  BY DEF NoLoop

LEMMA InitType == Init => TypeOK
<1> SUFFICES ASSUME Init PROVE TypeOK
  OBVIOUS
<1>0. NoLoop \in [pc : {"free", "first", "select"}, closed : BOOLEAN,
                  interval : Intervals]
  BY NoLoopType DEF Init
<1>1. paused \in BOOLEAN
  BY ConstantsAssumption, Zenon DEF Init
<1>2. loop \in [Loops -> [pc : {"free", "first", "select"}, closed : BOOLEAN,
                         interval : Intervals]]
  BY <1>0 DEF Init
<1>3. request \in [Clients -> [op : Ops \cup {"none"}, started : BOOLEAN]]
  BY DEF Init, NoRequest
<1> QED
  BY <1>1, <1>2, <1>3 DEF Init, TypeOK

(* Every step keeps the types.                                             *)
LEMMA NextType == TypeOK /\ [Next]_vars => TypeOK'
<1> SUFFICES ASSUME TypeOK, [Next]_vars PROVE TypeOK'
  OBVIOUS
<1>1. CASE SetRoot \/ ReadPaused
  BY <1>1 DEF SetRoot, ReadPaused, TypeOK, jobVars
<1>2. CASE StartJob
  <2>1. PICK l \in Loops : Launch(l, interval, {})
    BY <1>2 DEF StartJob
  <2>2. interval \in Intervals
    BY DEF TypeOK
  <2> QED
    BY <1>2, <2>1, <2>2, LaunchType DEF StartJob, TypeOK
<1>3. ASSUME NEW l \in Loops, FirstRun(l) \/ Tick(l) \/ Stop(l)
      PROVE  TypeOK'
  <2>1. CASE FirstRun(l) \/ Tick(l)
    BY <2>1 DEF FirstRun, Tick, GoExecute, TypeOK, jobVars
  <2>2. CASE Stop(l)
    <3>1. loop' = [loop EXCEPT ![l] = NoLoop]
      BY <2>2 DEF Stop
    <3>2. loop' \in [Loops -> [pc : {"free", "first", "select"},
                               closed : BOOLEAN, interval : Intervals]]
      BY <3>1, NoLoopType DEF TypeOK
    <3> QED
      BY <2>2, <3>2 DEF Stop, TypeOK, jobVars
  <2> QED
    BY <1>3, <2>1, <2>2
<1>4. ASSUME NEW e \in Runs, Begin(e) \/ Finish(e)
      PROVE  TypeOK'
  BY <1>4 DEF Begin, Finish, TypeOK, jobVars
<1>5. ASSUME NEW p \in Clients, ReadRoot(p) \/ RunNow(p)
      PROVE  TypeOK'
  <2>1. CASE ReadRoot(p)
    <3>1. PICK op \in Ops :
            request' = [request EXCEPT ![p] = [op |-> op, started |-> rootSet]]
      BY <2>1 DEF ReadRoot
    <3>2. request' \in [Clients -> [op : Ops \cup {"none"}, started : BOOLEAN]]
      BY <3>1 DEF TypeOK
    <3> QED
      BY <2>1, <3>2 DEF ReadRoot, TypeOK, jobVars
  <2>2. CASE RunNow(p)
    <3>1. request' \in [Clients -> [op : Ops \cup {"none"}, started : BOOLEAN]]
      BY <2>2 DEF RunNow, Reply, NoRequest, TypeOK
    <3>2. run' \in [Runs -> {"free", "launched", "running"}]
      BY <2>2 DEF RunNow, GoExecute, TypeOK
    <3> QED
      BY <2>2, <3>1, <3>2 DEF RunNow, TypeOK, jobVars
  <2> QED
    BY <1>5, <2>1, <2>2
<1>6. ASSUME NEW p \in Clients, Pause(p)
      PROVE  TypeOK'
  <2>1. request' \in [Clients -> [op : Ops \cup {"none"}, started : BOOLEAN]]
    BY <1>6 DEF Pause, Reply, NoRequest, TypeOK
  <2>2. CASE paused \/ stopCh = None
    BY <1>6, <2>1, <2>2 DEF Pause, TypeOK
  <2>3. CASE ~(paused \/ stopCh = None)
    <3>1. loop' = [loop EXCEPT ![stopCh].closed = TRUE] /\ stopCh' = None
      BY <1>6, <2>3 DEF Pause
    <3>2. stopCh \in Loops
      BY <2>3 DEF TypeOK
    <3>3. loop' \in [Loops -> [pc : {"free", "first", "select"},
                               closed : BOOLEAN, interval : Intervals]]
      BY <3>1, <3>2 DEF TypeOK
    <3> QED
      BY <1>6, <2>1, <3>1, <3>3 DEF Pause, TypeOK
  <2> QED
    BY <2>2, <2>3
<1>7. ASSUME NEW p \in Clients, Resume(p)
      PROVE  TypeOK'
  <2>1. request' \in [Clients -> [op : Ops \cup {"none"}, started : BOOLEAN]]
    BY <1>7 DEF Resume, Reply, NoRequest, TypeOK
  <2>2. CASE paused /\ request[p].started
    <3>1. PICK l \in Loops : Launch(l, interval, {})
      BY <1>7, <2>2 DEF Resume
    <3>2. interval \in Intervals
      BY DEF TypeOK
    <3> QED
      BY <1>7, <2>1, <3>1, <3>2, LaunchType DEF Resume, TypeOK
  <2>3. CASE ~(paused /\ request[p].started)
    BY <1>7, <2>1, <2>3 DEF Resume, TypeOK
  <2> QED
    BY <2>2, <2>3
<1>8. ASSUME NEW p \in Clients, Reschedule(p)
      PROVE  TypeOK'
  <2>1. request' \in [Clients -> [op : Ops \cup {"none"}, started : BOOLEAN]]
    BY <1>8 DEF Reschedule, Reply, NoRequest, TypeOK
  <2>2. CASE stopCh # None
    <3>1. PICK i \in Intervals, l \in Loops :
            interval' = i /\ Launch(l, i, {stopCh})
      BY <1>8, <2>2 DEF Reschedule
    <3>2. {stopCh} \in SUBSET Loops
      BY <2>2 DEF TypeOK
    <3> QED
      BY <1>8, <2>1, <3>1, <3>2, LaunchType DEF Reschedule, TypeOK
  <2>3. CASE stopCh = None
    BY <1>8, <2>1, <2>3 DEF Reschedule, TypeOK
  <2> QED
    BY <2>2, <2>3
<1>9. CASE UNCHANGED vars
  BY <1>9 DEF vars, TypeOK
<1> QED
  BY <1>1, <1>2, <1>3, <1>4, <1>5, <1>6, <1>7, <1>8, <1>9 DEF Next

(* Whoever triggers it, the job runs only under the flag, so at most once. *)
LEMMA NextRun == RunInv /\ [Next]_vars => RunInv'
<1> SUFFICES ASSUME RunInv, [Next]_vars PROVE RunInv'
  OBVIOUS
<1>1. TypeOK'
  BY NextType DEF RunInv
<1>2. ASSUME NEW e \in Runs, Begin(e)
      PROVE  NoOverlap' /\ FlagIsHeld'
  BY <1>2 DEF Begin, RunInv, TypeOK, NoOverlap, FlagIsHeld
<1>3. ASSUME NEW e \in Runs, Finish(e)
      PROVE  NoOverlap' /\ FlagIsHeld'
  <2>1. \A f \in Runs : run'[f] # "running"
    BY <1>3 DEF Finish, RunInv, TypeOK, NoOverlap
  <2> QED
    BY <2>1 DEF NoOverlap, FlagIsHeld
<1>4. ASSUME UNCHANGED running, UNCHANGED run \/ GoExecute
      PROVE  NoOverlap' /\ FlagIsHeld'
  <2>1. \A f \in Runs : run'[f] = "running" => run[f] = "running"
    BY <1>4 DEF GoExecute, RunInv, TypeOK
  <2> QED
    BY <1>4, <2>1 DEF RunInv, NoOverlap, FlagIsHeld
<1>5. (\E e \in Runs : Begin(e) \/ Finish(e)) \/
      (UNCHANGED running /\ (UNCHANGED run \/ GoExecute))
  BY DEF Next, vars, SetRoot, ReadPaused, StartJob, FirstRun, Tick, Stop,
         ReadRoot, Pause, Resume, Reschedule, RunNow
<1> QED
  BY <1>1, <1>2, <1>3, <1>4, <1>5 DEF RunInv

(* The types hold in every reachable state of a job.                       *)
THEOREM TypeCorrect == Spec => []TypeOK
<1> QED
  BY InitType, NextType, PTL DEF Spec

(* executeJob never runs a job twice at once, whichever loops, triggers and*)
(* requests compete for it (even while Start is on its way).               *)
THEOREM RunsNeverOverlap == Spec => []NoOverlap
<1>1. Init => RunInv
  BY InitType DEF Init, RunInv, NoOverlap, FlagIsHeld
<1>2. RunInv => NoOverlap
  BY DEF RunInv
<1> QED
  BY <1>1, <1>2, NextRun, PTL DEF Spec
-----------------------------------------------------------------------------
LEMMA NoneTicks == TypeOK /\ LoopOfChannel /\ stopCh = None => Ticking = {}
  BY ConstantsAssumption DEF LoopOfChannel, Ticking

(* A step that lets every loop tick on, or not, as before.                 *)
LEMMA Steady ==
  ASSUME Orderly, UNCHANGED <<stopCh, interval>>, Ticking' = Ticking,
         \A l \in Ticking : loop'[l].interval = loop[l].interval
  PROVE  LoopOfChannel' /\ ChannelHasLoop'
<1>1. Ticking \subseteq Loops
  BY DEF Ticking
<1> QED
  BY <1>1 DEF Orderly, LoopOfChannel, ChannelHasLoop

(* A step that leaves one new loop ticking.                                *)
LEMMA Replaced ==
  ASSUME NEW l \in Loops, Ticking' = {l}, stopCh' = l,
         loop'[l].interval = interval'
  PROVE  LoopOfChannel' /\ ChannelHasLoop' /\ stopCh' # None
  BY ConstantsAssumption DEF LoopOfChannel, ChannelHasLoop

(* A step that leaves none.                                                *)
LEMMA Silenced ==
  ASSUME Ticking' = {}, stopCh' = None
  PROVE  LoopOfChannel' /\ ChannelHasLoop'
  BY DEF LoopOfChannel, ChannelHasLoop

(* Requests that are answered, and those that are not touched.             *)
LEMMA ReplyKeeps ==
  ASSUME TypeOK, RootFirst, NEW p \in Clients, NEW op \in Ops, Reply(p, op),
         UNCHANGED <<rootSet, start>>
  PROVE  RootFirst'
<1>1. ASSUME NEW q \in Clients, request'[q].started
      PROVE  request[q].started
  BY <1>1 DEF Reply, NoRequest, TypeOK
<1> QED
  BY <1>1 DEF RootFirst

(* Every step keeps the root context first.                                *)
LEMMA NextRoot == TypeOK /\ RootFirst /\ [Next]_vars => RootFirst'
<1> SUFFICES ASSUME TypeOK, RootFirst, [Next]_vars PROVE RootFirst'
  OBVIOUS
<1>1. CASE SetRoot \/ ReadPaused \/ StartJob
  BY <1>1 DEF SetRoot, ReadPaused, StartJob, RootFirst
<1>2. CASE UNCHANGED <<rootSet, start, request>>
  BY <1>2 DEF RootFirst
<1>3. ASSUME NEW p \in Clients, ReadRoot(p)
      PROVE  RootFirst'
  <2>1. PICK op \in Ops :
          request' = [request EXCEPT ![p] = [op |-> op, started |-> rootSet]]
    BY <1>3 DEF ReadRoot
  <2>2. request'[p].started <=> rootSet
    BY <2>1 DEF TypeOK
  <2>3. \A q \in Clients \ {p} : request'[q] = request[q]
    BY <2>1 DEF TypeOK
  <2> QED
    BY <1>3, <2>2, <2>3 DEF ReadRoot, RootFirst
<1>4. ASSUME NEW p \in Clients, Pause(p) \/ Resume(p) \/ Reschedule(p) \/ RunNow(p)
      PROVE  RootFirst'
  <2>1. \E op \in Ops : Reply(p, op)
    BY <1>4 DEF Pause, Resume, Reschedule, RunNow, Ops
  <2>2. UNCHANGED <<rootSet, start>>
    BY <1>4 DEF Pause, Resume, Reschedule, RunNow
  <2> QED
    BY <2>1, <2>2, ReplyKeeps
<1> QED
  BY <1>1, <1>2, <1>3, <1>4
     DEF Next, vars, FirstRun, Tick, Stop, Begin, Finish

LEMMA InitLoop == Init => LoopInv
<1> SUFFICES ASSUME Init PROVE LoopInv
  OBVIOUS
<1>0. interval \in Intervals
  BY DEF Init
<1>1. Ticking = {}
  BY <1>0, NoLoopType DEF Init, Ticking
<1>2. RootFirst
  BY DEF Init, RootFirst, NoRequest
<1>3. Orderly
  BY <1>1 DEF Init, Orderly, LoopOfChannel, NoLoopBeforeStart,
              ChannelUnlessPaused, ChannelHasLoop
<1> QED
  BY <1>2, <1>3, InitType DEF LoopInv

(* A step that meets no race keeps the loops in order.                     *)
LEMMA NextOrderly ==
  ASSUME TypeOK, RootFirst, Orderly, [Next]_vars, ~raced, ~raced'
  PROVE  Orderly'
<1>1. CASE SetRoot
  <2>1. LoopOfChannel' /\ ChannelHasLoop'
    BY <1>1, Steady DEF SetRoot, jobVars, Ticking
  <2> QED
    BY <1>1, <2>1
       DEF SetRoot, jobVars, Orderly, NoLoopBeforeStart, ChannelUnlessPaused
<1>2. CASE ReadPaused
  <2>1. LoopOfChannel' /\ ChannelHasLoop'
    BY <1>2, Steady DEF ReadPaused, jobVars, Ticking
  <2> QED
    BY <1>2, <2>1
       DEF ReadPaused, jobVars, Orderly, NoLoopBeforeStart, ChannelUnlessPaused
<1>3. CASE StartJob
  <2>1. PICK l \in Loops : Launch(l, interval, {})
    BY <1>3 DEF StartJob
  <2>2. stopCh = None /\ ~paused
    BY <1>3 DEF StartJob, Orderly, NoLoopBeforeStart
  <2>3. Ticking' = {l} /\ loop'[l].interval = interval /\ stopCh' = l
    BY <2>1, <2>2, LaunchTicks, NoneTicks DEF Orderly, TypeOK
  <2>4. LoopOfChannel' /\ ChannelHasLoop' /\ stopCh' # None
    BY <1>3, <2>3, Replaced DEF StartJob
  <2> QED
    BY <1>3, <2>2, <2>4
       DEF StartJob, Orderly, NoLoopBeforeStart, ChannelUnlessPaused
<1>4. ASSUME NEW l \in Loops, FirstRun(l) \/ Tick(l) \/ Stop(l)
      PROVE  Orderly'
  <2>1. \A k \in Loops \ {l} : loop'[k] = loop[k]
    BY <1>4 DEF FirstRun, Tick, Stop, jobVars, TypeOK
  <2>2. (l \in Ticking' <=> l \in Ticking) /\
        (l \in Ticking => loop'[l].interval = loop[l].interval)
    <3>1. CASE FirstRun(l)
      BY <3>1 DEF FirstRun, Ticking, TypeOK
    <3>2. CASE Tick(l)
      BY <3>2 DEF Tick, Ticking
    <3>3. CASE Stop(l)
      <4>1. loop'[l] = NoLoop /\ loop[l].closed
        BY <3>3 DEF Stop, TypeOK
      <4>2. NoLoop.pc = "free"
        BY NoLoopType DEF TypeOK
      <4> QED
        BY <4>1, <4>2 DEF Ticking
    <3> QED
      BY <1>4, <3>1, <3>2, <3>3
  <2>3. Ticking' = Ticking /\ \A k \in Ticking : loop'[k].interval = loop[k].interval
    BY <2>1, <2>2 DEF Ticking
  <2>4. UNCHANGED <<stopCh, interval, paused, start>>
    BY <1>4 DEF FirstRun, Tick, Stop, jobVars
  <2>5. LoopOfChannel' /\ ChannelHasLoop'
    BY <2>3, <2>4, Steady
  <2> QED
    BY <2>4, <2>5 DEF Orderly, NoLoopBeforeStart, ChannelUnlessPaused
<1>5. CASE UNCHANGED <<start, jobVars, loop>>
  <2>1. LoopOfChannel' /\ ChannelHasLoop'
    BY <1>5, Steady DEF jobVars, Ticking
  <2> QED
    BY <1>5, <2>1
       DEF jobVars, Orderly, NoLoopBeforeStart, ChannelUnlessPaused
<1>6. ASSUME NEW p \in Clients, Pause(p)
      PROVE  Orderly'
  <2>1. start = "launch" => paused
    BY <1>6 DEF Pause
  <2>2. start # "launch"
    BY <2>1 DEF Orderly, NoLoopBeforeStart
  <2>3. stopCh' = None /\ paused' /\ UNCHANGED <<start, interval>>
    BY <1>6, <2>2 DEF Pause, Orderly, NoLoopBeforeStart, ChannelUnlessPaused, TypeOK
  <2>4. Ticking' = {}
    <3>1. CASE stopCh = None
      BY <1>6, <3>1, NoneTicks DEF Pause, Ticking, Orderly
    <3>2. CASE stopCh # None
      <4>1. stopCh \in Loops /\ ~paused
        BY <2>2, <3>2 DEF TypeOK, Orderly, NoLoopBeforeStart, ChannelUnlessPaused
      <4>2. loop' = [loop EXCEPT ![stopCh].closed = TRUE]
        BY <1>6, <3>2, <4>1 DEF Pause
      <4>3. loop'[stopCh].closed
        BY <4>1, <4>2 DEF TypeOK
      <4>4. \A l \in Loops \ {stopCh} : loop'[l] = loop[l]
        BY <4>2 DEF TypeOK
      <4> QED
        BY <4>3, <4>4 DEF Orderly, LoopOfChannel, Ticking
    <3> QED
      BY <3>1, <3>2
  <2> QED
    BY <2>2, <2>3, <2>4, Silenced
       DEF Orderly, NoLoopBeforeStart, ChannelUnlessPaused
<1>7. ASSUME NEW p \in Clients, Resume(p)
      PROVE  Orderly'
  <2>1. paused => (request[p].started <=> start = "blocked")
    BY <1>7 DEF Resume, TypeOK
  <2>2. ~paused' /\ UNCHANGED <<start, interval>>
    BY <1>7 DEF Resume
  <2>3. CASE paused /\ request[p].started
    <3>1. PICK l \in Loops : Launch(l, interval, {})
      BY <1>7, <2>3 DEF Resume
    <3>2. stopCh = None /\ start = "blocked"
      BY <2>1, <2>3 DEF Orderly, ChannelUnlessPaused
    <3>3. Ticking' = {l} /\ loop'[l].interval = interval /\ stopCh' = l
      BY <3>1, <3>2, LaunchTicks, NoneTicks DEF Orderly, TypeOK
    <3> QED
      BY <2>2, <3>2, <3>3, Replaced
         DEF Orderly, NoLoopBeforeStart, ChannelUnlessPaused
  <2>4. CASE ~(paused /\ request[p].started)
    <3>1. UNCHANGED <<stopCh, loop>>
      BY <1>7, <2>4 DEF Resume
    <3>2. LoopOfChannel' /\ ChannelHasLoop'
      BY <2>2, <3>1, Steady DEF Ticking
    <3>3. paused => start # "blocked"
      BY <2>1, <2>4
    <3> QED
      BY <2>2, <3>1, <3>2, <3>3
         DEF Orderly, NoLoopBeforeStart, ChannelUnlessPaused
  <2> QED
    BY <2>3, <2>4
<1>8. ASSUME NEW p \in Clients, Reschedule(p)
      PROVE  Orderly'
  <2>1. UNCHANGED <<start, paused>>
    BY <1>8 DEF Reschedule
  <2>2. CASE stopCh # None
    <3>1. PICK i \in Intervals, l \in Loops :
            interval' = i /\ Launch(l, i, {stopCh})
      BY <1>8, <2>2 DEF Reschedule
    <3>2. {stopCh} \in SUBSET Loops
      BY <2>2 DEF TypeOK
    <3>3. Ticking \ {stopCh} = {}
      BY DEF Orderly, LoopOfChannel
    <3>4. Ticking' = {l} /\ loop'[l].interval = i /\ stopCh' = l
      BY <3>1, <3>2, <3>3, LaunchTicks
    <3> QED
      BY <2>1, <2>2, <3>1, <3>4, Replaced
         DEF Orderly, NoLoopBeforeStart, ChannelUnlessPaused
  <2>3. CASE stopCh = None
    <3>1. UNCHANGED <<stopCh, loop>>
      BY <1>8, <2>3 DEF Reschedule
    <3>2. Ticking' = {}
      BY <2>3, <3>1, NoneTicks DEF Ticking, Orderly
    <3> QED
      BY <2>1, <2>3, <3>1, <3>2, Silenced
         DEF Orderly, NoLoopBeforeStart, ChannelUnlessPaused
  <2> QED
    BY <2>2, <2>3
<1>9. ASSUME NEW e \in Runs, Begin(e) \/ Finish(e)
      PROVE  Orderly'
  BY <1>5, <1>9 DEF Begin, Finish
<1>10. ASSUME NEW p \in Clients, ReadRoot(p) \/ RunNow(p)
       PROVE  Orderly'
  BY <1>5, <1>10 DEF ReadRoot, RunNow
<1>11. CASE UNCHANGED vars
  BY <1>5, <1>11 DEF vars, jobVars
<1> QED
  BY <1>1, <1>2, <1>3, <1>4, <1>6, <1>7, <1>8, <1>9, <1>10, <1>11 DEF Next

(* A race once met is not forgotten.                                       *)
LEMMA RacedForGood == TypeOK /\ raced /\ [Next]_vars => raced'
<1> SUFFICES ASSUME TypeOK, raced, [Next]_vars PROVE raced'
  OBVIOUS
<1>1. ASSUME NEW p \in Clients, Pause(p) \/ Resume(p)
      PROVE  raced'
  BY <1>1 DEF Pause, Resume
<1> QED
  BY <1>1 DEF Next, vars, SetRoot, ReadPaused, StartJob, FirstRun, Tick, Stop,
              Begin, Finish, ReadRoot, Reschedule, RunNow

LEMMA NextLoop == LoopInv /\ [Next]_vars => LoopInv'
<1> SUFFICES ASSUME LoopInv, [Next]_vars PROVE LoopInv'
  OBVIOUS
<1>1. TypeOK' /\ RootFirst'
  BY NextType, NextRoot DEF LoopInv
<1>2. ASSUME ~raced' PROVE Orderly'
  <2>1. ~raced
    BY <1>2, RacedForGood DEF LoopInv
  <2> QED
    BY <1>2, <2>1, NextOrderly DEF LoopInv
<1> QED
  BY <1>1, <1>2 DEF LoopInv

(* Pauses, resumes and reschedules, whenever they come, leave at most one  *)
(* loop ticking, the one Pause can stop, at the interval last set, as long *)
(* as none of them met Start halfway.                                      *)
THEOREM AtMostOneLoop == Spec => []OneLoop
<1>1. LoopInv => OneLoop
  BY DEF LoopInv, Orderly, LoopOfChannel, OneLoop
<1> QED
  BY <1>1, InitLoop, NextLoop, PTL DEF Spec

(* A paused job stays dormant until it is resumed (Start, Pause), unless   *)
(* the request met Start halfway.                                          *)
THEOREM PausedStaysDormant == Spec => []DormantUnlessRaced
<1>1. LoopInv => DormantUnlessRaced
  <2> SUFFICES ASSUME LoopInv, ~raced, paused PROVE Ticking = {}
    BY DEF DormantUnlessRaced, PausedIsDormant
  <2>1. stopCh = None
    BY DEF LoopInv, Orderly, NoLoopBeforeStart, ChannelUnlessPaused
  <2> QED
    BY <2>1, NoneTicks DEF LoopInv, Orderly
<1> QED
  BY <1>1, InitLoop, NextLoop, PTL DEF Spec

(* Once Start is through, no request loses the loop of an active job,      *)
(* unless it met Start halfway.                                            *)
THEOREM ActiveIsArmed == Spec => []ArmedWhenActive
<1>1. LoopInv => ArmedWhenActive
  BY DEF LoopInv, Orderly, ChannelUnlessPaused, ChannelHasLoop, ArmedWhenActive
<1> QED
  BY <1>1, InitLoop, NextLoop, PTL DEF Spec
=============================================================================

----------------------------- MODULE Scheduler -----------------------------
(***************************************************************************)
(* internal/scheduler/scheduler.go for one registered, non-system job: the *)
(* goroutine that ticks (runJob), the goroutines that execute the job      *)
(* (executeJob) and the requests that pause, resume, reschedule or trigger *)
(* it while Start is on its way through the jobs.                          *)
(*                                                                         *)
(* A loop stands for one runJob goroutine together with its stop channel.  *)
(* A step is a section under Scheduler.mu or job.mu, a channel operation   *)
(* or an atomic operation.                                                 *)
(***************************************************************************)
CONSTANTS
  Loops,          \* bound: runJob goroutines alive at once
  Runs,           \* bound: executeJob goroutines alive at once
  Clients,        \* bound: requests in progress at once
  Intervals,
  PausedAtBoot,   \* values of the paused flag replayed before Start
  None            \* the nil channel

ASSUME ConstantsAssumption ==
  /\ PausedAtBoot \subseteq BOOLEAN
  /\ None \notin Loops

VARIABLES
  rootSet,   \* Scheduler.rootCtx # nil
  start,     \* where Start is with this job
  paused, stopCh, interval, running,   \* the fields of registeredJob
  loop,      \* the runJob goroutines
  run,       \* the executeJob goroutines
  request,   \* what each client is in the middle of
  raced      \* ghost: a pause or a resume met Start halfway

vars == <<rootSet, start, paused, stopCh, interval, running, loop, run, request,
          raced>>
jobVars == <<paused, stopCh, interval>>

Ops == {"pause", "resume", "reschedule", "run"}

TypeOK ==
  /\ rootSet \in BOOLEAN
  /\ start \in {"new", "read", "launch", "blocked"}
  /\ paused \in BOOLEAN
  /\ stopCh \in Loops \cup {None}
  /\ interval \in Intervals
  /\ running \in BOOLEAN
  /\ loop \in [Loops -> [pc : {"free", "first", "select"}, closed : BOOLEAN,
                         interval : Intervals]]
  /\ run \in [Runs -> {"free", "launched", "running"}]
  /\ request \in [Clients -> [op : Ops \cup {"none"}, started : BOOLEAN]]
  /\ raced \in BOOLEAN

NoRequest == [op |-> "none", started |-> FALSE]
NoLoop == [pc |-> "free", closed |-> FALSE, interval |-> CHOOSE i \in Intervals : TRUE]

Init ==
  /\ rootSet = FALSE
  /\ start = "new"
  /\ paused \in PausedAtBoot
  /\ stopCh = None
  /\ interval \in Intervals
  /\ running = FALSE
  /\ loop = [l \in Loops |-> NoLoop]
  /\ run = [e \in Runs |-> "free"]
  /\ request = [p \in Clients |-> NoRequest]
  /\ raced = FALSE

-----------------------------------------------------------------------------
LaunchBeside(l, i, old) ==
  /\ loop[l].pc = "free"
  /\ loop' = [loop EXCEPT ![l] = [pc |-> "first", closed |-> FALSE,
                                  interval |-> i]]
  /\ stopCh' = l

(* "go s.runJob" on a fresh stop channel l, after closing the channels in  *)
(* old.                                                                    *)
Launch(l, i, old) ==
  /\ loop[l].pc = "free"
  /\ loop' = [k \in Loops |->
                IF k = l THEN [pc |-> "first", closed |-> FALSE, interval |-> i]
                ELSE IF k \in old THEN [loop[k] EXCEPT !.closed = TRUE]
                                  ELSE loop[k]]
  /\ stopCh' = l

(* Start: publish the root context, then read the paused flag under job.mu *)
(* and, in a second section, arm the job.                                  *)
SetRoot ==
  /\ start = "new"
  /\ start' = "read"
  /\ rootSet' = TRUE
  /\ UNCHANGED <<jobVars, running, loop, run, request, raced>>

ReadPaused ==
  /\ start = "read"
  /\ start' = IF paused THEN "blocked" ELSE "launch"
  /\ UNCHANGED <<rootSet, jobVars, running, loop, run, request, raced>>

StartJob ==
  /\ start = "launch"
  /\ start' = "blocked"
  /\ \E l \in Loops : Launch(l, interval, {})
  /\ UNCHANGED <<rootSet, paused, interval, running, run, request, raced>>

-----------------------------------------------------------------------------
(* runJob: run once, then on every tick, until the channel is closed.  The *)
(* select takes either of two ready channels.                              *)
GoExecute ==
  \E e \in Runs : /\ run[e] = "free"
                  /\ run' = [run EXCEPT ![e] = "launched"]

FirstRun(l) ==
  /\ loop[l].pc = "first"
  /\ loop' = [loop EXCEPT ![l].pc = "select"]
  /\ GoExecute
  /\ UNCHANGED <<rootSet, start, jobVars, running, request, raced>>

Tick(l) ==
  /\ loop[l].pc = "select"
  /\ GoExecute
  /\ UNCHANGED <<rootSet, start, jobVars, running, loop, request, raced>>

StopBreaksSelect(l) ==
  /\ loop[l].pc = "select" /\ loop[l].closed
  /\ UNCHANGED vars

Stop(l) ==
  /\ loop[l].pc = "select" /\ loop[l].closed
  /\ loop' = [loop EXCEPT ![l] = NoLoop]
  /\ UNCHANGED <<rootSet, start, jobVars, running, run, request, raced>>

(* executeJob: the compare-and-swap on running decides between running the *)
(* job and skipping the tick; the flag is cleared when the job returns.    *)
BeginUnchecked(e) ==
  /\ run[e] = "launched"
  /\ run' = [run EXCEPT ![e] = "running"]
  /\ running' = TRUE
  /\ UNCHANGED <<rootSet, start, jobVars, loop, request, raced>>

Begin(e) ==
  /\ run[e] = "launched"
  /\ run' = [run EXCEPT ![e] = IF running THEN "free" ELSE "running"]
  /\ running' = TRUE
  /\ UNCHANGED <<rootSet, start, jobVars, loop, request, raced>>

FinishLeaks(e) ==
  /\ run[e] = "running"
  /\ run' = [run EXCEPT ![e] = "done"]
  /\ running' = FALSE
  /\ UNCHANGED <<rootSet, start, jobVars, loop, request, raced>>

FinishKeepsFlag(e) ==
  /\ run[e] = "running"
  /\ run' = [run EXCEPT ![e] = "free"]
  /\ UNCHANGED <<rootSet, start, jobVars, running, loop, request, raced>>

Finish(e) ==
  /\ run[e] = "running"
  /\ run' = [run EXCEPT ![e] = "free"]
  /\ running' = FALSE
  /\ UNCHANGED <<rootSet, start, jobVars, loop, request, raced>>

-----------------------------------------------------------------------------
(* The requests.  Each reads the root context under Scheduler.mu first and *)
(* acts on the job in a section of its own.                                *)
ReadRoot(p) ==
  /\ request[p].op = "none"
  /\ \E op \in Ops :
       request' = [request EXCEPT ![p] = [op |-> op, started |-> rootSet]]
  /\ UNCHANGED <<rootSet, start, jobVars, running, loop, run, raced>>

Reply(p, op) ==
  /\ request[p].op = op
  /\ request' = [request EXCEPT ![p] = NoRequest]

PauseFlagOnly(p) ==
  /\ Reply(p, "pause")
  /\ paused' = TRUE
  /\ UNCHANGED <<rootSet, start, interval, stopCh, loop, running, run, raced>>

(* A pause between Start's read of the flag and its startJob finds no      *)
(* channel to close.                                                       *)
Pause(p) ==
  /\ Reply(p, "pause")
  /\ paused' = TRUE
  /\ IF paused \/ stopCh = None
     THEN UNCHANGED <<stopCh, loop>>
     ELSE /\ loop' = [loop EXCEPT ![stopCh].closed = TRUE]
          /\ stopCh' = None
  /\ raced' = (raced \/ (~paused /\ start = "launch"))
  /\ UNCHANGED <<rootSet, start, interval, running, run>>

ResumeFlagOnly(p) ==
  /\ Reply(p, "resume")
  /\ paused' = FALSE
  /\ UNCHANGED <<rootSet, start, interval, stopCh, loop, running, run, raced>>

(* A resume launches a loop if it saw the root context: Start, not yet     *)
(* through, may read the flag after it and launch another; a resume that   *)
(* saw no root context leaves the job to a Start that is already through.  *)
Resume(p) ==
  /\ Reply(p, "resume")
  /\ paused' = FALSE
  /\ IF paused /\ request[p].started
     THEN \E l \in Loops : Launch(l, interval, {})
     ELSE UNCHANGED <<stopCh, loop>>
  /\ raced' = (raced \/ (paused /\ (request[p].started # (start = "blocked"))))
  /\ UNCHANGED <<rootSet, start, interval, running, run>>

Reschedule(p) ==
  /\ Reply(p, "reschedule")
  /\ \E i \in Intervals :
       /\ interval' = i
       /\ IF stopCh # None
          THEN \E l \in Loops : Launch(l, i, {stopCh})
          ELSE UNCHANGED <<stopCh, loop>>
  /\ UNCHANGED <<rootSet, start, paused, running, run, raced>>

RunNow(p) ==
  /\ Reply(p, "run")
  /\ IF request[p].started /\ ~running THEN GoExecute ELSE UNCHANGED run
  /\ UNCHANGED <<rootSet, start, jobVars, running, loop, raced>>

-----------------------------------------------------------------------------
Next ==
  \/ SetRoot \/ ReadPaused \/ StartJob
  \/ \E l \in Loops : FirstRun(l) \/ Tick(l) \/ Stop(l)
  \/ \E e \in Runs : Begin(e) \/ Finish(e)
  \/ \E p \in Clients :
       ReadRoot(p) \/ Pause(p) \/ Resume(p) \/ Reschedule(p) \/ RunNow(p)

Spec == Init /\ [][Next]_vars

(* Goroutines run, the ticker fires again and again, a select does not     *)
(* prefer its ticker for ever, and the job returns.  Only the bound Runs   *)
(* ever disables FirstRun, hence its strong fairness.                      *)
Fairness ==
  /\ WF_vars(SetRoot) /\ WF_vars(ReadPaused) /\ WF_vars(StartJob)
  /\ \A l \in Loops : SF_vars(FirstRun(l)) /\ WF_vars(Tick(l)) /\ WF_vars(Stop(l))
  /\ \A e \in Runs : WF_vars(Begin(e)) /\ WF_vars(Finish(e))

FairSpec == Spec /\ Fairness

-----------------------------------------------------------------------------
(***************************************************************************)
(* Properties.                                                             *)
(***************************************************************************)
Ticking == {l \in Loops : loop[l].pc # "free" /\ ~loop[l].closed}

(* The job never runs twice at once, whoever triggers it: ticks of a loop  *)
(* being replaced, of its successor and of RunNow race for the flag        *)
(* (executeJob, running.CompareAndSwap).                                   *)
NoOverlap ==
  \A e, f \in Runs : run[e] = "running" /\ run[f] = "running" => e = f

(* "Jobs marked paused (via Pause prior to Start) stay dormant until Resume*)
(* is called" and Pause is "safe to call before Start": no loop whose      *)
(* channel is open belongs to a paused job.  Not so: see the run of this   *)
(* name.                                                                   *)
PausedIsDormant == paused => Ticking = {}

(* A paused job stays dormant if no pause and no resume was served between *)
(* the sections of Start.                                                  *)
DormantUnlessRaced == ~raced => PausedIsDormant

(* Pauses, resumes and reschedules in any order, before, during and after  *)
(* Start, leave at most one loop ticking, the one Pause can stop, at the   *)
(* interval last set, unless one of them raced with Start.                 *)
OneLoop ==
  ~raced => \A l \in Ticking : l = stopCh /\ loop[l].interval = interval

(* A job that is not paused has a loop once Start is through, unless a     *)
(* request raced with it.                                                  *)
ArmedWhenActive ==
  start = "blocked" /\ ~paused /\ ~raced => Ticking # {}

(* A job is executed again and again unless it is paused: no request loses *)
(* the loop, and no run keeps the flag that skips every later tick.        *)
KeepsRunning == []<>(running \/ paused \/ raced) /\ []<>~running

(* A loop whose channel was closed ends, so that reschedules do not pile   *)
(* up goroutines and tickers.                                              *)
ClosedLoopEnds == \A l \in Loops : loop[l].closed ~> loop[l].pc = "free"
=============================================================================

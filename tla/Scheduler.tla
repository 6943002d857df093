----------------------------- MODULE Scheduler -----------------------------
(***************************************************************************)
(* The daemon's scheduler (internal/scheduler/scheduler.go): one poller    *)
(* goroutine that claims issues and feeds a bounded work channel, a pool   *)
(* of workers that each drive one issue at a time, a reaper that cancels   *)
(* overdue drives, and a control seam through which an operator enqueues   *)
(* or cancels an issue.                                                    *)
(*                                                                         *)
(* Every critical section of inflightSet is one step, and so is every      *)
(* channel operation and every call that leaves the package; whatever runs *)
(* between two of them in the code can interleave here.  A drive (RunTask) *)
(* is external: it is modelled by what it does to the task's disposition   *)
(* and by how it ends.                                                     *)
(***************************************************************************)
EXTENDS Naturals, Sequences, FiniteSets

CONSTANTS
    Issue,       \* the issues of the source collection
    Worker,      \* the worker goroutines, s.Workers of them
    QueueDepth,  \* capacity of the work channel (queueDepth, 128 in the code)
    NoIssue      \* a worker's or the poller's "no issue"

ASSUME QueueDepthAssumption == QueueDepth \in Nat \ {0}
ASSUME NoIssueAssumption == NoIssue \notin Issue

VARIABLES
    inflight,  \* inflightSet: no entry, an entry without cancel func, or armed
    queue,     \* the work channel
    pc,        \* where the poller goroutine (Serve) is
    src,       \* the call the poller examines issues for
    batch,     \* the issues that call has yet to examine
    cur,       \* the issue under examination
    wpc,       \* where each worker is in its loop
    job,       \* the issue each worker holds
    cause,     \* context.Cause of each worker's drive context
    overdue,   \* the drive has run for DriveDeadline or longer
    reaper,    \* the reaper goroutine
    ctxDone,   \* the daemon's context is cancelled
    store,     \* each issue's task, by how far driving it again goes
    asked      \* history: issues an operator enqueue queued, until their drive

claimVars  == <<inflight, queue>>
pollerVars == <<pc, src, batch, cur>>
workerVars == <<wpc, job, cause, overdue>>
taskVars   == <<store, asked>>
vars == <<inflight, queue, pc, src, batch, cur, wpc, job, cause, overdue,
          reaper, ctxDone, store, asked>>

(***************************************************************************)
(* A task's disposition: "none" has no row yet and counts as open.         *)
(***************************************************************************)
Open    == {"none", "open"}
Settled == {"stopped", "finished"}

TypeOK ==
    /\ inflight \in [Issue -> {"free", "claimed", "armed"}]
    /\ queue \in Seq(Issue)
    /\ Len(queue) <= QueueDepth
    /\ pc \in {"select", "list", "seed", "next", "disposition", "claim",
               "send", "cancel", "drain", "done"}
    /\ src \in {"none", "list", "seed", "operator"}
    /\ batch \in SUBSET Issue
    /\ cur \in Issue \cup {NoIssue}
    /\ wpc \in [Worker -> {"idle", "picked", "armed", "driving", "returned",
                           "exited"}]
    /\ job \in [Worker -> Issue \cup {NoIssue}]
    /\ cause \in [Worker -> {"none", "operator", "deadline", "shutdown"}]
    /\ overdue \in [Worker -> BOOLEAN]
    /\ reaper \in {"off", "sweeping", "stopped"}
    /\ ctxDone \in BOOLEAN
    /\ store \in [Issue -> Open \cup Settled]
    /\ asked \in SUBSET Issue

(***************************************************************************)
(* Serve starts by seeding from the store; a task may be in any            *)
(* disposition then, since the store outlives the daemon.                  *)
(***************************************************************************)
Init ==
    /\ inflight = [i \in Issue |-> "free"]
    /\ queue = <<>>
    /\ pc = "seed"
    /\ src = "none"
    /\ batch = {}
    /\ cur = NoIssue
    /\ wpc = [w \in Worker |-> "idle"]
    /\ job = [w \in Worker |-> NoIssue]
    /\ cause = [w \in Worker |-> "none"]
    /\ overdue = [w \in Worker |-> FALSE]
    /\ reaper = "off"
    /\ ctxDone = FALSE
    /\ store \in [Issue -> Open \cup Settled]
    /\ asked = {}

-----------------------------------------------------------------------------
(***************************************************************************)
(* The poller.                                                             *)
(***************************************************************************)

\* Mutant: the operator's enqueue does not refuse a finished task.
AdmitsFinished(i) == src = "operator" \/ store[i] \in Open

\* Which tasks a call may claim: the poller's only open ones, an operator's
\* explicit enqueue stopped ones too.
Admits(i) == store[i] \in IF src = "operator" THEN Open \cup {"stopped"} ELSE Open

\* The loop over the batch goes on with its next issue.
NextIssue == pc' = "next" /\ cur' = NoIssue

\* Seeding is over: back to (or, at startup, first into) Serve's select.  The
\* reaper is started once, after the startup seed.
ToSelect ==
    /\ pc' = "select"
    /\ src' = "none"
    /\ reaper' = IF reaper = "off" THEN "sweeping" ELSE reaper

Tick ==
    /\ pc = "select"
    /\ pc' = "list"
    /\ UNCHANGED <<claimVars, src, batch, cur, workerVars, reaper, ctxDone,
                   taskVars>>

\* List finds the labelled issues.  Draining a settled issue's label is best
\* effort, so some settled issues can still be among them.
ListCandidates(stale) ==
    /\ pc = "list"
    /\ pc' = "next"
    /\ src' = "list"
    /\ batch' = {i \in Issue : store[i] \in Open} \cup stale
    /\ UNCHANGED <<claimVars, cur, workerVars, reaper, ctxDone, taskVars>>

\* Mutant: a failed List skips the seeding of its poll.
ListFailsSkipsSeed ==
    /\ pc = "list"
    /\ pc' = "select"
    /\ UNCHANGED <<claimVars, src, batch, cur, workerVars, reaper, ctxDone,
                   taskVars>>

ListFails ==
    /\ pc = "list"
    /\ pc' = "seed"
    /\ UNCHANGED <<claimVars, src, batch, cur, workerVars, reaper, ctxDone,
                   taskVars>>

SeedFromStore ==
    /\ pc = "seed"
    /\ pc' = "next"
    /\ src' = "seed"
    /\ batch' = {i \in Issue : store[i] = "open"}
    /\ UNCHANGED <<claimVars, cur, workerVars, reaper, ctxDone, taskVars>>

SeedFails ==
    /\ pc = "seed"
    /\ ToSelect
    /\ UNCHANGED <<claimVars, batch, cur, workerVars, ctxDone, taskVars>>

\* The operator's Enqueue is handed over while the poller is in its select.
TakeEnqueue(i) ==
    /\ pc = "select"
    /\ pc' = "next"
    /\ src' = "operator"
    /\ batch' = {i}
    /\ UNCHANGED <<claimVars, cur, workerVars, reaper, ctxDone, taskVars>>

\* inflight.has: an issue already in flight is skipped by the batch, and is a
\* success for the operator.
SkipInflight(i) ==
    /\ pc = "next"
    /\ i \in batch
    /\ inflight[i] # "free"
    /\ batch' = batch \ {i}
    /\ UNCHANGED <<claimVars, pc, src, cur, workerVars, reaper, ctxDone, taskVars>>

\* Mutant: the disposition of an issue in flight is read too.
ExamineInFlight(i) ==
    /\ pc = "next"
    /\ i \in batch
    /\ batch' = batch \ {i}
    /\ cur' = i
    /\ pc' = "disposition"
    /\ UNCHANGED <<claimVars, src, workerVars, reaper, ctxDone, taskVars>>

Examine(i) ==
    /\ pc = "next"
    /\ i \in batch
    /\ inflight[i] = "free"
    /\ batch' = batch \ {i}
    /\ cur' = i
    /\ pc' = "disposition"
    /\ UNCHANGED <<claimVars, src, workerVars, reaper, ctxDone, taskVars>>

Admit ==
    /\ pc = "disposition"
    /\ Admits(cur)
    /\ pc' = "claim"
    /\ UNCHANGED <<claimVars, src, batch, cur, workerVars, reaper, ctxDone,
                   taskVars>>

\* The task has settled, or its disposition cannot be read.
Refuse ==
    /\ pc = "disposition"
    /\ NextIssue
    /\ UNCHANGED <<claimVars, src, batch, workerVars, reaper, ctxDone,
                   taskVars>>

\* inflight.add: FALSE, hence no send, when another claim came first.
Claim ==
    /\ pc = "claim"
    /\ IF inflight[cur] = "free"
         THEN /\ inflight' = [inflight EXCEPT ![cur] = "claimed"]
              /\ pc' = "send"
              /\ UNCHANGED cur
         ELSE /\ inflight' = inflight
              /\ NextIssue
    /\ UNCHANGED <<queue, src, batch, workerVars, reaper, ctxDone, taskVars>>

\* Mutant: the channel is taken to be unbounded.
SendUnbounded ==
    /\ pc = "send"
    /\ queue' = Append(queue, cur)
    /\ NextIssue
    /\ asked' = IF src = "operator" THEN asked \cup {cur} ELSE asked
    /\ UNCHANGED <<inflight, src, batch, workerVars, reaper, ctxDone, store>>

Send ==
    /\ pc = "send"
    /\ Len(queue) < QueueDepth
    /\ queue' = Append(queue, cur)
    /\ NextIssue
    /\ asked' = IF src = "operator" THEN asked \cup {cur} ELSE asked
    /\ UNCHANGED <<inflight, src, batch, workerVars, reaper, ctxDone, store>>

\* Mutant: a full channel keeps the claim.
SendFullKeepsClaim ==
    /\ pc = "send"
    /\ Len(queue) = QueueDepth
    /\ NextIssue
    /\ UNCHANGED <<claimVars, src, batch, workerVars, reaper, ctxDone, taskVars>>

\* The send never blocks: a full channel gives the claim back.
SendFull ==
    /\ pc = "send"
    /\ Len(queue) = QueueDepth
    /\ inflight' = [inflight EXCEPT ![cur] = "free"]
    /\ NextIssue
    /\ UNCHANGED <<queue, src, batch, workerVars, reaper, ctxDone, taskVars>>

\* A ticker poll seeds after it has listed; everything else returns to select.
EndBatch ==
    /\ pc = "next"
    /\ batch = {}
    /\ IF src = "list"
         THEN pc' = "seed" /\ src' = "none" /\ UNCHANGED reaper
         ELSE ToSelect
    /\ UNCHANGED <<claimVars, batch, cur, workerVars, ctxDone, taskVars>>

\* inflight.cancel copies the cancel func out of an armed entry under the lock
\* and calls it after unlocking; an entry that is not armed is an error.
TakeCancel(i) ==
    /\ pc = "select"
    /\ src' = "operator"
    /\ IF inflight[i] = "armed"
         THEN pc' = "cancel" /\ cur' = i
         ELSE NextIssue
    /\ UNCHANGED <<claimVars, batch, workerVars, reaper, ctxDone, taskVars>>

\* The func is bound to the drive it was copied from, and only the poller can
\* start another drive of the issue.  The first cancellation's cause stays.
CallCancel ==
    /\ pc = "cancel"
    /\ cause' = [w \in Worker |-> IF job[w] = cur /\ cause[w] = "none"
                                    THEN "operator" ELSE cause[w]]
    /\ NextIssue
    /\ UNCHANGED <<claimVars, src, batch, wpc, job, overdue, reaper,
                   ctxDone, taskVars>>

\* Shutdown seen in the select: close the channel, then wait for the workers
\* and the reaper.
CloseWork ==
    /\ pc = "select"
    /\ ctxDone
    /\ pc' = "drain"
    /\ UNCHANGED <<claimVars, src, batch, cur, workerVars, reaper, ctxDone,
                   taskVars>>

ServeReturns ==
    /\ pc = "drain"
    /\ \A w \in Worker : wpc[w] = "exited"
    /\ reaper = "stopped"
    /\ pc' = "done"
    /\ UNCHANGED <<claimVars, src, batch, cur, workerVars, reaper, ctxDone,
                   taskVars>>

-----------------------------------------------------------------------------
(***************************************************************************)
(* The workers.                                                            *)
(***************************************************************************)

\* Mutant: a claim covers the channel only.
ReceiveDropsClaim(w) ==
    /\ wpc[w] = "idle"
    /\ queue # <<>>
    /\ inflight' = [inflight EXCEPT ![Head(queue)] = "free"]
    /\ job' = [job EXCEPT ![w] = Head(queue)]
    /\ queue' = Tail(queue)
    /\ wpc' = [wpc EXCEPT ![w] = "picked"]
    /\ UNCHANGED <<pollerVars, cause, overdue, reaper, ctxDone, taskVars>>

Receive(w) ==
    /\ wpc[w] = "idle"
    /\ queue # <<>>
    /\ job' = [job EXCEPT ![w] = Head(queue)]
    /\ queue' = Tail(queue)
    /\ wpc' = [wpc EXCEPT ![w] = "picked"]
    /\ UNCHANGED <<inflight, pollerVars, cause, overdue, reaper, ctxDone,
                   taskVars>>

\* Mutant: workers quit at the shutdown and leave the channel as it is.
ExitUndrained(w) ==
    /\ wpc[w] = "idle"
    /\ pc = "drain"
    /\ wpc' = [wpc EXCEPT ![w] = "exited"]
    /\ UNCHANGED <<claimVars, pollerVars, job, cause, overdue, reaper, ctxDone,
                   taskVars>>

\* The range over the closed channel ends only once it is empty.
Exit(w) ==
    /\ wpc[w] = "idle"
    /\ pc = "drain"
    /\ queue = <<>>
    /\ wpc' = [wpc EXCEPT ![w] = "exited"]
    /\ UNCHANGED <<claimVars, pollerVars, job, cause, overdue, reaper, ctxDone,
                   taskVars>>

\* Mutant: the drive's context does not descend from the daemon's.
ArmDetached(w) ==
    /\ wpc[w] = "picked"
    /\ inflight' = [inflight EXCEPT ![job[w]] = "armed"]
    /\ overdue' = [overdue EXCEPT ![w] = FALSE]
    /\ wpc' = [wpc EXCEPT ![w] = "armed"]
    /\ UNCHANGED <<queue, pollerVars, job, cause, reaper, ctxDone, taskVars>>

\* Mutant: the drive's cancel func is not recorded in the claim.
ArmWithoutHandle(w) ==
    /\ wpc[w] = "picked"
    /\ cause' = [cause EXCEPT ![w] = IF ctxDone THEN "shutdown" ELSE "none"]
    /\ overdue' = [overdue EXCEPT ![w] = FALSE]
    /\ wpc' = [wpc EXCEPT ![w] = "armed"]
    /\ UNCHANGED <<claimVars, pollerVars, job, reaper, ctxDone, taskVars>>

\* Derive the drive's context from the daemon's and record its cancel func and
\* start time in the claim.
Arm(w) ==
    /\ wpc[w] = "picked"
    /\ inflight' = [inflight EXCEPT ![job[w]] =
                        IF inflight[job[w]] = "free" THEN "free" ELSE "armed"]
    /\ cause' = [cause EXCEPT ![w] = IF ctxDone THEN "shutdown" ELSE "none"]
    /\ overdue' = [overdue EXCEPT ![w] = FALSE]
    /\ wpc' = [wpc EXCEPT ![w] = "armed"]
    /\ UNCHANGED <<queue, pollerVars, job, reaper, ctxDone, taskVars>>

\* The drive loads its task, creating it if there is none and starting a
\* stopped one over; a finished one makes it return at once.
Load(w) ==
    /\ wpc[w] = "armed"
    /\ asked' = asked \ {job[w]}
    /\ IF store[job[w]] = "finished"
         THEN /\ wpc' = [wpc EXCEPT ![w] = "returned"]
              /\ store' = store
         ELSE /\ wpc' = [wpc EXCEPT ![w] = "driving"]
              /\ store' = [store EXCEPT ![job[w]] = "open"]
    /\ UNCHANGED <<claimVars, pollerVars, job, cause, overdue, reaper, ctxDone>>

\* The task cannot be loaded, or a stopped one is refused for its open PR or
\* remote branch.  These errors are not reclassified by the cancellation cause.
LoadFails(w) ==
    /\ wpc[w] = "armed"
    /\ asked' = asked \ {job[w]}
    /\ wpc' = [wpc EXCEPT ![w] = "returned"]
    /\ UNCHANGED <<claimVars, pollerVars, job, cause, overdue, reaper, ctxDone,
                   store>>

\* The drive yields its worker in a merge-gate wait and returns no error, even
\* when a cancellation reached it too late.
Suspend(w) ==
    /\ wpc[w] = "driving"
    /\ wpc' = [wpc EXCEPT ![w] = "returned"]
    /\ UNCHANGED <<claimVars, pollerVars, job, cause, overdue, reaper, ctxDone,
                   taskVars>>

\* The drive reaches a terminal state.
Settle(w, d) ==
    /\ wpc[w] = "driving"
    /\ store' = [store EXCEPT ![job[w]] = d]
    /\ wpc' = [wpc EXCEPT ![w] = "returned"]
    /\ UNCHANGED <<claimVars, pollerVars, job, cause, overdue, reaper, ctxDone,
                   asked>>

\* The drive fails with no cancellation: the task stays open.
Fail(w) ==
    /\ wpc[w] = "driving"
    /\ cause[w] = "none"
    /\ wpc' = [wpc EXCEPT ![w] = "returned"]
    /\ UNCHANGED <<claimVars, pollerVars, job, cause, overdue, reaper, ctxDone,
                   taskVars>>

\* A cancelled drive fails and the cause decides: an operator's cancel settles
\* the task as stopped, a reaped drive escalates (to a state that need not be
\* terminal), a shutdown leaves the task as it is for the next daemon.  The
\* settling write itself may fail.
Interrupted(w) ==
    /\ wpc[w] = "driving"
    /\ cause[w] # "none"
    /\ \E d \in IF cause[w] = "shutdown" THEN {"open"} ELSE {"open", "stopped"} :
           store' = [store EXCEPT ![job[w]] = d]
    /\ wpc' = [wpc EXCEPT ![w] = "returned"]
    /\ UNCHANGED <<claimVars, pollerVars, job, cause, overdue, reaper, ctxDone,
                   asked>>

\* RunTask has returned: release the context and give up the claim.
Remove(w) ==
    /\ wpc[w] = "returned"
    /\ inflight' = [inflight EXCEPT ![job[w]] = "free"]
    /\ job' = [job EXCEPT ![w] = NoIssue]
    /\ cause' = [cause EXCEPT ![w] = "none"]
    /\ overdue' = [overdue EXCEPT ![w] = FALSE]
    /\ wpc' = [wpc EXCEPT ![w] = "idle"]
    /\ UNCHANGED <<queue, pollerVars, reaper, ctxDone, taskVars>>

-----------------------------------------------------------------------------
(***************************************************************************)
(* Time, the reaper and shutdown.                                          *)
(***************************************************************************)

Running(w) == wpc[w] \in {"armed", "driving", "returned"}

DeadlinePasses(w) ==
    /\ Running(w)
    /\ ~overdue[w]
    /\ overdue' = [overdue EXCEPT ![w] = TRUE]
    /\ UNCHANGED <<claimVars, pollerVars, wpc, job, cause, reaper, ctxDone,
                   taskVars>>

\* One sweep under the lock: every armed drive past the deadline is cancelled,
\* every entry stays.
Reap ==
    /\ reaper = "sweeping"
    /\ \E w \in Worker : Running(w) /\ overdue[w] /\ cause[w] = "none"
    /\ cause' = [w \in Worker |->
                    IF /\ Running(w) /\ inflight[job[w]] = "armed"
                       /\ overdue[w] /\ cause[w] = "none"
                      THEN "deadline" ELSE cause[w]]
    /\ UNCHANGED <<claimVars, pollerVars, wpc, job, overdue, reaper, ctxDone,
                   taskVars>>

ReaperStops ==
    /\ reaper = "sweeping"
    /\ ctxDone
    /\ reaper' = "stopped"
    /\ UNCHANGED <<claimVars, pollerVars, workerVars, ctxDone, taskVars>>

\* Cancelling the daemon's context cancels every drive context derived from it.
Shutdown ==
    /\ ~ctxDone
    /\ ctxDone' = TRUE
    /\ cause' = [w \in Worker |-> IF Running(w) /\ cause[w] = "none"
                                    THEN "shutdown" ELSE cause[w]]
    /\ UNCHANGED <<claimVars, pollerVars, wpc, job, overdue, reaper, taskVars>>

\* Serve has returned; nothing runs any more.
Terminated == pc = "done" /\ UNCHANGED vars

-----------------------------------------------------------------------------
Poller ==
    \/ Tick \/ ListFails \/ SeedFromStore \/ SeedFails
    \/ \E stale \in SUBSET {i \in Issue : store[i] \in Settled} : ListCandidates(stale)
    \/ \E i \in Issue : SkipInflight(i) \/ Examine(i)
    \/ Admit \/ Refuse \/ Claim \/ Send \/ SendFull \/ EndBatch
    \/ CallCancel \/ CloseWork \/ ServeReturns

Operator == \E i \in Issue : TakeEnqueue(i) \/ TakeCancel(i)

DriveEnds(w) ==
    \/ Suspend(w) \/ Fail(w) \/ Interrupted(w)
    \/ \E d \in Settled : Settle(w, d)

Work(w) ==
    \/ Receive(w) \/ Exit(w) \/ Arm(w) \/ Load(w) \/ LoadFails(w)
    \/ DriveEnds(w) \/ Remove(w)

Next ==
    \/ Poller
    \/ Operator
    \/ \E w \in Worker : Work(w) \/ DeadlinePasses(w)
    \/ Reap \/ ReaperStops \/ Shutdown \/ Terminated

Spec == Init /\ [][Next]_vars

(***************************************************************************)
(* Fairness.  Every goroutine keeps running, and Go's select, choosing     *)
(* among its ready cases at random, does not pass over the shutdown for    *)
(* ever.  A drive may never end by itself: only a cancelled one must,      *)
(* since every call it makes honours its context.                          *)
(***************************************************************************)
GoroutinesRun ==
    /\ WF_vars(Poller) /\ SF_vars(CloseWork)
    /\ \A w \in Worker :
         /\ WF_vars(Receive(w) \/ Exit(w) \/ Arm(w) \/ Load(w) \/ LoadFails(w)
                       \/ Remove(w))
         /\ WF_vars(cause[w] # "none" /\ DriveEnds(w))
         /\ WF_vars(DeadlinePasses(w))
    /\ WF_vars(Reap) /\ WF_vars(ReaperStops)

\* The issue that promises about single issues are checked of: the specification
\* tells no two of them apart.
AnyIssue == CHOOSE i \in Issue : TRUE

\* The select does not pass over the ticker either, and reads of the store fail
\* now and then but not for ever; nothing is assumed of other issues' reads.
ReadsSucceed ==
    /\ SF_vars(Tick) /\ SF_vars(SeedFromStore)
    /\ SF_vars(cur = AnyIssue /\ Admit)
    /\ SF_vars(\E w \in Worker : job[w] = AnyIssue /\ Load(w))

RunningSpec == Spec /\ GoroutinesRun
FairSpec == RunningSpec /\ ReadsSucceed

-----------------------------------------------------------------------------
(***************************************************************************)
(* Safety.                                                                 *)
(***************************************************************************)
Queued(i)  == \E k \in 1..Len(queue) : queue[k] = i
Sending(i) == pc = "send" /\ cur = i
Held(i)    == \E w \in Worker : job[w] = i

\* No two goroutines ever hold the same issue, on the channel or off it, so no
\* task is driven by two workers at once: inflightSet is the only lock there is.
ExclusiveClaim ==
    /\ \A v, w \in Worker : job[v] = job[w] /\ job[v] # NoIssue => v = w
    /\ \A j, k \in 1..Len(queue) : queue[j] = queue[k] => j = k
    /\ \A i \in Issue : Queued(i) => ~Held(i) /\ ~Sending(i)
    /\ \A i \in Issue : Sending(i) => ~Held(i)

\* An issue has an inflight entry exactly while someone holds it, armed exactly
\* while a worker runs it.  A leaked entry would hide the issue from every later
\* poll; a lost one would let a second worker in; a wrongly armed one would let
\* a cancel or the reaper miss the drive.
ClaimAccounting ==
    \A i \in Issue :
        /\ inflight[i] # "free" <=> Queued(i) \/ Sending(i) \/ Held(i)
        /\ inflight[i] = "armed" <=> \E w \in Worker : Running(w) /\ job[w] = i

\* Driving a task now is due: it is open, or it is stopped and an operator asked
\* for it.
Due(i) == store[i] \in Open \/ (store[i] = "stopped" /\ i \in asked)

\* Whatever happened between the disposition check and the start of the drive,
\* the drive is still due when it starts: a cancel or an escalation sticks
\* against every poll, and a finished task never runs again.
DriveIsDue ==
    /\ \A i \in Issue : Queued(i) => Due(i)
    /\ \A w \in Worker : wpc[w] \in {"picked", "armed"} => Due(job[w])

Lease == INSTANCE DriveLease WITH lease <- inflight

\* The scheduler keeps the promise DriveLease states.
ImplementsLease == Lease!Spec

-----------------------------------------------------------------------------
(***************************************************************************)
(* Liveness.                                                               *)
(***************************************************************************)

\* A drive ends, wedged or not: the reaper or the shutdown ends it.
DriveAlwaysEnds == \A w \in Worker : wpc[w] = "driving" ~> wpc[w] # "driving"

\* An open task whose drive suspended, failed or was reaped runs again, unless
\* the daemon is told to stop.
OpenWorkIsDriven ==
    store[AnyIssue] = "open" ~>
        ctxDone \/ \E w \in Worker : wpc[w] = "driving" /\ job[w] = AnyIssue

\* An enqueue that queued its issue is followed by a drive, even if the daemon
\* is told to stop first: the workers drain the channel.
QueuedEnqueueIsDriven == AnyIssue \in asked ~> AnyIssue \notin asked

\* Serve returns once the daemon's context is done: no worker, drive, full
\* channel or reaper holds it up.
ShutdownCompletes == ctxDone ~> pc = "done"

-----------------------------------------------------------------------------
(***************************************************************************)
(* What the documentation says and the code does not do: checked to be     *)
(* violated.                                                               *)
(***************************************************************************)

\* cancel_task cancels the running drive, and its task settles to cancelled.
CancelSettles ==
    \A w \in Worker :
        wpc[w] = "returned" /\ cause[w] = "operator" => store[job[w]] \in Settled

=============================================================================

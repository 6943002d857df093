------------------------------ MODULE AgentWait ------------------------------
(***************************************************************************)
(* The wait of a drive for its agent (awaitAgentState in                    *)
(* internal/engine/engine.go): the agent's events, the timeout of the       *)
(* state, how long an agent may stay blocked, and how long it may show      *)
(* nothing at all, with the look at its pane and the classifier that come   *)
(* before it is given up for that.                                          *)
(*                                                                         *)
(* Time passes in ticks, each far longer than a poll of the panes or a call  *)
(* (seconds against minutes): before the next tick the drive has dealt with  *)
(* what was due, and with what the pane showed.  Within a tick the agent,    *)
(* the poller and the drive interleave in any way.                           *)
(*                                                                         *)
(* The bytes of a pane never come back to what they were: whether they       *)
(* differ from those the drive saw last is all it looks at.                  *)
(***************************************************************************)
EXTENDS Herdr, Sequences

CONSTANTS
    StateTimeout,    \* the timeout of an agent state
    BlockedTimeout,  \* policies.blocked_timeout
    NoProgress,      \* the no-progress window
    MaxEvents,       \* bound: events on their way
    Off              \* a timer that is not set

ASSUME WaitAssumption ==
    /\ StateTimeout \in Nat \ {0} /\ BlockedTimeout \in Nat \ {0}
    /\ NoProgress \in Nat \ {0} /\ MaxEvents \in Nat \ {0}
    /\ Off \notin Nat

VARIABLES
    stage,     \* the task's state
    entered,   \* the audit log records when the task entered it
    artifact,  \* what the agent of this state is to produce is there
    left,      \* the drive's timer for the state's timeout
    blocked,   \* the one for a blocked agent
    progress,  \* the one for an agent that shows nothing
    queue,     \* the events of the agent's pane on their way to the drive
    shown,     \* its status as the hub knows it
    changed,   \* its pane differs from what the drive saw last
    since,     \* history: how long the task has been in its state
    still,     \* history: how long the agent has shown nothing
    parked     \* history: how long it was blocked without going to work

timers   == <<left, blocked, progress>>
sightVars == <<queue, shown, changed>>
histVars == <<since, still, parked>>
waitVars == <<stage, entered, artifact, left, blocked, progress, queue, shown,
              changed, since, still, parked>>

\* implementing: a gate looks for what the agent made; pr_open: its verdict is a
\* decision, which may go either way.  What lies beyond asks no agent, and is
\* left out.
AgentStage == {"implementing", "pr_open"}
Settled    == {"merged", "escalated"}
Decides    == stage = "pr_open"
Outcomes   == IF Decides THEN {"merged", "escalated"} ELSE {"pr_open"}

Waiting == {"select", "classify"}

Timer(n) == {Off} \cup 0..n
Least(a, b) == IF a < b THEN a ELSE b

WaitTypeOK ==
    /\ stage \in AgentStage \cup Settled
    /\ entered \in BOOLEAN /\ artifact \in BOOLEAN
    /\ left \in Timer(StateTimeout)
    /\ blocked \in Timer(BlockedTimeout)
    /\ progress \in Timer(NoProgress)
    /\ queue \in UNION {[1..n -> {"idle", "working", "blocked", "done"}] : n \in 0..MaxEvents}
    /\ shown \in {"none", "idle", "working", "blocked", "done"}
    /\ changed \in BOOLEAN
    /\ since \in 0..StateTimeout + 1
    /\ still \in 0..2 * NoProgress + 1
    /\ parked \in 0..BlockedTimeout + 1

\* The task was created in this state, and no audit row tells when; or it came from
\* an earlier one.
WaitInit ==
    /\ stage = "implementing" /\ entered \in BOOLEAN /\ artifact = FALSE
    /\ left = Off /\ blocked = Off /\ progress = Off
    /\ queue = <<>> /\ shown = "none" /\ changed = FALSE
    /\ since = 0 /\ still = 0 /\ parked = 0

-----------------------------------------------------------------------------
\* The wait begins: the state's timer is set to what is left of it by the audit
\* log, or to all of it if no row tells when it was entered; the others anew.  The
\* subscription starts with what the hub knows.  A pane that cannot be read costs
\* a window (see paneDigest).
SetTimers(remaining) ==
    /\ UNCHANGED faults \/ Fault
    /\ op' = "select"
    /\ left' = remaining /\ blocked' = Off /\ progress' = NoProgress
    /\ queue' = IF shown = "none" THEN <<>> ELSE <<shown>>
    /\ changed' = (faults' # faults)
    /\ still' = 0 /\ parked' = 0
    /\ UNCHANGED <<stage, entered, artifact, shown, since>>

\* Mutant: what is left is not held at zero.
RemainingSigned == StateTimeout - since

Remaining == StateTimeout - Least(since, StateTimeout)

\* Mutant: every drive gives the state its full time.
BeginAnew == SetTimers(StateTimeout)

BeginWait == SetTimers(IF entered THEN Remaining ELSE StateTimeout)

Quiet ==
    /\ left' = Off /\ blocked' = Off /\ progress' = Off
    /\ queue' = <<>> /\ changed' = FALSE /\ still' = 0 /\ parked' = 0

InWait == UNCHANGED <<agents, made, dir, reg, br, handle, hurt, post>>

\* The drive leaves the wait with an error: the task stays where it is.
WaitFails ==
    /\ op' = "off" /\ Quiet
    /\ UNCHANGED <<stage, entered, artifact, shown, since>>

\* The drive leaves for state s.
Leave(s) ==
    /\ op' = IF s \in AgentStage THEN "enter" ELSE IF s = "merged" THEN "settled" ELSE "off"
    /\ stage' = s /\ entered' = TRUE /\ since' = 0 /\ artifact' = FALSE
    /\ Quiet
    /\ UNCHANGED <<shown, faults>>

\* The wait goes on with the progress timer reset.
Carry(seen) ==
    /\ op' = "select" /\ progress' = NoProgress /\ changed' = seen
    /\ UNCHANGED <<stage, entered, artifact, left, shown, since>>

(***************************************************************************)
(* A timer fires.                                                           *)
(***************************************************************************)
TimeoutFires ==
    /\ op = "select" /\ left = 0
    /\ Leave("escalated")

BlockedFires ==
    /\ op = "select" /\ blocked = 0
    /\ Leave("escalated")

\* paneMoved: the pane is read.
PaneRead   == agents[handle].status # "gone"
PaneUnread == (~PaneRead /\ UNCHANGED faults) \/ Fault

\* Mutant: the digest of the confirmation is not kept.
MovedForgets == PaneRead /\ changed /\ Carry(TRUE) /\ UNCHANGED <<still, faults>>

\* One that moved, or cannot be read, has another window.
Moved  == PaneRead /\ changed /\ Carry(FALSE) /\ UNCHANGED <<still, faults>>
\* What stands still is shown to the classifier.
Suspect ==
    /\ op' = "classify"
    /\ UNCHANGED <<stage, entered, artifact, left, progress, shown, changed, since, still>>

\* Mutant: a pane that cannot be read is taken for a static one.
UnreadSuspect == PaneUnread /\ Suspect

Unread == PaneUnread /\ Carry(changed) /\ still' = 0

Confirm ==
    /\ op = "select" /\ progress = 0
    /\ Moved \/ Unread \/ (PaneRead /\ ~changed /\ Suspect /\ UNCHANGED faults)
    /\ UNCHANGED <<blocked, queue, parked>>

(***************************************************************************)
(* classifyStatic: what the stillness means, as far as a classifier knows.  *)
(***************************************************************************)
\* On a prompt, crashed, or nothing it is sure of.
GiveUp ==
    /\ op = "classify"
    /\ Leave("escalated")

SaysWorking ==
    /\ op = "classify"
    /\ Carry(changed) /\ still' = 0
    /\ UNCHANGED <<blocked, queue, parked, faults>>

\* Mutant: the gates are looked at whenever the agent is idle.
IdleArtifactAlways == artifact

\* idleArtifact: what an agent that looks finished has made.  Inside a blocked
\* window no gate is looked at.
IdleArtifact == artifact /\ (Decides \/ blocked = Off)

SaysFinished ==
    /\ op = "classify"
    /\ \/ IdleArtifact /\ \E s \in Outcomes : Leave(s)
       \/ /\ ~IdleArtifact
          /\ Carry(changed) /\ still' = 0
          /\ UNCHANGED <<blocked, queue, parked, faults>>

(***************************************************************************)
(* An event of the agent's pane.                                            *)
(***************************************************************************)
Event(s) == op = "select" /\ queue # <<>> /\ Head(queue) = s

\* A gate that fails is final now; a decision agent without a verdict is an error.
EventDone ==
    /\ Event("done")
    /\ \/ artifact /\ \E s \in Outcomes : Leave(s)
       \/ ~Decides /\ ~artifact /\ Leave("escalated")
       \/ Decides /\ ~artifact /\ WaitFails /\ UNCHANGED faults

EventIdle ==
    /\ Event("idle")
    /\ \/ IdleArtifact /\ \E s \in Outcomes : Leave(s)
       \/ /\ ~IdleArtifact
          /\ Carry(changed) /\ queue' = Tail(queue)
          /\ UNCHANGED <<blocked, still, parked, faults>>

\* Mutant: a repeated blocked event starts it again.
BlockedClockAnew == BlockedTimeout

\* The clock starts on the first blocked event.
BlockedClock == IF blocked = Off THEN BlockedTimeout ELSE blocked

EventBlocked ==
    /\ Event("blocked")
    /\ Carry(changed) /\ queue' = Tail(queue)
    /\ blocked' = BlockedClock
    /\ UNCHANGED <<still, parked, faults>>

\* Only working clears it.
EventWorking ==
    /\ Event("working")
    /\ Carry(changed) /\ queue' = Tail(queue)
    /\ blocked' = Off
    /\ UNCHANGED <<still, parked, faults>>

\* The store or GitHub cannot be read, or the stream of events ends.
WaitErrs == op \in Waiting /\ Fault /\ WaitFails

WaitStep ==
    /\ \/ TimeoutFires \/ BlockedFires \/ Confirm
       \/ GiveUp \/ SaysWorking \/ SaysFinished
       \/ EventDone \/ EventIdle \/ EventBlocked \/ EventWorking
       \/ WaitErrs
    /\ InWait

(***************************************************************************)
(* The poller and the clock.                                                *)
(***************************************************************************)
Unseen == Detected(handle) /\ agents[handle].status # shown

Poll ==
    /\ op \in Waiting
    /\ Unseen
    /\ Len(queue) < MaxEvents
    /\ queue' = Append(queue, agents[handle].status)
    /\ shown' = agents[handle].status
    /\ UNCHANGED <<herdrVars, stage, entered, artifact, timers, changed, histVars>>

Down(timer) == IF timer = Off THEN Off ELSE timer - 1

Tick ==
    /\ \/ op = "off"
       \/ op = "select" /\ 0 \notin {left, blocked, progress} /\ queue = <<>> /\ ~Unseen
    /\ left' = Down(left) /\ blocked' = Down(blocked) /\ progress' = Down(progress)
    /\ since' = IF stage \in AgentStage THEN Least(since + 1, StateTimeout + 1) ELSE 0
    /\ IF op \in Waiting
         THEN /\ still' = Least(still + 1, 2 * NoProgress + 1)
              /\ parked' = IF parked > 0 \/ agents[handle].status = "blocked"
                             THEN Least(parked + 1, BlockedTimeout + 1) ELSE 0
         ELSE UNCHANGED <<still, parked>>
    /\ UNCHANGED <<herdrVars, stage, entered, artifact, queue, shown, changed>>

\* What an agent did shows in its pane.
Stirs(p) ==
    IF op \in Waiting /\ p = handle
      THEN /\ changed' = TRUE /\ still' = 0
           /\ parked' = IF agents'[p].status = "working" THEN 0 ELSE parked
      ELSE UNCHANGED <<changed, still, parked>>

=============================================================================

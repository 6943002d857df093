---------------------------- MODULE WorkflowRun ----------------------------
(***************************************************************************)
(* A task on a workflow that the validator has accepted: which transition  *)
(* the interpreter (runState, and what settles a task from outside it)     *)
(* takes when, on whatever the workflow declares.  It shows what           *)
(* acceptance is worth; Engine shows a task of one workflow in detail.     *)
(***************************************************************************)
EXTENDS Validation

CONSTANTS
    Cancelled,     \* CancelState, which no workflow declares
    DefaultStart,  \* the start state without an entry_state, "queued"
    Goal,          \* the state a drive is for, "merged"
    Implementing   \* the state reconcile knows by name, "implementing"

ASSUME CancelledAssumption == Cancelled \notin Name \cup {None}

VARIABLES
    at,   \* the task's state, None before there is a task
    by,   \* history: what brought it there
    pr    \* the task's PRNumber is set

taskVars == <<at, by, pr>>
vars == <<configVars, taskVars>>

RunTypeOK ==
    /\ TypeOK
    /\ at \in Name \cup {None, Cancelled, DefaultStart}
    /\ by \in {"start", "gate", "verdict", "event", "bound", "reconcile", "stop"}
    /\ pr \in BOOLEAN

RunInit == Init /\ at = None /\ by = "start" /\ pr = FALSE

St == State(wf, at)
isHalt == at \in {Cancelled, Goal} \/ St.terminal

\* The first transition for an event; there need not be one.
Has(event) == \E t \in AllTransitions(St) : t.when = event
Find(event) == St.transitions[SelectInSeq(St.transitions, LAMBDA t : t.when = event)]

Branch(t, verdict) == IF verdict \in DOMAIN t.branch THEN t.branch[verdict] ELSE None

\* Without a next state the drive halts where it is.
Advance(next, how) ==
    IF next = None THEN UNCHANGED <<at, by>> ELSE at' = next /\ by' = how

\* Mutant: a state that waits for something is taken to be driven by it.
drivableIfWaiting(st) ==
    \/ "merge" \in st.entry /\ ~hasAgent(st)
    \/ st.waitFor
    \/ \E t \in AllTransitions(st) :
         \/ t.when \in {"status.changed", "scheduled"}
         \/ t.when = "agent.done" /\ hasAgent(st)

drivable(st) ==
    \/ "merge" \in st.entry /\ ~hasAgent(st)
    \/ \E t \in AllTransitions(st) :
         \/ t.when \in {"status.changed", "scheduled"}
         \/ t.when = "agent.done" /\ hasAgent(st)

CheckExecutable(w) == \A n \in Declared(w) : w.states[n].terminal \/ drivable(w.states[n])

StartState == IF wf.entry # None THEN wf.entry ELSE DefaultStart

CreateTask ==
    /\ pc = "accepted"
    /\ CheckExecutable(wf)
    /\ at = None
    /\ at' = StartState
    /\ UNCHANGED <<configVars, by, pr>>

-----------------------------------------------------------------------------
(***************************************************************************)
(* runState: what a state that is not a halt waits for, in the order the   *)
(* code looks.                                                             *)
(***************************************************************************)
Driven == at # None /\ ~isHalt

Waits(for) ==
    /\ Driven
    /\ for = IF "merge" \in St.entry /\ ~hasAgent(St) THEN "merge"
             ELSE IF Has("scheduled")      THEN "nothing"
             ELSE IF Has("agent.done")     THEN "agent"
             ELSE IF Has("status.changed") THEN "gate"
             ELSE "unsupported"

\* Gates can pass only with a PR, known before or found by a github_pr gate, which
\* leaves it on the task even if another gate fails.
FindsPR(t) == \E g \in t.gates : wf.gates[g].type = "github_pr"

evaluateGate(t, verdict) ==
    \/ /\ verdict = "pass"
       /\ t.gates # {} => pr \/ FindsPR(t)
       /\ pr' = (pr \/ t.gates # {})
    \/ /\ verdict = "fail"
       /\ t.gates # {}
       /\ pr' \in IF FindsPR(t) THEN {pr, TRUE} ELSE {pr}

Scheduled ==
    /\ Waits("nothing")
    /\ Advance(Find("scheduled").to, "event")
    /\ UNCHANGED <<configVars, pr>>

\* A capped state whose rounds are used up.
RetryExhausted ==
    /\ Driven
    /\ "resume" \in St.entry /\ "spawn" \notin St.entry
    /\ at \in wf.caps
    /\ Has("retry_exhausted")
    /\ Advance(Find("retry_exhausted").to, "event")
    /\ UNCHANGED <<configVars, pr>>

\* The agent reports done, or is idle with its artifact there.  A decision goes
\* before gates; with neither the drive fails.
AgentDone ==
    LET t == Find("agent.done") IN
    /\ Waits("agent")
    /\ \/ /\ t.decision # None
          /\ \E v \in wf.decisions[t.decision] : Advance(Branch(t, v), "verdict")
          /\ pr' = pr
       \/ /\ t.decision = None
          /\ t.gates # {}
          /\ \E v \in {"pass", "fail"} : evaluateGate(t, v) /\ Advance(Branch(t, v), "gate")
    /\ UNCHANGED configVars

\* Gates alone are evaluated here: a decision that the branch is of is not asked,
\* and without gates the evaluation passes.
StatusChanged ==
    LET t == Find("status.changed") IN
    /\ Waits("gate")
    /\ \E v \in {"pass", "fail"} :
         /\ evaluateGate(t, v)
         /\ IF v = "fail" /\ Has("timeout")
              THEN UNCHANGED <<at, by>>
              ELSE Advance(Branch(t, v), IF t.gates = {} THEN "event" ELSE "gate")
    /\ UNCHANGED configVars

StateTimeout ==
    /\ Waits("agent") \/ Waits("gate")
    /\ Has("timeout")
    /\ Advance(Find("timeout").to, "bound")
    /\ UNCHANGED <<configVars, pr>>

\* The blocked and no-progress bounds, and the drive deadline whatever it waits
\* for: the timeout's target, an alert terminal, or cancelled.
escalationTarget ==
    LET alerts == {n \in Declared(wf) : wf.states[n].terminal /\ wf.states[n].alert}
    IN  IF Has("timeout") /\ Find("timeout").to # None THEN Find("timeout").to
        ELSE IF alerts # {} THEN CHOOSE n \in alerts : TRUE
        ELSE Cancelled

Escalate ==
    /\ Driven
    /\ Advance(escalationTarget, "bound")
    /\ UNCHANGED <<configVars, pr>>

\* The one side effect; it needs a PR.
Merge ==
    /\ Waits("merge")
    /\ pr
    /\ Has("pr.merged")
    /\ Advance(Find("pr.merged").to, "event")
    /\ UNCHANGED <<configVars, pr>>

-----------------------------------------------------------------------------
\* A drive that takes the task up again finds its PR and passes for the agent.
\* That is all a github_pr gate asks, but not what other gates do.
Reconcile ==
    LET t == Find("agent.done") IN
    /\ Driven
    /\ at = Implementing
    /\ hasAgent(St)
    /\ Has("agent.done")
    /\ Branch(t, "pass") # None
    /\ pr' = TRUE
    /\ Advance(Branch(t, "pass"),
               IF t.gates # {} /\ \A g \in t.gates : wf.gates[g].type = "github_pr"
                 THEN "gate" ELSE "reconcile")
    /\ UNCHANGED configVars

Cancel ==
    /\ Driven
    /\ Advance(Cancelled, "stop")
    /\ UNCHANGED <<configVars, pr>>

Redrive ==
    /\ at = Cancelled \/ (St.terminal /\ St.alert)
    /\ at' = StartState
    /\ by' = "start"
    /\ pr' = FALSE
    /\ UNCHANGED configVars

Run ==
    \/ Scheduled \/ RetryExhausted \/ AgentDone \/ StatusChanged \/ StateTimeout
    \/ Escalate \/ Merge \/ Reconcile

Next ==
    \/ semanticChecks /\ UNCHANGED taskVars
    \/ CreateTask \/ Run \/ Cancel \/ Redrive

Spec == RunInit /\ [][Next]_vars

-----------------------------------------------------------------------------
(***************************************************************************)
(* Properties.                                                             *)
(***************************************************************************)

\* Whatever an accepted workflow makes the engine do, the task is in a state it
\* can be driven from, settled in or started over from: never in one that is not
\* declared, and never where runState finds nothing to wait for.  Only without an
\* entry_state, which the validator warns of but accepts, it starts in "queued",
\* declared or not.
TaskIsSomewhere ==
    at # None => \/ at \in Declared(wf) \cup {Cancelled} /\ ~Waits("unsupported")
                 \/ wf.entry = None /\ at = DefaultStart

\* A task that can merge came to the merge by gates that were evaluated and by
\* nothing else, an entry state that is a merge and a redrive included.
\* (A merge by reconcile is the exception, see MergeIsGateOnly.)
NoMergeWithoutGates ==
    Waits("merge") /\ pr => by \in {"gate", "reconcile"}

-----------------------------------------------------------------------------
\* What the comment of runMergeAction says of the validator, and the code does
\* not keep: the merge is entered only through the gates.
MergeIsGateOnly ==
    Waits("merge") /\ pr => by = "gate"

=============================================================================

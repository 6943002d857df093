------------------------- MODULE WorkflowRunProofs -------------------------
(***************************************************************************)
(* Proofs about WorkflowRun, and so about every workflow the schema admits *)
(* and semanticChecks accept, of any size.  What acceptance is worth is    *)
(* proved from the checks that take the transitions one by one, and from   *)
(* what the searches of the graph find (ValidationProofs).                 *)
(***************************************************************************)
EXTENDS WorkflowRun, ValidationProofs

\* What the checks of the first step leave of a workflow.
Shaped == checkRefs(wf) /\ checkBranches(wf) /\ checkMergeGated(wf)

EntryDeclared == wf.entry \in Declared(wf) \cup {None}

\* What is known of the workflow when the checks so far have not failed.
Checked ==
    /\ WellFormed(wf)
    /\ pc # "shape" /\ valid => Shaped
    /\ pc = "reach" /\ valid => EntryDeclared
    /\ pc = "accepted" => Shaped /\ EntryDeclared /\ checkDriveDeadline(wf)

\* A task is there once its workflow was accepted, and has no PR before.
Started ==
    /\ at # None => pc = "accepted" /\ CheckExecutable(wf)
    /\ at = None => ~pr

Placed ==
    \/ at \in Declared(wf) \cup {None, Cancelled}
    \/ wf.entry = None /\ at = DefaultStart

\* The task is in a state whose entry is a merge and no agent's, with a PR.
CanMerge == at # None /\ pr /\ ~isHalt /\ "merge" \in St.entry /\ ~hasAgent(St)

Gated == CanMerge => by \in {"gate", "reconcile"}

\* The inductive invariant.
IInv == Checked /\ Started /\ Placed /\ Gated

-----------------------------------------------------------------------------
(***************************************************************************)
(* Where transitions lead.                                                 *)
(***************************************************************************)

\* Find(event) is a transition of the state, if there is one for the event.
LEMMA Found ==
  ASSUME WellFormed(wf), NEW event, Has(event)
  PROVE  /\ at \in Declared(wf)
         /\ Find(event) \in AllTransitions(wf.states[at])
         /\ Find(event).when = event
         /\ St = wf.states[at]
<1> DEFINE ts == St.transitions
           I == {i \in 1 .. Len(ts) : ts[i].when = event}
<1>1. at \in Declared(wf)
  <2> SUFFICES ASSUME at \notin Declared(wf)
               PROVE  FALSE
    OBVIOUS
  <2>1. St.transitions = <<>>
    BY DEF St, State
  <2> QED
    BY <2>1 DEF Has, AllTransitions, ToSet
<1>2. St = wf.states[at]
  BY <1>1 DEF St, State
<1>3. ts \in Seq(AllTransitions(wf.states[at]))
  BY <1>1, <1>2 DEF WellFormed
<1>4. DOMAIN ts = 1 .. Len(ts) /\ Len(ts) \in Nat
  BY <1>3
<1>5. I # {} /\ I \subseteq Nat
  BY <1>2, <1>4 DEF Has, AllTransitions, ToSet
<1>6. \E i \in I : \A j \in I : i <= j
  <2>1. PICK i \in I : \A j \in I : <<j, i>> \notin OpToRel(<, Nat)
    BY <1>5, NatLessThanWellFounded, WFMin
  <2>2. \A j \in I : ~(j < i)
    BY <1>5, <2>1 DEF OpToRel
  <2> QED
    BY <1>5, <2>2
<1>7. Min(I) \in I
  BY <1>6 DEF Min
<1>8. Find(event) = ts[Min(I)]
  BY <1>5 DEF Find, SelectInSeq
<1> HIDE DEF I
<1>9. Min(I) \in 1 .. Len(ts) /\ ts[Min(I)].when = event
  BY <1>7 DEF I
<1>10. ts[Min(I)] \in AllTransitions(wf.states[at])
  BY <1>2, <1>4, <1>9 DEF AllTransitions, ToSet
<1> QED
  BY <1>1, <1>2, <1>8, <1>9, <1>10

\* In a workflow that passed the first checks a transition leads to declared
\* states, and to a merge only if it has gates.
LEMMA Leading ==
  ASSUME WellFormed(wf), Shaped, NEW n \in Declared(wf),
         NEW t \in AllTransitions(wf.states[n])
  PROVE  /\ t.to # None => /\ t.to \in Declared(wf) /\ t.to \notin sideEffecting(wf)
                           /\ t.gates = {}
         /\ \A v : Branch(t, v) # None =>
                /\ Branch(t, v) \in Declared(wf)
                /\ t.gates = {} => Branch(t, v) \notin sideEffecting(wf)
<1>1. Targets(t) \subseteq Declared(wf)
  BY DEF Shaped, checkRefs
<1>2. t.gates = {} => Targets(t) \cap sideEffecting(wf) = {}
  BY DEF Shaped, checkMergeGated
<1>3. ASSUME t.to # None
      PROVE  t.to \in Targets(t) /\ t.gates = {}
  <2>1. DOMAIN t.branch = {} /\ ~t.alert
    BY <1>3 DEF WellFormed
  <2> QED
    BY <1>3, <2>1 DEF Shaped, checkBranches, Targets
<1>4. ASSUME NEW v, Branch(t, v) # None
      PROVE  Branch(t, v) \in Targets(t)
  <2>1. v \in DOMAIN t.branch /\ Branch(t, v) = t.branch[v]
    BY <1>4 DEF Branch
  <2>2. t.to = None
    BY <2>1 DEF WellFormed
  <2> QED
    BY <2>1, <2>2 DEF Targets, Range
<1> QED
  BY <1>1, <1>2, <1>3, <1>4

\* A finite set of numbers has a largest.
LEMMA LargestExists ==
  ASSUME NEW T \in SUBSET Nat, IsFiniteSet(T), T # {}
  PROVE  \E m \in T : \A k \in T : k <= m
<1> DEFINE From(m) == {k \in T : m <= k}
           Tails == {From(m) : m \in T}
<1>1. IsWellFoundedOn(StrictSubsetOrdering(T), FiniteSubsetsOf(T))
  BY FS_StrictSubsetOrderingWellFounded
<1>2. Tails \subseteq FiniteSubsetsOf(T)
  <2>1. \A m \in T : From(m) \in SUBSET T
    OBVIOUS
  <2>2. \A U \in SUBSET T : IsFiniteSet(U)
    BY FS_Subset
  <2> QED
    BY <2>1, <2>2 DEF FiniteSubsetsOf
<1>3. Tails # {}
  OBVIOUS
<1>4. PICK U \in Tails : \A V \in Tails : <<V, U>> \notin StrictSubsetOrdering(T)
  BY <1>1, <1>2, <1>3, WFMin
<1>5. PICK m \in T : U = From(m)
  OBVIOUS
<1>6. ASSUME NEW k \in T, k > m
      PROVE  FALSE
  <2>1. \A j \in T : k <= j => m <= j
    BY <1>6
  <2>2. m \in From(m) /\ m \notin From(k)
    BY <1>6
  <2>3. From(k) \subseteq U /\ From(k) # U /\ From(k) \in Tails
    BY <1>5, <2>1, <2>2
  <2> QED
    BY <1>4, <2>3 DEF StrictSubsetOrdering
<1> QED
  BY <1>6

\* LongestStateTimeout is as long as any.
LEMMA LongestIsLongest ==
  ASSUME WellFormed(wf)
  PROVE  /\ LongestStateTimeout(wf) \in Nat
         /\ \A d \in Timeouts(wf) : d <= LongestStateTimeout(wf)
<1> DEFINE T == Timeouts(wf) \cup {0}
<1>1. T \in SUBSET Nat /\ T # {} /\ IsFiniteSet(T)
  BY FS_AddElement DEF WellFormed
<1>2. PICK m \in T : \A k \in T : k <= m
  BY <1>1, LargestExists
<1>3. LongestStateTimeout(wf) \in T /\ \A k \in Timeouts(wf) : k <= LongestStateTimeout(wf)
  BY <1>2 DEF LongestStateTimeout
<1> QED
  BY <1>1, <1>3

-----------------------------------------------------------------------------
(***************************************************************************)
(* The invariant is kept.                                                  *)
(***************************************************************************)

\* A workflow in hand is well-formed, and there is no task.
LEMMA InitHolds == RunInit => IInv
<1> SUFFICES ASSUME RunInit PROVE IInv
  OBVIOUS
<1>1. WellFormed(wf)
  BY WorkflowsAssumption DEF RunInit, Init
<1> QED
  BY <1>1 DEF RunInit, Init, IInv, Checked, Started, Placed, Gated, CanMerge

\* A check takes the verdict of those before it along.
LEMMA ChecksKeep ==
  ASSUME IInv, semanticChecks, UNCHANGED taskVars
  PROVE  IInv'
<1>1. at = None /\ ~pr
  BY DEF IInv, Started, semanticChecks, CheckShape, CallRoot, FollowEdge, Return, CheckCycles,
         Reach, Conclude
<1>2. wf' = wf
  BY DEF semanticChecks, CheckShape, CallRoot, FollowEdge, Call, Return, CheckCycles, Reach,
         Conclude
<1>3. at' = at /\ pr' = pr /\ by' = by
  BY DEF taskVars
<1>4. CASE CheckShape
  BY <1>1, <1>2, <1>3, <1>4
  DEF CheckShape, IInv, Checked, Started, Placed, Gated, CanMerge, Shaped, EntryDeclared
<1>5. CASE CallRoot \/ FollowEdge \/ Return \/ Reach
  <2>1. pc' = pc /\ valid' = valid
    BY <1>5 DEF CallRoot, FollowEdge, Call, Return, Reach
  <2> QED
    BY <1>1, <1>2, <1>3, <2>1
    DEF IInv, Checked, Started, Placed, Gated, CanMerge, Shaped, EntryDeclared
<1>6. CASE CheckCycles
  BY <1>1, <1>2, <1>3, <1>6
  DEF CheckCycles, IInv, Checked, Started, Placed, Gated, CanMerge, Shaped, EntryDeclared
<1>7. CASE Conclude
  BY <1>1, <1>2, <1>3, <1>7
  DEF Conclude, IInv, Checked, Started, Placed, Gated, CanMerge, Shaped, EntryDeclared
<1> QED
  BY <1>4, <1>5, <1>6, <1>7 DEF semanticChecks

\* Where a task begins is declared if the workflow says where.
LEMMA StartIsPlaced ==
  ASSUME EntryDeclared
  PROVE  \/ StartState \in Declared(wf)
         \/ wf.entry = None /\ StartState = DefaultStart
BY DEF EntryDeclared, StartState

\* A task that is created, or starts over, has no PR.
LEMMA StartsKeep ==
  ASSUME IInv, CreateTask \/ Redrive
  PROVE  IInv'
<1>1. pc = "accepted" /\ CheckExecutable(wf) /\ EntryDeclared /\ Shaped
  <2>1. CASE CreateTask
    BY <2>1 DEF CreateTask, IInv, Checked
  <2>2. CASE Redrive
    <3>1. at # None
      <4> SUFFICES ASSUME at = None PROVE FALSE
        OBVIOUS
      <4>1. None \notin Declared(wf) /\ None # Cancelled
        BY NoneAssumption, CancelledAssumption DEF IInv, Checked, WellFormed
      <4>2. ~St.terminal
        BY <4>1 DEF St, State
      <4> QED
        BY <2>2, <4>1, <4>2 DEF Redrive
    <3> QED
      BY <3>1 DEF IInv, Started, Checked
  <2> QED
    BY <2>1, <2>2
<1>2. /\ wf' = wf /\ pc' = pc /\ valid' = valid
      /\ at' = StartState /\ ~pr'
  BY DEF CreateTask, Redrive, configVars, IInv, Started
<1>3. Checked'
  BY <1>2 DEF IInv, Checked, Shaped, EntryDeclared
<1>4. Started'
  BY <1>1, <1>2 DEF Started
<1>5. Placed'
  BY <1>1, <1>2, StartIsPlaced DEF Placed
<1>6. Gated'
  BY <1>2 DEF Gated, CanMerge
<1> QED
  BY <1>3, <1>4, <1>5, <1>6 DEF IInv

\* The task stays where it is, and it does not get to merge by what it learns there.
Stays ==
    /\ at' = at /\ by' = by
    /\ pr' => pr \/ hasAgent(St) \/ "merge" \notin St.entry

\* It goes on to a declared state, to a merge only by gates or a reconcile.
GoesOn ==
    /\ at' \in Declared(wf)
    /\ by' \in {"gate", "reconcile"} \/ at' \notin sideEffecting(wf) \/ isHalt'

\* That, or a cancel, is what a step of the drive may do.
LEMMA MovesKeep ==
  ASSUME IInv, at # None, UNCHANGED configVars, Stays \/ GoesOn \/ at' = Cancelled
  PROVE  IInv'
<1>1. wf' = wf /\ pc' = pc /\ valid' = valid
  BY DEF configVars
<1>2. Checked'
  BY <1>1 DEF IInv, Checked, Shaped, EntryDeclared
<1>3. None \notin Declared(wf) /\ None # Cancelled
  BY NoneAssumption, CancelledAssumption DEF IInv, Checked, WellFormed
<1>4. at' # None
  BY <1>3 DEF Stays, GoesOn
<1>5. Started'
  BY <1>1, <1>4 DEF IInv, Started
<1>6. Placed'
  BY <1>1 DEF IInv, Placed, Stays, GoesOn
<1>7. Gated'
  <2>1. CASE Stays
    <3>1. St' = St /\ isHalt' = isHalt
      BY <1>1, <2>1 DEF Stays, St, isHalt
    <3> QED
      BY <2>1, <3>1 DEF Stays, IInv, Gated, CanMerge, hasAgent
  <2>2. CASE GoesOn
    <3>1. St' = wf.states[at']
      BY <1>1, <2>2 DEF GoesOn, St, State
    <3>2. "merge" \in St'.entry => at' \in sideEffecting(wf)
      BY <2>2, <3>1 DEF GoesOn, sideEffecting
    <3> QED
      BY <2>2, <3>2 DEF GoesOn, Gated, CanMerge
  <2>3. CASE at' = Cancelled
    BY <2>3 DEF Gated, CanMerge, isHalt
  <2> QED
    BY <2>1, <2>2, <2>3
<1> QED
  BY <1>2, <1>5, <1>6, <1>7 DEF IInv

\* The state a drive is in was accepted with its workflow.
LEMMA DrivenIsAccepted ==
  ASSUME IInv, at # None
  PROVE  WellFormed(wf) /\ Shaped /\ CheckExecutable(wf)
BY DEF IInv, Started, Checked

\* A transition taken to its target does not reach a merge.
LEMMA ToGoesOn ==
  ASSUME IInv, at # None, NEW event, Has(event), NEW how, Advance(Find(event).to, how),
         pr' = pr
  PROVE  Stays \/ GoesOn
<1> DEFINE t == Find(event)
<1>1. /\ at \in Declared(wf)
      /\ t \in AllTransitions(wf.states[at])
  BY DrivenIsAccepted, Found
<1>2. t.to # None => t.to \in Declared(wf) /\ t.to \notin sideEffecting(wf)
  <2> HIDE DEF t
  <2> QED
    BY <1>1, DrivenIsAccepted, Leading
<1> QED
  BY <1>2 DEF Advance, Stays, GoesOn

\* One that is branched on reaches a merge by its gates, or where the gates are
\* passed over by a reconcile.
LEMMA BranchGoesOn ==
  ASSUME IInv, at # None, NEW event, Has(event), NEW v, NEW how,
         Advance(Branch(Find(event), v), how),
         how \in {"gate", "reconcile"} \/ Find(event).gates = {},
         pr' => pr \/ hasAgent(St) \/ "merge" \notin St.entry
  PROVE  Stays \/ GoesOn
<1> DEFINE t == Find(event)
           next == Branch(t, v)
<1>1. /\ at \in Declared(wf)
      /\ t \in AllTransitions(wf.states[at])
  BY DrivenIsAccepted, Found
<1>2. next # None => /\ next \in Declared(wf)
                     /\ t.gates = {} => next \notin sideEffecting(wf)
  <2> HIDE DEF t
  <2> QED
    BY <1>1, DrivenIsAccepted, Leading
<1>3. \/ next = None /\ UNCHANGED <<at, by>>
      \/ next # None /\ at' = next /\ by' = how
  BY DEF Advance
<1> HIDE DEF next
<1> QED
  BY <1>2, <1>3 DEF Stays, GoesOn

\* A state whose entry is a merge, and no agent's, waits for the merge only.
LEMMA WaitsForOne ==
  ASSUME Waits("agent") \/ Waits("gate")
  PROVE  hasAgent(St) \/ "merge" \notin St.entry
BY DEF Waits

\* Each step of the drive is one of those moves.
LEMMA RunMoves ==
  ASSUME IInv, Run \/ Cancel
  PROVE  IInv'
<1>1. at # None
  BY DEF Run, Scheduled, RetryExhausted, AgentDone, StatusChanged, StateTimeout, Escalate,
         Merge, Reconcile, Cancel, Waits, Driven
<1>2. UNCHANGED configVars
  BY DEF Run, Scheduled, RetryExhausted, AgentDone, StatusChanged, StateTimeout, Escalate,
         Merge, Reconcile, Cancel
<1>3. WellFormed(wf) /\ Shaped
  BY <1>1, DrivenIsAccepted
<1>4. CASE Scheduled
  <2>1. Has("scheduled")
    BY <1>4 DEF Scheduled, Waits
  <2> QED
    BY <1>1, <1>2, <1>4, <2>1, ToGoesOn, MovesKeep DEF Scheduled
<1>5. CASE RetryExhausted
  BY <1>1, <1>2, <1>5, ToGoesOn, MovesKeep DEF RetryExhausted
<1>6. CASE StateTimeout
  BY <1>1, <1>2, <1>6, ToGoesOn, MovesKeep DEF StateTimeout
<1>7. CASE Merge
  BY <1>1, <1>2, <1>7, ToGoesOn, MovesKeep DEF Merge
<1>8. CASE AgentDone
  <2> DEFINE t == Find("agent.done")
  <2>1. Has("agent.done")
    BY <1>8 DEF AgentDone, Waits
  <2>2. hasAgent(St) \/ "merge" \notin St.entry
    BY <1>8, WaitsForOne DEF AgentDone
  <2>3. t \in AllTransitions(wf.states[at]) /\ at \in Declared(wf) /\ t.when = "agent.done"
    BY <1>3, <2>1, Found
  <2>4. t.decision # None => t.gates = {}
    <3> HIDE DEF t
    <3> QED
      BY <1>3, <2>3 DEF WellFormed
  <2>5. \/ t.decision # None /\ \E v : Advance(Branch(t, v), "verdict")
        \/ \E v : Advance(Branch(t, v), "gate")
    BY <1>8 DEF AgentDone
  <2>6. Stays \/ GoesOn
    BY <1>1, <2>1, <2>2, <2>4, <2>5, BranchGoesOn
  <2> QED
    BY <1>1, <1>2, <2>6, MovesKeep
<1>9. CASE StatusChanged
  <2> DEFINE t == Find("status.changed")
  <2>1. Has("status.changed")
    BY <1>9 DEF StatusChanged, Waits
  <2>2. hasAgent(St) \/ "merge" \notin St.entry
    BY <1>9, WaitsForOne DEF StatusChanged
  <2>3. \/ UNCHANGED <<at, by>>
        \/ \E v : Advance(Branch(t, v), IF t.gates = {} THEN "event" ELSE "gate")
    BY <1>9 DEF StatusChanged
  <2>4. CASE UNCHANGED <<at, by>>
    BY <1>1, <1>2, <2>2, <2>4, MovesKeep DEF Stays
  <2>5. ASSUME NEW v, Advance(Branch(t, v), IF t.gates = {} THEN "event" ELSE "gate")
        PROVE  Stays \/ GoesOn
    <3>1. CASE t.gates = {}
      BY <1>1, <2>1, <2>2, <2>5, <3>1, BranchGoesOn
    <3>2. CASE t.gates # {}
      BY <1>1, <2>1, <2>2, <2>5, <3>2, BranchGoesOn
    <3> QED
      BY <3>1, <3>2
  <2> QED
    BY <1>1, <1>2, <2>3, <2>4, <2>5, MovesKeep
<1>10. CASE Escalate
  <2> DEFINE next == escalationTarget
             alerts == {n \in Declared(wf) : wf.states[n].terminal /\ wf.states[n].alert}
  <2>1. Advance(next, "bound") /\ pr' = pr
    BY <1>10 DEF Escalate
  <2>2. \/ Has("timeout") /\ Advance(Find("timeout").to, "bound")
        \/ next \in alerts
        \/ next = Cancelled
    BY <2>1 DEF escalationTarget
  <2>3. CASE Has("timeout") /\ Advance(Find("timeout").to, "bound")
    BY <1>1, <1>2, <2>1, <2>3, ToGoesOn, MovesKeep
  <2>4. CASE next \in alerts
    <3>1. next # None
      BY <1>3, <2>4, NoneAssumption DEF WellFormed
    <3>2. at' = next /\ wf' = wf
      BY <1>2, <2>1, <3>1 DEF Advance, configVars
    <3>3. isHalt' /\ next \in Declared(wf)
      BY <2>4, <3>2 DEF isHalt, St, State
    <3>4. GoesOn
      BY <3>2, <3>3 DEF GoesOn
    <3> QED
      BY <1>1, <1>2, <3>4, MovesKeep
  <2>5. CASE next = Cancelled
    <3>1. at' = Cancelled
      BY <2>1, <2>5, CancelledAssumption DEF Advance
    <3> QED
      BY <1>1, <1>2, <3>1, MovesKeep
  <2> QED
    BY <2>2, <2>3, <2>4, <2>5
<1>11. CASE Reconcile
  <2> DEFINE t == Find("agent.done")
             how == IF t.gates # {} /\ \A g \in t.gates : wf.gates[g].type = "github_pr"
                      THEN "gate" ELSE "reconcile"
  <2>1. Has("agent.done") /\ hasAgent(St) /\ Advance(Branch(t, "pass"), how)
    BY <1>11 DEF Reconcile
  <2>2. how \in {"gate", "reconcile"}
    OBVIOUS
  <2> HIDE DEF how
  <2>3. Stays \/ GoesOn
    BY <1>1, <2>1, <2>2, BranchGoesOn
  <2> QED
    BY <1>1, <1>2, <2>3, MovesKeep
<1>12. CASE Cancel
  <2>1. at' = Cancelled
    BY <1>12, CancelledAssumption DEF Cancel, Advance
  <2> QED
    BY <1>1, <1>2, <2>1, MovesKeep
<1> QED
  BY <1>4, <1>5, <1>6, <1>7, <1>8, <1>9, <1>10, <1>11, <1>12 DEF Run

\* A stuttering step changes nothing.
LEMMA StutterKeeps ==
  ASSUME IInv, UNCHANGED vars
  PROVE  IInv'
BY DEF vars, configVars, taskVars, IInv, Checked, Started, Placed, Gated, CanMerge, Shaped,
       EntryDeclared, isHalt, St, StartState

-----------------------------------------------------------------------------
\* The invariant holds of every task on every workflow.
THEOREM Invariant == Spec => []IInv
<1>1. IInv /\ [Next]_vars => IInv'
  BY ChecksKeep, StartsKeep, RunMoves, StutterKeeps DEF Next
<1> QED
  BY <1>1, InitHolds, PTL DEF Spec

\* A task that can merge came to the merge by gates that were evaluated, or by a
\* reconcile, on whatever workflow the validator accepts: no event, verdict, bound,
\* start or redrive gets it there.
THEOREM MergesNeedGates == Spec => []NoMergeWithoutGates
<1>1. IInv => NoMergeWithoutGates
  BY DEF IInv, Gated, CanMerge, NoMergeWithoutGates, Waits, Driven
<1> QED
  BY <1>1, Invariant, PTL

\* In no reachable state is a task where the workflow declares nothing, or where
\* runState finds nothing to wait for: CheckExecutable does mirror runState.
THEOREM TasksStaySomewhere == Spec => []TaskIsSomewhere
<1>1. ASSUME IInv, at \in Declared(wf)
      PROVE  ~Waits("unsupported")
  <2>1. at # None
    BY <1>1, NoneAssumption DEF IInv, Checked, WellFormed
  <2>2. St = wf.states[at] /\ (St.terminal \/ drivable(St))
    BY <1>1, <2>1, DrivenIsAccepted DEF CheckExecutable, St, State
  <2> QED
    BY <2>2 DEF drivable, Waits, Driven, isHalt, Has
<1>2. IInv => TaskIsSomewhere
  BY <1>1 DEF IInv, Placed, TaskIsSomewhere, Waits, Driven, isHalt
<1> QED
  BY <1>2, Invariant, PTL

\* The reaper's deadline for a drive is longer than every timeout of any accepted
\* workflow, whether it is explicit or derived, and whatever MinDeadline is.
THEOREM DeadlinesAreBackstops == Spec => []DeadlineIsBackstop
<1>1. ASSUME IInv, pc = "accepted", NEW d \in Timeouts(wf) \ {0}
      PROVE  d < ResolveDriveDeadline(wf)
  <2> DEFINE longest == LongestStateTimeout(wf)
  <2>1. WellFormed(wf) /\ checkDriveDeadline(wf)
    BY <1>1 DEF IInv, Checked
  <2>2. longest \in Nat /\ d <= longest /\ d \in Nat \ {0} /\ wf.deadline \subseteq Nat
    BY <2>1, LongestIsLongest DEF WellFormed
  <2>3. \A e \in wf.deadline : longest < e
    BY <2>1, <2>2 DEF checkDriveDeadline
  <2> HIDE DEF longest
  <2>4. CASE wf.deadline # {}
    <3>1. ResolveDriveDeadline(wf) \in wf.deadline
      BY <2>4 DEF ResolveDriveDeadline
    <3> QED
      BY <2>2, <2>3, <3>1
  <2>5. CASE wf.deadline = {}
    <3>1. ResolveDriveDeadline(wf) = IF 2 * longest > MinDeadline THEN 2 * longest
                                                                 ELSE MinDeadline
      BY <2>5 DEF ResolveDriveDeadline, longest
    <3> QED
      BY <2>2, <3>1, MinDeadlineAssumption
  <2> QED
    BY <2>4, <2>5
<1>2. IInv => DeadlineIsBackstop
  BY <1>1 DEF DeadlineIsBackstop
<1> QED
  BY <1>2, Invariant, PTL

-----------------------------------------------------------------------------
(***************************************************************************)
(* What the searches find.                                                 *)
(***************************************************************************)

\* The invariant of both searches holds while a workflow is validated and, as the
\* task changes nothing of it, after.
THEOREM SearchInvariant == Spec => []SInv
<1>1. RunInit => SInv
  BY SearchStarts DEF RunInit
<1>2. SInv /\ [Next]_vars => SInv'
  <2> SUFFICES ASSUME SInv, [Next]_vars
               PROVE  SInv'
    OBVIOUS
  <2>1. CASE semanticChecks
    BY <2>1, SearchKeeps
  <2>2. CASE CreateTask \/ Run \/ Cancel \/ Redrive \/ UNCHANGED vars
    <3>1. UNCHANGED configVars
      BY <2>2 DEF CreateTask, Run, Scheduled, RetryExhausted, AgentDone, StatusChanged,
                  StateTimeout, Escalate, Merge, Reconcile, Cancel, Redrive, vars
    <3> QED
      BY <3>1, SearchStays
  <2> QED
    BY <2>1, <2>2 DEF Next
<1> QED
  BY <1>1, <1>2, PTL DEF Spec

\* buildGraph has an edge for every target of a transition, and no other: what is
\* said of the graph is said of the transitions that the workflow declares.
THEOREM GraphIsOfTransitions ==
  Spec => [](pc # "shape" =>
               \A n \in Name : ToSet(graph[n]) =
                  UNION {Targets(t) : t \in AllTransitions(State(wf, n))})
<1>1. SInv => (pc # "shape" =>
                 \A n \in Name : ToSet(graph[n]) =
                    UNION {Targets(t) : t \in AllTransitions(State(wf, n))})
  BY GraphOfTargets DEF SInv, Typed, Phases
<1> QED
  BY <1>1, SearchInvariant, PTL

\* On the graph of every workflow the components that tarjanSCC gives the check of
\* the cycles are the classes of states that lead to one another, and the states
\* that checkReachability has seen are those the entry state leads to.
THEOREM SearchesFindAll == Spec => []SearchesAreRight
BY SearchInvariant, SearchesFind, PTL

\* Whatever cycle an accepted workflow has, from each of its states a task can come
\* by a state with a retry cap or a timeout, and return.
THEOREM LoopsAreBounded == Spec => []LoopsMeetABound
BY SearchInvariant, LoopsAreJudged, PTL

\* A run is well typed: what it is at is a name, and how it got there one of the ways.
THEOREM RunTyping == Spec => []RunTypeOK
<1> DEFINE Ways == {"start", "gate", "verdict", "event", "bound", "reconcile", "stop"}
           WaysOK == by \in Ways /\ pr \in BOOLEAN
<1>1. RunInit => WaysOK
  BY DEF RunInit
<1>2. WaysOK /\ [Next]_vars => WaysOK'
  <2> SUFFICES ASSUME WaysOK, [Next]_vars
               PROVE  WaysOK'
    OBVIOUS
  <2>1. \A next : \A how \in Ways : Advance(next, how) => by' \in Ways
    BY DEF Advance
  <2>2. \A t, v : evaluateGate(t, v) => pr' \in BOOLEAN
    BY DEF evaluateGate
  <2>3. CASE \/ Scheduled \/ RetryExhausted \/ StateTimeout \/ Escalate \/ Merge
             \/ Reconcile \/ Cancel
    BY <2>1, <2>3
       DEF Scheduled, RetryExhausted, StateTimeout, Escalate, Merge, Reconcile, Cancel
  <2>4. CASE AgentDone
    BY <2>1, <2>2, <2>4 DEF AgentDone
  <2>5. CASE StatusChanged
    BY <2>1, <2>2, <2>5 DEF StatusChanged
  <2>6. CASE \/ semanticChecks /\ UNCHANGED taskVars
             \/ CreateTask \/ Redrive \/ UNCHANGED vars
    BY <2>6 DEF CreateTask, Redrive, vars, taskVars
  <2> QED
    BY <2>3, <2>4, <2>5, <2>6 DEF Next, Run
<1>3. SInv /\ IInv /\ WaysOK => RunTypeOK
  <2>1. SInv /\ IInv => at \in Name \cup {None, Cancelled, DefaultStart}
    BY DEF IInv, Placed, SInv, Typed, WellFormed
  <2> QED
    BY <2>1, SearchTypes DEF RunTypeOK
<1> QED
  BY <1>1, <1>2, <1>3, SearchInvariant, Invariant, PTL DEF Spec

=============================================================================

-------------------------- MODULE SchedulerProofs --------------------------
(***************************************************************************)
(* Proofs about Scheduler for any number of issues, workers and places on  *)
(* the work channel.  The claims of ExclusiveClaim and ClaimAccounting are *)
(* not inductive alone: a claim is safe because the poller found the issue *)
(* free and nobody else claims (CurFits), and a drive is due because what  *)
(* the disposition check read still holds when the claim is sent (CurDue), *)
(* which in turn needs that only the holder of an issue changes its task   *)
(* (DrivenIsOpen).                                                         *)
(***************************************************************************)
EXTENDS Scheduler, TLAPS

\* A worker has an issue in hand exactly between Receive and Remove.
JobsFit == \A w \in Worker : wpc[w] \in {"idle", "exited"} <=> job[w] = NoIssue

\* The poller has an issue in hand while it examines, claims, sends or cancels
\* one, and only it can claim: an issue found free stays free.
CurFits ==
    /\ pc \in {"disposition", "claim", "send", "cancel"} => cur \in Issue
    /\ pc \in {"disposition", "claim"} => inflight[cur] = "free"

\* What the disposition check found still holds when the claim is sent, since
\* only a drive that holds the issue changes its task.
CurDue ==
    pc \in {"claim", "send"} =>
        store[cur] \in Open \cup (IF src = "operator" THEN {"stopped"} ELSE {})

\* A drive's task is open until the drive itself settles it.
DrivenIsOpen == \A w \in Worker : wpc[w] = "driving" => store[job[w]] = "open"

\* The inductive invariant.
IInv ==
    /\ TypeOK
    /\ JobsFit
    /\ CurFits
    /\ ExclusiveClaim
    /\ ClaimAccounting
    /\ CurDue
    /\ DriveIsDue
    /\ DrivenIsOpen

-----------------------------------------------------------------------------
(***************************************************************************)
(* The work channel as a sequence.                                         *)
(***************************************************************************)
\* What a worker that receives from the channel takes, and what it leaves.
LEMMA HeadAndTail ==
    ASSUME NEW S, NEW q \in Seq(S), q # <<>>
    PROVE  /\ Len(q) \in Nat \ {0}
           /\ Head(q) = q[1] /\ q[1] \in S
           /\ Tail(q) \in Seq(S) /\ Len(Tail(q)) = Len(q) - 1
           /\ \A k \in 1..Len(q) - 1 : Tail(q)[k] = q[k + 1]
  OBVIOUS

\* What the channel holds once an issue is sent to it.
LEMMA Appended ==
    ASSUME NEW S, NEW q \in Seq(S), NEW e \in S
    PROVE  /\ Append(q, e) \in Seq(S) /\ Len(Append(q, e)) = Len(q) + 1
           /\ Len(q) \in Nat
           /\ \A k \in 1..Len(q) : Append(q, e)[k] = q[k]
           /\ Append(q, e)[Len(q) + 1] = e
  OBVIOUS

\* What is on the channel before a receive is what is on it after, and the issue
\* received, which was on it once.
LEMMA TakenFromTheHead ==
    ASSUME NEW S, NEW q \in Seq(S), q # <<>>,
           \A j, k \in 1..Len(q) : q[j] = q[k] => j = k
    PROVE  /\ \A i : (\E k \in 1..Len(q) : q[k] = i)
                         <=> i = Head(q) \/ \E k \in 1..Len(Tail(q)) : Tail(q)[k] = i
           /\ \A k \in 1..Len(Tail(q)) : Tail(q)[k] # Head(q)
           /\ \A j, k \in 1..Len(Tail(q)) : Tail(q)[j] = Tail(q)[k] => j = k
<1> DEFINE n == Len(q)
           t == Tail(q)
<1>1. /\ n \in Nat \ {0} /\ Head(q) = q[1] /\ Len(t) = n - 1
      /\ \A k \in 1..n - 1 : t[k] = q[k + 1]
  BY HeadAndTail
<1> HIDE DEF t
<1>2. \A k \in 1..n : k = 1 \/ (k - 1 \in 1..n - 1 /\ t[k - 1] = q[k])
  BY <1>1
<1>3. \A k \in 1..n - 1 : k + 1 \in 1..n /\ k + 1 # 1
  BY <1>1
<1>4. ASSUME NEW i
      PROVE  (\E k \in 1..n : q[k] = i) <=> i = q[1] \/ \E k \in 1..n - 1 : t[k] = i
  <2>1. 1 \in 1..n
    BY <1>1
  <2>2. ASSUME NEW k \in 1..n, q[k] = i
        PROVE  i = q[1] \/ \E l \in 1..n - 1 : t[l] = i
    BY <1>2, <2>2
  <2>3. ASSUME NEW k \in 1..n - 1, t[k] = i
        PROVE  \E l \in 1..n : q[l] = i
    BY <1>1, <1>3, <2>3
  <2> QED
    BY <2>1, <2>2, <2>3
<1>5. \A k \in 1..n - 1 : t[k] # q[1]
  BY <1>1, <1>3
<1>6. \A j, k \in 1..n - 1 : t[j] = t[k] => j = k
  BY <1>1, <1>3
<1> QED
  BY <1>1, <1>4, <1>5, <1>6 DEF t

-----------------------------------------------------------------------------
\* A step that leaves the entries, the channel and everyone's issue alone, and
\* neither starts nor ends a run, keeps the claims in order.
LEMMA ClaimsUndisturbed ==
    ASSUME ExclusiveClaim, ClaimAccounting,
           UNCHANGED <<inflight, queue, pc, cur, job>>,
           \A v \in Worker : Running(v)' <=> Running(v)
    PROVE  ExclusiveClaim' /\ ClaimAccounting'
<1>1. ExclusiveClaim'
  BY DEF ExclusiveClaim, Queued, Sending, Held
<1>2. \A i \in Issue : /\ Queued(i)' <=> Queued(i)
                       /\ Sending(i)' <=> Sending(i)
                       /\ Held(i)' <=> Held(i)
  BY DEF Queued, Sending, Held
<1>3. \A i \in Issue : (\E v \in Worker : Running(v)' /\ job'[v] = i)
                          <=> \E v \in Worker : Running(v) /\ job[v] = i
  OBVIOUS
<1>4. ClaimAccounting'
  BY <1>2, <1>3 DEF ClaimAccounting
<1> QED
  BY <1>1, <1>4

\* The scheduler starts in the invariant, whatever the store holds.
LEMMA InitIInv == Init => IInv
<1> SUFFICES ASSUME Init PROVE IInv
  OBVIOUS
<1> USE NoIssueAssumption, QueueDepthAssumption DEF Init
<1>1. TypeOK
  <2>1. queue \in Seq(Issue) /\ Len(queue) <= QueueDepth
    OBVIOUS
  <2>2. /\ inflight \in [Issue -> {"free", "claimed", "armed"}]
        /\ wpc \in [Worker -> {"idle", "picked", "armed", "driving",
                               "returned", "exited"}]
        /\ job \in [Worker -> Issue \cup {NoIssue}]
        /\ cause \in [Worker -> {"none", "operator", "deadline", "shutdown"}]
        /\ overdue \in [Worker -> BOOLEAN]
    OBVIOUS
  <2>3. /\ pc = "seed" /\ src = "none" /\ reaper = "off"
        /\ ctxDone = FALSE /\ batch = {} /\ asked = {} /\ cur = NoIssue
        /\ store \in [Issue -> Open \cup Settled]
    OBVIOUS
  <2> HIDE DEF Init
  <2> QED
    BY <2>1, <2>2, <2>3 DEF TypeOK
<1>2. JobsFit /\ CurFits /\ CurDue /\ DrivenIsOpen
  BY DEF JobsFit, CurFits, CurDue, DrivenIsOpen
<1>3. ExclusiveClaim /\ ClaimAccounting /\ DriveIsDue
  BY DEF ExclusiveClaim, ClaimAccounting, DriveIsDue, Queued, Sending, Held,
         Running
<1> QED
  BY <1>1, <1>2, <1>3 DEF IInv

\* A step of the poller, or an operator's command it takes.
LEMMA PollerKeepsIInv ==
    ASSUME IInv, Poller \/ Operator
    PROVE  IInv'
<1> USE NoIssueAssumption, QueueDepthAssumption
    DEF IInv, TypeOK, JobsFit, CurFits, CurDue, DrivenIsOpen, DriveIsDue, Due,
        ExclusiveClaim, ClaimAccounting, Queued, Sending, Held, Running, Open,
        Settled, claimVars, pollerVars, workerVars, taskVars
<1>1. CASE Tick
  BY <1>1 DEF Tick
<1>2. CASE ListFails
  BY <1>2 DEF ListFails
<1>3. CASE SeedFromStore
  BY <1>3 DEF SeedFromStore
<1>4. CASE SeedFails
  BY <1>4 DEF SeedFails, ToSelect
<1>5. CASE \E stale \in SUBSET {i \in Issue : store[i] \in Settled} : ListCandidates(stale)
  BY <1>5 DEF ListCandidates
<1>6. ASSUME NEW i \in Issue, SkipInflight(i)
      PROVE  IInv'
  BY <1>6 DEF SkipInflight
<1>7. ASSUME NEW i \in Issue, Examine(i)
      PROVE  IInv'
  BY <1>7 DEF Examine
<1>8. CASE Admit
  BY <1>8 DEF Admit, Admits
<1>9. CASE Refuse
  BY <1>9 DEF Refuse, NextIssue
<1>10. CASE Claim
  BY <1>10 DEF Claim, NextIssue
<1>11. CASE Send
  <2> USE <1>11 DEF Send, NextIssue
  <2>1. /\ queue' \in Seq(Issue) /\ Len(queue') = Len(queue) + 1
        /\ Len(queue) \in Nat
        /\ \A k \in 1..Len(queue) : queue'[k] = queue[k]
        /\ queue'[Len(queue) + 1] = cur
    BY Appended
  <2>2. \A i : Queued(i)' <=> Queued(i) \/ i = cur
    BY <2>1
  <2>3. TypeOK'
    BY <2>1
  <2>4. ExclusiveClaim'
    <3>1. \A v, u \in Worker : job'[v] = job'[u] /\ job'[v] # NoIssue => v = u
      OBVIOUS
    <3>2. \A j, k \in 1..Len(queue') : queue'[j] = queue'[k] => j = k
      BY <2>1
    <3>3. \A i \in Issue : Queued(i)' => ~Held(i)'
      BY <2>2
    <3>4. \A i \in Issue : ~Sending(i)'
      OBVIOUS
    <3> QED
      BY <3>1, <3>2, <3>3, <3>4
  <2>5. ClaimAccounting'
    <3>1. \A i \in Issue : (Queued(i) \/ Sending(i))' <=> Queued(i) \/ Sending(i)
      BY <2>2
    <3> QED
      BY <3>1
  <2>6. DriveIsDue'
    BY <2>2
  <2>7. JobsFit' /\ CurFits' /\ CurDue' /\ DrivenIsOpen'
    OBVIOUS
  <2> QED
    BY <2>3, <2>4, <2>5, <2>6, <2>7
<1>12. CASE SendFull
  <2> USE <1>12 DEF SendFull, NextIssue
  <2>1. TypeOK'
    OBVIOUS
  <2>2. JobsFit' /\ CurFits' /\ CurDue' /\ DrivenIsOpen' /\ DriveIsDue'
    OBVIOUS
  <2>3. ExclusiveClaim'
    OBVIOUS
  <2>4. ClaimAccounting'
    OBVIOUS
  <2> QED
    BY <2>1, <2>2, <2>3, <2>4
<1>13. CASE EndBatch
  BY <1>13 DEF EndBatch, ToSelect
<1>14. CASE CallCancel
  <2> USE <1>14 DEF CallCancel, NextIssue
  <2>1. TypeOK'
    OBVIOUS
  <2>2. JobsFit' /\ CurFits' /\ CurDue' /\ DrivenIsOpen' /\ DriveIsDue'
    OBVIOUS
  <2>3. ExclusiveClaim'
    OBVIOUS
  <2>4. ClaimAccounting'
    OBVIOUS
  <2> QED
    BY <2>1, <2>2, <2>3, <2>4
<1>15. CASE CloseWork
  BY <1>15 DEF CloseWork
<1>16. CASE ServeReturns
  BY <1>16 DEF ServeReturns
<1>17. ASSUME NEW i \in Issue, TakeEnqueue(i)
       PROVE  IInv'
  BY <1>17 DEF TakeEnqueue
<1>18. ASSUME NEW i \in Issue, TakeCancel(i)
       PROVE  IInv'
  BY <1>18 DEF TakeCancel, NextIssue
<1> HIDE DEF IInv
<1> QED
  BY <1>1, <1>2, <1>3, <1>4, <1>5, <1>6, <1>7, <1>8, <1>9, <1>10, <1>11, <1>12,
     <1>13, <1>14, <1>15, <1>16, <1>17, <1>18
  DEF Poller, Operator

\* A step of a worker, or of the drive it runs.
LEMMA WorkerKeepsIInv ==
    ASSUME IInv, NEW w \in Worker, Work(w) \/ DeadlinePasses(w)
    PROVE  IInv'
<1> USE NoIssueAssumption, QueueDepthAssumption
    DEF IInv, TypeOK, JobsFit, CurFits, CurDue, DrivenIsOpen, DriveIsDue, Due,
        ExclusiveClaim, ClaimAccounting, Queued, Sending, Held, Running, Open,
        Settled, claimVars, pollerVars, workerVars, taskVars
<1>1. CASE Receive(w)
  <2> USE <1>1 DEF Receive
  <2>1. /\ Len(queue) \in Nat \ {0} /\ Len(queue') = Len(queue) - 1
        /\ queue' \in Seq(Issue) /\ Head(queue) \in Issue
        /\ Queued(Head(queue))
    BY HeadAndTail
  <2>2. /\ \A i : Queued(i) <=> i = Head(queue) \/ Queued(i)'
        /\ \A i : i = Head(queue) => ~Queued(i)'
        /\ \A j, k \in 1..Len(queue') : queue'[j] = queue'[k] => j = k
    <3>1. /\ queue \in Seq(Issue) /\ queue # <<>> /\ queue' = Tail(queue)
          /\ \A j, k \in 1..Len(queue) : queue[j] = queue[k] => j = k
      OBVIOUS
    <3> HIDE DEF IInv, Receive, Queued
    <3>2. /\ \A i : (\E k \in 1..Len(queue) : queue[k] = i)
                      <=> \/ i = Head(queue)
                          \/ \E k \in 1..Len(Tail(queue)) : Tail(queue)[k] = i
          /\ \A k \in 1..Len(Tail(queue)) : Tail(queue)[k] # Head(queue)
          /\ \A j, k \in 1..Len(Tail(queue)) :
                Tail(queue)[j] = Tail(queue)[k] => j = k
      BY <3>1, TakenFromTheHead, Zenon
    <3>3. /\ \A i : (\E k \in 1..Len(queue) : queue[k] = i)
                      <=> i = Head(queue) \/ \E k \in 1..Len(queue') : queue'[k] = i
          /\ \A k \in 1..Len(queue') : queue'[k] # Head(queue)
          /\ \A j, k \in 1..Len(queue') : queue'[j] = queue'[k] => j = k
      BY <3>1, <3>2, Zenon
    <3>4. \A i : Queued(i) <=> i = Head(queue) \/ Queued(i)'
      BY <3>3, SMT DEF Queued
    <3>5. \A i : i = Head(queue) => ~Queued(i)'
      BY <3>3, <3>1, SMT DEF Queued
    <3> QED
      BY <3>3, <3>4, <3>5
  <2>3. \A v \in Worker : job'[v] = IF v = w THEN Head(queue) ELSE job[v]
    OBVIOUS
  <2>4. job[w] = NoIssue /\ Head(queue) # NoIssue
    BY <2>1
  <2>5. TypeOK' /\ JobsFit' /\ CurFits' /\ CurDue' /\ DrivenIsOpen'
    BY <2>1
  <2>6. \A i \in Issue : Held(i)' <=> i = Head(queue) \/ Held(i)
    BY <2>3, <2>4
  <2>7. \A i \in Issue : Sending(i)' <=> Sending(i)
    OBVIOUS
  <2>8. ~Held(Head(queue)) /\ ~Sending(Head(queue))
    BY <2>1
  <2>9. ExclusiveClaim'
    <3>1. \A u, v \in Worker : job'[u] = job'[v] /\ job'[u] # NoIssue => u = v
      BY <2>3, <2>8
    <3>2. \A i \in Issue : Queued(i)' => ~Held(i)' /\ ~Sending(i)'
      <4>1. \A i \in Issue : Queued(i) => ~Held(i) /\ ~Sending(i)
        OBVIOUS
      <4> HIDE DEF IInv, Queued, Held, Sending
      <4> QED
        BY <2>2, <2>6, <2>7, <4>1
    <3>3. \A i \in Issue : Sending(i)' => ~Held(i)'
      <4> HIDE DEF Queued, Held, Sending
      <4> QED
        BY <2>6, <2>7, <2>8
    <3> QED
      BY <2>2, <3>1, <3>2, <3>3
  <2>10. ClaimAccounting'
    <3>1. \A i \in Issue : Queued(i)' \/ Sending(i)' \/ Held(i)'
                              <=> Queued(i) \/ Sending(i) \/ Held(i)
      <4> HIDE DEF Queued, Held, Sending
      <4> QED
        BY <2>2, <2>6, <2>7
    <3>2. \A v \in Worker : Running(v)' <=> Running(v) /\ v # w
      OBVIOUS
    <3>3. \A i \in Issue : (\E v \in Worker : Running(v) /\ job[v] = i)'
                              <=> \E v \in Worker : Running(v) /\ job[v] = i
      <4> HIDE DEF Running
      <4> QED
        BY <2>3, <2>4, <3>2
    <3>4. inflight' = inflight
      OBVIOUS
    <3> HIDE DEF Queued, Sending, Held, Running
    <3> QED
      BY <3>1, <3>3, <3>4
  <2>11. DriveIsDue'
    BY <2>1, <2>2, <2>3
  <2> QED
    BY <2>5, <2>9, <2>10, <2>11
<1>2. CASE Exit(w)
  BY <1>2 DEF Exit
<1>3. CASE Arm(w)
  BY <1>3 DEF Arm
<1>4. ASSUME Load(w) \/ LoadFails(w) \/ Suspend(w)
      PROVE  IInv'
  <2> USE <1>4 DEF Load, LoadFails, Suspend
  <2>1. TypeOK' /\ JobsFit' /\ CurFits' /\ CurDue' /\ DrivenIsOpen'
    OBVIOUS
  <2>2. DriveIsDue'
    OBVIOUS
  <2>3. /\ UNCHANGED <<inflight, queue, pc, cur, job>>
        /\ \A v \in Worker : Running(v)' <=> Running(v)
    OBVIOUS
  <2>4. ExclusiveClaim' /\ ClaimAccounting'
    <3> HIDE DEF ExclusiveClaim, ClaimAccounting, Running
    <3> QED
      BY <2>3, ClaimsUndisturbed
  <2> QED
    BY <2>1, <2>2, <2>4
<1>6. CASE Fail(w)
  BY <1>6 DEF Fail
<1>7. CASE Interrupted(w)
  <2> USE <1>7 DEF Interrupted
  <2>1. TypeOK' /\ JobsFit' /\ CurFits' /\ CurDue' /\ DrivenIsOpen' /\ DriveIsDue'
    OBVIOUS
  <2>2. /\ UNCHANGED <<inflight, queue, pc, cur, job>>
        /\ \A v \in Worker : Running(v)' <=> Running(v)
    OBVIOUS
  <2>3. ExclusiveClaim' /\ ClaimAccounting'
    <3> HIDE DEF ExclusiveClaim, ClaimAccounting, Running
    <3> QED
      BY <2>2, ClaimsUndisturbed
  <2> QED
    BY <2>1, <2>3
<1>8. ASSUME NEW d \in Settled, Settle(w, d)
      PROVE  IInv'
  <2> USE <1>8 DEF Settle
  <2>1. TypeOK' /\ JobsFit' /\ CurFits' /\ CurDue' /\ DrivenIsOpen'
    OBVIOUS
  <2>2. DriveIsDue'
    OBVIOUS
  <2>3. /\ UNCHANGED <<inflight, queue, pc, cur, job>>
        /\ \A v \in Worker : Running(v)' <=> Running(v)
    OBVIOUS
  <2>4. ExclusiveClaim' /\ ClaimAccounting'
    <3> HIDE DEF ExclusiveClaim, ClaimAccounting, Running
    <3> QED
      BY <2>3, ClaimsUndisturbed
  <2> QED
    BY <2>1, <2>2, <2>4
<1>9. CASE Remove(w)
  <2> USE <1>9 DEF Remove
  <2>1. TypeOK' /\ JobsFit' /\ CurFits' /\ CurDue' /\ DrivenIsOpen' /\ DriveIsDue'
    OBVIOUS
  <2>2. /\ \A v \in Worker : job'[v] = IF v = w THEN NoIssue ELSE job[v]
        /\ \A v \in Worker : Running(v)' <=> Running(v) /\ v # w
    OBVIOUS
  <2>3. /\ job[w] \in Issue /\ job[w] # NoIssue
        /\ \A v \in Worker : job[v] = job[w] => v = w
        /\ ~Queued(job[w]) /\ ~Sending(job[w])
    OBVIOUS
  <2>4. \A i \in Issue : (Queued(i)' <=> Queued(i)) /\ (Sending(i)' <=> Sending(i))
    OBVIOUS
  <2>5. \A i \in Issue : Held(i)' <=> Held(i) /\ i # job[w]
    BY <2>2, <2>3
  <2>6. ExclusiveClaim'
    <3>1. ExclusiveClaim /\ queue' = queue
      OBVIOUS
    <3> HIDE DEF IInv, Remove, Queued, Sending, Held
    <3> QED
      BY <2>2, <2>4, <2>5, <3>1
  <2>7. ClaimAccounting'
    <3>1. \A i \in Issue : inflight'[i] = IF i = job[w] THEN "free" ELSE inflight[i]
      OBVIOUS
    <3>2. ClaimAccounting
      OBVIOUS
    <3> HIDE DEF IInv, Queued, Sending, Held, Running
    <3>3. \A i \in Issue : (\E v \in Worker : Running(v) /\ job[v] = i)'
                              <=> (\E v \in Worker : Running(v) /\ job[v] = i) /\ i # job[w]
      BY <2>2, <2>3
    <3> QED
      BY <2>3, <2>4, <2>5, <3>1, <3>2, <3>3
  <2> QED
    BY <2>1, <2>6, <2>7
<1>10. CASE DeadlinePasses(w)
  BY <1>10 DEF DeadlinePasses
<1> HIDE DEF IInv
<1> QED
  BY <1>1, <1>2, <1>3, <1>4, <1>6, <1>7, <1>8, <1>9, <1>10
  DEF Work, DriveEnds

\* The reaper, the shutdown, and nothing at all.
LEMMA OthersKeepIInv ==
    ASSUME IInv, Reap \/ ReaperStops \/ Shutdown \/ UNCHANGED vars
    PROVE  IInv'
<1> USE DEF IInv, TypeOK, JobsFit, CurFits, CurDue, DrivenIsOpen, DriveIsDue,
        Due, ExclusiveClaim, ClaimAccounting, Queued, Sending, Held, Running,
        claimVars, pollerVars, workerVars, taskVars
<1>1. CASE Reap
  BY <1>1 DEF Reap
<1>2. CASE ReaperStops
  BY <1>2 DEF ReaperStops
<1>3. CASE Shutdown
  BY <1>3 DEF Shutdown
<1>4. CASE UNCHANGED vars
  BY <1>4 DEF vars
<1> QED
  BY <1>1, <1>2, <1>3, <1>4

\* Every step of the scheduler keeps the invariant.
LEMMA NextKeepsIInv == IInv /\ [Next]_vars => IInv'
<1> SUFFICES ASSUME IInv, [Next]_vars PROVE IInv'
  OBVIOUS
<1>1. CASE Poller \/ Operator
  BY <1>1, PollerKeepsIInv
<1>2. ASSUME NEW w \in Worker, Work(w) \/ DeadlinePasses(w)
      PROVE  IInv'
  BY <1>2, WorkerKeepsIInv
<1>3. CASE Reap \/ ReaperStops \/ Shutdown \/ Terminated \/ UNCHANGED vars
  BY <1>3, OthersKeepIInv DEF Terminated
<1> QED
  BY <1>1, <1>2, <1>3 DEF Next

-----------------------------------------------------------------------------
(***************************************************************************)
(* The theorems.                                                           *)
(***************************************************************************)
\* The inductive invariant holds for any number of issues, workers and places
\* on the work channel.
THEOREM Invariant == Spec => []IInv
BY InitIInv, NextKeepsIInv, PTL DEF Spec

\* Type correctness; among the types is that the channel never holds more than
\* QueueDepth issues, so a send never blocks the poller.
THEOREM TypeCorrect == Spec => []TypeOK
<1>1. IInv => TypeOK
  BY DEF IInv
<1> QED
  BY <1>1, Invariant, PTL

\* inflightSet keeps every issue with one goroutine at a time: no task is ever
\* driven by two workers.
THEOREM ClaimsAreExclusive == Spec => []ExclusiveClaim
<1>1. IInv => ExclusiveClaim
  BY DEF IInv
<1> QED
  BY <1>1, Invariant, PTL

\* No inflight entry is leaked, lost or wrongly armed, whatever the order in
\* which sends fail, drives end and commands come.
THEOREM ClaimsAreAccounted == Spec => []ClaimAccounting
<1>1. IInv => ClaimAccounting
  BY DEF IInv
<1> QED
  BY <1>1, Invariant, PTL

\* A drive that starts is still due, however long its issue was queued after the
\* disposition check: finished tasks are never driven again, stopped ones only
\* for an operator.
THEOREM DrivesAreDue == Spec => []DriveIsDue
<1>1. IInv => DriveIsDue
  BY DEF IInv
<1> QED
  BY <1>1, Invariant, PTL
-----------------------------------------------------------------------------
(***************************************************************************)
(* The scheduler implements DriveLease, with inflight as the lease.        *)
(***************************************************************************)
\* What the claims say of the issue the poller sends, and of a worker's.
LEMMA HeldClaims ==
    ASSUME IInv
    PROVE  /\ pc = "send" => inflight[cur] = "claimed"
           /\ \A w \in Worker : wpc[w] = "picked" => inflight[job[w]] = "claimed"
           /\ \A w \in Worker : Running(w) => inflight[job[w]] = "armed"
           /\ \A w \in Worker : job[w] # NoIssue => job[w] \in Issue
<1> USE DEF IInv, TypeOK
<1>1. \A w \in Worker : job[w] # NoIssue => job[w] \in Issue
  OBVIOUS
<1>2. ASSUME pc = "send"
      PROVE  inflight[cur] = "claimed"
  <2>1. cur \in Issue /\ Sending(cur) /\ ~Held(cur)
    BY <1>2 DEF CurFits, ExclusiveClaim, Sending
  <2>2. inflight[cur] # "free"
    BY <2>1 DEF ClaimAccounting
  <2>3. inflight[cur] # "armed"
    BY <2>1 DEF ClaimAccounting, Held
  <2> QED
    BY <2>1, <2>2, <2>3
<1>3. ASSUME NEW w \in Worker, wpc[w] = "picked"
      PROVE  inflight[job[w]] = "claimed"
  <2>1. job[w] \in Issue /\ Held(job[w])
    BY <1>1, <1>3 DEF JobsFit, Held
  <2>2. inflight[job[w]] # "free"
    BY <2>1 DEF ClaimAccounting
  <2>3. \A v \in Worker : job[v] = job[w] => v = w
    BY <2>1, NoIssueAssumption DEF ExclusiveClaim
  <2>4. ~Running(w)
    BY <1>3 DEF Running
  <2>5. inflight[job[w]] # "armed"
    <3> HIDE DEF Running
    <3> QED
      BY <2>1, <2>3, <2>4 DEF ClaimAccounting
  <2> QED
    BY <2>1, <2>2, <2>5
<1>4. ASSUME NEW w \in Worker, Running(w)
      PROVE  inflight[job[w]] = "armed"
  <2>1. job[w] \in Issue
    BY <1>1, <1>4 DEF JobsFit, Running
  <2> QED
    BY <1>4, <2>1 DEF ClaimAccounting
<1> QED
  BY <1>1, <1>2, <1>3, <1>4

\* The scheduler starts with no issue leased.
LEMMA InitLeases == Init => Lease!Init
BY DEF Init, Lease!Init, Open, Settled

\* A step that changes an inflight entry or a task is a step of the lease: a
\* claim, a claim given back, a start, a drive's step or an end.
LEMMA NextLeases == IInv /\ [Next]_vars => [Lease!Next]_<<inflight, store>>
<1> SUFFICES ASSUME IInv, [Next]_vars, ~UNCHANGED <<inflight, store>>
             PROVE  Lease!Next
  OBVIOUS
<1> USE DEF Lease!Next, claimVars, pollerVars, workerVars, taskVars
<1>1. ASSUME Claim
      PROVE  Lease!Next
  <2>1. cur \in Issue /\ store[cur] # "finished"
    BY <1>1 DEF Claim, IInv, CurFits, CurDue, Open
  <2>2. Lease!Claim(cur)
    BY <1>1, <2>1 DEF Claim, Lease!Claim
  <2> QED
    BY <2>1, <2>2
<1>2. ASSUME SendFull
      PROVE  Lease!Next
  <2>1. cur \in Issue /\ inflight[cur] = "claimed"
    BY <1>2, HeldClaims DEF SendFull, IInv, CurFits
  <2>2. Lease!GiveBack(cur)
    BY <1>2, <2>1 DEF SendFull, Lease!GiveBack
  <2> QED
    BY <2>1, <2>2
<1>3. ASSUME NEW w \in Worker, Arm(w)
      PROVE  Lease!Next
  <2>1. job[w] \in Issue /\ inflight[job[w]] = "claimed"
    BY <1>3, HeldClaims DEF Arm, IInv, JobsFit
  <2>2. Lease!Start(job[w])
    BY <1>3, <2>1 DEF Arm, Lease!Start
  <2> QED
    BY <2>1, <2>2
<1>4. ASSUME NEW w \in Worker, Running(w)
      PROVE  job[w] \in Issue /\ inflight[job[w]] = "armed"
             /\ store[job[w]] \in {"none", "open", "stopped", "finished"}
  <2>1. job[w] \in Issue /\ inflight[job[w]] = "armed"
    BY <1>4, HeldClaims DEF IInv, JobsFit, Running
  <2> QED
    BY <2>1 DEF IInv, TypeOK, Open, Settled
<1>5. ASSUME NEW w \in Worker, Load(w)
      PROVE  Lease!Next
  <2>1. /\ job[w] \in Issue /\ inflight[job[w]] = "armed"
        /\ store[job[w]] \in {"none", "open", "stopped", "finished"}
    BY <1>4, <1>5 DEF Load, Running
  <2>2. store[job[w]] \in {"none", "stopped"}
    <3>1. store \in [Issue -> Open \cup Settled]
      BY DEF IInv, TypeOK
    <3> QED
      BY <1>5, <2>1, <3>1 DEF Load
  <2>3. Lease!Drive(job[w])
    BY <1>5, <2>1, <2>2 DEF Load, Lease!Drive
  <2> QED
    BY <2>1, <2>3
<1>6. ASSUME NEW w \in Worker, Interrupted(w) \/ \E d \in Settled : Settle(w, d)
      PROVE  Lease!Next
  <2>1. /\ job[w] \in Issue /\ inflight[job[w]] = "armed" /\ store[job[w]] = "open"
    BY <1>4, <1>6 DEF Interrupted, Settle, Running, IInv, DrivenIsOpen
  <2>2. /\ inflight' = inflight
        /\ \E d \in {"open", "stopped", "finished"} :
               store' = [store EXCEPT ![job[w]] = d]
    BY <1>6 DEF Interrupted, Settle, Settled
  <2>3. [store EXCEPT ![job[w]] = "open"] = store
    BY <2>1 DEF IInv, TypeOK
  <2>4. Lease!Drive(job[w])
    BY <2>1, <2>2, <2>3 DEF Lease!Drive
  <2> QED
    BY <2>1, <2>4
<1>7. ASSUME NEW w \in Worker, Remove(w)
      PROVE  Lease!Next
  <2>1. job[w] \in Issue /\ inflight[job[w]] = "armed"
    BY <1>4, <1>7 DEF Remove, Running
  <2>2. Lease!End(job[w])
    BY <1>7, <2>1 DEF Remove, Lease!End
  <2> QED
    BY <2>1, <2>2
<1>8. ASSUME Poller \/ Operator, ~Claim, ~SendFull
      PROVE  FALSE
  BY <1>8
  DEF Poller, Operator, Tick, ListFails, SeedFromStore, SeedFails,
      ListCandidates, SkipInflight, Examine, Admit, Refuse, Send, EndBatch,
      CallCancel, CloseWork, ServeReturns, TakeEnqueue, TakeCancel
<1>9. ASSUME NEW w \in Worker,
             \/ Receive(w) \/ Exit(w) \/ LoadFails(w) \/ Suspend(w) \/ Fail(w)
             \/ DeadlinePasses(w)
      PROVE  FALSE
  BY <1>9 DEF Receive, Exit, LoadFails, Suspend, Fail, DeadlinePasses
<1>10. ASSUME Reap \/ ReaperStops \/ Shutdown \/ Terminated \/ UNCHANGED vars
       PROVE  FALSE
  BY <1>10 DEF Reap, ReaperStops, Shutdown, Terminated, vars
<1> QED
  BY <1>1, <1>2, <1>3, <1>5, <1>6, <1>7, <1>8, <1>9, <1>10
  DEF Next, Work, DriveEnds

\* Seen through inflight and the store, every behaviour of the scheduler is one
\* of DriveLease, for any number of issues, workers and places on the channel.
THEOREM LeaseIsKept == Spec => ImplementsLease
<1>1. Init => Lease!Init
  BY InitLeases
<1>2. IInv /\ [Next]_vars => [Lease!Next]_<<inflight, store>>
  BY NextLeases
<1> QED
  BY <1>1, <1>2, Invariant, PTL DEF Spec, ImplementsLease, Lease!Spec
=============================================================================

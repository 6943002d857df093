---------------------------- MODULE EventHubProofs ----------------------------
(***************************************************************************)
(* Proofs about EventHub for any number of subscribers, panes and pollers, *)
(* and any size of the channels.  OnePoller is inductive given the types   *)
(* of what it speaks of; OldListsAreLast is not: that no list older than   *)
(* what was broadcast is in the hands of the running poller needs that     *)
(* whoever holds a list older than another's was stopped before the other  *)
(* got its own (OlderAreStopped), which is where OnePoller comes in.       *)
(*                                                                         *)
(* What subscribers know is the second half, with an invariant of its own, *)
(* KInv.  It rests on lemmas about what is heard of a pane in a channel    *)
(* (Heard) when an event is taken from its head (TakingKeeps), when it is  *)
(* primed (PrimingTells), and when the first part of a broadcast is put at *)
(* its end (BroadcastTells).                                               *)
(***************************************************************************)
EXTENDS EventHub, SequenceLemmas, SequenceTheorems

\* The types of what tells the pollers apart, a conjunct of TypeOK.
PollersTyped ==
    /\ leaving \in SUBSET subs
    /\ current \in Poller \cup {None}
    /\ at \in [Poller -> {"off", "poll", "broadcast"}]
    /\ cancelled \in SUBSET Poller
    /\ older \in [Poller -> SUBSET Poller]
    /\ overtaken \in SUBSET Poller

\* The pollers with a list in hand whose context is done.
StoppedWithList == {g \in cancelled : at[g] = "broadcast"}

\* Of two pollers with a list, the one that got it first has been stopped.
OlderAreStopped == \A g \in Poller : older[g] \subseteq StoppedWithList

\* A list that was overtaken is still in the hands of its poller.
OvertakenAreStopped == overtaken \subseteq StoppedWithList

\* The inductive invariant.
IInv ==
    /\ PollersTyped
    /\ OnePoller
    /\ OlderAreStopped
    /\ OvertakenAreStopped

\* Before anyone subscribes there is no poller.
LEMMA InitHolds == Init => IInv
  BY NoneAssumption DEF Init, IInv, PollersTyped, OnePoller, OlderAreStopped,
     OvertakenAreStopped, Nothing, StoppedWithList

\* The first subscriber starts a poller, and the next ones find it.
LEMMA SubscribeKeeps ==
    ASSUME IInv, NEW s \in Sub, subscribe(s)
    PROVE  IInv'
<1>1. CASE current # None
  BY <1>1 DEF subscribe, startLocked, IInv, PollersTyped, OnePoller,
     OlderAreStopped, OvertakenAreStopped, StoppedWithList
<1>2. CASE current = None
  <2>1. PICK g \in Poller : /\ at[g] = "off"
                            /\ current' = g
                            /\ at' = [at EXCEPT ![g] = "poll"]
                            /\ cancelled' = cancelled \ {g}
    BY <1>2 DEF subscribe, startLocked
  <2>2. PollersTyped'
    BY <2>1 DEF IInv, PollersTyped, subscribe
  <2>3. {h \in Poller : at[h] # "off"} \ cancelled = {}
    BY <1>2 DEF IInv, OnePoller
  <2>4. OnePoller'
    BY <2>1, <2>3, NoneAssumption DEF IInv, PollersTyped, OnePoller, subscribe
  <2>5. StoppedWithList' = StoppedWithList
    BY <2>1 DEF IInv, PollersTyped, StoppedWithList
  <2>. QED BY <2>2, <2>4, <2>5 DEF IInv, OlderAreStopped, OvertakenAreStopped, subscribe
<1>. QED BY <1>1, <1>2

\* The last subscriber to go has the poller stopped, any other has not.
LEMMA UnsubscribeKeeps ==
    ASSUME IInv, NEW s \in Sub, unsubscribe(s)
    PROVE  IInv'
<1>1. StoppedWithList \subseteq StoppedWithList'
  BY DEF unsubscribe, StoppedWithList
<1>2. PollersTyped'
  BY DEF IInv, PollersTyped, unsubscribe
<1>3. OnePoller'
  BY NoneAssumption DEF IInv, PollersTyped, OnePoller, unsubscribe
<1>. QED BY <1>1, <1>2, <1>3 DEF IInv, OlderAreStopped, OvertakenAreStopped, unsubscribe

\* A poller that gets a list goes on, so that all the others are stopped.
LEMMA PollKeeps ==
    ASSUME IInv, NEW g \in Poller, PollLists(g)
    PROVE  IInv'
<1>1. PollersTyped'
  BY DEF IInv, PollersTyped, PollLists, hubVars
<1>2. OnePoller'
  BY DEF IInv, PollersTyped, OnePoller, PollLists, hubVars
<1>3. StoppedWithList' = StoppedWithList
  BY DEF IInv, PollersTyped, PollLists, StoppedWithList
<1>4. {h \in Poller : at[h] = "broadcast"} \subseteq StoppedWithList
  <2>. SUFFICES ASSUME NEW h \in Poller, at[h] = "broadcast", h \notin cancelled
                PROVE  FALSE
    BY DEF StoppedWithList
  <2>1. {g, h} \subseteq {current}
    BY DEF IInv, OnePoller, PollLists
  <2>. QED BY <2>1 DEF PollLists
<1>5. OlderAreStopped'
  BY <1>3, <1>4 DEF IInv, PollersTyped, OlderAreStopped, PollLists
<1>. QED BY <1>1, <1>2, <1>3, <1>5 DEF IInv, OvertakenAreStopped, PollLists

\* What a broadcast overtakes are the lists older than its own.
LEMMA BroadcastKeeps ==
    ASSUME IInv, NEW g \in Poller, broadcast(g)
    PROVE  IInv'
<1>1. PollersTyped'
  BY DEF IInv, PollersTyped, broadcast, PutAway
<1>2. OnePoller'
  BY DEF IInv, PollersTyped, OnePoller, broadcast, PutAway
<1>3. StoppedWithList \ {g} \subseteq StoppedWithList'
  BY DEF IInv, PollersTyped, broadcast, PutAway, StoppedWithList
<1>4. OlderAreStopped'
  BY <1>3 DEF IInv, OlderAreStopped, broadcast, PutAway
<1>5. OvertakenAreStopped'
  BY <1>3 DEF IInv, OlderAreStopped, OvertakenAreStopped, broadcast, PutAway
<1>. QED BY <1>1, <1>2, <1>4, <1>5 DEF IInv

\* Only a stopped poller that holds no list ends.
LEMMA StopKeeps ==
    ASSUME IInv, NEW g \in Poller, Stop(g)
    PROVE  IInv'
<1>1. PollersTyped'
  BY DEF IInv, PollersTyped, Stop, hubVars
<1>2. OnePoller'
  BY DEF IInv, PollersTyped, OnePoller, Stop, hubVars
<1>3. StoppedWithList' = StoppedWithList
  BY DEF IInv, PollersTyped, Stop, StoppedWithList
<1>. QED BY <1>1, <1>2, <1>3 DEF IInv, OlderAreStopped, OvertakenAreStopped, Stop

\* What panes and readers do, and who is about to leave, is no matter to a poller.
LEMMA OthersKeep ==
    ASSUME IInv,
           \/ \E p \in Pane : StatusChanges(p)
           \/ \E s \in Sub : Receive(s) \/ Leave(s)
           \/ UNCHANGED vars
    PROVE  IInv'
<1>1. PollersTyped'
  BY DEF IInv, PollersTyped, StatusChanges, Receive, Leave, vars, hubVars, pollerVars
<1>2. UNCHANGED <<subs, pollerVars>>
  BY DEF StatusChanges, Receive, Leave, vars, hubVars
<1>. QED
  BY <1>1, <1>2 DEF IInv, OnePoller, OlderAreStopped, OvertakenAreStopped,
     StoppedWithList, pollerVars

\* The strengthening is an invariant of the hub.
THEOREM Invariant == Spec => []IInv
<1>1. Init => IInv
  BY InitHolds
<1>2. IInv /\ [Next]_vars => IInv'
  BY SubscribeKeeps, UnsubscribeKeeps, PollKeeps, BroadcastKeeps, StopKeeps, OthersKeep
     DEF Next, run
<1>. QED BY <1>1, <1>2, PTL DEF Spec

\* OnePoller: while anyone is subscribed exactly one poller goes on, for any
\* number of subscribers that come and go between its critical sections.
THEOREM PollerIsOne == Spec => []OnePoller
<1>1. IInv => OnePoller
  BY DEF IInv
<1>. QED BY <1>1, Invariant, PTL

\* OldListsAreLast: no list that is older than what was broadcast is in the hands
\* of a poller that goes on.
THEOREM OldListsAreOnTheirWayOut == Spec => []OldListsAreLast
<1>1. IInv => OldListsAreLast
  BY DEF IInv, OvertakenAreStopped, StoppedWithList, OldListsAreLast
<1>. QED BY <1>1, Invariant, PTL

-----------------------------------------------------------------------------
(***************************************************************************)
(* What a subscriber was told.  Of the events of a pane among the first n  *)
(* of a channel the last one counts; lemmas HeardNone and HeardLast are    *)
(* all that the rest knows of it.                                          *)
(***************************************************************************)
Heard(v, c, n, p) ==
    LET known == {k \in 1 .. n : c[k].pane = p}
    IN  IF known = {} THEN v[p] ELSE c[CHOOSE k \in known : \A j \in known : j <= k].state

\* A set of indices has a last one: of the sets of those from one on, a smallest.
LEMMA LastExists ==
  ASSUME NEW n \in Nat, NEW A \in SUBSET (1 .. n), A # {}
  PROVE  \E m \in A : \A k \in A : k <= m
<1> DEFINE From(m) == A \cap (m .. n)
           Tails == {From(m) : m \in A}
<1>1. IsWellFoundedOn(StrictSubsetOrdering(1 .. n), FiniteSubsetsOf(1 .. n))
  BY FS_StrictSubsetOrderingWellFounded
<1>2. Tails \subseteq FiniteSubsetsOf(1 .. n)
  <2>1. \A m \in A : From(m) \in SUBSET (1 .. n)
    OBVIOUS
  <2>2. IsFiniteSet(1 .. n)
    BY FS_Interval
  <2>3. \A T \in SUBSET (1 .. n) : IsFiniteSet(T)
    BY <2>2, FS_Subset
  <2> QED
    BY <2>1, <2>3 DEF FiniteSubsetsOf
<1>3. Tails # {}
  OBVIOUS
<1>4. PICK T \in Tails : \A U \in Tails : <<U, T>> \notin StrictSubsetOrdering(1 .. n)
  BY <1>1, <1>2, <1>3, WFMin
<1>5. PICK m \in A : T = From(m)
  OBVIOUS
<1>6. ASSUME NEW k \in A, k > m
      PROVE  FALSE
  <2>1. From(k) \subseteq T /\ From(k) # T /\ From(k) \in Tails
    BY <1>5, <1>6
  <2> QED
    BY <1>4, <2>1 DEF StrictSubsetOrdering
<1> QED
  BY <1>6

\* No event of a pane from the i-th to the n-th.
Quiet(c, i, n, p) == \A k \in i .. n : c[k].pane # p

\* Of the first n events the m-th is the last of a pane.
IsLast(c, m, n, p) == m \in 1 .. n /\ c[m].pane = p /\ Quiet(c, m + 1, n, p)

\* No event, no news.
LEMMA HeardNone ==
  ASSUME NEW v, NEW c, NEW n \in Nat, NEW p, Quiet(c, 1, n, p)
  PROVE  Heard(v, c, n, p) = v[p]
BY DEF Heard, Quiet

\* The last event counts.
LEMMA HeardLast ==
  ASSUME NEW v, NEW c, NEW n \in Nat, NEW p, NEW m, IsLast(c, m, n, p)
  PROVE  Heard(v, c, n, p) = c[m].state
<1> DEFINE known == {k \in 1 .. n : c[k].pane = p}
           last1 == CHOOSE k \in known : \A j \in known : j <= k
<1>1. m \in known /\ \A j \in known : j <= m
  BY DEF IsLast, Quiet
<1>2. last1 \in known /\ \A j \in known : j <= last1
  BY <1>1
<1>3. last1 = m
  BY <1>1, <1>2
<1> QED
  BY <1>1, <1>3 DEF Heard

\* There is none, or a last one.
LEMMA HeardEither ==
  ASSUME NEW c, NEW n \in Nat, NEW p
  PROVE  Quiet(c, 1, n, p) \/ \E m : IsLast(c, m, n, p)
<1> DEFINE known == {k \in 1 .. n : c[k].pane = p}
<1>1. CASE known = {}
  BY <1>1 DEF Quiet
<1>2. CASE known # {}
  <2>1. PICK m \in known : \A k \in known : k <= m
    BY <1>2, LastExists
  <2> QED
    BY <2>1 DEF Quiet, IsLast
<1> QED
  BY <1>1, <1>2

\* What was heard in the first n events does not depend on those that follow.
LEMMA HeardSame ==
  ASSUME NEW v, NEW c, NEW d, NEW n \in Nat, NEW p, \A k \in 1 .. n : d[k] = c[k]
  PROVE  Heard(v, d, n, p) = Heard(v, c, n, p)
<1>1. CASE Quiet(c, 1, n, p)
  <2>1. Quiet(d, 1, n, p)
    BY <1>1 DEF Quiet
  <2>2. Heard(v, c, n, p) = v[p]
    BY <1>1, HeardNone
  <2>3. Heard(v, d, n, p) = v[p]
    BY <2>1, HeardNone
  <2> QED
    BY <2>2, <2>3
<1>2. ASSUME NEW m, IsLast(c, m, n, p)
      PROVE  Heard(v, d, n, p) = Heard(v, c, n, p)
  <2>1. Heard(v, c, n, p) = c[m].state
    BY <1>2, HeardLast
  <2>2. d[m] = c[m] /\ IsLast(d, m, n, p)
    BY <1>2 DEF Quiet, IsLast
  <2>3. Heard(v, d, n, p) = d[m].state
    BY <1>2, <2>2, HeardLast
  <2> QED
    BY <2>1, <2>2, <2>3
<1> QED
  BY <1>1, <1>2, HeardEither

\* Nor on those that follow if none of them is of the pane.
LEMMA HeardQuiet ==
  ASSUME NEW v, NEW c, NEW m \in Nat, NEW n \in Nat, m <= n, NEW p,
         Quiet(c, m + 1, n, p)
  PROVE  Heard(v, c, n, p) = Heard(v, c, m, p)
<1>1. CASE Quiet(c, 1, m, p)
  <2>1. Quiet(c, 1, n, p)
    BY <1>1 DEF Quiet
  <2>2. Heard(v, c, n, p) = v[p]
    BY <2>1, HeardNone
  <2>3. Heard(v, c, m, p) = v[p]
    BY <1>1, HeardNone
  <2> QED
    BY <2>2, <2>3
<1>2. ASSUME NEW i, IsLast(c, i, m, p)
      PROVE  Heard(v, c, n, p) = Heard(v, c, m, p)
  <2>1. Heard(v, c, m, p) = c[i].state
    BY <1>2, HeardLast
  <2>2. IsLast(c, i, n, p)
    BY <1>2 DEF Quiet, IsLast
  <2>3. Heard(v, c, n, p) = c[i].state
    BY <1>2, <2>2, HeardLast
  <2> QED
    BY <2>1, <2>3
<1> QED
  BY <1>1, <1>2, HeardEither

\* An event that is received counts as it did in the channel.
LEMMA HeardOfTail ==
  ASSUME NEW v \in [Pane -> Status \cup {None}], NEW c \in Seq(Event), c # <<>>,
         NEW n \in 0 .. Len(c) - 1, NEW p \in Pane
  PROVE  Heard([v EXCEPT ![Head(c).pane] = Head(c).state], Tail(c), n, p)
           = Heard(v, c, n + 1, p)
<1> DEFINE w == [v EXCEPT ![Head(c).pane] = Head(c).state]
           d == Tail(c)
<1>1. /\ Len(c) \in Nat \ {0} /\ Head(c) = c[1] /\ c[1] \in Event
      /\ Len(d) = Len(c) - 1
      /\ \A k \in 1 .. Len(c) - 1 : d[k] = c[k + 1]
  <2>1. Len(c) \in Nat \ {0}
    BY EmptySeq
  <2>2. Len(d) = Len(c) - 1 /\ \A k \in 1 .. Len(d) : d[k] = c[k + 1]
    BY HeadTailProperties
  <2>3. c[1] \in Event
    BY <2>1, ElementOfSeq
  <2> QED
    BY <2>1, <2>2, <2>3
<1>2. w[p] = IF c[1].pane = p THEN c[1].state ELSE v[p]
  BY <1>1 DEF Event
<1>3. n \in Nat /\ n + 1 \in Nat /\ 1 \in 1 .. n + 1
  BY <1>1
<1>4. \A i \in 1 .. n + 1 : Quiet(d, i, n, p) => Quiet(c, i + 1, n + 1, p)
  <2> SUFFICES ASSUME NEW i \in 1 .. n + 1, Quiet(d, i, n, p), NEW k \in i + 1 .. n + 1
               PROVE  c[k].pane # p
    BY <1>3 DEF Quiet
  <2>1. k - 1 \in i .. n /\ k - 1 \in 1 .. Len(c) - 1 /\ (k - 1) + 1 = k
    BY <1>1
  <2>2. d[k - 1].pane # p
    BY <2>1 DEF Quiet
  <2> QED
    BY <1>1, <2>1, <2>2
<1> HIDE DEF w, d
<1>5. ASSUME Quiet(d, 1, n, p)
      PROVE  Heard(w, d, n, p) = Heard(v, c, n + 1, p)
  <2>1. Heard(w, d, n, p) = w[p]
    BY <1>3, <1>5, HeardNone
  <2>2. Quiet(c, 1 + 1, n + 1, p)
    BY <1>3, <1>4, <1>5
  <2>3. CASE c[1].pane = p
    <3>1. IsLast(c, 1, n + 1, p)
      BY <1>3, <2>2, <2>3 DEF IsLast
    <3>2. Heard(v, c, n + 1, p) = c[1].state
      BY <1>3, <3>1, HeardLast
    <3> QED
      BY <1>2, <2>1, <2>3, <3>2 DEF w, d
  <2>4. CASE c[1].pane # p
    <3>1. Quiet(c, 1, n + 1, p)
      BY <1>3, <2>2, <2>4 DEF Quiet
    <3>2. Heard(v, c, n + 1, p) = v[p]
      BY <1>3, <3>1, HeardNone
    <3> QED
      BY <1>2, <2>1, <2>4, <3>2 DEF w, d
  <2> QED
    BY <2>3, <2>4
<1>6. ASSUME NEW m, IsLast(d, m, n, p)
      PROVE  Heard(w, d, n, p) = Heard(v, c, n + 1, p)
  <2>1. Heard(w, d, n, p) = d[m].state
    BY <1>3, <1>6, HeardLast
  <2>2. m \in 1 .. n /\ d[m] = c[m + 1] /\ m + 1 \in 1 .. n + 1
    BY <1>1, <1>3, <1>6 DEF IsLast
  <2>3. IsLast(c, m + 1, n + 1, p)
    BY <1>3, <1>4, <1>6, <2>2 DEF IsLast
  <2>4. Heard(v, c, n + 1, p) = c[m + 1].state
    BY <1>3, <2>3, HeardLast
  <2> QED
    BY <2>1, <2>2, <2>4
<1>7. Heard(w, d, n, p) = Heard(v, c, n + 1, p)
  <2>1. Quiet(d, 1, n, p) \/ \E m : IsLast(d, m, n, p)
    BY <1>3, HeardEither
  <2> QED
    BY <1>5, <1>6, <2>1
<1> QED
  BY <1>7 DEF w, d

(***************************************************************************)
(* Events made of a map of statuses, and what of them fits.                *)
(***************************************************************************)

\* One event for each of some panes, with the status the map has for it.
Tells(q, m, A) ==
    /\ q \in Seq(Event)
    /\ \A k \in 1 .. Len(q) : q[k].pane \in A /\ q[k].state = m[q[k].pane]
    /\ \A p \in A : \E k \in 1 .. Len(q) : q[k].pane = p
    /\ \A j, k \in 1 .. Len(q) : q[j].pane = q[k].pane => j = k

\* EventsOf tells of every pane, and of each once.
LEMMA EventsOfTells ==
  ASSUME NEW m \in [Pane -> Status \cup {None}], NEW A \in SUBSET Pane,
         \A p \in A : m[p] # None
  PROVE  /\ Tells(EventsOf(m, A), m, A)
         /\ Len(EventsOf(m, A)) <= Cardinality(A)
         /\ Cardinality(A) \in 0 .. Cardinality(Pane)
<1> DEFINE S == {[pane |-> p, state |-> m[p]] : p \in A}
           g == [p \in A |-> [pane |-> p, state |-> m[p]]]
           q == SetToSeq(S)
<1>1. IsFiniteSet(A) /\ Cardinality(A) \in 0 .. Cardinality(Pane)
  BY PaneAssumption, FS_Subset, FS_CardinalityType
<1>2. g \in Surjection(A, S)
  BY DEF Surjection
<1>3. IsFiniteSet(S) /\ Cardinality(S) <= Cardinality(A) /\ Cardinality(S) \in Nat
  BY <1>1, <1>2, FS_Surjection, FS_CardinalityType
<1>4. S \subseteq Event
  BY DEF Event
<1>5. /\ q \in [1 .. Cardinality(S) -> S]
      /\ \A j, k \in 1 .. Cardinality(S) : q[j] = q[k] => j = k
      /\ \A x \in S : \E k \in 1 .. Cardinality(S) : q[k] = x
  BY <1>3, SetToSeqListsAll
<1>6. q \in Seq(Event) /\ Len(q) = Cardinality(S)
  <2>1. q \in [1 .. Cardinality(S) -> Event]
    BY <1>4, <1>5
  <2> HIDE DEF S, q
  <2> QED
    BY <1>3, <2>1
<1> HIDE DEF q
<1>7. \A k \in 1 .. Len(q) : \E p \in A : q[k] = [pane |-> p, state |-> m[p]]
  BY <1>5, <1>6
<1>8. \A k \in 1 .. Len(q) : q[k].pane \in A /\ q[k].state = m[q[k].pane]
  <2> SUFFICES ASSUME NEW k \in 1 .. Len(q)
               PROVE  q[k].pane \in A /\ q[k].state = m[q[k].pane]
    OBVIOUS
  <2>1. PICK p \in A : q[k] = [pane |-> p, state |-> m[p]]
    BY <1>7
  <2>2. q[k].pane = p /\ q[k].state = m[p]
    BY <2>1
  <2> QED
    BY <2>2
<1>9. \A p \in A : \E k \in 1 .. Len(q) : q[k].pane = p
  <2> SUFFICES ASSUME NEW p \in A
               PROVE  \E k \in 1 .. Len(q) : q[k].pane = p
    OBVIOUS
  <2>1. PICK k \in 1 .. Len(q) : q[k] = [pane |-> p, state |-> m[p]]
    BY <1>5, <1>6
  <2> QED
    BY <2>1
<1>10. \A j, k \in 1 .. Len(q) : q[j].pane = q[k].pane => j = k
  <2> SUFFICES ASSUME NEW j \in 1 .. Len(q), NEW k \in 1 .. Len(q), q[j].pane = q[k].pane
               PROVE  j = k
    OBVIOUS
  <2>1. PICK p \in A : q[j] = [pane |-> p, state |-> m[p]]
    BY <1>7
  <2>2. PICK r \in A : q[k] = [pane |-> r, state |-> m[r]]
    BY <1>7
  <2>3. q[j].pane = p /\ q[k].pane = r
    BY <2>1, <2>2
  <2>4. q[j] = q[k]
    BY <2>1, <2>2, <2>3
  <2> QED
    BY <1>5, <1>6, <2>4
<1>11. EventsOf(m, A) = q
  BY DEF EventsOf, q
<1> QED
  BY <1>1, <1>3, <1>6, <1>8, <1>9, <1>10, <1>11 DEF Tells

\* What fits is a first part, and with the channel it is no more than its room.
LEMMA FittingIsFirst ==
  ASSUME NEW s, ch[s] \in Seq(Event), room[s] \in Nat, Len(ch[s]) <= room[s],
         NEW q \in Seq(Event)
  PROVE  LET f == Fitting(s, q)
         IN  /\ f \in Seq(Event)
             /\ Len(f) <= Len(q)
             /\ Len(ch[s]) + Len(f) <= room[s]
             /\ \A k \in 1 .. Len(f) : f[k] = q[k]
<1> DEFINE n == IF Len(q) <= room[s] - Len(ch[s]) THEN Len(q) ELSE room[s] - Len(ch[s])
           f == SubSeq(q, 1, n)
<1>1. n \in 0 .. Len(q) /\ Len(ch[s]) + n <= room[s] /\ Len(q) \in Nat /\ Len(ch[s]) \in Nat
  BY LenProperties
<1>2. \A i \in 1 .. n : q[i] \in Event
  BY <1>1, ElementOfSeq
<1> HIDE DEF n
<1>3. /\ f \in Seq(Event)
      /\ Len(f) = IF 1 <= n THEN n - 1 + 1 ELSE 0
      /\ \A i \in 1 .. n - 1 + 1 : f[i] = q[1 + i - 1]
  BY <1>1, <1>2, SubSeqProperties
<1>4. Len(f) = n /\ \A i \in 1 .. n : f[i] = q[i]
  BY <1>1, <1>3
<1> QED
  BY <1>1, <1>3, <1>4 DEF Fitting, n

\* An event that does not fit costs the subscriber its pane.
LEMMA RestIsDropped ==
  ASSUME NEW s, NEW m, NEW A, NEW q, Tells(q, m, A),
         Len(Fitting(s, q)) \in 0 .. Len(q),
         \A k \in 1 .. Len(Fitting(s, q)) : Fitting(s, q)[k] = q[k],
         Fitting(s, q) \in Seq(Event),
         NEW k \in 1 .. Len(q), q[k].pane \notin Dropped(s, q)
  PROVE  k <= Len(Fitting(s, q))
<1> SUFFICES ASSUME k > Len(Fitting(s, q)) PROVE FALSE
  BY LenProperties DEF Tells
<1>1. q[k] \in ToSet(q)
  BY LenProperties DEF ToSet, Tells
<1>2. q[k] \notin ToSet(Fitting(s, q))
  <2> SUFFICES ASSUME NEW j \in 1 .. Len(Fitting(s, q)), q[k] = Fitting(s, q)[j]
               PROVE  FALSE
    BY LenProperties DEF ToSet
  <2>1. j \in 1 .. Len(q) /\ q[j] = q[k] /\ j < k
    BY LenProperties DEF Tells
  <2> QED
    BY <2>1 DEF Tells
<1> QED
  BY <1>1, <1>2 DEF Dropped

(***************************************************************************)
(* What a subscriber knows, of a view v, a channel c and the panes x it    *)
(* missed an event of, when l has the statuses last seen.                  *)
(***************************************************************************)

\* It has been told, or will be, of every pane it missed no event of.
KnowsAll(v, c, x, l) == \A p \in Pane \ x : Heard(v, c, Len(c), p) = l[p]

\* No event on its way repeats what it knows by then.
NoEchoes(v, c, x) ==
    \A k \in 1 .. Len(c) :
        c[k].pane \notin x => c[k].state # Heard(v, c, k - 1, c[k].pane)

\* Taking an event from the channel changes neither.
LEMMA TakingKeeps ==
  ASSUME NEW v \in [Pane -> Status \cup {None}], NEW c \in Seq(Event), c # <<>>,
         NEW x, NEW l, KnowsAll(v, c, x, l), NoEchoes(v, c, x)
  PROVE  LET w == [v EXCEPT ![Head(c).pane] = Head(c).state]
         IN  KnowsAll(w, Tail(c), x, l) /\ NoEchoes(w, Tail(c), x)
<1> DEFINE w == [v EXCEPT ![Head(c).pane] = Head(c).state]
           d == Tail(c)
<1>1. /\ Len(c) \in Nat \ {0} /\ Len(d) = Len(c) - 1
      /\ \A k \in 1 .. Len(d) : d[k] = c[k + 1]
      /\ \A k \in 1 .. Len(c) : c[k] \in Event
  BY EmptySeq, HeadTailProperties, ElementOfSeq
<1>2. \A n \in 0 .. Len(c) - 1, p \in Pane : Heard(w, d, n, p) = Heard(v, c, n + 1, p)
  BY HeardOfTail
<1> HIDE DEF w, d
<1>3. KnowsAll(w, d, x, l)
  <2> SUFFICES ASSUME NEW p \in Pane \ x
               PROVE  Heard(w, d, Len(d), p) = l[p]
    BY DEF KnowsAll
  <2>1. Heard(w, d, Len(d), p) = Heard(v, c, Len(c), p)
    BY <1>1, <1>2
  <2> QED
    BY <2>1 DEF KnowsAll
<1>4. NoEchoes(w, d, x)
  <2> SUFFICES ASSUME NEW k \in 1 .. Len(d), d[k].pane \notin x
               PROVE  d[k].state # Heard(w, d, k - 1, d[k].pane)
    BY DEF NoEchoes
  <2>1. k + 1 \in 1 .. Len(c) /\ k - 1 \in 0 .. Len(c) - 1 /\ k - 1 + 1 = (k + 1) - 1
    BY <1>1
  <2>2. d[k] = c[k + 1] /\ c[k + 1].pane \in Pane
    BY <1>1, <2>1 DEF Event
  <2>3. Heard(w, d, k - 1, d[k].pane) = Heard(v, c, (k + 1) - 1, c[k + 1].pane)
    BY <1>2, <2>1, <2>2
  <2>4. c[k + 1].state # Heard(v, c, (k + 1) - 1, c[k + 1].pane)
    BY <2>1, <2>2 DEF NoEchoes
  <2> QED
    BY <2>2, <2>3, <2>4
<1> QED
  BY <1>3, <1>4 DEF w, d

\* A channel primed with every known status tells a newcomer everything.
LEMMA PrimingTells ==
  ASSUME NEW l \in [Pane -> Status \cup {None}], NEW q,
         Tells(q, l, {p \in Pane : l[p] # None})
  PROVE  KnowsAll(Nothing, q, {}, l) /\ NoEchoes(Nothing, q, {})
<1>1. q \in Seq(Event) /\ Len(q) \in Nat /\ \A k \in 1 .. Len(q) : q[k] \in Event
  BY LenProperties, ElementOfSeq DEF Tells
<1>2. \A p \in Pane : Nothing[p] = None
  BY DEF Nothing
<1>3. ASSUME NEW p \in Pane
      PROVE  Heard(Nothing, q, Len(q), p) = l[p]
  <2>1. CASE l[p] = None
    <3>1. Quiet(q, 1, Len(q), p)
      BY <2>1 DEF Tells, Quiet
    <3>2. Heard(Nothing, q, Len(q), p) = Nothing[p]
      BY <1>1, <3>1, HeardNone
    <3> QED
      BY <1>2, <2>1, <3>2
  <2>2. CASE l[p] # None
    <3>1. PICK k \in 1 .. Len(q) : q[k].pane = p
      BY <2>2 DEF Tells
    <3>2. Quiet(q, k + 1, Len(q), p)
      BY <1>1, <3>1 DEF Tells, Quiet
    <3>3. IsLast(q, k, Len(q), p)
      BY <3>1, <3>2 DEF IsLast
    <3>4. Heard(Nothing, q, Len(q), p) = q[k].state
      BY <1>1, <3>3, HeardLast
    <3> QED
      BY <3>1, <3>4 DEF Tells
  <2> QED
    BY <2>1, <2>2
<1>4. ASSUME NEW k \in 1 .. Len(q)
      PROVE  q[k].state # Heard(Nothing, q, k - 1, q[k].pane)
  <2>1. k - 1 \in Nat /\ Quiet(q, 1, k - 1, q[k].pane)
    BY <1>1 DEF Tells, Quiet
  <2>2. Heard(Nothing, q, k - 1, q[k].pane) = Nothing[q[k].pane]
    BY <2>1, HeardNone
  <2>3. q[k].pane \in Pane /\ q[k].state \in Status
    BY <1>1 DEF Event
  <2> QED
    BY <1>2, <2>2, <2>3, NoneAssumption
<1> QED
  BY <1>3, <1>4 DEF KnowsAll, NoEchoes

\* The statuses r are those of l but for some panes, where m has others.
Updates(r, l, m, A) ==
    /\ A \subseteq Pane
    /\ \A p \in A : m[p] # l[p]
    /\ \A p \in Pane : r[p] = IF p \in A THEN m[p] ELSE l[p]

\* The events f are the first of q, and those of panes outside y are among them.
SendsFirst(f, q, y) ==
    /\ f \in Seq(Event)
    /\ Len(f) <= Len(q)
    /\ \A k \in 1 .. Len(f) : f[k] = q[k]
    /\ \A k \in 1 .. Len(q) : q[k].pane \notin y => k <= Len(f)

\* Nor does a broadcast, of which the first events are sent: who missed no event
\* knows the new statuses, and none of those sent repeats the last one.
LEMMA BroadcastTells ==
  ASSUME NEW v, NEW c \in Seq(Event), NEW x, NEW l, KnowsAll(v, c, x, l), NoEchoes(v, c, x),
         NEW m, NEW A, NEW r, Updates(r, l, m, A),
         NEW q, Tells(q, m, A),
         NEW f, NEW y, x \subseteq y, SendsFirst(f, q, y)
  PROVE  KnowsAll(v, c \o f, y, r) /\ NoEchoes(v, c \o f, y)
<1> DEFINE d == c \o f
<1> USE DEF Updates, SendsFirst
<1>1. /\ Len(c) \in Nat /\ Len(f) \in Nat /\ Len(q) \in Nat
      /\ Len(d) = Len(c) + Len(f)
      /\ \A k \in 1 .. Len(c) : d[k] = c[k]
      /\ \A k \in 1 .. Len(f) : d[Len(c) + k] = q[k]
  <2>1. Len(c) \in Nat /\ Len(f) \in Nat /\ Len(q) \in Nat
    BY LenProperties DEF Tells
  <2>2. /\ Len(d) = Len(c) + Len(f)
        /\ \A i \in 1 .. Len(c) + Len(f) :
               d[i] = IF i <= Len(c) THEN c[i] ELSE f[i - Len(c)]
    BY ConcatProperties
  <2> HIDE DEF d
  <2>3. ASSUME NEW k \in 1 .. Len(c)
        PROVE  d[k] = c[k]
    BY <2>1, <2>2
  <2>4. ASSUME NEW k \in 1 .. Len(f)
        PROVE  d[Len(c) + k] = q[k]
    <3>1. Len(c) + k \in 1 .. Len(c) + Len(f) /\ (Len(c) + k) - Len(c) = k
      BY <2>1
    <3>2. d[Len(c) + k] = f[k]
      BY <2>1, <2>2, <3>1
    <3> QED
      BY <3>2
  <2> QED
    BY <2>1, <2>2, <2>3, <2>4
<1> HIDE DEF d
<1>2. \A n \in 0 .. Len(c), p \in Pane : Heard(v, d, n, p) = Heard(v, c, n, p)
  <2> SUFFICES ASSUME NEW n \in 0 .. Len(c), NEW p \in Pane
               PROVE  Heard(v, d, n, p) = Heard(v, c, n, p)
    OBVIOUS
  <2>1. n \in Nat /\ \A k \in 1 .. n : d[k] = c[k]
    BY <1>1
  <2> QED
    BY <2>1, HeardSame
<1>3. \A k \in 1 .. Len(f) : q[k].pane \in A /\ q[k].state = m[q[k].pane]
  BY <1>1 DEF Tells
<1>4. KnowsAll(v, d, y, r)
  <2> SUFFICES ASSUME NEW p \in Pane, p \notin y
               PROVE  Heard(v, d, Len(d), p) = r[p]
    BY DEF KnowsAll
  <2>1. CASE p \in A
    <3>1. PICK k \in 1 .. Len(q) : q[k].pane = p
      BY <2>1 DEF Tells
    <3>2. k \in 1 .. Len(f) /\ d[Len(c) + k] = q[k]
      BY <1>1, <3>1
    <3>3. Quiet(d, Len(c) + k + 1, Len(d), p)
      <4> SUFFICES ASSUME NEW i \in Len(c) + k + 1 .. Len(d), d[i].pane = p
                   PROVE  FALSE
        BY DEF Quiet
      <4>1. i - Len(c) \in 1 .. Len(f) /\ Len(c) + (i - Len(c)) = i /\ i - Len(c) > k
        BY <1>1, <3>2
      <4>2. d[i] = q[i - Len(c)] /\ i - Len(c) \in 1 .. Len(q)
        BY <1>1, <4>1
      <4>3. i - Len(c) = k
        BY <3>1, <4>2 DEF Tells
      <4> QED
        BY <1>1, <3>2, <4>1, <4>3
    <3>4. IsLast(d, Len(c) + k, Len(d), p) /\ Len(d) \in Nat
      BY <1>1, <3>1, <3>2, <3>3 DEF IsLast
    <3>5. Heard(v, d, Len(d), p) = d[Len(c) + k].state
      BY <3>4, HeardLast
    <3> QED
      BY <1>3, <2>1, <3>1, <3>2, <3>5
  <2>2. CASE p \notin A
    <3>1. Quiet(d, Len(c) + 1, Len(d), p)
      <4> SUFFICES ASSUME NEW i \in Len(c) + 1 .. Len(d), d[i].pane = p
                   PROVE  FALSE
        BY DEF Quiet
      <4>1. i - Len(c) \in 1 .. Len(f) /\ Len(c) + (i - Len(c)) = i
        BY <1>1
      <4>2. d[i] = q[i - Len(c)] /\ q[i - Len(c)].pane \in A
        BY <1>1, <1>3, <4>1
      <4> QED
        BY <2>2, <4>2
    <3>2. Heard(v, d, Len(d), p) = Heard(v, d, Len(c), p)
      BY <1>1, <3>1, HeardQuiet
    <3>3. Heard(v, d, Len(c), p) = Heard(v, c, Len(c), p)
      BY <1>1, <1>2
    <3>4. Heard(v, c, Len(c), p) = l[p]
      BY DEF KnowsAll
    <3> QED
      BY <2>2, <3>2, <3>3, <3>4
  <2> QED
    BY <2>1, <2>2
<1>5. NoEchoes(v, d, y)
  <2> SUFFICES ASSUME NEW k \in 1 .. Len(d), d[k].pane \notin y
               PROVE  d[k].state # Heard(v, d, k - 1, d[k].pane)
    BY DEF NoEchoes
  <2>1. CASE k <= Len(c)
    <3>1. k \in 1 .. Len(c) /\ k - 1 \in Nat /\ \A i \in 1 .. k - 1 : i \in 1 .. Len(c)
      BY <1>1, <2>1
    <3>2. d[k] = c[k] /\ \A i \in 1 .. k - 1 : d[i] = c[i]
      BY <1>1, <3>1
    <3>3. Heard(v, d, k - 1, d[k].pane) = Heard(v, c, k - 1, d[k].pane)
      BY <3>1, <3>2, HeardSame
    <3> QED
      BY <3>1, <3>2, <3>3 DEF NoEchoes
  <2>2. CASE k > Len(c)
    <3> DEFINE j == k - Len(c)
               p == q[j].pane
    <3>1. j \in 1 .. Len(f) /\ Len(c) + j = k /\ j \in 1 .. Len(q)
      BY <1>1, <2>2
    <3>2. d[k] = q[j] /\ p \in A /\ p \in Pane /\ q[j].state = m[p]
      BY <1>1, <1>3, <3>1
    <3>3. Quiet(d, Len(c) + 1, k - 1, p)
      <4> SUFFICES ASSUME NEW i \in Len(c) + 1 .. k - 1, d[i].pane = p
                   PROVE  FALSE
        BY DEF Quiet
      <4>1. /\ i - Len(c) \in 1 .. Len(f) /\ Len(c) + (i - Len(c)) = i
            /\ i - Len(c) \in 1 .. Len(q) /\ i - Len(c) # j
        BY <1>1, <3>1
      <4>2. d[i] = q[i - Len(c)]
        BY <1>1, <4>1
      <4> QED
        BY <3>1, <4>1, <4>2 DEF Tells
    <3> HIDE DEF j, p
    <3>4. k - 1 \in Nat /\ Len(c) <= k - 1
      BY <1>1, <2>2
    <3>5. Heard(v, d, k - 1, p) = Heard(v, d, Len(c), p)
      BY <1>1, <3>3, <3>4, HeardQuiet
    <3>6. Heard(v, d, Len(c), p) = Heard(v, c, Len(c), p)
      BY <1>1, <1>2, <3>2
    <3>7. Heard(v, c, Len(c), p) = l[p]
      BY <3>2 DEF KnowsAll, p
    <3> QED
      BY <3>2, <3>5, <3>6, <3>7 DEF p
  <2> QED
    BY <1>1, <2>1, <2>2
<1> QED
  BY <1>4, <1>5 DEF d

(***************************************************************************)
(* The inductive invariant of what subscribers know.                       *)
(***************************************************************************)

\* The types of the rest of the state; that ch is a function is not in TypeOK.
DataTyped ==
    /\ status \in [Pane -> Status \cup {None}]
    /\ last \in [Pane -> Status \cup {None}]
    /\ subs \in SUBSET Sub
    /\ ch \in [Sub -> Seq(Event)]
    /\ \A s \in Sub : Len(ch[s]) <= room[s]
    /\ room \in [Sub -> Buffer .. Buffer + Cardinality(Pane)]
    /\ list \in [Poller -> [Pane -> Status \cup {None}]]
    /\ view \in [Sub -> [Pane -> Status \cup {None}]]
    /\ missed \in [Sub -> SUBSET Pane]

\* Who is not subscribed knows nothing and misses nothing: it starts anew.
Away == \A s \in Sub \ (subs \ leaving) : view[s] = Nothing /\ missed[s] = {}

\* A subscriber knows the last statuses, and is sent no echo of them.
IsInformed(s) ==
    /\ KnowsAll(view[s], ch[s], missed[s], last)
    /\ NoEchoes(view[s], ch[s], missed[s])

KInv ==
    /\ DataTyped
    /\ Away
    /\ \A s \in subs \ leaving : IsInformed(s)

\* At first nobody is subscribed.
LEMMA NobodyKnows == Init => KInv
<1> SUFFICES ASSUME Init PROVE KInv
  OBVIOUS
<1>1. Cardinality(Pane) \in Nat /\ Buffer \in Nat
  BY PaneAssumption, BufferAssumption, FS_CardinalityType
<1>2. <<>> \in Seq(Event) /\ Len(<<>>) = 0
  BY EmptySeq
<1>3. Nothing \in [Pane -> Status \cup {None}]
  BY DEF Nothing
<1>4. DataTyped
  BY <1>1, <1>2, <1>3 DEF Init, DataTyped
<1>5. Away /\ subs = {}
  BY DEF Init, Away
<1> QED
  BY <1>4, <1>5 DEF KInv

\* The prime is what there is to know.
LEMMA SubscribeInforms ==
  ASSUME PollersTyped, KInv, NEW s \in Sub, subscribe(s)
  PROVE  KInv'
<1> DEFINE q == EventsOf(last, Known)
<1>1. /\ Tells(q, last, Known) /\ Len(q) <= Cardinality(Known)
      /\ Cardinality(Known) \in 0 .. Cardinality(Pane) /\ Cardinality(Pane) \in Nat
      /\ Buffer \in Nat
  <2>1. Known \in SUBSET Pane /\ \A p \in Known : last[p] # None
    BY DEF Known
  <2>2. last \in [Pane -> Status \cup {None}]
    BY DEF KInv, DataTyped
  <2> QED
    BY <2>1, <2>2, EventsOfTells, PaneAssumption, BufferAssumption, FS_CardinalityType
<1>2. q \in Seq(Event) /\ Len(q) \in Nat
  BY <1>1, LenProperties DEF Tells
<1>3. /\ ch' = [ch EXCEPT ![s] = q] /\ room' = [room EXCEPT ![s] = Cardinality(Known) + Buffer]
      /\ subs' = subs \cup {s} /\ s \notin subs
      /\ UNCHANGED <<status, last, leaving, list, view, missed>>
  BY DEF subscribe
<1> HIDE DEF q
<1>4. DataTyped'
  BY <1>1, <1>2, <1>3 DEF KInv, DataTyped
<1>5. Away'
  BY <1>3 DEF KInv, Away
<1>6. IsInformed(s)'
  <2>1. view[s] = Nothing /\ missed[s] = {}
    BY <1>3 DEF KInv, Away
  <2>2. last \in [Pane -> Status \cup {None}] /\ ch'[s] = q
    BY <1>3 DEF KInv, DataTyped
  <2>3. KnowsAll(Nothing, q, {}, last) /\ NoEchoes(Nothing, q, {})
    BY <1>1, <2>2, PrimingTells DEF Known
  <2> QED
    BY <1>3, <2>1, <2>2, <2>3 DEF IsInformed
<1>7. ASSUME NEW t \in (subs \ leaving)', t # s
      PROVE  IsInformed(t)'
  <2>1. t \in subs \ leaving /\ t \in Sub /\ ch'[t] = ch[t]
    BY <1>3, <1>7 DEF KInv, DataTyped
  <2>2. IsInformed(t)
    BY <2>1 DEF KInv
  <2> QED
    BY <1>3, <2>1, <2>2 DEF IsInformed
<1> QED
  BY <1>4, <1>5, <1>6, <1>7 DEF KInv

\* What is received is known.
LEMMA ReceiveInforms ==
  ASSUME PollersTyped, KInv, NEW s \in Sub, Receive(s)
  PROVE  KInv'
<1> DEFINE c == ch[s]
           v == view[s]
           w == [v EXCEPT ![Head(c).pane] = Head(c).state]
<1>1. /\ s \in subs \ leaving /\ c # <<>> /\ c \in Seq(Event)
      /\ v \in [Pane -> Status \cup {None}]
      /\ IsInformed(s)
  BY DEF Receive, KInv, DataTyped
<1>2. /\ Head(c) \in Event /\ Tail(c) \in Seq(Event)
      /\ Len(Tail(c)) = Len(c) - 1 /\ Len(c) \in Nat
  BY <1>1, HeadTailProperties, LenProperties
<1>3. w \in [Pane -> Status \cup {None}]
  BY <1>1, <1>2 DEF Event
<1>4. KnowsAll(w, Tail(c), missed[s], last) /\ NoEchoes(w, Tail(c), missed[s])
  <2>1. KnowsAll(v, c, missed[s], last) /\ NoEchoes(v, c, missed[s])
    BY <1>1 DEF IsInformed
  <2> HIDE DEF c, v
  <2> QED
    BY <1>1, <2>1, TakingKeeps
<1>5. view' = [view EXCEPT ![s] = w] /\ ch' = [ch EXCEPT ![s] = Tail(c)]
  BY DEF Receive
<1>6. UNCHANGED <<status, last, subs, room, leaving, list, missed>>
  BY DEF Receive, pollerVars
<1> HIDE DEF w
<1>7. DataTyped'
  BY <1>2, <1>3, <1>5, <1>6 DEF KInv, DataTyped
<1>8. Away'
  BY <1>1, <1>5, <1>6 DEF KInv, Away, DataTyped
<1>9. ASSUME NEW t \in (subs \ leaving)'
      PROVE  IsInformed(t)'
  <2>1. t \in subs \ leaving /\ t \in Sub
    BY <1>6 DEF KInv, DataTyped
  <2>2. CASE t = s
    <3>1. view'[s] = w /\ ch'[s] = Tail(c)
      BY <1>5 DEF KInv, DataTyped
    <3> QED
      BY <1>4, <1>6, <2>2, <3>1 DEF IsInformed
  <2>3. CASE t # s
    <3>1. view'[t] = view[t] /\ ch'[t] = ch[t]
      BY <1>5, <2>1, <2>3 DEF KInv, DataTyped
    <3>2. IsInformed(t)
      BY <2>1 DEF KInv
    <3> QED
      BY <1>6, <3>1, <3>2 DEF IsInformed
  <2> QED
    BY <2>2, <2>3
<1> QED
  BY <1>7, <1>8, <1>9 DEF KInv

\* Who leaves forgets.
LEMMA LeaveInforms ==
  ASSUME PollersTyped, KInv, NEW s \in Sub, Leave(s)
  PROVE  KInv'
<1>1. Cardinality(Pane) \in Nat /\ Buffer \in Nat
  BY PaneAssumption, BufferAssumption, FS_CardinalityType
<1>2. <<>> \in Seq(Event) /\ Len(<<>>) = 0
  BY EmptySeq
<1>3. Nothing \in [Pane -> Status \cup {None}]
  BY DEF Nothing
<1>4. /\ leaving' = leaving \cup {s} /\ s \in subs \ leaving
      /\ ch' = [ch EXCEPT ![s] = <<>>] /\ room' = [room EXCEPT ![s] = Buffer]
      /\ view' = [view EXCEPT ![s] = Nothing] /\ missed' = [missed EXCEPT ![s] = {}]
      /\ UNCHANGED <<status, last, subs, list>>
  BY DEF Leave, pollerVars
<1>5. DataTyped'
  BY <1>1, <1>2, <1>3, <1>4 DEF KInv, DataTyped
<1>6. Away'
  BY <1>4 DEF KInv, Away, DataTyped
<1>7. ASSUME NEW t \in (subs \ leaving)'
      PROVE  IsInformed(t)'
  <2>1. t \in subs \ leaving /\ t \in Sub /\ t # s
    BY <1>4 DEF KInv, DataTyped
  <2>2. view'[t] = view[t] /\ ch'[t] = ch[t] /\ missed'[t] = missed[t]
    BY <1>4, <2>1 DEF KInv, DataTyped
  <2>3. IsInformed(t)
    BY <2>1 DEF KInv
  <2> QED
    BY <1>4, <2>2, <2>3 DEF IsInformed
<1> QED
  BY <1>5, <1>6, <1>7 DEF KInv

\* What a broadcast does not send, or cannot, is no loss of who misses it.
LEMMA BroadcastInforms ==
  ASSUME PollersTyped, KInv, NEW g \in Poller, broadcast(g)
  PROVE  KInv'
<1> DEFINE m == list[g]
           A == Changes(g)
           q == EventsOf(m, A)
<1>1. /\ m \in [Pane -> Status \cup {None}] /\ A \in SUBSET Pane
      /\ \A p \in A : m[p] # None /\ m[p] # last[p]
  BY DEF KInv, DataTyped, Changes
<1>2. Tells(q, m, A) /\ q \in Seq(Event) /\ Len(q) \in Nat
  <2>1. Tells(q, m, A)
    <3> HIDE DEF m, A
    <3> QED
      BY <1>1, EventsOfTells
  <2> QED
    BY <2>1, LenProperties DEF Tells
<1>3. /\ last' = [p \in Pane |-> IF p \in A THEN m[p] ELSE last[p]]
      /\ ch' = [s \in Sub |-> IF s \in subs \ leaving THEN ch[s] \o Fitting(s, q) ELSE ch[s]]
      /\ missed' = [s \in Sub |-> IF s \in subs \ leaving THEN missed[s] \cup Dropped(s, q)
                                                           ELSE missed[s]]
      /\ list' = [list EXCEPT ![g] = Nothing]
      /\ UNCHANGED <<status, subs, room, leaving, view>>
  BY DEF broadcast, SendAll, PutAway
<1> HIDE DEF m, A, q
<1>4. Cardinality(Pane) \in Nat /\ Buffer \in Nat
  BY PaneAssumption, BufferAssumption, FS_CardinalityType
<1>5. ASSUME NEW s \in Sub
      PROVE  LET f == Fitting(s, q)
             IN  /\ f \in Seq(Event) /\ Len(f) \in 0 .. Len(q)
                 /\ Len(ch[s]) + Len(f) <= room[s]
                 /\ \A k \in 1 .. Len(f) : f[k] = q[k]
                 /\ \A k \in 1 .. Len(q) : q[k].pane \notin Dropped(s, q) => k <= Len(f)
                 /\ ch[s] \o f \in Seq(Event) /\ Len(ch[s] \o f) = Len(ch[s]) + Len(f)
                 /\ Dropped(s, q) \subseteq Pane
  <2> DEFINE f == Fitting(s, q)
  <2>1. ch[s] \in Seq(Event) /\ Len(ch[s]) <= room[s] /\ room[s] \in Nat
    BY <1>4 DEF KInv, DataTyped
  <2>2. /\ f \in Seq(Event) /\ Len(f) <= Len(q) /\ Len(ch[s]) + Len(f) <= room[s]
        /\ \A k \in 1 .. Len(f) : f[k] = q[k]
    BY <1>2, <2>1, FittingIsFirst
  <2>3. Len(f) \in 0 .. Len(q)
    BY <1>2, <2>2, LenProperties
  <2>4. \A k \in 1 .. Len(q) : q[k].pane \notin Dropped(s, q) => k <= Len(f)
    BY <1>2, <2>2, <2>3, RestIsDropped
  <2>5. ch[s] \o f \in Seq(Event) /\ Len(ch[s] \o f) = Len(ch[s]) + Len(f)
    <3> HIDE DEF f
    <3> QED
      BY <2>1, <2>2, ConcatProperties
  <2>6. Dropped(s, q) \subseteq Pane
    <3>1. DOMAIN q = 1 .. Len(q) /\ \A k \in 1 .. Len(q) : q[k].pane \in A
      BY <1>2, LenProperties DEF Tells
    <3>2. \A e \in ToSet(q) : e.pane \in A
      BY <3>1 DEF ToSet
    <3> QED
      BY <1>1, <3>2 DEF Dropped
  <2> QED
    BY <2>2, <2>3, <2>4, <2>5, <2>6
<1>6. DataTyped'
  <2>1. last' \in [Pane -> Status \cup {None}]
    BY <1>1, <1>3 DEF KInv, DataTyped
  <2>2. list' \in [Poller -> [Pane -> Status \cup {None}]]
    BY <1>3 DEF KInv, DataTyped, Nothing
  <2>3. ch' \in [Sub -> Seq(Event)]
    BY <1>3, <1>5 DEF KInv, DataTyped
  <2>4. missed' \in [Sub -> SUBSET Pane]
    BY <1>3, <1>5 DEF KInv, DataTyped
  <2>5. \A s \in Sub : Len(ch'[s]) <= room'[s]
    BY <1>3, <1>5 DEF KInv, DataTyped
  <2> QED
    BY <1>3, <2>1, <2>2, <2>3, <2>4, <2>5 DEF KInv, DataTyped
<1>7. Away'
  BY <1>3 DEF KInv, Away
<1>8. ASSUME NEW s \in (subs \ leaving)'
      PROVE  IsInformed(s)'
  <2> DEFINE f == Fitting(s, q)
             x == missed[s]
             y == x \cup Dropped(s, q)
             c == ch[s]
             v == view[s]
             r == last'
  <2>1. s \in subs \ leaving /\ s \in Sub
    BY <1>3 DEF KInv, DataTyped
  <2>2. view'[s] = view[s] /\ ch'[s] = c \o f /\ missed'[s] = y
    BY <1>3, <2>1
  <2>3. KnowsAll(v, c, x, last) /\ NoEchoes(v, c, x)
    BY <2>1 DEF KInv, IsInformed
  <2>4. /\ c \in Seq(Event) /\ f \in Seq(Event) /\ Len(f) <= Len(q)
        /\ \A k \in 1 .. Len(f) : f[k] = q[k]
    BY <1>2, <1>5, <2>1 DEF KInv, DataTyped
  <2>5. /\ x \subseteq y
        /\ \A k \in 1 .. Len(q) : q[k].pane \notin y => k <= Len(f)
    BY <1>5, <2>1
  <2>6. Updates(r, last, m, A)
    BY <1>1, <1>3 DEF Updates
  <2> HIDE DEF c, v, f, x, y, r
  <2>7. SendsFirst(f, q, y)
    BY <2>4, <2>5 DEF SendsFirst
  <2>8. KnowsAll(v, c \o f, y, r) /\ NoEchoes(v, c \o f, y)
    BY <1>2, <2>3, <2>4, <2>5, <2>6, <2>7, BroadcastTells
  <2> QED
    BY <2>2, <2>8 DEF IsInformed, c, v, r
<1> QED
  BY <1>6, <1>7, <1>8 DEF KInv

\* The other steps tell subscribers nothing, nor take anything from them.
LEMMA OthersInform ==
  ASSUME PollersTyped, KInv,
         \/ \E p \in Pane : StatusChanges(p)
         \/ \E s \in Sub : unsubscribe(s)
         \/ \E g \in Poller : PollLists(g) \/ Stop(g)
         \/ UNCHANGED vars
  PROVE  KInv'
<1>1. status' \in [Pane -> Status \cup {None}]
  BY DEF StatusChanges, unsubscribe, PollLists, Stop, vars, hubVars, KInv, DataTyped
<1>2. list' \in [Poller -> [Pane -> Status \cup {None}]]
  BY
     DEF StatusChanges, unsubscribe, PollLists, Stop, vars, hubVars, pollerVars, KInv,
         DataTyped
<1>3. UNCHANGED <<last, ch, room, view, missed>>
  BY DEF StatusChanges, unsubscribe, PollLists, Stop, vars, hubVars, pollerVars
<1>4. subs' \ leaving' = subs \ leaving /\ subs' \in SUBSET Sub
  BY DEF StatusChanges, unsubscribe, PollLists, Stop, vars, hubVars, KInv, DataTyped,
         PollersTyped
<1>5. DataTyped'
  BY <1>1, <1>2, <1>3, <1>4 DEF KInv, DataTyped
<1>6. Away'
  BY <1>3, <1>4 DEF KInv, Away
<1>7. ASSUME NEW s \in (subs \ leaving)'
      PROVE  IsInformed(s)'
  <2>1. s \in subs \ leaving
    BY <1>4
  <2>2. IsInformed(s)
    BY <2>1 DEF KInv
  <2> QED
    BY <1>3, <2>2 DEF IsInformed
<1> QED
  BY <1>5, <1>6, <1>7 DEF KInv

\* What every subscriber knows in every reachable state.
LEMMA Knowledge == Spec => []KInv
<1>1. ASSUME IInv, KInv, [Next]_vars
      PROVE  KInv'
  <2>1. PollersTyped
    BY <1>1 DEF IInv
  <2> QED
    BY <1>1, <2>1, SubscribeInforms, ReceiveInforms, LeaveInforms, BroadcastInforms,
       OthersInform DEF Next, run
<1> QED
  BY <1>1, NobodyKnows, Invariant, PTL DEF Spec

\* Type correctness of the hub: among it that no channel holds more than its room,
\* the size of the prime and eventBufferSize.
THEOREM Typing == Spec => []TypeOK
<1>1. PollersTyped /\ DataTyped => TypeOK
  BY DEF PollersTyped, DataTyped, TypeOK
<1>2. IInv /\ KInv => TypeOK
  BY <1>1 DEF IInv, KInv
<1> QED
  BY <1>2, Invariant, Knowledge, PTL

\* Nothing is lost between the prime, the registration and a broadcast, for any
\* number of subscribers, panes and pollers: what a subscriber was told of a pane
\* last is the last status seen, unless its full channel cost it an event.
THEOREM NothingGetsLost == Spec => []NothingIsLost
<1>1. ASSUME KInv
      PROVE  NothingIsLost
  <2> SUFFICES ASSUME NEW s \in subs \ leaving, NEW p \in Pane \ missed[s]
               PROVE  Told(s, p) = last[p]
    BY DEF NothingIsLost
  <2>1. DOMAIN ch[s] = 1 .. Len(ch[s])
    BY <1>1, LenProperties DEF KInv, DataTyped
  <2>2. Told(s, p) = Heard(view[s], ch[s], Len(ch[s]), p)
    BY <2>1 DEF Told, Heard
  <2>3. Heard(view[s], ch[s], Len(ch[s]), p) = last[p]
    BY <1>1 DEF KInv, IsInformed, KnowsAll
  <2> QED
    BY <2>2, <2>3
<1> QED
  BY <1>1, Knowledge, PTL

\* No event sent to a subscriber repeats what it knows of the pane by then, so
\* that the wait loop's clock is started again by changes only.
THEOREM EventsStayChanges == Spec => []EventsAreChanges
<1>1. ASSUME KInv
      PROVE  EventsAreChanges
  <2> SUFFICES ASSUME NEW s \in subs \ leaving, NEW k \in DOMAIN ch[s],
                      ch[s][k].pane \notin missed[s]
               PROVE  LET e == ch[s][k]
                          before == {j \in 1 .. k - 1 : ch[s][j].pane = e.pane}
                      IN  e.state # IF before = {} THEN view[s][e.pane]
                            ELSE ch[s][CHOOSE j \in before : \A i \in before : i <= j].state
    BY DEF EventsAreChanges
  <2>1. DOMAIN ch[s] = 1 .. Len(ch[s])
    BY <1>1, LenProperties DEF KInv, DataTyped
  <2>2. ch[s][k].state # Heard(view[s], ch[s], k - 1, ch[s][k].pane)
    BY <1>1, <2>1 DEF KInv, IsInformed, NoEchoes
  <2> QED
    BY <2>2 DEF Heard
<1> QED
  BY <1>1, Knowledge, PTL

=============================================================================

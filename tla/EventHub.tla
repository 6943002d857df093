------------------------------ MODULE EventHub ------------------------------
(***************************************************************************)
(* The event hub of the herdr backend (internal/exec/events.go): one       *)
(* `herdr pane list` poller shared by all subscribers, which diffs each    *)
(* list against the last statuses seen and broadcasts every change.        *)
(*                                                                         *)
(* Each critical section of hub.mu is one step.  A poller that was         *)
(* cancelled may still hold a list it was given before, and broadcast it   *)
(* after the poller that succeeds it has broadcast a newer one.            *)
(***************************************************************************)
EXTENDS Naturals, FiniteSets, SequencesExt

CONSTANTS
    Sub,       \* callers of Events; each may subscribe again after it has left
    Pane,
    Status,    \* the normalized agent statuses
    Poller,    \* identities of poller goroutines; bounds how many overlap
    Buffer,    \* eventBufferSize, 64 in the code
    None       \* no status, no poller

ASSUME BufferAssumption == Buffer \in Nat \ {0}
ASSUME PaneAssumption == IsFiniteSet(Pane)
ASSUME NoneAssumption == None \notin Status \cup Poller

VARIABLES
    status,    \* external: each pane's status now, None for no such pane
    last,      \* hub.last
    subs,      \* hub.subs
    ch,        \* each subscriber's channel
    room,      \* and its capacity
    leaving,   \* subscribers whose context is done
    current,   \* the poller hub.cancel belongs to, None for nil
    at,        \* where each poller goroutine is
    cancelled, \* pollers whose context is done
    list,      \* the list a poller has in hand: statuses of the panes there are
    view,      \* history: what each subscriber last received of each pane
    missed,    \* history: panes of which a subscriber was denied an event
    older,     \* history: for a list in hand, the pollers whose list is older
    overtaken  \* history: pollers whose list is older than one broadcast

hubVars    == <<last, subs, ch, room>>
pollerVars == <<current, at, cancelled, list, older, overtaken>>
vars == <<status, hubVars, leaving, pollerVars, view, missed>>

Event == [pane : Pane, state : Status]

TypeOK ==
    /\ status \in [Pane -> Status \cup {None}]
    /\ last \in [Pane -> Status \cup {None}]
    /\ subs \in SUBSET Sub
    /\ \A s \in Sub : ch[s] \in Seq(Event) /\ Len(ch[s]) <= room[s]
    /\ room \in [Sub -> Buffer .. Buffer + Cardinality(Pane)]
    /\ leaving \in SUBSET subs
    /\ current \in Poller \cup {None}
    /\ at \in [Poller -> {"off", "poll", "broadcast"}]
    /\ cancelled \in SUBSET Poller
    /\ list \in [Poller -> [Pane -> Status \cup {None}]]
    /\ view \in [Sub -> [Pane -> Status \cup {None}]]
    /\ missed \in [Sub -> SUBSET Pane]
    /\ older \in [Poller -> SUBSET Poller]
    /\ overtaken \in SUBSET Poller

Nothing == [p \in Pane |-> None]

Init ==
    /\ status \in [Pane -> Status \cup {None}]
    /\ last = Nothing
    /\ subs = {}
    /\ ch = [s \in Sub |-> <<>>]
    /\ room = [s \in Sub |-> Buffer]
    /\ leaving = {}
    /\ current = None
    /\ at = [g \in Poller |-> "off"]
    /\ cancelled = {}
    /\ list = [g \in Poller |-> Nothing]
    /\ view = [s \in Sub |-> Nothing]
    /\ missed = [s \in Sub |-> {}]
    /\ older = [g \in Poller |-> {}]
    /\ overtaken = {}

-----------------------------------------------------------------------------
\* Agents work, block and finish; panes come and go.
StatusChanges(p) ==
    /\ status' \in {[status EXCEPT ![p] = x] : x \in (Status \cup {None}) \ {status[p]}}
    /\ UNCHANGED <<hubVars, leaving, pollerVars, view, missed>>

\* What a map of statuses tells of its panes; Go's map order is of no matter to a
\* subscriber, which takes one event per pane from it.
EventsOf(statuses, panes) ==
    SetToSeq({[pane |-> p, state |-> statuses[p]] : p \in panes})

Known == {p \in Pane : last[p] # None}

\* Mutant: every subscription starts a poller of its own.
StartAnother ==
    \E g \in Poller :
        /\ at[g] = "off"
        /\ current' = g
        /\ at' = [at EXCEPT ![g] = "poll"]
        /\ cancelled' = cancelled \ {g}

\* The poller starts unless there is one.
startLocked ==
    IF current # None
      THEN UNCHANGED <<current, at, cancelled>>
      ELSE \E g \in Poller :
             /\ at[g] = "off"
             /\ current' = g
             /\ at' = [at EXCEPT ![g] = "poll"]
             /\ cancelled' = cancelled \ {g}

\* Mutant: a subscriber waits for changes only.
SubscribeUnprimed(s) ==
    /\ s \notin subs
    /\ ch' = [ch EXCEPT ![s] = <<>>]
    /\ room' = [room EXCEPT ![s] = Buffer]
    /\ subs' = subs \cup {s}
    /\ startLocked
    /\ UNCHANGED <<status, last, leaving, list, older, overtaken, view, missed>>

\* Prime, register and start in one critical section.  The prime always fits.
subscribe(s) ==
    /\ s \notin subs
    /\ ch' = [ch EXCEPT ![s] = EventsOf(last, Known)]
    /\ room' = [room EXCEPT ![s] = Cardinality(Known) + Buffer]
    /\ subs' = subs \cup {s}
    /\ startLocked
    /\ UNCHANGED <<status, last, leaving, list, older, overtaken, view, missed>>

\* The subscriber takes the next event from its channel.
Receive(s) ==
    /\ s \in subs \ leaving
    /\ ch[s] # <<>>
    /\ view' = [view EXCEPT ![s][Head(ch[s]).pane] = Head(ch[s]).state]
    /\ ch' = [ch EXCEPT ![s] = Tail(@)]
    /\ UNCHANGED <<status, last, subs, room, leaving, pollerVars, missed>>

\* Its context is done: it reads no more, and the hub is to learn of it.  What
\* its channel holds and is still sent is of no matter to anyone from then on.
Leave(s) ==
    /\ s \in subs \ leaving
    /\ leaving' = leaving \cup {s}
    /\ ch' = [ch EXCEPT ![s] = <<>>]
    /\ room' = [room EXCEPT ![s] = Buffer]
    /\ view' = [view EXCEPT ![s] = Nothing]
    /\ missed' = [missed EXCEPT ![s] = {}]
    /\ UNCHANGED <<status, last, subs, pollerVars>>

\* Mutant: the hub does not forget the poller it has cancelled.
UnsubscribeKeepsCancel(s) ==
    /\ s \in leaving
    /\ subs' = subs \ {s}
    /\ leaving' = leaving \ {s}
    /\ cancelled' = IF subs' = {} /\ current # None THEN cancelled \cup {current}
                                                     ELSE cancelled
    /\ UNCHANGED <<status, last, ch, room, current, at, list, older, overtaken,
                   view, missed>>

\* Mutant: whoever leaves stops the poller.
UnsubscribeStops(s) ==
    /\ s \in leaving
    /\ subs' = subs \ {s}
    /\ leaving' = leaving \ {s}
    /\ cancelled' = IF current # None THEN cancelled \cup {current} ELSE cancelled
    /\ current' = None
    /\ UNCHANGED <<status, last, ch, room, at, list, older, overtaken, view,
                   missed>>

\* Unregister, close the channel, and with the last subscriber stop the poller.
unsubscribe(s) ==
    /\ s \in leaving
    /\ subs' = subs \ {s}
    /\ leaving' = leaving \ {s}
    /\ IF subs' = {} /\ current # None
         THEN cancelled' = cancelled \cup {current} /\ current' = None
         ELSE UNCHANGED <<cancelled, current>>
    /\ UNCHANGED <<status, last, ch, room, at, list, older, overtaken, view,
                   missed>>

-----------------------------------------------------------------------------
\* A tick, and herdr answers `pane list`.  With its context done the command is
\* not even started, or killed; a poll that fails changes nothing.
PollLists(g) ==
    /\ at[g] = "poll"
    /\ g \notin cancelled
    /\ list' = [list EXCEPT ![g] = status]
    /\ at' = [at EXCEPT ![g] = "broadcast"]
    /\ older' = [older EXCEPT ![g] = {h \in Poller : at[h] = "broadcast"}]
    /\ UNCHANGED <<status, hubVars, leaving, current, cancelled, overtaken, view,
                   missed>>

\* The panes listed with a status other than the one last seen.
Changes(g) == {p \in Pane : list[g][p] \notin {None, last[p]}}

\* Mutant: every event is sent, room or not.
FittingAnyway(s, events) == events

\* Sends do not block: what finds no room in the channel is dropped.
Fitting(s, events) ==
    SubSeq(events, 1, IF Len(events) <= room[s] - Len(ch[s])
                        THEN Len(events) ELSE room[s] - Len(ch[s]))

Dropped(s, events) == {e.pane : e \in ToSet(events) \ ToSet(Fitting(s, events))}

SendAll(events) ==
    /\ ch' = [s \in Sub |-> IF s \in subs \ leaving THEN ch[s] \o Fitting(s, events)
                                                     ELSE ch[s]]
    /\ missed' = [s \in Sub |-> IF s \in subs \ leaving
                                    THEN missed[s] \cup Dropped(s, events)
                                    ELSE missed[s]]

\* The poller puts its list away.
PutAway(g) ==
    /\ at' = [at EXCEPT ![g] = "poll"]
    /\ list' = [list EXCEPT ![g] = Nothing]
    /\ older' = [h \in Poller |-> IF h = g THEN {} ELSE older[h] \ {g}]
    /\ overtaken' = (overtaken \cup older[g]) \ {g}

\* Mutant: a change is passed on but not remembered.
BroadcastForgets(g) ==
    LET events == EventsOf(list[g], Changes(g)) IN
    /\ at[g] = "broadcast"
    /\ SendAll(events)
    /\ PutAway(g)
    /\ UNCHANGED <<status, last, subs, room, leaving, current, cancelled, view>>

\* The diff, the shared map and every channel in one critical section.
broadcast(g) ==
    LET events == EventsOf(list[g], Changes(g)) IN
    /\ at[g] = "broadcast"
    /\ last' = [p \in Pane |-> IF p \in Changes(g) THEN list[g][p] ELSE last[p]]
    /\ SendAll(events)
    /\ PutAway(g)
    /\ UNCHANGED <<status, subs, room, leaving, current, cancelled, view>>

Stop(g) ==
    /\ at[g] = "poll"
    /\ g \in cancelled
    /\ at' = [at EXCEPT ![g] = "off"]
    /\ cancelled' = cancelled \ {g}
    /\ UNCHANGED <<status, hubVars, leaving, current, list, older, overtaken, view,
                   missed>>

-----------------------------------------------------------------------------
run(g) == PollLists(g) \/ broadcast(g) \/ Stop(g)

Next ==
    \/ \E p \in Pane : StatusChanges(p)
    \/ \E s \in Sub : subscribe(s) \/ Receive(s) \/ Leave(s) \/ unsubscribe(s)
    \/ \E g \in Poller : run(g)

Spec == Init /\ [][Next]_vars

(***************************************************************************)
(* Fairness: every goroutine goes on, so that a poller lists, broadcasts   *)
(* or stops in the end; polls do not fail for ever; and subscribers read   *)
(* what they are sent.                                                     *)
(***************************************************************************)
HubRuns ==
    /\ \A g \in Poller : WF_vars(run(g))
    /\ \A s \in Sub : WF_vars(Receive(s)) /\ WF_vars(unsubscribe(s))

FairSpec == Spec /\ HubRuns

-----------------------------------------------------------------------------
(***************************************************************************)
(* Properties.                                                             *)
(***************************************************************************)

\* While anyone is subscribed there is exactly one poller that goes on, the one
\* hub.cancel stops; with nobody subscribed every poller is on its way out.
OnePoller ==
    /\ {g \in Poller : at[g] # "off"} \ cancelled = {current} \ {None}
    /\ (current # None) <=> (subs # {})

\* What a subscriber has been told of a pane last, read or still in its channel.
Told(s, p) ==
    LET known == {k \in DOMAIN ch[s] : ch[s][k].pane = p}
    IN  IF known = {} THEN view[s][p] ELSE ch[s][CHOOSE k \in known : \A j \in known : j <= k].state

\* Whenever it joined, a subscriber has been told the last status seen of every
\* pane, unless its own full channel cost it an event of that pane: nothing gets
\* lost between the prime, the registration and a broadcast.
NothingIsLost ==
    \A s \in subs \ leaving : \A p \in Pane \ missed[s] : Told(s, p) = last[p]

\* Each event a subscriber receives changes what it knew of the pane: the wait
\* loop takes every event for a sign of life and starts its clock again.
EventsAreChanges ==
    \A s \in subs \ leaving : \A k \in DOMAIN ch[s] :
        LET e == ch[s][k]
            before == {j \in 1 .. k - 1 : ch[s][j].pane = e.pane}
        IN  e.pane \notin missed[s] =>
              e.state # IF before = {} THEN view[s][e.pane]
                        ELSE ch[s][CHOOSE j \in before : \A i \in before : i <= j].state

\* A list that is older than what has been broadcast is in the hands of stopped
\* pollers only, each of which has none but that one left to broadcast: it can
\* turn a status back once, and the running poller's next list corrects it.
OldListsAreLast ==
    \A g \in overtaken : g \in cancelled

\* A status a pane stays in reaches every subscriber that stays, whoever else
\* comes and goes, whether the poller was stopped, started or is overtaken,
\* unless the subscriber's channel was full for it. (Subscribers are
\* interchangeable, and so are panes and statuses: one of each will do.)
StatusArrives ==
    LET s == CHOOSE s \in Sub : TRUE
        p == CHOOSE p \in Pane : TRUE
        x == CHOOSE x \in Status : TRUE
    IN  s \in subs /\ status[p] = x ~>
            s \notin subs \ leaving \/ status[p] # x \/ view[s][p] = x \/ p \in missed[s]

=============================================================================

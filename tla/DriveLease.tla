----------------------------- MODULE DriveLease -----------------------------
(***************************************************************************)
(* What the scheduler promises about one issue, whatever queue, pool and   *)
(* control commands stand behind it: an issue is leased to one drive at a  *)
(* time, its task changes only under a lease whose drive runs, and a       *)
(* finished task is never leased again.                                    *)
(***************************************************************************)
CONSTANT Issue
VARIABLES lease, store

Init ==
    /\ lease = [i \in Issue |-> "free"]
    /\ store \in [Issue -> {"none", "open", "stopped", "finished"}]

Claim(i) ==
    /\ lease[i] = "free"
    /\ store[i] # "finished"
    /\ lease' = [lease EXCEPT ![i] = "claimed"]
    /\ UNCHANGED store

\* A claim the work channel has no room for.
GiveBack(i) ==
    /\ lease[i] = "claimed"
    /\ lease' = [lease EXCEPT ![i] = "free"]
    /\ UNCHANGED store

Start(i) ==
    /\ lease[i] = "claimed"
    /\ lease' = [lease EXCEPT ![i] = "armed"]
    /\ UNCHANGED store

\* A drive takes up a task (a new one, or a stopped one that starts over) or
\* settles the one it has taken up.
Drive(i) ==
    /\ lease[i] = "armed"
    /\ \/ /\ store[i] \in {"none", "stopped"}
          /\ store' = [store EXCEPT ![i] = "open"]
       \/ /\ store[i] = "open"
          /\ \E d \in {"stopped", "finished"} : store' = [store EXCEPT ![i] = d]
    /\ UNCHANGED lease

End(i) ==
    /\ lease[i] = "armed"
    /\ lease' = [lease EXCEPT ![i] = "free"]
    /\ UNCHANGED store

Next == \E i \in Issue : Claim(i) \/ GiveBack(i) \/ Start(i) \/ Drive(i) \/ End(i)

Spec == Init /\ [][Next]_<<lease, store>>
=============================================================================

--------------------------- MODULE DispatchService ---------------------------
(***************************************************************************)
(* What the packet processor promises, with no threads, locks or calls in  *)
(* it: packets are accepted for a worker while the service is open, each   *)
(* once; every worker completes what it accepted, in order and eventually; *)
(* and the service closes only when nothing it accepted is unfinished.     *)
(***************************************************************************)
EXTENDS Naturals, Sequences

CONSTANTS Workers, Packets

VARIABLES
    open,       \* does the service accept packets?
    accepted,   \* the packets accepted for each worker, in order
    completed   \* how many of them each worker has completed

vars == <<open, accepted, completed>>

Init ==
    /\ open = FALSE
    /\ accepted = [w \in Workers |-> <<>>]
    /\ completed = [w \in Workers |-> 0]

Open ==
    /\ ~open
    /\ open' = TRUE
    /\ UNCHANGED <<accepted, completed>>

Accept(w, p) ==
    /\ open
    /\ \A v \in Workers : \A i \in 1..Len(accepted[v]) : accepted[v][i] # p
    /\ accepted' = [accepted EXCEPT ![w] = Append(@, p)]
    /\ UNCHANGED <<open, completed>>

Complete(w) ==
    /\ completed[w] < Len(accepted[w])
    /\ completed' = [completed EXCEPT ![w] = @ + 1]
    /\ UNCHANGED <<open, accepted>>

Close ==
    /\ open
    /\ \A w \in Workers : completed[w] = Len(accepted[w])
    /\ open' = FALSE
    /\ UNCHANGED <<accepted, completed>>

Next ==
    \/ Open
    \/ Close
    \/ \E w \in Workers : Complete(w) \/ \E p \in Packets : Accept(w, p)

Safety == Init /\ [][Next]_vars

Spec ==
    /\ Safety
    /\ \A w \in Workers : WF_vars(Complete(w))
=============================================================================

------------------------------ MODULE History ------------------------------
(***************************************************************************)
(* What the repository promises its callers about the history of a run,    *)
(* with no file, lock or projection: a call is admitted while the history  *)
(* is open, an admitted call adds at most one entry at the end, and once   *)
(* an entry closes the history only the calls admitted before can still    *)
(* add one.  EventLog implements it.                                       *)
(***************************************************************************)
EXTENDS Sequences

CONSTANTS
    Procs,     \* processes that call the repository
    Runs,      \* research runs, each with a history of its own
    Kinds,     \* kinds of entries
    Closing,   \* the kind that closes a history
    Nobody     \* stands for "no run" and "no process"

VARIABLES
    history,   \* history[r]: the entries of run r, each with its writer and its kind
    admitted   \* admitted[p]: the run p may add an entry to, or Nobody

vars == <<history, admitted>>

Entries == [by : Procs, kind : Kinds]

Closed(r) == \E i \in DOMAIN history[r] : history[r][i].kind = Closing

Init ==
    /\ \E first \in [Runs -> Entries] :
           /\ \A r \in Runs : first[r].kind # Closing
           /\ history = [r \in Runs |-> <<first[r]>>]
    /\ admitted = [p \in Procs |-> Nobody]

\* A call looks at the history and finds it open.
Admit(p, r) ==
    /\ admitted[p] = Nobody
    /\ ~Closed(r)
    /\ admitted' = [admitted EXCEPT ![p] = r]
    /\ UNCHANGED history

\* An admitted call adds its entry, whatever the history has become since.
Commit(p, kind) ==
    /\ admitted[p] # Nobody
    /\ history' = [history EXCEPT ![admitted[p]] = Append(@, [by |-> p, kind |-> kind])]
    /\ admitted' = [admitted EXCEPT ![p] = Nobody]

\* An admitted call ends without an entry: it raised, or its process died.
Withdraw(p) ==
    /\ admitted[p] # Nobody
    /\ admitted' = [admitted EXCEPT ![p] = Nobody]
    /\ UNCHANGED history

Next ==
    \E p \in Procs :
        \/ \E r \in Runs : Admit(p, r)
        \/ \E k \in Kinds : Commit(p, k)
        \/ Withdraw(p)

Spec == Init /\ [][Next]_vars

=============================================================================

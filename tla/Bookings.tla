------------------------------ MODULE Bookings ------------------------------
(***************************************************************************)
(* What the resource scheduler promises its callers, with no file, lock or *)
(* process number: a booking is made in one step, beside what the others   *)
(* have booked and within the limits; it stands until its holder gives it  *)
(* back; one whose holder is gone may still count and is cleared some time. *)
(* ResourceScheduler implements it.                                        *)
(***************************************************************************)
EXTENDS Integers, FiniteSets, Functions

CONSTANTS
    Pids,        \* controllers
    Estimates,   \* what a booking may be for
    Limits,      \* the capacities
    Tokens,      \* names of bookings
    NoToken      \* not one of them

VARIABLES
    booked,   \* the bookings that count: an estimate by token
    holds     \* holds[p]: the token of p's booking, or NoToken

vars == <<booked, holds>>

Sum(field) == SumFunctionOnSet([t \in DOMAIN booked |-> booked[t][field]], DOMAIN booked)
Number(field) == Cardinality({t \in DOMAIN booked : booked[t][field]})

\* What is booked at a time is within every limit.
Within ==
    /\ Sum("memory") <= Limits.memory
    /\ Sum("cores") <= Limits.cores
    /\ Sum("gpu") <= Limits.gpu
    /\ Number("heavy") <= Limits.heavy
    /\ Cardinality(DOMAIN booked) - Number("heavy") <= Limits.light
    /\ Number("scan") <= Limits.scans

\* What may be left once some of the bookings nobody holds are cleared.
Remainders == {kept \in SUBSET DOMAIN booked : \A p \in Pids : holds[p] # NoToken => holds[p] \in kept}

Init ==
    /\ booked = <<>>
    /\ holds = [p \in Pids |-> NoToken]

\* A booking under a new name, which leaves what is booked within the limits.
Book(p, e) ==
    /\ holds[p] = NoToken
    /\ \E t \in Tokens \ DOMAIN booked :
           /\ holds' = [holds EXCEPT ![p] = t]
           /\ \E kept \in Remainders :
                  booked' = [u \in kept \cup {t} |-> IF u = t THEN e ELSE booked[u]]
    /\ Within'

GiveBack(p) ==
    /\ holds[p] # NoToken
    /\ holds' = [holds EXCEPT ![p] = NoToken]
    /\ \E kept \in Remainders : booked' = Restrict(booked, kept \ {holds[p]})

\* The holder goes, and leaves its booking behind.
Abandon(p) ==
    /\ holds[p] # NoToken
    /\ holds' = [holds EXCEPT ![p] = NoToken]
    /\ UNCHANGED booked

Clear ==
    /\ UNCHANGED holds
    /\ \E kept \in Remainders : booked' = Restrict(booked, kept)

Next ==
    \/ \E p \in Pids :
           \/ \E e \in Estimates : Book(p, e)
           \/ GiveBack(p) \/ Abandon(p)
    \/ Clear

Spec == Init /\ [][Next]_vars

=============================================================================

------------------------ MODULE MCResourceScheduler ------------------------
(***************************************************************************)
(* ResourceScheduler for TLC: a light estimate, a heavy one and a full     *)
(* scan on a machine where memory, cores, the heavy limit and the light    *)
(* one each refuse something the others admit.                             *)
(***************************************************************************)
EXTENDS ResourceScheduler, TLC

MCEstimates ==
    {[memory |-> 1, cores |-> 1, gpu |-> 0, heavy |-> FALSE, scan |-> FALSE],
     [memory |-> 2, cores |-> 1, gpu |-> 1, heavy |-> TRUE, scan |-> FALSE],
     [memory |-> 1, cores |-> 2, gpu |-> 0, heavy |-> TRUE, scan |-> TRUE]}

MCLimits == [memory |-> 3, cores |-> 3, gpu |-> 1, heavy |-> 1, light |-> 2, scans |-> 1]

AnyPid == Permutations(Pids)

=============================================================================

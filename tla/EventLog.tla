------------------------------ MODULE EventLog ------------------------------
(***************************************************************************)
(* The event logs of several runs and the one projection over all of them  *)
(* (storage/), called by several processes at once.                        *)
(*                                                                         *)
(* ResearchRepository.append is not one step: it reads the whole log to    *)
(* refuse a finalized run, takes the file's lock, reads the last line,     *)
(* writes the next one, releases the lock, and only then updates the       *)
(* projection.  Between any two of these another process may take steps of *)
(* its own and this one may die; the operating system then releases the    *)
(* lock it held.  A write cut short leaves a line no reader can parse, or  *)
(* a whole line without its newline.                                       *)
(***************************************************************************)
EXTENDS Integers, Sequences, FiniteSets

CONSTANTS
    Procs,       \* processes with a repository open on the same files
    Runs,        \* research runs
    Nobody,      \* not a process, not a run
    MaxEvents,   \* bound: no call begins on run r with MaxEvents[r] events in its log
    MaxReplays,  \* bound: calls of replay
    MaxCrashes   \* bound: deaths of a process inside a call

ASSUME NobodyAssumption == Nobody \notin Procs \cup Runs
ASSUME BoundAssumption == MaxEvents \in [Runs -> Nat] /\ MaxReplays \in Nat /\ MaxCrashes \in Nat

\* The event types the repository and the projection tell apart.
Kinds == {"created", "moved", "evidence", "posterior", "violation", "completed", "finalized"}

\* A call of the controller as the events it appends, one append each: a
\* posterior update, a violation, or finalize.
Calls == {<<"evidence", "posterior">>, <<"violation">>, <<"moved", "completed", "finalized">>}

VARIABLES
    \* the files
    log,       \* log[r]: the envelopes in events.jsonl, in order
    ending,    \* how the last line of log[r] ends: "newline", "bare" or "torn"
    lock,      \* lock[r]: the process that holds the exclusive lock, or Nobody
    shown,     \* pairs <<r, i>> in the table projected_events
    status,    \* status[r]: the status column of the runs table, "absent" without a row
    version,   \* version[r]: how often the posterior moved the world of r in the projection
    \* the processes
    pc,
    run,       \* run[p]: the run p works on
    todo,      \* todo[p]: kinds of the events p still has to append
    prior,     \* prior[p]: the last envelope as p read it under the lock
    due,       \* due[p]: places in the log of run[p] that p still has to project
    \* for the properties only
    solo,      \* the process that took every step since its replay read the log, or Nobody
    \* counters for the bounds
    replays,   \* calls of replay so far
    crashes    \* how often a process died inside a call

files == <<log, ending, lock>>
tables == <<shown, status, version>>
procs == <<pc, run, todo, prior, due>>
vars == <<log, ending, lock, shown, status, version, pc, run, todo, prior, due, solo, replays, crashes>>

-----------------------------------------------------------------------------
\* Envelopes.

\* The hash of an envelope, which covers all of its fields.
Digest(e) == <<e.seq, e.by, e.kind>>
NoDigest == <<>>

Envelopes == [seq : Nat \ {0}, by : Procs, kind : Kinds,
              previous : {NoDigest} \cup (Nat \X Procs \X Kinds)]

\* The envelope append builds after the line it read last.
NextEnvelope(last, p, kind) ==
    [seq |-> last.seq + 1, by |-> p, kind |-> kind, previous |-> Digest(last)]

\* JsonlEventStore.verify.
Verified(events) ==
    \A i \in DOMAIN events :
        /\ events[i].seq = i
        /\ events[i].previous = IF i = 1 THEN NoDigest ELSE Digest(events[i - 1])

\* What read_all accepts: every line parses, and the chain holds.
Readable(r) == ending[r] # "torn" /\ Verified(log[r])

Finalized(r) == \E i \in DOMAIN log[r] : log[r][i].kind = "finalized"

\* finalize is refused once the run has been moved to finalizing.
MayFinalize(r) == \A i \in DOMAIN log[r] : log[r][i].kind # "moved"

-----------------------------------------------------------------------------
\* The projection.

\* Slip: RUN_FINALIZED writes its phase into the status column.
StatusAfterPhase(s, kind) ==
    CASE kind = "created" -> "running"
      [] s # "absent" /\ kind = "moved" -> "running"
      [] s # "absent" /\ kind = "violation" -> "blocked"
      [] s # "absent" /\ kind = "completed" -> "completed"
      [] s # "absent" /\ kind = "finalized" -> "finalized"
      [] OTHER -> s

StatusAfter(s, kind) ==
    CASE kind = "created" -> "running"
      [] s # "absent" /\ kind = "moved" -> "running"
      [] s # "absent" /\ kind = "violation" -> "blocked"
      [] s # "absent" /\ kind \in {"completed", "finalized"} -> "completed"
      [] OTHER -> s

\* Slip: INSERT OR REPLACE, and no return for an event already projected.
AppliedAgain(r, i) ==
    /\ shown' = shown \cup {<<r, i>>}
    /\ status' = [status EXCEPT ![r] = StatusAfter(@, log[r][i].kind)]
    /\ version' = IF log[r][i].kind = "posterior" /\ status[r] # "absent"
                  THEN [version EXCEPT ![r] = @ + 1]
                  ELSE version

\* SqliteProjection.apply: one transaction, which does nothing for an event the
\* table already holds.
Applied(r, i) ==
    IF <<r, i>> \in shown
    THEN UNCHANGED tables
    ELSE /\ shown' = shown \cup {<<r, i>>}
         /\ status' = [status EXCEPT ![r] = StatusAfter(@, log[r][i].kind)]
         /\ version' = IF log[r][i].kind = "posterior" /\ status[r] # "absent"
                       THEN [version EXCEPT ![r] = @ + 1]
                       ELSE version

-----------------------------------------------------------------------------
\* A step of p, for solo.
Witness(p) == solo' = IF solo = p THEN p ELSE Nobody

Idle(p) ==
    /\ pc' = [pc EXCEPT ![p] = "idle"]
    /\ run' = [run EXCEPT ![p] = Nobody]
    /\ todo' = [todo EXCEPT ![p] = <<>>]
    /\ prior' = [prior EXCEPT ![p] = Nobody]
    /\ due' = [due EXCEPT ![p] = <<>>]

\* A caller starts an operation on r.  What the operation validates it reads now.
Begin(p, r, call) ==
    /\ pc[p] = "idle"
    /\ Len(log[r]) < MaxEvents[r]
    /\ lock[r] = Nobody
    /\ Readable(r)
    /\ "finalized" \in {call[i] : i \in DOMAIN call} => MayFinalize(r)
    /\ pc' = [pc EXCEPT ![p] = "check"]
    /\ run' = [run EXCEPT ![p] = r]
    /\ todo' = [todo EXCEPT ![p] = call]
    /\ solo' = Nobody
    /\ UNCHANGED <<files, tables, prior, due, replays, crashes>>

\* Slip: append without the finalized check.
CheckNothing(p) ==
    /\ pc[p] = "check"
    /\ lock[run[p]] = Nobody
    /\ Readable(run[p])
    /\ pc' = [pc EXCEPT ![p] = "lock"]
    /\ Witness(p)
    /\ UNCHANGED <<files, tables, run, todo, prior, due, replays, crashes>>

\* ResearchRepository.append reads the log, finds no RUN_FINALIZED ...
CheckOpen(p) ==
    /\ pc[p] = "check"
    /\ lock[run[p]] = Nobody
    /\ Readable(run[p])
    /\ ~Finalized(run[p])
    /\ pc' = [pc EXCEPT ![p] = "lock"]
    /\ Witness(p)
    /\ UNCHANGED <<files, tables, run, todo, prior, due, replays, crashes>>

\* ... or raises: the run is finalized, or the log cannot be read.
Refuse(p) ==
    /\ pc[p] = "check"
    /\ lock[run[p]] = Nobody
    /\ ~Readable(run[p]) \/ Finalized(run[p])
    /\ Idle(p)
    /\ Witness(p)
    /\ UNCHANGED <<files, tables, replays, crashes>>

\* Slip: append without taking the exclusive lock.
LockWithoutWaiting(p) ==
    /\ pc[p] = "lock"
    /\ ending[run[p]] # "torn"
    /\ prior' = [prior EXCEPT ![p] = log[run[p]][Len(log[run[p]])]]
    /\ pc' = [pc EXCEPT ![p] = "write"]
    /\ Witness(p)
    /\ UNCHANGED <<files, tables, run, todo, due, replays, crashes>>

\* append waits for the exclusive lock and parses the last line, and only that one.
Lock(p) ==
    /\ pc[p] = "lock"
    /\ lock[run[p]] = Nobody
    /\ ending[run[p]] # "torn"
    /\ lock' = [lock EXCEPT ![run[p]] = p]
    /\ prior' = [prior EXCEPT ![p] = log[run[p]][Len(log[run[p]])]]
    /\ pc' = [pc EXCEPT ![p] = "write"]
    /\ Witness(p)
    /\ UNCHANGED <<log, ending, tables, run, todo, due, replays, crashes>>

\* The last line does not parse: append raises, and lets go of the lock on its way out.
TailUnreadable(p) ==
    /\ pc[p] = "lock"
    /\ lock[run[p]] = Nobody
    /\ ending[run[p]] = "torn"
    /\ Idle(p)
    /\ Witness(p)
    /\ UNCHANGED <<files, tables, replays, crashes>>

\* Slip: the file, and with it the lock, is kept after the write.
WriteKeepsLock(p) ==
    LET r == run[p]
    IN  /\ pc[p] = "write"
        /\ log' = [log EXCEPT ![r] = Append(@, NextEnvelope(prior[p], p, Head(todo[p])))]
        /\ ending' = [ending EXCEPT ![r] = IF @ = "newline" THEN @ ELSE "torn"]
        /\ pc' = [pc EXCEPT ![p] = "apply"]
        /\ todo' = [todo EXCEPT ![p] = Tail(@)]
        /\ prior' = [prior EXCEPT ![p] = Nobody]
        /\ due' = [due EXCEPT ![p] = <<Len(log[r]) + 1>>]
        /\ Witness(p)
        /\ UNCHANGED <<lock, tables, run, replays, crashes>>

\* Write, flush, fsync, unlock.  After a line without its newline the two
\* envelopes share one line, which no longer parses.
Write(p) ==
    LET r == run[p]
    IN  /\ pc[p] = "write"
        /\ log' = [log EXCEPT ![r] = Append(@, NextEnvelope(prior[p], p, Head(todo[p])))]
        /\ ending' = [ending EXCEPT ![r] = IF @ = "newline" THEN @ ELSE "torn"]
        /\ lock' = [lock EXCEPT ![r] = Nobody]
        /\ pc' = [pc EXCEPT ![p] = "apply"]
        /\ todo' = [todo EXCEPT ![p] = Tail(@)]
        /\ prior' = [prior EXCEPT ![p] = Nobody]
        /\ due' = [due EXCEPT ![p] = <<Len(log[r]) + 1>>]
        /\ Witness(p)
        /\ UNCHANGED <<tables, run, replays, crashes>>

\* Where p stands after projecting an event: more of a replay, the next append of
\* its call, or the end.
AfterApply(p, next) ==
    IF Len(due[p]) > 1 THEN "apply" ELSE IF todo[p] # <<>> THEN next ELSE "idle"

\* Slip: the finalized check made once per operation and not before each append.
ApplyAndGoOn(p) ==
    /\ pc[p] = "apply"
    /\ Applied(run[p], Head(due[p]))
    /\ due' = [due EXCEPT ![p] = Tail(@)]
    /\ pc' = [pc EXCEPT ![p] = AfterApply(p, "lock")]
    /\ run' = [run EXCEPT ![p] = IF AfterApply(p, "lock") = "idle" THEN Nobody ELSE @]
    /\ Witness(p)
    /\ UNCHANGED <<files, todo, prior, replays, crashes>>

\* One event reaches the projection.  The last one ends the append; a call with
\* events left goes on to the next append.
Apply(p) ==
    /\ pc[p] = "apply"
    /\ Applied(run[p], Head(due[p]))
    /\ due' = [due EXCEPT ![p] = Tail(@)]
    /\ pc' = [pc EXCEPT ![p] = AfterApply(p, "check")]
    /\ run' = [run EXCEPT ![p] = IF AfterApply(p, "check") = "idle" THEN Nobody ELSE @]
    /\ Witness(p)
    /\ UNCHANGED <<files, todo, prior, replays, crashes>>

\* ResearchRepository.replay reads the log of one run ...
Replay(p, r) ==
    /\ pc[p] = "idle"
    /\ lock[r] = Nobody
    /\ Readable(r)
    /\ pc' = [pc EXCEPT ![p] = "wipe"]
    /\ run' = [run EXCEPT ![p] = r]
    /\ due' = [due EXCEPT ![p] = [i \in 1..Len(log[r]) |-> i]]
    /\ replays < MaxReplays
    /\ replays' = replays + 1
    /\ solo' = p
    /\ UNCHANGED <<files, tables, todo, prior, crashes>>

\* Slip: rebuild without emptying the tables first.
WipeNothing(p) ==
    /\ pc[p] = "wipe"
    /\ pc' = [pc EXCEPT ![p] = "apply"]
    /\ Witness(p)
    /\ UNCHANGED <<files, tables, run, todo, prior, due, replays, crashes>>

\* ... rebuild empties every table, for all runs, and then applies what was read.
Wipe(p) ==
    /\ pc[p] = "wipe"
    /\ shown' = {}
    /\ status' = [r \in Runs |-> "absent"]
    /\ version' = [r \in Runs |-> 0]
    /\ pc' = [pc EXCEPT ![p] = "apply"]
    /\ Witness(p)
    /\ UNCHANGED <<files, run, todo, prior, due, replays, crashes>>

\* What a process that dies while it writes leaves behind: nothing, part of a
\* line, or the line without its newline.
CutShort(p, r) ==
    \/ UNCHANGED <<log, ending>>
    \/ /\ ending' = [ending EXCEPT ![r] = "torn"]
       /\ UNCHANGED log
    \/ /\ ending[r] = "newline"
       /\ log' = [log EXCEPT ![r] = Append(@, NextEnvelope(prior[p], p, Head(todo[p])))]
       /\ ending' = [ending EXCEPT ![r] = "bare"]

\* A process dies inside a call; the kernel drops its lock.
Crash(p) ==
    /\ crashes < MaxCrashes
    /\ pc[p] # "idle"
    /\ IF pc[p] = "write" THEN CutShort(p, run[p]) ELSE UNCHANGED <<log, ending>>
    /\ lock' = [r \in Runs |-> IF lock[r] = p THEN Nobody ELSE lock[r]]
    /\ crashes' = crashes + 1
    /\ Idle(p)
    /\ solo' = Nobody
    /\ UNCHANGED <<tables, replays>>

-----------------------------------------------------------------------------
\* Every run has been created, and its RUN_CREATED has been projected.
Init ==
    /\ \E by \in Procs :
           log = [r \in Runs |-> <<[seq |-> 1, by |-> by, kind |-> "created", previous |-> NoDigest]>>]
    /\ ending = [r \in Runs |-> "newline"]
    /\ lock = [r \in Runs |-> Nobody]
    /\ shown = {<<r, 1>> : r \in Runs}
    /\ status = [r \in Runs |-> "running"]
    /\ version = [r \in Runs |-> 0]
    /\ pc = [p \in Procs |-> "idle"]
    /\ run = [p \in Procs |-> Nobody]
    /\ todo = [p \in Procs |-> <<>>]
    /\ prior = [p \in Procs |-> Nobody]
    /\ due = [p \in Procs |-> <<>>]
    /\ solo = Nobody
    /\ replays = 0
    /\ crashes = 0

\* The steps of a call under way, which its process goes on taking.
Step(p) ==
    \/ CheckOpen(p) \/ Refuse(p)
    \/ Lock(p) \/ TailUnreadable(p) \/ Write(p)
    \/ Wipe(p) \/ Apply(p)

Next ==
    \E p \in Procs :
        \/ \E r \in Runs, call \in Calls : Begin(p, r, call)
        \/ \E r \in Runs : Replay(p, r)
        \/ Step(p)
        \/ Crash(p)

\* A process runs on until its call returns, and the lock is handed to everyone
\* who keeps asking for it; nobody has to start a call.
Spec == Init /\ [][Next]_vars /\ \A p \in Procs : SF_vars(Step(p))

-----------------------------------------------------------------------------
\* Properties.

TypeOK ==
    /\ log \in [Runs -> Seq(Envelopes)]
    /\ ending \in [Runs -> {"newline", "bare", "torn"}]
    /\ lock \in [Runs -> Procs \cup {Nobody}]
    /\ shown \subseteq Runs \X (Nat \ {0})
    /\ status \in [Runs -> {"absent", "running", "blocked", "completed"}]
    /\ version \in [Runs -> Nat]
    /\ pc \in [Procs -> {"idle", "check", "lock", "write", "wipe", "apply"}]
    /\ run \in [Procs -> Runs \cup {Nobody}]
    /\ todo \in [Procs -> Seq(Kinds)]
    /\ prior \in [Procs -> Envelopes \cup {Nobody}]
    /\ due \in [Procs -> Seq(Nat \ {0})]
    /\ solo \in Procs \cup {Nobody}
    /\ replays \in Nat
    /\ crashes \in Nat

\* Whatever the interleaving and whoever dies, the envelopes of a run form one
\* unbroken chain: no place is given out twice, none is skipped, and each names
\* the one before it, although the writer verified the log before it took the
\* lock and only looks at the last line after.
ChainIntact == \A r \in Runs : Verified(log[r])

\* "makes the event history terminal" (README.md), as far as it is so: after
\* RUN_FINALIZED a process adds at most one event, the one it was admitted for
\* before, and the process that finalized the run adds none.
TerminalUpToRaces ==
    \A r \in Runs : \A i, j \in DOMAIN log[r] :
        (i < j /\ \E f \in 1..i : log[r][f].kind = "finalized")
            => log[r][i].by # log[r][j].by

\* The events that move the posterior count at most once each in the projection,
\* although the writer of an event and any number of replays may apply it.
PosteriorMovedOnce ==
    \A r \in Runs :
        version[r] <= Cardinality({i \in DOMAIN log[r] :
                                       <<r, i>> \in shown /\ log[r][i].kind = "posterior"})

\* The status a run should show: the one its last status-bearing event gives.
Bearing == {"created", "moved", "violation", "completed", "finalized"}
LoggedStatus(r) ==
    LET bearing == {i \in DOMAIN log[r] : log[r][i].kind \in Bearing}
        last == CHOOSE i \in bearing : \A j \in bearing : j <= i
    IN  StatusAfter("running", log[r][last].kind)

\* Whatever order the processes applied their events in, a replay during which no
\* other process takes a step leaves the projection of its run as the log has it.
ReplayPutsRight ==
    [][\A p \in Procs :
           (solo = p /\ solo' = p /\ pc[p] = "apply" /\ pc'[p] = "idle")
               => /\ status'[run[p]] = LoggedStatus(run[p])
                  /\ \A i \in DOMAIN log[run[p]] : <<run[p], i>> \in shown']_vars

\* Every call comes back: it returns or raises, whatever line another process
\* left behind and wherever that process died.
EveryCallEnds == \A p \in Procs : pc[p] # "idle" ~> pc[p] = "idle"

\* The history the files hold, and the calls that may still write to it.
Histories == [r \in Runs |-> [i \in DOMAIN log[r] |->
                  [by |-> log[r][i].by, kind |-> log[r][i].kind]]]
Admissions == [p \in Procs |-> IF pc[p] \in {"lock", "write"} THEN run[p] ELSE Nobody]
Promised == INSTANCE History WITH history <- Histories, admitted <- Admissions,
                                  Closing <- "finalized"

\* The files, the lock and the interleavings implement the promise of History.
ImplementsHistory == Promised!Spec

=============================================================================

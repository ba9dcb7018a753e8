---------------------------- MODULE Submissions ----------------------------
(***************************************************************************)
(* Submissions to Kaggle: `erlctl kaggle submit` and `reconcile` (cli.py), *)
(* run by several processes on one submission ledger and one sealed store. *)
(*                                                                         *)
(* The ledger is not locked between a check and the record it permits: the *)
(* daily cap and the duplicate guard are read before the upload, and the   *)
(* spend is recorded after it.  A process may die between any two steps.   *)
(* Kaggle itself is external: it accepts a file, scores it later, and      *)
(* lists its rows newest first; a list may be read before it shows the     *)
(* newest rows.  Which number its client prints is anybody's guess.        *)
(***************************************************************************)
EXTENDS Integers, Sequences, FiniteSets, Functions, Bags

CONSTANTS
    Procs,          \* processes running erlctl
    Reconcilers,    \* bound: the ones among them that run reconcile
    Files,          \* artifacts with different bytes
    NoFile,         \* a row or record whose bytes nobody hashed
    Strays,         \* long numbers the client may print that are not the new row's reference
    DailyCap,       \* --daily-cap
    MaxRows,        \* bound: submissions Kaggle receives
    MaxDays,        \* bound: days, by the UTC calendar
    MaxReconciled,  \* bound: rows accounted for when the last reconciliation starts
    MaxCrashes      \* bound: deaths of a process inside a command

ASSUME ProcsAssumption == IsFiniteSet(Procs) /\ Procs # {}
ASSUME CapAssumption == DailyCap \in Nat \ {0}
ASSUME FileAssumption == NoFile \notin Files /\ Files \cap Int = {}
ASSUME StrayAssumption == Strays \subseteq Nat \ {0}
ASSUME BoundAssumption ==
    /\ Reconcilers \subseteq Procs /\ MaxRows \in Nat /\ MaxDays \in Nat \ {0}
    /\ MaxReconciled \in Nat /\ MaxCrashes \in Nat

\* A row is known by its place in Kaggle's list, which is its reference.  A stray number
\* may be that of another row, of a row still to come, or of none.
NoRef == 0
Rows == 1..MaxRows
Numbers == Rows \cup Strays

VARIABLES
    day,         \* today
    kaggle,      \* Kaggle's rows, oldest first: the file and the day of its arrival
    ledger,      \* the records of kaggle-submissions.jsonl, as a bag: no reader looks at their order
    sealed,      \* the sealed store: pairs <<score id, row whose score it holds>>
    pc,
    job,         \* job[p]: what the command of p holds in memory
    crashes,
    lost,        \* rows whose process died before it recorded them
    reconciled,  \* rows Kaggle listed to a reconciliation that ran to its end
    doubtful     \* numbers printed for another row than their own, or awaited on a list without it

shared == <<day, kaggle, ledger, sealed>>
noted == <<lost, reconciled, doubtful>>  \* for the properties: no command depends on them
vars == <<day, kaggle, ledger, sealed, pc, job, crashes, lost, reconciled, doubtful>>

-----------------------------------------------------------------------------
\* The ledger as the commands read it.

\* score_id: the reference when there is one, else the artifact.
ScoreId(ref, file) == IF ref # NoRef THEN ref ELSE file
ScoreIds == Numbers \cup Files \cup {NoFile}

Records == [day : 1..MaxDays, file : Files \cup {NoFile},
            ref : Numbers \cup {NoRef}, sid : ScoreIds]
Recorded(rec) == ledger' = ledger (+) SetToBag({rec})

Spends == BagToSet(ledger)
Fingerprints == {rec.file : rec \in Spends} \ {NoFile}
SubmittedOn(d) == SumFunctionOnSet(ledger, {rec \in Spends : rec.day = d})
KnownReferences == {rec.ref : rec \in Spends} \ {NoRef}

IsSealed(sid) == \E s \in sealed : s[1] = sid

-----------------------------------------------------------------------------
Nothing == [file |-> NoFile, mine |-> 0, ref |-> NoRef, sid |-> NoFile,
            known |-> {}, listed |-> 0, left |-> 0]

Become(p, where, what) ==
    /\ pc' = [pc EXCEPT ![p] = where]
    /\ job' = [job EXCEPT ![p] = what]

\* Slip: the cap is compared with > instead of >=.
CheckOneTooMany(p, file) ==
    /\ pc[p] = "idle"
    /\ SubmittedOn(day) <= DailyCap
    /\ file \notin Fingerprints
    /\ Become(p, "upload", [Nothing EXCEPT !.file = file])
    /\ UNCHANGED <<shared, crashes, noted>>

\* Slip: no duplicate guard.
CheckCapOnly(p, file) ==
    /\ pc[p] = "idle"
    /\ SubmittedOn(day) < DailyCap
    /\ Become(p, "upload", [Nothing EXCEPT !.file = file])
    /\ UNCHANGED <<shared, crashes, noted>>

\* submit: the cap and the duplicate guard.
Check(p, file) ==
    /\ pc[p] = "idle"
    /\ SubmittedOn(day) < DailyCap
    /\ file \notin Fingerprints
    /\ Become(p, "upload", [Nothing EXCEPT !.file = file])
    /\ UNCHANGED <<shared, crashes, noted>>

\* The upload is accepted.  What the client prints is searched for a long number, which
\* may be the reference of the new row or any other; there may be none.
Upload(p) ==
    /\ pc[p] = "upload"
    /\ Len(kaggle) < MaxRows
    /\ LET mine == Len(kaggle) + 1
       IN  /\ kaggle' = Append(kaggle, [file |-> job[p].file, day |-> day])
           /\ \E ref \in {NoRef, mine} \cup Strays :
                  /\ Become(p, "record", [job[p] EXCEPT !.mine = mine, !.ref = ref,
                                                        !.sid = ScoreId(ref, job[p].file)])
                  /\ doubtful' = doubtful \cup ({ref} \ {NoRef, mine})
    /\ UNCHANGED <<day, ledger, sealed, crashes, lost, reconciled>>

\* The upload fails: the client exits with an error and nothing is recorded.
UploadFails(p) ==
    /\ pc[p] = "upload"
    /\ Become(p, "idle", Nothing)
    /\ UNCHANGED <<shared, crashes, noted>>

\* Slip: --no-wait returns before the spend is recorded.
RecordIfWaiting(p) ==
    /\ pc[p] = "record"
    /\ \/ /\ Recorded([day |-> day, file |-> job[p].file,
                        ref |-> job[p].ref, sid |-> job[p].sid])
          /\ Become(p, "wait", [job[p] EXCEPT !.file = NoFile, !.mine = 0])
       \/ Become(p, "idle", Nothing) /\ UNCHANGED ledger
    /\ UNCHANGED <<day, kaggle, sealed, crashes, noted>>

\* The spend is recorded before the score is waited for; --no-wait ends here.
Record(p) ==
    /\ pc[p] = "record"
    /\ Recorded([day |-> day, file |-> job[p].file,
                 ref |-> job[p].ref, sid |-> job[p].sid])
    /\ Become(p, "wait", [job[p] EXCEPT !.file = NoFile, !.mine = 0]) \/ Become(p, "idle", Nothing)
    /\ UNCHANGED <<day, kaggle, sealed, crashes, noted>>

\* SealedScoreStore.seal: an id that is already there keeps the score it has.
Seal(sid, row) ==
    sealed' = IF IsSealed(sid) THEN sealed ELSE sealed \cup {<<sid, row>>}

\* Slip: the row the number names is looked for without a fallback.
AwaitedRowByNumber(ref, shown) == ref

\* Slip: the wait always takes the newest row.
NewestRow(ref, shown) == shown

\* The row wait_for_terminal_status looks at in a list of that length: the one the number
\* names, else the newest.
AwaitedRow(ref, shown) == IF ref \in 1..shown THEN ref ELSE shown

\* Kaggle has scored that row, whichever it is; its score is sealed under the id of
\* the submission ...
Collect(p) ==
    /\ pc[p] = "wait"
    /\ \E shown \in 1..Len(kaggle) :
           /\ Seal(job[p].sid, AwaitedRow(job[p].ref, shown))
           /\ doubtful' = IF IsSealed(job[p].sid)
                          THEN doubtful ELSE doubtful \cup ({job[p].ref} \ (0..shown))
    /\ Become(p, "idle", Nothing)
    /\ UNCHANGED <<day, kaggle, ledger, crashes, lost, reconciled>>

\* ... or the wait times out; the spend stays recorded.
TimeOut(p) ==
    /\ pc[p] = "wait"
    /\ Become(p, "idle", Nothing)
    /\ UNCHANGED <<shared, crashes, noted>>

-----------------------------------------------------------------------------
\* reconcile reads which references the ledger knows ...
ReadKnown(p) ==
    /\ p \in Reconcilers
    /\ Cardinality(reconciled) <= MaxReconciled
    /\ pc[p] = "idle"
    /\ Become(p, "fetch", [Nothing EXCEPT !.known = KnownReferences])
    /\ UNCHANGED <<shared, crashes, noted>>

\* ... then asks Kaggle for its rows, newest first; it may be shown none ...
Fetch(p) ==
    /\ pc[p] = "fetch"
    /\ \/ \E shown \in 1..Len(kaggle) :
              Become(p, "repair", [job[p] EXCEPT !.listed = shown, !.left = shown])
       \/ Become(p, "idle", Nothing)
    /\ UNCHANGED <<shared, crashes, noted>>

\* The reconciliation ends: it was to account for all the rows it was shown.
PassEnds(p) ==
    /\ Become(p, "idle", Nothing)
    /\ reconciled' = reconciled \cup 1..job[p].listed

\* Slip: the reconciliation stops at the first row the ledger knows.
RepairUntilKnown(p) ==
    /\ pc[p] = "repair"
    /\ LET row == job[p].left
       IN  IF row \in job[p].known
           THEN PassEnds(p) /\ UNCHANGED <<ledger, sealed>>
           ELSE /\ Recorded([day |-> kaggle[row].day, file |-> NoFile, ref |-> row, sid |-> row])
                /\ UNCHANGED sealed \/ Seal(row, row)
                /\ IF row = 1
                   THEN PassEnds(p)
                   ELSE Become(p, "repair", [job[p] EXCEPT !.left = row - 1]) /\ UNCHANGED reconciled
    /\ UNCHANGED <<day, kaggle, crashes, lost, doubtful>>

\* ... and, row by row, records the ones it does not know and seals the scores that
\* are there.
Repair(p) ==
    /\ pc[p] = "repair"
    /\ LET row == job[p].left
       IN  /\ IF row \in job[p].known
              THEN UNCHANGED ledger
              ELSE Recorded([day |-> kaggle[row].day,
                             file |-> NoFile, ref |-> row, sid |-> row])
           /\ UNCHANGED sealed \/ Seal(row, row)
           /\ IF row = 1
              THEN PassEnds(p)
              ELSE /\ Become(p, "repair", [job[p] EXCEPT !.left = row - 1])
                   /\ UNCHANGED reconciled
    /\ UNCHANGED <<day, kaggle, crashes, lost, doubtful>>

-----------------------------------------------------------------------------
\* A process dies; what it had not written is gone.
Crash(p) ==
    /\ crashes < MaxCrashes
    /\ pc[p] # "idle"
    /\ crashes' = crashes + 1
    /\ lost' = IF pc[p] = "record" THEN lost \cup {job[p].mine} ELSE lost
    /\ Become(p, "idle", Nothing)
    /\ UNCHANGED <<shared, reconciled, doubtful>>

\* Someone submits through the web site.
OutsideUpload ==
    /\ Len(kaggle) < MaxRows
    /\ kaggle' = Append(kaggle, [file |-> NoFile, day |-> day])
    /\ UNCHANGED <<day, ledger, sealed, pc, job, crashes, noted>>

NextDay ==
    /\ day < MaxDays
    /\ day' = day + 1
    /\ UNCHANGED <<kaggle, ledger, sealed, pc, job, crashes, noted>>

Init ==
    /\ day = 1
    /\ kaggle = <<>>
    /\ ledger = EmptyBag
    /\ sealed = {}
    /\ pc = [p \in Procs |-> "idle"]
    /\ job = [p \in Procs |-> Nothing]
    /\ crashes = 0
    /\ lost = {} /\ reconciled = {} /\ doubtful = {}

Submit(p) ==
    \/ \E file \in Files : Check(p, file)
    \/ Upload(p) \/ UploadFails(p) \/ Record(p) \/ Collect(p) \/ TimeOut(p)

Reconcile(p) == ReadKnown(p) \/ Fetch(p) \/ Repair(p)

Next ==
    \/ \E p \in Procs : Submit(p) \/ Reconcile(p) \/ Crash(p)
    \/ OutsideUpload
    \/ NextDay

Spec == Init /\ [][Next]_vars

-----------------------------------------------------------------------------
\* Properties.

Jobs == [file : Files \cup {NoFile}, mine : 0..MaxRows, ref : Numbers \cup {NoRef}, sid : ScoreIds,
         known : SUBSET Numbers,
         listed : 0..MaxRows, left : 0..MaxRows]

TypeOK ==
    /\ day \in 1..MaxDays
    /\ kaggle \in Seq([file : Files \cup {NoFile}, day : 1..MaxDays])
    /\ IsABag(ledger) /\ BagToSet(ledger) \subseteq Records
    /\ sealed \subseteq ScoreIds \X Rows
    /\ pc \in [Procs -> {"idle", "upload", "record", "wait",
                         "fetch", "repair"}]
    /\ job \in [Procs -> Jobs]
    /\ crashes \in Nat
    /\ lost \subseteq Rows /\ reconciled \subseteq Rows /\ doubtful \subseteq Numbers

\* Rows somebody is still about to record.
InFlight == {job[p].mine : p \in {q \in Procs : pc[q] = "record"}}
RowsOf(f) == {n \in DOMAIN kaggle : kaggle[n].file = f}

\* A spend reaches the ledger exactly once under its own bytes, whatever becomes of
\* the wait for its score, unless its process dies between the upload and the record.
SpendRecorded ==
    \A f \in Files :
        SumFunctionOnSet(ledger, {rec \in Spends : rec.file = f})
            = Cardinality(RowsOf(f) \ (lost \cup InFlight))

\* The daily cap, as far as it is one: on any day the loop spends at most the cap,
\* one more for every other process that was past the check, and one more for every
\* spend a dead process took with it.
DailyAllowance ==
    \A d \in 1..MaxDays :
        Cardinality({n \in DOMAIN kaggle : kaggle[n].day = d /\ kaggle[n].file # NoFile})
            <= DailyCap + (Cardinality(Procs) - 1) + Cardinality({n \in lost : kaggle[n].day = d})

\* The same bytes are uploaded again only in such a race or after such a death.
SameBytesOnce ==
    \A f \in Files :
        Cardinality(RowsOf(f)) <= Cardinality(Procs) + Cardinality(RowsOf(f) \cap lost)

\* A reconciliation that ran to its end leaves no row behind: whatever others recorded
\* while it ran, whatever was lost before it and whatever the client printed, every row
\* Kaggle listed to it, the oldest included, is on the ledger under its own reference,
\* and stays there.
RepairedInFull == reconciled \subseteq KnownReferences

\* A score meets the artifact that earned it: what is sealed under a number that is in no
\* doubt is the score of that row, and every record with the number has the bytes of the
\* row, or none.  What a wait seals under the reference of a row is at worst the score of
\* an older one, and the score a reconciliation sealed before it stays.
ScoresMeetTheirArtifacts ==
    \A s \in sealed :
        /\ s[1] \in Numbers \ doubtful =>
               /\ s[1] = s[2]
               /\ \A rec \in Spends : rec.sid = s[1] => rec.file \in {NoFile, kaggle[s[2]].file}
        /\ s[1] \in Rows => s[2] <= s[1]

=============================================================================

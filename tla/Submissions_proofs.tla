------------------------- MODULE Submissions_proofs -------------------------
(***************************************************************************)
(* Proofs about Submissions, for every set of processes and artifacts,     *)
(* every cap and every bound.                                              *)
(*                                                                         *)
(* What the ledger says of an artifact or of a day is a sum of copies; the *)
(* invariant relates it to the rows Kaggle has.  The sums grow by one with *)
(* a record (module Sums).  Between a check and the record it permits the  *)
(* ledger says too little, by as much as there are processes on the way:   *)
(* the two bounds count them in, and are restored by every check.          *)
(***************************************************************************)
EXTENDS Submissions, Sums, SequenceTheorems

\* The ledger has a record under the reference of row n.
KnownRow(n) == \E rec \in Spends : rec.ref = n

\* What a command knows at each of its steps.
JobOK(p) ==
    /\ pc[p] \in {"upload", "record"} => job[p].file \in Files
    /\ pc[p] = "record" => /\ job[p].mine \in DOMAIN kaggle /\ job[p].mine \notin lost
                           /\ kaggle[job[p].mine].file = job[p].file
                           /\ job[p].sid = ScoreId(job[p].ref, job[p].file)
                           /\ job[p].sid \in Numbers \ doubtful => job[p].sid = job[p].mine
    /\ pc[p] = "wait" => kaggle # <<>> /\ (job[p].sid \in Numbers => job[p].sid = job[p].ref)
    /\ pc[p] \in {"fetch", "repair"} => \A n \in job[p].known : KnownRow(n)
    /\ pc[p] = "repair" => /\ job[p].left \in 1..job[p].listed
                           /\ job[p].listed <= Len(kaggle)
    /\ pc[p] # "repair" => job[p].left = 0 /\ job[p].listed = 0
    /\ \A n \in (job[p].left + 1)..job[p].listed : KnownRow(n)

\* No two processes have uploaded the same row.
OwnRows ==
    \A p, q \in Procs : pc[p] = "record" /\ pc[q] = "record" /\ p # q => job[p].mine # job[q].mine

\* The rows that arrived are those of the past and of today, within the bound.
RowsArrived ==
    /\ Len(kaggle) <= MaxRows /\ \A n \in DOMAIN kaggle : kaggle[n].day <= day
    /\ lost \subseteq DOMAIN kaggle
    /\ IsFiniteSet(Spends)

\* The processes that have passed the check and not uploaded yet, and those for f.
Uploading == {p \in Procs : pc[p] = "upload"}
UploadingOf(f) == {p \in Uploading : job[p].file = f}

\* The rows of the loop that arrived on d.
OwnOn(d) == {n \in DOMAIN kaggle : kaggle[n].day = d /\ kaggle[n].file # NoFile}

\* The spends of today that no process holds in memory are on the ledger of today.
TodayRecorded == Cardinality(OwnOn(day) \ (lost \cup InFlight)) <= SubmittedOn(day)

\* Every day has room for the rows that are not lost, today also for those on the way.
RoomOnDay ==
    \A d \in 1..MaxDays :
        Cardinality(OwnOn(d) \ lost) + (IF d = day THEN Cardinality(Uploading) ELSE 0)
            <= DailyCap + Cardinality(Procs) - 1

\* The same bytes are with no more processes than there are.
RoomForBytes ==
    \A f \in Files : Cardinality(RowsOf(f) \ lost) + Cardinality(UploadingOf(f)) <= Cardinality(Procs)

\* What is sealed is the score of a row that is there, its own unless in doubt.
SealedOK ==
    /\ sealed \subseteq ScoreIds \X Rows /\ doubtful \subseteq Numbers
    /\ \A s \in sealed : /\ s[2] \in DOMAIN kaggle
                         /\ s[1] \in Numbers \ doubtful => s[1] = s[2]
                         /\ s[1] \in Rows => s[2] <= s[1]

\* A record with a number in no doubt has the bytes of that row, or none.
RecordsOK ==
    \A rec \in Spends :
        rec.sid \in Numbers \ doubtful =>
            rec.sid \in DOMAIN kaggle /\ rec.file \in {NoFile, kaggle[rec.sid].file}

\* The rows of a reconciliation that ran to its end are known.
PassesOK == reconciled \subseteq Rows /\ \A n \in reconciled : KnownRow(n)

\* What the scores, the records and the reconciliations account for.
Accounts == SealedOK /\ RecordsOK /\ PassesOK

\* The inductive invariant.
IInv ==
    /\ TypeOK /\ \A p \in Procs : JobOK(p)
    /\ OwnRows /\ RowsArrived
    /\ SpendRecorded /\ TodayRecorded /\ RoomOnDay /\ RoomForBytes
    /\ Accounts

-----------------------------------------------------------------------------
\* Finite sets.

\* Processes are finitely many.
LEMMA ProcsFinite ==
    /\ IsFiniteSet(Procs) /\ Cardinality(Procs) \in Nat /\ Cardinality(Procs) >= 1
    /\ \A S \in SUBSET Procs : IsFiniteSet(S) /\ Cardinality(S) \in Nat
                               /\ Cardinality(S) <= Cardinality(Procs)
<1>1. IsFiniteSet(Procs) /\ Procs # {}
    BY ProcsAssumption
<1>2. Cardinality(Procs) \in Nat /\ Cardinality(Procs) # 0
    BY <1>1, FS_CardinalityType, FS_EmptySet
<1>3. ASSUME NEW S \in SUBSET Procs
      PROVE  /\ IsFiniteSet(S) /\ Cardinality(S) \in Nat
             /\ Cardinality(S) <= Cardinality(Procs)
    BY <1>1, FS_Subset, FS_CardinalityType
<1>4. QED
    BY <1>1, <1>2, <1>3

\* A number is an integer, and an artifact is not.
LEMMA NumbersAre == Numbers \subseteq Nat \ {0} /\ Files \cap Numbers = {}
<1>1. Rows \subseteq Nat \ {0}
    BY BoundAssumption DEF Rows
<1>2. Numbers \subseteq Nat \ {0}
    BY <1>1, StrayAssumption DEF Numbers
<1>3. Numbers \subseteq Int
    BY <1>2
<1>4. Files \cap Numbers = {}
    BY <1>3, FileAssumption
<1>5. QED
    BY <1>2, <1>4

\* Rows of Kaggle are finitely many.
LEMMA RowsFinite ==
    ASSUME NEW k \in Nat, NEW S \in SUBSET (1..k)
    PROVE  IsFiniteSet(S) /\ Cardinality(S) \in Nat
<1> DEFINE all == 1..k
<1>1. IsFiniteSet(all)
    <2>1. 1 \in Int /\ k \in Int
        OBVIOUS
    <2>2. QED
        BY <2>1, FS_Interval
<1>2. S \in SUBSET all
    OBVIOUS
<1> HIDE DEF all
<1>3. QED
    BY <1>1, <1>2, FS_Subset, FS_CardinalityType

\* A part has no more elements than the whole.
LEMMA PartIsSmaller ==
    ASSUME NEW S, IsFiniteSet(S), NEW T \in SUBSET S
    PROVE  /\ IsFiniteSet(T) /\ Cardinality(T) \in Nat /\ Cardinality(S) \in Nat
           /\ Cardinality(T) <= Cardinality(S)
BY FS_Subset, FS_CardinalityType

\* One element more.
LEMMA OneElementMore ==
    ASSUME NEW S, IsFiniteSet(S), NEW x, x \notin S
    PROVE  IsFiniteSet(S \cup {x}) /\ Cardinality(S \cup {x}) = Cardinality(S) + 1
BY FS_AddElement

\* Two parts that have nothing in common.
LEMMA PartsAddUp ==
    ASSUME NEW S, NEW T, IsFiniteSet(S), IsFiniteSet(T), S \cap T = {}
    PROVE  Cardinality(S \cup T) = Cardinality(S) + Cardinality(T)
<1>1. Cardinality(S \cup T) = Cardinality(S) + Cardinality(T) - Cardinality(S \cap T)
    BY FS_Union
<1>2. Cardinality(S \cap T) = 0
    BY FS_EmptySet
<1>3. Cardinality(S) \in Nat /\ Cardinality(T) \in Nat
    BY FS_CardinalityType
<1>4. QED
    BY <1>1, <1>2, <1>3

-----------------------------------------------------------------------------
\* The ledger.

\* C is the bag B with one copy more of rec.
AddsCopy(B, rec, C) ==
    /\ IsFiniteSet(DOMAIN B) /\ \A x \in DOMAIN B : B[x] \in Nat
    /\ DOMAIN C = DOMAIN B \cup {rec}
    /\ \A x \in DOMAIN B : x # rec => C[x] = B[x]
    /\ C[rec] = (IF rec \in DOMAIN B THEN B[rec] ELSE 0) + 1

\* What the copies of a kind of records sum to with one copy more.
LEMMA OneCopyMore ==
    ASSUME NEW B, NEW rec, NEW C, AddsCopy(B, rec, C), NEW kind
    PROVE  /\ SumFunctionOnSet(C, DOMAIN C \cap kind) \in Nat
           /\ SumFunctionOnSet(B, DOMAIN B \cap kind) \in Nat
           /\ SumFunctionOnSet(C, DOMAIN C \cap kind) =
                  SumFunctionOnSet(B, DOMAIN B \cap kind) + (IF rec \in kind THEN 1 ELSE 0)
<1> USE DEF AddsCopy
<1> DEFINE S == (DOMAIN B \cap kind) \ {rec}
<1>1. IsFiniteSet(S) /\ IsFiniteSet(DOMAIN B \cap kind)
    BY FS_Subset
<1>2. /\ \A x \in S : B[x] \in Nat /\ C[x] = B[x] /\ C[x] \in Nat
      /\ rec \notin S /\ C[rec] \in Nat
    OBVIOUS
<1>3. SumFunctionOnSet(B, DOMAIN B \cap kind) \in Nat
    BY <1>1, SumNat
<1>4. SumFunctionOnSet(B, S) \in Nat
    BY <1>1, <1>2, SumNat
<1>5. SumFunctionOnSet(C, S) = SumFunctionOnSet(B, S)
    BY <1>1, <1>2, SumAgree
<1>6. CASE rec \notin kind
    <2>1. DOMAIN C \cap kind = S /\ DOMAIN B \cap kind = S
        BY <1>6
    <2>2. QED
        BY <1>4, <1>5, <1>6, <2>1
<1>7. CASE rec \in kind
    <2>1. DOMAIN C \cap kind = S \cup {rec}
        BY <1>7
    <2>2. SumFunctionOnSet(C, S \cup {rec}) = C[rec] + SumFunctionOnSet(C, S)
        BY <1>1, <1>2, SumOneMore
    <2>3. CASE rec \in DOMAIN B
        <3>1. DOMAIN B \cap kind = S \cup {rec} /\ B[rec] \in Nat
            BY <1>7, <2>3
        <3>2. SumFunctionOnSet(B, S \cup {rec}) = B[rec] + SumFunctionOnSet(B, S)
            BY <1>1, <1>2, <3>1, SumOneMore
        <3>3. C[rec] = B[rec] + 1
            BY <2>3
        <3> HIDE DEF S
        <3>4. QED
            BY <1>3, <1>4, <1>5, <1>7, <2>1, <2>2, <3>1, <3>2, <3>3
    <2>4. CASE rec \notin DOMAIN B
        <3>1. DOMAIN B \cap kind = S /\ C[rec] = 1
            BY <2>4
        <3>2. SumFunctionOnSet(C, DOMAIN C \cap kind) = 1 + SumFunctionOnSet(B, DOMAIN B \cap kind)
            BY <1>5, <2>1, <2>2, <3>1
        <3>3. QED
            BY <1>3, <1>7, <3>2
    <2>5. QED
        BY <2>3, <2>4
<1>8. QED
    BY <1>6, <1>7

\* The records of a day, and those under the bytes of a file.
OfDay(d) == {rec \in Records : rec.day = d}
OfFile(f) == {rec \in Records : rec.file = f}

\* What is summed for a day and for a file.
LEMMA SumsAre ==
    ASSUME TypeOK
    PROVE  /\ \A d : SubmittedOn(d) = SumFunctionOnSet(ledger, DOMAIN ledger \cap OfDay(d))
           /\ \A f : {rec \in Spends : rec.file = f} = DOMAIN ledger \cap OfFile(f)
<1>1. DOMAIN ledger \subseteq Records /\ Spends = DOMAIN ledger
    BY DEF TypeOK, BagToSet, Spends
<1>2. \A d : {rec \in Spends : rec.day = d} = DOMAIN ledger \cap OfDay(d)
    BY <1>1 DEF OfDay
<1>3. \A f : {rec \in Spends : rec.file = f} = DOMAIN ledger \cap OfFile(f)
    BY <1>1 DEF OfFile
<1>4. QED
    BY <1>2, <1>3 DEF SubmittedOn

\* One record more is one more for its day and its file, and for no other.
LEMMA LedgerGrows ==
    ASSUME TypeOK, IsFiniteSet(Spends), NEW rec \in Records, Recorded(rec)
    PROVE  /\ IsABag(ledger') /\ Spends' = Spends \cup {rec} /\ IsFiniteSet(Spends')
           /\ BagToSet(ledger') \subseteq Records
           /\ \A d : /\ SubmittedOn(d) \in Nat
                     /\ SumFunctionOnSet(ledger', DOMAIN ledger' \cap OfDay(d))
                            = SubmittedOn(d) + (IF rec.day = d THEN 1 ELSE 0)
           /\ \A f : /\ SumFunctionOnSet(ledger, DOMAIN ledger \cap OfFile(f)) \in Nat
                     /\ SumFunctionOnSet(ledger', DOMAIN ledger' \cap OfFile(f))
                            = SumFunctionOnSet(ledger, DOMAIN ledger \cap OfFile(f))
                              + (IF rec.file = f THEN 1 ELSE 0)
<1>1. PICK B : B = ledger
    OBVIOUS
<1>2. PICK C : C = ledger'
    OBVIOUS
<1>3. /\ B \in [DOMAIN B -> {n \in Nat : n > 0}] /\ DOMAIN B \subseteq Records
      /\ IsFiniteSet(DOMAIN B) /\ Spends = DOMAIN B
    BY <1>1 DEF TypeOK, IsABag, BagToSet, Spends
<1>4. C = [e \in DOMAIN B \cup {rec} |->
              (IF e \in DOMAIN B THEN B[e] ELSE 0) + (IF e \in {rec} THEN 1 ELSE 0)]
    <2>1. DOMAIN SetToBag({rec}) = {rec} /\ SetToBag({rec})[rec] = 1
        BY DEF SetToBag
    <2>2. C = B (+) SetToBag({rec})
        BY <1>1, <1>2 DEF Recorded
    <2>3. QED
        BY <2>1, <2>2 DEF (+)
<1>5. /\ DOMAIN C = DOMAIN B \cup {rec}
      /\ \A x \in DOMAIN B : x # rec => C[x] = B[x]
      /\ C[rec] = (IF rec \in DOMAIN B THEN B[rec] ELSE 0) + 1
      /\ (\A x \in DOMAIN B : B[x] \in Nat) /\ IsFiniteSet(DOMAIN B)
    BY <1>3, <1>4
<1>6. IsFiniteSet(DOMAIN C) /\ DOMAIN C \subseteq Records
    BY <1>3, <1>5, FS_AddElement
<1>7. C \in [DOMAIN C -> {n \in Nat : n > 0}]
    BY <1>3, <1>4, <1>5
<1>8. AddsCopy(B, rec, C)
    BY <1>5 DEF AddsCopy
<1>9. /\ IsABag(ledger') /\ Spends' = Spends \cup {rec} /\ IsFiniteSet(Spends')
      /\ BagToSet(ledger') \subseteq Records
    BY <1>1, <1>2, <1>3, <1>5, <1>6, <1>7 DEF IsABag, BagToSet, Spends
<1>10. ASSUME NEW d
       PROVE  /\ SubmittedOn(d) \in Nat
              /\ SumFunctionOnSet(ledger', DOMAIN ledger' \cap OfDay(d))
                     = SubmittedOn(d) + (IF rec.day = d THEN 1 ELSE 0)
    <2>1. rec \in OfDay(d) <=> rec.day = d
        BY DEF OfDay
    <2>2. SubmittedOn(d) = SumFunctionOnSet(ledger, DOMAIN ledger \cap OfDay(d))
        BY SumsAre
    <2>3. QED
        BY <1>1, <1>2, <1>8, <2>1, <2>2, OneCopyMore
<1>11. ASSUME NEW f
       PROVE  /\ SumFunctionOnSet(ledger, DOMAIN ledger \cap OfFile(f)) \in Nat
              /\ SumFunctionOnSet(ledger', DOMAIN ledger' \cap OfFile(f))
                     = SumFunctionOnSet(ledger, DOMAIN ledger \cap OfFile(f))
                       + (IF rec.file = f THEN 1 ELSE 0)
    <2>1. rec \in OfFile(f) <=> rec.file = f
        BY DEF OfFile
    <2>2. SumFunctionOnSet(B, DOMAIN B \cap OfFile(f)) \in Nat
        BY <1>8, OneCopyMore
    <2>3. SumFunctionOnSet(C, DOMAIN C \cap OfFile(f)) =
              SumFunctionOnSet(B, DOMAIN B \cap OfFile(f)) + (IF rec \in OfFile(f) THEN 1 ELSE 0)
        BY <1>8, OneCopyMore
    <2>4. QED
        BY <1>1, <1>2, <2>1, <2>2, <2>3
<1>12. QED
    BY <1>9, <1>10, <1>11

-----------------------------------------------------------------------------
\* What a step of one process leaves alone.

Places == {"idle", "upload", "record", "wait", "fetch", "repair"}

\* Only p moves.
LEMMA BecomeIs ==
    ASSUME TypeOK, NEW p \in Procs, NEW where \in Places, NEW what \in Jobs, Become(p, where, what)
    PROVE  /\ pc' \in [Procs -> Places] /\ job' \in [Procs -> Jobs]
           /\ pc'[p] = where /\ job'[p] = what
           /\ \A q \in Procs : q # p => pc'[q] = pc[q] /\ job'[q] = job[q]
BY DEF TypeOK, Become, Places

\* A command at rest holds nothing.
LEMMA NothingIsJob == Nothing \in Jobs
<1>1. 0 \in 0..MaxRows
    BY BoundAssumption
<1>2. NoFile \in Files \cup {NoFile} /\ NoRef \in Numbers \cup {NoRef} /\ NoFile \in ScoreIds /\ {} \in SUBSET Numbers
    BY DEF ScoreIds
<1>3. QED
    BY <1>1, <1>2 DEF Nothing, Jobs, NoRef

\* A command at rest knows what it has to know.
LEMMA IdleOK ==
    ASSUME NEW p, pc'[p] = "idle", job'[p] = Nothing
    PROVE  JobOK(p)'
<1>1. job'[p].left = 0 /\ job'[p].listed = 0
    BY DEF Nothing
<1>2. (job'[p].left + 1)..job'[p].listed = {}
    BY <1>1
<1>3. QED
    BY <1>1, <1>2 DEF JobOK

\* What a command knows stays true while rows arrive and records are added.
LEMMA StillKnows ==
    ASSUME IInv, NEW q \in Procs, pc'[q] = pc[q] /\ job'[q] = job[q],
           Spends \subseteq Spends', doubtful \subseteq doubtful',
           Len(kaggle) \in Nat, Len(kaggle') \in Nat,
           DOMAIN kaggle \subseteq DOMAIN kaggle', Len(kaggle) <= Len(kaggle'),
           kaggle # <<>> => kaggle' # <<>>,
           \A n \in DOMAIN kaggle : kaggle'[n] = kaggle[n],
           pc[q] = "record" => job[q].mine \notin lost'
    PROVE  JobOK(q)'
<1>1. pc'[q] = pc[q] /\ job'[q] = job[q]
    OBVIOUS
<1>2. JobOK(q) /\ job[q] \in Jobs
    BY DEF IInv, TypeOK
<1>3. \A n : KnownRow(n) => KnownRow(n)'
    BY DEF KnownRow
<1>4. job[q].listed \in Nat
    BY <1>2, BoundAssumption DEF Jobs
<1>5. pc[q] = "record" => job[q].mine \notin lost'
    OBVIOUS
<1>6. pc[q] = "record" =>
         /\ job[q].mine \in DOMAIN kaggle' /\ kaggle'[job[q].mine].file = job[q].file
         /\ job[q].sid = ScoreId(job[q].ref, job[q].file)
         /\ job[q].sid \in Numbers \ doubtful' => job[q].sid = job[q].mine
    BY <1>2 DEF JobOK
<1>7. pc[q] = "wait" => kaggle' # <<>> /\ (job[q].sid \in Numbers => job[q].sid = job[q].ref)
    BY <1>2 DEF JobOK
<1>8. pc[q] = "repair" => job[q].left \in 1..job[q].listed /\ job[q].listed <= Len(kaggle')
    BY <1>2, <1>4 DEF JobOK
<1>9. /\ pc[q] \in {"upload", "record"} => job[q].file \in Files
      /\ pc[q] # "repair" => job[q].left = 0 /\ job[q].listed = 0
      /\ pc[q] \in {"fetch", "repair"} => \A n \in job[q].known : KnownRow(n)'
      /\ \A n \in (job[q].left + 1)..job[q].listed : KnownRow(n)'
    BY <1>2, <1>3 DEF JobOK
<1>10. QED
    BY <1>1, <1>5, <1>6, <1>7, <1>8, <1>9 DEF JobOK

\* The others know what they knew when p moves on, since the row a process still has to
\* record is lost only with that process.
LEMMA OthersKnow ==
    ASSUME IInv, NEW p \in Procs, NEW where \in Places, NEW what \in Jobs, Become(p, where, what),
           Spends \subseteq Spends', kaggle' = kaggle, doubtful \subseteq doubtful',
           lost' \subseteq lost \cup (IF pc[p] = "record" THEN {job[p].mine} ELSE {}),
           NEW q \in Procs, q # p
    PROVE  JobOK(q)'
<1>1. pc'[q] = pc[q] /\ job'[q] = job[q]
    BY BecomeIs DEF IInv
<1>2. pc[q] = "record" => job[q].mine \notin lost'
    BY DEF IInv, OwnRows, JobOK
<1>3. /\ Len(kaggle) \in Nat /\ Len(kaggle') \in Nat /\ Len(kaggle) <= Len(kaggle')
      /\ DOMAIN kaggle \subseteq DOMAIN kaggle' /\ (kaggle # <<>> => kaggle' # <<>>)
      /\ \A n \in DOMAIN kaggle : kaggle'[n] = kaggle[n]
    BY DEF IInv, TypeOK
<1>4. QED
    BY <1>1, <1>2, <1>3, StillKnows

\* The processes that hold an unrecorded row.
LEMMA FlightEnds ==
    ASSUME IInv, NEW p \in Procs, NEW where \in Places, NEW what \in Jobs, Become(p, where, what),
           where # "record"
    PROVE  /\ OwnRows'
           /\ InFlight' = InFlight \ (IF pc[p] = "record" THEN {job[p].mine} ELSE {})
<1>1. /\ pc'[p] = where /\ job'[p] = what
      /\ \A q \in Procs : q # p => pc'[q] = pc[q] /\ job'[q] = job[q]
    BY BecomeIs DEF IInv
<1>2. OwnRows'
    BY <1>1 DEF IInv, OwnRows
<1> DEFINE Holders == {q \in Procs : pc[q] = "record"}
<1>a. Holders' = Holders \ {p}
    BY <1>1
<1>b. \A n : n \in InFlight <=> \E q \in Holders : n = job[q].mine
    BY DEF InFlight
<1>c. \A n : n \in InFlight' <=> \E q \in Holders' : n = job'[q].mine
    BY DEF InFlight
<1>d. \A q \in Holders' : q # p /\ job'[q] = job[q]
    BY <1>1, <1>a
<1>e. p \in Holders <=> pc[p] = "record"
    OBVIOUS
<1>f. \A q \in Procs : q \in Holders => pc[q] = "record"
    OBVIOUS
<1>g. Holders \subseteq Procs
    OBVIOUS
<1> HIDE DEF Holders
<1>3. CASE pc[p] # "record"
    <2>1. \A n : n \in InFlight' <=> n \in InFlight
        BY <1>a, <1>b, <1>c, <1>d, <1>e, <1>3
    <2>2. QED
        BY <1>2, <1>3, <2>1
<1>4. CASE pc[p] = "record"
    <2>1. \A q \in Procs : q # p /\ pc[q] = "record" => job[q].mine # job[p].mine
        BY <1>4 DEF IInv, OwnRows
    <2>2. \A n : n \in InFlight' <=> n \in InFlight /\ n # job[p].mine
        BY <1>a, <1>b, <1>c, <1>d, <1>e, <1>f, <1>g, <1>4, <2>1
    <2>3. QED
        BY <1>2, <1>4, <2>2
<1>5. QED
    BY <1>2, <1>3, <1>4

\* While no row arrives and nobody passes the check, there is no less room.
LEMMA RoomStays ==
    ASSUME IInv, NEW p \in Procs, NEW where \in Places, NEW what \in Jobs, Become(p, where, what),
           where # "upload", kaggle' = kaggle, day' = day, lost \subseteq lost'
    PROVE  RoomOnDay' /\ RoomForBytes'
<1>1. /\ pc'[p] = where /\ job'[p] = what
      /\ \A q \in Procs : q # p => pc'[q] = pc[q] /\ job'[q] = job[q]
    BY BecomeIs DEF IInv
<1>2. Len(kaggle) \in Nat /\ DOMAIN kaggle = 1..Len(kaggle)
    BY DEF IInv, TypeOK
<1>3. Uploading' \subseteq Uploading /\ \A f : (UploadingOf(f))' \subseteq UploadingOf(f)
    BY <1>1 DEF Uploading, UploadingOf
<1>4. Uploading \in SUBSET Procs /\ Uploading' \in SUBSET Procs
      /\ \A f : UploadingOf(f) \in SUBSET Procs /\ (UploadingOf(f))' \in SUBSET Procs
    BY DEF Uploading, UploadingOf
<1>5. /\ Cardinality(Uploading') <= Cardinality(Uploading)
      /\ Cardinality(Uploading') \in Nat /\ Cardinality(Uploading) \in Nat
    <2>1. IsFiniteSet(Uploading) /\ Uploading' \in SUBSET Uploading
        BY <1>3, <1>4, ProcsFinite
    <2>2. QED
        BY <2>1, PartIsSmaller
<1>6. \A f : /\ Cardinality((UploadingOf(f))') <= Cardinality(UploadingOf(f))
             /\ Cardinality((UploadingOf(f))') \in Nat /\ Cardinality(UploadingOf(f)) \in Nat
    <2> TAKE f
    <2>1. IsFiniteSet(UploadingOf(f)) /\ (UploadingOf(f))' \in SUBSET UploadingOf(f)
        BY <1>3, <1>4, ProcsFinite
    <2>2. QED
        BY <2>1, PartIsSmaller
<1>7. \A d : /\ Cardinality((OwnOn(d) \ lost)') <= Cardinality(OwnOn(d) \ lost)
             /\ Cardinality((OwnOn(d) \ lost)') \in Nat /\ Cardinality(OwnOn(d) \ lost) \in Nat
    <2> TAKE d
    <2>1. (OwnOn(d) \ lost)' \in SUBSET (OwnOn(d) \ lost) /\ OwnOn(d) \ lost \in SUBSET (1..Len(kaggle))
        BY <1>2 DEF OwnOn
    <2>2. IsFiniteSet(OwnOn(d) \ lost)
        BY <1>2, <2>1, RowsFinite
    <2>3. QED
        BY <2>1, <2>2, PartIsSmaller
<1>8. \A f : /\ Cardinality((RowsOf(f) \ lost)') <= Cardinality(RowsOf(f) \ lost)
             /\ Cardinality((RowsOf(f) \ lost)') \in Nat /\ Cardinality(RowsOf(f) \ lost) \in Nat
    <2> TAKE f
    <2>1. (RowsOf(f) \ lost)' \in SUBSET (RowsOf(f) \ lost) /\ RowsOf(f) \ lost \in SUBSET (1..Len(kaggle))
        BY <1>2 DEF RowsOf
    <2>2. IsFiniteSet(RowsOf(f) \ lost)
        BY <1>2, <2>1, RowsFinite
    <2>3. QED
        BY <2>1, <2>2, PartIsSmaller
<1>9. Cardinality(Procs) \in Nat /\ DailyCap \in Nat
    BY ProcsFinite, CapAssumption
<1>10. RoomOnDay'
    <2> SUFFICES ASSUME NEW d \in 1..MaxDays
                 PROVE  Cardinality((OwnOn(d) \ lost)') + (IF d = day' THEN Cardinality(Uploading') ELSE 0)
                            <= DailyCap + Cardinality(Procs) - 1
        BY DEF RoomOnDay
    <2>1. Cardinality(OwnOn(d) \ lost) + (IF d = day THEN Cardinality(Uploading) ELSE 0)
              <= DailyCap + Cardinality(Procs) - 1
        BY DEF IInv, RoomOnDay
    <2>2. /\ Cardinality((OwnOn(d) \ lost)') <= Cardinality(OwnOn(d) \ lost)
          /\ Cardinality((OwnOn(d) \ lost)') \in Nat /\ Cardinality(OwnOn(d) \ lost) \in Nat
        BY <1>7
    <2>3. CASE d = day
        BY <1>5, <1>9, <2>1, <2>2, <2>3
    <2>4. CASE d # day
        BY <1>9, <2>1, <2>2, <2>4
    <2>5. QED
        BY <2>3, <2>4
<1>11. RoomForBytes'
    <2> SUFFICES ASSUME NEW f \in Files
                 PROVE  Cardinality((RowsOf(f) \ lost)') + Cardinality((UploadingOf(f))') <= Cardinality(Procs)
        BY DEF RoomForBytes
    <2>1. Cardinality(RowsOf(f) \ lost) + Cardinality(UploadingOf(f)) <= Cardinality(Procs)
        BY DEF IInv, RoomForBytes
    <2>2. QED
        BY <1>6, <1>8, <1>9, <2>1
<1>12. QED
    BY <1>10, <1>11

\* While nothing is recorded, the ledger says of the rows what it said.
LEMMA SumsStay ==
    ASSUME IInv, kaggle' = kaggle, day' = day, ledger' = ledger,
           lost' \cup InFlight' = lost \cup InFlight
    PROVE  SpendRecorded' /\ TodayRecorded' /\ Spends' = Spends
<1>1. Spends' = Spends
    BY DEF Spends, BagToSet
<1>2. \A d : SubmittedOn(d)' = SubmittedOn(d)
    BY <1>1 DEF SubmittedOn
<1>3. OwnOn(day)' = OwnOn(day)
    BY DEF OwnOn
<1>4. \A f : RowsOf(f)' = RowsOf(f)
    BY DEF RowsOf
<1>5. TodayRecorded'
    BY <1>2, <1>3 DEF IInv, TodayRecorded
<1>6. SpendRecorded'
    BY <1>1, <1>4 DEF IInv, SpendRecorded
<1>7. QED
    BY <1>1, <1>5, <1>6

-----------------------------------------------------------------------------
\* Steps that record nothing.

\* A process moves on, and no row arrives, nothing is recorded, nobody passes the check.
LEMMA MovesOn ==
    ASSUME IInv, NEW p \in Procs, NEW where \in Places \ {"upload", "record"}, NEW what \in Jobs,
           Become(p, where, what), UNCHANGED <<day, kaggle, ledger>>,
           Accounts', doubtful \subseteq doubtful', crashes' \in Nat,
           lost' = lost \cup (IF pc[p] = "record" THEN {job[p].mine} ELSE {}),
           JobOK(p)'
    PROVE  IInv'
<1>1. Spends' = Spends
    BY DEF Spends, BagToSet
<1>2. \A q \in Procs : JobOK(q)'
    BY <1>1, OthersKnow
<1>3. pc[p] = "record" => job[p].mine \in DOMAIN kaggle
    BY DEF IInv, JobOK
<1>4. lost' \subseteq DOMAIN kaggle /\ DOMAIN kaggle \subseteq Rows
    <2>1. Len(kaggle) <= MaxRows /\ DOMAIN kaggle = 1..Len(kaggle) /\ Len(kaggle) \in Nat
        BY DEF IInv, TypeOK, RowsArrived
    <2>2. DOMAIN kaggle \subseteq Rows
        BY <2>1, BoundAssumption DEF Rows
    <2>3. QED
        BY <1>3, <2>2 DEF IInv, RowsArrived
<1>5. TypeOK'
    <2>1. pc' \in [Procs -> Places] /\ job' \in [Procs -> Jobs]
        BY BecomeIs DEF IInv
    <2>2. QED
        BY <1>4, <2>1 DEF IInv, TypeOK, Places, Accounts, SealedOK, PassesOK
<1>6. OwnRows' /\ InFlight' = InFlight \ (IF pc[p] = "record" THEN {job[p].mine} ELSE {})
    BY FlightEnds
<1>7. lost' \cup InFlight' = lost \cup InFlight
    <2>1. pc[p] = "record" => job[p].mine \in InFlight
        BY DEF InFlight
    <2>2. QED
        BY <1>6, <2>1
<1>8. SpendRecorded' /\ TodayRecorded'
    BY <1>7, SumsStay
<1>9. RoomOnDay' /\ RoomForBytes'
    BY RoomStays
<1>10. RowsArrived'
    BY <1>1, <1>4 DEF IInv, RowsArrived
<1>11. QED
    BY <1>2, <1>5, <1>6, <1>8, <1>9, <1>10 DEF IInv

\* A command ends.
LEMMA Ends ==
    ASSUME IInv, NEW p \in Procs, Become(p, "idle", Nothing), UNCHANGED <<day, kaggle, ledger>>,
           Accounts', doubtful \subseteq doubtful', crashes' \in Nat,
           lost' = lost \cup (IF pc[p] = "record" THEN {job[p].mine} ELSE {})
    PROVE  IInv'
<1>1. Nothing \in Jobs /\ "idle" \in Places \ {"upload", "record"} /\ "idle" \in Places
    BY NothingIsJob DEF Places
<1>2. pc'[p] = "idle" /\ job'[p] = Nothing
    BY <1>1, BecomeIs DEF IInv
<1>3. JobOK(p)'
    BY <1>2, IdleOK
<1>4. QED
    BY <1>1, <1>3, MovesOn

\* A score that is sealed is that of its own row, unless the id is in doubt or taken.
LEMMA SealedKept ==
    ASSUME IInv, kaggle' = kaggle, doubtful \subseteq doubtful', doubtful' \subseteq Numbers,
           NEW sid \in ScoreIds, NEW row \in Rows, row \in DOMAIN kaggle, Seal(sid, row),
           ~IsSealed(sid) => /\ sid \in Numbers \ doubtful' => sid = row
                             /\ sid \in Rows => row <= sid
    PROVE  SealedOK'
<1>1. sealed' = sealed \/ (~IsSealed(sid) /\ sealed' = sealed \cup {<<sid, row>>})
    BY DEF Seal
<1>2. /\ sealed \subseteq ScoreIds \X Rows
      /\ \A s \in sealed : /\ s[2] \in DOMAIN kaggle
                           /\ s[1] \in Numbers \ doubtful => s[1] = s[2]
                           /\ s[1] \in Rows => s[2] <= s[1]
    BY DEF IInv, Accounts, SealedOK
<1>3. sealed' \subseteq ScoreIds \X Rows
    BY <1>1, <1>2
<1>4. <<sid, row>>[1] = sid /\ <<sid, row>>[2] = row
    OBVIOUS
<1>5. ASSUME NEW s \in sealed'
      PROVE  /\ s[2] \in DOMAIN kaggle
             /\ s[1] \in Numbers \ doubtful' => s[1] = s[2]
             /\ s[1] \in Rows => s[2] <= s[1]
    <2>1. CASE s \in sealed
        BY <1>2, <2>1
    <2>2. CASE s \notin sealed
        <3>1. ~IsSealed(sid) /\ s = <<sid, row>>
            BY <1>1, <1>5, <2>2
        <3>2. QED
            BY <1>4, <3>1
    <2>3. QED
        BY <2>1, <2>2
<1>6. QED
    BY <1>3, <1>5 DEF SealedOK

\* What was sealed keeps its row while rows arrive and doubts grow.
LEMMA SealedStays ==
    ASSUME IInv, sealed' = sealed, doubtful \subseteq doubtful', doubtful' \subseteq Numbers,
           \A n \in DOMAIN kaggle : n \in DOMAIN kaggle'
    PROVE  SealedOK'
<1>1. /\ sealed' \subseteq ScoreIds \X Rows
      /\ \A s \in sealed' : /\ s[2] \in DOMAIN kaggle'
                            /\ s[1] \in Numbers \ doubtful' => s[1] = s[2]
                            /\ s[1] \in Rows => s[2] <= s[1]
    BY DEF IInv, Accounts, SealedOK
<1>2. QED
    BY <1>1 DEF SealedOK

\* The records keep their rows, and a new one has its own.
LEMMA RecordsKept ==
    ASSUME IInv, doubtful \subseteq doubtful', \A n \in DOMAIN kaggle : n \in DOMAIN kaggle' /\ kaggle'[n] = kaggle[n],
           \A rec \in Spends' \ Spends :
               rec.sid \in Numbers \ doubtful' =>
                   rec.sid \in DOMAIN kaggle' /\ rec.file \in {NoFile, kaggle'[rec.sid].file}
    PROVE  RecordsOK'
<1>1. ASSUME NEW rec \in Spends', rec.sid \in Numbers \ doubtful'
      PROVE  rec.sid \in DOMAIN kaggle' /\ rec.file \in {NoFile, kaggle'[rec.sid].file}
    <2>1. CASE rec \in Spends
        <3>1. rec.sid \in DOMAIN kaggle /\ rec.file \in {NoFile, kaggle[rec.sid].file}
            BY <1>1, <2>1 DEF IInv, Accounts, RecordsOK
        <3>2. QED
            BY <3>1
    <2>2. CASE rec \notin Spends
        BY <1>1, <2>2
    <2>3. QED
        BY <2>1, <2>2
<1>2. QED
    BY <1>1 DEF RecordsOK

\* A row that was accounted for stays so, and those that are now are known.
LEMMA PassesKept ==
    ASSUME IInv, Spends \subseteq Spends', NEW S \in SUBSET Rows, reconciled' = reconciled \cup S,
           \A n \in S : KnownRow(n)'
    PROVE  PassesOK'
<1>1. \A n : KnownRow(n) => KnownRow(n)'
    BY DEF KnownRow
<1>2. reconciled \subseteq Rows /\ \A n \in reconciled : KnownRow(n)
    BY DEF IInv, Accounts, PassesOK
<1>3. QED
    BY <1>1, <1>2 DEF PassesOK

\* Nothing is sealed, recorded or accounted for.
LEMMA AccountsStay ==
    ASSUME IInv, sealed' = sealed, ledger' = ledger, reconciled' = reconciled,
           doubtful \subseteq doubtful', doubtful' \subseteq Numbers,
           \A n \in DOMAIN kaggle : n \in DOMAIN kaggle' /\ kaggle'[n] = kaggle[n]
    PROVE  Accounts'
<1>1. Spends' = Spends
    BY DEF Spends
<1>2. SealedOK'
    BY SealedStays
<1>3. RecordsOK'
    BY <1>1, RecordsKept
<1>4. {} \in SUBSET Rows /\ reconciled' = reconciled \cup {}
    OBVIOUS
<1>5. PassesOK'
    BY <1>1, <1>4, PassesKept
<1>6. QED
    BY <1>2, <1>3, <1>5 DEF Accounts

\* Nor is a row or a doubt added.
LEMMA AccountsUnchanged ==
    ASSUME IInv, UNCHANGED <<kaggle, ledger, sealed, reconciled, doubtful>>
    PROVE  Accounts' /\ doubtful \subseteq doubtful'
<1>1. doubtful' \subseteq Numbers
    BY DEF IInv, Accounts, SealedOK
<1>2. QED
    BY <1>1, AccountsStay

\* An upload that fails leaves nothing behind.
LEMMA UploadFailsKeeps ==
    ASSUME IInv, NEW p \in Procs, UploadFails(p)
    PROVE  IInv'
<1>1. /\ UNCHANGED <<day, kaggle, ledger>> /\ sealed' = sealed /\ crashes' = crashes /\ lost' = lost
      /\ reconciled' = reconciled /\ doubtful' = doubtful /\ pc[p] = "upload" /\ Become(p, "idle", Nothing)
    BY DEF UploadFails, shared, noted
<1>2. crashes' \in Nat /\ lost' = lost \cup (IF pc[p] = "record" THEN {job[p].mine} ELSE {})
    BY <1>1 DEF IInv, TypeOK
<1>3. Accounts' /\ doubtful \subseteq doubtful'
    BY <1>1, AccountsUnchanged
<1>4. QED
    BY <1>1, <1>2, <1>3, Ends

\* Giving up the wait neither.
LEMMA TimeOutKeeps ==
    ASSUME IInv, NEW p \in Procs, TimeOut(p)
    PROVE  IInv'
<1>1. /\ UNCHANGED <<day, kaggle, ledger>> /\ sealed' = sealed /\ crashes' = crashes /\ lost' = lost
      /\ reconciled' = reconciled /\ doubtful' = doubtful /\ pc[p] = "wait" /\ Become(p, "idle", Nothing)
    BY DEF TimeOut, shared, noted
<1>2. crashes' \in Nat /\ lost' = lost \cup (IF pc[p] = "record" THEN {job[p].mine} ELSE {})
    BY <1>1 DEF IInv, TypeOK
<1>3. Accounts' /\ doubtful \subseteq doubtful'
    BY <1>1, AccountsUnchanged
<1>4. QED
    BY <1>1, <1>2, <1>3, Ends

\* The row that is waited for is the one the number names, or an older one and then the
\* number is in doubt.
LEMMA CollectKeeps ==
    ASSUME IInv, NEW p \in Procs, Collect(p)
    PROVE  IInv'
<1> DEFINE ref == job[p].ref
           sid == job[p].sid
<1>1. PICK shown \in 1..Len(kaggle) :
          /\ Seal(sid, AwaitedRow(ref, shown))
          /\ doubtful' = IF IsSealed(sid) THEN doubtful ELSE doubtful \cup ({ref} \ (0..shown))
    BY DEF Collect
<1>2. /\ UNCHANGED <<day, kaggle, ledger>> /\ crashes' = crashes /\ lost' = lost
      /\ reconciled' = reconciled /\ pc[p] = "wait" /\ Become(p, "idle", Nothing)
    BY DEF Collect
<1>3. crashes' \in Nat /\ lost' = lost \cup (IF pc[p] = "record" THEN {job[p].mine} ELSE {})
    BY <1>2 DEF IInv, TypeOK
<1>4. /\ ref \in Numbers \cup {NoRef} /\ sid \in ScoreIds
      /\ sid \in Numbers => sid = ref
    BY <1>2 DEF IInv, JobOK, TypeOK, Jobs
<1>5. Len(kaggle) \in Nat /\ Len(kaggle) <= MaxRows /\ DOMAIN kaggle = 1..Len(kaggle)
    BY DEF IInv, TypeOK, RowsArrived
<1>6. Numbers \subseteq Nat \ {0} /\ NoRef = 0
    BY NumbersAre DEF NoRef
<1> HIDE DEF ref, sid
<1>7. PICK row : row = AwaitedRow(ref, shown)
    OBVIOUS
<1>8. /\ row \in Rows /\ row \in DOMAIN kaggle
      /\ ref \in 1..shown => row = ref
      /\ ref \in Numbers => row <= ref
    BY <1>4, <1>5, <1>6, <1>7, BoundAssumption DEF AwaitedRow, Rows
<1>9. doubtful \subseteq doubtful' /\ doubtful' \subseteq Numbers
    <2>1. {ref} \ (0..shown) \subseteq Numbers
        BY <1>4, <1>6
    <2>2. doubtful \subseteq Numbers
        BY DEF IInv, Accounts, SealedOK
    <2>3. QED
        BY <1>1, <2>1, <2>2
<1>10. ASSUME ~IsSealed(sid)
       PROVE  /\ sid \in Numbers \ doubtful' => sid = row
              /\ sid \in Rows => row <= sid
    <2>1. ASSUME sid \in Numbers \ doubtful' PROVE sid = row
        <3>1. sid = ref /\ ref \in 0..shown /\ ref # 0 /\ ref \in Nat
            BY <1>1, <1>4, <1>6, <1>10, <2>1
        <3>2. QED
            BY <1>8, <3>1
    <2>2. ASSUME sid \in Rows PROVE row <= sid
        BY <1>4, <1>8, <2>2 DEF Numbers
    <2>3. QED
        BY <2>1, <2>2
<1>11. SealedOK'
    BY <1>1, <1>2, <1>4, <1>7, <1>8, <1>9, <1>10, SealedKept
<1>12. Spends' = Spends
    BY <1>2 DEF Spends
<1>13. RecordsOK'
    BY <1>2, <1>9, <1>12, RecordsKept
<1>14. PassesOK'
    <2>1. {} \in SUBSET Rows /\ reconciled' = reconciled \cup {}
        BY <1>2
    <2>2. QED
        BY <1>12, <2>1, PassesKept
<1>15. Accounts'
    BY <1>11, <1>13, <1>14 DEF Accounts
<1>16. QED
    BY <1>2, <1>3, <1>9, <1>15, Ends

\* A row that was uploaded and not recorded is lost with its process.
LEMMA CrashKeeps ==
    ASSUME IInv, NEW p \in Procs, Crash(p)
    PROVE  IInv'
<1>1. /\ UNCHANGED <<day, kaggle, ledger>> /\ sealed' = sealed /\ crashes' = crashes + 1
      /\ lost' = (IF pc[p] = "record" THEN lost \cup {job[p].mine} ELSE lost)
      /\ reconciled' = reconciled /\ doubtful' = doubtful /\ Become(p, "idle", Nothing)
    BY DEF Crash, shared
<1>2. crashes' \in Nat /\ lost' = lost \cup (IF pc[p] = "record" THEN {job[p].mine} ELSE {})
    BY <1>1 DEF IInv, TypeOK
<1>3. Accounts' /\ doubtful \subseteq doubtful'
    BY <1>1, AccountsUnchanged
<1>4. QED
    BY <1>1, <1>2, <1>3, Ends

\* What reconcile takes for known has a record.
LEMMA ReadKnownKeeps ==
    ASSUME IInv, NEW p \in Procs, ReadKnown(p)
    PROVE  IInv'
<1>1. PICK what : what = [Nothing EXCEPT !.known = KnownReferences]
    OBVIOUS
<1>2. /\ UNCHANGED <<day, kaggle, ledger>> /\ sealed' = sealed /\ crashes' = crashes /\ lost' = lost
      /\ reconciled' = reconciled /\ doubtful' = doubtful /\ pc[p] = "idle" /\ Become(p, "fetch", what)
    BY <1>1 DEF ReadKnown, shared, noted
<1>3. KnownReferences \in SUBSET Numbers
    BY DEF KnownReferences, IInv, TypeOK, Spends, Records
<1>4. what \in Jobs /\ what.known = KnownReferences /\ what.left = 0 /\ what.listed = 0
    BY <1>1, <1>3, NothingIsJob DEF Nothing, Jobs
<1>5. "fetch" \in Places \ {"upload", "record"}
    BY DEF Places
<1>6. pc'[p] = "fetch" /\ job'[p] = what
    BY <1>2, <1>4, <1>5, BecomeIs DEF IInv
<1>7. \A n \in KnownReferences : KnownRow(n)'
    BY <1>2 DEF KnownReferences, KnownRow, Spends
<1>8. JobOK(p)'
    <2>1. (job'[p].left + 1)..job'[p].listed = {}
        BY <1>4, <1>6
    <2>2. QED
        BY <1>4, <1>6, <1>7, <2>1 DEF JobOK
<1>9. crashes' \in Nat /\ lost' = lost \cup (IF pc[p] = "record" THEN {job[p].mine} ELSE {})
    BY <1>2 DEF IInv, TypeOK
<1>10. Accounts' /\ doubtful \subseteq doubtful'
    BY <1>2, AccountsUnchanged
<1>11. QED
    BY <1>2, <1>4, <1>5, <1>8, <1>9, <1>10, MovesOn

\* The rows that are listed are there.
LEMMA FetchKeeps ==
    ASSUME IInv, NEW p \in Procs, Fetch(p)
    PROVE  IInv'
<1>1. /\ UNCHANGED <<day, kaggle, ledger>> /\ sealed' = sealed /\ crashes' = crashes /\ lost' = lost
      /\ reconciled' = reconciled /\ doubtful' = doubtful /\ pc[p] = "fetch"
    BY DEF Fetch, shared, noted
<1>2. crashes' \in Nat /\ lost' = lost \cup (IF pc[p] = "record" THEN {job[p].mine} ELSE {})
    BY <1>1 DEF IInv, TypeOK
<1>3. Accounts' /\ doubtful \subseteq doubtful'
    BY <1>1, AccountsUnchanged
<1>4. CASE Become(p, "idle", Nothing)
    BY <1>1, <1>2, <1>3, <1>4, Ends
<1>5. ASSUME NEW shown \in 1..Len(kaggle),
             Become(p, "repair", [job[p] EXCEPT !.listed = shown, !.left = shown])
      PROVE  IInv'
    <2>1. Len(kaggle) \in Nat /\ Len(kaggle) <= MaxRows
        BY DEF IInv, TypeOK, RowsArrived
    <2>2. shown \in 0..MaxRows /\ shown \in Nat /\ shown >= 1 /\ shown <= Len(kaggle)
        BY <2>1, BoundAssumption
    <2>3. PICK what : what = [job[p] EXCEPT !.listed = shown, !.left = shown]
        OBVIOUS
    <2>4. job[p] \in Jobs /\ JobOK(p)
        BY DEF IInv, TypeOK
    <2>5. what \in Jobs /\ what.known = job[p].known /\ what.left = shown /\ what.listed = shown
        BY <2>2, <2>3, <2>4 DEF Jobs
    <2>6. "repair" \in Places \ {"upload", "record"} /\ Become(p, "repair", what)
        BY <1>5, <2>3 DEF Places
    <2>7. pc'[p] = "repair" /\ job'[p] = what
        BY <2>5, <2>6, BecomeIs DEF IInv
    <2>8. \A n \in what.known : KnownRow(n)'
        BY <1>1, <2>4, <2>5 DEF JobOK, KnownRow, Spends
    <2>9. JobOK(p)'
        <3>1. (job'[p].left + 1)..job'[p].listed = {}
            BY <2>2, <2>5, <2>7
        <3>2. job'[p].left \in 1..job'[p].listed /\ job'[p].listed <= Len(kaggle')
            BY <1>1, <2>2, <2>5, <2>7
        <3>3. QED
            BY <2>7, <2>8, <3>1, <3>2 DEF JobOK
    <2>10. QED
        BY <1>1, <1>2, <1>3, <2>5, <2>6, <2>9, MovesOn
<1>6. QED
    BY <1>4, <1>5 DEF Fetch

-----------------------------------------------------------------------------
\* The check.

\* The processes that hold an unrecorded row.
Holders == {p \in Procs : pc[p] = "record"}

\* There are no fewer of them than unrecorded rows.
LEMMA FlightIsSmall ==
    IsFiniteSet(InFlight) /\ Cardinality(InFlight) \in Nat /\ Cardinality(InFlight) <= Cardinality(Holders)
<1> DEFINE held == [q \in Holders |-> job[q].mine]
<1>1. InFlight = {held[q] : q \in Holders}
    BY DEF InFlight, Holders
<1>2. held \in Surjection(Holders, InFlight)
    <2>1. held \in [Holders -> InFlight]
        BY DEF InFlight, Holders
    <2>2. \A n \in InFlight : \E q \in Holders : held[q] = n
        BY <1>1
    <2>3. QED
        BY <2>1, <2>2 DEF Surjection
<1>3. IsFiniteSet(Holders)
    <2>1. Holders \in SUBSET Procs
        BY DEF Holders
    <2>2. QED
        BY <2>1, ProcsFinite
<1> HIDE DEF held
<1>4. IsFiniteSet(InFlight) /\ Cardinality(InFlight) <= Cardinality(Holders)
    BY <1>2, <1>3, FS_Surjection
<1>5. QED
    BY <1>4, FS_CardinalityType

\* A part of the rows in flight and those that are not.
LEMMA WithFlight ==
    ASSUME NEW k \in Nat, NEW S \in SUBSET (1..k), NEW T \in SUBSET (1..k), S \subseteq T \cup InFlight
    PROVE  /\ Cardinality(S) \in Nat /\ Cardinality(T) \in Nat
           /\ Cardinality(S) <= Cardinality(T) + Cardinality(Holders)
<1>1. IsFiniteSet(S) /\ IsFiniteSet(T) /\ Cardinality(S) \in Nat /\ Cardinality(T) \in Nat
    BY RowsFinite
<1>2. IsFiniteSet(InFlight) /\ Cardinality(InFlight) \in Nat /\ Cardinality(InFlight) <= Cardinality(Holders)
    BY FlightIsSmall
<1>3. /\ IsFiniteSet(T \cup InFlight)
      /\ Cardinality(T \cup InFlight) = Cardinality(T) + Cardinality(InFlight) - Cardinality(T \cap InFlight)
    BY <1>1, <1>2, FS_Union
<1>4. Cardinality(T \cap InFlight) \in Nat
    <2>1. T \cap InFlight \in SUBSET T
        OBVIOUS
    <2>2. QED
        BY <1>1, <2>1, PartIsSmaller
<1>5. Cardinality(S) <= Cardinality(T \cup InFlight)
    BY <1>3, PartIsSmaller
<1>6. Holders \in SUBSET Procs
    BY DEF Holders
<1>7. Cardinality(Holders) \in Nat
    BY <1>6, ProcsFinite
<1>8. QED
    BY <1>1, <1>2, <1>3, <1>4, <1>5, <1>7

\* A check sees all rows but those in flight: the day, and the bytes, have room for one
\* process each that is on the way.
LEMMA CheckKeeps ==
    ASSUME IInv, NEW p \in Procs, NEW file \in Files, Check(p, file)
    PROVE  IInv'
<1>1. PICK what : what = [Nothing EXCEPT !.file = file]
    OBVIOUS
<1>2. /\ UNCHANGED <<day, kaggle, ledger>> /\ sealed' = sealed /\ crashes' = crashes /\ lost' = lost
      /\ reconciled' = reconciled /\ doubtful' = doubtful /\ pc[p] = "idle" /\ Become(p, "upload", what)
      /\ SubmittedOn(day) < DailyCap /\ file \notin Fingerprints
    BY <1>1 DEF Check, shared, noted
<1>3. what \in Jobs /\ what.file = file /\ what.left = 0 /\ what.listed = 0
    BY <1>1, NothingIsJob DEF Nothing, Jobs
<1>4. "upload" \in Places /\ "upload" # "record"
    BY DEF Places
<1>5. /\ pc' \in [Procs -> Places] /\ job' \in [Procs -> Jobs]
      /\ pc'[p] = "upload" /\ job'[p] = what
      /\ \A q \in Procs : q # p => pc'[q] = pc[q] /\ job'[q] = job[q]
    BY <1>2, <1>3, <1>4, BecomeIs DEF IInv
<1>6. Spends' = Spends
    BY <1>2 DEF Spends
<1>7. \A q \in Procs : JobOK(q)'
    <2>1. JobOK(p)'
        <3>1. (job'[p].left + 1)..job'[p].listed = {}
            BY <1>3, <1>5
        <3>2. QED
            BY <1>3, <1>5, <3>1 DEF JobOK
    <2>2. ASSUME NEW q \in Procs, q # p PROVE JobOK(q)'
        BY <1>2, <1>3, <1>4, <1>6, <2>2, OthersKnow
    <2>3. QED
        BY <2>1, <2>2
<1>8. OwnRows' /\ InFlight' = InFlight
    BY <1>2, <1>3, <1>4, FlightEnds
<1>9. SpendRecorded' /\ TodayRecorded'
    BY <1>2, <1>8, SumsStay
<1>10. TypeOK' /\ RowsArrived' /\ Accounts'
    <2>1. TypeOK'
        BY <1>2, <1>5 DEF IInv, TypeOK, Places
    <2>2. RowsArrived'
        BY <1>2, <1>6 DEF IInv, RowsArrived
    <2>3. QED
        BY <1>2, <2>1, <2>2, AccountsUnchanged
<1>11. Len(kaggle) \in Nat /\ DOMAIN kaggle = 1..Len(kaggle) /\ DailyCap \in Nat
    BY CapAssumption DEF IInv, TypeOK
<1>12. Holders \in SUBSET Procs /\ Uploading' \in SUBSET Procs /\ Holders \cap Uploading' = {}
    BY <1>2, <1>5 DEF Holders, Uploading
<1>13. /\ Cardinality(Holders) + Cardinality(Uploading') <= Cardinality(Procs)
       /\ Cardinality(Holders) \in Nat /\ Cardinality(Uploading') \in Nat /\ Cardinality(Procs) \in Nat
    <2>1. IsFiniteSet(Holders) /\ IsFiniteSet(Uploading') /\ Holders \cup Uploading' \in SUBSET Procs
        BY <1>12, ProcsFinite
    <2>2. Cardinality(Holders \cup Uploading') = Cardinality(Holders) + Cardinality(Uploading')
        BY <1>12, <2>1, PartsAddUp
    <2>3. QED
        BY <1>12, <2>1, <2>2, ProcsFinite
<1>14. RoomOnDay'
    <2> SUFFICES ASSUME NEW d \in 1..MaxDays
                 PROVE  Cardinality((OwnOn(d) \ lost)') + (IF d = day' THEN Cardinality(Uploading') ELSE 0)
                            <= DailyCap + Cardinality(Procs) - 1
        BY DEF RoomOnDay
    <2>1. (OwnOn(d) \ lost)' = OwnOn(d) \ lost
        BY <1>2 DEF OwnOn
    <2>2. CASE d = day
        <3> DEFINE unlost == OwnOn(d) \ lost
                   settled == OwnOn(d) \ (lost \cup InFlight)
        <3>1. /\ unlost \in SUBSET (1..Len(kaggle)) /\ settled \in SUBSET (1..Len(kaggle))
              /\ unlost \subseteq settled \cup InFlight
            BY <1>11 DEF OwnOn
        <3>2. Cardinality(settled) <= SubmittedOn(day)
            BY <2>2 DEF IInv, TodayRecorded
        <3> HIDE DEF unlost, settled
        <3>3. /\ Cardinality(unlost) \in Nat /\ Cardinality(settled) \in Nat
              /\ Cardinality(unlost) <= Cardinality(settled) + Cardinality(Holders)
            BY <1>11, <3>1, WithFlight
        <3>4. SubmittedOn(day) \in Nat
            <4>1. IsFiniteSet(Spends) /\ \A rec \in Spends : ledger[rec] \in Nat
                BY DEF IInv, RowsArrived, TypeOK, IsABag, BagToSet, Spends
            <4>2. {rec \in Spends : rec.day = day} \in SUBSET Spends
                OBVIOUS
            <4>3. IsFiniteSet({rec \in Spends : rec.day = day})
                BY <4>1, <4>2, FS_Subset
            <4>4. QED
                BY <4>1, <4>3, SumNat DEF SubmittedOn
        <3>5. Cardinality(unlost) + Cardinality(Uploading') <= DailyCap + Cardinality(Procs) - 1
            BY <1>2, <1>11, <1>13, <3>2, <3>3, <3>4
        <3>6. QED
            BY <1>2, <2>1, <2>2, <3>5 DEF unlost
    <2>3. CASE d # day
        <3>1. Cardinality(OwnOn(d) \ lost) + (IF d = day THEN Cardinality(Uploading) ELSE 0)
                  <= DailyCap + Cardinality(Procs) - 1
            BY DEF IInv, RoomOnDay
        <3>2. OwnOn(d) \ lost \in SUBSET (1..Len(kaggle))
            BY <1>11 DEF OwnOn
        <3>3. Cardinality(OwnOn(d) \ lost) \in Nat
            BY <1>11, <3>2, RowsFinite
        <3>4. QED
            BY <1>2, <1>11, <1>13, <2>1, <2>3, <3>1, <3>3
    <2>4. QED
        BY <2>2, <2>3
<1>15. RoomForBytes'
    <2> SUFFICES ASSUME NEW f \in Files
                 PROVE  Cardinality((RowsOf(f) \ lost)') + Cardinality((UploadingOf(f))') <= Cardinality(Procs)
        BY DEF RoomForBytes
    <2>1. (RowsOf(f) \ lost)' = RowsOf(f) \ lost
        BY <1>2 DEF RowsOf
    <2>2. CASE f = file
        <3> DEFINE unlost == RowsOf(f) \ lost
                   settled == RowsOf(f) \ (lost \cup InFlight)
        <3>1. /\ unlost \in SUBSET (1..Len(kaggle)) /\ settled \in SUBSET (1..Len(kaggle))
              /\ unlost \subseteq settled \cup InFlight
            BY <1>11 DEF RowsOf
        <3>2. {rec \in Spends : rec.file = f} = {}
            BY <1>2, <2>2, FileAssumption DEF Fingerprints
        <3>3. Cardinality(settled) = 0
            <4>1. SumFunctionOnSet(ledger, {rec \in Spends : rec.file = f}) = Cardinality(settled)
                BY DEF IInv, SpendRecorded
            <4>2. SumFunctionOnSet(ledger, {}) = 0
                BY SumEmpty
            <4> HIDE DEF settled
            <4>3. QED
                BY <3>2, <4>1, <4>2
        <3> HIDE DEF unlost, settled
        <3>4. /\ Cardinality(unlost) \in Nat
              /\ Cardinality(unlost) <= Cardinality(settled) + Cardinality(Holders)
            BY <1>11, <3>1, WithFlight
        <3>5. /\ Cardinality((UploadingOf(f))') <= Cardinality(Uploading')
              /\ Cardinality((UploadingOf(f))') \in Nat
            <4>1. (UploadingOf(f))' \in SUBSET Uploading'
                BY DEF UploadingOf
            <4>2. IsFiniteSet(Uploading')
                BY <1>12, ProcsFinite
            <4>3. QED
                BY <4>1, <4>2, PartIsSmaller
        <3>6. Cardinality(unlost) + Cardinality((UploadingOf(f))') <= Cardinality(Procs)
            BY <1>13, <3>3, <3>4, <3>5
        <3>7. QED
            BY <2>1, <3>6 DEF unlost
    <2>3. CASE f # file
        <3>1. (UploadingOf(f))' = UploadingOf(f)
            BY <1>2, <1>3, <1>5, <2>3 DEF UploadingOf, Uploading
        <3>2. QED
            BY <2>1, <3>1 DEF IInv, RoomForBytes
    <2>4. QED
        BY <2>2, <2>3
<1>16. QED
    BY <1>7, <1>8, <1>9, <1>10, <1>14, <1>15 DEF IInv

-----------------------------------------------------------------------------
\* Rows arrive, days pass.

\* One row more, and nothing else about the rows.
LEMMA OneRowMore ==
    ASSUME TypeOK, NEW row \in [file : Files \cup {NoFile}, day : 1..MaxDays],
           kaggle' = Append(kaggle, row)
    PROVE  /\ kaggle' \in Seq([file : Files \cup {NoFile}, day : 1..MaxDays])
           /\ Len(kaggle) \in Nat /\ Len(kaggle') = Len(kaggle) + 1
           /\ DOMAIN kaggle = 1..Len(kaggle) /\ DOMAIN kaggle' = DOMAIN kaggle \cup {Len(kaggle) + 1}
           /\ Len(kaggle) + 1 \notin DOMAIN kaggle
           /\ kaggle' # <<>> /\ kaggle'[Len(kaggle) + 1] = row
           /\ \A n \in DOMAIN kaggle : kaggle'[n] = kaggle[n]
<1> DEFINE R == [file : Files \cup {NoFile}, day : 1..MaxDays]
<1>1. kaggle \in Seq(R)
    BY DEF TypeOK
<1> HIDE DEF R
<1>2. row \in R
    BY DEF R
<1>3. /\ kaggle' \in Seq(R) /\ Len(kaggle) \in Nat /\ Len(kaggle') = Len(kaggle) + 1
      /\ DOMAIN kaggle = 1..Len(kaggle) /\ DOMAIN kaggle' = 1..(Len(kaggle) + 1)
      /\ kaggle'[Len(kaggle) + 1] = row
      /\ \A n \in 1..Len(kaggle) : kaggle'[n] = kaggle[n]
    BY <1>1, <1>2, AppendProperties
<1>4. kaggle' # <<>>
    BY <1>3
<1>5. QED
    BY <1>3, <1>4 DEF R

\* What a command knows stays true when a row arrives.
LEMMA KnowsWithRow ==
    ASSUME IInv, NEW row \in [file : Files \cup {NoFile}, day : 1..MaxDays],
           kaggle' = Append(kaggle, row), ledger' = ledger, lost' = lost,
           doubtful \subseteq doubtful',
           NEW q \in Procs, pc'[q] = pc[q] /\ job'[q] = job[q]
    PROVE  JobOK(q)'
<1>1. /\ Len(kaggle) \in Nat /\ Len(kaggle') \in Nat /\ Len(kaggle) <= Len(kaggle')
      /\ DOMAIN kaggle \subseteq DOMAIN kaggle' /\ (kaggle # <<>> => kaggle' # <<>>)
      /\ \A n \in DOMAIN kaggle : kaggle'[n] = kaggle[n]
    BY OneRowMore DEF IInv
<1>2. Spends \subseteq Spends'
    BY DEF Spends
<1>3. pc[q] = "record" => job[q].mine \notin lost'
    BY DEF IInv, JobOK
<1>4. QED
    BY <1>1, <1>2, <1>3, StillKnows

\* A row that is counted elsewhere, or not at all.
LEMMA RowsWithRow ==
    ASSUME IInv, NEW row \in [file : Files \cup {NoFile}, day : 1..MaxDays], row.day = day,
           kaggle' = Append(kaggle, row)
    PROVE  /\ \A d : OwnOn(d)' = OwnOn(d) \cup (IF d = day /\ row.file # NoFile THEN {Len(kaggle) + 1} ELSE {})
           /\ \A f : RowsOf(f)' = RowsOf(f) \cup (IF row.file = f THEN {Len(kaggle) + 1} ELSE {})
           /\ Len(kaggle) + 1 \notin lost
           /\ Len(kaggle) < MaxRows => RowsArrived' \/ ~(lost' = lost /\ ledger' = ledger /\ day' = day)
<1>1. /\ Len(kaggle) \in Nat /\ Len(kaggle') = Len(kaggle) + 1
      /\ DOMAIN kaggle' = DOMAIN kaggle \cup {Len(kaggle) + 1}
      /\ Len(kaggle) + 1 \notin DOMAIN kaggle /\ kaggle'[Len(kaggle) + 1] = row
      /\ \A n \in DOMAIN kaggle : kaggle'[n] = kaggle[n]
    BY OneRowMore DEF IInv
<1>2. \A d : OwnOn(d)' = OwnOn(d) \cup (IF d = day /\ row.file # NoFile THEN {Len(kaggle) + 1} ELSE {})
    BY <1>1 DEF OwnOn
<1>3. \A f : RowsOf(f)' = RowsOf(f) \cup (IF row.file = f THEN {Len(kaggle) + 1} ELSE {})
    BY <1>1 DEF RowsOf
<1>4. Len(kaggle) + 1 \notin lost
    BY <1>1 DEF IInv, RowsArrived
<1>5. ASSUME Len(kaggle) < MaxRows, lost' = lost, ledger' = ledger, day' = day PROVE RowsArrived'
    <2>1. Len(kaggle') <= MaxRows
        BY <1>1, <1>5, BoundAssumption
    <2>2. Spends' = Spends
        BY <1>5 DEF Spends
    <2>3. day \in Int
        BY DEF IInv, TypeOK
    <2>4. \A n \in DOMAIN kaggle' : kaggle'[n].day <= day'
        BY <1>1, <1>5, <2>3 DEF IInv, RowsArrived
    <2>5. QED
        BY <1>1, <1>5, <2>1, <2>2, <2>4 DEF IInv, RowsArrived
<1>6. QED
    BY <1>2, <1>3, <1>4, <1>5

\* An uploaded row is in flight: it has left the way and is not on the ledger yet.
LEMMA UploadKeeps ==
    ASSUME IInv, NEW p \in Procs, Upload(p)
    PROVE  IInv'
<1>1. PICK row : row = [file |-> job[p].file, day |-> day]
    OBVIOUS
<1>2. PICK new : new = Len(kaggle) + 1
    OBVIOUS
<1>3. PICK ref \in {NoRef, new} \cup Strays :
          /\ Become(p, "record", [job[p] EXCEPT !.mine = new, !.ref = ref, !.sid = ScoreId(ref, job[p].file)])
          /\ doubtful' = doubtful \cup ({ref} \ {NoRef, new})
    BY <1>2 DEF Upload
<1>4. PICK what : what = [job[p] EXCEPT !.mine = new, !.ref = ref, !.sid = ScoreId(ref, job[p].file)]
    OBVIOUS
<1>5. /\ pc[p] = "upload" /\ Len(kaggle) < MaxRows /\ kaggle' = Append(kaggle, row)
      /\ day' = day /\ ledger' = ledger /\ sealed' = sealed /\ crashes' = crashes /\ lost' = lost
      /\ reconciled' = reconciled /\ Become(p, "record", what)
    BY <1>1, <1>2, <1>3, <1>4 DEF Upload
<1>6. /\ JobOK(p) /\ job[p] \in Jobs /\ job[p].file \in Files /\ day \in 1..MaxDays
    BY <1>5 DEF IInv, JobOK, TypeOK
<1>7. row \in [file : Files \cup {NoFile}, day : 1..MaxDays] /\ row.day = day /\ row.file = job[p].file
    BY <1>1, <1>6
<1>8. /\ kaggle' \in Seq([file : Files \cup {NoFile}, day : 1..MaxDays])
      /\ Len(kaggle) \in Nat /\ DOMAIN kaggle = 1..Len(kaggle)
      /\ DOMAIN kaggle' = DOMAIN kaggle \cup {new}
      /\ new \notin DOMAIN kaggle /\ kaggle'[new] = row
    BY <1>2, <1>5, <1>7, OneRowMore DEF IInv
<1>9. new \in Rows /\ new \in 0..MaxRows /\ new # NoRef
    BY <1>2, <1>5, <1>8, BoundAssumption DEF Rows, NoRef
<1>10. /\ what \in Jobs /\ what.mine = new /\ what.ref = ref /\ what.sid = ScoreId(ref, what.file)
       /\ what.file = job[p].file /\ what.left = job[p].left /\ what.listed = job[p].listed
    <2>1. ScoreId(ref, job[p].file) \in ScoreIds /\ ref \in Numbers \cup {NoRef}
        BY <1>3, <1>6, <1>9 DEF ScoreId, ScoreIds, Numbers
    <2>2. PICK sid \in ScoreIds : sid = ScoreId(ref, job[p].file)
        BY <2>1
    <2>3. what = [job[p] EXCEPT !.mine = new, !.ref = ref, !.sid = sid]
        BY <1>4, <2>2
    <2>4. QED
        BY <1>6, <1>9, <2>1, <2>2, <2>3 DEF Jobs
<1>11. "record" \in Places /\ doubtful \subseteq doubtful' /\ doubtful' \subseteq Numbers
    BY <1>3 DEF Places, IInv, Accounts, SealedOK, Numbers
<1>12. /\ pc' \in [Procs -> Places] /\ job' \in [Procs -> Jobs]
       /\ pc'[p] = "record" /\ job'[p] = what
       /\ \A q \in Procs : q # p => pc'[q] = pc[q] /\ job'[q] = job[q]
    BY <1>5, <1>10, <1>11, BecomeIs DEF IInv
<1>13. /\ \A d : OwnOn(d)' = OwnOn(d) \cup (IF d = day THEN {new} ELSE {})
       /\ \A f : RowsOf(f)' = RowsOf(f) \cup (IF job[p].file = f THEN {new} ELSE {})
       /\ new \notin lost /\ RowsArrived'
    <2>1. row.file # NoFile
        BY <1>6, <1>7, FileAssumption
    <2>2. QED
        BY <1>2, <1>5, <1>7, <2>1, RowsWithRow
<1>14. \A q \in Procs : JobOK(q)'
    <2>1. JobOK(p)'
        <3>1. job[p].left = 0 /\ job[p].listed = 0
            BY <1>5, <1>6 DEF JobOK
        <3>2. (job'[p].left + 1)..job'[p].listed = {}
            BY <1>10, <1>12, <3>1
        <3>3. /\ job'[p].mine \in DOMAIN kaggle' /\ job'[p].mine \notin lost'
              /\ kaggle'[job'[p].mine].file = job'[p].file
            BY <1>5, <1>7, <1>8, <1>10, <1>12, <1>13
        <3>4. job'[p].sid \in Numbers \ doubtful' => job'[p].sid = job'[p].mine
            <4>1. job[p].file \notin Numbers
                BY <1>6, NumbersAre
            <4>2. QED
                BY <1>3, <1>10, <1>12, <4>1 DEF ScoreId
        <3>5. QED
            BY <1>6, <1>10, <1>12, <3>1, <3>2, <3>3, <3>4 DEF JobOK
    <2>2. ASSUME NEW q \in Procs, q # p PROVE JobOK(q)'
        BY <1>5, <1>7, <1>11, <1>12, <2>2, KnowsWithRow
    <2>3. QED
        BY <2>1, <2>2
<1>15. TypeOK' /\ Accounts'
    <2>1. Accounts'
        <3>1. \A n \in DOMAIN kaggle : n \in DOMAIN kaggle' /\ kaggle'[n] = kaggle[n]
            BY <1>5, <1>7, <1>8, OneRowMore DEF IInv
        <3>2. QED
            BY <1>5, <1>11, <3>1, AccountsStay
    <2>2. TypeOK'
        BY <1>5, <1>8, <1>12, <2>1 DEF IInv, TypeOK, Places, Accounts, SealedOK, PassesOK
    <2>3. QED
        BY <2>1, <2>2
<1>16. \A q \in Procs : pc[q] = "record" => job[q].mine \in DOMAIN kaggle
    BY DEF IInv, JobOK
<1>17. OwnRows'
    BY <1>8, <1>10, <1>12, <1>16 DEF IInv, OwnRows
<1>18. InFlight' = InFlight \cup {new}
    <2>1. \A n : n \in InFlight <=> \E q \in Holders : n = job[q].mine
        BY DEF InFlight, Holders
    <2>2. \A n : n \in InFlight' <=> \E q \in Holders' : n = job'[q].mine
        BY DEF InFlight, Holders
    <2>3. Holders' = Holders \cup {p} /\ p \notin Holders /\ Holders \subseteq Procs
        BY <1>5, <1>12 DEF Holders
    <2>4. \A n : n \in InFlight' <=> n \in InFlight \/ n = new
        BY <1>10, <1>12, <2>1, <2>2, <2>3
    <2>5. QED
        BY <2>4
<1>19. SpendRecorded'
    <2>1. \A f : (RowsOf(f) \ (lost \cup InFlight))' = RowsOf(f) \ (lost \cup InFlight)
        <3> TAKE f
        <3>1. RowsOf(f) \subseteq DOMAIN kaggle /\ RowsOf(f)' = RowsOf(f) \cup (IF job[p].file = f THEN {new} ELSE {})
            BY <1>13 DEF RowsOf
        <3>2. QED
            BY <1>5, <1>8, <1>18, <3>1
    <2>2. Spends' = Spends
        BY <1>5 DEF Spends
    <2>3. QED
        BY <1>5, <2>1, <2>2 DEF IInv, SpendRecorded
<1>20. TodayRecorded'
    <2>1. (OwnOn(day) \ (lost \cup InFlight))' = OwnOn(day) \ (lost \cup InFlight)
        <3>1. OwnOn(day) \subseteq DOMAIN kaggle /\ OwnOn(day)' = OwnOn(day) \cup {new}
            BY <1>5, <1>13 DEF OwnOn
        <3>2. QED
            BY <1>5, <1>8, <1>18, <3>1
    <2>2. SubmittedOn(day)' = SubmittedOn(day)
        BY <1>5 DEF SubmittedOn, Spends
    <2>3. QED
        BY <2>1, <2>2 DEF IInv, TodayRecorded
<1>21. /\ Uploading \in SUBSET Procs /\ p \in Uploading /\ Uploading' = Uploading \ {p}
       /\ UploadingOf(job[p].file) \in SUBSET Procs /\ p \in UploadingOf(job[p].file)
       /\ \A f : (UploadingOf(f))' = UploadingOf(f) \ {p}
    BY <1>5, <1>12 DEF Uploading, UploadingOf
<1>22. ASSUME NEW S \in SUBSET Procs, p \in S
       PROVE  Cardinality(S \ {p}) = Cardinality(S) - 1 /\ Cardinality(S) \in Nat
    BY <1>22, ProcsFinite, FS_RemoveElement
<1>23. ASSUME NEW S \in SUBSET DOMAIN kaggle
       PROVE  /\ Cardinality(S \cup {new}) = Cardinality(S) + 1 /\ Cardinality(S) \in Nat
    <2>1. IsFiniteSet(S) /\ Cardinality(S) \in Nat
        BY <1>8, RowsFinite
    <2>2. QED
        BY <1>8, <2>1, OneElementMore
<1>24. Cardinality(Procs) \in Nat /\ DailyCap \in Nat
    BY ProcsFinite, CapAssumption
<1>25. RoomOnDay'
    <2> SUFFICES ASSUME NEW d \in 1..MaxDays
                 PROVE  Cardinality((OwnOn(d) \ lost)') + (IF d = day' THEN Cardinality(Uploading') ELSE 0)
                            <= DailyCap + Cardinality(Procs) - 1
        BY DEF RoomOnDay
    <2>1. Cardinality(OwnOn(d) \ lost) + (IF d = day THEN Cardinality(Uploading) ELSE 0)
              <= DailyCap + Cardinality(Procs) - 1
        BY DEF IInv, RoomOnDay
    <2>2. OwnOn(d) \ lost \in SUBSET DOMAIN kaggle
        BY DEF OwnOn
    <2>3. CASE d = day
        <3>1. (OwnOn(d) \ lost)' = (OwnOn(d) \ lost) \cup {new}
            BY <1>5, <1>13, <2>3
        <3>2. /\ Cardinality((OwnOn(d) \ lost)') = Cardinality(OwnOn(d) \ lost) + 1
              /\ Cardinality(OwnOn(d) \ lost) \in Nat
            BY <1>23, <2>2, <3>1
        <3>3. Cardinality(Uploading') = Cardinality(Uploading) - 1 /\ Cardinality(Uploading) \in Nat
            BY <1>21, <1>22
        <3>4. QED
            BY <1>5, <1>24, <2>1, <2>3, <3>2, <3>3
    <2>4. CASE d # day
        <3>1. (OwnOn(d) \ lost)' = OwnOn(d) \ lost
            BY <1>5, <1>13, <2>4
        <3>2. QED
            BY <1>5, <2>1, <2>4, <3>1
    <2>5. QED
        BY <2>3, <2>4
<1>26. RoomForBytes'
    <2> SUFFICES ASSUME NEW f \in Files
                 PROVE  Cardinality((RowsOf(f) \ lost)') + Cardinality((UploadingOf(f))') <= Cardinality(Procs)
        BY DEF RoomForBytes
    <2>1. Cardinality(RowsOf(f) \ lost) + Cardinality(UploadingOf(f)) <= Cardinality(Procs)
        BY DEF IInv, RoomForBytes
    <2>2. RowsOf(f) \ lost \in SUBSET DOMAIN kaggle
        BY DEF RowsOf
    <2>3. CASE f = job[p].file
        <3>1. (RowsOf(f) \ lost)' = (RowsOf(f) \ lost) \cup {new}
            BY <1>5, <1>13, <2>3
        <3>2. /\ Cardinality((RowsOf(f) \ lost)') = Cardinality(RowsOf(f) \ lost) + 1
              /\ Cardinality(RowsOf(f) \ lost) \in Nat
            BY <1>23, <2>2, <3>1
        <3>3. UploadingOf(f) \in SUBSET Procs /\ p \in UploadingOf(f) /\ (UploadingOf(f))' = UploadingOf(f) \ {p}
            BY <1>21, <2>3
        <3>4. Cardinality((UploadingOf(f))') = Cardinality(UploadingOf(f)) - 1 /\ Cardinality(UploadingOf(f)) \in Nat
            BY <1>22, <3>3
        <3>5. QED
            BY <1>24, <2>1, <3>2, <3>4
    <2>4. CASE f # job[p].file
        <3>1. (RowsOf(f) \ lost)' = RowsOf(f) \ lost
            BY <1>5, <1>13, <2>4
        <3>2. p \notin UploadingOf(f) /\ (UploadingOf(f))' = UploadingOf(f) \ {p}
            BY <1>21, <2>4 DEF UploadingOf
        <3>3. (UploadingOf(f))' = UploadingOf(f)
            BY <3>2
        <3>4. QED
            BY <2>1, <3>1, <3>3
    <2>5. QED
        BY <2>3, <2>4
<1>27. QED
    BY <1>13, <1>14, <1>15, <1>17, <1>19, <1>20, <1>25, <1>26 DEF IInv

\* A row from the web site counts for no day of the loop and for no artifact.
LEMMA OutsideUploadKeeps ==
    ASSUME IInv, OutsideUpload
    PROVE  IInv'
<1>1. PICK row : row = [file |-> NoFile, day |-> day]
    OBVIOUS
<1>2. /\ kaggle' = Append(kaggle, row) /\ Len(kaggle) < MaxRows
      /\ day' = day /\ ledger' = ledger /\ sealed' = sealed /\ pc' = pc /\ job' = job
      /\ crashes' = crashes /\ lost' = lost /\ reconciled' = reconciled /\ doubtful' = doubtful
    BY <1>1 DEF OutsideUpload, noted
<1>3. row \in [file : Files \cup {NoFile}, day : 1..MaxDays] /\ row.day = day /\ row.file = NoFile
    BY <1>1 DEF IInv, TypeOK
<1>4. \A q \in Procs : JobOK(q)'
    BY <1>2, <1>3, KnowsWithRow
<1>5. /\ kaggle' \in Seq([file : Files \cup {NoFile}, day : 1..MaxDays])
    BY <1>2, <1>3, OneRowMore DEF IInv
<1>6. TypeOK'
    BY <1>2, <1>5 DEF IInv, TypeOK
<1>7. /\ \A d : OwnOn(d)' = OwnOn(d)
      /\ \A f \in Files : RowsOf(f)' = RowsOf(f)
      /\ RowsArrived'
    <2>1. \A d : OwnOn(d)' = OwnOn(d) \cup (IF d = day /\ row.file # NoFile THEN {Len(kaggle) + 1} ELSE {})
        BY <1>2, <1>3, RowsWithRow
    <2>2. \A f : RowsOf(f)' = RowsOf(f) \cup (IF row.file = f THEN {Len(kaggle) + 1} ELSE {})
        BY <1>2, <1>3, RowsWithRow
    <2>3. RowsArrived'
        BY <1>2, <1>3, RowsWithRow
    <2>4. \A f \in Files : row.file # f
        BY <1>3, FileAssumption
    <2>5. \A d : OwnOn(d)' = OwnOn(d)
        BY <1>3, <2>1
    <2>6. \A f \in Files : RowsOf(f)' = RowsOf(f)
        BY <2>2, <2>4
    <2>7. QED
        BY <2>3, <2>5, <2>6
<1>8. /\ InFlight' = InFlight /\ Uploading' = Uploading /\ \A f : (UploadingOf(f))' = UploadingOf(f)
    BY <1>2 DEF InFlight, Uploading, UploadingOf
<1>9. Spends' = Spends /\ \A d : SubmittedOn(d)' = SubmittedOn(d)
    BY <1>2 DEF Spends, SubmittedOn
<1>10. OwnRows'
    BY <1>2 DEF IInv, OwnRows
<1>11. SpendRecorded'
    BY <1>2, <1>7, <1>8, <1>9 DEF IInv, SpendRecorded
<1>12. TodayRecorded'
    <2>1. OwnOn(day)' = OwnOn(day)
        BY <1>2, <1>7
    <2>2. SubmittedOn(day)' = SubmittedOn(day)
        BY <1>2, <1>9
    <2>3. QED
        BY <1>2, <1>8, <2>1, <2>2 DEF IInv, TodayRecorded
<1>13. RoomOnDay'
    BY <1>2, <1>7, <1>8 DEF IInv, RoomOnDay
<1>14. RoomForBytes'
    BY <1>2, <1>7, <1>8 DEF IInv, RoomForBytes
<1>15. Accounts'
    <2>1. \A n \in DOMAIN kaggle : n \in DOMAIN kaggle' /\ kaggle'[n] = kaggle[n]
        BY <1>2, <1>3, OneRowMore DEF IInv
    <2>2. doubtful' \subseteq Numbers
        BY <1>2 DEF IInv, Accounts, SealedOK
    <2>3. QED
        BY <1>2, <2>1, <2>2, AccountsStay
<1>16. QED
    BY <1>4, <1>6, <1>7, <1>10, <1>11, <1>12, <1>13, <1>14, <1>15 DEF IInv

\* A new day has no rows yet, and room for those on the way.
LEMMA NextDayKeeps ==
    ASSUME IInv, NextDay
    PROVE  IInv'
<1>1. /\ day < MaxDays /\ day' = day + 1 /\ kaggle' = kaggle /\ ledger' = ledger /\ sealed' = sealed
      /\ pc' = pc /\ job' = job /\ crashes' = crashes /\ lost' = lost
      /\ reconciled' = reconciled /\ doubtful' = doubtful
    BY DEF NextDay, noted
<1>2. TypeOK /\ day \in Nat /\ day' \in 1..MaxDays
    BY <1>1, BoundAssumption DEF IInv, TypeOK
<1>3. TypeOK'
    BY <1>1, <1>2 DEF TypeOK
<1>4. Spends' = Spends /\ (\A n : KnownRow(n)' <=> KnownRow(n))
    BY <1>1 DEF Spends, KnownRow
<1>5. \A q \in Procs : JobOK(q)'
    BY <1>1, <1>4 DEF IInv, JobOK
<1>6. \A n \in DOMAIN kaggle : kaggle[n].day <= day /\ kaggle[n].day \in Nat
    <2> DEFINE R == [file : Files \cup {NoFile}, day : 1..MaxDays]
    <2>1. \A n \in DOMAIN kaggle : kaggle[n] \in R
        <3>1. kaggle \in Seq(R)
            BY <1>2 DEF TypeOK
        <3> HIDE DEF R
        <3>2. QED
            BY <3>1
    <2>2. \A r \in R : r.day \in Nat
        BY BoundAssumption
    <2> HIDE DEF R
    <2>3. QED
        BY <2>1, <2>2 DEF IInv, RowsArrived
<1>7. RowsArrived'
    BY <1>1, <1>2, <1>4, <1>6 DEF IInv, RowsArrived
<1>8. OwnRows' /\ SpendRecorded' /\ RoomForBytes'
    <2>1. \A f : RowsOf(f)' = RowsOf(f) /\ (UploadingOf(f))' = UploadingOf(f)
        BY <1>1 DEF RowsOf, UploadingOf, Uploading
    <2>2. InFlight' = InFlight
        BY <1>1 DEF InFlight
    <2>3. QED
        BY <1>1, <1>4, <2>1, <2>2 DEF IInv, OwnRows, SpendRecorded, RoomForBytes
<1>9. /\ \A d : OwnOn(d)' = OwnOn(d) /\ OwnOn(day') = {}
      /\ Uploading' = Uploading /\ InFlight' = InFlight
    BY <1>1, <1>2, <1>6 DEF OwnOn, Uploading, InFlight
<1>10. TodayRecorded'
    <2>1. SubmittedOn(day)' \in Nat
        <3>1. IsFiniteSet(Spends') /\ \A rec \in Spends' : ledger'[rec] \in Nat
            BY <1>1, <1>4, <1>2 DEF IInv, RowsArrived, TypeOK, IsABag, BagToSet, Spends
        <3>2. IsFiniteSet({rec \in Spends' : rec.day = day'})
            <4>1. {rec \in Spends' : rec.day = day'} \in SUBSET Spends'
                OBVIOUS
            <4>2. QED
                BY <3>1, <4>1, FS_Subset
        <3>3. SumFunctionOnSet(ledger', {rec \in Spends' : rec.day = day'}) \in Nat
            BY <3>1, <3>2, SumNat
        <3>4. QED
            BY <3>3 DEF SubmittedOn
    <2>2. (OwnOn(day) \ (lost \cup InFlight))' = {}
        BY <1>9
    <2>3. Cardinality((OwnOn(day) \ (lost \cup InFlight))') = 0
        BY <2>2, FS_EmptySet
    <2>4. QED
        BY <2>1, <2>3 DEF TodayRecorded
<1>11. RoomOnDay'
    <2> SUFFICES ASSUME NEW d \in 1..MaxDays
                 PROVE  Cardinality((OwnOn(d) \ lost)') + (IF d = day' THEN Cardinality(Uploading') ELSE 0)
                            <= DailyCap + Cardinality(Procs) - 1
        BY DEF RoomOnDay
    <2>1. Cardinality(OwnOn(d) \ lost) + (IF d = day THEN Cardinality(Uploading) ELSE 0)
              <= DailyCap + Cardinality(Procs) - 1
        BY DEF IInv, RoomOnDay
    <2>2. /\ Cardinality(Uploading) \in Nat /\ Cardinality(Uploading) <= Cardinality(Procs)
          /\ Cardinality(Procs) \in Nat /\ DailyCap \in Nat /\ DailyCap >= 1
        <3>1. Uploading \in SUBSET Procs
            BY DEF Uploading
        <3>2. QED
            BY <3>1, ProcsFinite, CapAssumption
    <2>3. CASE d = day'
        <3>1. (OwnOn(d) \ lost)' = {}
            BY <1>9, <2>3
        <3>2. Cardinality((OwnOn(d) \ lost)') = 0
            BY <3>1, FS_EmptySet
        <3>3. QED
            BY <1>9, <2>2, <2>3, <3>2
    <2>4. CASE d # day'
        <3>1. (OwnOn(d) \ lost)' = OwnOn(d) \ lost
            BY <1>1, <1>9
        <3>2. Cardinality(OwnOn(d) \ lost) \in Nat
            <4>1. Len(kaggle) \in Nat /\ OwnOn(d) \ lost \in SUBSET (1..Len(kaggle))
                BY <1>2 DEF TypeOK, OwnOn
            <4>2. QED
                BY <4>1, RowsFinite
        <3>3. QED
            BY <2>1, <2>2, <2>4, <3>1, <3>2
    <2>5. QED
        BY <2>3, <2>4
<1>12. Accounts'
    BY <1>1, AccountsUnchanged
<1>13. QED
    BY <1>3, <1>5, <1>7, <1>8, <1>10, <1>11, <1>12 DEF IInv

-----------------------------------------------------------------------------
\* Steps that record.

\* What does not depend on which record it is.
LEMMA RecordsOne ==
    ASSUME IInv, NEW p \in Procs, NEW where \in Places \ {"upload", "record"}, NEW what \in Jobs,
           Become(p, where, what), UNCHANGED <<day, kaggle, crashes, lost>>,
           NEW rec \in Records, Recorded(rec),
           sealed' \subseteq ScoreIds \X Rows, reconciled' \subseteq Rows, doubtful' = doubtful, JobOK(p)'
    PROVE  /\ TypeOK' /\ \A q \in Procs : JobOK(q)'
           /\ OwnRows' /\ RowsArrived' /\ RoomOnDay' /\ RoomForBytes'
           /\ InFlight' = InFlight \ (IF pc[p] = "record" THEN {job[p].mine} ELSE {})
           /\ SubmittedOn(day) \in Nat
           /\ SubmittedOn(day)' = SubmittedOn(day) + (IF rec.day = day THEN 1 ELSE 0)
           /\ \A f : /\ SumFunctionOnSet(ledger, {r \in Spends : r.file = f}) \in Nat
                     /\ SumFunctionOnSet(ledger', {r \in Spends' : r.file = f})
                            = SumFunctionOnSet(ledger, {r \in Spends : r.file = f})
                              + (IF rec.file = f THEN 1 ELSE 0)
<1>1. /\ TypeOK /\ IsFiniteSet(Spends) /\ day' = day /\ lost' = lost /\ kaggle' = kaggle
      /\ crashes' = crashes /\ doubtful \subseteq doubtful'
    BY DEF IInv, RowsArrived
<1>2. /\ IsABag(ledger') /\ Spends' = Spends \cup {rec} /\ IsFiniteSet(Spends')
      /\ BagToSet(ledger') \subseteq Records
    BY <1>1, LedgerGrows
<1>3. \A q \in Procs : JobOK(q)'
    BY <1>1, <1>2, OthersKnow
<1>4. TypeOK'
    <2>1. pc' \in [Procs -> Places] /\ job' \in [Procs -> Jobs]
        BY <1>1, BecomeIs
    <2>2. QED
        BY <1>1, <1>2, <2>1 DEF TypeOK, Places
<1>5. OwnRows' /\ InFlight' = InFlight \ (IF pc[p] = "record" THEN {job[p].mine} ELSE {})
    BY FlightEnds
<1>6. RoomOnDay' /\ RoomForBytes'
    BY <1>1, RoomStays
<1>7. RowsArrived'
    BY <1>1, <1>2 DEF IInv, RowsArrived
<1>8. DOMAIN ledger' \subseteq Records /\ Spends' = DOMAIN ledger'
    BY <1>2 DEF BagToSet, Spends
<1>9. SubmittedOn(day) \in Nat /\ SubmittedOn(day)' = SubmittedOn(day) + (IF rec.day = day THEN 1 ELSE 0)
    <2>1. {r \in Spends' : r.day = day} = DOMAIN ledger' \cap OfDay(day)
        BY <1>8 DEF OfDay
    <2>2. SubmittedOn(day)' = SumFunctionOnSet(ledger', {r \in Spends' : r.day = day})
        BY <1>1 DEF SubmittedOn
    <2>3. SubmittedOn(day) \in Nat
        BY <1>1, LedgerGrows
    <2>4. SumFunctionOnSet(ledger', DOMAIN ledger' \cap OfDay(day))
              = SubmittedOn(day) + (IF rec.day = day THEN 1 ELSE 0)
        BY <1>1, LedgerGrows
    <2>5. QED
        BY <2>1, <2>2, <2>3, <2>4
<1>10. ASSUME NEW f
       PROVE  /\ SumFunctionOnSet(ledger, {r \in Spends : r.file = f}) \in Nat
              /\ SumFunctionOnSet(ledger', {r \in Spends' : r.file = f})
                     = SumFunctionOnSet(ledger, {r \in Spends : r.file = f})
                       + (IF rec.file = f THEN 1 ELSE 0)
    <2>1. {r \in Spends' : r.file = f} = DOMAIN ledger' \cap OfFile(f)
        BY <1>8 DEF OfFile
    <2>2. {r \in Spends : r.file = f} = DOMAIN ledger \cap OfFile(f)
        BY <1>1, SumsAre
    <2>3. SumFunctionOnSet(ledger, DOMAIN ledger \cap OfFile(f)) \in Nat
        BY <1>1, LedgerGrows
    <2>4. SumFunctionOnSet(ledger', DOMAIN ledger' \cap OfFile(f))
              = SumFunctionOnSet(ledger, DOMAIN ledger \cap OfFile(f)) + (IF rec.file = f THEN 1 ELSE 0)
        BY <1>1, LedgerGrows
    <2>5. QED
        BY <2>1, <2>2, <2>3, <2>4
<1>11. QED
    BY <1>3, <1>4, <1>5, <1>6, <1>7, <1>9, <1>10

\* The row that was in flight is on the ledger now, under its own bytes and on its day
\* or a later one.
LEMMA RecordKeeps ==
    ASSUME IInv, NEW p \in Procs, Record(p)
    PROVE  IInv'
<1>1. PICK rec : rec = [day |-> day, file |-> job[p].file, ref |-> job[p].ref, sid |-> job[p].sid]
    OBVIOUS
<1>2. PICK mine : mine = job[p].mine
    OBVIOUS
<1>3. /\ pc[p] = "record" /\ Recorded(rec) /\ UNCHANGED <<day, kaggle, crashes, lost>> /\ sealed' = sealed
      /\ reconciled' = reconciled /\ doubtful' = doubtful
      /\ Become(p, "wait", [job[p] EXCEPT !.file = NoFile, !.mine = 0]) \/ Become(p, "idle", Nothing)
    BY <1>1 DEF Record, noted
<1>4. /\ job[p] \in Jobs /\ job[p].file \in Files /\ mine \in DOMAIN kaggle /\ mine \notin lost
      /\ kaggle[mine].file = job[p].file
      /\ job[p].sid = ScoreId(job[p].ref, job[p].file)
      /\ job[p].sid \in Numbers \ doubtful => job[p].sid = mine
      /\ job[p].left = 0 /\ job[p].listed = 0
    BY <1>2, <1>3 DEF IInv, TypeOK, JobOK
<1>5. rec \in Records /\ rec.day = day /\ rec.file = job[p].file
    <2>1. day \in 1..MaxDays /\ job[p].ref \in Numbers \cup {NoRef} /\ job[p].sid \in ScoreIds
        BY <1>4 DEF IInv, TypeOK, Jobs
    <2>2. QED
        BY <1>1, <1>4, <2>1 DEF Records
<1>6. Accounts' /\ sealed' \subseteq ScoreIds \X Rows /\ reconciled' \subseteq Rows
    <2>1. Spends' = Spends \cup {rec}
        BY <1>3, <1>5, LedgerGrows DEF IInv, RowsArrived
    <2>2. doubtful' \subseteq Numbers /\ \A n \in DOMAIN kaggle : n \in DOMAIN kaggle' /\ kaggle'[n] = kaggle[n]
        BY <1>3 DEF IInv, Accounts, SealedOK
    <2>3. SealedOK'
        BY <1>3, <2>2, SealedStays
    <2>4. rec.sid = job[p].sid
        BY <1>1
    <2>5. RecordsOK'
        BY <1>3, <1>4, <1>5, <2>1, <2>2, <2>4, RecordsKept
    <2>6. {} \in SUBSET Rows /\ reconciled' = reconciled \cup {} /\ Spends \subseteq Spends'
        BY <1>3, <2>1
    <2>7. PassesOK'
        BY <2>6, PassesKept
    <2>8. QED
        BY <2>3, <2>5, <2>7 DEF Accounts, SealedOK, PassesOK
<1>7. PICK where \in Places \ {"upload", "record"}, what \in Jobs : Become(p, where, what) /\ JobOK(p)'
    <2>1. CASE Become(p, "idle", Nothing)
        <3>1. Nothing \in Jobs /\ "idle" \in Places \ {"upload", "record"}
            BY NothingIsJob DEF Places
        <3>2. pc'[p] = "idle" /\ job'[p] = Nothing
            BY <2>1, <3>1, BecomeIs DEF IInv
        <3>3. JobOK(p)'
            BY <3>2, IdleOK
        <3>4. QED
            BY <2>1, <3>1, <3>3
    <2>2. CASE Become(p, "wait", [job[p] EXCEPT !.file = NoFile, !.mine = 0])
        <3>1. PICK held : held = [job[p] EXCEPT !.file = NoFile, !.mine = 0]
            OBVIOUS
        <3>2. /\ held \in Jobs /\ held.ref = job[p].ref /\ held.sid = job[p].sid
              /\ held.left = 0 /\ held.listed = 0
            <4>1. 0 \in 0..MaxRows /\ NoFile \in Files \cup {NoFile}
                BY BoundAssumption
            <4>2. QED
                BY <1>4, <3>1, <4>1 DEF Jobs
        <3>3. "wait" \in Places \ {"upload", "record"} /\ Become(p, "wait", held)
            BY <2>2, <3>1 DEF Places
        <3>4. pc'[p] = "wait" /\ job'[p] = held
            BY <3>2, <3>3, BecomeIs DEF IInv
        <3>5. kaggle # <<>>
            BY <1>4
        <3>6. job[p].sid \in Numbers => job[p].sid = job[p].ref
            <4>1. job[p].file \notin Numbers
                BY <1>4, NumbersAre
            <4>2. QED
                BY <1>4, <4>1 DEF ScoreId
        <3>7. (job'[p].left + 1)..job'[p].listed = {}
            BY <3>2, <3>4
        <3>8. JobOK(p)'
            BY <1>3, <3>2, <3>4, <3>5, <3>6, <3>7 DEF JobOK
        <3>9. QED
            BY <3>2, <3>3, <3>8
    <2>3. QED
        BY <1>3, <2>1, <2>2
<1>8. /\ TypeOK' /\ \A q \in Procs : JobOK(q)'
      /\ OwnRows' /\ RowsArrived' /\ RoomOnDay' /\ RoomForBytes'
    BY <1>3, <1>5, <1>6, <1>7, RecordsOne
<1>9. InFlight' = InFlight \ {mine} /\ mine \in InFlight
    <2>1. InFlight' = InFlight \ (IF pc[p] = "record" THEN {job[p].mine} ELSE {})
        BY <1>3, <1>5, <1>6, <1>7, RecordsOne
    <2>2. job[p].mine \in InFlight
        BY <1>3 DEF InFlight
    <2>3. QED
        BY <1>2, <1>3, <2>1, <2>2
<1>10. Len(kaggle) \in Nat /\ DOMAIN kaggle = 1..Len(kaggle)
    BY DEF IInv, TypeOK
<1>11. SpendRecorded'
    <2> SUFFICES ASSUME NEW f \in Files
                 PROVE  SumFunctionOnSet(ledger', {r \in Spends' : r.file = f})
                            = Cardinality((RowsOf(f) \ (lost \cup InFlight))')
        BY DEF SpendRecorded
    <2>1. SumFunctionOnSet(ledger, {r \in Spends : r.file = f}) = Cardinality(RowsOf(f) \ (lost \cup InFlight))
        BY DEF IInv, SpendRecorded
    <2>2. SumFunctionOnSet(ledger', {r \in Spends' : r.file = f})
              = SumFunctionOnSet(ledger, {r \in Spends : r.file = f}) + (IF rec.file = f THEN 1 ELSE 0)
        BY <1>3, <1>5, <1>6, <1>7, RecordsOne
    <2>3. RowsOf(f)' = RowsOf(f) /\ (mine \in RowsOf(f) <=> f = rec.file)
        BY <1>3, <1>4, <1>5 DEF RowsOf
    <2>4. RowsOf(f) \ (lost \cup InFlight) \in SUBSET (1..Len(kaggle))
        BY <1>10 DEF RowsOf
    <2>5. IsFiniteSet(RowsOf(f) \ (lost \cup InFlight)) /\ Cardinality(RowsOf(f) \ (lost \cup InFlight)) \in Nat
        BY <1>10, <2>4, RowsFinite
    <2>6. CASE f = rec.file
        <3>1. (RowsOf(f) \ (lost \cup InFlight))' = (RowsOf(f) \ (lost \cup InFlight)) \cup {mine}
            BY <1>3, <1>4, <1>9, <2>3, <2>6
        <3>2. mine \notin RowsOf(f) \ (lost \cup InFlight)
            BY <1>9
        <3>3. Cardinality((RowsOf(f) \ (lost \cup InFlight))') = Cardinality(RowsOf(f) \ (lost \cup InFlight)) + 1
            BY <2>5, <3>1, <3>2, OneElementMore
        <3>4. QED
            BY <2>1, <2>2, <2>5, <2>6, <3>3
    <2>7. CASE f # rec.file
        <3>1. (RowsOf(f) \ (lost \cup InFlight))' = RowsOf(f) \ (lost \cup InFlight)
            BY <1>3, <1>9, <2>3, <2>7
        <3>2. QED
            BY <2>1, <2>2, <2>5, <2>7, <3>1
    <2>8. QED
        BY <2>6, <2>7
<1>12. TodayRecorded'
    <2>1. /\ SubmittedOn(day) \in Nat
          /\ SubmittedOn(day)' = SubmittedOn(day) + (IF rec.day = day THEN 1 ELSE 0)
        BY <1>3, <1>5, <1>6, <1>7, RecordsOne
    <2> DEFINE old == OwnOn(day) \ (lost \cup InFlight)
    <2>2. Cardinality(old) <= SubmittedOn(day)
        BY DEF IInv, TodayRecorded
    <2>3. old' \subseteq old \cup {mine}
        BY <1>3, <1>9 DEF OwnOn
    <2>4. old \in SUBSET (1..Len(kaggle)) /\ mine \notin old
        BY <1>9, <1>10 DEF OwnOn
    <2>5. Cardinality(old') = Cardinality((OwnOn(day) \ (lost \cup InFlight))')
        OBVIOUS
    <2> HIDE DEF old
    <2>6. IsFiniteSet(old) /\ Cardinality(old) \in Nat
        BY <1>10, <2>4, RowsFinite
    <2>7. IsFiniteSet(old \cup {mine}) /\ Cardinality(old \cup {mine}) = Cardinality(old) + 1
        BY <2>4, <2>6, OneElementMore
    <2>8. Cardinality(old') \in Nat /\ Cardinality(old') <= Cardinality(old) + 1
        BY <2>3, <2>7, PartIsSmaller
    <2>9. SubmittedOn(day)' = SubmittedOn(day) + 1
        BY <1>5, <2>1
    <2>10. Cardinality(old') <= SubmittedOn(day)'
        BY <2>1, <2>2, <2>6, <2>8, <2>9
    <2>11. QED
        BY <2>5, <2>10 DEF TodayRecorded
<1>13. QED
    BY <1>6, <1>8, <1>11, <1>12 DEF IInv

\* A repair counts for no artifact, and only adds to what a day has spent.
LEMMA RepairKeeps ==
    ASSUME IInv, NEW p \in Procs, Repair(p)
    PROVE  IInv'
<1>1. PICK row : row = job[p].left
    OBVIOUS
<1>2. /\ pc[p] = "repair" /\ UNCHANGED <<day, kaggle, crashes, lost>> /\ doubtful' = doubtful
      /\ sealed' = sealed \/ Seal(row, row)
      /\ IF row \in job[p].known
         THEN ledger' = ledger
         ELSE Recorded([day |-> kaggle[row].day, file |-> NoFile, ref |-> row, sid |-> row])
      /\ IF row = 1
         THEN Become(p, "idle", Nothing) /\ reconciled' = reconciled \cup 1..job[p].listed
         ELSE Become(p, "repair", [job[p] EXCEPT !.left = row - 1]) /\ reconciled' = reconciled
    BY <1>1 DEF Repair, PassEnds
<1>3. /\ JobOK(p) /\ job[p] \in Jobs /\ job[p].listed \in Nat
      /\ Len(kaggle) \in Nat /\ Len(kaggle) <= MaxRows /\ DOMAIN kaggle = 1..Len(kaggle)
    BY DEF IInv, TypeOK, RowsArrived, Jobs
<1>4. /\ row \in 1..job[p].listed /\ job[p].listed <= Len(kaggle)
      /\ \A n \in job[p].known : KnownRow(n)
      /\ \A n \in (row + 1)..job[p].listed : KnownRow(n)
    BY <1>1, <1>2, <1>3 DEF JobOK
<1>5. row \in Rows /\ row \in DOMAIN kaggle /\ row \in Nat /\ row \in ScoreIds /\ row \in Numbers
    BY <1>3, <1>4, BoundAssumption DEF Rows, ScoreIds, Numbers
<1>6. PICK rec : rec = [day |-> kaggle[row].day, file |-> NoFile, ref |-> row, sid |-> row]
    OBVIOUS
<1>7. rec \in Records /\ rec.ref = row /\ rec.file = NoFile /\ rec.sid = row
    <2> DEFINE R == [file : Files \cup {NoFile}, day : 1..MaxDays]
    <2>1. kaggle[row] \in R
        <3>1. kaggle \in Seq(R)
            BY DEF IInv, TypeOK
        <3> HIDE DEF R
        <3>2. QED
            BY <1>5, <3>1
    <2>2. kaggle[row].day \in 1..MaxDays
        BY <2>1
    <2>3. QED
        BY <1>5, <1>6, <2>2 DEF Records
<1>8. SealedOK'
    <2>1. doubtful \subseteq doubtful' /\ doubtful' \subseteq Numbers
        BY <1>2 DEF IInv, Accounts, SealedOK
    <2>2. CASE sealed' = sealed
        BY <1>2, <2>1, <2>2, SealedStays
    <2>3. CASE Seal(row, row)
        BY <1>2, <1>5, <2>1, <2>3, SealedKept
    <2>4. QED
        BY <1>2, <2>2, <2>3
<1>9. /\ Spends \subseteq Spends' /\ KnownRow(row)' /\ RecordsOK'
      /\ \A n \in job[p].known : KnownRow(n)'
      /\ \A n \in (row + 1)..job[p].listed : KnownRow(n)'
    <2>1. CASE row \in job[p].known
        <3>1. Spends' = Spends
            BY <1>2, <2>1 DEF Spends
        <3>2. RecordsOK'
            BY <1>2, <3>1, RecordsKept
        <3>3. QED
            BY <1>4, <2>1, <3>1, <3>2 DEF KnownRow
    <2>2. CASE row \notin job[p].known
        <3>1. Recorded(rec)
            BY <1>2, <1>6, <2>2
        <3>2. Spends' = Spends \cup {rec}
            BY <1>7, <3>1, LedgerGrows DEF IInv, RowsArrived
        <3>3. RecordsOK'
            BY <1>2, <1>5, <1>7, <3>2, RecordsKept
        <3>4. QED
            BY <1>4, <1>7, <3>2, <3>3 DEF KnownRow
    <2>3. QED
        BY <2>1, <2>2
<1>a. PassesOK'
    <2>1. CASE row = 1
        <3>1. PICK S : S = 1..job[p].listed
            OBVIOUS
        <3>2. S \in SUBSET Rows
            BY <1>3, <1>4, <3>1, BoundAssumption DEF Rows
        <3>3. \A n \in S : n = row \/ n \in (row + 1)..job[p].listed
            BY <1>3, <2>1, <3>1
        <3>4. reconciled' = reconciled \cup S /\ \A n \in S : KnownRow(n)'
            BY <1>2, <1>9, <2>1, <3>1, <3>3
        <3>5. QED
            BY <1>9, <3>2, <3>4, PassesKept
    <2>2. CASE row # 1
        <3>1. {} \in SUBSET Rows /\ reconciled' = reconciled \cup {}
            BY <1>2, <2>2
        <3>2. QED
            BY <1>9, <3>1, PassesKept
    <2>3. QED
        BY <2>1, <2>2
<1>b. /\ Accounts' /\ doubtful \subseteq doubtful'
      /\ sealed' \subseteq ScoreIds \X Rows /\ reconciled' \subseteq Rows
    BY <1>2, <1>8, <1>9, <1>a DEF Accounts, SealedOK, PassesOK
<1>10. PICK where \in Places \ {"upload", "record"}, what \in Jobs : Become(p, where, what) /\ JobOK(p)'
    <2>1. CASE row = 1
        <3>1. Nothing \in Jobs /\ "idle" \in Places \ {"upload", "record"} /\ Become(p, "idle", Nothing)
            BY <1>2, <2>1, NothingIsJob DEF Places
        <3>2. pc'[p] = "idle" /\ job'[p] = Nothing
            BY <3>1, BecomeIs DEF IInv
        <3>3. JobOK(p)'
            BY <3>2, IdleOK
        <3>4. QED
            BY <3>1, <3>3
    <2>2. CASE row # 1
        <3>1. PICK left \in 0..MaxRows : left = row - 1
            BY <1>3, <1>4, <1>5, BoundAssumption
        <3>2. PICK rest : rest = [job[p] EXCEPT !.left = left]
            OBVIOUS
        <3>3. rest \in Jobs /\ rest.left = left /\ rest.listed = job[p].listed /\ rest.known = job[p].known
            BY <1>3, <3>2 DEF Jobs
        <3>4. "repair" \in Places \ {"upload", "record"} /\ Become(p, "repair", rest)
            BY <1>2, <2>2, <3>1, <3>2 DEF Places
        <3>5. pc'[p] = "repair" /\ job'[p] = rest
            BY <3>3, <3>4, BecomeIs DEF IInv
        <3>6. left \in 1..job[p].listed
            BY <1>3, <1>4, <1>5, <2>2, <3>1
        <3>7. \A n \in (left + 1)..job[p].listed : KnownRow(n)'
            <4>1. \A n \in (left + 1)..job[p].listed : n = row \/ n \in (row + 1)..job[p].listed
                BY <1>3, <1>5, <3>1
            <4>2. QED
                BY <1>9, <4>1
        <3>8. JobOK(p)'
            BY <1>2, <1>4, <1>9, <3>3, <3>5, <3>6, <3>7 DEF JobOK
        <3>9. QED
            BY <3>3, <3>4, <3>8
    <2>3. QED
        BY <2>1, <2>2
<1>11. CASE row \in job[p].known
    <2>1. /\ UNCHANGED <<day, kaggle, ledger>> /\ crashes' \in Nat
          /\ lost' = lost \cup (IF pc[p] = "record" THEN {job[p].mine} ELSE {})
        BY <1>2, <1>11 DEF IInv, TypeOK
    <2>2. QED
        BY <1>10, <1>b, <2>1, MovesOn
<1>12. CASE row \notin job[p].known
    <2>1. Recorded(rec)
        BY <1>2, <1>6, <1>12
    <2>2. /\ TypeOK' /\ \A q \in Procs : JobOK(q)'
          /\ OwnRows' /\ RowsArrived' /\ RoomOnDay' /\ RoomForBytes'
        BY <1>2, <1>7, <1>10, <1>b, <2>1, RecordsOne
    <2>3. InFlight' = InFlight
        <3>1. InFlight' = InFlight \ (IF pc[p] = "record" THEN {job[p].mine} ELSE {})
            BY <1>2, <1>7, <1>10, <1>b, <2>1, RecordsOne
        <3>2. QED
            BY <1>2, <3>1
    <2>4. SpendRecorded'
        <3> SUFFICES ASSUME NEW f \in Files
                     PROVE  SumFunctionOnSet(ledger', {r \in Spends' : r.file = f})
                                = Cardinality((RowsOf(f) \ (lost \cup InFlight))')
            BY DEF SpendRecorded
        <3>1. /\ SumFunctionOnSet(ledger, {r \in Spends : r.file = f}) \in Nat
              /\ SumFunctionOnSet(ledger', {r \in Spends' : r.file = f})
                     = SumFunctionOnSet(ledger, {r \in Spends : r.file = f}) + (IF rec.file = f THEN 1 ELSE 0)
            BY <1>2, <1>7, <1>10, <1>b, <2>1, RecordsOne
        <3>2. rec.file # f
            BY <1>7, FileAssumption
        <3>3. (RowsOf(f) \ (lost \cup InFlight))' = RowsOf(f) \ (lost \cup InFlight)
            BY <1>2, <2>3 DEF RowsOf
        <3>4. QED
            BY <3>1, <3>2, <3>3 DEF IInv, SpendRecorded
    <2>5. TodayRecorded'
        <3>1. /\ SubmittedOn(day) \in Nat
              /\ SubmittedOn(day)' = SubmittedOn(day) + (IF rec.day = day THEN 1 ELSE 0)
            BY <1>2, <1>7, <1>10, <1>b, <2>1, RecordsOne
        <3>2. (OwnOn(day) \ (lost \cup InFlight))' = OwnOn(day) \ (lost \cup InFlight)
            BY <1>2, <2>3 DEF OwnOn
        <3>3. Cardinality(OwnOn(day) \ (lost \cup InFlight)) <= SubmittedOn(day)
            BY DEF IInv, TodayRecorded
        <3>4. OwnOn(day) \ (lost \cup InFlight) \in SUBSET (1..Len(kaggle))
            BY <1>3 DEF OwnOn
        <3>5. Cardinality(OwnOn(day) \ (lost \cup InFlight)) \in Nat
            BY <1>3, <3>4, RowsFinite
        <3>6. Cardinality((OwnOn(day) \ (lost \cup InFlight))') <= SubmittedOn(day)'
            BY <3>1, <3>2, <3>3, <3>5
        <3>7. QED
            BY <3>6 DEF TodayRecorded
    <2>6. QED
        BY <1>b, <2>2, <2>4, <2>5 DEF IInv
<1>13. QED
    BY <1>11, <1>12

-----------------------------------------------------------------------------
\* The invariant, and what follows from it.

\* At first there are no rows and no records.
LEMMA InitKeeps == Init => IInv
<1> SUFFICES ASSUME Init PROVE IInv
    OBVIOUS
<1>1. /\ day = 1 /\ kaggle = <<>> /\ ledger = EmptyBag /\ sealed = {}
      /\ pc = [p \in Procs |-> "idle"] /\ job = [p \in Procs |-> Nothing]
      /\ crashes = 0 /\ lost = {} /\ reconciled = {} /\ doubtful = {}
    BY DEF Init
<1>2. DOMAIN kaggle = {} /\ Len(kaggle) = 0
    BY <1>1
<1>3. Spends = {} /\ IsABag(ledger) /\ BagToSet(ledger) = {}
    BY <1>1 DEF Spends, BagToSet, EmptyBag, IsABag, SetToBag
<1>4. TypeOK
    <2>1. 1 \in 1..MaxDays
        BY BoundAssumption
    <2>2. QED
        BY <1>1, <1>3, <2>1, NothingIsJob DEF TypeOK
<1>5. \A p \in Procs : JobOK(p)
    <2> SUFFICES ASSUME NEW p \in Procs PROVE JobOK(p)
        OBVIOUS
    <2>1. pc[p] = "idle" /\ job[p].left = 0 /\ job[p].listed = 0
        BY <1>1 DEF Nothing
    <2>2. (job[p].left + 1)..job[p].listed = {}
        BY <2>1
    <2>3. QED
        BY <2>1, <2>2 DEF JobOK
<1>6. InFlight = {} /\ Uploading = {} /\ \A f : UploadingOf(f) = {}
    BY <1>1 DEF InFlight, Uploading, UploadingOf
<1>7. \A d : OwnOn(d) = {} /\ RowsOf(d) = {}
    BY <1>2 DEF OwnOn, RowsOf
<1>8. Cardinality({}) = 0 /\ IsFiniteSet({})
    BY FS_EmptySet
<1>9. SumFunctionOnSet(ledger, {}) = 0
    BY SumEmpty
<1>10. SpendRecorded
    <2>1. \A f : {rec \in Spends : rec.file = f} = {} /\ RowsOf(f) \ (lost \cup InFlight) = {}
        BY <1>3, <1>7
    <2>2. QED
        BY <1>8, <1>9, <2>1 DEF SpendRecorded
<1>11. TodayRecorded
    <2>1. {rec \in Spends : rec.day = day} = {} /\ OwnOn(day) \ (lost \cup InFlight) = {}
        BY <1>3, <1>7
    <2>2. QED
        BY <1>8, <1>9, <2>1 DEF TodayRecorded, SubmittedOn
<1>12. RoomOnDay /\ RoomForBytes
    <2>1. /\ Cardinality(Procs) \in Nat /\ Cardinality(Procs) >= 1
          /\ DailyCap \in Nat /\ DailyCap >= 1
        BY ProcsFinite, CapAssumption
    <2>2. \A d : OwnOn(d) \ lost = {} /\ RowsOf(d) \ lost = {}
        BY <1>7
    <2>3. \A d : Cardinality(OwnOn(d) \ lost) = 0 /\ Cardinality(RowsOf(d) \ lost) = 0
        BY <1>8, <2>2
    <2>4. Cardinality(Uploading) = 0 /\ \A f : Cardinality(UploadingOf(f)) = 0
        BY <1>6, <1>8
    <2>5. RoomOnDay
        BY <2>1, <2>3, <2>4 DEF RoomOnDay
    <2>6. RoomForBytes
        BY <2>1, <2>3, <2>4 DEF RoomForBytes
    <2>7. QED
        BY <2>5, <2>6
<1>13. OwnRows /\ RowsArrived /\ Accounts
    BY <1>1, <1>2, <1>3, <1>8, BoundAssumption
       DEF OwnRows, RowsArrived, Accounts, SealedOK, RecordsOK, PassesOK
<1>14. QED
    BY <1>4, <1>5, <1>10, <1>11, <1>12, <1>13 DEF IInv

\* Nothing changes.
LEMMA StutterKeeps ==
    ASSUME IInv, UNCHANGED vars
    PROVE  IInv'
<1>1. /\ day' = day /\ kaggle' = kaggle /\ ledger' = ledger /\ sealed' = sealed
      /\ pc' = pc /\ job' = job /\ crashes' = crashes /\ lost' = lost
      /\ reconciled' = reconciled /\ doubtful' = doubtful
    BY DEF vars
<1>2. /\ Spends' = Spends /\ (\A n : KnownRow(n)' <=> KnownRow(n))
      /\ InFlight' = InFlight /\ Uploading' = Uploading
      /\ \A f : RowsOf(f)' = RowsOf(f) /\ (UploadingOf(f))' = UploadingOf(f)
      /\ \A d : OwnOn(d)' = OwnOn(d) /\ SubmittedOn(d)' = SubmittedOn(d)
    BY <1>1 DEF Spends, KnownRow, InFlight, Uploading, RowsOf, UploadingOf, OwnOn, SubmittedOn
<1>3. TypeOK' /\ \A p \in Procs : JobOK(p)'
    BY <1>1, <1>2 DEF IInv, TypeOK, JobOK
<1>4. OwnRows' /\ RowsArrived' /\ Accounts'
    <2>1. OwnRows' /\ RowsArrived'
        BY <1>1, <1>2 DEF IInv, OwnRows, RowsArrived
    <2>2. QED
        BY <1>1, <2>1, AccountsUnchanged
<1>5. SpendRecorded' /\ RoomOnDay' /\ RoomForBytes'
    BY <1>1, <1>2 DEF IInv, SpendRecorded, RoomOnDay, RoomForBytes
<1>6. TodayRecorded'
    <2>1. OwnOn(day)' = OwnOn(day) /\ SubmittedOn(day)' = SubmittedOn(day)
        BY <1>1, <1>2
    <2>2. QED
        BY <1>1, <1>2, <2>1 DEF IInv, TodayRecorded
<1>7. QED
    BY <1>3, <1>4, <1>5, <1>6 DEF IInv

\* Every step of every command, every death, every upload from elsewhere and every new
\* day keeps what the ledger, the rows and the commands on the way have to do with each
\* other.
THEOREM Invariance == Spec => []IInv
<1>1. Init => IInv
    BY InitKeeps
<1>2. IInv /\ [Next]_vars => IInv'
    <2> SUFFICES ASSUME IInv, [Next]_vars PROVE IInv'
        OBVIOUS
    <2>1. ASSUME NEW p \in Procs, Submit(p) PROVE IInv'
        <3>1. ASSUME NEW file \in Files, Check(p, file) PROVE IInv'
            BY <3>1, CheckKeeps
        <3>2. CASE Upload(p)
            BY <3>2, UploadKeeps
        <3>3. CASE UploadFails(p)
            BY <3>3, UploadFailsKeeps
        <3>4. CASE Record(p)
            BY <3>4, RecordKeeps
        <3>5. CASE Collect(p)
            BY <3>5, CollectKeeps
        <3>6. CASE TimeOut(p)
            BY <3>6, TimeOutKeeps
        <3>7. QED
            BY <2>1, <3>1, <3>2, <3>3, <3>4, <3>5, <3>6 DEF Submit
    <2>2. ASSUME NEW p \in Procs, Reconcile(p) PROVE IInv'
        <3>1. CASE ReadKnown(p)
            BY <3>1, ReadKnownKeeps
        <3>2. CASE Fetch(p)
            BY <3>2, FetchKeeps
        <3>3. CASE Repair(p)
            BY <3>3, RepairKeeps
        <3>4. QED
            BY <2>2, <3>1, <3>2, <3>3 DEF Reconcile
    <2>3. ASSUME NEW p \in Procs, Crash(p) PROVE IInv'
        BY <2>3, CrashKeeps
    <2>4. CASE OutsideUpload
        BY <2>4, OutsideUploadKeeps
    <2>5. CASE NextDay
        BY <2>5, NextDayKeeps
    <2>6. CASE UNCHANGED vars
        BY <2>6, StutterKeeps
    <2>7. QED
        BY <2>1, <2>2, <2>3, <2>4, <2>5, <2>6 DEF Next
<1>3. QED
    BY <1>1, <1>2, PTL DEF Spec

\* The ledger, the store and what the commands hold in memory are always of their types.
THEOREM TypeCorrect == Spec => []TypeOK
<1>1. IInv => TypeOK
    BY DEF IInv
<1>2. QED
    BY <1>1, Invariance, PTL

\* Every upload whose process lived to record it is on the ledger exactly once, under
\* the bytes that were uploaded (the record before the wait, cli.py).
THEOREM SpendsAreRecorded == Spec => []SpendRecorded
<1>1. IInv => SpendRecorded
    BY DEF IInv
<1>2. QED
    BY <1>1, Invariance, PTL

\* The days of the loop overrun the cap by no more than the other processes that may be
\* past the check and the spends that died with theirs.
THEOREM TheCapHolds == Spec => []DailyAllowance
<1>1. IInv => DailyAllowance
    <2> SUFFICES ASSUME IInv, NEW d \in 1..MaxDays
                 PROVE  Cardinality({n \in DOMAIN kaggle : kaggle[n].day = d /\ kaggle[n].file # NoFile})
                            <= DailyCap + (Cardinality(Procs) - 1) + Cardinality({n \in lost : kaggle[n].day = d})
        BY DEF DailyAllowance
    <2> DEFINE gone == {n \in lost : kaggle[n].day = d}
               kept == OwnOn(d) \ lost
    <2>1. Len(kaggle) \in Nat /\ DOMAIN kaggle = 1..Len(kaggle) /\ lost \subseteq DOMAIN kaggle
        BY DEF IInv, TypeOK, RowsArrived
    <2>2. kept \in SUBSET (1..Len(kaggle)) /\ gone \in SUBSET (1..Len(kaggle)) /\ kept \cap gone = {}
        BY <2>1 DEF OwnOn
    <2>3. OwnOn(d) \subseteq kept \cup gone
        BY DEF OwnOn
    <2>4. Cardinality(kept) + (IF d = day THEN Cardinality(Uploading) ELSE 0)
              <= DailyCap + Cardinality(Procs) - 1
        BY DEF IInv, RoomOnDay
    <2>5. Cardinality(Uploading) \in Nat /\ Cardinality(Procs) \in Nat /\ DailyCap \in Nat
        <3>1. Uploading \in SUBSET Procs
            BY DEF Uploading
        <3>2. QED
            BY <3>1, ProcsFinite, CapAssumption
    <2> HIDE DEF gone, kept
    <2>6. IsFiniteSet(kept) /\ IsFiniteSet(gone) /\ Cardinality(kept) \in Nat /\ Cardinality(gone) \in Nat
        BY <2>1, <2>2, RowsFinite
    <2>7. Cardinality(kept \cup gone) = Cardinality(kept) + Cardinality(gone)
        BY <2>2, <2>6, PartsAddUp
    <2>8. IsFiniteSet(kept \cup gone)
        BY <2>6, FS_Union
    <2>9. Cardinality(OwnOn(d)) \in Nat /\ Cardinality(OwnOn(d)) <= Cardinality(kept \cup gone)
        BY <2>3, <2>8, PartIsSmaller
    <2>10. Cardinality(kept) <= DailyCap + Cardinality(Procs) - 1
        BY <2>4, <2>5, <2>6
    <2>11. Cardinality(OwnOn(d)) <= DailyCap + (Cardinality(Procs) - 1) + Cardinality(gone)
        BY <2>5, <2>6, <2>7, <2>9, <2>10
    <2>12. QED
        BY <2>11 DEF OwnOn, gone
<1>2. QED
    BY <1>1, Invariance, PTL

\* The same bytes are uploaded once for each process at most, and again only for each
\* of their rows that was lost.
THEOREM BytesAreGuarded == Spec => []SameBytesOnce
<1>1. IInv => SameBytesOnce
    <2> SUFFICES ASSUME IInv, NEW f \in Files
                 PROVE  Cardinality(RowsOf(f)) <= Cardinality(Procs) + Cardinality(RowsOf(f) \cap lost)
        BY DEF SameBytesOnce
    <2> DEFINE gone == RowsOf(f) \cap lost
               kept == RowsOf(f) \ lost
    <2>1. Len(kaggle) \in Nat /\ DOMAIN kaggle = 1..Len(kaggle)
        BY DEF IInv, TypeOK
    <2>2. kept \in SUBSET (1..Len(kaggle)) /\ gone \in SUBSET (1..Len(kaggle)) /\ kept \cap gone = {}
        BY <2>1 DEF RowsOf
    <2>3. RowsOf(f) = kept \cup gone
        OBVIOUS
    <2>4. Cardinality(kept) + Cardinality(UploadingOf(f)) <= Cardinality(Procs)
        BY DEF IInv, RoomForBytes
    <2>5. Cardinality(UploadingOf(f)) \in Nat /\ Cardinality(Procs) \in Nat
        <3>1. UploadingOf(f) \in SUBSET Procs
            BY DEF UploadingOf, Uploading
        <3>2. QED
            BY <3>1, ProcsFinite
    <2> HIDE DEF gone, kept
    <2>6. IsFiniteSet(kept) /\ IsFiniteSet(gone) /\ Cardinality(kept) \in Nat /\ Cardinality(gone) \in Nat
        BY <2>1, <2>2, RowsFinite
    <2>7. Cardinality(kept \cup gone) = Cardinality(kept) + Cardinality(gone)
        BY <2>2, <2>6, PartsAddUp
    <2>8. Cardinality(RowsOf(f)) <= Cardinality(Procs) + Cardinality(gone)
        BY <2>3, <2>4, <2>5, <2>6, <2>7
    <2>9. QED
        BY <2>8 DEF gone
<1>2. QED
    BY <1>1, Invariance, PTL

\* Every row that Kaggle listed to a reconciliation that ran to its end is on the ledger
\* under its own reference, for good (kaggle_reconcile, cli.py).
THEOREM ReconciliationIsComplete == Spec => []RepairedInFull
<1>1. IInv => RepairedInFull
    <2> SUFFICES ASSUME IInv, NEW n \in reconciled PROVE n \in KnownReferences
        BY DEF RepairedInFull
    <2>1. n \in Rows /\ KnownRow(n)
        BY DEF IInv, Accounts, PassesOK
    <2>2. n # NoRef
        BY <2>1 DEF Rows, NoRef
    <2>3. QED
        BY <2>1, <2>2 DEF KnownRow, KnownReferences
<1>2. QED
    BY <1>1, Invariance, PTL

\* Unless its number was printed for another row, or awaited on a list without the row,
\* a score that is sealed under a number is that of the row and meets the records of
\* its bytes; a score under the reference of a row is never that of a newer one.
THEOREM ScoresAreTheirOwn == Spec => []ScoresMeetTheirArtifacts
<1>1. IInv => ScoresMeetTheirArtifacts
    <2> SUFFICES ASSUME IInv, NEW s \in sealed
                 PROVE  /\ s[1] \in Numbers \ doubtful =>
                               /\ s[1] = s[2]
                               /\ \A rec \in Spends : rec.sid = s[1] => rec.file \in {NoFile, kaggle[s[2]].file}
                        /\ s[1] \in Rows => s[2] <= s[1]
        BY DEF ScoresMeetTheirArtifacts
    <2>1. /\ s[1] \in Numbers \ doubtful => s[1] = s[2]
          /\ s[1] \in Rows => s[2] <= s[1]
        BY DEF IInv, Accounts, SealedOK
    <2>2. \A rec \in Spends :
              rec.sid \in Numbers \ doubtful => rec.file \in {NoFile, kaggle[rec.sid].file}
        BY DEF IInv, Accounts, RecordsOK
    <2>3. QED
        BY <2>1, <2>2
<1>2. QED
    BY <1>1, Invariance, PTL

=============================================================================

-------------------------- MODULE EventLog_proofs --------------------------
(***************************************************************************)
(* Proofs about EventLog, for every set of processes and runs and every    *)
(* bound.                                                                  *)
(*                                                                         *)
(* What append decides without the lock (CheckOpen) and with it (Lock)     *)
(* meets in Write.  The invariant says what still holds there: the writer  *)
(* has the lock and its reading of the last line is current (WriterOK),    *)
(* and a process admitted to a run has written nothing since the run was   *)
(* finalized (AdmittedOK).                                                 *)
(***************************************************************************)
EXTENDS EventLog, SequenceTheorems, FiniteSetTheorems, TLAPS

\* What a call holds at each place.
CallOK ==
    \A p \in Procs :
        /\ pc[p] # "idle" => run[p] \in Runs
        /\ pc[p] \in {"check", "lock", "write"} => todo[p] # <<>>
        /\ pc[p] \in {"wipe", "apply"} => due[p] # <<>>

\* Whoever is about to write holds the lock and has read the last line there is.
WriterOK ==
    \A p \in Procs : pc[p] = "write" =>
        /\ lock[run[p]] = p
        /\ prior[p] = log[run[p]][Len(log[run[p]])]

\* Whoever is past the finalized check has written nothing since the run was finalized.
AdmittedOK ==
    \A p \in Procs : pc[p] \in {"lock", "write"} =>
        \A f, j \in DOMAIN log[run[p]] :
            (f <= j /\ log[run[p]][f].kind = "finalized") => log[run[p]][j].by # p

\* A log starts with the creation of its run.
NeverEmpty == \A r \in Runs : log[r] # <<>>

\* The inductive invariant.
IInv == TypeOK /\ CallOK /\ NeverEmpty /\ WriterOK

-----------------------------------------------------------------------------

\* A call has events to append.
LEMMA CallsAreSequences ==
    ASSUME NEW call \in Calls
    PROVE  call \in Seq(Kinds) /\ call # <<>>
<1>1. CASE call = <<"evidence", "posterior">>
    BY <1>1 DEF Kinds
<1>2. CASE call = <<"violation">>
    BY <1>2 DEF Kinds
<1>3. CASE call = <<"moved", "completed", "finalized">>
    BY <1>3 DEF Kinds
<1>4. QED
    BY <1>1, <1>2, <1>3 DEF Calls

\* The envelope built after an envelope is one.
LEMMA NextEnvelopeType ==
    ASSUME NEW last \in Envelopes, NEW p \in Procs, NEW kind \in Kinds
    PROVE  NextEnvelope(last, p, kind) \in Envelopes
BY DEF NextEnvelope, Envelopes, Digest

\* The state the log starts in.
LEMMA InitIInv == Init => IInv
<1> SUFFICES ASSUME Init PROVE IInv
    OBVIOUS
<1>1. PICK by \in Procs :
          log = [r \in Runs |-> <<[seq |-> 1, by |-> by, kind |-> "created", previous |-> NoDigest]>>]
    BY DEF Init
<1>2. [seq |-> 1, by |-> by, kind |-> "created", previous |-> NoDigest] \in Envelopes
    BY DEF Envelopes, Kinds
<1>3. log \in [Runs -> Seq(Envelopes)] /\ NeverEmpty
    BY <1>1, <1>2 DEF NeverEmpty
<1>4. TypeOK
    BY <1>3 DEF Init, TypeOK
<1>5. QED
    BY <1>3, <1>4 DEF Init, IInv, CallOK, WriterOK

\* The write of p, by itself or cut short before the newline.
Writes(p) ==
    /\ pc[p] = "write" /\ pc'[p] \notin {"lock", "write"}
    /\ log' = [log EXCEPT ![run[p]] = Append(@, NextEnvelope(prior[p], p, Head(todo[p])))]
    /\ \A q \in Procs \ {p} : pc'[q] = pc[q] /\ run'[q] = run[q]

\* Only a write changes a log.
LEMMA OnlyWritesGrow ==
    ASSUME TypeOK, [Next]_vars
    PROVE  log' = log \/ \E p \in Procs : Writes(p)
<1>1. CASE UNCHANGED vars
    BY <1>1 DEF vars
<1>2. ASSUME NEW p \in Procs, NEW r \in Runs, NEW call \in Calls, Begin(p, r, call)
      PROVE  log' = log
    BY <1>2 DEF Begin, files
<1>3. ASSUME NEW p \in Procs, NEW r \in Runs, Replay(p, r)
      PROVE  log' = log
    BY <1>3 DEF Replay, files
<1>4. ASSUME NEW p \in Procs, Step(p)
      PROVE  log' = log \/ Writes(p)
    <2>1. CASE Write(p)
        BY <2>1 DEF Write, Writes, TypeOK
    <2>2. CASE ~Write(p)
        BY <1>4, <2>2 DEF Step, CheckOpen, Refuse, Lock, TailUnreadable, Wipe, Apply, files
    <2>3. QED
        BY <2>1, <2>2
<1>5. ASSUME NEW p \in Procs, Crash(p)
      PROVE  log' = log \/ Writes(p)
    BY <1>5 DEF Crash, CutShort, Idle, Writes, TypeOK
<1>6. QED
    BY <1>1, <1>2, <1>3, <1>4, <1>5 DEF Next

\* What Idle leaves.
LEMMA IdleType ==
    ASSUME TypeOK, NEW p \in Procs, Idle(p)
    PROVE  /\ pc' \in [Procs -> {"idle", "check", "lock", "write", "wipe", "apply"}]
           /\ run' \in [Procs -> Runs \cup {Nobody}]
           /\ todo' \in [Procs -> Seq(Kinds)]
           /\ prior' \in [Procs -> Envelopes \cup {Nobody}]
           /\ due' \in [Procs -> Seq(Nat \ {0})]
BY DEF Idle, TypeOK

\* The projection of an event keeps the tables well typed.
LEMMA AppliedType ==
    ASSUME TypeOK, NEW r \in Runs, NEW i \in Nat \ {0}, Applied(r, i)
    PROVE  /\ shown' \subseteq Runs \X (Nat \ {0})
           /\ status' \in [Runs -> {"absent", "running", "blocked", "completed"}]
           /\ version' \in [Runs -> Nat]
<1>1. StatusAfter(status[r], log[r][i].kind) \in {"absent", "running", "blocked", "completed"}
    BY DEF TypeOK, StatusAfter
<1>2. CASE <<r, i>> \in shown
    BY <1>2 DEF Applied, TypeOK, tables
<1>3. CASE <<r, i>> \notin shown
    <2>1. shown' \subseteq Runs \X (Nat \ {0})
        BY <1>3 DEF Applied, TypeOK
    <2>2. /\ status' = [status EXCEPT ![r] = StatusAfter(status[r], log[r][i].kind)]
          /\ version' = version \/ version' = [version EXCEPT ![r] = version[r] + 1]
        BY <1>3, Zenon DEF Applied
    <2>3. status' \in [Runs -> {"absent", "running", "blocked", "completed"}]
        BY <1>1, <2>2 DEF TypeOK
    <2>4. version' \in [Runs -> Nat]
        BY <2>2 DEF TypeOK
    <2>5. QED
        BY <2>1, <2>3, <2>4
<1>4. QED
    BY <1>2, <1>3

\* What a writer writes is an envelope.
LEMMA WrittenType ==
    ASSUME IInv, NEW p \in Procs, pc[p] = "write"
    PROVE  /\ run[p] \in Runs
           /\ prior[p] \in Envelopes /\ Head(todo[p]) \in Kinds
           /\ NextEnvelope(prior[p], p, Head(todo[p])) \in Envelopes
<1>1. /\ run[p] \in Runs /\ todo[p] # <<>> /\ todo[p] \in Seq(Kinds)
      /\ log[run[p]] \in Seq(Envelopes) /\ log[run[p]] # <<>>
      /\ prior[p] = log[run[p]][Len(log[run[p]])]
    BY DEF IInv, CallOK, NeverEmpty, WriterOK, TypeOK
<1>2. prior[p] \in Envelopes /\ Head(todo[p]) \in Kinds
    BY <1>1
<1>3. QED
    BY <1>1, <1>2, NextEnvelopeType

\* Every step keeps the types.
LEMMA TypeStep ==
    ASSUME IInv, [Next]_vars
    PROVE  TypeOK'
<1> USE DEF IInv
<1>1. CASE UNCHANGED vars
    BY <1>1 DEF TypeOK, vars
<1>2. ASSUME NEW p \in Procs, NEW r \in Runs, NEW call \in Calls, Begin(p, r, call)
      PROVE  TypeOK'
    <2>1. call \in Seq(Kinds)
        BY CallsAreSequences
    <2>2. QED
        BY <1>2, <2>1 DEF Begin, TypeOK, files, tables
<1>3. ASSUME NEW p \in Procs, NEW r \in Runs, Replay(p, r)
      PROVE  TypeOK'
    <2>1. [i \in 1..Len(log[r]) |-> i] \in Seq(Nat \ {0})
        BY DEF TypeOK
    <2>2. QED
        BY <1>3, <2>1 DEF Replay, TypeOK, files, tables
<1>4. ASSUME NEW p \in Procs, CheckOpen(p)
      PROVE  TypeOK'
    BY <1>4 DEF CheckOpen, Witness, TypeOK, files, tables
<1>5. ASSUME NEW p \in Procs, Refuse(p) \/ TailUnreadable(p)
      PROVE  TypeOK'
    <2>1. Idle(p) /\ UNCHANGED <<files, tables, replays, crashes>> /\ Witness(p)
        BY <1>5 DEF Refuse, TailUnreadable
    <2>2. QED
        BY <2>1, IdleType DEF Witness, TypeOK, files, tables
<1>6. ASSUME NEW p \in Procs, Lock(p)
      PROVE  TypeOK'
    <2>1. run[p] \in Runs /\ log[run[p]] \in Seq(Envelopes) /\ log[run[p]] # <<>>
        BY <1>6 DEF Lock, CallOK, NeverEmpty, TypeOK
    <2>2. log[run[p]][Len(log[run[p]])] \in Envelopes
        BY <2>1
    <2>3. QED
        BY <1>6, <2>1, <2>2 DEF Lock, Witness, TypeOK, tables
<1>7. ASSUME NEW p \in Procs, Write(p)
      PROVE  TypeOK'
    <2>1. /\ run[p] \in Runs /\ NextEnvelope(prior[p], p, Head(todo[p])) \in Envelopes
          /\ log[run[p]] \in Seq(Envelopes)
        BY <1>7, WrittenType DEF Write, TypeOK
    <2>3. todo[p] # <<>> /\ todo[p] \in Seq(Kinds)
        BY <1>7 DEF Write, CallOK, TypeOK
    <2>4. Append(log[run[p]], NextEnvelope(prior[p], p, Head(todo[p]))) \in Seq(Envelopes)
        BY <2>1
    <2>5. Tail(todo[p]) \in Seq(Kinds) /\ <<Len(log[run[p]]) + 1>> \in Seq(Nat \ {0})
        BY <2>1, <2>3
    <2>6. QED
        BY <1>7, <2>1, <2>4, <2>5 DEF Write, Witness, TypeOK, tables
<1>8. ASSUME NEW p \in Procs, Wipe(p)
      PROVE  TypeOK'
    BY <1>8 DEF Wipe, Witness, TypeOK, files
<1>9. ASSUME NEW p \in Procs, Apply(p)
      PROVE  TypeOK'
    <2>1. run[p] \in Runs /\ due[p] # <<>> /\ due[p] \in Seq(Nat \ {0})
        BY <1>9 DEF Apply, CallOK, TypeOK
    <2>2. Head(due[p]) \in Nat \ {0} /\ Tail(due[p]) \in Seq(Nat \ {0})
        BY <2>1
    <2>3. QED
        BY <1>9, <2>1, <2>2, AppliedType DEF Apply, AfterApply, Witness, TypeOK, files
<1>10. ASSUME NEW p \in Procs, Crash(p)
      PROVE  TypeOK'
    <2>1. log' \in [Runs -> Seq(Envelopes)]
        <3>1. CASE log' = log
            BY <3>1 DEF TypeOK
        <3>2. CASE log' # log
            <4>1. /\ pc[p] = "write"
                  /\ log' = [log EXCEPT ![run[p]] =
                                Append(@, NextEnvelope(prior[p], p, Head(todo[p])))]
                BY <1>10, <3>2 DEF Crash, CutShort
            <4>2. run[p] \in Runs /\ NextEnvelope(prior[p], p, Head(todo[p])) \in Envelopes
                BY <4>1, WrittenType
            <4>3. QED
                BY <4>1, <4>2 DEF TypeOK
        <3>3. QED
            BY <3>1, <3>2
    <2>2. ending' \in [Runs -> {"newline", "bare", "torn"}]
        <3>1. CASE ending' = ending
            BY <3>1 DEF TypeOK
        <3>2. CASE ending' = [ending EXCEPT ![run[p]] = "torn"]
            BY <3>2 DEF TypeOK
        <3>3. CASE ending' = [ending EXCEPT ![run[p]] = "bare"]
            BY <3>3 DEF TypeOK
        <3>4. QED
            BY <1>10, <3>1, <3>2, <3>3 DEF Crash, CutShort
    <2>3. Idle(p) /\ UNCHANGED <<tables, replays>> /\ solo' = Nobody /\ crashes' = crashes + 1
        BY <1>10 DEF Crash
    <2>4. lock' \in [Runs -> Procs \cup {Nobody}]
        BY <1>10 DEF Crash, TypeOK
    <2>5. QED
        BY <2>1, <2>2, <2>3, <2>4, IdleType DEF TypeOK, tables
<1>11. QED
    BY <1>1, <1>2, <1>3, <1>4, <1>5, <1>6, <1>7, <1>8, <1>9, <1>10 DEF Next, Step

\* Every place a process comes to, it comes to with what it needs there.
LEMMA CallStep ==
    ASSUME IInv, [Next]_vars
    PROVE  CallOK'
<1> USE DEF IInv
<1>1. CASE UNCHANGED vars
    BY <1>1 DEF CallOK, vars
<1>2. ASSUME NEW p \in Procs, NEW r \in Runs, NEW call \in Calls, Begin(p, r, call)
      PROVE  CallOK'
    BY <1>2, CallsAreSequences DEF Begin, CallOK, TypeOK
<1>3. ASSUME NEW p \in Procs, NEW r \in Runs, Replay(p, r)
      PROVE  CallOK'
    <2>1. [i \in 1..Len(log[r]) |-> i] # <<>>
        <3>1. log[r] \in Seq(Envelopes) /\ log[r] # <<>>
            BY DEF NeverEmpty, TypeOK
        <3>2. 1 \in 1..Len(log[r])
            BY <3>1
        <3>3. 1 \in DOMAIN [i \in 1..Len(log[r]) |-> i]
            BY <3>2
        <3>4. QED
            BY <3>3
    <2>2. QED
        BY <1>3, <2>1 DEF Replay, CallOK, TypeOK
<1>4. ASSUME NEW p \in Procs, CheckOpen(p) \/ Lock(p) \/ Wipe(p)
      PROVE  CallOK'
    BY <1>4 DEF CheckOpen, Lock, Wipe, CallOK, TypeOK
<1>5. ASSUME NEW p \in Procs, Refuse(p) \/ TailUnreadable(p) \/ Crash(p)
      PROVE  CallOK'
    <2>1. Idle(p)
        BY <1>5 DEF Refuse, TailUnreadable, Crash
    <2>2. QED
        BY <2>1 DEF Idle, CallOK, TypeOK
<1>6. ASSUME NEW p \in Procs, Write(p)
      PROVE  CallOK'
    BY <1>6 DEF Write, CallOK, TypeOK
<1>7. ASSUME NEW p \in Procs, Apply(p)
      PROVE  CallOK'
    <2>1. due[p] \in Seq(Nat \ {0}) /\ run[p] \in Runs
        BY <1>7 DEF Apply, CallOK, TypeOK
    <2>2. Len(due[p]) > 1 => Tail(due[p]) # <<>>
        BY <2>1
    <2>3. /\ UNCHANGED todo /\ due' = [due EXCEPT ![p] = Tail(due[p])]
          /\ pc' = [pc EXCEPT ![p] = AfterApply(p, "check")]
          /\ run' = [run EXCEPT ![p] = IF AfterApply(p, "check") = "idle" THEN Nobody ELSE run[p]]
        BY <1>7 DEF Apply
    <2>4. /\ AfterApply(p, "check") \in {"apply", "check", "idle"}
          /\ AfterApply(p, "check") = "apply" => Len(due[p]) > 1
          /\ AfterApply(p, "check") = "check" => todo[p] # <<>>
        BY DEF AfterApply
    <2>5. QED
        BY <2>1, <2>2, <2>3, <2>4 DEF CallOK, TypeOK
<1>8. QED
    BY <1>1, <1>2, <1>3, <1>4, <1>5, <1>6, <1>7 DEF Next, Step

\* Logs only grow.
LEMMA NeverEmptyStep ==
    ASSUME IInv, [Next]_vars
    PROVE  NeverEmpty'
<1> USE DEF IInv
<1>1. CASE log' = log
    BY <1>1 DEF NeverEmpty
<1>2. ASSUME NEW p \in Procs, Writes(p)
      PROVE  NeverEmpty'
    <2>1. run[p] \in Runs /\ NextEnvelope(prior[p], p, Head(todo[p])) \in Envelopes
        BY <1>2, WrittenType DEF Writes
    <2>2. Append(log[run[p]], NextEnvelope(prior[p], p, Head(todo[p]))) # <<>>
        <3>1. log[run[p]] \in Seq(Envelopes)
            BY <2>1 DEF TypeOK
        <3>2. QED
            BY <2>1, <3>1, AppendProperties
    <2>3. QED
        BY <1>2, <2>1, <2>2 DEF Writes, NeverEmpty, TypeOK
<1>3. QED
    BY <1>1, <1>2, OnlyWritesGrow

\* Whoever writes next holds the lock and has read the line that is still the last.
LEMMA WriterStep ==
    ASSUME IInv, [Next]_vars
    PROVE  WriterOK'
<1> USE DEF IInv
<1>1. CASE UNCHANGED vars
    BY <1>1 DEF WriterOK, vars
<1>2. ASSUME NEW p \in Procs, NEW r \in Runs, NEW call \in Calls, Begin(p, r, call)
      PROVE  WriterOK'
    BY <1>2 DEF Begin, WriterOK, TypeOK, files
<1>3. ASSUME NEW p \in Procs, NEW r \in Runs, Replay(p, r)
      PROVE  WriterOK'
    BY <1>3 DEF Replay, WriterOK, TypeOK, files
<1>4. ASSUME NEW p \in Procs, CheckOpen(p) \/ Wipe(p)
      PROVE  WriterOK'
    BY <1>4 DEF CheckOpen, Wipe, WriterOK, TypeOK, files
<1>5. ASSUME NEW p \in Procs, Refuse(p) \/ TailUnreadable(p)
      PROVE  WriterOK'
    <2>1. Idle(p) /\ UNCHANGED <<log, lock>>
        BY <1>5 DEF Refuse, TailUnreadable, files
    <2>2. QED
        BY <2>1 DEF Idle, WriterOK, TypeOK
<1>6. ASSUME NEW p \in Procs, Lock(p)
      PROVE  WriterOK'
    <2>1. /\ run[p] \in Runs /\ lock[run[p]] = Nobody /\ run' = run /\ log' = log
          /\ lock' = [lock EXCEPT ![run[p]] = p]
          /\ prior' = [prior EXCEPT ![p] = log[run[p]][Len(log[run[p]])]]
          /\ pc' = [pc EXCEPT ![p] = "write"]
        BY <1>6 DEF Lock, CallOK
    <2>2. ASSUME NEW q \in Procs, pc'[q] = "write"
          PROVE  lock'[run'[q]] = q /\ prior'[q] = log'[run'[q]][Len(log'[run'[q]])]
        <3>1. CASE q = p
            BY <2>1, <3>1 DEF TypeOK
        <3>2. CASE q # p
            <4>1. /\ run[q] \in Runs /\ lock[run[q]] = q
                  /\ prior[q] = log[run[q]][Len(log[run[q]])]
                BY <2>1, <2>2, <3>2 DEF WriterOK, CallOK, TypeOK
            <4>2. run[q] # run[p]
                BY <2>1, <4>1, NobodyAssumption
            <4>3. QED
                BY <2>1, <3>2, <4>1, <4>2 DEF TypeOK
        <3>3. QED
            BY <3>1, <3>2
    <2>3. QED
        BY <2>2 DEF WriterOK
<1>7. ASSUME NEW p \in Procs, Write(p) \/ Crash(p)
      PROVE  WriterOK'
    <2>1. ASSUME NEW q \in Procs, pc'[q] = "write"
          PROVE  lock'[run'[q]] = q /\ prior'[q] = log'[run'[q]][Len(log'[run'[q]])]
        <3>1. /\ q # p /\ pc[q] = "write" /\ run'[q] = run[q] /\ prior'[q] = prior[q]
              /\ run[q] \in Runs
            BY <1>7, <2>1 DEF Write, Crash, Idle, CallOK, TypeOK
        <3>2. lock[run[q]] = q /\ prior[q] = log[run[q]][Len(log[run[q]])]
            BY <3>1 DEF WriterOK
        <3>3. pc[p] = "write" => run[p] # run[q]
            BY <3>1, <3>2 DEF WriterOK
        <3>4. lock'[run[q]] = lock[run[q]]
            <4>1. CASE Write(p)
                BY <3>1, <3>3, <4>1 DEF Write, TypeOK
            <4>2. CASE Crash(p)
                BY <3>1, <3>2, <4>2 DEF Crash
            <4>3. QED
                BY <1>7, <4>1, <4>2
        <3>5. log'[run[q]] = log[run[q]]
            <4>1. CASE Write(p)
                BY <3>1, <3>3, <4>1 DEF Write, TypeOK
            <4>2. CASE Crash(p)
                BY <3>1, <3>3, <4>2 DEF Crash, CutShort, TypeOK
            <4>3. QED
                BY <1>7, <4>1, <4>2
        <3>6. QED
            BY <3>1, <3>2, <3>4, <3>5
    <2>2. QED
        BY <2>1 DEF WriterOK
<1>8. ASSUME NEW p \in Procs, Apply(p)
      PROVE  WriterOK'
    <2>1. /\ pc[p] = "apply" /\ UNCHANGED <<log, lock, prior>>
          /\ pc' = [pc EXCEPT ![p] = AfterApply(p, "check")]
          /\ \A q \in Procs : q # p => run'[q] = run[q]
        BY <1>8 DEF Apply, files, TypeOK
    <2>2. AfterApply(p, "check") # "write"
        BY DEF AfterApply
    <2>3. QED
        BY <2>1, <2>2 DEF WriterOK, TypeOK
<1>9. QED
    BY <1>1, <1>2, <1>3, <1>4, <1>5, <1>6, <1>7, <1>8 DEF Next, Step

\* Every state of every execution is in the invariant.
THEOREM Invariance == Spec => []IInv
<1>1. Init => IInv
    BY InitIInv
<1>2. IInv /\ [Next]_vars => IInv'
    BY TypeStep, CallStep, NeverEmptyStep, WriterStep DEF IInv
<1>3. QED
    BY <1>1, <1>2, PTL DEF Spec

\* The type invariant holds for every set of processes and runs and every bound.
THEOREM TypeCorrect == Spec => []TypeOK
<1>1. IInv => TypeOK
    BY DEF IInv
<1>2. QED
    BY <1>1, Invariance, PTL

-----------------------------------------------------------------------------

\* Where the places of a log come from when p writes.
LEMMA Grown ==
    ASSUME IInv, NEW p \in Procs, Writes(p), NEW r \in Runs, NEW i \in DOMAIN log'[r]
    PROVE  /\ i \in Nat \ {0} /\ Len(log[r]) \in Nat /\ DOMAIN log[r] = 1..Len(log[r])
           /\ \/ i \in DOMAIN log[r] /\ log'[r][i] = log[r][i]
              \/ /\ r = run[p] /\ i = Len(log[r]) + 1
                 /\ log'[r][i] = NextEnvelope(prior[p], p, Head(todo[p]))
<1> DEFINE e == NextEnvelope(prior[p], p, Head(todo[p]))
<1>1. /\ run[p] \in Runs /\ e \in Envelopes /\ log \in [Runs -> Seq(Envelopes)]
      /\ log' = [log EXCEPT ![run[p]] = Append(@, e)]
    BY WrittenType DEF Writes, IInv, TypeOK
<1> HIDE DEF e
<1>2. CASE r = run[p]
    <2>1. log'[r] = Append(log[r], e) /\ log[r] \in Seq(Envelopes)
        BY <1>1, <1>2
    <2>2. QED
        BY <1>1, <1>2, <2>1 DEF e
<1>3. CASE r # run[p]
    BY <1>1, <1>3
<1>4. QED
    BY <1>2, <1>3

\* The chain holds: the writer links its envelope to the line that is still the last.
LEMMA ChainStep ==
    ASSUME IInv, ChainIntact, [Next]_vars
    PROVE  ChainIntact'
<1>1. CASE log' = log
    BY <1>1 DEF ChainIntact, Verified
<1>2. ASSUME NEW p \in Procs, Writes(p)
      PROVE  ChainIntact'
    <2>1. ASSUME NEW r \in Runs, NEW i \in DOMAIN log'[r]
          PROVE  /\ log'[r][i].seq = i
                 /\ log'[r][i].previous = IF i = 1 THEN NoDigest ELSE Digest(log'[r][i - 1])
        <3>1. log[r] \in Seq(Envelopes) /\ log[r] # <<>>
            BY DEF IInv, NeverEmpty, TypeOK
        <3>2. \A k \in DOMAIN log[r] :
                  /\ log[r][k].seq = k
                  /\ log[r][k].previous = IF k = 1 THEN NoDigest ELSE Digest(log[r][k - 1])
            BY DEF ChainIntact, Verified
        <3>3. \A k \in DOMAIN log[r] : log'[r][k] = log[r][k]
            <4>1. run[p] \in Runs /\ NextEnvelope(prior[p], p, Head(todo[p])) \in Envelopes
                BY <1>2, WrittenType DEF Writes
            <4>2. QED
                BY <1>2, <3>1, <4>1 DEF Writes, IInv, TypeOK
        <3>4. CASE i \in DOMAIN log[r]
            BY <3>1, <3>2, <3>3, <3>4
        <3>5. CASE i \notin DOMAIN log[r]
            <4>1. /\ r = run[p] /\ i = Len(log[r]) + 1
                  /\ log'[r][i] = NextEnvelope(prior[p], p, Head(todo[p]))
                BY <1>2, <3>5, Grown
            <4>2. Len(log[r]) \in DOMAIN log[r] /\ i - 1 = Len(log[r]) /\ i # 1
                BY <3>1, <4>1
            <4>3. prior[p] = log[r][Len(log[r])]
                BY <1>2, <4>1 DEF Writes, IInv, WriterOK
            <4>4. prior[p].seq = Len(log[r]) /\ prior[p] = log'[r][i - 1]
                BY <3>2, <3>3, <4>2, <4>3
            <4>5. QED
                BY <4>1, <4>2, <4>4 DEF NextEnvelope
        <3>6. QED
            BY <3>4, <3>5
    <2>2. QED
        BY <2>1 DEF ChainIntact, Verified
<1>3. QED
    BY <1>1, <1>2, OnlyWritesGrow DEF IInv

\* Who is on the way to a write was there before, or has just found the run open.
LEMMA OnTheWay ==
    ASSUME IInv, [Next]_vars, NEW p \in Procs, pc'[p] \in {"lock", "write"}
    PROVE  /\ run'[p] = run[p] /\ run[p] \in Runs
           /\ pc[p] \in {"lock", "write"} \/ (log' = log /\ ~Finalized(run[p]))
<1> USE DEF IInv
<1>1. CASE UNCHANGED vars
    BY <1>1 DEF CallOK, vars
<1>2. ASSUME NEW q \in Procs, NEW r \in Runs, NEW call \in Calls, Begin(q, r, call)
      PROVE  /\ run'[p] = run[p] /\ run[p] \in Runs
             /\ pc[p] \in {"lock", "write"}
    BY <1>2 DEF Begin, CallOK, TypeOK
<1>3. ASSUME NEW q \in Procs, NEW r \in Runs, Replay(q, r)
      PROVE  /\ run'[p] = run[p] /\ run[p] \in Runs
             /\ pc[p] \in {"lock", "write"}
    BY <1>3 DEF Replay, CallOK, TypeOK
<1>4. ASSUME NEW q \in Procs, CheckOpen(q)
      PROVE  /\ run'[p] = run[p] /\ run[p] \in Runs
             /\ pc[p] \in {"lock", "write"} \/ (log' = log /\ ~Finalized(run[p]))
    BY <1>4 DEF CheckOpen, CallOK, TypeOK, files
<1>5. ASSUME NEW q \in Procs, Lock(q) \/ Write(q) \/ Wipe(q)
      PROVE  /\ run'[p] = run[p] /\ run[p] \in Runs
             /\ pc[p] \in {"lock", "write"}
    BY <1>5 DEF Lock, Write, Wipe, CallOK, TypeOK
<1>6. ASSUME NEW q \in Procs, Refuse(q) \/ TailUnreadable(q) \/ Crash(q)
      PROVE  /\ run'[p] = run[p] /\ run[p] \in Runs
             /\ pc[p] \in {"lock", "write"}
    <2>1. Idle(q)
        BY <1>6 DEF Refuse, TailUnreadable, Crash
    <2>2. QED
        BY <2>1 DEF Idle, CallOK, TypeOK
<1>7. ASSUME NEW q \in Procs, Apply(q)
      PROVE  /\ run'[p] = run[p] /\ run[p] \in Runs
             /\ pc[p] \in {"lock", "write"}
    <2>1. /\ pc' = [pc EXCEPT ![q] = AfterApply(q, "check")]
          /\ \A o \in Procs : o # q => run'[o] = run[o]
        BY <1>7 DEF Apply, TypeOK
    <2>2. AfterApply(q, "check") \notin {"lock", "write"}
        BY DEF AfterApply
    <2>3. QED
        BY <2>1, <2>2 DEF CallOK, TypeOK
<1>8. QED
    BY <1>1, <1>2, <1>3, <1>4, <1>5, <1>6, <1>7 DEF Next, Step

\* An admitted process has written nothing since the run was finalized.
LEMMA AdmittedStep ==
    ASSUME IInv, AdmittedOK, [Next]_vars
    PROVE  AdmittedOK'
<1> SUFFICES ASSUME NEW p \in Procs, pc'[p] \in {"lock", "write"},
                    NEW f \in DOMAIN log'[run'[p]], NEW j \in DOMAIN log'[run'[p]],
                    f <= j, log'[run'[p]][f].kind = "finalized"
             PROVE  log'[run'[p]][j].by # p
    BY DEF AdmittedOK
<1> DEFINE r == run[p]
<1>1. /\ run'[p] = r /\ r \in Runs
      /\ pc[p] \in {"lock", "write"} \/ (log' = log /\ ~Finalized(r))
    BY OnTheWay
<1>2. CASE log' = log
    BY <1>1, <1>2 DEF Finalized, AdmittedOK
<1>3. ASSUME NEW q \in Procs, Writes(q), log' # log
      PROVE  log'[r][j].by # p
    <2>1. q # p /\ pc[p] \in {"lock", "write"}
        BY <1>1, <1>3 DEF Writes
    <2>2. CASE j \in DOMAIN log[r] /\ log'[r][j] = log[r][j]
        <3>1. f \in DOMAIN log[r] /\ log'[r][f] = log[r][f]
            BY <1>1, <1>3, <2>2, Grown
        <3>2. QED
            BY <1>1, <2>1, <2>2, <3>1 DEF AdmittedOK
    <2>3. CASE log'[r][j] = NextEnvelope(prior[q], q, Head(todo[q]))
        BY <2>1, <2>3 DEF NextEnvelope
    <2>4. QED
        BY <1>1, <1>3, <2>2, <2>3, Grown
<1>4. QED
    BY <1>1, <1>2, <1>3, OnlyWritesGrow DEF IInv

\* Who writes after the end has not written since the end.
LEMMA TerminalStep ==
    ASSUME IInv, AdmittedOK, TerminalUpToRaces, [Next]_vars
    PROVE  TerminalUpToRaces'
<1>1. CASE log' = log
    BY <1>1 DEF TerminalUpToRaces
<1>2. ASSUME NEW p \in Procs, Writes(p)
      PROVE  TerminalUpToRaces'
    <2> SUFFICES ASSUME NEW r \in Runs, NEW i \in DOMAIN log'[r], NEW j \in DOMAIN log'[r],
                        i < j, NEW f \in 1..i, log'[r][f].kind = "finalized"
                 PROVE  log'[r][i].by # log'[r][j].by
        BY DEF TerminalUpToRaces
    <2>1. f \in DOMAIN log'[r]
        <3>1. /\ run[p] \in Runs /\ NextEnvelope(prior[p], p, Head(todo[p])) \in Envelopes
              /\ log' = [log EXCEPT ![run[p]] = Append(@, NextEnvelope(prior[p], p, Head(todo[p])))]
            BY <1>2, WrittenType DEF Writes
        <3>2. log'[r] \in Seq(Envelopes)
            BY <3>1 DEF IInv, TypeOK
        <3>3. QED
            BY <3>2
    <2>2. i \in DOMAIN log[r] /\ log'[r][i] = log[r][i]
        BY <1>2, Grown
    <2>3. f \in DOMAIN log[r] /\ log'[r][f] = log[r][f]
        BY <1>2, <2>1, <2>2, Grown
    <2>4. CASE j \in DOMAIN log[r] /\ log'[r][j] = log[r][j]
        BY <2>2, <2>3, <2>4 DEF TerminalUpToRaces
    <2>5. CASE r = run[p] /\ log'[r][j] = NextEnvelope(prior[p], p, Head(todo[p]))
        <3>1. log[r][i].by # p
            <4>1. i \in Nat /\ f \in Nat /\ f <= i
                BY <1>2, Grown
            <4>2. QED
                BY <1>2, <2>2, <2>3, <2>5, <4>1 DEF AdmittedOK, Writes
        <3>2. QED
            BY <2>2, <2>5, <3>1 DEF NextEnvelope
    <2>6. QED
        BY <1>2, <2>4, <2>5, Grown
<1>3. QED
    BY <1>1, <1>2, OnlyWritesGrow DEF IInv

\* The chain of every run is never broken, whoever dies and however the writers race.
THEOREM ChainNeverBreaks == Spec => []ChainIntact
<1>1. Init => ChainIntact
    BY DEF Init, ChainIntact, Verified
<1>2. IInv /\ ChainIntact /\ [Next]_vars => ChainIntact'
    BY ChainStep
<1>3. QED
    BY <1>1, <1>2, Invariance, PTL DEF Spec

\* After RUN_FINALIZED every process adds at most one event, and its writer none.
THEOREM TerminalHistory == Spec => []TerminalUpToRaces
<1>1. Init => AdmittedOK
    BY DEF Init, AdmittedOK
<1>2. Init => TerminalUpToRaces
    BY DEF Init, TerminalUpToRaces
<1>3. IInv /\ AdmittedOK /\ [Next]_vars => AdmittedOK'
    BY AdmittedStep
<1>4. IInv /\ AdmittedOK /\ TerminalUpToRaces /\ [Next]_vars => TerminalUpToRaces'
    BY TerminalStep
<1>5. QED
    BY <1>1, <1>2, <1>3, <1>4, Invariance, PTL DEF Spec

-----------------------------------------------------------------------------
\* EventLog implements History.

\* What History keeps of an envelope, and of a log.
Entry(e) == [by |-> e.by, kind |-> e.kind]
Entries(events) == [i \in DOMAIN events |-> Entry(events[i])]

\* The entries of a sequence of envelopes.
LEMMA EntriesType ==
    ASSUME NEW events \in Seq(Envelopes)
    PROVE  /\ Entries(events) \in Seq([by : Procs, kind : Kinds])
           /\ Len(Entries(events)) = Len(events)
           /\ \A i \in 1..Len(events) : Entries(events)[i] = Entry(events[i])
<1>1. \A i \in 1..Len(events) : Entry(events[i]) \in [by : Procs, kind : Kinds]
    <2>1. \A x \in Envelopes : Entry(x) \in [by : Procs, kind : Kinds]
        BY DEF Entry, Envelopes
    <2>2. QED
        BY <2>1, ElementOfSeq
<1>2. Len(events) \in Nat /\ Entries(events) = [i \in 1..Len(events) |-> Entry(events[i])]
    BY DEF Entries
<1>3. QED
    BY <1>1, <1>2

\* Appending an envelope appends its entry.
LEMMA EntriesAppend ==
    ASSUME NEW events \in Seq(Envelopes), NEW e \in Envelopes
    PROVE  Entries(Append(events, e)) = Append(Entries(events), Entry(e))
<1> DEFINE S == [by : Procs, kind : Kinds]
           longer == Append(events, e)
           s == Entries(events)
           t == Append(s, Entry(e))
<1>1. /\ longer \in Seq(Envelopes) /\ Len(longer) = Len(events) + 1
      /\ \A i \in 1..Len(events) : longer[i] = events[i]
      /\ longer[Len(events) + 1] = e
    BY AppendProperties
<1>2. s \in Seq(S) /\ Len(s) = Len(events) /\ Len(events) \in Nat
      /\ \A i \in 1..Len(events) : s[i] = Entry(events[i])
    BY EntriesType, LenProperties
<1>3. Entry(e) \in S
    BY DEF Entry, Envelopes
<1> HIDE DEF S, longer, s
<1>4. /\ t \in Seq(S) /\ Len(t) = Len(s) + 1
      /\ \A i \in 1..Len(s) : t[i] = s[i]
      /\ t[Len(s) + 1] = Entry(e)
    BY <1>2, <1>3, AppendProperties
<1>5. /\ Entries(longer) \in Seq(S) /\ Len(Entries(longer)) = Len(longer)
      /\ \A i \in 1..Len(longer) : Entries(longer)[i] = Entry(longer[i])
    BY <1>1, EntriesType DEF S
<1> HIDE DEF t
<1>6. \A i \in 1..Len(longer) : Entries(longer)[i] = t[i]
  <2> SUFFICES ASSUME NEW i \in 1..Len(longer)
               PROVE  Entries(longer)[i] = t[i]
      OBVIOUS
  <2>1. Entries(longer)[i] = Entry(longer[i])
      BY <1>5
  <2>2. CASE i \in 1..Len(events)
      BY <2>1, <2>2, <1>1, <1>2, <1>4
  <2>3. CASE i = Len(events) + 1
    <3>1. longer[i] = e
        BY <2>3, <1>1
    <3>2. t[i] = Entry(e)
        BY <2>3, <1>2, <1>4
    <3>3. QED
        BY <2>1, <3>1, <3>2
  <2>4. QED
      BY <2>2, <2>3, <1>1, <1>2
<1>7. Entries(longer) = t
    BY <1>1, <1>2, <1>4, <1>5, <1>6, SeqEqual
<1>8. QED
    BY <1>7 DEF longer, t, s

\* The history a log stands for.
LEMMA HistoriesAreEntries == Histories = [r \in Runs |-> Entries(log[r])]
BY DEF Histories, Entries, Entry

\* A write is a commit.
LEMMA WriteCommits ==
    ASSUME IInv, NEW p \in Procs, Writes(p)
    PROVE  Promised!Commit(p, Head(todo[p]))
<1> DEFINE e == NextEnvelope(prior[p], p, Head(todo[p]))
<1>1. /\ run[p] \in Runs /\ e \in Envelopes /\ log \in [Runs -> Seq(Envelopes)]
      /\ log' = [log EXCEPT ![run[p]] = Append(@, e)]
      /\ Entry(e) = [by |-> p, kind |-> Head(todo[p])]
    BY WrittenType DEF Writes, IInv, TypeOK, NextEnvelope, Entry
<1>2. Admissions[p] = run[p] /\ run[p] # Nobody
    BY <1>1, NobodyAssumption DEF Admissions, Writes
<1>3. Admissions' = [Admissions EXCEPT ![p] = Nobody]
    BY DEF Admissions, Writes
<1> HIDE DEF e
<1>4. Histories' = [r \in Runs |-> Entries(log'[r])]
    BY DEF Histories, Entries, Entry
<1>5. Entries(log'[run[p]]) = Append(Entries(log[run[p]]), Entry(e))
    BY <1>1, EntriesAppend
<1>6. \A r \in Runs : r # run[p] => log'[r] = log[r]
    BY <1>1
<1>7. Histories' = [Histories EXCEPT ![run[p]] = Append(@, Entry(e))]
    BY <1>1, <1>4, <1>5, <1>6, HistoriesAreEntries
<1>8. QED
    BY <1>1, <1>2, <1>3, <1>7 DEF Promised!Commit

\* Where the log stays, so does the history.
LEMMA HistoriesStay ==
    ASSUME log' = log
    PROVE  Histories' = Histories
BY DEF Histories

\* Every step of the files and the processes is a step of History, or none.
LEMMA StepImplements ==
    ASSUME IInv, [Next]_vars
    PROVE  [Promised!Next]_(Promised!vars)
<1> USE DEF IInv
<1>1. CASE UNCHANGED vars
    BY <1>1 DEF vars, Promised!vars, Histories, Admissions
<1>2. ASSUME NEW p \in Procs, NEW r \in Runs, NEW call \in Calls, Begin(p, r, call)
      PROVE  UNCHANGED Promised!vars
    <2>1. Admissions' = Admissions
        BY <1>2 DEF Begin, Admissions, TypeOK
    <2>2. QED
        BY <1>2, <2>1, HistoriesStay DEF Begin, files, Promised!vars
<1>3. ASSUME NEW p \in Procs, NEW r \in Runs, Replay(p, r)
      PROVE  UNCHANGED Promised!vars
    <2>1. Admissions' = Admissions
        BY <1>3 DEF Replay, Admissions, TypeOK
    <2>2. QED
        BY <1>3, <2>1, HistoriesStay DEF Replay, files, Promised!vars
<1>4. ASSUME NEW p \in Procs, CheckOpen(p)
      PROVE  Promised!Admit(p, run[p]) /\ run[p] \in Runs
    <2>1. Histories' = Histories /\ run[p] \in Runs
        BY <1>4, HistoriesStay DEF CheckOpen, files, CallOK
    <2>2. Admissions[p] = Nobody /\ Admissions' = [Admissions EXCEPT ![p] = run[p]]
        BY <1>4 DEF CheckOpen, Admissions, TypeOK
    <2>3. ~Promised!Closed(run[p])
        BY <1>4, <2>1 DEF CheckOpen, Finalized, Promised!Closed, Histories
    <2>4. QED
        BY <2>1, <2>2, <2>3 DEF Promised!Admit
<1>5. ASSUME NEW p \in Procs, Refuse(p) \/ Wipe(p) \/ Lock(p)
      PROVE  UNCHANGED Promised!vars
    <2>1. Admissions' = Admissions /\ log' = log
        <3>1. CASE Refuse(p)
            BY <3>1 DEF Refuse, Idle, Admissions, TypeOK, files
        <3>2. CASE Wipe(p)
            BY <3>2 DEF Wipe, Admissions, TypeOK, files
        <3>3. CASE Lock(p)
            BY <3>3 DEF Lock, Admissions, TypeOK
        <3>4. QED
            BY <1>5, <3>1, <3>2, <3>3
    <2>2. QED
        BY <2>1, HistoriesStay DEF Promised!vars
<1>6. ASSUME NEW p \in Procs, TailUnreadable(p)
      PROVE  Promised!Withdraw(p)
    <2>1. Histories' = Histories /\ run[p] \in Runs
        BY <1>6, HistoriesStay DEF TailUnreadable, files, CallOK
    <2>2. Admissions[p] # Nobody /\ Admissions' = [Admissions EXCEPT ![p] = Nobody]
        BY <1>6, <2>1, NobodyAssumption DEF TailUnreadable, Idle, Admissions, TypeOK
    <2>3. QED
        BY <2>1, <2>2 DEF Promised!Withdraw
<1>7. ASSUME NEW p \in Procs, Write(p)
      PROVE  Promised!Commit(p, Head(todo[p])) /\ Head(todo[p]) \in Kinds
    <2>1. Writes(p)
        BY <1>7 DEF Write, Writes, TypeOK
    <2>2. QED
        BY <2>1, WriteCommits, WrittenType DEF Writes
<1>8. ASSUME NEW p \in Procs, Apply(p)
      PROVE  UNCHANGED Promised!vars
    <2>1. pc[p] = "apply" /\ pc' = [pc EXCEPT ![p] = AfterApply(p, "check")] /\ log' = log
          /\ \A q \in Procs : q # p => run'[q] = run[q]
        BY <1>8 DEF Apply, files, TypeOK
    <2>2. AfterApply(p, "check") \notin {"lock", "write"}
        BY DEF AfterApply
    <2>3. Admissions' = Admissions
        BY <2>1, <2>2 DEF Admissions, TypeOK
    <2>4. QED
        BY <2>1, <2>3, HistoriesStay DEF Promised!vars
<1>9. ASSUME NEW p \in Procs, Crash(p)
      PROVE  \/ UNCHANGED Promised!vars
             \/ Promised!Withdraw(p)
             \/ Promised!Commit(p, Head(todo[p])) /\ Head(todo[p]) \in Kinds
    <2>1. Idle(p)
        BY <1>9 DEF Crash
    <2>2. CASE log' # log
        <3>1. Writes(p)
            BY <1>9, <2>1, <2>2 DEF Crash, CutShort, Idle, Writes, TypeOK
        <3>2. QED
            BY <3>1, WriteCommits, WrittenType DEF Writes
    <2>3. CASE log' = log /\ pc[p] \in {"lock", "write"}
        <3>1. run[p] \in Runs
            BY <2>3 DEF CallOK
        <3>2. Admissions[p] # Nobody /\ Admissions' = [Admissions EXCEPT ![p] = Nobody]
            BY <2>1, <2>3, <3>1, NobodyAssumption DEF Idle, Admissions, TypeOK
        <3>3. QED
            BY <2>3, <3>2, HistoriesStay DEF Promised!Withdraw
    <2>4. CASE log' = log /\ pc[p] \notin {"lock", "write"}
        <3>1. Admissions' = Admissions
            BY <2>1, <2>4 DEF Idle, Admissions, TypeOK
        <3>2. QED
            BY <2>4, <3>1, HistoriesStay DEF Promised!vars
    <2>5. QED
        BY <2>2, <2>3, <2>4
<1>10. QED
    BY <1>1, <1>2, <1>3, <1>4, <1>5, <1>6, <1>7, <1>8, <1>9 DEF Next, Step, Promised!Next

\* The logs start as open histories of one entry.
LEMMA InitImplements ==
    ASSUME Init
    PROVE  Promised!Init
<1>1. PICK by \in Procs :
          log = [r \in Runs |-> <<[seq |-> 1, by |-> by, kind |-> "created", previous |-> NoDigest]>>]
    BY DEF Init
<1> DEFINE first == [r \in Runs |-> [by |-> by, kind |-> "created"]]
<1>2. first \in [Runs -> Promised!Entries] /\ \A r \in Runs : first[r].kind # "finalized"
    BY DEF Promised!Entries, Kinds
<1>3. Histories = [r \in Runs |-> <<first[r]>>]
    <2>1. ASSUME NEW r \in Runs
          PROVE  [i \in DOMAIN log[r] |-> [by |-> log[r][i].by, kind |-> log[r][i].kind]] = <<first[r]>>
        BY <1>1
    <2>2. QED
        BY <2>1 DEF Histories
<1>4. Admissions = [p \in Procs |-> Nobody]
    BY DEF Init, Admissions
<1>5. QED
    BY <1>2, <1>3, <1>4 DEF Promised!Init

\* The files, the lock, the crashes and the interleavings implement the promise of
\* History: admission while the history is open, one entry at the end per admission.
THEOREM Implements == Spec => ImplementsHistory
<1>1. Init => Promised!Init
    BY InitImplements
<1>2. IInv /\ [Next]_vars => [Promised!Next]_(Promised!vars)
    BY StepImplements
<1>3. QED
    BY <1>1, <1>2, Invariance, PTL DEF Spec, ImplementsHistory, Promised!Spec

-----------------------------------------------------------------------------
\* The projection.

\* A log starts with the creation of its run.
LogStarts == \A r \in Runs : 1 \in DOMAIN log[r] /\ log[r][1].kind = "created"

\* Whoever projects has events before it that are in the log, and a process that
\* rests or replays has none to append.
DueOK ==
    \A p \in Procs :
        /\ pc[p] = "apply" \/ pc[p] = "wipe" => \A k \in DOMAIN due[p] : due[p][k] \in DOMAIN log[run[p]]
        /\ pc[p] \in {"idle", "wipe"} => todo[p] = <<>>

\* The status that the first k events of run r give.
StatusIs(s, r, k) ==
    IF k = 0 THEN s = "absent"
    ELSE \E i \in 1..k : /\ log[r][i].kind \in Bearing
                         /\ \A j \in (i + 1)..k : log[r][j].kind \notin Bearing
                         /\ s = StatusAfter("running", log[r][i].kind)

\* A replay of p that nobody has disturbed: the first k events of its run are projected,
\* and the others are due, in their order.
Halfway(p, k) ==
    /\ Len(due[p]) = Len(log[run[p]]) - k
    /\ \A j \in 1..Len(due[p]) : due[p][j] = k + j
    /\ \A i \in Nat : <<run[p], i>> \in shown <=> i \in 1..k
    /\ StatusIs(status[run[p]], run[p], k)

\* How far an undisturbed replay can be.
SoloOK ==
    \A p \in Procs : solo = p =>
        /\ pc[p] \in {"idle", "wipe", "apply"} /\ todo[p] = <<>>
        /\ pc[p] = "wipe" => due[p] = [i \in 1..Len(log[run[p]]) |-> i]
        /\ pc[p] = "apply" => \E k \in 0..(Len(log[run[p]]) - 1) : Halfway(p, k)

\* A log that is there has finitely many places, and keeps what it has.
LEMMA LogsGrow ==
    ASSUME IInv, [Next]_vars, NEW r \in Runs
    PROVE  /\ Len(log[r]) \in Nat /\ DOMAIN log[r] = 1..Len(log[r]) /\ DOMAIN log[r] \subseteq DOMAIN log'[r]
           /\ \A i \in DOMAIN log[r] : log'[r][i] = log[r][i]
<1>1. log[r] \in Seq(Envelopes)
    BY DEF IInv, TypeOK
<1>2. CASE log' = log
    BY <1>1, <1>2
<1>3. ASSUME NEW p \in Procs, Writes(p)
      PROVE  DOMAIN log[r] \subseteq DOMAIN log'[r] /\ \A i \in DOMAIN log[r] : log'[r][i] = log[r][i]
    <2>1. run[p] \in Runs /\ NextEnvelope(prior[p], p, Head(todo[p])) \in Envelopes
        BY <1>3, WrittenType DEF Writes
    <2>2. QED
        BY <1>1, <1>3, <2>1 DEF Writes, IInv, TypeOK
<1>4. QED
    BY <1>1, <1>2, <1>3, OnlyWritesGrow DEF IInv

\* The first event stays the first.
LEMMA StartsStep ==
    ASSUME IInv, LogStarts, [Next]_vars
    PROVE  LogStarts'
<1> SUFFICES ASSUME NEW r \in Runs PROVE 1 \in DOMAIN log'[r] /\ log'[r][1].kind = "created"
    BY DEF LogStarts
<1>1. 1 \in DOMAIN log[r] /\ log[r][1].kind = "created"
    BY DEF LogStarts
<1>2. DOMAIN log[r] \subseteq DOMAIN log'[r] /\ \A i \in DOMAIN log[r] : log'[r][i] = log[r][i]
    BY LogsGrow
<1>3. QED
    BY <1>1, <1>2

\* What is due of a process that does not move stays in the log.
LEMMA DueStays ==
    ASSUME IInv, DueOK, [Next]_vars, NEW p \in Procs,
           pc'[p] = pc[p], run'[p] = run[p], due'[p] = due[p], todo'[p] = todo[p]
    PROVE  /\ pc'[p] = "apply" \/ pc'[p] = "wipe" =>
                  \A k \in DOMAIN due'[p] : due'[p][k] \in DOMAIN log'[run'[p]]
           /\ pc'[p] \in {"idle", "wipe"} => todo'[p] = <<>>
<1>1. pc[p] = "apply" \/ pc[p] = "wipe" => run[p] \in Runs /\ DOMAIN log[run[p]] \subseteq DOMAIN log'[run[p]]
    <2>1. pc[p] = "apply" \/ pc[p] = "wipe" => run[p] \in Runs
        BY DEF IInv, CallOK
    <2>2. QED
        BY <2>1, LogsGrow
<1>2. QED
    BY <1>1 DEF DueOK

\* What is due is in the log.
LEMMA DueStep ==
    ASSUME IInv, DueOK, [Next]_vars
    PROVE  DueOK'
<1> DEFINE Due(p) == /\ pc[p] = "apply" \/ pc[p] = "wipe" => \A k \in DOMAIN due[p] : due[p][k] \in DOMAIN log[run[p]]
                     /\ pc[p] \in {"idle", "wipe"} => todo[p] = <<>>
<1>1. ASSUME UNCHANGED vars, NEW q \in Procs
      PROVE  Due(q)'
    BY <1>1, DueStays DEF vars
<1>2. ASSUME NEW p \in Procs, NEW r \in Runs, NEW call \in Calls, Begin(p, r, call), NEW q \in Procs
      PROVE  Due(q)'
    <2>1. CASE q = p
        BY <1>2, <2>1 DEF Begin, IInv, TypeOK
    <2>2. CASE q # p
        BY <1>2, <2>2, DueStays DEF Begin, IInv, TypeOK
    <2>3. QED
        BY <2>1, <2>2
<1>3. ASSUME NEW p \in Procs, NEW r \in Runs, Replay(p, r), NEW q \in Procs
      PROVE  Due(q)'
    <2>1. CASE q = p
        <3>1. /\ due'[p] = [i \in 1..Len(log[r]) |-> i] /\ run'[p] = r /\ log' = log
              /\ todo' = todo /\ pc[p] = "idle" /\ pc'[p] = "wipe"
            BY <1>3 DEF Replay, IInv, TypeOK, files
        <3>2. DOMAIN log[r] = 1..Len(log[r])
            BY LogsGrow
        <3>3. \A k \in DOMAIN due'[p] : due'[p][k] \in DOMAIN log'[run'[p]]
            BY <3>1, <3>2
        <3>4. todo'[p] = <<>>
            BY <3>1 DEF DueOK
        <3>5. QED
            BY <2>1, <3>3, <3>4
    <2>2. CASE q # p
        BY <1>3, <2>2, DueStays DEF Replay, IInv, TypeOK
    <2>3. QED
        BY <2>1, <2>2
<1>4. ASSUME NEW p \in Procs, CheckOpen(p) \/ Lock(p), NEW q \in Procs
      PROVE  Due(q)'
    <2>1. CASE q = p
        BY <1>4, <2>1 DEF CheckOpen, Lock, IInv, TypeOK
    <2>2. CASE q # p
        BY <1>4, <2>2, DueStays DEF CheckOpen, Lock, IInv, TypeOK
    <2>3. QED
        BY <2>1, <2>2
<1>5. ASSUME NEW p \in Procs, Refuse(p) \/ TailUnreadable(p) \/ Crash(p), NEW q \in Procs
      PROVE  Due(q)'
    <2>1. Idle(p)
        BY <1>5 DEF Refuse, TailUnreadable, Crash
    <2>2. CASE q = p
        BY <2>1, <2>2 DEF Idle, IInv, TypeOK
    <2>3. CASE q # p
        BY <2>1, <2>3, DueStays DEF Idle, IInv, TypeOK
    <2>4. QED
        BY <2>2, <2>3
<1>6. ASSUME NEW p \in Procs, Write(p), NEW q \in Procs
      PROVE  Due(q)'
    <2>1. CASE q = p
        <3>1. /\ run[p] \in Runs /\ NextEnvelope(prior[p], p, Head(todo[p])) \in Envelopes
              /\ log[run[p]] \in Seq(Envelopes)
            BY <1>6, WrittenType DEF Write, IInv, TypeOK
        <3>2. /\ due'[p] = <<Len(log[run[p]]) + 1>> /\ run' = run /\ pc'[p] = "apply"
              /\ log'[run[p]] = Append(log[run[p]], NextEnvelope(prior[p], p, Head(todo[p])))
            BY <1>6, <3>1 DEF Write, IInv, TypeOK
        <3>3. Len(log[run[p]]) + 1 \in DOMAIN log'[run[p]]
            BY <3>1, <3>2
        <3>4. \A k \in DOMAIN due'[p] : due'[p][k] \in DOMAIN log'[run'[p]]
            BY <3>2, <3>3
        <3>5. QED
            BY <2>1, <3>2, <3>4
    <2>2. CASE q # p
        BY <1>6, <2>2, DueStays DEF Write, IInv, TypeOK
    <2>3. QED
        BY <2>1, <2>2
<1>7. ASSUME NEW p \in Procs, Wipe(p), NEW q \in Procs
      PROVE  Due(q)'
    <2>1. CASE q = p
        BY <1>7, <2>1 DEF Wipe, files, DueOK, IInv, TypeOK
    <2>2. CASE q # p
        BY <1>7, <2>2, DueStays DEF Wipe, IInv, TypeOK
    <2>3. QED
        BY <2>1, <2>2
<1>8. ASSUME NEW p \in Procs, Apply(p), NEW q \in Procs
      PROVE  Due(q)'
    <2>1. /\ pc[p] = "apply" /\ todo' = todo /\ log' = log
          /\ pc' = [pc EXCEPT ![p] = AfterApply(p, "check")]
          /\ due' = [due EXCEPT ![p] = Tail(due[p])]
          /\ run' = [run EXCEPT ![p] = IF AfterApply(p, "check") = "idle" THEN Nobody ELSE run[p]]
        BY <1>8 DEF Apply, files
    <2>2. CASE q = p
        <3>1. due[p] \in Seq(Nat \ {0}) /\ due[p] # <<>> /\ due'[p] = Tail(due[p])
            BY <2>1 DEF IInv, TypeOK, CallOK
        <3>2. \A k \in DOMAIN due'[p] : due'[p][k] = due[p][k + 1] /\ k + 1 \in DOMAIN due[p]
            BY <3>1
        <3>3. \A k \in DOMAIN due[p] : due[p][k] \in DOMAIN log[run[p]]
            BY <2>1 DEF DueOK
        <3>4. pc'[p] = AfterApply(p, "check")
            BY <2>1 DEF IInv, TypeOK
        <3>5. pc'[p] = "idle" => todo[p] = <<>>
            BY <3>4 DEF AfterApply
        <3>6. pc'[p] # "wipe" /\ (pc'[p] = "apply" => run'[p] = run[p])
            BY <2>1, <3>4 DEF AfterApply, IInv, TypeOK
        <3>7. QED
            BY <2>1, <2>2, <3>2, <3>3, <3>5, <3>6
    <2>3. CASE q # p
        BY <2>1, <2>3, DueStays DEF IInv, TypeOK
    <2>4. QED
        BY <2>2, <2>3
<1>9. \A q \in Procs : Due(q)'
    BY <1>1, <1>2, <1>3, <1>4, <1>5, <1>6, <1>7, <1>8 DEF Next, Step
<1>10. QED
    BY <1>9 DEF DueOK

\* The places of run r whose event moved the posterior and is projected.
MovedAt(r) == {i \in DOMAIN log[r] : <<r, i>> \in shown /\ log[r][i].kind = "posterior"}

\* They are finitely many.
LEMMA MovedFinite ==
    ASSUME TypeOK, NEW r \in Runs
    PROVE  IsFiniteSet(MovedAt(r)) /\ Cardinality(MovedAt(r)) \in Nat
<1> DEFINE all == 1..Len(log[r])
<1>1. Len(log[r]) \in Nat /\ MovedAt(r) \in SUBSET all
    BY DEF TypeOK, MovedAt
<1>2. IsFiniteSet(all)
    BY <1>1, FS_Interval
<1> HIDE DEF all
<1>3. QED
    BY <1>1, <1>2, FS_Subset, FS_CardinalityType

\* Only the two steps of the projection touch it.
LEMMA TablesStay ==
    ASSUME [Next]_vars
    PROVE  \/ shown' = shown /\ status' = status /\ version' = version
           \/ \E p \in Procs : Wipe(p) \/ Apply(p)
<1>1. CASE UNCHANGED vars
    BY <1>1 DEF vars
<1>2. ASSUME NEW p \in Procs, NEW r \in Runs, NEW call \in Calls, Begin(p, r, call)
      PROVE  shown' = shown /\ status' = status /\ version' = version
    BY <1>2 DEF Begin, tables
<1>3. ASSUME NEW p \in Procs, NEW r \in Runs, Replay(p, r)
      PROVE  shown' = shown /\ status' = status /\ version' = version
    BY <1>3 DEF Replay, tables
<1>4. ASSUME NEW p \in Procs,
             CheckOpen(p) \/ Refuse(p) \/ Lock(p) \/ TailUnreadable(p) \/ Write(p) \/ Crash(p)
      PROVE  shown' = shown /\ status' = status /\ version' = version
    BY <1>4 DEF CheckOpen, Refuse, Lock, TailUnreadable, Write, Crash, tables
<1>5. QED
    BY <1>1, <1>2, <1>3, <1>4 DEF Next, Step

\* An event moves the posterior of the projection only as it comes to be shown.
LEMMA PosteriorStep ==
    ASSUME IInv, TypeOK', DueOK, PosteriorMovedOnce, [Next]_vars
    PROVE  PosteriorMovedOnce'
<1> SUFFICES ASSUME NEW r \in Runs PROVE version'[r] <= Cardinality(MovedAt(r)')
    BY DEF PosteriorMovedOnce, MovedAt
<1>1. version[r] <= Cardinality(MovedAt(r)) /\ version[r] \in Nat
    BY DEF PosteriorMovedOnce, MovedAt, IInv, TypeOK
<1>2. IsFiniteSet(MovedAt(r)) /\ Cardinality(MovedAt(r)) \in Nat
    BY MovedFinite DEF IInv
<1>3. IsFiniteSet(MovedAt(r)') /\ Cardinality(MovedAt(r)') \in Nat
    <2> DEFINE all == 1..Len(log'[r])
    <2>1. Len(log'[r]) \in Nat /\ MovedAt(r)' \in SUBSET all
        BY DEF TypeOK, MovedAt
    <2>2. IsFiniteSet(all)
        BY <2>1, FS_Interval
    <2> HIDE DEF all
    <2>3. QED
        BY <2>1, <2>2, FS_Subset, FS_CardinalityType
<1>4. CASE shown' = shown /\ version' = version
    <2>1. MovedAt(r) \in SUBSET MovedAt(r)'
        BY <1>4, LogsGrow DEF MovedAt
    <2>2. Cardinality(MovedAt(r)) <= Cardinality(MovedAt(r)')
        BY <1>3, <2>1, FS_Subset
    <2>3. QED
        BY <1>1, <1>2, <1>3, <1>4, <2>2
<1>5. ASSUME NEW p \in Procs, Wipe(p)
      PROVE  version'[r] <= Cardinality(MovedAt(r)')
    BY <1>3, <1>5 DEF Wipe
<1>6. ASSUME NEW p \in Procs, Apply(p)
      PROVE  version'[r] <= Cardinality(MovedAt(r)')
    <2>1. PICK here : here = run[p]
        OBVIOUS
    <2>2. PICK i : i = Head(due[p])
        OBVIOUS
    <2>3. /\ pc[p] = "apply" /\ here \in Runs /\ log' = log /\ Applied(here, i)
          /\ i \in DOMAIN log[here]
        <3>1. pc[p] = "apply" /\ log' = log /\ Applied(run[p], Head(due[p])) /\ run[p] \in Runs
            BY <1>6 DEF Apply, IInv, CallOK, files
        <3>2. due[p] \in Seq(Nat \ {0}) /\ due[p] # <<>>
            BY <3>1 DEF IInv, TypeOK, CallOK
        <3>3. 1 \in DOMAIN due[p] /\ Head(due[p]) = due[p][1]
            BY <3>2
        <3>4. Head(due[p]) \in DOMAIN log[run[p]]
            BY <3>1, <3>3 DEF DueOK
        <3>5. QED
            BY <2>1, <2>2, <3>1, <3>4
    <2>4. CASE <<here, i>> \in shown
        <3>1. shown' = shown /\ version' = version
            BY <2>3, <2>4 DEF Applied, tables
        <3>2. QED
            BY <1>4, <3>1
    <2>5. CASE <<here, i>> \notin shown
        <3>1. /\ shown' = shown \cup {<<here, i>>}
              /\ version' = IF log[here][i].kind = "posterior" /\ status[here] # "absent"
                            THEN [version EXCEPT ![here] = version[here] + 1]
                            ELSE version
            BY <2>3, <2>5 DEF Applied
        <3>2. MovedAt(r) \in SUBSET MovedAt(r)'
            BY <2>3, <3>1 DEF MovedAt
        <3>3. Cardinality(MovedAt(r)) <= Cardinality(MovedAt(r)')
            BY <1>3, <3>2, FS_Subset
        <3>4. CASE version' = version
            BY <1>1, <1>2, <1>3, <3>3, <3>4
        <3>5. CASE r # here
            <4>1. version'[r] = version[r]
                BY <2>3, <3>1, <3>5 DEF IInv, TypeOK
            <4>2. QED
                BY <1>1, <1>2, <1>3, <3>3, <4>1
        <3>6. CASE r = here /\ log[here][i].kind = "posterior"
            <4>1. version'[r] <= version[r] + 1 /\ version'[r] \in Nat
                BY <2>3, <3>1, <3>6 DEF IInv, TypeOK
            <4>2. MovedAt(r)' = MovedAt(r) \cup {i} /\ i \notin MovedAt(r)
                BY <2>3, <2>5, <3>1, <3>6 DEF MovedAt
            <4>3. Cardinality(MovedAt(r)') = Cardinality(MovedAt(r)) + 1
                BY <1>2, <4>2, FS_AddElement
            <4>4. QED
                BY <1>1, <1>2, <4>1, <4>3
        <3>7. QED
            BY <3>1, <3>4, <3>5, <3>6
    <2>6. QED
        BY <2>4, <2>5
<1>7. QED
    BY <1>4, <1>5, <1>6, TablesStay

\* The state the projection starts in.
LEMMA InitProjection ==
    ASSUME Init
    PROVE  LogStarts /\ DueOK /\ SoloOK /\ PosteriorMovedOnce
<1>1. \A r \in Runs : 1 \in DOMAIN log[r] /\ log[r][1].kind = "created"
    BY DEF Init
<1>2. DueOK
    BY DEF Init, DueOK
<1>3. SoloOK
    BY NobodyAssumption DEF Init, SoloOK
<1>4. PosteriorMovedOnce
    <2> SUFFICES ASSUME NEW r \in Runs PROVE version[r] <= Cardinality(MovedAt(r))
        BY DEF PosteriorMovedOnce, MovedAt
    <2>1. IsFiniteSet(MovedAt(r)) /\ Cardinality(MovedAt(r)) \in Nat
        BY InitIInv, MovedFinite DEF IInv
    <2>2. version[r] = 0
        BY DEF Init
    <2>3. QED
        BY <2>1, <2>2
<1>5. QED
    BY <1>1, <1>2, <1>3, <1>4 DEF LogStarts

\* Whatever is replayed, by however many processes, and whoever projects beside it, an
\* update of the posterior counts once.
THEOREM PosteriorMovesOnce == Spec => []PosteriorMovedOnce
<1>1. Init => DueOK /\ PosteriorMovedOnce
    BY InitProjection
<1>2. IInv /\ DueOK /\ [Next]_vars => DueOK'
    BY DueStep
<1>3. IInv /\ IInv' /\ DueOK /\ PosteriorMovedOnce /\ [Next]_vars => PosteriorMovedOnce'
    BY PosteriorStep DEF IInv
<1>4. QED
    BY <1>1, <1>2, <1>3, Invariance, PTL DEF Spec

-----------------------------------------------------------------------------
\* A replay that nobody disturbs.

\* The status of a run is the one its last bearing event gives.
LEMMA LoggedStatusIs ==
    ASSUME TypeOK, NEW r \in Runs, NEW s, log[r] # <<>>, StatusIs(s, r, Len(log[r]))
    PROVE  s = LoggedStatus(r)
<1> DEFINE bearing == {i \in DOMAIN log[r] : log[r][i].kind \in Bearing}
           last == CHOOSE i \in bearing : \A j \in bearing : j <= i
<1>1. Len(log[r]) \in Nat /\ Len(log[r]) # 0 /\ DOMAIN log[r] = 1..Len(log[r])
    BY DEF TypeOK
<1>2. PICK i \in 1..Len(log[r]) :
          /\ log[r][i].kind \in Bearing
          /\ \A j \in (i + 1)..Len(log[r]) : log[r][j].kind \notin Bearing
          /\ s = StatusAfter("running", log[r][i].kind)
    BY <1>1 DEF StatusIs
<1>3. i \in bearing /\ bearing \subseteq 1..Len(log[r])
    BY <1>1, <1>2
<1>4. \A j \in bearing : j <= i
    BY <1>1, <1>2
<1>5. LoggedStatus(r) = StatusAfter("running", log[r][last].kind)
    BY DEF LoggedStatus
<1> HIDE DEF bearing
<1>6. last \in bearing /\ \A j \in bearing : j <= last
    BY <1>3, <1>4
<1> HIDE DEF last
<1>7. last = i
    BY <1>1, <1>3, <1>4, <1>6
<1>8. QED
    BY <1>2, <1>5, <1>7

\* One event more gives the status that many events give.
LEMMA StatusGrows ==
    ASSUME TypeOK, LogStarts, NEW r \in Runs, NEW k \in Nat, k + 1 \in DOMAIN log[r],
           NEW s, StatusIs(s, r, k)
    PROVE  StatusIs(StatusAfter(s, log[r][k + 1].kind), r, k + 1)
<1> DEFINE kind == log[r][k + 1].kind
<1>1. log[r][k + 1] \in Envelopes
    <2>1. log[r] \in Seq(Envelopes)
        BY DEF TypeOK
    <2>2. QED
        BY <2>1
<1>2. kind \in Kinds
    BY <1>1 DEF Envelopes
<1>3. CASE k = 0
    <2>1. kind = "created"
        BY <1>3 DEF LogStarts
    <2>2. /\ StatusAfter(s, kind) = StatusAfter("running", kind)
          /\ log[r][1].kind \in Bearing /\ 1 \in 1..(k + 1) /\ log[r][1].kind = kind
        BY <1>3, <2>1 DEF StatusAfter, Bearing
    <2>3. \A j \in (1 + 1)..(k + 1) : log[r][j].kind \notin Bearing
        BY <1>3
    <2>4. QED
        BY <1>3, <2>2, <2>3 DEF StatusIs
<1>4. CASE k # 0
    <2>1. PICK i \in 1..k : /\ log[r][i].kind \in Bearing
                            /\ \A j \in (i + 1)..k : log[r][j].kind \notin Bearing
                            /\ s = StatusAfter("running", log[r][i].kind)
        BY <1>4 DEF StatusIs
    <2>2. s # "absent"
        BY <2>1 DEF StatusAfter, Bearing
    <2>3. CASE kind \in Bearing
        <3>1. StatusAfter(s, kind) = StatusAfter("running", kind)
            BY <2>2, <2>3 DEF StatusAfter, Bearing
        <3>2. k + 1 \in 1..(k + 1) /\ \A j \in ((k + 1) + 1)..(k + 1) : log[r][j].kind \notin Bearing
            OBVIOUS
        <3>3. QED
            BY <2>3, <3>1, <3>2 DEF StatusIs
    <2>4. CASE kind \notin Bearing
        <3>1. StatusAfter(s, kind) = s
            BY <1>2, <2>4 DEF StatusAfter, Bearing, Kinds
        <3>2. i \in 1..(k + 1) /\ \A j \in (i + 1)..(k + 1) : log[r][j].kind \notin Bearing
            BY <2>1, <2>4
        <3>3. QED
            BY <2>1, <3>1, <3>2 DEF StatusIs
    <2>5. QED
        BY <2>3, <2>4
<1>5. QED
    BY <1>3, <1>4

\* Whoever is alone has just read the log of a run to replay it, or was alone before.
LEMMA AloneSteps ==
    ASSUME IInv, [Next]_vars, NEW p \in Procs, solo' = p
    PROVE  UNCHANGED vars \/ (\E r \in Runs : Replay(p, r)) \/ (solo = p /\ Step(p))
<1>1. p # Nobody
    BY NobodyAssumption
<1>2. ASSUME NEW q \in Procs, NEW r \in Runs, NEW call \in Calls, Begin(q, r, call)
      PROVE  FALSE
    BY <1>1, <1>2 DEF Begin
<1>3. ASSUME NEW q \in Procs, NEW r \in Runs, Replay(q, r)
      PROVE  q = p
    BY <1>3 DEF Replay
<1>4. ASSUME NEW q \in Procs, Crash(q)
      PROVE  FALSE
    BY <1>1, <1>4 DEF Crash
<1>5. ASSUME NEW q \in Procs, Step(q)
      PROVE  q = p /\ solo = p
    <2>1. Witness(q)
        BY <1>5 DEF Step, CheckOpen, Refuse, Lock, TailUnreadable, Write, Wipe, Apply
    <2>2. QED
        BY <1>1, <2>1 DEF Witness
<1>6. QED
    BY <1>2, <1>3, <1>4, <1>5 DEF Next

\* The steps of an undisturbed replay: one event more is projected, and it is the one
\* that was next.
LEMMA ReplayApplies ==
    ASSUME IInv, LogStarts, NEW p \in Procs, Apply(p), todo[p] = <<>>,
           NEW k \in 0..(Len(log[run[p]]) - 1), Halfway(p, k)
    PROVE  /\ log' = log /\ todo' = todo /\ run[p] \in Runs
           /\ \A i \in Nat : <<run[p], i>> \in shown' <=> i \in 1..(k + 1)
           /\ StatusIs(status'[run[p]], run[p], k + 1)
           /\ \/ /\ k + 1 < Len(log[run[p]]) /\ pc'[p] = "apply" /\ run'[p] = run[p]
                 /\ Len(due'[p]) = Len(log[run[p]]) - (k + 1)
                 /\ \A j \in 1..Len(due'[p]) : due'[p][j] = (k + 1) + j
              \/ k + 1 = Len(log[run[p]]) /\ pc'[p] = "idle"
<1>1. PICK r : r = run[p]
    OBVIOUS
<1>2. /\ pc[p] = "apply" /\ log' = log /\ todo' = todo /\ Applied(r, Head(due[p]))
      /\ pc' = [pc EXCEPT ![p] = AfterApply(p, "check")]
      /\ due' = [due EXCEPT ![p] = Tail(due[p])]
      /\ run' = [run EXCEPT ![p] = IF AfterApply(p, "check") = "idle" THEN Nobody ELSE run[p]]
    BY <1>1 DEF Apply, files
<1>3. /\ r \in Runs /\ due[p] \in Seq(Nat \ {0}) /\ due[p] # <<>>
      /\ Len(log[r]) \in Nat /\ DOMAIN log[r] = 1..Len(log[r])
    BY <1>1, <1>2 DEF IInv, TypeOK, CallOK
<1>4. k \in Nat /\ k + 1 \in DOMAIN log[r] /\ k <= Len(log[r]) - 1
    BY <1>1, <1>3
<1>5. /\ Len(due[p]) = Len(log[r]) - k
      /\ \A j \in 1..Len(due[p]) : due[p][j] = k + j
      /\ \A i \in Nat : <<r, i>> \in shown <=> i \in 1..k
      /\ StatusIs(status[r], r, k)
    BY <1>1 DEF Halfway
<1>6. Head(due[p]) = k + 1
    <2>1. 1 \in 1..Len(due[p]) /\ Head(due[p]) = due[p][1]
        BY <1>3
    <2>2. QED
        BY <1>5, <2>1
<1>7. <<r, k + 1>> \notin shown
    BY <1>4, <1>5
<1>8. /\ shown' = shown \cup {<<r, k + 1>>}
      /\ status' = [status EXCEPT ![r] = StatusAfter(status[r], log[r][k + 1].kind)]
    BY <1>2, <1>6, <1>7 DEF Applied
<1>9. \A i \in Nat : <<r, i>> \in shown' <=> i \in 1..(k + 1)
    <2> SUFFICES ASSUME NEW i \in Nat PROVE <<r, i>> \in shown' <=> i \in 1..(k + 1)
        OBVIOUS
    <2>1. <<r, i>> \in shown' <=> <<r, i>> \in shown \/ i = k + 1
        BY <1>8
    <2>2. <<r, i>> \in shown <=> i \in 1..k
        BY <1>5
    <2>3. QED
        BY <1>4, <2>1, <2>2
<1>10. StatusIs(status'[r], r, k + 1)
    <2>1. status'[r] = StatusAfter(status[r], log[r][k + 1].kind)
        BY <1>3, <1>8 DEF IInv, TypeOK
    <2>2. StatusIs(StatusAfter(status[r], log[r][k + 1].kind), r, k + 1)
        BY <1>3, <1>4, <1>5, StatusGrows DEF IInv
    <2>3. QED
        BY <2>1, <2>2
<1>11. pc'[p] = AfterApply(p, "check") /\ due'[p] = Tail(due[p])
    BY <1>2 DEF IInv, TypeOK
<1>12. CASE Len(due[p]) > 1
    <2>1. pc'[p] = "apply" /\ run'[p] = r
        BY <1>1, <1>2, <1>11, <1>12 DEF AfterApply, IInv, TypeOK
    <2>2. /\ Len(due'[p]) = Len(due[p]) - 1
          /\ \A j \in 1..Len(due'[p]) : due'[p][j] = due[p][j + 1] /\ j + 1 \in 1..Len(due[p])
        BY <1>3, <1>11
    <2>3. Len(due'[p]) = Len(log[r]) - (k + 1) /\ k + 1 < Len(log[r])
        BY <1>3, <1>4, <1>5, <1>12, <2>2
    <2>4. \A j \in 1..Len(due'[p]) : due'[p][j] = (k + 1) + j
        <3> SUFFICES ASSUME NEW j \in 1..Len(due'[p]) PROVE due'[p][j] = (k + 1) + j
            OBVIOUS
        <3>1. j \in Nat /\ j + 1 \in 1..Len(due[p]) /\ due'[p][j] = due[p][j + 1]
            BY <2>2
        <3>2. due[p][j + 1] = k + (j + 1)
            BY <1>5, <3>1
        <3>3. QED
            BY <1>4, <3>1, <3>2
    <2>5. QED
        BY <1>1, <1>2, <1>3, <1>9, <1>10, <2>1, <2>3, <2>4
<1>13. CASE ~(Len(due[p]) > 1)
    <2>1. pc'[p] = "idle"
        BY <1>11, <1>13 DEF AfterApply
    <2>2. PICK left : left = Len(due[p])
        OBVIOUS
    <2>3. left \in Nat /\ left # 0 /\ ~(left > 1)
        BY <1>3, <1>13, <2>2
    <2>4. left = 1
        BY <2>3
    <2>5. Len(log[r]) - k = 1 /\ Len(log[r]) \in Nat /\ k \in Nat
        BY <1>3, <1>4, <1>5, <2>2, <2>4
    <2>6. k + 1 = Len(log[r])
        BY <2>5
    <2>7. QED
        BY <1>1, <1>2, <1>3, <1>9, <1>10, <2>1, <2>6
<1>14. QED
    BY <1>12, <1>13

\* Every step of an undisturbed replay leaves it where a replay can be.
LEMMA SoloStep ==
    ASSUME IInv, LogStarts, DueOK, SoloOK, [Next]_vars
    PROVE  SoloOK'
<1> SUFFICES ASSUME NEW p \in Procs, solo' = p
             PROVE  /\ pc'[p] \in {"idle", "wipe", "apply"} /\ todo'[p] = <<>>
                    /\ pc'[p] = "wipe" => due'[p] = [i \in 1..Len(log'[run'[p]]) |-> i]
                    /\ pc'[p] = "apply" => \E k \in 0..(Len(log'[run'[p]]) - 1) : Halfway(p, k)'
    BY DEF SoloOK
<1>1. CASE UNCHANGED vars
    <2>1. /\ solo = p /\ pc' = pc /\ todo' = todo /\ due' = due /\ log' = log /\ run' = run
          /\ shown' = shown /\ status' = status
        BY <1>1 DEF vars
    <2>2. \A k : Halfway(p, k) => Halfway(p, k)'
        BY <2>1 DEF Halfway, StatusIs
    <2>3. QED
        BY <2>1, <2>2 DEF SoloOK
<1>2. ASSUME NEW r \in Runs, Replay(p, r)
      PROVE  /\ pc'[p] = "wipe" /\ todo'[p] = <<>>
             /\ due'[p] = [i \in 1..Len(log'[run'[p]]) |-> i]
    BY <1>2 DEF Replay, files, DueOK, IInv, TypeOK
<1>3. CASE solo = p /\ Step(p)
    <2>1. pc[p] \in {"idle", "wipe", "apply"} /\ todo[p] = <<>>
        BY <1>3 DEF SoloOK
    <2>2. Wipe(p) \/ Apply(p)
        BY <1>3, <2>1 DEF Step, CheckOpen, Refuse, Lock, TailUnreadable, Write
    <2>3. CASE Wipe(p)
        <3>1. /\ pc[p] = "wipe" /\ pc'[p] = "apply" /\ log' = log /\ run' = run /\ todo' = todo /\ due' = due
              /\ shown' = {} /\ status' = [r \in Runs |-> "absent"]
            BY <2>3 DEF Wipe, files, IInv, TypeOK
        <3>2. run[p] \in Runs /\ due[p] = [i \in 1..Len(log[run[p]]) |-> i]
            BY <1>3, <3>1 DEF SoloOK, IInv, CallOK
        <3>3. Len(log[run[p]]) \in Nat /\ Len(log[run[p]]) # 0
            BY <3>2 DEF IInv, TypeOK, NeverEmpty
        <3>4. Len(due[p]) = Len(log[run[p]]) - 0 /\ \A j \in 1..Len(due[p]) : due[p][j] = 0 + j
            BY <3>2, <3>3
        <3>5. status'[run[p]] = "absent" /\ \A i \in Nat : <<run[p], i>> \in shown' <=> i \in 1..0
            BY <3>1, <3>2
        <3>6. Halfway(p, 0)'
            BY <3>1, <3>4, <3>5 DEF Halfway, StatusIs
        <3>7. 0 \in 0..(Len(log'[run'[p]]) - 1)
            BY <3>1, <3>3
        <3>8. QED
            BY <2>1, <3>1, <3>6, <3>7
    <2>4. CASE Apply(p)
        <3>1. pc[p] = "apply"
            BY <2>4 DEF Apply
        <3>2. PICK k \in 0..(Len(log[run[p]]) - 1) : Halfway(p, k)
            BY <1>3, <3>1 DEF SoloOK
        <3>3. /\ log' = log /\ todo' = todo /\ run[p] \in Runs
              /\ \A i \in Nat : <<run[p], i>> \in shown' <=> i \in 1..(k + 1)
              /\ StatusIs(status'[run[p]], run[p], k + 1)
              /\ \/ /\ k + 1 < Len(log[run[p]]) /\ pc'[p] = "apply" /\ run'[p] = run[p]
                    /\ Len(due'[p]) = Len(log[run[p]]) - (k + 1)
                    /\ \A j \in 1..Len(due'[p]) : due'[p][j] = (k + 1) + j
                 \/ k + 1 = Len(log[run[p]]) /\ pc'[p] = "idle"
            BY <2>1, <2>4, <3>2, ReplayApplies
        <3>4. CASE pc'[p] = "idle"
            BY <2>1, <3>3, <3>4
        <3>5. CASE pc'[p] = "apply"
            <4>1. /\ k + 1 < Len(log[run[p]]) /\ run'[p] = run[p]
                  /\ Len(due'[p]) = Len(log[run[p]]) - (k + 1)
                  /\ \A j \in 1..Len(due'[p]) : due'[p][j] = (k + 1) + j
                BY <3>3, <3>5
            <4>2. Len(log[run[p]]) \in Nat
                BY <3>3 DEF IInv, TypeOK
            <4>3. k + 1 \in 0..(Len(log'[run'[p]]) - 1)
                BY <3>3, <4>1, <4>2
            <4>4. StatusIs(status[run[p]], run[p], k + 1)'
                <5>1. StatusIs(status'[run[p]], run[p], k + 1)
                    BY <3>3
                <5>2. QED
                    BY <3>3, <4>1, <5>1 DEF StatusIs
            <4>5. Halfway(p, k + 1)'
                BY <3>3, <4>1, <4>4 DEF Halfway
            <4>6. QED
                BY <2>1, <3>3, <3>5, <4>3, <4>5
        <3>6. QED
            BY <3>3, <3>4, <3>5
    <2>5. QED
        BY <2>2, <2>3, <2>4
<1>4. QED
    BY <1>1, <1>2, <1>3, AloneSteps

\* The step that ends such a replay leaves the projection as the log has it.
LEMMA LastStep ==
    ASSUME IInv, LogStarts, DueOK, SoloOK, [Next]_vars,
           NEW p \in Procs, solo = p, solo' = p, pc[p] = "apply", pc'[p] = "idle"
    PROVE  /\ status'[run[p]] = LoggedStatus(run[p])
           /\ \A i \in DOMAIN log[run[p]] : <<run[p], i>> \in shown'
<1>1. Apply(p) /\ todo[p] = <<>>
    <2>1. ~UNCHANGED vars
        BY DEF vars
    <2>2. \A r \in Runs : ~Replay(p, r)
        BY DEF Replay
    <2>3. Step(p)
        BY <2>1, <2>2, AloneSteps
    <2>4. QED
        BY <2>3 DEF Step, CheckOpen, Refuse, Lock, TailUnreadable, Write, Wipe, SoloOK
<1>2. PICK k \in 0..(Len(log[run[p]]) - 1) : Halfway(p, k)
    BY DEF SoloOK
<1>3. /\ run[p] \in Runs
      /\ \A i \in Nat : <<run[p], i>> \in shown' <=> i \in 1..(k + 1)
      /\ StatusIs(status'[run[p]], run[p], k + 1)
      /\ k + 1 = Len(log[run[p]])
    <2>1. \/ pc'[p] = "apply"
          \/ k + 1 = Len(log[run[p]]) /\ pc'[p] = "idle"
        BY <1>1, <1>2, ReplayApplies
    <2>2. /\ run[p] \in Runs
          /\ \A i \in Nat : <<run[p], i>> \in shown' <=> i \in 1..(k + 1)
          /\ StatusIs(status'[run[p]], run[p], k + 1)
        BY <1>1, <1>2, ReplayApplies
    <2>3. QED
        BY <2>1, <2>2
<1>4. Len(log[run[p]]) \in Nat /\ log[run[p]] # <<>> /\ DOMAIN log[run[p]] = 1..Len(log[run[p]])
    BY <1>3 DEF IInv, TypeOK, NeverEmpty
<1>5. status'[run[p]] = LoggedStatus(run[p])
    <2>1. StatusIs(status'[run[p]], run[p], Len(log[run[p]]))
        BY <1>3
    <2>2. QED
        BY <1>3, <1>4, <2>1, LoggedStatusIs DEF IInv
<1>6. \A i \in DOMAIN log[run[p]] : <<run[p], i>> \in shown'
    BY <1>3, <1>4
<1>7. QED
    BY <1>5, <1>6

\* Whatever the processes did to the projection before, a replay that nobody disturbs
\* puts the status and the events of its run right.
THEOREM ReplayRepairs == Spec => ReplayPutsRight
<1>1. Init => LogStarts /\ DueOK /\ SoloOK
    BY InitProjection
<1>2. IInv /\ LogStarts /\ [Next]_vars => LogStarts'
    BY StartsStep
<1>3. IInv /\ DueOK /\ [Next]_vars => DueOK'
    BY DueStep
<1>4. IInv /\ LogStarts /\ DueOK /\ SoloOK /\ [Next]_vars => SoloOK'
    BY SoloStep
<1>5. IInv /\ LogStarts /\ DueOK /\ SoloOK /\ [Next]_vars =>
          [\A p \in Procs :
               (solo = p /\ solo' = p /\ pc[p] = "apply" /\ pc'[p] = "idle")
                   => /\ status'[run[p]] = LoggedStatus(run[p])
                      /\ \A i \in DOMAIN log[run[p]] : <<run[p], i>> \in shown']_vars
    BY LastStep
<1>6. QED
    BY <1>1, <1>2, <1>3, <1>4, <1>5, Invariance, PTL DEF Spec, ReplayPutsRight

=============================================================================

-------------------------- MODULE OciFetcherProofs ---------------------------
(***************************************************************************)
(* Proofs about OciFetcher for any callers, artifacts, limits and bounds.  *)
(*                                                                         *)
(* The inductive invariant says who holds the lock, what the holder knows  *)
(* at each point (that READY is absent once it decided to download; that   *)
(* its temporary directory holds exactly what it has read so far), and     *)
(* ReadyIsComplete.                                                        *)
(***************************************************************************)
EXTENDS OciFetcher, TLAPS

\* Whoever is past the wait for the lock holds it, and nobody else does.
LockInv == \A p \in Caller : (call[p].pc \notin {"idle", "lock"}) <=> lock = p

\* Whoever downloads or installs found the artifact not ready, and it stays so.
FreshInv ==
    \A p \in Caller :
        call[p].pc \in {"copy", "manifest", "extract", "swap", "meta", "ready"} => ~ready

\* What a call knows of the artifact a, of rootfs (dir) and of READY (done).
ReadSoFar(c, a) ==
    /\ c.read <= Len(a.entries)
    /\ c.read <= MaxEntries
    /\ c.written = {i \in 1 .. c.read : a.entries[i].kind # "root"}
    /\ \A i \in 1 .. c.read : a.entries[i].kind # "refused"
Knows(c, a, dir, done) ==
    /\ c.pc \in {"idle", "lock", "check", "copy", "manifest"} => c.read = 0 /\ c.written = {}
    /\ c.pc = "extract" => a.layers = 1 /\ ReadSoFar(c, a)
    /\ c.pc = "swap" => c.written = Payload(a) /\ WellFormed(a)
    /\ c.pc \in {"meta", "ready"} => Complete(dir, a)
    /\ c.pc = "done" => done
ProgressInv == \A p \in Caller : Knows(call[p], artifact, rootfs, ready)

IInv == TypeOK /\ LockInv /\ FreshInv /\ ProgressInv /\ ReadyIsComplete

\* The artifact in the registry is one the model was given.
LEMMA ArtifactType ==
    ASSUME TypeOK
    PROVE  /\ artifact.layers \in Nat
           /\ artifact.entries \in Seq(Entry)
           /\ Len(artifact.entries) \in Nat
           /\ DOMAIN artifact.entries = 1 .. Len(artifact.entries)
           /\ \A i \in 1 .. Len(artifact.entries) : artifact.entries[i] \in Entry
    BY FetcherAssumption DEF TypeOK

\* What one caller's record looks like.
CallType == [pc : PC, attempts : 0 .. MaxAttempts - 1, read : Nat, written : SUBSET Nat, bytes : Nat]

\* A caller that has not called has a typed record.
LEMMA NoCallType == NoCall \in CallType
    BY DEF NoCall, CallType, PC, MaxAttempts

\* The invariant holds at the start.
LEMMA InitIInv == Init => IInv
<1> SUFFICES ASSUME Init PROVE IInv
    OBVIOUS
<1>1. \A p \in Caller : call[p] = NoCall /\ lock # p
    BY FetcherAssumption, Zenon DEF Init
<1>2. TypeOK
    <2>1. call \in [Caller -> CallType]
        BY NoCallType DEF Init
    <2>2. QED
        BY <2>1, Zenon DEF Init, TypeOK, CallType, SpentType, None
<1>3. LockInv /\ FreshInv /\ ProgressInv /\ ReadyIsComplete
    BY <1>1 DEF Init, LockInv, FreshInv, ProgressInv, Knows, ReadyIsComplete, NoCall
<1>4. QED
    BY <1>2, <1>3 DEF IInv

(***************************************************************************)
(* Two kinds of steps: a call goes on, or it returns.                      *)
(***************************************************************************)
\* What holds of a caller that has not got the lock does not depend on files.
LEMMA KnowsWithoutLock ==
    ASSUME NEW c, c.pc \in {"idle", "lock"}, NEW a, NEW dir, NEW done, NEW a2, NEW dir2, NEW done2,
           Knows(c, a, dir, done)
    PROVE  Knows(c, a2, dir2, done2)
    BY DEF Knows

\* Fresh(c) says that call c goes on only while READY is absent.
Fresh(c) == c.pc \in {"copy", "manifest", "extract", "swap", "meta", "ready"}

\* A caller that holds the lock and goes on with it may change the files.
LEMMA HolderKeeps ==
    ASSUME IInv, NEW p \in Caller, NEW c \in CallType,
           call' = [call EXCEPT ![p] = c],
           call[p].pc \notin {"idle", "lock"}, c.pc \notin {"idle", "lock"},
           artifact' = artifact, lock' = lock, answer' = answer,
           rootfs' \in [there : BOOLEAN, entries : SUBSET Nat],
           meta' \in Nat \cup {None, Torn}, ready' \in BOOLEAN,
           litter' \in Nat, spent' \in SpentType,
           Fresh(c) => ~ready', Knows(c, artifact, rootfs', ready'),
           ready' => Complete(rootfs', artifact)
    PROVE  IInv'
<1> USE DEF IInv
<1>1. /\ call' \in [Caller -> CallType]
      /\ call'[p] = c
      /\ \A q \in Caller : q # p => call'[q] = call[q]
    BY DEF TypeOK, CallType
<1>2. lock = p /\ \A q \in Caller : q # p => call[q].pc \in {"idle", "lock"}
    BY DEF LockInv
<1>3. TypeOK'
    BY <1>1 DEF TypeOK, CallType
<1>4. LockInv'
    BY <1>1, <1>2 DEF LockInv
<1>5. FreshInv'
    BY <1>1, <1>2 DEF FreshInv, Fresh
<1>6. ProgressInv'
    BY <1>1, <1>2, KnowsWithoutLock DEF ProgressInv
<1>7. ReadyIsComplete'
    BY DEF ReadyIsComplete
<1>8. QED
    BY <1>3, <1>4, <1>5, <1>6, <1>7

\* A caller that returns, and leaves files that satisfy ReadyIsComplete and
\* that only it could have changed, preserves the invariant.
LEMMA ReturnKeeps ==
    ASSUME IInv, NEW p \in Caller, NEW told \in {"none", "ok", "error"}, Return(p, told),
           artifact' = artifact, rootfs' = rootfs, meta' \in Nat \cup {None, Torn},
           ready' \in BOOLEAN, litter' \in Nat, spent' \in SpentType,
           ready' # ready => call[p].pc = "ready" /\ ready' = TRUE
    PROVE  IInv'
<1> USE DEF IInv
<1>1. /\ call' \in [Caller -> CallType]
      /\ call'[p] = NoCall
      /\ \A q \in Caller : q # p => call'[q] = call[q]
    BY NoCallType DEF Return, TypeOK, CallType
<1>2. TypeOK'
    BY <1>1 DEF TypeOK, CallType, Return
<1>3. LockInv'
    BY <1>1, FetcherAssumption, Zenon DEF LockInv, Return, NoCall, TypeOK
<1>4. \A q \in Caller : q # p /\ ready' # ready => call[q].pc \in {"idle", "lock"}
    BY DEF LockInv
<1>5. FreshInv'
    BY <1>1, <1>4 DEF FreshInv, NoCall, TypeOK
<1>6. ProgressInv'
    <2>1. Knows(NoCall, artifact', rootfs', ready')
        BY DEF Knows, NoCall
    <2>2. QED
        BY <1>1, <1>4, <2>1, KnowsWithoutLock DEF ProgressInv
<1>7. ReadyIsComplete'
    BY Zenon DEF ReadyIsComplete, ProgressInv, Knows
<1>8. QED
    BY <1>2, <1>3, <1>5, <1>6, <1>7

\* Returning without a change of the files.
LEMMA PlainReturnKeeps ==
    ASSUME IInv, NEW p \in Caller, NEW told \in {"none", "ok", "error"}, Return(p, told),
           artifact' = artifact, rootfs' = rootfs, meta' = meta, ready' = ready,
           litter' \in Nat, spent' \in SpentType
    PROVE  IInv'
    BY ReturnKeeps DEF IInv, TypeOK

(***************************************************************************)
(* One lemma per action.                                                   *)
(***************************************************************************)
\* A bound that is spent stays a number.
LEMMA SpendType ==
    ASSUME TypeOK, NEW bound \in {"crashes", "failures"}, NEW limit, Spend(bound, limit)
    PROVE  /\ spent' \in SpentType
           /\ spent'.stuck = spent.stuck
           /\ spent'.crashes = IF bound = "crashes" THEN spent.crashes + 1 ELSE spent.crashes
<1>1. CASE bound = "crashes"
    BY <1>1 DEF TypeOK, Spend, SpentType
<1>2. CASE bound = "failures"
    BY <1>2 DEF TypeOK, Spend, SpentType
<1>3. QED
    BY <1>1, <1>2

\* The temporary directory is gone, or one more failed removal is on record.
LEMMA RemoveTempSpends ==
    ASSUME litter \in Nat, NEW used \in SpentType, RemoveTemp(used)
    PROVE  /\ litter' \in Nat /\ spent' \in SpentType
           /\ spent'.crashes = used.crashes
           /\ litter' + used.stuck = litter + spent'.stuck
<1>1. CASE spent' = used /\ UNCHANGED litter
    BY <1>1 DEF SpentType
<1>2. CASE spent' = [used EXCEPT !.stuck = @ + 1] /\ litter' = litter + 1
    BY <1>2 DEF SpentType
<1>3. QED
    BY <1>1, <1>2 DEF RemoveTemp

\* So it is after a failing file operation and after an entry is refused.
LEMMA FileFailsSpends ==
    ASSUME TypeOK, NEW p \in Caller, FileFails(p)
    PROVE  /\ litter' \in Nat /\ spent' \in SpentType
           /\ spent'.crashes = spent.crashes
           /\ litter' + spent.stuck = litter + spent'.stuck
<1>1. PICK used : used = [spent EXCEPT !.failures = @ + 1]
    OBVIOUS
<1>2. used \in SpentType /\ used.crashes = spent.crashes /\ used.stuck = spent.stuck /\ litter \in Nat
    BY <1>1 DEF TypeOK, SpentType
<1>3. RemoveTemp(used) \/ (spent' = used /\ UNCHANGED litter)
    BY <1>1, Zenon DEF FileFails
<1>4. CASE RemoveTemp(used)
    BY <1>2, <1>4, RemoveTempSpends
<1>5. CASE spent' = used /\ UNCHANGED litter
    BY <1>2, <1>5 DEF SpentType
<1>6. QED
    BY <1>3, <1>4, <1>5

\* Reading one more entry only touches the temporary directories on its error path, which
\* removes the one of this call or is charged a failed removal.
LEMMA ExtractEntrySpends ==
    ASSUME TypeOK, NEW p \in Caller, ExtractEntry(p)
    PROVE  /\ litter' \in Nat /\ spent' \in SpentType
           /\ spent'.crashes = spent.crashes
           /\ litter' + spent.stuck = litter + spent'.stuck
<1>1. spent \in SpentType /\ litter \in Nat
    BY DEF TypeOK, SpentType
<1>2. RemoveTemp(spent) \/ UNCHANGED <<litter, spent>>
    BY Zenon DEF ExtractEntry
<1>4. CASE RemoveTemp(spent)
    BY <1>1, <1>4, RemoveTempSpends
<1>5. CASE UNCHANGED <<litter, spent>>
    BY <1>1, <1>5 DEF SpentType
<1>6. QED
    BY <1>2, <1>4, <1>5

\* Moving a call on, as Goto does, gives a call again.
LEMMA GotoType ==
    ASSUME TypeOK, NEW p \in Caller, NEW pc \in PC, Goto(p, pc)
    PROVE  /\ [call[p] EXCEPT !.pc = pc] \in CallType
           /\ call' = [call EXCEPT ![p] = [call[p] EXCEPT !.pc = pc]]
           /\ [call[p] EXCEPT !.pc = pc].pc = pc
           /\ [call[p] EXCEPT !.pc = pc].read = call[p].read
           /\ [call[p] EXCEPT !.pc = pc].written = call[p].written
    BY DEF TypeOK, CallType, Goto

\* Where the callers are after one of them went on or returned.
LEMMA GotoPc ==
    ASSUME TypeOK, NEW p \in Caller, NEW pc, Goto(p, pc)
    PROVE  \A q \in Caller : call'[q].pc = IF q = p THEN pc ELSE call[q].pc
    BY DEF TypeOK, Goto

\* Return ends the call of one caller.
LEMMA ReturnPc ==
    ASSUME TypeOK, NEW p \in Caller, NEW told, Return(p, told)
    PROVE  \A q \in Caller : /\ call'[q].pc = IF q = p THEN "idle" ELSE call[q].pc
                             /\ answer'[q] = IF q = p THEN told ELSE answer[q]
    BY DEF TypeOK, Return, NoCall

\* A call begins without the lock.
LEMMA EnsureKeeps == ASSUME IInv, NEW p \in Caller, Ensure(p) PROVE IInv'
<1> USE DEF IInv
<1> DEFINE c == [call[p] EXCEPT !.pc = "lock"]
<1>1. c \in CallType /\ c.pc = "lock" /\ c.read = call[p].read /\ c.written = call[p].written
    BY DEF TypeOK, CallType, PC
<1>2. call' = [call EXCEPT ![p] = c]
    BY DEF Ensure, Goto, TypeOK
<1> HIDE DEF c
<1>3. /\ call' \in [Caller -> CallType]
      /\ call'[p] = c
      /\ \A q \in Caller : q # p => call'[q] = call[q]
    BY <1>1, <1>2 DEF TypeOK, CallType
<1>4. TypeOK'
    BY <1>3 DEF TypeOK, CallType, Ensure, files
<1>5. LockInv' /\ FreshInv'
    BY <1>1, <1>3 DEF LockInv, FreshInv, Ensure, At, files
<1>6. Knows(c, artifact, rootfs, ready)
    BY <1>1 DEF ProgressInv, Knows, Ensure, At
<1>7. ProgressInv' /\ ReadyIsComplete'
    BY <1>3, <1>6 DEF ProgressInv, ReadyIsComplete, Ensure, files
<1>8. QED
    BY <1>4, <1>5, <1>7

\* The lock is taken when nobody has it.
LEMMA FlockKeeps == ASSUME IInv, NEW p \in Caller, Flock(p) PROVE IInv'
<1> USE DEF IInv
<1> DEFINE c == [call[p] EXCEPT !.pc = "check"]
<1>1. c \in CallType /\ c.pc = "check" /\ c.read = call[p].read /\ c.written = call[p].written
    BY DEF TypeOK, CallType, PC
<1>2. call' = [call EXCEPT ![p] = c]
    BY DEF Flock, Goto, TypeOK
<1> HIDE DEF c
<1>3. /\ call' \in [Caller -> CallType]
      /\ call'[p] = c
      /\ \A q \in Caller : q # p => call'[q] = call[q]
    BY <1>1, <1>2 DEF TypeOK, CallType
<1>4. TypeOK'
    BY <1>3 DEF TypeOK, CallType, Flock, files
<1>5. \A q \in Caller : call[q].pc \in {"idle", "lock"}
    BY FetcherAssumption DEF LockInv, Flock
<1>6. LockInv' /\ FreshInv'
    BY <1>1, <1>3, <1>5 DEF LockInv, FreshInv, Flock
<1>7. Knows(c, artifact, rootfs, ready)
    BY <1>1 DEF ProgressInv, Knows, Flock, At
<1>8. ProgressInv' /\ ReadyIsComplete'
    BY <1>3, <1>7 DEF ProgressInv, ReadyIsComplete, Flock, files
<1>9. QED
    BY <1>4, <1>6, <1>8

\* The holder goes on to a download only if READY is absent or rootfs is, and
\* by ReadyIsComplete the one is not without the other.
LEMMA CheckCachedKeeps == ASSUME IInv, NEW p \in Caller, CheckCached(p) PROVE IInv'
<1> USE DEF IInv
<1>1. CASE Cached /\ Return(p, "ok")
    BY <1>1, PlainReturnKeeps DEF CheckCached, files, TypeOK
<1>2. CASE ~Cached /\ Goto(p, "copy") /\ UNCHANGED <<lock, answer>>
    <2> DEFINE c == [call[p] EXCEPT !.pc = "copy"]
    <2>1. c \in CallType /\ c.pc = "copy" /\ c.read = call[p].read /\ c.written = call[p].written
          /\ call' = [call EXCEPT ![p] = c]
        BY <1>2, GotoType, Zenon DEF PC
    <2> HIDE DEF c
    <2>2. ~ready
        BY <1>2 DEF Cached, ReadyIsComplete, Complete
    <2>3. Knows(c, artifact, rootfs, ready)
        BY <2>1 DEF ProgressInv, Knows, CheckCached, At
    <2>4. QED
        BY <1>2, <2>1, <2>2, <2>3, HolderKeeps, Zenon DEF CheckCached, At, files, TypeOK
<1>3. QED
    BY <1>1, <1>2 DEF CheckCached

\* The download ends.
LEMMA CopyKeeps == ASSUME IInv, NEW p \in Caller, Copy(p) PROVE IInv'
<1> USE DEF IInv
<1> DEFINE c == [call[p] EXCEPT !.pc = "manifest"]
<1>1. c \in CallType /\ c.pc = "manifest" /\ c.read = call[p].read /\ c.written = call[p].written
      /\ call' = [call EXCEPT ![p] = c]
    BY GotoType, Zenon DEF PC, Copy
<1> HIDE DEF c
<1>2. ~ready /\ Knows(c, artifact, rootfs, ready)
    BY <1>1 DEF ProgressInv, FreshInv, Knows, Copy, At
<1>3. QED
    BY <1>1, <1>2, HolderKeeps, Zenon DEF Copy, At, files, TypeOK

\* The download fails and is tried again or given up.
LEMMA CopyFailsKeeps ==
    ASSUME IInv, NEW p \in Caller, NEW retryable \in BOOLEAN, CopyFails(p, retryable)
    PROVE  IInv'
<1> USE DEF IInv
<1>0. spent' \in SpentType
    BY SpendType DEF CopyFails, Fails
<1>1. CASE Return(p, "error")
    BY <1>0, <1>1, PlainReturnKeeps DEF CopyFails, files, TypeOK
<1>2. CASE /\ call[p].attempts + 1 < MaxAttempts
           /\ call' = [call EXCEPT ![p].attempts = @ + 1]
           /\ UNCHANGED <<lock, answer>>
    <2> DEFINE c == [call[p] EXCEPT !.attempts = @ + 1]
    <2>1. c \in CallType /\ c.pc = call[p].pc /\ c.read = call[p].read /\ c.written = call[p].written
          /\ call' = [call EXCEPT ![p] = c]
        BY <1>2 DEF TypeOK, CallType, MaxAttempts
    <2> HIDE DEF c
    <2>2. ~ready /\ Knows(c, artifact, rootfs, ready)
        BY <2>1 DEF ProgressInv, FreshInv, Knows, CopyFails, At
    <2>3. QED
        BY <1>0, <1>2, <2>1, <2>2, HolderKeeps, Zenon DEF CopyFails, At, files, TypeOK
<1>3. QED
    BY <1>1, <1>2 DEF CopyFails

\* The manifest has one layer, or the call ends.
LEMMA ManifestKeeps == ASSUME IInv, NEW p \in Caller, Manifest(p) PROVE IInv'
<1> USE DEF IInv
<1>1. CASE Return(p, "error")
    BY <1>1, PlainReturnKeeps DEF Manifest, files, TypeOK
<1>2. CASE artifact.layers = 1 /\ Goto(p, "extract") /\ UNCHANGED <<lock, answer>>
    <2> DEFINE c == [call[p] EXCEPT !.pc = "extract"]
    <2>1. c \in CallType /\ c.pc = "extract" /\ c.read = call[p].read /\ c.written = call[p].written
          /\ call' = [call EXCEPT ![p] = c]
        BY <1>2, GotoType, Zenon DEF PC
    <2> HIDE DEF c
    <2>2. ~ready /\ c.read = 0 /\ c.written = {}
        BY <2>1 DEF ProgressInv, FreshInv, Knows, Manifest, At
    <2>3. ReadSoFar(c, artifact)
        BY <2>2, ArtifactType, FetcherAssumption DEF ReadSoFar
    <2>4. Knows(c, artifact, rootfs, ready)
        BY <1>2, <2>1, <2>3 DEF Knows
    <2>5. QED
        BY <1>2, <2>1, <2>2, <2>4, HolderKeeps, Zenon DEF Manifest, At, files, TypeOK
<1>3. QED
    BY <1>1, <1>2 DEF Manifest

\* Reading one more entry keeps the record of what was read exact.
LEMMA ExtractEntryKeeps == ASSUME IInv, NEW p \in Caller, ExtractEntry(p) PROVE IInv'
<1> USE DEF IInv
<1>1. CASE Return(p, "error")
    BY <1>1, ExtractEntrySpends, PlainReturnKeeps DEF ExtractEntry, files
<1>2. CASE /\ ~TooLarge(p)
           /\ artifact.entries[call[p].read + 1].kind # "refused"
           /\ call' = [call EXCEPT ![p] = Extracted(p)]
           /\ UNCHANGED <<lock, answer>>
    <2> DEFINE i == call[p].read + 1
               e == artifact.entries[i]
               c == Extracted(p)
    <2>1. i \in 1 .. Len(artifact.entries) /\ e \in Entry /\ i = call[p].read + 1
          /\ call[p].read \in Nat /\ call[p] \in CallType
        <3>1. call[p] \in CallType
            BY Zenon DEF TypeOK, CallType
        <3>2. call[p].read \in Nat
            BY <3>1, Zenon DEF CallType
        <3>3. call[p].read < Len(artifact.entries) /\ Len(artifact.entries) \in Nat
            BY ArtifactType, Zenon DEF ExtractEntry
        <3>4. i \in 1 .. Len(artifact.entries)
            BY <3>2, <3>3
        <3> QED
            BY <3>1, <3>2, <3>4, ArtifactType, Zenon
    <2>2. /\ ReadSoFar(call[p], artifact)
          /\ artifact.layers = 1
          /\ call[p].pc = "extract"
          /\ ~ready
        BY DEF ProgressInv, Knows, FreshInv, ExtractEntry, At
    <2>3. /\ c \in CallType
          /\ c.pc = "extract"
          /\ c.read = i
          /\ c.written = IF e.kind = "root" THEN call[p].written ELSE call[p].written \cup {i}
        <3>0. call[p].written \cup {i} \in SUBSET Nat
            BY <2>1 DEF CallType
        <3>1. CASE e.kind = "root"
            BY <2>1, <2>2, <3>1 DEF Extracted, CallType, Entry
        <3>2. CASE e.kind = "dir"
            BY <2>1, <2>2, <3>0, <3>2, Zenon DEF Extracted, CallType, Entry
        <3>3. CASE e.kind # "root" /\ e.kind # "dir"
            <4>1. c = [call[p] EXCEPT !.read = i, !.written = @ \cup {i}, !.bytes = @ + e.size]
                BY <3>3 DEF Extracted
            <4> HIDE DEF i, e, c
            <4>2. call[p].bytes \in Nat /\ e.size \in Nat
                BY <2>1, Zenon DEF CallType, Entry
            <4>3. i \in Nat
                BY <2>1
            <4>4. i \in Nat /\ call[p].bytes + e.size \in Nat
                BY <4>2, <4>3
            <4>5. QED
                BY <2>1, <2>2, <3>0, <3>3, <4>1, <4>4, Zenon DEF CallType
        <3>4. QED
            BY <3>1, <3>2, <3>3
    <2>4. i <= MaxEntries
        BY <1>2, <2>1, <2>3, FetcherAssumption DEF TooLarge
    <2> HIDE DEF c
    <2>5. c.written = {j \in 1 .. i : artifact.entries[j].kind # "root"}
        <3>1. call[p].written = {j \in 1 .. call[p].read : artifact.entries[j].kind # "root"}
            BY <2>2 DEF ReadSoFar
        <3>2. \A j : j \in 1 .. i <=> (j \in 1 .. call[p].read \/ j = i)
            BY <2>1
        <3> HIDE DEF i
        <3>3. CASE artifact.entries[i].kind = "root"
            BY <2>3, <3>1, <3>2, <3>3
        <3>4. CASE artifact.entries[i].kind # "root"
            BY <2>3, <3>1, <3>2, <3>4
        <3>5. QED
            BY <3>3, <3>4
    <2>6. \A j \in 1 .. i : artifact.entries[j].kind # "refused"
        BY <1>2, <2>1, <2>2 DEF ReadSoFar
    <2>7. ReadSoFar(c, artifact)
        BY <2>1, <2>3, <2>4, <2>5, <2>6 DEF ReadSoFar
    <2>8. Knows(c, artifact, rootfs, ready)
        BY <2>2, <2>3, <2>7 DEF Knows
    <2>9. call' = [call EXCEPT ![p] = c]
        BY <1>2 DEF c
    <2> HIDE DEF i, e
    <2>10. artifact' = artifact /\ rootfs' = rootfs /\ meta' = meta /\ ready' = ready
        BY Zenon DEF ExtractEntry, files
    <2>11. litter' \in Nat /\ spent' \in SpentType
        BY ExtractEntrySpends
    <2>12. /\ rootfs' \in [there : BOOLEAN, entries : SUBSET Nat]
           /\ meta' \in Nat \cup {None, Torn} /\ ready' \in BOOLEAN
        BY <2>10, Zenon DEF TypeOK
    <2>13. lock' = lock /\ answer' = answer
        BY <1>2
    <2>14. /\ Fresh(c) => ~ready'
           /\ Knows(c, artifact, rootfs', ready')
           /\ ready' => Complete(rootfs', artifact)
        BY <2>2, <2>3, <2>8, <2>10, Zenon
    <2>15. QED
        BY <2>2, <2>3, <2>9, <2>10, <2>11, <2>12, <2>13, <2>14, HolderKeeps, Zenon
<1>3. QED
    BY <1>1, <1>2 DEF ExtractEntry

\* At the end of the layer everything has been read.
LEMMA ExtractDoneKeeps == ASSUME IInv, NEW p \in Caller, ExtractDone(p) PROVE IInv'
<1> USE DEF IInv
<1> DEFINE c == [call[p] EXCEPT !.pc = "swap"]
<1>1. c \in CallType /\ c.pc = "swap" /\ c.read = call[p].read /\ c.written = call[p].written
      /\ call' = [call EXCEPT ![p] = c]
    BY GotoType, Zenon DEF PC, ExtractDone
<1> HIDE DEF c
<1>2. /\ ~ready
      /\ artifact.layers = 1
      /\ ReadSoFar(call[p], artifact)
      /\ call[p].read = Len(artifact.entries)
    BY DEF ProgressInv, FreshInv, Knows, ExtractDone, At
<1>3. c.written = Payload(artifact) /\ WellFormed(artifact)
    BY <1>1, <1>2, ArtifactType DEF ReadSoFar, Payload, WellFormed
<1>4. Knows(c, artifact, rootfs, ready)
    BY <1>1, <1>3 DEF Knows
<1>5. QED
    BY <1>1, <1>2, <1>4, HolderKeeps, Zenon DEF ExtractDone, At, files, TypeOK

\* The old rootfs is removed while READY is absent.
LEMMA RemoveOldKeeps == ASSUME IInv, NEW p \in Caller, RemoveOld(p) PROVE IInv'
<1> USE DEF IInv
<1>1. rootfs' \in [there : BOOLEAN, entries : SUBSET Nat]
    <2>0. rootfs \in [there : BOOLEAN, entries : SUBSET Nat]
        BY DEF TypeOK
    <2>1. ASSUME NEW e \in rootfs.entries, rootfs' = [rootfs EXCEPT !.entries = @ \ {e}]
          PROVE  rootfs' \in [there : BOOLEAN, entries : SUBSET Nat]
        <3>1. rootfs.entries \ {e} \in SUBSET Nat
            BY <2>0
        <3>2. QED
            BY <2>0, <2>1, <3>1
    <2>2. CASE rootfs' = [rootfs EXCEPT !.there = FALSE]
        BY <2>0, <2>2, Zenon
    <2>3. QED
        BY <2>1, <2>2 DEF RemoveOld
<1>2. call[p] \in CallType /\ call[p].pc = "swap" /\ call' = [call EXCEPT ![p] = call[p]]
    BY DEF RemoveOld, At, TypeOK, CallType
<1>3. ~ready /\ Knows(call[p], artifact, rootfs', ready)
    BY <1>2 DEF ProgressInv, FreshInv, Knows
<1>4. QED
    BY <1>1, <1>2, <1>3, HolderKeeps, Zenon DEF RemoveOld, files, TypeOK

\* The renamed directory is complete.
LEMMA RenameKeeps == ASSUME IInv, NEW p \in Caller, Rename(p) PROVE IInv'
<1> USE DEF IInv
<1> DEFINE c == [call[p] EXCEPT !.pc = "meta"]
<1>1. c \in CallType /\ c.pc = "meta" /\ call' = [call EXCEPT ![p] = c]
    BY GotoType, Zenon DEF PC, Rename
<1> HIDE DEF c
<1>2. ~ready /\ call[p].written = Payload(artifact) /\ WellFormed(artifact) /\ call[p].pc = "swap"
    BY DEF ProgressInv, FreshInv, Knows, Rename, At
<1>3. Complete(rootfs', artifact) /\ rootfs' \in [there : BOOLEAN, entries : SUBSET Nat]
    BY <1>2 DEF Rename, Complete, TypeOK
<1>4. Knows(c, artifact, rootfs', ready)
    BY <1>1, <1>3 DEF Knows
<1>5. QED
    BY <1>1, <1>2, <1>3, <1>4, HolderKeeps, Zenon DEF Rename, files, TypeOK

\* meta.json concerns neither rootfs nor READY.
LEMMA WriteMetaKeeps == ASSUME IInv, NEW p \in Caller, WriteMeta(p) PROVE IInv'
<1> USE DEF IInv
<1>0. call[p] \in CallType /\ call[p].pc = "meta" /\ ~ready /\ Knows(call[p], artifact, rootfs, ready)
    BY DEF WriteMeta, At, TypeOK, CallType, FreshInv, ProgressInv
<1>1. CASE meta' = Torn /\ UNCHANGED call
    <2>1. call' = [call EXCEPT ![p] = call[p]]
        BY <1>1 DEF TypeOK
    <2>2. QED
        BY <1>0, <1>1, <2>1, HolderKeeps, Zenon DEF WriteMeta, files, TypeOK
<1>2. CASE meta' = call[p].bytes /\ Goto(p, "ready")
    <2> DEFINE c == [call[p] EXCEPT !.pc = "ready"]
    <2>1. c \in CallType /\ c.pc = "ready" /\ call' = [call EXCEPT ![p] = c]
        BY <1>2, GotoType, Zenon DEF PC
    <2> HIDE DEF c
    <2>2. Knows(c, artifact, rootfs, ready)
        BY <1>0, <2>1 DEF Knows
    <2>3. meta' \in Nat
        BY <1>0, <1>2 DEF CallType
    <2>4. QED
        BY <1>0, <2>1, <2>2, <2>3, HolderKeeps, Zenon DEF WriteMeta, files, TypeOK
<1>3. QED
    BY <1>1, <1>2 DEF WriteMeta

\* READY is written beside a complete rootfs.
LEMMA WriteReadyKeeps == ASSUME IInv, NEW p \in Caller, WriteReady(p) PROVE IInv'
<1> USE DEF IInv
<1> DEFINE c == [call[p] EXCEPT !.pc = "done"]
<1>1. c \in CallType /\ c.pc = "done" /\ call' = [call EXCEPT ![p] = c]
    BY GotoType, Zenon DEF PC, WriteReady
<1> HIDE DEF c
<1>2. Complete(rootfs, artifact) /\ call[p].pc = "ready"
    BY DEF ProgressInv, Knows, WriteReady, At
<1>3. Knows(c, artifact, rootfs, TRUE)
    BY <1>1 DEF Knows
<1>4. QED
    BY <1>1, <1>2, <1>3, HolderKeeps, Zenon DEF WriteReady, files, TypeOK, Fresh

\* The call returns with READY in place.
LEMMA FinishKeeps == ASSUME IInv, NEW p \in Caller, Finish(p) PROVE IInv'
    BY PlainReturnKeeps DEF Finish, files, IInv, TypeOK

\* A failing file operation ends the call; READY, if it was created, stands
\* beside a complete rootfs.
LEMMA FileFailsKeeps == ASSUME IInv, NEW p \in Caller, FileFails(p) PROVE IInv'
<1>1. spent' \in SpentType
    BY FileFailsSpends DEF IInv
<1>2. litter' \in Nat /\ meta' \in Nat \cup {None, Torn} /\ ready' \in BOOLEAN
    <2>1. litter' \in Nat
        BY FileFailsSpends DEF IInv
    <2>2. meta' \in Nat \cup {None, Torn}
        BY DEF FileFails, IInv, TypeOK
    <2>3. ready' = ready \/ ready' = TRUE
        BY Zenon DEF FileFails
    <2>4. QED
        BY <2>1, <2>2, <2>3, Zenon DEF IInv, TypeOK
<1>3. ready' # ready => call[p].pc = "ready" /\ ready' = TRUE
    BY Zenon DEF FileFails, At
<1>4. QED
    BY <1>1, <1>2, <1>3, ReturnKeeps, Zenon DEF FileFails

\* A death gives the lock back.
LEMMA CrashKeeps == ASSUME IInv, NEW p \in Caller, Crash(p) PROVE IInv'
<1>1. spent' \in SpentType
    BY SpendType DEF Crash, IInv
<1>2. litter' \in Nat
    BY DEF Crash, IInv, TypeOK
<1>3. QED
    BY <1>1, <1>2, PlainReturnKeeps DEF Crash, files

\* Every step keeps the invariant, one action after another.
LEMMA NextIInv == IInv /\ [Next]_vars => IInv'
<1> SUFFICES ASSUME IInv, [Next]_vars PROVE IInv'
    OBVIOUS
<1>1. CASE UNCHANGED vars
    BY <1>1 DEF vars, files, IInv, TypeOK, LockInv, FreshInv, ProgressInv, ReadyIsComplete
<1>2. ASSUME NEW p \in Caller, Step(p) PROVE IInv'
    BY <1>2, EnsureKeeps, CheckCachedKeeps, CopyKeeps, ManifestKeeps, ExtractEntryKeeps,
       ExtractDoneKeeps, RemoveOldKeeps, RenameKeeps, WriteMetaKeeps, WriteReadyKeeps, FinishKeeps DEF Step
<1>3. QED
    BY <1>1, <1>2, FlockKeeps, CopyFailsKeeps, FileFailsKeeps, CrashKeeps DEF Next

\* The inductive invariant of the fetcher.
THEOREM Invariance == Spec => []IInv
    BY InitIInv, NextIInv, PTL DEF Spec

\* Every variable of the fetcher keeps its type.
THEOREM TypeCorrect == Spec => []TypeOK
<1>1. IInv => TypeOK
    BY DEF IInv
<1>2. QED
    BY <1>1, Invariance, PTL

\* READY stands only beside a complete rootfs of a well-formed artifact, for
\* any number of callers, crashes and failures.
THEOREM ReadyComplete == Spec => []ReadyIsComplete
<1>1. IInv => ReadyIsComplete
    BY DEF IInv
<1>2. QED
    BY <1>1, Invariance, PTL

\* Temporary directories are left behind only by deaths and by removals that
\* fail, each of which leaves at most one; no error path of Ensure does.
THEOREM LitterBounded == Spec => []LitterAccounted
<1>1. Init => LitterAccounted
    BY DEF Init, LitterAccounted
<1>2. TypeOK /\ LitterAccounted /\ [Next]_vars => LitterAccounted'
    <2> SUFFICES ASSUME TypeOK, LitterAccounted, [Next]_vars PROVE LitterAccounted'
        OBVIOUS
    <2>0. litter \in Nat /\ spent.crashes \in Nat /\ spent.stuck \in Nat
        BY DEF TypeOK, SpentType
    <2>1. CASE UNCHANGED <<litter, spent>>
        BY <2>1 DEF LitterAccounted
    <2>2. ASSUME NEW p \in Caller, NEW retryable \in BOOLEAN, CopyFails(p, retryable)
          PROVE  LitterAccounted'
        BY <2>0, <2>2, SpendType DEF CopyFails, Fails, LitterAccounted
    <2>3. ASSUME NEW p \in Caller, FileFails(p) \/ ExtractEntry(p) PROVE LitterAccounted'
        <3>1. /\ litter' \in Nat /\ spent' \in SpentType /\ spent'.crashes = spent.crashes
              /\ litter' + spent.stuck = litter + spent'.stuck
            BY <2>3, FileFailsSpends, ExtractEntrySpends
        <3>2. QED
            BY <2>0, <3>1 DEF LitterAccounted, SpentType
    <2>4. ASSUME NEW p \in Caller, Crash(p) PROVE LitterAccounted'
        <3>1. litter' <= litter + 1 /\ litter' \in Nat
            BY <2>0, <2>4 DEF Crash
        <3>2. QED
            BY <2>0, <2>4, <3>1, SpendType DEF Crash, LitterAccounted
    <2>5. ASSUME NEW p \in Caller, (Step(p) /\ ~ExtractEntry(p)) \/ Flock(p)
          PROVE  UNCHANGED <<litter, spent>>
        BY <2>5 DEF Step, Flock, Ensure, CheckCached, Copy, Manifest, ExtractDone,
           RemoveOld, Rename, WriteMeta, WriteReady, Finish
    <2>6. QED
        BY <2>1, <2>2, <2>3, <2>4, <2>5 DEF Next, vars
<1>3. QED
    BY <1>1, <1>2, TypeCorrect, PTL DEF Spec

(***************************************************************************)
(* The size.  What a call has added up is the size of what it has read, it *)
(* is within the limit, and meta.json has it before READY is written.      *)
(***************************************************************************)
Unread == {"idle", "lock", "check", "copy", "manifest"}
Sized(c, a, size) ==
    /\ c.pc \in Unread => c.read = 0 /\ c.bytes = 0
    /\ c.pc \in {"extract", "swap", "meta", "ready"} => HasSize(a, c.read, c.bytes) /\ c.bytes <= MaxBytes
    /\ c.pc \in {"swap", "meta", "ready"} => c.read = Len(a.entries)
    /\ c.pc = "ready" => size = c.bytes
SizeInv == SizeWithinLimit /\ \A p \in Caller : Sized(call[p], artifact, meta)

\* Nothing read has the size zero.
LEMMA NothingRead == ASSUME NEW a PROVE HasSize(a, 0, 0)
<1> DEFINE sum == [i \in 0 .. 0 |-> 0]
<1>1. sum \in [0 .. 0 -> 0 .. 0] /\ sum[0] = 0 /\ \A i \in 1 .. 0 : sum[i] = sum[i - 1] + Bytes(a.entries[i])
    OBVIOUS
<1>2. QED
    BY <1>1, Zenon DEF HasSize

\* One more entry adds its bytes.
LEMMA OneMoreRead ==
    ASSUME NEW a, NEW n \in Nat, NEW total \in Nat, HasSize(a, n, total), Bytes(a.entries[n + 1]) \in Nat
    PROVE  HasSize(a, n + 1, total + Bytes(a.entries[n + 1]))
<1> DEFINE b == Bytes(a.entries[n + 1])
<1>1. PICK sum \in [0 .. n -> 0 .. total] :
          /\ sum[0] = 0 /\ sum[n] = total
          /\ \A i \in 1 .. n : sum[i] = sum[i - 1] + Bytes(a.entries[i])
    BY DEF HasSize
<1>2. b \in Nat
    OBVIOUS
<1> HIDE DEF b
<1> DEFINE more == [i \in 0 .. n + 1 |-> IF i = n + 1 THEN total + b ELSE sum[i]]
<1>3. more \in [0 .. n + 1 -> 0 .. total + b]
    <2> SUFFICES ASSUME NEW i \in 0 .. n + 1 PROVE (IF i = n + 1 THEN total + b ELSE sum[i]) \in 0 .. total + b
        OBVIOUS
    <2>1. CASE i = n + 1
        BY <1>2, <2>1
    <2>2. CASE i # n + 1
        <3>1. i \in 0 .. n
            BY <2>2
        <3>2. sum[i] \in 0 .. total
            BY <1>1, <3>1
        <3>3. QED
            BY <1>2, <2>2, <3>2
    <2>3. QED
        BY <2>1, <2>2
<1>4. more[0] = 0 /\ more[n + 1] = total + b
    BY <1>1
<1>5. ASSUME NEW i \in 1 .. n + 1 PROVE more[i] = more[i - 1] + Bytes(a.entries[i])
    <2>1. CASE i = n + 1
        <3>1. more[i] = total + b /\ more[i - 1] = total
            BY <1>1, <2>1
        <3>2. QED
            BY <2>1, <3>1 DEF b
    <2>2. CASE i # n + 1
        <3>1. i \in 1 .. n /\ i - 1 \in 0 .. n
            BY <2>2
        <3>2. more[i] = sum[i] /\ more[i - 1] = sum[i - 1]
            BY <3>1
        <3>3. QED
            BY <1>1, <3>1, <3>2
    <2>3. QED
        BY <2>1, <2>2
<1> HIDE DEF more
<1>6. HasSize(a, n + 1, total + b)
    BY <1>3, <1>4, <1>5, Zenon DEF HasSize
<1>7. QED
    BY <1>6 DEF b

\* A step of one caller keeps SizeInv if it is right for its own call and if
\* the others, should meta.json change, have not got to it.
LEMMA OneSized ==
    ASSUME SizeInv, NEW p \in Caller, \A q \in Caller \ {p} : call'[q] = call[q],
           artifact' = artifact, Sized(call'[p], artifact, meta'),
           meta' = meta \/ \A q \in Caller \ {p} : call[q].pc \in {"idle", "lock"},
           SizeWithinLimit'
    PROVE  SizeInv'
<1>1. ASSUME NEW q \in Caller PROVE Sized(call'[q], artifact, meta')
    <2>1. CASE q # p
        BY <2>1, Zenon DEF SizeInv, Sized
    <2>2. QED
        BY <2>1
<1>2. QED
    BY <1>1 DEF SizeInv

\* A call that goes on keeps what it read.
LEMMA GotoSized ==
    ASSUME IInv, SizeInv, NEW p \in Caller, NEW pc \in PC, Goto(p, pc), artifact' = artifact,
           meta' = meta, ready' = ready,
           pc \in Unread => call[p].pc \in Unread,
           pc = "extract" => call[p].pc \in Unread,
           pc = "swap" => call[p].pc = "extract" /\ call[p].read = Len(artifact.entries),
           pc = "meta" => call[p].pc = "swap",
           pc # "ready"
    PROVE  SizeInv'
<1>1. /\ call'[p].pc = pc /\ call'[p].read = call[p].read /\ call'[p].bytes = call[p].bytes
      /\ \A q \in Caller \ {p} : call'[q] = call[q]
    BY DEF IInv, TypeOK, Goto
<1>2. Sized(call[p], artifact, meta) /\ HasSize(artifact, 0, 0) /\ 0 <= MaxBytes
    BY NothingRead, FetcherAssumption DEF SizeInv
<1>3. Sized(call'[p], artifact, meta')
    BY <1>1, <1>2 DEF Sized, PC, Unread
<1>4. SizeWithinLimit'
    BY Zenon DEF SizeInv, SizeWithinLimit
<1>5. QED
    BY <1>1, <1>3, <1>4, OneSized

\* So does a call that returns, if it leaves READY and meta.json in order.
LEMMA ReturnSized ==
    ASSUME IInv, SizeInv, NEW p \in Caller, NEW told, Return(p, told), artifact' = artifact,
           meta' # meta => call[p].pc = "meta" /\ ready' = ready,
           ready' # ready => call[p].pc = "ready"
    PROVE  SizeInv'
<1>1. call'[p] = NoCall /\ \A q \in Caller \ {p} : call'[q] = call[q]
    BY DEF IInv, TypeOK, Return
<1>2. Sized(call'[p], artifact, meta')
    BY <1>1 DEF Sized, NoCall, Unread
<1>3. meta' = meta \/ \A q \in Caller \ {p} : call[q].pc \in {"idle", "lock"}
    BY DEF IInv, LockInv
<1>4. SizeWithinLimit'
    <2>1. CASE meta' # meta
        BY <2>1, Zenon DEF SizeWithinLimit, IInv, FreshInv
    <2>2. CASE meta' = meta /\ ready' # ready
        <3>1. Sized(call[p], artifact, meta) /\ call[p].pc = "ready"
            BY <2>2 DEF SizeInv
        <3>2. HasSize(artifact, Len(artifact.entries), meta) /\ meta <= MaxBytes
            BY <3>1 DEF Sized
        <3>3. QED
            BY <2>2, <3>2, Zenon DEF SizeWithinLimit
    <2>3. CASE meta' = meta /\ ready' = ready
        BY <2>3, Zenon DEF SizeInv, SizeWithinLimit
    <2>4. QED
        BY <2>1, <2>2, <2>3
<1>5. QED
    BY <1>1, <1>2, <1>3, <1>4, OneSized

\* The bytes of an entry are added where they are compared with the limit.
LEMMA ExtractEntrySized == ASSUME IInv, SizeInv, NEW p \in Caller, ExtractEntry(p) PROVE SizeInv'
<1>1. CASE Return(p, "error")
    BY <1>1, ReturnSized DEF ExtractEntry, files
<1>2. CASE /\ ~TooLarge(p)
           /\ artifact.entries[call[p].read + 1].kind # "refused"
           /\ call' = [call EXCEPT ![p] = Extracted(p)]
    <2> DEFINE i == call[p].read + 1
               e == artifact.entries[i]
               c == Extracted(p)
    <2>1. /\ i \in 1 .. Len(artifact.entries) /\ e \in Entry /\ call[p].read \in Nat
          /\ call[p].bytes \in Nat /\ call[p] \in CallType /\ call[p].pc = "extract"
        BY ArtifactType DEF ExtractEntry, IInv, TypeOK, CallType, At
    <2>2. Bytes(e) \in Nat
        BY <2>1 DEF Bytes, Entry
    <2>3. HasSize(artifact, call[p].read, call[p].bytes)
        BY <2>1 DEF SizeInv, Sized
    <2>4. c.pc = "extract" /\ c.read = i /\ c.bytes = call[p].bytes + Bytes(e)
        <3>1. CASE e.kind \in {"root", "dir"}
            <4>1. c.pc = "extract" /\ c.read = i /\ c.bytes = call[p].bytes /\ Bytes(e) = 0
                BY <2>1, <3>1 DEF Extracted, CallType, Bytes
            <4>2. QED
                BY <2>1, <4>1
        <3>2. CASE e.kind = "file"
            BY <2>1, <3>2, Zenon DEF Extracted, CallType, Bytes
        <3>3. QED
            BY <1>2, <2>1, <3>1, <3>2, Zenon DEF Entry
    <2>5. HasSize(artifact, i, c.bytes)
        BY <2>1, <2>2, <2>3, <2>4, OneMoreRead, Zenon
    <2>6. c.bytes <= MaxBytes
        BY <1>2, <2>1, <2>2, <2>4, FetcherAssumption DEF TooLarge
    <2>7. call'[p] = c /\ \A q \in Caller \ {p} : call'[q] = call[q]
        BY <1>2 DEF IInv, TypeOK
    <2> HIDE DEF c, i, e
    <2>8. Sized(call'[p], artifact, meta')
        BY <2>4, <2>5, <2>6, <2>7 DEF Sized, Unread
    <2>9. UNCHANGED <<artifact, meta, ready>>
        BY DEF ExtractEntry, files
    <2>10. SizeWithinLimit'
        BY <2>9, Zenon DEF SizeInv, SizeWithinLimit
    <2>11. QED
        BY <2>7, <2>8, <2>9, <2>10, OneSized
<1>3. QED
    BY <1>1, <1>2 DEF ExtractEntry

\* meta.json is torn and written while READY is absent.
LEMMA WriteMetaSized == ASSUME IInv, SizeInv, NEW p \in Caller, WriteMeta(p) PROVE SizeInv'
<1>1. /\ call[p].pc = "meta" /\ ~ready /\ ready' = ready /\ artifact' = artifact
      /\ \A q \in Caller \ {p} : call[q].pc \in {"idle", "lock"}
    BY DEF WriteMeta, At, IInv, FreshInv, LockInv
<1>2. SizeWithinLimit' /\ Sized(call[p], artifact, meta)
    BY <1>1, Zenon DEF SizeWithinLimit, SizeInv
<1>3. \A q \in Caller \ {p} : call'[q] = call[q]
    BY DEF WriteMeta, Goto, IInv, TypeOK
<1>4. Sized(call'[p], artifact, meta')
    <2>1. CASE UNCHANGED call
        BY <1>1, <1>2, <2>1 DEF Sized, Unread
    <2>2. CASE meta' = call[p].bytes /\ Goto(p, "ready")
        <3>1. call'[p].pc = "ready" /\ call'[p].read = call[p].read /\ call'[p].bytes = call[p].bytes
            BY <2>2 DEF IInv, TypeOK, Goto
        <3>2. QED
            BY <1>1, <1>2, <2>2, <3>1 DEF Sized, Unread
    <2>3. QED
        BY <2>1, <2>2 DEF WriteMeta
<1>5. QED
    BY <1>1, <1>2, <1>3, <1>4, OneSized

\* READY follows a meta.json that has the size.
LEMMA WriteReadySized == ASSUME IInv, SizeInv, NEW p \in Caller, WriteReady(p) PROVE SizeInv'
<1>1. /\ call[p].pc = "ready" /\ artifact' = artifact /\ meta' = meta
      /\ Sized(call[p], artifact, meta)
    BY DEF WriteReady, At, SizeInv
<1>2. call'[p].pc = "done" /\ \A q \in Caller \ {p} : call'[q] = call[q]
    BY DEF WriteReady, Goto, IInv, TypeOK
<1>3. Sized(call'[p], artifact, meta')
    BY <1>2 DEF Sized, Unread
<1>4. HasSize(artifact, Len(artifact.entries), meta) /\ meta <= MaxBytes
    BY <1>1 DEF Sized
<1>5. SizeWithinLimit'
    BY <1>1, <1>4, Zenon DEF SizeWithinLimit
<1>6. QED
    BY <1>1, <1>2, <1>3, <1>5, OneSized

\* While READY is there, meta.json has the size of the artifact and it is
\* within the limit, for any entries and sizes (extractLayer and Ensure).
THEOREM SizeBounded == Spec => []SizeWithinLimit
<1>1. Init => SizeInv
    <2> SUFFICES ASSUME Init PROVE SizeInv
        OBVIOUS
    <2>1. \A p \in Caller : call[p].pc = "idle" /\ call[p].read = 0 /\ call[p].bytes = 0
        BY Zenon DEF Init, NoCall
    <2>2. \A p \in Caller : Sized(call[p], artifact, meta)
        BY <2>1, Zenon DEF Sized, Unread
    <2>3. SizeWithinLimit
        BY Zenon DEF Init, SizeWithinLimit
    <2>4. QED
        BY <2>2, <2>3, Zenon DEF SizeInv
<1>2. IInv /\ SizeInv /\ [Next]_vars => SizeInv'
    <2> SUFFICES ASSUME IInv, SizeInv, [Next]_vars PROVE SizeInv'
        OBVIOUS
    <2>1. CASE UNCHANGED vars
        BY <2>1, Zenon DEF vars, files, SizeInv, SizeWithinLimit
    <2>2. ASSUME NEW p \in Caller, Ensure(p) \/ Flock(p) \/ Copy(p) \/ ExtractDone(p) \/ Rename(p)
          PROVE  SizeInv'
        BY <2>2, GotoSized DEF Ensure, Flock, Copy, ExtractDone, Rename, files, At, PC, Unread
    <2>3. ASSUME NEW p \in Caller, CheckCached(p) \/ Manifest(p) PROVE SizeInv'
        BY <2>3, GotoSized, ReturnSized DEF CheckCached, Manifest, files, At, PC, Unread
    <2>4. ASSUME NEW p \in Caller, RemoveOld(p) PROVE SizeInv'
        BY <2>4, Zenon DEF RemoveOld, SizeInv, SizeWithinLimit
    <2>5. ASSUME NEW p \in Caller, Step(p) \/ Flock(p) PROVE SizeInv'
        <3>1. ASSUME Finish(p) PROVE SizeInv'
            BY <3>1, ReturnSized DEF Finish, files
        <3>2. QED
            BY <2>2, <2>3, <2>4, <2>5, <3>1, ExtractEntrySized, WriteMetaSized, WriteReadySized DEF Step
    <2>6. ASSUME NEW p \in Caller, NEW retryable \in BOOLEAN, CopyFails(p, retryable) PROVE SizeInv'
        <3>1. CASE Return(p, "error")
            BY <2>6, <3>1, ReturnSized DEF CopyFails, files
        <3>2. CASE call' = [call EXCEPT ![p].attempts = @ + 1]
            <4>1. /\ call'[p].pc = call[p].pc /\ call'[p].read = call[p].read
                  /\ call'[p].bytes = call[p].bytes /\ \A q \in Caller \ {p} : call'[q] = call[q]
                BY <3>2 DEF IInv, TypeOK
            <4>2. UNCHANGED <<artifact, meta, ready>>
                BY <2>6 DEF CopyFails, files
            <4>3. Sized(call'[p], artifact, meta') /\ SizeWithinLimit'
                BY <4>1, <4>2, Zenon DEF SizeInv, Sized, SizeWithinLimit
            <4>4. QED
                BY <4>1, <4>2, <4>3, OneSized
        <3>3. QED
            BY <2>6, <3>1, <3>2 DEF CopyFails
    <2>7. ASSUME NEW p \in Caller, FileFails(p) \/ Crash(p) PROVE SizeInv'
        <3>1. /\ artifact' = artifact
              /\ meta' # meta => call[p].pc = "meta" /\ ready' = ready
              /\ ready' # ready => call[p].pc = "ready"
            BY <2>7, Zenon DEF FileFails, Crash, files, At
        <3>2. QED
            BY <2>7, <3>1, ReturnSized, Zenon DEF FileFails, Crash
    <2>8. QED
        BY <2>1, <2>5, <2>6, <2>7 DEF Next
<1>3. SizeInv => SizeWithinLimit
    BY DEF SizeInv
<1>4. QED
    BY <1>1, <1>2, <1>3, Invariance, PTL DEF Spec

\* Nobody starts a download of an artifact that is ready.
THEOREM DownloadedOnce == Spec => NoNewDownload
<1> DEFINE NoNew == ready => \A p \in Caller : At(p, "copy")' => At(p, "copy")
<1>1. IInv /\ [Next]_vars => [NoNew]_vars
    <2> SUFFICES ASSUME IInv, Next, ready, NEW q \in Caller, call'[q].pc = "copy"
                 PROVE  call[q].pc = "copy"
        BY DEF At
    <2> USE DEF At, IInv
    <2>1. ASSUME NEW p \in Caller, CheckCached(p) PROVE call[q].pc = "copy"
        <3>1. Cached
            BY DEF ReadyIsComplete, Complete, Cached
        <3>2. Return(p, "ok")
            BY <2>1, <3>1 DEF CheckCached
        <3>3. QED
            BY <3>2, ReturnPc
    <2>2. ASSUME NEW p \in Caller, ExtractEntry(p) PROVE call[q].pc = "copy"
        BY <2>2 DEF ExtractEntry, FreshInv
    <2>3. ASSUME NEW p \in Caller, NEW pc \in PC \ {"copy"}, Goto(p, pc) PROVE call[q].pc = "copy"
        BY <2>3, GotoPc
    <2>4. ASSUME NEW p \in Caller, NEW told, Return(p, told) PROVE call[q].pc = "copy"
        BY <2>4, ReturnPc
    <2>5. ASSUME NEW p \in Caller, Step(p) \/ Flock(p) PROVE call[q].pc = "copy"
        BY <2>1, <2>2, <2>3, <2>4, <2>5, Zenon DEF Step, Flock, Ensure, Copy, Manifest, ExtractDone, RemoveOld,
           Rename, WriteMeta, WriteReady, Finish, PC
    <2>6. ASSUME NEW p \in Caller, FileFails(p) \/ Crash(p) PROVE call[q].pc = "copy"
        BY <2>4, <2>6, Zenon DEF FileFails, Crash
    <2>7. ASSUME NEW p \in Caller, NEW retryable \in BOOLEAN, CopyFails(p, retryable)
          PROVE call[q].pc = "copy"
        BY <2>7 DEF CopyFails, FreshInv
    <2>8. QED
        BY <2>5, <2>6, <2>7 DEF Next
<1>2. QED
    BY <1>1, Invariance, PTL DEF Spec, NoNewDownload

(***************************************************************************)
(* Refinement of ArtifactStore.  Mapped is the mapped value of its call.   *)
(***************************************************************************)
Mapped == [p \in Caller |-> CallOf(call[p].pc)]
Available == ready /\ Complete(rootfs, artifact)

\* Where a call is installing.
Installing == {"copy", "manifest", "extract", "swap", "meta", "ready", "done"}

\* In reachable states the artifact is available exactly when READY is there.
LEMMA AvailableIsReady == IInv => Available = ready
    BY DEF IInv, ReadyIsComplete, Available, TypeOK

\* Going on moves the abstract call, unless it stays in the same phase.
LEMMA GotoMapped ==
    ASSUME TypeOK, NEW p \in Caller, NEW pc, Goto(p, pc)
    PROVE  Mapped' = [Mapped EXCEPT ![p] = CallOf(pc)]
<1>1. \A q \in Caller : CallOf(call'[q].pc) = IF q = p THEN CallOf(pc) ELSE CallOf(call[q].pc)
    BY GotoPc
<1>2. QED
    BY <1>1, Zenon DEF Mapped

\* A step within one phase of the abstract call does not move it.
LEMMA StayMapped ==
    ASSUME NEW p \in Caller, NEW pc, Mapped' = [Mapped EXCEPT ![p] = CallOf(pc)],
           CallOf(pc) = CallOf(call[p].pc)
    PROVE  Mapped' = Mapped
    BY Zenon DEF Mapped

\* Returning is the abstract return.
LEMMA ReturnMapped ==
    ASSUME IInv, NEW p \in Caller, NEW told, Return(p, told), call[p].pc # "idle",
           artifact' = artifact
    PROVE  Store!Return(p, told)
<1>1. \A q \in Caller : CallOf(call'[q].pc) = IF q = p THEN "idle" ELSE CallOf(call[q].pc)
    BY ReturnPc DEF CallOf, IInv
<1>2. Mapped' = [Mapped EXCEPT ![p] = "idle"]
    BY <1>1, Zenon DEF Mapped
<1>3. Mapped[p] # "idle"
    BY DEF Mapped, CallOf
<1>4. answer' = [answer EXCEPT ![p] = told]
    BY DEF Return
<1>5. QED
    BY <1>2, <1>3, <1>4 DEF Store!Return, Mapped

\* What the abstract state does not see.
LEMMA StutterMapped ==
    ASSUME Mapped' = Mapped, answer' = answer, artifact' = artifact, Available' = Available
    PROVE  UNCHANGED Store!vars
    BY DEF Store!vars, Mapped, Available

\* Ensure implements what ArtifactStore specifies: at most one caller
\* installs, an artifact is announced only when it is there, and it stays.
THEOREM Refinement == Spec => Refines
<1>1. Init => Store!Init
    <2> SUFFICES ASSUME Init PROVE Store!Init
        OBVIOUS
    <2>1. \A p \in Caller : CallOf(call[p].pc) = "idle"
        BY Zenon DEF Init, NoCall, CallOf
    <2>2. WellFormed(artifact) \in BOOLEAN
        BY DEF WellFormed
    <2>3. ~Available
        BY DEF Init, Available
    <2>4. QED
        BY <2>1, <2>2, <2>3 DEF Init, Store!Init, Available
<1>2. IInv /\ IInv' /\ [Next]_vars => [Store!Next]_(Store!vars)
    <2> SUFFICES ASSUME IInv, IInv', [Next]_vars PROVE Store!Next \/ UNCHANGED Store!vars
        OBVIOUS
    <2>0. /\ Available = ready /\ Available' = ready'
          /\ TypeOK /\ ready \in BOOLEAN /\ ready' \in BOOLEAN
        <3>1. IInv' => Available' = ready'
            BY DEF IInv, ReadyIsComplete, Available, TypeOK
        <3>2. QED
            BY <3>1, AvailableIsReady DEF IInv, TypeOK
    <2>1. CASE UNCHANGED vars
        BY <2>1, StutterMapped DEF vars, files, Mapped, Available
    <2>2. ASSUME NEW p \in Caller, Ensure(p) PROVE Store!Ask(p)
        <3>1. Mapped' = [Mapped EXCEPT ![p] = "asking"]
            BY <2>0, <2>2, GotoMapped DEF Ensure, CallOf
        <3>2. Mapped[p] = "idle"
            BY <2>2 DEF Ensure, At, Mapped, CallOf
        <3>3. QED
            BY <2>2, <3>1, <3>2, Zenon DEF Store!Ask, Mapped, Ensure, files
    <2>3. ASSUME NEW p \in Caller, Flock(p) PROVE UNCHANGED Store!vars
        <3>1. Mapped' = Mapped
            BY <2>0, <2>3, GotoMapped, StayMapped DEF Flock, At, CallOf
        <3>2. QED
            BY <2>0, <2>3, <3>1, StutterMapped DEF Flock, files
    <2>4. ASSUME NEW p \in Caller, CheckCached(p) PROVE Store!Succeed(p) \/ Store!StartInstall(p)
        <3>1. CASE Cached /\ Return(p, "ok")
            <4>1. Store!Return(p, "ok") /\ ready
                BY <2>4, <3>1, ReturnMapped, Zenon DEF CheckCached, At, Cached
            <4>2. QED
                BY <2>0, <2>4, <4>1, Zenon DEF Store!Succeed, Available, CheckCached, files
        <3>2. CASE ~Cached /\ Goto(p, "copy") /\ UNCHANGED <<lock, answer>>
            <4>1. ~Available
                BY <3>2 DEF Cached, Available, Complete
            <4>2. Mapped' = [Mapped EXCEPT ![p] = "installing"]
                BY <2>0, <3>2, GotoMapped DEF CallOf
            <4>3. \A q \in Caller : q # p => call[q].pc \in {"idle", "lock"}
                BY <2>4, Zenon DEF IInv, LockInv, CheckCached, At
            <4>4. Mapped[p] = "asking" /\ \A q \in Caller : Mapped[q] # "installing"
                BY <2>4, <4>3 DEF CheckCached, At, Mapped, CallOf
            <4>5. QED
                BY <2>4, <3>2, <4>1, <4>2, <4>4, Zenon DEF Store!StartInstall, CheckCached, files, Mapped, Available
        <3>3. QED
            BY <2>4, <3>1, <3>2 DEF CheckCached
    <2>5. ASSUME NEW p \in Caller, NEW pc \in Installing, Goto(p, pc), call[p].pc \in Installing,
                 artifact' = artifact, answer' = answer, ready' = ready
          PROVE  UNCHANGED Store!vars
        <3>1. Mapped' = Mapped
            BY <2>0, <2>5, GotoMapped, StayMapped DEF CallOf, Installing
        <3>2. QED
            BY <2>0, <2>5, <3>1, StutterMapped
    <2>6. ASSUME \A q \in Caller : call'[q].pc = call[q].pc,
                 artifact' = artifact, answer' = answer, ready' = ready
          PROVE  UNCHANGED Store!vars
        BY <2>0, <2>6, StutterMapped DEF Mapped
    <2>7. ASSUME NEW p \in Caller, Return(p, "error"), call[p].pc # "idle",
                 artifact' = artifact, ready' = ready
          PROVE  Store!Fail(p)
        BY <2>0, <2>7, ReturnMapped DEF Store!Fail, Available
    <2>8. ASSUME NEW p \in Caller, CopyFails(p, TRUE) \/ CopyFails(p, FALSE)
          PROVE  Store!Next \/ UNCHANGED Store!vars
        <3>1. CASE Return(p, "error")
            BY <2>7, <2>8, <3>1 DEF CopyFails, At, files, Store!Next
        <3>2. CASE call' = [call EXCEPT ![p].attempts = @ + 1] /\ UNCHANGED <<lock, answer>>
            <4>1. \A q \in Caller : call'[q].pc = call[q].pc
                BY <2>0, <3>2 DEF TypeOK
            <4>2. QED
                BY <2>6, <2>8, <3>2, <4>1 DEF CopyFails, files
        <3>3. QED
            BY <2>8, <3>1, <3>2 DEF CopyFails
    <2>9. ASSUME NEW p \in Caller, Copy(p) \/ Manifest(p) \/ ExtractDone(p) \/ Rename(p)
          PROVE  Store!Next \/ UNCHANGED Store!vars
        BY <2>5, <2>7, <2>9, Zenon DEF Copy, Manifest, ExtractDone, Rename, At, files, Installing, Store!Next
    <2>10. ASSUME NEW p \in Caller, ExtractEntry(p) PROVE Store!Next \/ UNCHANGED Store!vars
        <3>1. CASE Return(p, "error")
            BY <2>7, <2>10, <3>1, Zenon DEF ExtractEntry, At, files, Store!Next
        <3>2. CASE call' = [call EXCEPT ![p] = Extracted(p)] /\ UNCHANGED <<lock, answer>>
            <4>1. Extracted(p).pc = call[p].pc
                BY <2>0 DEF Extracted, TypeOK
            <4>2. \A q \in Caller : call'[q].pc = call[q].pc
                BY <2>0, <3>2, <4>1 DEF TypeOK
            <4>3. QED
                BY <2>6, <2>10, <3>2, <4>2 DEF ExtractEntry, files
        <3>3. QED
            BY <2>10, <3>1, <3>2 DEF ExtractEntry
    <2>11. ASSUME NEW p \in Caller, RemoveOld(p) PROVE UNCHANGED Store!vars
        BY <2>6, <2>11 DEF RemoveOld
    <2>12. ASSUME NEW p \in Caller, WriteMeta(p) PROVE UNCHANGED Store!vars
        BY <2>5, <2>6, <2>12 DEF WriteMeta, At, Installing
    <2>13. ASSUME NEW p \in Caller, call[p].pc = "ready"
           PROVE  WellFormed(artifact) /\ Mapped[p] = "installing"
        BY <2>13 DEF IInv, ProgressInv, Knows, Complete, Mapped, CallOf
    <2>14. ASSUME NEW p \in Caller, WriteReady(p) PROVE Store!Install(p)
        <3>1. Mapped' = Mapped
            BY <2>0, <2>14, GotoMapped, StayMapped DEF WriteReady, At, CallOf
        <3>2. QED
            BY <2>0, <2>13, <2>14, <3>1, Zenon DEF Store!Install, WriteReady, At, Mapped, Available
    <2>15. ASSUME NEW p \in Caller, Finish(p) PROVE Store!Succeed(p)
        <3>1. ready
            BY <2>15 DEF IInv, ProgressInv, Knows, Finish, At
        <3>2. QED
            BY <2>0, <2>15, <3>1, ReturnMapped, Zenon DEF Finish, At, files, Store!Succeed, Available
    <2>16. ASSUME NEW p \in Caller, FileFails(p) PROVE Store!Fail(p)
        <3>1. CASE ready' = ready
            BY <2>7, <2>16, <3>1 DEF FileFails
        <3>2. CASE ready' # ready
            <4>1. call[p].pc = "ready" /\ ready' = TRUE
                BY <2>16, <3>2, Zenon DEF FileFails, At
            <4>2. QED
                BY <2>0, <2>13, <2>16, <4>1, ReturnMapped, Zenon DEF FileFails, Store!Fail, Mapped, Available
        <3>3. QED
            BY <3>1, <3>2
    <2>17. ASSUME NEW p \in Caller, Crash(p) PROVE Store!Die(p)
        BY <2>0, <2>17, ReturnMapped DEF Crash, At, files, Store!Die, Available
    <2>18. ASSUME NEW p \in Caller, Step(p) PROVE Store!Next \/ UNCHANGED Store!vars
        BY <2>2, <2>4, <2>9, <2>10, <2>11, <2>12, <2>14, <2>15, <2>18 DEF Step, Store!Next
    <2>19. QED
        BY <2>1, <2>3, <2>8, <2>16, <2>17, <2>18, Zenon DEF Next, Store!Next
<1>3. QED
    BY <1>1, <1>2, Invariance, PTL DEF Spec, Refines, Store!Spec
==============================================================================

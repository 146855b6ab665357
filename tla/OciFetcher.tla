----------------------------- MODULE OciFetcher ------------------------------
(***************************************************************************)
(* The OCI artifact fetcher of the agent (src/agent/artifact_oci.go):      *)
(* Ensure for one digest, called by several agent processes of a host (an  *)
(* old one and its successor, say), with the files under <root>/<digest>:  *)
(* the lock, the temporary directory, rootfs, meta.json and READY.         *)
(*                                                                         *)
(* Every change of a file is a step of its own and a caller may die before *)
(* and after each.  main never cancels its context, so nothing else ends a *)
(* call early.  A digest stands for one content, so the artifact is chosen *)
(* at the start and stays.                                                 *)
(***************************************************************************)
EXTENDS Integers, Sequences

CONSTANTS
    Caller,        \* agent processes
    Artifact,      \* artifacts: the number of layers and the entries of the first
    MaxEntries,    \* maxExtractEntries
    MaxBytes,      \* maxExtractBytes
    MaxCrashes,    \* bound: deaths of callers
    MaxFailures,   \* bound: failing downloads and file operations
    MaxStuck       \* bound: failing removals of temporary directories

\* An entry of the tar: a directory, a file of a size, the root directory
\* itself, or one that is refused (an unsafe path or another type).
Entry == [kind : {"dir", "file", "root", "refused"}, size : Nat]

Nobody == "nobody"

ASSUME FetcherAssumption ==
    /\ Nobody \notin Caller
    /\ Artifact \subseteq [layers : Nat, entries : Seq(Entry)]
    /\ {MaxEntries, MaxBytes, MaxCrashes, MaxFailures, MaxStuck} \subseteq Nat

VARIABLES
    artifact,      \* what the registry has under the digest
    lock,          \* who holds the lock on .lock, or Nobody
    rootfs,        \* whether rootfs is there, and the entries in it
    meta,          \* the size in meta.json; None, or Torn while it is written
    ready,         \* whether READY is there
    call,          \* the call of each caller: where it is, its download
                   \* attempts, entries read, entries and bytes in its
                   \* temporary directory
    answer,        \* how the last call of each caller ended
    litter,        \* temporary directories left behind
    spent          \* how much of each bound is used up

files == <<rootfs, meta, ready>>
vars == <<artifact, lock, files, call, answer, litter, spent>>

None == -1
Torn == -2

NoCall == [pc |-> "idle", attempts |-> 0, read |-> 0, written |-> {}, bytes |-> 0]

Init ==
    /\ artifact \in Artifact
    /\ lock = Nobody
    /\ rootfs = [there |-> FALSE, entries |-> {}]
    /\ meta = None
    /\ ready = FALSE
    /\ call = [p \in Caller |-> NoCall]
    /\ answer = [p \in Caller |-> "none"]
    /\ litter = 0
    /\ spent = [crashes |-> 0, failures |-> 0, stuck |-> 0]

Spend(bound, limit) ==
    /\ spent[bound] < limit
    /\ spent' = [spent EXCEPT ![bound] = @ + 1]

Fails == Spend("failures", MaxFailures)

At(p, pc) == call[p].pc = pc
Goto(p, pc) == call' = [call EXCEPT ![p].pc = pc]

\* Ensure returns; the deferred calls release the lock.
Return(p, told) ==
    /\ call' = [call EXCEPT ![p] = NoCall]
    /\ answer' = [answer EXCEPT ![p] = told]
    /\ lock' = IF lock = p THEN Nobody ELSE lock

(***************************************************************************)
(* The lock and the cached artifact.                                       *)
(***************************************************************************)
Ensure(p) ==
    /\ At(p, "idle")
    /\ Goto(p, "lock")
    /\ UNCHANGED <<artifact, lock, files, answer, litter, spent>>

Flock_Shared(p) ==
    /\ At(p, "lock")
    /\ lock' = p
    /\ Goto(p, "check")
    /\ UNCHANGED <<artifact, files, answer, litter, spent>>
Flock(p) ==
    /\ At(p, "lock")
    /\ lock = Nobody
    /\ lock' = p
    /\ Goto(p, "check")
    /\ UNCHANGED <<artifact, files, answer, litter, spent>>

Cached_RootfsOnly == rootfs.there
Cached_NotEmpty == ready /\ rootfs.there /\ meta > 0
Cached == ready /\ rootfs.there

CheckCached(p) ==
    /\ At(p, "check")
    /\ \/ Cached /\ Return(p, "ok")
       \/ ~Cached /\ Goto(p, "copy") /\ UNCHANGED <<lock, answer>>
    /\ UNCHANGED <<artifact, files, litter, spent>>

(***************************************************************************)
(* The download: up to three attempts as long as errors are retryable; the *)
(* last one is followed by the error.                                      *)
(***************************************************************************)
MaxAttempts == 3

Copy(p) ==
    /\ At(p, "copy")
    /\ Goto(p, "manifest")
    /\ UNCHANGED <<artifact, lock, files, answer, litter, spent>>

\* An attempt fails, or what was copied has another digest than the one asked
\* for, which is not retried.
CopyFails_OnceMore(p, retryable) ==
    /\ At(p, "copy")
    /\ Fails
    /\ IF retryable /\ call[p].attempts < MaxAttempts
       THEN call' = [call EXCEPT ![p].attempts = @ + 1] /\ UNCHANGED <<lock, answer>>
       ELSE Return(p, "error")
    /\ UNCHANGED <<artifact, files, litter>>
CopyFails(p, retryable) ==
    /\ At(p, "copy")
    /\ Fails
    /\ IF retryable /\ call[p].attempts + 1 < MaxAttempts
       THEN call' = [call EXCEPT ![p].attempts = @ + 1] /\ UNCHANGED <<lock, answer>>
       ELSE Return(p, "error")
    /\ UNCHANGED <<artifact, files, litter>>

\* The manifest must have one layer; the temporary directory is made.
Manifest(p) ==
    /\ At(p, "manifest")
    /\ IF artifact.layers = 1 THEN Goto(p, "extract") /\ UNCHANGED <<lock, answer>>
                              ELSE Return(p, "error")
    /\ UNCHANGED <<artifact, files, litter, spent>>

(***************************************************************************)
(* extractLayer, one entry a step.  The size is compared after the file is *)
(* written.  An error removes the temporary directory.                     *)
(***************************************************************************)
Extracted(p) ==
    LET c == call[p]
        i == c.read + 1
        entry == artifact.entries[i]
    IN  CASE entry.kind = "root" -> [c EXCEPT !.read = i]
          [] entry.kind = "dir"  -> [c EXCEPT !.read = i, !.written = @ \cup {i}]
          [] OTHER -> [c EXCEPT !.read = i, !.written = @ \cup {i}, !.bytes = @ + entry.size]

TooLarge_Before(p) == Extracted(p).read > MaxEntries \/ call[p].bytes > MaxBytes
TooLarge_AtLimit(p) == Extracted(p).read >= MaxEntries \/ Extracted(p).bytes > MaxBytes
TooLarge(p) == Extracted(p).read > MaxEntries \/ Extracted(p).bytes > MaxBytes

\* os.RemoveAll of the temporary directory, whose error is ignored; used is
\* what the error before it has left of the bounds.
RemoveTemp(used) ==
    \/ spent' = used /\ UNCHANGED litter
    \/ /\ used.stuck < MaxStuck
       /\ spent' = [used EXCEPT !.stuck = @ + 1]
       /\ litter' = litter + 1

ExtractEntry(p) ==
    /\ At(p, "extract")
    /\ call[p].read < Len(artifact.entries)
    /\ IF TooLarge(p) \/ artifact.entries[call[p].read + 1].kind = "refused"
       THEN Return(p, "error") /\ RemoveTemp(spent)
       ELSE call' = [call EXCEPT ![p] = Extracted(p)] /\ UNCHANGED <<lock, answer, litter, spent>>
    /\ UNCHANGED <<artifact, files>>

ExtractDone(p) ==
    /\ At(p, "extract")
    /\ call[p].read = Len(artifact.entries)
    /\ Goto(p, "swap")
    /\ UNCHANGED <<artifact, lock, files, answer, litter, spent>>

(***************************************************************************)
(* The old rootfs is removed, entry by entry; the temporary directory is   *)
(* renamed; meta.json and READY are written.                               *)
(***************************************************************************)
RemoveOld(p) ==
    /\ At(p, "swap")
    /\ rootfs.there
    /\ \/ \E e \in rootfs.entries : rootfs' = [rootfs EXCEPT !.entries = @ \ {e}]
       \/ rootfs.entries = {} /\ rootfs' = [rootfs EXCEPT !.there = FALSE]
    /\ UNCHANGED <<artifact, lock, meta, ready, call, answer, litter, spent>>

Rename(p) ==
    /\ At(p, "swap")
    /\ ~rootfs.there
    /\ rootfs' = [there |-> TRUE, entries |-> call[p].written]
    /\ Goto(p, "meta")
    /\ UNCHANGED <<artifact, lock, meta, ready, answer, litter, spent>>

\* os.WriteFile: create or truncate, then write.
WriteMeta(p) ==
    /\ At(p, "meta")
    /\ \/ meta # Torn /\ meta' = Torn /\ UNCHANGED call
       \/ meta = Torn /\ meta' = call[p].bytes /\ Goto(p, "ready")
    /\ UNCHANGED <<artifact, lock, rootfs, ready, answer, litter, spent>>

WriteReady(p) ==
    /\ At(p, "ready")
    /\ ready' = TRUE
    /\ Goto(p, "done")
    /\ UNCHANGED <<artifact, lock, rootfs, meta, answer, litter, spent>>

Finish(p) ==
    /\ At(p, "done")
    /\ Return(p, "ok")
    /\ UNCHANGED <<artifact, files, litter, spent>>

(***************************************************************************)
(* Failing file operations and deaths.                                     *)
(***************************************************************************)
HasTemp(p) == call[p].pc \in {"extract", "swap"}

\* An error of the lock, the store, the manifest or a file ends the call.  A
\* write that fails may have created its file, and the temporary directory,
\* where there is one, is removed.
FileFails_LeavesTemp(p) ==
    LET used == [spent EXCEPT !.failures = @ + 1]
    IN  /\ call[p].pc \in {"lock", "check", "manifest", "extract", "swap", "meta", "ready"}
        /\ At(p, "check") => ~Cached
        /\ spent.failures < MaxFailures
        /\ Return(p, "error")
        /\ \/ At(p, "extract") /\ RemoveTemp(used)
           \/ At(p, "swap") /\ spent' = used /\ litter' = litter + 1
           \/ ~HasTemp(p) /\ spent' = used /\ UNCHANGED litter
        /\ meta' \in IF At(p, "meta") THEN {meta, Torn} ELSE {meta}
        /\ ready' \in IF At(p, "ready") THEN {ready, TRUE} ELSE {ready}
        /\ UNCHANGED <<artifact, rootfs>>
FileFails(p) ==
    LET used == [spent EXCEPT !.failures = @ + 1]
    IN  /\ call[p].pc \in {"lock", "check", "manifest", "extract", "swap", "meta", "ready"}
        /\ At(p, "check") => ~Cached
        /\ spent.failures < MaxFailures
        /\ Return(p, "error")
        /\ \/ HasTemp(p) /\ RemoveTemp(used)
           \/ ~HasTemp(p) /\ spent' = used /\ UNCHANGED litter
        /\ meta' \in IF At(p, "meta") THEN {meta, Torn} ELSE {meta}
        /\ ready' \in IF At(p, "ready") THEN {ready, TRUE} ELSE {ready}
        /\ UNCHANGED <<artifact, rootfs>>

\* The process dies; the kernel releases its lock.
Crash(p) ==
    /\ ~At(p, "idle")
    /\ Spend("crashes", MaxCrashes)
    /\ Return(p, "none")
    /\ litter' = IF HasTemp(p) THEN litter + 1 ELSE litter
    /\ UNCHANGED <<artifact, files>>

Step(p) ==
    \/ Ensure(p) \/ CheckCached(p) \/ Copy(p) \/ Manifest(p)
    \/ ExtractEntry(p) \/ ExtractDone(p) \/ RemoveOld(p) \/ Rename(p)
    \/ WriteMeta(p) \/ WriteReady(p) \/ Finish(p)

Next == \E p \in Caller :
    \/ Step(p)
    \/ Flock(p)
    \/ \E retryable \in BOOLEAN : CopyFails(p, retryable)
    \/ FileFails(p)
    \/ Crash(p)

Spec == Init /\ [][Next]_vars

\* The agent asks again in every pass, and a call goes on until it returns.
\* Who waits for the lock gets it at some time: between two calls an agent
\* waits for its next poll, so the lock is not always taken by the same one.
FairSpec == Spec /\ \A p \in Caller : WF_vars(Step(p)) /\ SF_vars(Flock(p))

(***************************************************************************)
(* Properties.                                                             *)
(***************************************************************************)
\* What an artifact consists of, and which ones may be installed.
Payload(a) == {i \in DOMAIN a.entries : a.entries[i].kind # "root"}
Bytes(entry) == IF entry.kind = "file" THEN entry.size ELSE 0

\* The first n entries have total bytes: their partial sums end there.
HasSize(a, n, total) ==
    \E sum \in [0 .. n -> 0 .. total] :
        /\ sum[0] = 0 /\ sum[n] = total
        /\ \A i \in 1 .. n : sum[i] = sum[i - 1] + Bytes(a.entries[i])

WellFormed(a) ==
    /\ a.layers = 1
    /\ Len(a.entries) <= MaxEntries
    /\ \A i \in DOMAIN a.entries : a.entries[i].kind # "refused"
Acceptable(a) == WellFormed(a) /\ \E n \in 0 .. MaxBytes : HasSize(a, Len(a.entries), n)

\* Whether a directory holds all of a well-formed artifact.
Complete(dir, a) == dir.there /\ dir.entries = Payload(a) /\ WellFormed(a)

PC == {"idle", "lock", "check", "copy", "manifest", "extract", "swap", "meta", "ready", "done"}
SpentType == [crashes : Nat, failures : Nat, stuck : Nat]

\* Every variable keeps its type; an Ensure makes at most three attempts.
TypeOK ==
    /\ artifact \in Artifact
    /\ lock \in Caller \cup {Nobody}
    /\ rootfs \in [there : BOOLEAN, entries : SUBSET Nat]
    /\ meta \in Nat \cup {None, Torn}
    /\ ready \in BOOLEAN
    /\ call \in [Caller -> [pc : PC, attempts : 0 .. MaxAttempts - 1, read : Nat,
                            written : SUBSET Nat, bytes : Nat]]
    /\ answer \in [Caller -> {"none", "ok", "error"}]
    /\ litter \in Nat
    /\ spent \in SpentType

\* README.md: extraction is atomic and READY follows it.  While READY is
\* there, rootfs has every entry of the artifact and the artifact is one that
\* passes the checks of Ensure and extractLayer, wherever earlier calls died
\* or failed: no call removes or replaces a rootfs that others may run from.
ReadyIsComplete == ready => Complete(rootfs, artifact)

\* With READY, meta.json records the size of what was extracted, and that is
\* within the limit although sizes are added up file by file.
SizeWithinLimit == ready => HasSize(artifact, Len(artifact.entries), meta) /\ meta <= MaxBytes

\* Only a caller's death, or a removal of it that fails, leaves a temporary
\* directory behind: every call that returns an error cleans up, an error of
\* the extraction, of the removal of the old rootfs and of the rename alike.
LitterAccounted == litter <= spent.crashes + spent.stuck

\* Nothing is downloaded again once READY is there (the cached path of
\* Ensure), so that a registry that goes away cannot stop what runs.
NoNewDownload == [][ready => \A p \in Caller : At(p, "copy")' => At(p, "copy")]_vars

\* The calls keep the promises of ArtifactStore.
CallOf(pc) == CASE pc = "idle" -> "idle" [] pc \in {"lock", "check"} -> "asking" [] OTHER -> "installing"
Store == INSTANCE ArtifactStore WITH
            valid <- WellFormed(artifact),
            available <- ready /\ Complete(rootfs, artifact),
            call <- [p \in Caller |-> CallOf(call[p].pc)]
Refines == Store!Spec

\* Every caller is served again and again if the artifact is acceptable, and
\* is told so each time if it is not: no call hangs on the lock, however the
\* one before it ended.
EveryoneAnswered ==
    \A p \in Caller : []<>(answer[p] = IF Acceptable(artifact) THEN "ok" ELSE "error")
==============================================================================

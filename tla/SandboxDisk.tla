------------------------------ MODULE SandboxDisk ------------------------------
(***************************************************************************)
(* The files of a disk_sync sandbox: its bucket prefix, and the disk of    *)
(* each container that is opened on it, one after another or, when two     *)
(* workers open the sandbox together, at once.                             *)
(*                                                                         *)
(* A container restores the prefix, or seeds an empty one (sandbox/        *)
(* entry.py), then serves: calls write files, pushes send them back        *)
(* (sandbox/host.py), and a close stops the host, which pushes once more   *)
(* (sandbox/modal.py).  A file holds a version, 0 for none and 1 for the   *)
(* seed's; s5cmd moves one file at a time and may be cut off between two.  *)
(***************************************************************************)
EXTENDS Naturals, FiniteSets

CONSTANTS
    Boxes,          \* containers that are ever opened on this prefix
    Files,          \* files of the workspace, all of them in the seed
    MaxVersion,     \* bound: versions of a file
    MaxFailures,    \* bound: pushes that fail, per container
    Together        \* two containers may be open at once

ASSUME DiskAssumption ==
    MaxVersion \in Nat \ {0} /\ MaxFailures \in Nat /\ Together \in BOOLEAN

VARIABLES
    bucket,     \* the version of each object under the prefix
    marker,     \* the seed marker beside the prefix
    phase,      \* how far each container is
    disk,       \* the version of each file on each container's disk
    todo,       \* files the pull under way has still to fetch
    copying,    \* files the seed copy under way has still to copy
    checked,    \* what the marker check said: "no" answer yet, "marked", "missing"
    writing,    \* files that calls in progress have written
    done,       \* history: the newest version of each file by a call that ended by itself
    pending,    \* Host._pending
    pushing,    \* Host._push_lock is held
    sending,    \* files the push under way has still to send
    failures,   \* pushes that failed
    asked       \* history: done, as the close began

boxVars == <<phase, disk, todo, copying, checked, writing, done, pending, pushing, sending,
             failures, asked>>
diskVars == <<bucket, marker, boxVars>>

Versions == 0 .. MaxVersion
Phases == {"off", "pull", "seed", "unseeded", "serve", "close", "push", "closed", "unsaved",
           "dead"}

DiskTypeOK ==
    /\ bucket \in [Files -> Versions] /\ marker \in BOOLEAN
    /\ phase \in [Boxes -> Phases]
    /\ disk \in [Boxes -> [Files -> Versions]]
    /\ todo \in [Boxes -> SUBSET Files] /\ copying \in [Boxes -> SUBSET Files]
    /\ checked \in [Boxes -> {"no", "marked", "missing"}]
    /\ writing \in [Boxes -> SUBSET Files]
    /\ done \in [Boxes -> [Files -> Versions]] /\ asked \in [Boxes -> [Files -> Versions]]
    /\ \A b \in Boxes, f \in Files : done[b][f] <= disk[b][f]
    /\ pending \in [Boxes -> BOOLEAN] /\ pushing \in [Boxes -> BOOLEAN]
    /\ sending \in [Boxes -> SUBSET Files]
    /\ \A b \in Boxes : sending[b] # {} => pushing[b]
    /\ failures \in [Boxes -> 0 .. MaxFailures]

None == [f \in Files |-> 0]

DiskInit ==
    /\ bucket = None /\ marker = FALSE
    /\ phase = [b \in Boxes |-> "off"]
    /\ disk = [b \in Boxes |-> None]
    /\ todo = [b \in Boxes |-> {}] /\ copying = [b \in Boxes |-> {}]
    /\ checked = [b \in Boxes |-> "no"]
    /\ writing = [b \in Boxes |-> {}]
    /\ done = [b \in Boxes |-> None] /\ asked = [b \in Boxes |-> None]
    /\ pending = [b \in Boxes |-> FALSE] /\ pushing = [b \in Boxes |-> FALSE]
    /\ sending = [b \in Boxes |-> {}]
    /\ failures = [b \in Boxes |-> 0]

Live(b) == phase[b] \notin {"off", "closed", "unsaved", "dead"}
Stored  == {f \in Files : bucket[f] > 0}

(***************************************************************************)
(* entry.restore                                                           *)
(***************************************************************************)
\* ModalSandboxProvider.open: a new container, its disk empty.  The pull lists
\* the prefix; what comes after the listing is not fetched.
Boot(b) ==
    /\ phase[b] = "off"
    /\ Together \/ \A other \in Boxes : ~Live(other)
    /\ phase' = [phase EXCEPT ![b] = IF Stored = {} THEN "seed" ELSE "pull"]
    /\ todo' = [todo EXCEPT ![b] = IF Stored = {} THEN Files ELSE Stored]
    /\ copying' = [copying EXCEPT ![b] = IF Stored = {} THEN Files ELSE {}]
    /\ UNCHANGED <<bucket, marker, disk, checked, writing, done, pending, pushing, sending,
                   failures, asked>>

\* The marker is listed while the pull runs, at any point of it.
CheckMarker(b) ==
    /\ phase[b] = "pull" /\ checked[b] = "no"
    /\ checked' = [checked EXCEPT ![b] = IF marker THEN "marked" ELSE "missing"]
    /\ UNCHANGED <<bucket, marker, phase, disk, todo, copying, writing, done, pending, pushing,
                   sending, failures, asked>>

\* One file of the prefix, or of the seed, reaches the disk.
PullFile(b, f) ==
    /\ f \in todo[b]
    /\ disk' = [disk EXCEPT ![b][f] = IF phase[b] = "seed" THEN 1 ELSE bucket[f]]
    /\ todo' = [todo EXCEPT ![b] = @ \ {f}]
    /\ UNCHANGED <<bucket, marker, phase, copying, checked, writing, done, pending, pushing,
                   sending, failures, asked>>

\* One file of the seed reaches the prefix (s5cmd cp: whatever is there).
CopyFile(b, f) ==
    /\ f \in copying[b]
    /\ bucket' = [bucket EXCEPT ![f] = 1]
    /\ copying' = [copying EXCEPT ![b] = @ \ {f}]
    /\ UNCHANGED <<marker, phase, disk, todo, checked, writing, done, pending, pushing, sending,
                   failures, asked>>

\* The pull of the seed fails: startup will, once the copy beside it is over.
SeedPullFails(b) ==
    /\ phase[b] = "seed"
    /\ phase' = [phase EXCEPT ![b] = "unseeded"]
    /\ todo' = [todo EXCEPT ![b] = {}]
    /\ UNCHANGED <<bucket, marker, disk, copying, checked, writing, done, pending, pushing, sending,
                   failures, asked>>

Seeding(b) == phase[b] \in {"seed", "unseeded"}

\* Mutant: the marker is written before the copy is in the bucket.
SeededEarly(b) == Seeding(b) /\ todo[b] = {}

\* The marker is written once the copy finished and the pull is over, failed or not,
\* before the host starts.
Seeded(b) == Seeding(b) /\ copying[b] = {} /\ todo[b] = {}

WriteMarker(b) ==
    /\ Seeded(b) /\ ~marker
    /\ marker' = TRUE
    /\ UNCHANGED <<bucket, boxVars>>

\* Mutant: the host starts though the copy has no marker.
Pulled(b) == todo[b] = {}

MayServe(b) ==
    /\ todo[b] = {}
    /\ \/ phase[b] = "pull" /\ checked[b] = "marked"
       \/ phase[b] = "seed" /\ Seeded(b) /\ marker

Serve(b) ==
    /\ phase[b] \in {"pull", "seed"} /\ MayServe(b)
    /\ phase' = [phase EXCEPT ![b] = "serve"]
    /\ UNCHANGED <<bucket, marker, disk, todo, copying, checked, writing, done, pending, pushing,
                   sending, failures, asked>>

(***************************************************************************)
(* Host._run and Host.push_now, on a host that pushes                      *)
(***************************************************************************)
\* Calls are answered until the process exits, while it closes too.
Answering(b) == phase[b] \in {"serve", "close", "push"}

CallWrites(b, f) ==
    /\ Answering(b)
    /\ f \notin writing[b] /\ disk[b][f] < MaxVersion
    /\ disk' = [disk EXCEPT ![b][f] = @ + 1]
    /\ writing' = [writing EXCEPT ![b] = @ \cup {f}]
    /\ UNCHANGED <<bucket, marker, phase, todo, copying, checked, done, pending, pushing, sending,
                   failures, asked>>

\* Host._run after call_method: the push is due.
CallEnds(b, f) ==
    /\ Answering(b) /\ f \in writing[b]
    /\ writing' = [writing EXCEPT ![b] = @ \ {f}]
    /\ done' = [done EXCEPT ![b][f] = disk[b][f]]
    /\ pending' = [pending EXCEPT ![b] = TRUE]
    /\ UNCHANGED <<bucket, marker, phase, disk, todo, copying, checked, pushing, sending, failures,
                   asked>>

\* A call that is cancelled leaves Host._run by CancelledError: no push is due for what
\* it wrote.
CallCancelled(b, f) ==
    /\ Answering(b) /\ f \in writing[b]
    /\ writing' = [writing EXCEPT ![b] = @ \ {f}]
    /\ UNCHANGED <<bucket, marker, phase, disk, todo, copying, checked, done, pending, pushing,
                   sending, failures, asked>>

Differing(b) == {f \in Files : disk[b][f] # bucket[f]}

\* push_now takes the lock and clears the mark; s5cmd lists what to send.
StartPush(b) ==
    /\ ~pushing[b]
    /\ pushing' = [pushing EXCEPT ![b] = TRUE]
    /\ pending' = [pending EXCEPT ![b] = FALSE]
    /\ sending' = [sending EXCEPT ![b] = Differing(b)]

\* Host.pusher: after calls, and again while a completed call is not yet pushed.
PushDue(b) ==
    /\ phase[b] \in {"serve", "close"} /\ pending[b]
    /\ StartPush(b)
    /\ UNCHANGED <<bucket, marker, phase, disk, todo, copying, checked, writing, done, failures,
                   asked>>

\* The file is sent as it is when its turn comes.
PushFile(b, f) ==
    /\ f \in sending[b]
    /\ bucket' = [bucket EXCEPT ![f] = disk[b][f]]
    /\ sending' = [sending EXCEPT ![b] = @ \ {f}]
    /\ UNCHANGED <<marker, phase, disk, todo, copying, checked, writing, done, pending, pushing,
                   failures, asked>>

StillPending(b) == pending[b]

\* A push that exits 0 leaves the mark as calls have set it meanwhile.
PushSucceeds(b) ==
    /\ pushing[b] /\ sending[b] = {} /\ phase[b] \in {"serve", "close"}
    /\ pushing' = [pushing EXCEPT ![b] = FALSE]
    /\ pending' = [pending EXCEPT ![b] = StillPending(b)]
    /\ UNCHANGED <<bucket, marker, phase, disk, todo, copying, checked, writing, done, sending,
                   failures, asked>>

\* Mutant: a push that fails leaves the mark as it is.
PendingAnyway(b) == pending[b]

PendingAgain(b) == TRUE
Unsent(b) == {}

\* One that fails or times out keeps it set.  After the final push nothing comes but
\* the exit: shutdown answers "stopped", and ModalSandbox.close pushes no more.
PushFails(b) ==
    /\ pushing[b] /\ failures[b] < MaxFailures
    /\ phase' = [phase EXCEPT ![b] = IF @ = "push" THEN "unsaved" ELSE @]
    /\ pushing' = [pushing EXCEPT ![b] = FALSE]
    /\ pending' = [pending EXCEPT ![b] = PendingAgain(b)]
    /\ sending' = [sending EXCEPT ![b] = Unsent(b)]
    /\ failures' = [failures EXCEPT ![b] = @ + 1]
    /\ UNCHANGED <<bucket, marker, disk, todo, copying, checked, writing, done, asked>>

(***************************************************************************)
(* Host.shutdown, serve, ModalSandbox.close                                *)
(***************************************************************************)
\* A signal or POST /v1/shutdown; close_instances comes first.
Shutdown(b) ==
    /\ phase[b] = "serve"
    /\ phase' = [phase EXCEPT ![b] = "close"]
    /\ asked' = [asked EXCEPT ![b] = done[b]]
    /\ UNCHANGED <<bucket, marker, disk, todo, copying, checked, writing, done, pending, pushing,
                   sending, failures>>

\* Mutant: the last push is left out when none is pending.
NeedsFinalPush(b) == pending[b]

FinalPushes(b) == TRUE

\* _close_and_push: the last push waits for one that runs.  Without a host's
\* answer ModalSandbox.close runs the same push itself.
FinalPush(b) ==
    /\ phase[b] = "close"
    /\ phase' = [phase EXCEPT ![b] = IF FinalPushes(b) THEN "push" ELSE "closed"]
    /\ FinalPushes(b) => StartPush(b)
    /\ ~FinalPushes(b) => UNCHANGED <<pending, pushing, sending>>
    /\ UNCHANGED <<bucket, marker, disk, todo, copying, checked, writing, done, failures, asked>>

\* The final push exited 0, and so does the process.
Exit(b) ==
    /\ phase[b] = "push" /\ sending[b] = {}
    /\ phase' = [phase EXCEPT ![b] = "closed"]
    /\ pushing' = [pushing EXCEPT ![b] = FALSE]
    /\ UNCHANGED <<bucket, marker, disk, todo, copying, checked, writing, done, pending, sending,
                   failures, asked>>

\* SIGKILL at any point: terminate, a timeout of the sandbox; or a failed restore.
\* What s5cmd has not moved is not moved.
Die(b) ==
    /\ Live(b)
    /\ phase' = [phase EXCEPT ![b] = "dead"]
    /\ todo' = [todo EXCEPT ![b] = {}] /\ copying' = [copying EXCEPT ![b] = {}]
    /\ sending' = [sending EXCEPT ![b] = {}] /\ pushing' = [pushing EXCEPT ![b] = FALSE]
    /\ writing' = [writing EXCEPT ![b] = {}]
    /\ UNCHANGED <<bucket, marker, disk, checked, done, pending, failures, asked>>
-----------------------------------------------------------------------------
DiskNext ==
    \E b \in Boxes :
        \/ Boot(b) \/ CheckMarker(b) \/ SeedPullFails(b) \/ WriteMarker(b) \/ Serve(b)
        \/ PushDue(b) \/ PushSucceeds(b) \/ PushFails(b)
        \/ Shutdown(b) \/ FinalPush(b) \/ Exit(b) \/ Die(b)
        \/ \E f \in Files : PullFile(b, f) \/ CopyFile(b, f)
                            \/ CallWrites(b, f) \/ CallEnds(b, f) \/ CallCancelled(b, f)
                            \/ PushFile(b, f)

\* The pusher's loop runs and a push takes its files: pushes fail a bounded
\* number of times, and no container has to boot, be called or be closed.
DiskFairness ==
    \A b \in Boxes : /\ WF_diskVars(PushDue(b)) /\ WF_diskVars(PushSucceeds(b))
                     /\ WF_diskVars(FinalPush(b)) /\ WF_diskVars(Exit(b))
                     /\ \A f \in Files : WF_diskVars(PushFile(b, f))

DiskSpec == DiskInit /\ [][DiskNext]_diskVars /\ DiskFairness
-----------------------------------------------------------------------------
\* entry.py: "startup fails rather than serve a partial workspace".  A container
\* that serves holds every file of the workspace, wherever an earlier one was
\* cut off: in the middle of a seed copy, before its marker, or in a push.
ServesWhole == \A b \in Boxes, f \in Files : Answering(b) => disk[b][f] > 0

\* No push races the seed copy: an object is never replaced by an older version,
\* so that what a call's push has stored is there for the next container.
NeverOlder == [][\A f \in Files : bucket'[f] >= bucket[f]]_diskVars

\* StorageStatus.pending: while no push runs and none is pending, every call that
\* ended by itself is in the bucket, also one that ended as a push was sending its
\* files.  What a cancelled call wrote is not counted: the host marks no push for it.
PendingIsHonest ==
    \A b \in Boxes : phase[b] \in {"serve", "close"} /\ ~pending[b] /\ ~pushing[b] =>
                     \A f \in Files : bucket[f] >= done[b][f]

StoredSinceAsked(b) == \A f \in Files : bucket[f] >= asked[b][f]

\* A host whose final push exited 0 has stored all that calls had done when its
\* shutdown began, whatever push was running or had failed then.  (Of one whose final
\* push failed it is false, though modal.py:666 takes the host's word that it "closed
\* and pushed".)
CloseStores == \A b \in Boxes : phase[b] = "closed" => StoredSinceAsked(b)

\* What a call that ended by itself has done is stored in the end, unless the container
\* dies or is closed: a failed push, or one that began before the call ended, is
\* followed by another.
CallsGetStored ==
    \A b \in Boxes, f \in Files :
        (done[b][f] = MaxVersion /\ phase[b] = "serve") ~> (bucket[f] = MaxVersion \/ ~Live(b))

\* The state is well formed, "nothing pending" means stored, and a host that stopped with
\* its final push done stored all.
DiskInv == DiskTypeOK /\ PendingIsHonest /\ CloseStores
=============================================================================

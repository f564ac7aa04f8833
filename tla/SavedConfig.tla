------------------------------ MODULE SavedConfig ------------------------------
(* The saved configuration of one profile and its writers: the AI Key's        *)
(* config_store.py, the device workflow and the host activation.  Every writer *)
(* holds one lock file; a crash or a failed write lets it go at any step and   *)
(* leaves the files as they are.  Startup reads them without the lock.  A      *)
(* revision names the content (SHA-256), so equal contents are one revision.   *)
EXTENDS FiniteSets

CONSTANTS
    Revs,       \* valid configurations, by revision
    Guarded,    \* a restored configuration with the face model space retained
    None

ASSUME GuardedAssumption == Guarded \in [Revs -> Revs]

VARIABLES
    config,     \* the configuration file
    history,    \* .aikey-config-history, per revision: a crash leaves "partial"
    undo,       \* provider-change.json: None or [from, to]
    intent,     \* the device-workflow journal, or None
    host,       \* the host activation, or None
    txn,        \* the lock's holder, or None
    start,      \* a process starting up, and the revision it read
    stable      \* revisions nobody was changing at some time since it started

files == <<config, history, undo, intent, host>>
starting == <<start, stable>>
vars == <<files, txn, starting>>

Pair == [before : Revs, after : Revs]
\* The records the fence reads (_record): any other stops every writer.
Intents ==
    {i \in [before : Revs, after : Revs, by : {"change", "return"},
            state : {"prepared", "saved", "rolled_back", "abandoned"},
            previous : Pair \cup {None}] :
        /\ i.state = "saved" => i.by = "change"
        /\ i.state = "rolled_back" => i.by = "return"}

Ops == {"apply", "provider", "rollback", "undo", "change", "return"}
Steps == {"archive", "archiving", "intend", "replace", "record"}

Undos == [from : Revs, to : Revs]
Hosts == [revision : Revs, phase : {"prepared", "settled"}]
Transactions == [op : Ops, at : Steps, from : Revs, to : Revs]
Owners == [by : {"change", "return", "host"}, before : Revs, after : Revs]

ASSUME NoneAssumption ==
    None \notin Revs \cup Pair \cup Intents \cup Undos \cup Hosts \cup Transactions
                    \cup Owners

TypeOK ==
    /\ config \in Revs
    /\ history \in [Revs -> {"absent", "partial", "whole"}]
    /\ undo \in Undos \cup {None}
    /\ intent \in Intents \cup {None}
    /\ host \in Hosts \cup {None}
    /\ txn \in Transactions \cup {None}
    /\ start \in [at : {"none", "read", "recheck", "host", "loaded"},
                  revision : Revs \cup {None}]
    /\ stable \subseteq Revs

NotStarting == [at |-> "none", revision |-> None]

Init ==
    /\ config \in Revs
    /\ history = [r \in Revs |-> "absent"]
    /\ undo = None /\ intent = None /\ host = None /\ txn = None
    /\ start = NotStarting /\ stable = {}

-------------------------------------------------------------------------------
\* device_workflow_fence.check and host_activation.check_writable.
Intended == intent # None /\ intent.state = "prepared"
Reserved == host # None /\ host.phase = "prepared"

Archived(r) == history[r] = "whole"

\* Bug forms (Bug...) are what a plausible slip in the next definition would
\* give; they show that the properties notice it and are used nowhere else.
BugUnowned == ~Intended

\* _locked: the lock is free and neither fence is up.
Unowned == ~Intended /\ ~Reserved

Locked == txn = None

Begin(op, to) ==
    /\ txn' = [op |-> op, at |-> "archive", from |-> config, to |-> to]
    /\ UNCHANGED files

\* apply and the role and policy forms: expected_revision is config's.
Apply(to) == Locked /\ Unowned /\ to # config /\ Begin("apply", to)

\* apply_inference and apply_role_model, which record the change.
ApplyProvider(to) == Locked /\ Unowned /\ to # config /\ Begin("provider", to)

Rollback(to) == Locked /\ Unowned /\ Archived(to) /\ Begin("rollback", to)

RollbackProvider ==
    /\ Locked /\ Unowned
    /\ undo # None /\ undo.to = config /\ Archived(undo.from)
    /\ Begin("undo", undo.from)

\* DeviceWorkflow.apply.
DeviceApply(to) == Locked /\ Unowned /\ to # config /\ Begin("change", to)

\* DeviceWorkflow.rollback of the saved change; "Restoring a disabled feature
\* must not erase the vector-space guard".
DeviceRollback ==
    /\ Locked /\ Unowned
    /\ intent # None /\ intent.state = "saved" /\ intent.after = config
    /\ Archived(intent.before)
    /\ \E to \in {intent.before, Guarded[intent.before]} \ {config} : Begin("return", to)

-------------------------------------------------------------------------------
Device == txn.op \in {"change", "return"}
GoTo(step) == txn' = [txn EXCEPT !.at = step]
AtStep(step) == txn # None /\ txn.at = step

BugSame(r) == history[r] # "absent"

\* A file of that name holds the content to be archived.
Same(r) == Archived(r)

\* What follows the archive of the current content.
ArchivedNext == IF Device THEN "intend" ELSE "replace"

\* _archive: created exclusively, or there already and the same.
Archive ==
    /\ AtStep("archive")
    /\ IF history[txn.from] = "absent"
       THEN history' = [history EXCEPT ![txn.from] = "partial"] /\ GoTo("archiving")
       ELSE /\ UNCHANGED history
            /\ IF Same(txn.from) THEN GoTo(ArchivedNext) ELSE txn' = None
    /\ UNCHANGED <<config, undo, intent, host>>

\* Written through, or unlinked after a failure.
ArchiveWritten ==
    /\ AtStep("archiving")
    /\ \/ history' = [history EXCEPT ![txn.from] = "whole"] /\ GoTo(ArchivedNext)
       \/ history' = [history EXCEPT ![txn.from] = "absent"] /\ txn' = None
    /\ UNCHANGED <<config, undo, intent, host>>

\* The saved record the new intent keeps.
SavedBefore ==
    IF intent # None /\ intent.state = "saved"
    THEN [before |-> intent.before, after |-> intent.after] ELSE None

\* The intent, before the configuration.
Intend ==
    /\ AtStep("intend")
    /\ intent' = [before |-> txn.from, after |-> txn.to, by |-> txn.op,
                  state |-> "prepared", previous |-> SavedBefore]
    /\ GoTo("replace")
    /\ UNCHANGED <<config, history, undo, host>>

Replace ==
    /\ AtStep("replace")
    /\ config' = txn.to
    /\ IF txn.op \in {"apply", "rollback"} THEN txn' = None ELSE GoTo("record")
    /\ UNCHANGED <<history, undo, intent, host>>

\* The intent of a configuration that was replaced.
Decided ==
    [intent EXCEPT !.state = IF intent.by = "return" THEN "rolled_back" ELSE "saved",
                   !.previous = None]

\* The record that goes with the configuration read back.
Record ==
    /\ AtStep("record")
    /\ CASE txn.op = "provider" ->
                undo' = [from |-> txn.from, to |-> txn.to] /\ UNCHANGED intent
         [] txn.op = "undo" -> undo' = None /\ UNCHANGED intent
         [] Device -> intent' = Decided /\ UNCHANGED undo
    /\ txn' = None
    /\ UNCHANGED <<config, history, host>>

\* The holder crashes, or a write raises: the configuration's is uncertain, a
\* failed provider record is passed over.
LetGo ==
    /\ txn # None
    /\ txn' = None
    /\ UNCHANGED files

\* reconcile: "Explicit persisted-byte reconciliation".
Reconcile ==
    /\ Locked /\ Intended /\ ~Reserved
    /\ \/ /\ config = intent.after /\ Archived(intent.before)
          /\ intent' = Decided
       \/ /\ config = intent.before
          /\ intent' = IF intent.previous = None
                       THEN [intent EXCEPT !.state = "abandoned"]
                       ELSE [before |-> intent.previous.before,
                             after |-> intent.previous.after, by |-> "change",
                             state |-> "saved", previous |-> None]
    /\ UNCHANGED <<config, history, undo, host, txn>>

-------------------------------------------------------------------------------
BugHostMayPublish == Locked

\* configuration_writer: the same lock, and no undecided device intent.
HostMayPublish == Locked /\ ~Intended

\* publish, of the bytes the host has reviewed, by an operation that is new;
Reserve ==
    /\ HostMayPublish /\ ~Reserved
    /\ host' = [revision |-> config, phase |-> "prepared"]
    /\ UNCHANGED <<config, history, undo, intent, txn>>

\* and of its end, by the same operation, however late.
Release ==
    /\ HostMayPublish /\ Reserved
    /\ host' = [host EXCEPT !.phase = "settled"]
    /\ UNCHANGED <<config, history, undo, intent, txn>>

-------------------------------------------------------------------------------
BugUndecided == FALSE

\* load_startup_config: check_device_intent, before the file is read and after.
Undecided == Intended

StartUp ==
    /\ start.at \in {"none", "loaded"}
    /\ ~Undecided
    /\ start' = [at |-> "read", revision |-> None]

ReadSnapshot ==
    /\ start.at = "read"
    /\ start' = [at |-> "recheck", revision |-> config]

Recheck ==
    /\ start.at = "recheck"
    /\ start' = IF Undecided THEN NotStarting ELSE [start EXCEPT !.at = "host"]

\* check_startup.
CheckStartup ==
    /\ start.at = "host"
    /\ start' = IF Reserved /\ host.revision # start.revision THEN NotStarting
                ELSE [start EXCEPT !.at = "loaded"]

Startup == (StartUp \/ ReadSnapshot \/ Recheck \/ CheckStartup) /\ UNCHANGED <<files, txn>>

-------------------------------------------------------------------------------
Write ==
    \/ \E to \in Revs : Apply(to) \/ ApplyProvider(to) \/ Rollback(to) \/ DeviceApply(to)
    \/ RollbackProvider \/ DeviceRollback
    \/ Archive \/ ArchiveWritten \/ Intend \/ Replace \/ Record \/ LetGo
    \/ Reconcile \/ Reserve \/ Release

\* The revision is stable when no device change of it is undecided.
Stable == IF Intended THEN {} ELSE {config}

Observe ==
    stable' = IF start'.at \in {"none", "loaded"} THEN {}
              ELSE IF start.at \in {"none", "loaded"} THEN Stable'
              ELSE stable \cup Stable'

Next == ((Write /\ UNCHANGED start) \/ Startup) /\ Observe

Spec == Init /\ [][Next]_vars

-------------------------------------------------------------------------------
\* Whatever a crash leaves, an undecided intent is one that reconcile accepts:
\* the configuration is one of its two, the earlier one is archived, and no host
\* activation is reserved that could only be settled after it.
AlwaysReconcilable ==
    Intended => /\ config \in {intent.before, intent.after}
                /\ Archived(intent.before)
                /\ ~Reserved

\* A restore that is on offer has its target: the archive of the configuration
\* a record names is whole whenever the record is there.
RestorePointsKept ==
    /\ undo # None => Archived(undo.from)
    /\ intent # None => /\ Archived(intent.before)
                        /\ intent.previous # None => Archived(intent.previous.before)

\* A process starts on a revision that was the configuration, decided, at some
\* moment of its startup, though it reads without the lock.
StartupReadsStable ==
    [][start'.at = "loaded" /\ start.at = "host" => start.revision \in stable]_vars

\* The undecided change that owns the configuration, and the change on offer.
Owner ==
    IF Intended THEN [by |-> intent.by, before |-> intent.before, after |-> intent.after]
    ELSE IF Reserved THEN [by |-> "host", before |-> host.revision, after |-> host.revision]
    ELSE None
Offer == IF Intended THEN intent.previous ELSE SavedBefore

\* "Prepared reservations fence ALL ordinary config writers" and an intent does:
\* the writers together implement a value with one owner at a time.
Owned == INSTANCE OwnedChange WITH
    Revs <- Revs, None <- None, value <- config, owner <- Owner, offer <- Offer

ImplementsOwnedChange == Owned!Spec
===============================================================================

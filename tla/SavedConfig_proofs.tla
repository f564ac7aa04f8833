-------------------------- MODULE SavedConfig_proofs --------------------------
(* The saved configuration, for every set of revisions: its type, what a crash *)
(* leaves behind, what a startup reads, and that the writers together          *)
(* implement a value with one owner at a time (OwnedChange).                   *)
EXTENDS SavedConfig, TLAPS

\* How far the holder of the lock has come, and what it relies on.
TxnOK ==
    txn # None =>
        /\ txn.at \in {"archive", "archiving", "intend", "replace"} => config = txn.from
        /\ txn.at = "archiving" => history[txn.from] = "partial"
        /\ txn.at \in {"intend", "replace", "record"} => Archived(txn.from)
        /\ txn.at = "intend" => Device
        /\ txn.at = "record" => txn.op \notin {"apply", "rollback"}
        /\ ~Reserved
        /\ IF Device /\ txn.at \in {"replace", "record"}
           THEN /\ Intended /\ intent.by = txn.op
                /\ intent.before = txn.from /\ intent.after = txn.to
                /\ txn.at = "record" => config = txn.to
           ELSE ~Intended
        /\ Device => txn.to # txn.from
        /\ txn.op = "return" /\ txn.at \in {"archive", "archiving", "intend"} =>
               intent # None /\ intent.state = "saved" /\ intent.after = config

\* An owner's announcement is about the configuration as it is.
OwnerOK ==
    /\ Intended => intent.before # intent.after
    /\ Reserved => host.revision = config

\* Since a startup began, the configuration was stable, and so was what it has
\* read, unless that is the end of a change still undecided.
StartOK ==
    /\ start.at \in {"read", "recheck", "host"} =>
           IF Intended THEN intent.before \in stable ELSE config \in stable
    /\ start.at = "recheck" =>
           \/ start.revision \in stable
           \/ Intended /\ config = intent.after /\ start.revision = config
    /\ start.at = "host" => start.revision \in stable

IInv ==
    /\ TypeOK /\ TxnOK /\ OwnerOK /\ AlwaysReconcilable /\ RestorePointsKept
    /\ StartOK

LEMMA Initially == Init => IInv
<1> SUFFICES ASSUME Init PROVE IInv
  OBVIOUS
<1>1. TypeOK
  BY NoneAssumption DEF Init, TypeOK, NotStarting
<1>2. TxnOK /\ OwnerOK /\ AlwaysReconcilable /\ RestorePointsKept /\ StartOK
  BY DEF Init, TxnOK, OwnerOK, AlwaysReconcilable, RestorePointsKept, StartOK,
         Intended, Reserved, NotStarting
<1> QED
  BY <1>1, <1>2 DEF IInv

\* The invariant of the files and of the lock's holder, which a startup only reads.
FInv == TypeOK /\ TxnOK /\ OwnerOK /\ AlwaysReconcilable /\ RestorePointsKept

\* A decided intent is a record the fence reads, of the same change.
LEMMA DecidedIntent ==
    ASSUME intent \in Intents
    PROVE  /\ Decided \in Intents
           /\ Decided.before = intent.before /\ Decided.after = intent.after
           /\ Decided.by = intent.by /\ Decided.previous = None
           /\ Decided.state = IF intent.by = "return" THEN "rolled_back" ELSE "saved"
<1> USE DEF Decided, Intents, Pair
<1>1. Decided \in [before : Revs, after : Revs, by : {"change", "return"},
                   state : {"prepared", "saved", "rolled_back", "abandoned"},
                   previous : Pair \cup {None}]
  OBVIOUS
<1>2. /\ Decided.before = intent.before /\ Decided.after = intent.after
      /\ Decided.by = intent.by /\ Decided.previous = None
      /\ Decided.state = IF intent.by = "return" THEN "rolled_back" ELSE "saved"
  OBVIOUS
<1> QED
  BY <1>1, <1>2

LEMMA WriteType ==
    ASSUME TypeOK, TxnOK, Write, start' = start, stable' \in SUBSET Revs
    PROVE  TypeOK'
<1> USE NoneAssumption, GuardedAssumption DEF TypeOK, Intents, Pair, Undos, Hosts, Transactions, Ops, Steps, files
<1>1. ASSUME NEW to \in Revs, Apply(to) PROVE TypeOK'
  BY <1>1 DEF Apply, Begin, Locked, Unowned, Archived, Device, Intended, Reserved
<1>2. ASSUME NEW to \in Revs, ApplyProvider(to) PROVE TypeOK'
  BY <1>2 DEF ApplyProvider, Begin, Locked, Unowned, Archived, Device, Intended, Reserved
<1>3. ASSUME NEW to \in Revs, Rollback(to) PROVE TypeOK'
  BY <1>3 DEF Rollback, Begin, Locked, Unowned, Archived, Device, Intended, Reserved
<1>4. ASSUME NEW to \in Revs, DeviceApply(to) PROVE TypeOK'
  BY <1>4 DEF DeviceApply, Begin, Locked, Unowned, Archived, Device, Intended, Reserved
<1>5. CASE RollbackProvider
  BY <1>5 DEF RollbackProvider, Begin, Locked, Unowned, Archived, Device, Intended, Reserved
<1>6. CASE DeviceRollback
  BY <1>6 DEF DeviceRollback, Begin, Locked, Unowned, Archived, Device, Intended, Reserved
<1>7. CASE Archive
  BY <1>7 DEF Archive, AtStep, GoTo, ArchivedNext, Same, Archived, Device, Intended, Reserved
<1>8. CASE ArchiveWritten
  BY <1>8 DEF ArchiveWritten, AtStep, GoTo, ArchivedNext, Archived, Device, Intended, Reserved
<1>9. CASE Intend
  BY <1>9 DEF Intend, AtStep, GoTo, SavedBefore, TxnOK, Archived, Device, Intended, Reserved
<1>10. CASE Replace
  BY <1>10 DEF Replace, AtStep, GoTo, Archived, Device, Intended, Reserved
<1>11. CASE Record
  <2>1. txn # None /\ txn.at = "record" /\ txn' = None
        /\ UNCHANGED <<config, history, host>>
    BY <1>11 DEF Record, AtStep
  <2>2. CASE txn.op = "provider"
    <3>1. undo' = [from |-> txn.from, to |-> txn.to] /\ intent' = intent
      BY <1>11, <2>2 DEF Record, Device
    <3> QED
      BY <2>1, <2>2, <3>1 DEF TxnOK, Archived, Device, Intended, Reserved
  <2>3. CASE txn.op = "undo"
    <3>1. undo' = None /\ intent' = intent
      BY <1>11, <2>3 DEF Record, Device
    <3> QED
      BY <2>1, <2>3, <3>1 DEF TxnOK, Archived, Device, Intended, Reserved
  <2>4. CASE Device
    <3>1. undo' = undo /\ intent' = Decided
      BY <1>11, <2>4 DEF Record, Device
    <3>2. intent \in Intents
      BY <2>1, <2>4 DEF TxnOK, Intended
    <3> QED
      BY <2>1, <2>4, <3>1, <3>2, DecidedIntent DEF TxnOK, Archived, Device, Intended, Reserved
  <2> QED
    BY <2>1, <2>2, <2>3, <2>4 DEF TxnOK, Device
<1>12. CASE LetGo
  BY <1>12 DEF LetGo, Archived, Device, Intended, Reserved
<1>13. CASE Reconcile
  BY <1>13, DecidedIntent DEF Reconcile, Locked, TxnOK, Archived, Device, Intended, Reserved
<1>14. CASE Reserve
  BY <1>14 DEF Reserve, HostMayPublish, Locked, Archived, Device, Intended, Reserved
<1>15. CASE Release
  BY <1>15 DEF Release, HostMayPublish, Locked, Archived, Device, Intended, Reserved
<1> QED
  BY <1>1, <1>2, <1>3, <1>4, <1>5, <1>6, <1>7, <1>8, <1>9, <1>10, <1>11, <1>12, <1>13, <1>14, <1>15 DEF Write

LEMMA WriteKeeps ==
    ASSUME FInv, Write, start' = start, stable' \in SUBSET Revs
    PROVE  FInv'
<1> USE NoneAssumption, GuardedAssumption DEF FInv, files
<1>0. TypeOK'
  BY WriteType
<1> USE DEF TypeOK, Intents, Pair, Undos, Hosts, Transactions, Ops, Steps, TxnOK, OwnerOK, AlwaysReconcilable, RestorePointsKept, Archived, Device, Intended, Reserved
<1>1. ASSUME NEW to \in Revs, Apply(to) PROVE (TxnOK /\ OwnerOK /\ AlwaysReconcilable /\ RestorePointsKept)'
  BY <1>0, <1>1 DEF Apply, Begin, Locked, Unowned
<1>2. ASSUME NEW to \in Revs, ApplyProvider(to) PROVE (TxnOK /\ OwnerOK /\ AlwaysReconcilable /\ RestorePointsKept)'
  BY <1>0, <1>2 DEF ApplyProvider, Begin, Locked, Unowned
<1>3. ASSUME NEW to \in Revs, Rollback(to) PROVE (TxnOK /\ OwnerOK /\ AlwaysReconcilable /\ RestorePointsKept)'
  BY <1>0, <1>3 DEF Rollback, Begin, Locked, Unowned
<1>4. ASSUME NEW to \in Revs, DeviceApply(to) PROVE (TxnOK /\ OwnerOK /\ AlwaysReconcilable /\ RestorePointsKept)'
  BY <1>0, <1>4 DEF DeviceApply, Begin, Locked, Unowned
<1>5. CASE RollbackProvider
  BY <1>0, <1>5 DEF RollbackProvider, Begin, Locked, Unowned
<1>6. CASE DeviceRollback
  BY <1>0, <1>6 DEF DeviceRollback, Begin, Locked, Unowned
<1>7. CASE Archive
  BY <1>0, <1>7 DEF Archive, AtStep, GoTo, ArchivedNext, Same
<1>8. CASE ArchiveWritten
  BY <1>0, <1>8 DEF ArchiveWritten, AtStep, GoTo, ArchivedNext
<1>9. CASE Intend
  BY <1>0, <1>9 DEF Intend, AtStep, GoTo, SavedBefore
<1>10. CASE Replace
  BY <1>0, <1>10 DEF Replace, AtStep, GoTo
<1>11. CASE Record
  <2>1. txn # None /\ txn.at = "record" /\ txn' = None
        /\ UNCHANGED <<config, history, host>>
    BY <1>11 DEF Record, AtStep
  <2>2. CASE txn.op = "provider"
    <3>1. undo' = [from |-> txn.from, to |-> txn.to] /\ intent' = intent
      BY <1>11, <2>2 DEF Record, Device
    <3> QED
      BY <1>0, <2>1, <2>2, <3>1
  <2>3. CASE txn.op = "undo"
    <3>1. undo' = None /\ intent' = intent
      BY <1>11, <2>3 DEF Record, Device
    <3> QED
      BY <1>0, <2>1, <2>3, <3>1
  <2>4. CASE Device
    <3>1. undo' = undo /\ intent' = Decided
      BY <1>11, <2>4 DEF Record, Device
    <3>2. intent \in Intents
      BY <2>1, <2>4 DEF TxnOK, Intended
    <3> QED
      BY <1>0, <2>1, <2>4, <3>1, <3>2, DecidedIntent
  <2> QED
    BY <2>1, <2>2, <2>3, <2>4 DEF TxnOK, Device
<1>12. CASE LetGo
  BY <1>0, <1>12 DEF LetGo
<1>13. CASE Reconcile
  BY <1>0, <1>13, DecidedIntent DEF Reconcile, Locked
<1>14. CASE Reserve
  BY <1>0, <1>14 DEF Reserve, HostMayPublish, Locked
<1>15. CASE Release
  BY <1>0, <1>15 DEF Release, HostMayPublish, Locked
<1> QED
  BY <1>0, <1>1, <1>2, <1>3, <1>4, <1>5, <1>6, <1>7, <1>8, <1>9, <1>10, <1>11, <1>12, <1>13, <1>14, <1>15 DEF Write

LEMMA StartupType ==
    ASSUME TypeOK, Startup, stable' \in SUBSET Revs
    PROVE  TypeOK'
  BY DEF TypeOK, Startup, StartUp, ReadSnapshot, Recheck, CheckStartup, NotStarting, files

LEMMA StableType ==
    ASSUME TypeOK, config' \in Revs, Observe
    PROVE  stable' \in SUBSET Revs
  BY DEF TypeOK, Observe, Stable

LEMMA WriteConfig == ASSUME TypeOK, Write PROVE config' \in Revs
<1> USE NoneAssumption DEF TypeOK, Transactions, files
<1>1. ASSUME NEW to \in Revs, Apply(to) \/ ApplyProvider(to) \/ Rollback(to) \/ DeviceApply(to)
      PROVE  config' \in Revs
  BY <1>1 DEF Apply, ApplyProvider, Rollback, DeviceApply, Begin
<1>2. CASE RollbackProvider \/ DeviceRollback \/ LetGo
  BY <1>2 DEF RollbackProvider, DeviceRollback, Begin, LetGo
<1>3. CASE Archive \/ ArchiveWritten \/ Intend \/ Record \/ Reconcile \/ Reserve \/ Release
  BY <1>3 DEF Archive, ArchiveWritten, Intend, Record, Reconcile, Reserve, Release
<1>4. CASE Replace
  BY <1>4 DEF Replace, AtStep
<1> QED
  BY <1>1, <1>2, <1>3, <1>4 DEF Write

\* What a step of a writer does to the decided configuration.
LEMMA WriteStable ==
    ASSUME FInv, FInv', Write
    PROVE  \/ ~Intended /\ ~Intended'
           \/ ~Intended /\ Intended' /\ config' = config /\ intent'.before = config
           \/ Intended /\ ~Intended' /\ config' = config
           \/ Intended /\ Intended' /\ intent' = intent /\ config' \in {config, intent.after}
<1> USE NoneAssumption DEF FInv, TypeOK, Transactions, files
<1>1. ASSUME NEW to \in Revs, Apply(to) \/ ApplyProvider(to) \/ Rollback(to) \/ DeviceApply(to)
      PROVE  config' = config /\ intent' = intent
  BY <1>1 DEF Apply, ApplyProvider, Rollback, DeviceApply, Begin
<1>2. CASE RollbackProvider \/ DeviceRollback \/ LetGo
  BY <1>2 DEF RollbackProvider, DeviceRollback, Begin, LetGo, Intended, AlwaysReconcilable
<1>3. CASE Archive \/ ArchiveWritten \/ Reserve \/ Release
  BY <1>3 DEF Archive, ArchiveWritten, Reserve, Release, Intended, AlwaysReconcilable
<1>4. CASE Intend
  BY <1>4 DEF Intend, AtStep, TxnOK, Device, Intended
<1>5. CASE Replace
  BY <1>5 DEF Replace, AtStep, TxnOK, Intended, Device
<1>6. CASE Record
  <2>1. txn # None /\ txn.at = "record" /\ config' = config
    BY <1>6 DEF Record, AtStep
  <2>2. CASE ~Device
    <3>1. intent' = intent
      BY <1>6, <2>1, <2>2 DEF Record, TxnOK, Device, Ops
    <3>2. ~Intended
      BY <2>1, <2>2 DEF TxnOK
    <3> QED
      BY <3>1, <3>2 DEF Intended
  <2>3. CASE Device
    <3>1. intent \in Intents /\ Intended
      BY <2>1, <2>3 DEF TxnOK, Intended
    <3>2. intent' = Decided
      BY <1>6, <2>1, <2>3 DEF Record, Device
    <3>3. ~Intended'
      BY <3>1, <3>2, DecidedIntent DEF Intended
    <3> QED
      BY <2>1, <3>1, <3>3
  <2> QED
    BY <2>2, <2>3
<1>7. CASE Reconcile
  <2>1. Intended /\ intent \in Intents /\ config' = config
    BY <1>7 DEF Reconcile, Intended
  <2>2. CASE intent' = Decided
    BY <2>1, <2>2, DecidedIntent DEF Intended
  <2>3. CASE intent' # Decided
    <3>1. intent'.state \in {"abandoned", "saved"}
      BY <1>7, <2>1, <2>3 DEF Reconcile, Intents, Pair
    <3> QED
      BY <2>1, <3>1 DEF Intended
  <2> QED
    BY <2>2, <2>3
<1> QED
  BY <1>1, <1>2, <1>3, <1>4, <1>5, <1>6, <1>7 DEF Write, Intended, AlwaysReconcilable

LEMMA StartKept ==
    ASSUME FInv, FInv', StartOK, ((Write /\ start' = start) \/ Startup), Observe
    PROVE  StartOK'
<1> USE NoneAssumption DEF StartOK
<1>1. CASE Write /\ start' = start
  <2>1. CASE start.at \in {"none", "loaded"}
    BY <1>1, <2>1
  <2>2. CASE start.at \notin {"none", "loaded"}
    <3>1. stable' = stable \cup Stable'
      BY <1>1, <2>2 DEF Observe
    <3> QED
      BY <1>1, <2>2, <3>1, WriteStable DEF Stable, FInv, AlwaysReconcilable
  <2> QED
    BY <2>1, <2>2
<1>2. CASE Startup
  <2>1. UNCHANGED <<config, intent>> /\ (Intended <=> Intended')
    BY <1>2 DEF Startup, files, Intended
  <2>2. CASE StartUp
    BY <1>2, <2>1, <2>2 DEF StartUp, Undecided, Observe, Stable
  <2>3. CASE ReadSnapshot \/ Recheck \/ CheckStartup
    BY <2>1, <2>3 DEF ReadSnapshot, Recheck, CheckStartup, Undecided, NotStarting, Observe, Stable,
                      FInv, AlwaysReconcilable, TypeOK
  <2> QED
    BY <1>2, <2>2, <2>3 DEF Startup
<1> QED
  BY <1>1, <1>2

LEMMA Inductive == IInv /\ [Next]_vars => IInv'
<1> SUFFICES ASSUME IInv, [Next]_vars PROVE IInv'
  OBVIOUS
<1>0. FInv /\ StartOK
  BY DEF IInv, FInv
<1>1. CASE Write /\ UNCHANGED start /\ Observe
  <2>1. stable' \in SUBSET Revs
    BY <1>0, <1>1, WriteConfig, StableType DEF FInv
  <2>2. FInv'
    BY <1>0, <1>1, <2>1, WriteKeeps
  <2> QED
    BY <1>0, <1>1, <2>2, StartKept DEF IInv, FInv
<1>2. CASE Startup /\ Observe
  <2>1. UNCHANGED <<files, txn>>
    BY <1>2 DEF Startup
  <2>2. TypeOK'
    BY <1>0, <1>2, <2>1, StableType, StartupType DEF FInv, TypeOK, files
  <2>3. FInv'
    BY <1>0, <2>1, <2>2 DEF FInv, TxnOK, OwnerOK, AlwaysReconcilable, RestorePointsKept,
                            files, Archived, Device, Intended, Reserved
  <2> QED
    BY <1>0, <1>2, <2>3, StartKept DEF IInv, FInv
<1>3. CASE UNCHANGED vars
  BY <1>0, <1>3 DEF IInv, FInv, TypeOK, TxnOK, OwnerOK, AlwaysReconcilable,
                    RestorePointsKept, StartOK, vars, files, starting, Archived,
                    Device, Intended, Reserved
<1> QED
  BY <1>1, <1>2, <1>3 DEF Next

THEOREM Invariance == Spec => []IInv
  BY Initially, Inductive, PTL DEF Spec

\* The files, the lock and the startup always have their types.
THEOREM TypeCorrect == Spec => []TypeOK
  BY Invariance, PTL DEF IInv

\* Whatever a crash leaves of a device change, reconcile accepts it.
THEOREM AlwaysReconcilableHolds == Spec => []AlwaysReconcilable
  BY Invariance, PTL DEF IInv

\* The archive a restore would read is there whenever the restore is on offer.
THEOREM RestorePointsKeptHolds == Spec => []RestorePointsKept
  BY Invariance, PTL DEF IInv

\* A process starts on a revision that was decided at some time of its startup.
THEOREM StartupReadsStableHolds == Spec => StartupReadsStable
<1>1. IInv => (start'.at = "loaded" /\ start.at = "host" => start.revision \in stable)
  BY DEF IInv, StartOK
<1> QED
  BY <1>1, Invariance, PTL DEF StartupReadsStable

-------------------------------------------------------------------------------
\* An undecided change has an owner, and nothing else has one.
LEMMA OwnerIsNone ==
    ASSUME TypeOK
    PROVE  Owner = None <=> ~Intended /\ ~Reserved
  BY NoneAssumption DEF Owner, TypeOK, Owners, Intents, Hosts, Intended, Reserved

LEMMA InitRefines == Init => Owned!Init
  BY DEF Init, Owned!Init, Owner, Offer, Intended, Reserved, SavedBefore

\* A step that touches neither the configuration, the intent nor the activation.
LEMMA Quiet ==
    ASSUME UNCHANGED <<config, intent, host>>
    PROVE  UNCHANGED Owned!vars
  BY DEF Owned!vars, Owner, Offer, SavedBefore, Intended, Reserved

LEMMA WriteRefines ==
    ASSUME FInv, FInv', Write
    PROVE  Owned!Next \/ UNCHANGED Owned!vars
<1> USE NoneAssumption DEF FInv
<1>1. CASE \/ \E to \in Revs : Apply(to) \/ ApplyProvider(to) \/ Rollback(to) \/ DeviceApply(to)
           \/ RollbackProvider \/ DeviceRollback \/ Archive \/ ArchiveWritten \/ LetGo
  <2>1. UNCHANGED <<config, intent, host>>
    BY <1>1 DEF Apply, ApplyProvider, Rollback, DeviceApply, RollbackProvider,
                DeviceRollback, Begin, Archive, ArchiveWritten, LetGo, files
  <2> QED
    BY <2>1, Quiet
\* The intent is the moment a device change takes the configuration.
<1>2. CASE Intend
  <2>1. /\ txn \in Transactions /\ Device /\ config = txn.from /\ txn.to # config
        /\ ~Intended /\ ~Reserved
    BY <1>2 DEF Intend, AtStep, TxnOK, TypeOK, Device
  <2>2. /\ intent' = [before |-> txn.from, after |-> txn.to, by |-> txn.op,
                      state |-> "prepared", previous |-> SavedBefore]
        /\ UNCHANGED <<config, host>>
    BY <1>2 DEF Intend
  <2>3. /\ Owner = None /\ Owner' = [by |-> txn.op, before |-> config, after |-> txn.to]
        /\ Offer' = Offer
    <3>1. txn' \in Transactions /\ txn'.at = "replace" /\ txn'.op = txn.op
      BY <1>2, <2>1 DEF Intend, GoTo, Transactions, Steps
    <3>2. Intended'
      BY <2>1, <3>1 DEF TxnOK, Device
    <3> QED
      BY <2>1, <2>2, <3>2 DEF Owner, Offer, Intended, Reserved
  <2>4. txn.op = "return" => Offer # None /\ Offer.after = config
    BY <1>2, <2>1 DEF Intend, AtStep, TxnOK, Offer, SavedBefore, Intents, Pair, TypeOK
  <2>5. Owned!Take
    BY <2>1, <2>2, <2>3, <2>4 DEF Owned!Take, Owned!Owned, Transactions, Device
  <2> QED
    BY <2>5 DEF Owned!Next
\* The replacement is the owner's, or finds no owner.
<1>3. CASE Replace
  <2>1. /\ txn \in Transactions /\ txn.at = "replace" /\ config = txn.from
        /\ config' = txn.to /\ UNCHANGED <<intent, host>> /\ ~Reserved
    BY <1>3 DEF Replace, AtStep, TxnOK, TypeOK
  <2>2. Owner' = Owner /\ Offer' = Offer
    BY <2>1 DEF Owner, Offer, SavedBefore, Intended, Reserved
  <2>3. CASE Device
    <3>1. Intended /\ intent.before = config /\ intent.after = config'
      BY <2>1, <2>3 DEF TxnOK
    <3>2. Owner # None /\ Owner.before = config /\ Owner.after = config'
      BY <3>1, OwnerIsNone DEF Owner
    <3> QED
      BY <2>1, <2>2, <3>2 DEF Owned!Next, Owned!Move
  <2>4. CASE ~Device
    <3>1. Owner = None
      BY <2>1, <2>4, OwnerIsNone DEF TxnOK
    <3> QED
      BY <2>1, <2>2, <3>1 DEF Owned!Next, Owned!Change, Transactions
  <2> QED
    BY <2>3, <2>4
\* The record of a device change settles it, and reconcile settles it later.
<1>4. ASSUME Intended, intent' = Decided, config = intent.after, UNCHANGED <<config, host>>
      PROVE  Owned!Settle
  <2>1. intent \in Intents /\ ~Reserved /\ intent.before # intent.after
    BY <1>4 DEF TypeOK, OwnerOK, Intended, AlwaysReconcilable
  <2>2. /\ intent'.before = intent.before /\ intent'.after = intent.after
        /\ intent'.state = IF intent.by = "return" THEN "rolled_back" ELSE "saved"
        /\ intent' # None
    BY <1>4, <2>1, DecidedIntent
  <2>3. Owner' = None
    BY <1>4, <2>1, <2>2 DEF Owner, Intended, Reserved
  <2>4. Offer' = IF intent.by = "return" THEN None
                 ELSE [before |-> intent.before, after |-> intent.after]
    BY <2>2 DEF Offer, Intended, SavedBefore
  <2>5. /\ Owner # None /\ Owner.by = intent.by /\ intent.by # "host"
        /\ Owner.before = intent.before /\ Owner.after = intent.after
    BY <1>4, <2>1, OwnerIsNone DEF Owner, Intents
  <2> QED
    BY <1>4, <2>1, <2>3, <2>4, <2>5 DEF Owned!Settle
<1>5. CASE Record
  <2>1. txn # None /\ txn.at = "record" /\ UNCHANGED <<config, host>>
    BY <1>5 DEF Record, AtStep
  <2>2. CASE Device
    <3>1. Intended /\ intent' = Decided /\ config = intent.after
      BY <1>5, <2>1, <2>2 DEF Record, TxnOK, Device
    <3> QED
      BY <1>4, <2>1, <3>1 DEF Owned!Next
  <2>3. CASE ~Device
    <3>1. intent' = intent
      BY <1>5, <2>1, <2>3 DEF Record, TxnOK, TypeOK, Transactions, Device, Ops
    <3> QED
      BY <2>1, <3>1, Quiet
  <2> QED
    BY <2>2, <2>3
<1>6. CASE Reconcile
  <2>1. Intended /\ intent \in Intents /\ ~Reserved /\ UNCHANGED <<config, host>>
    BY <1>6 DEF Reconcile, TypeOK, Intended
  <2>2. CASE config = intent.after /\ intent' = Decided
    BY <1>4, <2>1, <2>2 DEF Owned!Next
  <2>3. CASE ~(config = intent.after /\ intent' = Decided)
    <3>1. config = intent.before
      BY <1>6, <2>3 DEF Reconcile
    <3>2. intent' # None /\ intent'.state \in {"abandoned", "saved"}
      BY <1>6, <2>1, <2>3 DEF Reconcile, Intents, Pair, FInv, TypeOK
    <3>3. Offer' = intent.previous
      BY <1>6, <2>1, <2>3 DEF Reconcile, Offer, Intended, SavedBefore, Intents, Pair
    <3>4. Owner # None /\ Owner.before = config /\ Owner' = None /\ Offer' = Offer
      BY <2>1, <3>1, <3>2, <3>3, OwnerIsNone DEF Owner, Offer, Intended, Reserved
    <3>5. Owned!Settle
      BY <2>1, <3>4 DEF Owned!Settle
    <3> QED
      BY <3>5 DEF Owned!Next
  <2> QED
    BY <2>2, <2>3
<1>7. CASE Reserve
  <2>1. /\ Owner = None /\ Owner' = [by |-> "host", before |-> config, after |-> config]
        /\ UNCHANGED config /\ Offer' = Offer
    BY <1>7, OwnerIsNone DEF Reserve, HostMayPublish, Owner, Offer, SavedBefore, Intended,
                             Reserved, TypeOK, Hosts
  <2> QED
    BY <2>1 DEF Owned!Next, Owned!Reserve, Owned!Owned
<1>8. CASE Release
  <2>1. /\ ~Intended /\ Reserved /\ host \in Hosts /\ host.revision = config
        /\ UNCHANGED <<config, intent>> /\ host' = [host EXCEPT !.phase = "settled"]
    BY <1>8 DEF Release, HostMayPublish, OwnerOK, TypeOK, Reserved
  <2>2. /\ Owner # None /\ Owner.by = "host" /\ Owner.before = config
        /\ Owner' = None /\ Offer' = Offer
    BY <2>1, OwnerIsNone DEF Owner, Offer, SavedBefore, Intended, Reserved, Hosts
  <2> QED
    BY <2>1, <2>2 DEF Owned!Next, Owned!Settle
<1> QED
  BY <1>1, <1>2, <1>3, <1>5, <1>6, <1>7, <1>8 DEF Write

\* The writers implement one value with one owner at a time.
THEOREM Implementation == Spec => ImplementsOwnedChange
<1>1. IInv /\ IInv' /\ [Next]_vars => [Owned!Next]_(Owned!vars)
  <2> SUFFICES ASSUME IInv, IInv', [Next]_vars PROVE [Owned!Next]_(Owned!vars)
    OBVIOUS
  <2>1. FInv /\ FInv'
    BY DEF IInv, FInv
  <2>2. CASE Write
    BY <2>1, <2>2, WriteRefines
  <2>3. CASE Startup \/ UNCHANGED vars
    BY <2>3, Quiet DEF Startup, vars, files
  <2> QED
    BY <2>2, <2>3 DEF Next
<1> QED
  BY <1>1, InitRefines, Invariance, PTL DEF Spec, ImplementsOwnedChange, Owned!Spec
===============================================================================

# A TLA+ model of the UniFi AI Key emulator

This directory specifies the parts of the emulator whose correctness depends on
the order of things: admission and execution of camera jobs, what is paid for
and delivered at most once, the exclusion of model work while a model server
is restarted, the cameras that share one detector and the events they report,
the saved configuration under its several writers, and the replacement of a
running container by a new one of the same identity.  Paths such as `worker.py`
mean `src/src/aikey/worker.py`.

`tlc -config X.cfg M` checks a model, `tlapm M_proofs.tla` a proof module.
`PROJECT.json` lists the runs, the mutants that show each property notices a
plausible bug, the source lines of every definition, the hazards and the
theorems.

## 1. Inventory

The program is 181 Python modules in four groups.

**The AI Key process** (`runtime.py`) is one asyncio event loop.

| Component | State | Operations | What makes it correct |
|---|---|---|---|
| `device.py` | controller link, adoption state | connect, adopt, dispatch commands | commands reach the worker once; a lost link is re-established |
| `worker.py` JobProcessor | `worker-jobs/*.json`, `worker-archive/`, queue, caption lane, `_pending`, `_history`, leases | admit, queue, execute, call back, record, archive, drain, stop, load | no identity runs twice with an unknown outcome, one input per identity, one callback, one paid call, bounded ledger and queue, every accepted job ends |
| `caption_budget.py` | `caption-budget.json` and its lock file | reserve, snapshot | rolling limit, replay window, fair share, whatever happens to process and clock |
| `_PriorityGate` | slots, heap of waiters | acquire, release | no lost or idle slot, order of service |
| `model_work_fence.py` | one inode, kernel locks on it | open, acquire, try_exclusive, begin, finish, close | no model work beside an unresolved restart |
| `camera_registry.py` | cached inventory with expiry | refresh, allows | stale inventory admits nothing |
| `search.py`, `clip.py`, `faces.py`, `speech.py` | pinned profiles, face store | answer queries | profile and vectors agree |
| `database.py` | pending and current credential files | rotate | one stored credential always logs in |

**The AI Port process** ingests up to five camera streams and shares one
detector between them.  It takes the same model-work fence.  A frame, a result
and a policy may each be out of date when they meet.

| Component | State | Operations | What makes it correct |
|---|---|---|---|
| `aiport_inference.py` FairInference | frames per camera, attempts, confirmation and rotation, worker task, thread, lease, `_closed` | observe, discard_pending, skip_confirmation, run, close | no call after close, close waits for what it cannot cancel, no camera monopolizes the worker, every frame gets a turn or a reason |
| `aiport_camera_engine.py`, `aiport_tracking.py` | policy and generation, announced tracks | replace_policy, observe | results of a replaced policy change nothing |
| `aiport_candidate.py` | link, streams, pool sessions, ongoing event | publish, settings, stream commands, disconnect, stop | every announced track is in the camera's event; stop and a policy change close it, where a leave can be sent |
| `aiport_event_budget.py` | charged enters, high water mark | enter, leave | rolling limits, no enter without a charge |

**The control site** (`control_site.py`, `admin_*.py`) edits configuration.
Each store is a file protocol that must survive a crash between any two writes
and an edit by somebody else.

| Component | State | Operations | What makes it correct |
|---|---|---|---|
| `config_store.py` | configuration, `.aikey-config-history`, `provider-change.json`, lock | apply, apply_provider, rollback, undo | one writer at a time, a restore point before every change |
| `device_workflow.py`, `device_workflow_fence.py` | the intent of a device change | apply, rollback, reconcile | an undecided change can be decided later, and nobody changes the configuration meanwhile |
| `host_activation.py` | the reservation of a revision | publish, check_writable, check_startup | a reviewed configuration stays what it was while a host acts on it |
| `config.py` startup read | - | read without the lock, recheck | a process starts on a decided revision |
| `admin_maintenance.py` | requests, ledger, receipts | work_once | a runbook that was started never runs again |

**Host tooling** replaces and restarts containers, restarts the model server
(`src/src/tools/model_work_watchdog.py`), migrates the index
(`index_rebuild.py`) and resolves uncertain jobs (`uncertain_resolution.py`).
Here an acknowledgement may be lost and an effect may arrive late.

| Component | State | Operations | What makes it correct |
|---|---|---|---|
| `apple_upgrade.py`, `apple_upgrade_recovery.py`, `apple_upgrade_state.py` | `upgrade.json`, receipts of commands | swap, recover | the two containers of one identity never run together; a decided upgrade has nothing outstanding |
| `apple_supervisor.py` | `services.json`, `runtime.json` | tick, hold, pin, release | restarts what it is pinned to and nothing else |
| `host_runtime_command.py` | guardian of a command, writer lock | spawn, collect, receipt | one command at a time, known outcome or none |
| `aiport_rollout.py`, `*_reconcile.py` | rollout transaction, receipts | apply, compensate, reconcile | every file of a rollout is one side or the other |

How they interact: the device link calls `JobProcessor.submit`; the worker
reserves in the caption budget, which it shares with other worker processes of
the same state directory; worker, AI Port and face enrolment take the fence the
watchdog writes; `_infer` takes the gate; resolution rewrites the worker's
journal while the worker is stopped; the supervisor restarts what an upgrade
has stopped; every configuration store refuses while a device or host intent is
pending; an upgrade reserves the profile's configuration before it touches a
container and settles it after; the pool's worker calls back into the publisher
of events, which the control link's handlers run beside.

What is hard: admission awaits the fence between two checks; a callback's or a
model's answer may be lost; a journal write may fail before or after it took
effect; a process may be killed between any two writes; the wall clock may be
set back; a waiter may be cancelled after it was served; captions wait in a
lane of their own outside the queue; a model's thread cannot be cancelled and
outlives the task that awaits it; a batch of events is suspended between two of
its changes, or waits for the one send lock, while the policy goes; a container
daemon may carry out a request after its command was killed.  `hazards` in `PROJECT.json` lists these
at their lines.

## 2. Modules

| Module | Models | Composes |
|---|---|---|
| `CaptionPermits` | what the budget promises: a history of charges | - |
| `CaptionBudget` | `caption_budget.py`: lock, decision, prune, atomic write | refines `CaptionPermits` |
| `ModelWorkFence` | `model_work_fence.py` with its consumers and the watchdog | consumers, writers, kernel locks |
| `PriorityGate` | `_PriorityGate` and the tasks that wait in it | - |
| `FairInference` | `aiport_inference.py` with the device and whoever closes it | worker task, model thread, closer |
| `PortEvents` | one pool camera's tracks, event and link | engine, publisher, control task, stop |
| `OwnedChange` | what the saved configuration promises its writers | - |
| `SavedConfig` | the stores, the device workflow, the host activation, a startup | refines `OwnedChange` |
| `AppleUpgrade` | upgrade, recovery, supervisor, guardian and daemon | containers, journal, registry, profile |
| `Worker` | `JobProcessor` with its disk, and the fence and budget as it sees them | admission, consumers, process, environment |
| `MC*` | finite instances for TLC | |
| `*_proofs` | inductive invariants and theorems | |

### CaptionBudget

`file` is `caption-budget.json`, `holder` the exclusive lock, `plan[p]` what
process `p` has decided and is about to write.  A call is two steps: decide
under the lock (`ReserveExhausted`, `ReserveNew`) and write (`WriteDurable`,
`WriteLost`), so a process may be lost in between and the write may take effect
without being acknowledged.  Calls that end before the write (known job, clock
behind the high water mark, deferred, no room) change nothing and are no step.
`SetClock` sets the clock to anything.  A reservation's fingerprint is left
out: it only distinguishes two refusals.  `charged` is a history variable: the refinement
maps it to the whole history of the abstract specification, in which nothing is
pruned and nothing is locked.

### ModelWorkFence

`content[i]` is the record in inode `i`: `Idle`, `Torn` (between truncation and
write) or a maintenance transaction.  `lease[w]` and `target[m]` stand for the
kernel's shared and exclusive locks: a lock belongs to an open descriptor, so a
lost process loses its locks and nothing else.  `link[c]` is the marker path of
a consumer, `bound[c]` the inode its fence was opened on.  Writing a record is
two steps.  `CloseWriter` is both `close` in the watchdog's `finally` and its
death, at any phase.

### PriorityGate

A waiter's task goes through `queued`, `granted`, `holding`; a cancellation may
meet it queued (`cancelled`: its entry stays in the heap, dead) or granted
(`dropped`: it must release what it never used).  One event loop: every action
is what runs between two awaits.

### FairInference

`worker.at` is the await the task is suspended in; every action is what runs
between two awaits.  `Turn` is the head of `_run` with `_next_camera`;
`Acquire`, `ThreadEnds`, `Loaded` and `Detected` are `_call_in_thread`, its
thread with the done callback that returns the lease, and the worker's
resumption after the load or the request; `Delivered` and `Notified` follow
`on_result` and `on_unavailable`.  `Observe`, `DiscardPending` and
`SkipConfirmation` are the device's calls, enabled at any time.  `Close`,
`CloseThread` and `CloseWorker` are `close` around its two awaits, and its
caller may be cancelled in either and call again (`CloserCancelled`).
`pending` counts a camera's frames (the first, and in a preserving policy the
newest behind it); `turns` stops counting at two, which is all the code reads;
`passed` is a history variable.  Detectors are external: a call returns
objects, none, or fails.

### PortEvents

`engine` is the policy, the announced tracks and the generation (`frame` is
`fresh` or `stale`); `pub[p]` is the rest of the batch the model worker or the
control task is publishing, with what `_publish_pool_candidates` read at its
start (the socket, the streams); `session` is the camera's entry of
`_pool_sessions` and `kept` the same object in the hands of a suspended worker
after the dictionary let it go; `event` is what the link has told Protect.  A
batch may be suspended at a snapshot, before a message or in its send, and
nowhere else; actions with `Settled` run only when nobody is between two awaits.

A candidate changes the session at once (`PublishEnter`, `PublishMoving`,
`PublishLeave`) and leaves its message in `say`; the message waits for
`_send_lock` behind those in `ahead` (`Say`) and is written when it gets it
(`Granted`, `Write`).  `Refused` is `camera_event_payload`'s limit of objects:
such a candidate is skipped after it changed the session, and a refused last
leave does not pop it.  `stop` cancels the worker wherever it is suspended
(`WorkerStopped`), pops the session and sends its leave (`CloseOpenEvents`,
`LeaveSent`), unless the leave is refused or an error or `_STOP_CLOSE_SECONDS`
ends the close (`CutShort`).  `event.unsent` is a history field: the leave that
would have closed the event was refused, or lost with the cancelled worker.

Abstracted: one pool camera (cameras share only the send lock, which may be busy
for any time); a result makes any tracks enter, move and leave; zones and classes are left out, and so is what
the event budget refuses.  The follow-up of held packages is in its default
mode, which announces nothing.  Two suspensions before a batch begins (the
motion edges awaited before a revocation, the infrared check of a held package)
are left out: they only delay what the model may delay anyway.

### OwnedChange and SavedConfig

`SavedConfig` has one lock holder `txn` and its next step.  `Apply`,
`ApplyProvider`, `Rollback`, `RollbackProvider` are `config_store.py`,
`DeviceApply`, `DeviceRollback`, `Reconcile` are `device_workflow.py`, `Reserve`
and `Release` are `host_activation.publish`; they go through `Archive`,
`ArchiveWritten`, `Intend`, `Replace` and `Record`.  `LetGo` is a crash or a
failed write at any of these steps.  The startup read runs without the lock
(`StartUp`, `ReadSnapshot`, `Recheck`, `CheckStartup`).

A revision is the digest of the content, so a configuration that returns is the
same revision.  `Guarded` is what a rollback makes of an old configuration when
it keeps the face model space.  A crash while the archive is written leaves it
partial, and a partial archive refuses every later change from that revision,
as in the code.  A failed provider record is passed over.  The device workflow
takes the store's own lock.  The abstract
`OwnedChange` has no files: a value, at most one owner that announced what it
will do, and the change that may be taken back.

### AppleUpgrade

`vm` are the two containers, `late` the requests of an upgrade that a daemon may
still carry out though their command is gone, `stray` the containers that a
killed start of the supervisor may still start (no journal knows of those; there
may be several), `cli` the command under its guardian, `actor` the
swap, recovery or tick that holds the writer lock.  `phase`, `call`, `attempts`
are `upgrade.json` and the receipts beside it: `call` is `requested` without a
receipt, `done`, `bad` or `unspawned` with one, `acked` once the journal has the
answer.  `Request`, `Acknowledge`, `StopFailed`, `ReadyNew`, `NotReady`, `Pin`,
`Settle`, `Finish` are the steps of `swap` and `recover`; `Tick` is the
supervisor, `Operate` the operator's hold and release, `Edit` a change of the
profile's configuration by anybody.  `Dies` kills an actor (its guardian
goes on), `Reboot` the host, `Exit` a container.

Abstracted: plans, probes and address checks succeed or fail at will; all
phases that are not terminal are one; a nonzero exit of a command leaves the
upgrade pending by design.  The supervisor counts a start before it makes it but
saves the count after: a tick that dies in between has made an uncounted one,
which `HourPasses` covers.  `strayed` is a history variable: since the host's last
start a stray start has arrived while an upgrade was pending or the other
container was there.

### Worker

Disk: `journal`, `archive`, `permit`, `reserved`.  Memory: `history`, `pend`,
`queue`, `lane`, `cons`, `inflight`, `leased`.  A job in the queue, the lane or
a consumer carries the input it was admitted with, as `_Job` does.

| Action | Code |
|---|---|
| `Request`, `Dismiss` | `_admit` up to the wait for the fence, and its refusals |
| `Admit`, `AdmitRefused`, `AdmitWedged` | `_admit_current` after the wait: second check, rollover, ledger, queue, permit, reservation, enqueue |
| `Take`, `LaneTake` | `_consume`, `_run_caption_lane` |
| `Start`, `Infer`, `Fail` | `_run_job` and `_execute` |
| `BeginCallback`, `Post`, `PostAccepted`, `PostUncertain`, `CompleteLocally` | `_post_callback` and the final record |
| `HandleUnsafe`, `HandleFailed`, `HandleOnDemand` | `_run_job`'s exception handler |
| `Boot`, `Drain`, `Stop`, `Crash`, `CrashInArchive` | `__init__`, `drain`, `stop`, a kill |
| `Age`, `ExpireReservation`, `Maintain` | clock, caption budget and watchdog as the worker sees them |

Every `_record` has two outcomes: `Recorded`, and `RecordRaised`, where memory
is unchanged and the file shows the record or does not.  A record is its
fingerprint, its state and its date; the date is the number of the admission
that wrote it, which is all a comparison with a tombstone can tell.  The clock
is the set `old` of jobs whose terminal record has passed its rollover age.

Abstracted: the eleven `_execute` variants are one model request followed by at
most one callback; `deep` stands for `sessionDescribe`, the other `deep`
operation (`reidEmbed`) differs only in its rank and in not using the lane;
requests waiting at the fence with the same identity and input are one; the
fence itself is the Boolean `maintenance` (its own model is `ModelWorkFence`);
several `test_scopes` are one permit; a crash is the death of the process, not
a power loss that reverts an acknowledged write.

## 3. Runs

| Run | Instance | Distinct states |
|---|---|---|
| `caption_budget` | 2 processes, 5 jobs, 2 cameras, hour 2, retention 4, limit 2, clock 1..6 | 22,728 |
| `model_work_fence` | 2 consumers, 3 works, 2 writers, 2 inodes, 2 transactions | 36,720 |
| `priority_gate` | 4 tasks, 2 priorities, 2 slots, 3 heap entries per priority | 6,443 |
| `worker_identity` | a deep task and a summary, 2 inputs, 1 failed write; metered, one-use; queue of 1, ledger of 2 | 2,122,964 |
| `worker_lane` | 2 consumers, 2 captions, an index job; lane 1, queue 2, ledger 2; unmetered, one-use, disabled; 1 failed write | 295,706 |
| `worker_rollover` | a deep task and a caption, no failed write | violation |
| `fair_inference` | 3 cameras; preserving or not, and preserving with a quota of 2 | 49,018 |
| `port_events` | 3 tracks, messages of 2 objects | 2,590,077 |
| `port_events_stale` | 3 tracks, messages of 3 objects | violation |
| `saved_config` | 3 revisions, one of them guarded | 1,519,456 |
| `apple_upgrade` | 2 upgrades, 2 recoveries each, 1 start per hour | 235,054 |
| `apple_upgrade_receipts` | the same with the code's 3 recoveries | violation |

Why the bounds are enough.  `caption_budget`: the clock covers a whole replay
window and its expiry, two hours fit into a window, both cameras compete for
the held permit, and `RoomAssumption` holds as 24 * 12 < 300 does in the
code.  `model_work_fence`: work queues behind work of its
own and of another consumer, a second writer follows a lost one, a marker is
re-linked under accepted work.  `priority_gate`: two tasks wait at once, at one
level or at two, behind dead entries.  The worker's named bounds are
`MaxInflight` (requests waiting at the fence), `MaxAttempts` (admissions of one
identity) and `MaxFaults` (failed journal writes).  Two admissions of one
identity are what every replay, retry and conflict needs; two waiting requests
are what a stale check needs; one failed write meets every later step.  Calls
stop at `MaxAttempts`, crashes and restarts do not.  Without a meter an identity
does nothing that it does not do with one and room; `worker_lane` has it for the
lane.  `fair_inference`: three
cameras are one ahead and one behind in the rotation; the turn bound is proved
for every number.  `port_events`: a batch of two changes has an await inside
it; an event has an object to open it, one to join it and, when the first has
left, one that makes what it has seen too much for its leave.  A tracker has as
many tracks at once as a message carries objects, as in the code (32).  `saved_config`: a
change, the one after it and the one before.  `apple_upgrade`: the second
upgrade begins where a recovery of the first ended; two recoveries follow each
other.  It stops at two because at the code's three the finding that
`apple_upgrade_receipts` shows breaks `OneIdentity`, and the other two with it;
section 4 says under which condition they hold for any number.

`worker_lane` fills lane and ledger, has a queue that holds two ranks at once,
and disables callbacks: it asks about scheduling and limits, not delivery.
`worker_identity` has the queue at its limit, beside a job in the lane.
`fair_inference` does not check deadlock, because a closed pool stops; the
other runs do.

What the runs show, beside what their names say:

- `NoReplayUndecided`: a model request whose outcome is on no disk is never
  repeated, over crashes and retries.  It needs the second check of
  `_admit_current` and the refusal of `execution_started` records together.
- `OutcomeTellsCallback`: "failed" on disk means the controller got nothing,
  which is what makes the retry of deep tasks safe; `CallbackAtMostOnce`
  follows over all admissions, the player's error answer included.
- `RolloverNeverStuck`: in continuous mode only a deep task can wedge the
  rollover.  `DueRecordsLeave` is the stronger claim of `rollover_due`'s
  comment and fails.
- `AcceptedJobEnds`: once no job of a better rank is admitted any more, an
  accepted job ends, or a journal write has failed; a consumer whose last record
  fails is gone, and jobs may wait behind it for ever.  The premise is for the
  code's rank queue, which has no ageing: an index job starves as long as better
  ranks keep arriving.  The model's admissions end at `MaxAttempts`, so the run
  does not show that; with admissions that go on, TLC finds the starved index job
  without the premise and nothing with it.
- `FrameAnswered`, `TurnBound`: a queued frame gets a turn or is dropped for a
  reason, and waits at most two turns of every other camera, the second looks
  of a confirmation included.
- `TracksReported`: interleaved batches, revocations and lost links lose no
  announced track of the session.
- `StopClosesEvents`: no batch, result or send of a cancelled worker reopens an
  event after stop's close, and a close that was not cut short leaves an event
  open only if its policy had been replaced (the finding below), if its leave was
  refused, or if the worker was cancelled while that leave waited to be sent.
  The run reaches all of these; they are listed below.
- `OneIdentity`: no request of an upgrade, whoever is killed, and no start the
  supervisor waits for runs the two containers together.  The exception is the
  supervisor's own start when it outlives its command (`strayed`).
- `ImplementsOwnedChange`: with crashes at every step, an undecided device
  change or a reserved host activation owns the configuration alone, and
  `reconcile` decides by what the file is.
- `ChangedUnderReview`: what an upgrade still does to the containers, it does
  under the configuration it was reviewed for, also where its actor died.

### The disagreements found

`worker_rollover`: a deep task (`sessionDescribe`, `reidEmbed`) fails, its
record is archived, Protect sends it again, `_existing_job` (worker.py:1921)
admits it although its tombstone exists, and it ends with a record whose date,
and perhaps state, is another.  `_archive_terminal` (worker.py:898-901) then
finds a tombstone that differs and raises "Worker archive outcome is uncertain;
no new work admitted": from the moment the record is due every new admission
fails, and so does the next start.  The comment of `rollover_due`
(worker.py:324-331) says completed records leave so that admission never stops.
A second path exists outside continuous mode: a failed job older than a week is
admitted by `_existing_job` and archived by `_rollover_history` in the same
call; its later record conflicts with the fresh tombstone.  A third is in either
mode: `_rollover_history` (worker.py:918-931) does not look at what is pending,
so the old record of a failed job may come due, and get its tombstone, while the
accepted retry waits.  `MCWorkerRollover.cfg` checks only the first.
`DueRecordsLeaveUnarchived` proves that there is no other: without failed writes
every due record leaves unless an accepted job has, or gets, a tombstone.

`port_events_stale`: `_publish_pool_candidates` suspends for a snapshot
(aiport_candidate.py:1500) with an entering track in its session.  A settings
change or a revocation meanwhile replaces the policy, publishes the leaves of
the tracks that were active and drops the session.  The suspended batch then
goes on without a second look at the generation it compared at 1407, and opens
an event of the replaced policy, which no leave of the new tracker closes.
There is a second path, which the proof found: the worker's
`_pool_camera_unavailable` reaches `_revoke_pool_policy`, which drops the
camera's session (1954), while the control task is suspended in the leaves of
its own revocation; the last leave is then skipped (1526) because its track is
in no session, and the event stays open.  A third
is a leave that is refused, of an event that has seen more objects than a message
carries.  `StaleResultsSilentAlone` proves that a stale event takes one of these.
`tests/test_aiport_candidate.py:1990` says "A changed policy makes results of
older frames stale."; so does aiport_camera_engine.py:416.

`apple_upgrade_receipts`: `_settled_commands` (apple_upgrade_recovery.py:46)
reads the receipts of every attempt under one requested action and keeps the
last it finds.  An attempt that never spawned its command leaves a no-spawn
receipt; a later attempt spawns it and is killed with its guardian before a
receipt is written; the third takes the first one's receipt for it and
reconciles with the request outstanding.  Its late start of the old container
meets the new container of the next upgrade.  The receipt of an attempt whose
command was carried out masks a later request for the same command likewise.
`OneIdentityHolds` proves that, stray starts of the supervisor apart, it takes a
request made over an older receipt, followed by a third recovery.  The function's docstring (line 33)
asks for "an exact positive terminal/no-spawn receipt" of a pending request,
and docs/apple-upgrade-recovery.md:55-56 says the same.

Observations without a run:

- An event at Protect stays open after stop in three ways.  A leave of more than
  32 seen objects is refused and skipped (aiport_candidate.py:1538, 3423).  The
  last leave pops the session (1547) before it waits for `_send_lock` (2733); a
  worker cancelled there has sent nothing, and stop finds no session.  The close
  runs under one timeout for all cameras and ends with any error (3435-3439),
  which its comment calls best effort; the docstring at 3406 says "Send a leave
  for each open native event before the link closes."
- `apple_supervisor.py:351` starts a container under a timeout and keeps no record
  of a start it killed.  The daemon may carry it out after the operator's swap, or
  a second one after the first, and both containers of one identity run; no
  recovery is needed for it.  docs/apple-upgrade-recovery.md:37-39 says that
  collecting a command is no proof that its request is gone, and the upgrade's
  own requests are journaled for it; the supervisor's are not.
- A provider record that could not be written, followed by a configuration that
  returns to an earlier revision, leaves an older record that matches again, so
  the undo on offer need not be of the last change, as the comment at
  config_store.py:1016-1018 has it.  `RestorePointsKept` says something else: what
  is offered can be restored.

### Fairness

`PriorityGate` assumes that the event loop resumes a task whose future is done
and that a request ends (`_infer` runs under the client's timeout and the job's
deadline).  `Worker` assumes weak fairness of each consumer task and nothing of
the controller or the operator: a consumer's step is always enabled
while it has a job, because media, model and callback end in success or in a
timeout.  Arrivals are no fairness but the premise of `AcceptedJobEnds`: those of
a better rank stop.  Liveness is claimed only without failed journal writes: a consumer
whose last record fails ends (see the hazards).  `FairInference` assumes weak
fairness of the worker's loop (its callbacks return), of the lease being
granted or failing (maintenance ends or the fence raises), and of the model's
thread (the providers have timeouts); nothing of the device and nothing of
whoever closes the pool.  `PortEvents`, `SavedConfig` and `AppleUpgrade` claim
safety only: nothing obliges an operator to reconcile or to recover.

## 4. Proofs

All are safety, for every value of the constants that satisfies the modules'
named assumptions.  Every safety property of the runs is stated by a theorem.
Five of them are false of the code by one of the findings, two in the instance
that shows it and three beyond the bound of their run.  Their theorems have
premises about the behaviour, never about the constants, that exclude the steps
the finding takes (and for `StaleResultsSilent` a refused leave); the run and the
theorem together say where the property ends.  Three properties carry such an
exception in themselves: `StopClosesEvents` (a leave refused or lost, a close cut
short), `OneIdentity` (a start of the supervisor that outlived its command) and
`AcceptedJobEnds`, which TLC alone checks.

- `CaptionBudget_proofs`.  The invariant relates the journal to the history:
  the file holds exactly the charges younger than the retention at its high
  water mark, charges are dated at most at that mark, and whoever is about to
  write holds the lock and has decided on the file as it still is.  Mutual
  exclusion is what makes the last part inductive.  From it each write is one
  abstract charge (`Implementation`), and the abstract specification's limit
  and replay window follow (`RollingLimitHolds`, `ReplayWindowHolds`): a window
  of the history either ends before the new charge, and was full of old ones,
  or is part of the window the decision counted.  `JournalReadableHolds` has an
  invariant of its own: the file, and every state somebody is about to write,
  is one `_read` accepts; it does not need the lock.  `HeadroomHeldHolds` adds
  that the last hour of the file, and of every state about to be written,
  `LeavesRoom` for the cameras not served in it: dropping charges keeps that
  (`LessLeavesRoom`), and a permit either serves a camera first or was given
  with the room counted (`PermitLeavesRoom`).  `JournalNeverFullHolds` makes
  the rolling limit inductive for windows that end at any integer
  (`EveryWindow`), covers a retention by hours (`HoursHold`, a least
  counterexample in place of an induction) and ends with `RoomAssumption`: some
  number of hours covers the retention and holds fewer charges than the journal
  has records for.
- `ModelWorkFence_proofs`.  The invariant says who may hold what: shared locks
  only on idle inodes without a writer, at most one writer per inode, and what
  each phase knows of its inode's content.  All four properties of the run
  follow.
- `Worker_proofs`.  Its first part, the invariant `IInv`, adds to the types: a
  busy consumer has a job; a consumer that is past `Start` has a record in
  memory and on disk; every accepted job holds a lease, and none is held while
  maintenance owns the fence; and every job that called the model has left a
  record or a tombstone.  It proves `ExecutedHasGuard`, `WaitingWithinQueue`
  and `MaintenanceExcludesWork`.  The second part is about one identity.
  `Identity` says that a pending job is in one place only, queue, lane or one
  consumer, and carries the input it was accepted with (`Placed`); that a
  process that is down has left nothing in memory (`DownInv`); and of each job
  (`JobInv`) that journal, memory and tombstone hold one input once it ran
  (`SameInput`), that a running process knows it (`Remembered`), what record
  and how many callbacks are behind each stage of a run (`StageInv`), that a
  job without an outcome is admitted by nobody (`UndecidedInv`), that a
  callback leaves a record of its sending wherever a restart looks (`SentInv`),
  that what runs only once keeps its last record (`OnceInv`) and was bought
  once (`PaidInv`), that a completed job was delivered (`DeliveredInv`), and
  that only a failed write takes journal and memory apart (`FaultInv`).  The
  parts lean on one another: a second callback is excluded by the record, the
  record's meaning by the stage, and the stage by the one place.  Every step is
  shown to change the records of one job, and the parts of that job are proved
  for each stage, with the three outcomes of a write.  From it follow
  `OneInputPerIdentity`, `CallbackAtMostOnce`, `OutcomeTellsCallback`,
  `PaidAtMostOnce`, `RolloverNeverStuck` and the action property
  `NoReplayUndecided`.  `LedgerBound` has a further invariant, which counts the
  pending jobs with the records: a write enters a job that was counted when it
  was accepted.  The third part is `DueRecordsLeave`, which the finding refutes,
  under `AcceptedUnarchived` (no accepted job has or gets a tombstone).  Its
  invariant `TombstoneInv` says that beside a tombstone there is no record, or one
  equal to it, on disk and in memory: only a job that runs writes a record, and a
  kill inside the rollover leaves the record the tombstone was made of.
- `PortEvents_proofs`.  The invariant `PortInv` describes the two suspended
  batches: which changes are left of each, and of which policy and link they
  are.  `ReportInv` is `TracksReported` with the batch taken into account: a
  track of the engine is in the session or the worker's batch will still
  enter it.  It needs that a batch which is not stale speaks of the engine's
  tracks (`BatchInv`), that a worker holding a session the dictionary let go of
  has lost its policy or its link (`KeptInv`), and that an open event belongs to a
  session with a track in it, unless its leave was refused or lost, waits to be
  sent, or is left to a close of stop that may be cut short (`EventInv`).
  `TracksReported` and `StopClosesEvents` follow for any finite set of tracks and
  any `MAX_TRACKS`.  A second invariant, `TurnsInv`, is for `StaleResultsSilent`,
  under two premises.  `RevokedAlone`: no policy is revoked while the other
  publisher has something left to publish, or a message that waits for the lock.
  `EventFits`: an event has never more objects than its leave can name.  Then every
  track of an open event is the engine's or its leave is still to be published
  (`HeldInv`), the session lasts until the event's leave waits to be sent
  (`OpenInv`), and the engine has no track of a replaced policy's event
  (`StaleInv`); so when both batches are done a stale event is closed.  Both halves
  of the first premise are needed: without the first, TLC shows the finding;
  without the second, its second path.  Without `EventFits` the leaves of a
  revocation may be refused.  The theorem ends where stop begins, which cancels a
  batch in its middle; `StopClosesEvents` takes over.
- `PriorityGate_proofs`.  The invariant accounts for slots by who owns them,
  and says that every live waiter is in the heap, once, and that no slot is
  free beside it.  `SlotsAccounted`, `NoIdleSlot` and `ServedInOrder` follow
  for any tasks, levels and capacity.
- `FairInference_proofs`.  Types need that the rotation finds the waiting camera
  it looks for, which is modular arithmetic and a least element.  For close: a
  thread is the worker's, the lease is held only while it runs, a closed pool's
  worker stands before no call.  For `TurnBound` the invariant bounds what a
  camera has been passed over by its distance in the rotation from the one
  served last: at distance k at most 2 * (N - 1 - k) turns and those of the
  present one.  A confirmation costs one of the two turns, a step of the
  rotation brings every waiting camera as much nearer as it may cost.
- `SavedConfig_proofs`.  The invariant says, for each step of the lock's
  holder, what it still knows of the files, what an owner announced, and for a
  startup that what it has read was stable.  The file properties and the
  refinement of `OwnedChange` follow.
- `AppleUpgrade_proofs`.  Types, for any budget of recoveries and starts.  The
  invariant `UpgradeInv` says which actor may stand at which step, beside which
  command (`ActorInv`), that requests are made one at a time and, while one is
  outstanding, the upgrade is pending and its configuration reserved (`LateInv`,
  `ReservedInv`), that whoever may start a container finds the other not running
  (`StartInv`), and what the steps towards the decision leave for the supervisor
  (`DecidedInv`).  One step alone does not keep it: a `Recover` that begins beside
  an outstanding request.  `Told` excludes that: such a request has no receipt that
  lets a recovery begin.  It is kept where no request is made over a receipt of
  an earlier attempt (`RequestedOnce`, for any number of recoveries), and while
  fewer than two recoveries have begun, because what is still to be requested is
  then fresh (`FewInv`); the second recovery may lose it, but only a third would
  look (`TwoAttempts`).  A stray start of the supervisor is a step like any other
  and under no premise: where it arrives beside the other container, or while an
  upgrade is pending, the invariant gives up what it said of running containers
  and keeps the rest (`StraysKeep`).  `OneIdentity`, `DecidedMeansDone` and `ChangedUnderReview`
  follow under either premise, whatever `MaxRecoveries` is.

Assumptions on constants that carry weight: `RoomAssumption` above, and that
the tracks of `PortEvents` are finitely many positive numbers (a tracker
numbers its tracks from one, and the engine's set of them is turned into a
batch, a sequence).

Only model-checked: liveness (`UrgentServed`, `AcceptedJobEnds`, `FrameAnswered`),
which TLAPS does not prove under fairness.

## 5. Not modelled, and the plan

Left out for good: wire formats, media, prompts, geometry, model servers, HTML
and benchmarks, which keep no state that steps of several actors share.  They
are most of the repository's lines, which is why the models stand for a small
share of them; the modules here take the file protocols, queues and tasks whose
order matters.

Left out so far, each under `hazards` with its line:

- the worker's `stop` interleaved with cancelled consumers (it is one step
  here; the identity run has no room for more), and `uncertain_resolution.py`,
  which rewrites the journal of a stopped worker;
- `aiport_event_budget.py`'s ledger, which repeats `CaptionBudget` without a
  second process; held packages announced in `announce` mode;
- `aiport_rollout.py` with its compensation, and the NAS and Apple reconcilers;
- `index_rebuild.py` and `database.py`'s credential rotation, which turn on
  what a database keeps of an unacknowledged commit;
- `admin_maintenance.py`'s ledger of runbooks.

In the order of what they would add: the rollout as a further refinement of
`OwnedChange` with several files; the maintenance ledger; resolution composed
with the worker's disk; the index migration.

-------------------------------- MODULE Worker --------------------------------
(* worker.py JobProcessor: admission, the queue and its consumers, the durable *)
(* journal, the archive of tombstones, one-use permits and caption             *)
(* reservations, through lost and torn journal writes, crashes, drains and     *)
(* restarts.  One event loop: a step of the model is what runs between two     *)
(* awaits, or less.                                                            *)
EXTENDS Naturals, FiniteSets, Sequences, SequencesExt

CONSTANTS
    Jobs,           \* job identities
    Op,             \* the operation of each: caption, on_demand, index, local, deep
    Fps,            \* fingerprints: the inputs a request can carry
    Consumers,      \* the max_concurrency consumer tasks
    Modes,          \* caption policies: metered, unmetered, one_use, disabled
    CALLBACKS,      \* callback_mode is "enabled"
    LANE,           \* _caption_lane, 0 for none
    MAX_QUEUE,      \* max_queue
    MAX_JOBS,       \* max_ledger_entries
    MaxInflight,    \* bound of the model: requests waiting at the fence
    MaxAttempts,    \* bound: admissions of one identity
    MaxFaults,      \* bound: journal writes that fail
    None

Operations == {"caption", "on_demand", "index", "local", "deep"}

ASSUME OpAssumption == Op \in [Jobs -> Operations]
ASSUME NoneAssumption == None \notin Fps /\ None \notin Jobs
ASSUME ModesAssumption == Modes \subseteq {"metered", "unmetered", "one_use", "disabled"}
ASSUME CallbacksAssumption == CALLBACKS \in BOOLEAN
ASSUME BoundsAssumption ==
    /\ LANE \in Nat /\ MAX_QUEUE \in Nat /\ MAX_JOBS \in Nat
    /\ MaxInflight \in Nat /\ MaxAttempts \in Nat /\ MaxFaults \in Nat

VARIABLES
    mode,           \* the configured policy
    journal,        \* worker-jobs/<job>.json
    archive,        \* worker-archive/<..>/<job>.json: tombstones
    permit,         \* the job that consumed the one-use test scope, if any
    reserved,       \* jobs the caption budget holds a reservation for
    old,            \* jobs whose record is past its rollover age
    proc,           \* down, running or draining
    history,        \* _history
    pend,           \* _pending: the fingerprint of each accepted job
    queue,          \* _queue, in order of arrival
    lane,           \* _caption_waiting
    cons,           \* the consumers: [pc, job, err]
    inflight,       \* requests between their two checks, waiting for the fence
    leased,         \* _admission_leases
    maintenance,    \* a maintenance writer owns the fence
    attempt,        \* per job: admissions so far; dates its records
    faults,         \* journal writes that have failed
    calls,          \* history: model requests per job
    inputs,         \* history: fingerprints executed per job
    undecided,      \* history: jobs whose model request has no outcome on disk
    callbacks       \* history: controller callbacks sent per job

disk == <<journal, archive>>
guards == <<permit, reserved>>
memory == <<history, pend, queue, lane, cons, inflight, leased>>
ghosts == <<calls, inputs, undecided, callbacks>>
vars == <<mode, disk, guards, old, proc, memory, maintenance, attempt, faults, ghosts>>

States == {"execution_started", "callback_sending", "callback_uncertain",
           "completed", "failed"}
Terminal == {"completed", "failed"}
Unsafe == States \ Terminal
Records == [fp : Fps, state : States, at : Nat]
ASSUME NoRecordAssumption == None \notin Records
Requests == Jobs \X Fps         \* a job with the input of one request for it
Phases == {"idle", "lane", "starting", "executing", "inferred", "failing",
           "sending", "posted", "dead"}
Busy == Phases \ {"idle", "lane", "dead"}
Idle == [pc |-> "idle", job |-> None, err |-> FALSE]
Running(q) == [pc |-> "starting", job |-> q, err |-> FALSE]

TypeOK ==
    /\ mode \in Modes
    /\ journal \in [Jobs -> Records \cup {None}]
    /\ archive \in [Jobs -> Records \cup {None}]
    /\ permit \in Jobs \cup {None}
    /\ reserved \subseteq Jobs /\ old \subseteq Jobs
    /\ proc \in {"down", "running", "draining"}
    /\ history \in [Jobs -> Records \cup {None}]
    /\ pend \in [Jobs -> Fps \cup {None}]
    /\ queue \in Seq(Requests) /\ lane \in Seq(Requests)
    /\ cons \in [Consumers -> [pc : Phases, job : Requests \cup {None}, err : BOOLEAN]]
    /\ inflight \subseteq Requests
    /\ leased \subseteq Jobs
    /\ maintenance \in BOOLEAN
    /\ attempt \in [Jobs -> Nat] /\ faults \in Nat
    /\ calls \in [Jobs -> Nat] /\ callbacks \in [Jobs -> Nat]
    /\ inputs \in [Jobs -> SUBSET Fps] /\ undecided \subseteq Jobs

NoJobs == [j \in Jobs |-> None]

Init ==
    /\ mode \in Modes
    /\ journal = NoJobs /\ archive = NoJobs
    /\ permit = None /\ reserved = {} /\ old = {}
    /\ proc = "down"
    /\ history = NoJobs /\ pend = NoJobs
    /\ queue = <<>> /\ lane = <<>>
    /\ cons = [c \in Consumers |-> Idle]
    /\ inflight = {} /\ leased = {} /\ maintenance = FALSE
    /\ attempt = [j \in Jobs |-> 0] /\ faults = 0
    /\ calls = [j \in Jobs |-> 0]
    /\ inputs = [j \in Jobs |-> {}] /\ undecided = {}
    /\ callbacks = [j \in Jobs |-> 0]

-------------------------------------------------------------------------------
(* Operations and policies.                                                    *)
Local(j) == Op[j] \in {"index", "local", "deep"}        \* _LOCAL_OPERATIONS
InLane(j) == LANE > 0 /\ Op[j] \in {"caption", "deep"}  \* _CAPTION_LANE_OPERATIONS
DeepRetryable(j) == Op[j] = "deep"                      \* _DEEP_RETRYABLE
Rank(j) == CASE Op[j] = "on_demand" -> 0                \* _QUEUE_PRIORITY
             [] Op[j] = "local" -> 1
             [] Op[j] \in {"caption", "deep"} -> 2
             [] Op[j] = "index" -> 3
Continuous == mode \in {"metered", "unmetered"}

Known(f) == {j \in Jobs : f[j] # None}
StateIn(f, j) == IF f[j] = None THEN "absent" ELSE f[j].state

-------------------------------------------------------------------------------
(* The journal.                                                                *)

\* What _record writes of a job.  A state _load_history does not know stops every
\* restart.
Record(q, state) == [fp |-> q[2], state |-> state, at |-> attempt[q[1]]]

\* _record returned: file and directory entry are durable.
Recorded(q, state) ==
    /\ journal' = [journal EXCEPT ![q[1]] = Record(q, state)]
    /\ history' = [history EXCEPT ![q[1]] = Record(q, state)]
    /\ old' = old \ {q[1]}
    /\ UNCHANGED faults

\* _record raised, before the replacement or between it and the directory sync:
\* the file may or may not show the record, _history does not.
RecordRaised(q, state) ==
    /\ faults < MaxFaults
    /\ faults' = faults + 1
    /\ journal' = journal \/ journal' = [journal EXCEPT ![q[1]] = Record(q, state)]
    /\ UNCHANGED <<history, old>>

\* rollover_due: terminal and past its age.
Due(j) == StateIn(history, j) \in Terminal /\ j \in old

\* The tombstone of a record keeps identity, input, state and date.
Tombstoned(j) == archive[j] = None \/ archive[j] = history[j]
DueJobs == {j \in Jobs : Due(j)}
Conflicts == {j \in DueJobs : ~(journal[j] = history[j] /\ Tombstoned(j))}

\* _archive_terminal for every job of S: link the tombstone, unlink the record.
Archive(S) ==
    /\ archive' = [j \in Jobs |-> IF j \in S THEN history[j] ELSE archive[j]]
    /\ journal' = [j \in Jobs |-> IF j \in S THEN None ELSE journal[j]]
    /\ history' = [j \in Jobs |-> IF j \in S THEN None ELSE history[j]]
    /\ old' = old \ S

-------------------------------------------------------------------------------
(* Admission.                                                                  *)
Previous(j) == IF history[j] # None THEN history[j] ELSE archive[j]

\* Bug forms (Bug...) are what a plausible slip in the next definition would
\* give; they show that the properties notice it and are used nowhere else.
BugRetriableAlways(j) == TRUE

\* A failed job may run again: deep tasks always, others only outside
\* continuous mode and before they are archived.
Retriable(j) == DeepRetryable(j) \/ (~Continuous /\ history[j] # None)

BugFreshUnlessPending(j, fp) ==
    /\ pend[j] = None
    /\ Previous(j) # None => Previous(j).fp = fp

\* _existing_job finds nothing that answers or refuses this request.
Fresh(j, fp) ==
    /\ pend[j] = None
    /\ Previous(j) # None =>
          /\ Previous(j).fp = fp
          /\ Previous(j).state = "failed"
          /\ Retriable(j)

\* The first half of _admit: nothing answers the request, so it waits for the
\* model-work fence.  A waiting request holds nothing.
Request(j, fp) ==
    /\ proc = "running"
    /\ mode = "disabled" => Op[j] # "caption"
    /\ Fresh(j, fp)
    /\ Cardinality(inflight) < MaxInflight
    /\ inflight' = inflight \cup {<<j, fp>>}
    /\ UNCHANGED <<mode, disk, guards, old, proc, history, pend, queue, lane, cons,
                   leased, maintenance, attempt, faults, ghosts>>

\* A waiting request is answered or refused without a trace: its deadline, the
\* fence, camera inventory, or by now a duplicate.
Dismiss(q) ==
    /\ q \in inflight
    /\ inflight' = inflight \ {q}
    /\ UNCHANGED <<mode, disk, guards, old, proc, history, pend, queue, lane, cons,
                   leased, maintenance, attempt, faults, ghosts>>

BugReachesStale(q) ==
    /\ q \in inflight
    /\ proc # "down"
    /\ ~maintenance
    /\ inflight' = inflight \ {q}

\* _admit_current up to the rollover, with the shared lease in hand.
Reaches(q) ==
    /\ q \in inflight
    /\ proc # "down"
    /\ ~maintenance
    /\ Fresh(q[1], q[2])
    /\ inflight' = inflight \ {q}

BugHasRoom(j) == Cardinality(Known(history')) < MAX_JOBS

\* The ledger check, after the rollover: a retry needs no new entry.
HasRoom(j) ==
    \/ history'[j] # None
    \/ Cardinality(Known(history') \cup Known(pend)) < MAX_JOBS

BugSpendReservationOnly(j) ==
    /\ mode = "metered" /\ ~Local(j) => j \notin reserved
    /\ reserved' = IF mode = "metered" /\ ~Local(j) THEN reserved \cup {j} ELSE reserved
    /\ UNCHANGED permit

\* _reserve_test_scope and CaptionBudget.reserve: refused when the permit is
\* consumed or the reservation is not new.
Spend(j) ==
    /\ mode = "one_use" /\ ~Local(j) => permit = None
    /\ mode = "metered" /\ ~Local(j) => j \notin reserved
    /\ permit' = IF mode = "one_use" /\ ~Local(j) THEN j ELSE permit
    /\ reserved' = IF mode = "metered" /\ ~Local(j) THEN reserved \cup {j} ELSE reserved

BugQueueRoom == Len(queue) < MAX_QUEUE

QueueRoom == Len(queue) + Len(lane) < MAX_QUEUE

\* _admit_current: every due record is archived, then the job is accepted.
Admit(q) ==
    LET j == q[1] IN
    /\ Reaches(q)
    /\ Conflicts = {}
    /\ Archive(DueJobs)
    /\ HasRoom(j)
    /\ proc = "running"
    /\ QueueRoom
    /\ attempt[j] < MaxAttempts
    /\ Spend(j)
    /\ queue' = Append(queue, q)
    /\ pend' = [pend EXCEPT ![j] = q[2]]
    /\ leased' = leased \cup {j}
    /\ attempt' = [attempt EXCEPT ![j] = @ + 1]
    /\ UNCHANGED <<mode, proc, lane, cons, maintenance, faults, ghosts>>

\* ... or refused after the rollover; a permit or reservation that did become
\* durable before an error stays spent.
AdmitRefused(q) ==
    /\ Reaches(q)
    /\ Conflicts = {}
    /\ Archive(DueJobs)
    /\ \/ UNCHANGED guards
       \/ HasRoom(q[1]) /\ proc = "running" /\ QueueRoom /\ Spend(q[1])
    /\ UNCHANGED <<mode, proc, pend, queue, lane, cons, leased, maintenance,
                   attempt, faults, ghosts>>

\* ... or refused by the rollover itself: a record that cannot be archived stops
\* it, after some of the others.
AdmitWedged(q) ==
    /\ Reaches(q)
    /\ Conflicts # {}
    /\ \E S \in SUBSET (DueJobs \ Conflicts) : Archive(S)
    /\ UNCHANGED <<mode, guards, proc, pend, queue, lane, cons, leased, maintenance,
                   attempt, faults, ghosts>>

-------------------------------------------------------------------------------
(* The consumers.                                                              *)
To(c, pc) == cons' = [cons EXCEPT ![c].pc = pc]

\* The first entry of the heap: lowest rank, then oldest.
IsFirst(s, i) == \A k \in 1..Len(s) :
    \/ Rank(s[i][1]) < Rank(s[k][1])
    \/ Rank(s[i][1]) = Rank(s[k][1]) /\ i <= k

\* Consumers inside _run_job with a job of the caption lane.
JobOf(c) == cons[c].job[1]
InLaneNow == {c \in Consumers : cons[c].pc \in Busy /\ InLane(JobOf(c))}

\* _consume takes the first entry; a caption goes to the lane's own heap, and
\* the consumer with it.
Take(c) ==
    /\ cons[c].pc = "idle"
    /\ \E i \in 1..Len(queue) :
          LET q == queue[i] IN
          /\ IsFirst(queue, i)
          /\ queue' = RemoveAt(queue, i)
          /\ IF InLane(q[1])
             THEN lane' = Append(lane, q) /\ To(c, "lane")
             ELSE /\ cons' = [cons EXCEPT ![c] = Running(q)]
                  /\ UNCHANGED lane
    /\ UNCHANGED <<mode, disk, guards, old, proc, history, pend, inflight, leased,
                   maintenance, attempt, faults, ghosts>>

\* _run_caption_lane: take a waiting caption while the lane has room.
LaneTake(c) ==
    /\ cons[c].pc = "lane"
    /\ IF lane # <<>> /\ Cardinality(InLaneNow) < LANE
       THEN /\ cons' = [cons EXCEPT ![c] = Running(Head(lane))]
            /\ lane' = Tail(lane)
       ELSE cons' = [cons EXCEPT ![c] = Idle] /\ UNCHANGED lane
    /\ UNCHANGED <<mode, disk, guards, old, proc, history, pend, queue, inflight, leased,
                   maintenance, attempt, faults, ghosts>>

runVars == <<mode, archive, guards, proc, queue, lane, inflight, maintenance, attempt>>

BugFinishIdle(c) ==
    LET j == JobOf(c) IN
    /\ pend' = [pend EXCEPT ![j] = None]
    /\ leased' = leased \ {j}
    /\ cons' = [cons EXCEPT ![c] = Idle]

\* The end of _run_job: the job is no longer pending and its lease is closed; a
\* consumer of the lane looks for the next caption.
Finish(c) ==
    LET j == JobOf(c) IN
    /\ pend' = [pend EXCEPT ![j] = None]
    /\ leased' = leased \ {j}
    /\ cons' = [cons EXCEPT ![c] = [Idle EXCEPT !.pc = IF InLane(j) THEN "lane" ELSE "idle"]]

BugStartUnrecorded(c) ==
    /\ cons[c].pc = "starting"
    /\ To(c, "executing")
    /\ UNCHANGED <<runVars, journal, history, old, faults, pend, leased, ghosts>>

\* _run_job: the crash witness is durable before any media or model request.
Start(c) ==
    LET j == JobOf(c) IN
    /\ cons[c].pc = "starting"
    /\ \/ Recorded(cons[c].job, "execution_started") /\ To(c, "executing")
       \/ RecordRaised(cons[c].job, "execution_started") /\ To(c, "failing")
    /\ UNCHANGED <<runVars, pend, leased, ghosts>>

\* The model request is sent.
Infer(c) ==
    LET j == JobOf(c) IN
    /\ cons[c].pc = "executing"
    /\ To(c, "inferred")
    /\ calls' = [calls EXCEPT ![j] = @ + 1]
    /\ inputs' = [inputs EXCEPT ![j] = @ \cup {cons[c].job[2]}]
    /\ undecided' = undecided \cup {j}
    /\ UNCHANGED <<runVars, journal, history, old, faults, pend, leased, callbacks>>

\* An exception outside the callback: deadline on entry or later, changed
\* fence, media, model or response error.
Fail(c) ==
    /\ cons[c].pc \in {"starting", "executing", "inferred"}
    /\ To(c, "failing")
    /\ UNCHANGED <<runVars, journal, history, old, faults, pend, leased, ghosts>>

\* A terminal record on disk decides the request.
Decided(c) ==
    /\ undecided' = IF StateIn(journal', JobOf(c)) \in Terminal
                    THEN undecided \ {JobOf(c)} ELSE undecided
    /\ UNCHANGED <<calls, inputs, callbacks>>

\* _record "completed", then the end of the job.
Complete(c) ==
    LET j == JobOf(c) IN
    \/ Recorded(cons[c].job, "completed") /\ Finish(c)
    \/ RecordRaised(cons[c].job, "completed") /\ To(c, "failing") /\ UNCHANGED <<pend, leased>>

\* callback_mode disabled: the result is the model's answer.
CompleteLocally(c) ==
    /\ cons[c].pc = "inferred"
    /\ ~CALLBACKS
    /\ Complete(c)
    /\ Decided(c)
    /\ UNCHANGED runVars

\* _post_callback: the intent is durable before the request.
BeginCallback(c) ==
    LET j == JobOf(c) IN
    /\ cons[c].pc = "inferred"
    /\ CALLBACKS
    /\ \/ Recorded(cons[c].job, "callback_sending") /\ To(c, "sending")
       \/ RecordRaised(cons[c].job, "callback_sending") /\ To(c, "failing")
    /\ UNCHANGED <<runVars, pend, leased, ghosts>>

\* The controller may have the request from here on.
Post(c) ==
    /\ cons[c].pc = "sending"
    /\ To(c, "posted")
    /\ callbacks' = [callbacks EXCEPT ![JobOf(c)] = @ + 1]
    /\ UNCHANGED <<runVars, journal, history, old, faults, pend, leased, calls, inputs, undecided>>

\* The controller answered 2xx.
PostAccepted(c) ==
    /\ cons[c].pc = "posted"
    /\ Complete(c)
    /\ Decided(c)
    /\ UNCHANGED runVars

BugPostUncertainRetried(c) ==
    LET j == JobOf(c) IN
    /\ cons[c].pc \in {"sending", "posted"}
    /\ Recorded(cons[c].job, "failed")
    /\ Finish(c)
    /\ Decided(c)
    /\ UNCHANGED runVars

\* The callback was refused, timed out or broke, before or after the controller
\* acted on it.
PostUncertain(c) ==
    LET j == JobOf(c) IN
    /\ cons[c].pc \in {"sending", "posted"}
    /\ Recorded(cons[c].job, "callback_uncertain") \/ RecordRaised(cons[c].job, "callback_uncertain")
    /\ To(c, "failing")
    /\ UNCHANGED <<runVars, pend, leased, ghosts>>

\* _run_job's exception handler finds a callback that may have been sent: the
\* record stays as it is.
HandleUnsafe(c) ==
    LET j == JobOf(c) IN
    /\ cons[c].pc = "failing"
    /\ StateIn(history, j) \in {"callback_sending", "callback_uncertain"}
    /\ Finish(c)
    /\ UNCHANGED <<runVars, journal, history, old, faults, ghosts>>

BugNothingSent(c) ==
    LET j == JobOf(c) IN
    /\ cons[c].pc = "failing"
    /\ StateIn(history, j) # "callback_sending"

NothingSent(c) ==
    LET j == JobOf(c) IN
    /\ cons[c].pc = "failing"
    /\ StateIn(history, j) \notin {"callback_sending", "callback_uncertain"}

\* ... or fails the job.  When even that record cannot be written the exception
\* ends the consumer task.
HandleFailed(c) ==
    LET j == JobOf(c) IN
    /\ NothingSent(c)
    /\ \/ Recorded(cons[c].job, "failed") /\ Finish(c)
       \/ /\ RecordRaised(cons[c].job, "failed")
          /\ pend' = [pend EXCEPT ![j] = None]
          /\ leased' = leased \ {j}
          /\ cons' = [cons EXCEPT ![c] = [Idle EXCEPT !.pc = "dead"]]
    /\ Decided(c)
    /\ UNCHANGED runVars

\* ... or, once and within the deadline, tells the player of the error.
HandleOnDemand(c) ==
    LET j == JobOf(c) IN
    /\ NothingSent(c)
    /\ Op[j] = "on_demand" /\ CALLBACKS /\ ~cons[c].err
    /\ \/ /\ Recorded(cons[c].job, "callback_sending")
          /\ cons' = [cons EXCEPT ![c].pc = "sending", ![c].err = TRUE]
       \/ /\ RecordRaised(cons[c].job, "callback_sending")
          /\ cons' = [cons EXCEPT ![c].err = TRUE]
    /\ UNCHANGED <<runVars, pend, leased, ghosts>>

Work(c) == Take(c) \/ LaneTake(c) \/ Start(c) \/ Infer(c) \/ Fail(c) \/ CompleteLocally(c)
    \/ BeginCallback(c) \/ Post(c) \/ PostAccepted(c) \/ PostUncertain(c)
    \/ HandleUnsafe(c) \/ HandleFailed(c) \/ HandleOnDemand(c)

-------------------------------------------------------------------------------
(* The process.                                                                *)

\* What a process loses with its memory.
Forget ==
    /\ proc' = "down"
    /\ history' = NoJobs /\ pend' = NoJobs
    /\ queue' = <<>> /\ lane' = <<>>
    /\ cons' = [c \in Consumers |-> Idle]
    /\ inflight' = {} /\ leased' = {}

\* JobProcessor.__init__: the journal is loaded and due records are archived.
Boot ==
    LET due == {j \in old : StateIn(journal, j) \in Terminal}
    IN  /\ proc = "down"
        /\ Cardinality(Known(journal)) <= MAX_JOBS
        /\ \A j \in due : archive[j] \in {None, journal[j]}
        /\ archive' = [j \in Jobs |-> IF j \in due THEN journal[j] ELSE archive[j]]
        /\ journal' = [j \in Jobs |-> IF j \in due THEN None ELSE journal[j]]
        /\ history' = [j \in Jobs |-> IF j \in due THEN None ELSE journal[j]]
        /\ old' = old \ due
        /\ proc' = "running"
        /\ UNCHANGED <<mode, guards, pend, queue, lane, cons, inflight, leased,
                       maintenance, attempt, faults, ghosts>>

\* drain: nothing new is admitted, accepted jobs go on.
Drain ==
    /\ proc = "running"
    /\ proc' = "draining"
    /\ UNCHANGED <<mode, disk, guards, old, memory, maintenance, attempt, faults, ghosts>>

\* Jobs with a callback on its way when the process ends.
Sending == {cons[c].job : c \in {d \in Consumers : cons[d].pc \in {"sending", "posted"}}}

\* stop: consumers are cancelled; a callback in flight becomes uncertain, other
\* running jobs keep their witness, queued jobs leave no trace.
Stop ==
    /\ proc # "down"
    /\ journal' = [j \in Jobs |->
                      IF \E q \in Sending : q[1] = j
                      THEN Record(CHOOSE q \in Sending : q[1] = j, "callback_uncertain")
                      ELSE journal[j]]
    /\ Forget
    /\ UNCHANGED <<mode, archive, guards, old, maintenance, attempt, faults, ghosts>>

\* The process is killed.
Crash ==
    /\ proc # "down"
    /\ Forget
    /\ UNCHANGED <<mode, disk, guards, old, maintenance, attempt, faults, ghosts>>

\* ... or killed inside the rollover, between a link and its unlink.
CrashInArchive ==
    /\ proc # "down"
    /\ \E j \in DueJobs \ Conflicts : archive' = [archive EXCEPT ![j] = history[j]]
    /\ Forget
    /\ UNCHANGED <<mode, journal, guards, old, maintenance, attempt, faults, ghosts>>

\* The rollover age of a terminal record passes.
Age(j) ==
    /\ j \notin old
    /\ StateIn(journal, j) \in Terminal
    /\ old' = old \cup {j}
    /\ UNCHANGED <<mode, disk, guards, proc, memory, maintenance, attempt, faults, ghosts>>

\* The caption budget's replay window for a job passes: jobs are long finished
\* by then.
ExpireReservation(j) ==
    /\ j \in reserved
    /\ pend[j] = None
    /\ reserved' = reserved \ {j}
    /\ UNCHANGED <<mode, disk, permit, old, proc, memory, maintenance, attempt, faults, ghosts>>

BugMaintainBesideQueue ==
    /\ maintenance' = (\A c \in Consumers : cons[c].pc \in {"idle", "lane", "dead"})
    /\ UNCHANGED <<mode, disk, guards, old, proc, memory, attempt, faults, ghosts>>

\* A maintenance writer gets the exclusive lock, or ends and is reconciled.
Maintain ==
    /\ maintenance' = (~maintenance /\ leased = {})
    /\ UNCHANGED <<mode, disk, guards, old, proc, memory, attempt, faults, ghosts>>

Next ==
    \/ \E j \in Jobs :
          (\E fp \in Fps : Request(j, fp)) \/ Age(j) \/ ExpireReservation(j)
    \/ \E q \in inflight : Dismiss(q) \/ Admit(q) \/ AdmitRefused(q) \/ AdmitWedged(q)
    \/ \E c \in Consumers : Work(c)
    \/ Boot \/ Drain \/ Stop \/ Crash \/ CrashInArchive \/ Maintain

Spec == Init /\ [][Next]_vars

-------------------------------------------------------------------------------
(* Properties.                                                                 *)

\* Whatever write fails and wherever the process is killed, a job that reached
\* the model has left a record on disk: a restart never finds it unknown.
ExecutedHasGuard ==
    \A j \in Jobs : calls[j] > 0 => journal[j] # None \/ archive[j] # None

\* A model request whose outcome is on no disk is never sent a second time, not
\* after a restart and not under another admission of the same job.
NoReplayUndecided == [][\A j \in Jobs : calls'[j] # calls[j] => j \notin undecided]_vars

\* In continuous mode one identity buys at most one model request, deep tasks
\* aside; a one-use permit buys one in all, whatever the number of jobs.
Paid == {j \in Jobs : ~Local(j) /\ calls[j] > 0}
PaidAtMostOnce ==
    /\ Continuous => \A j \in Jobs : ~DeepRetryable(j) => calls[j] <= 1
    /\ mode = "one_use" => Cardinality(Paid) <= 1 /\ \A j \in Paid : calls[j] = 1

\* All the requests executed under one identity carried the same input.
OneInputPerIdentity == \A j \in Jobs : Cardinality(inputs[j]) <= 1

\* The controller gets at most one callback for an identity, over all its
\* admissions, its error answer included.
CallbackAtMostOnce == \A j \in Jobs : callbacks[j] <= 1

\* A durable outcome tells whether the controller was called: a completed job
\* was delivered, and a failed one, which may run again, was not.
Outcome(j) == IF journal[j] # None THEN journal[j] ELSE archive[j]
OutcomeTellsCallback ==
    \A j \in Jobs : Outcome(j) # None =>
        /\ Outcome(j).state = "failed" => callbacks[j] = 0
        /\ CALLBACKS /\ Outcome(j).state = "completed" => callbacks[j] = 1

\* Captions waiting in their lane still count against the queue.
WaitingWithinQueue == Len(queue) + Len(lane) <= MAX_QUEUE

\* No accepted job needs more journal entries than the ledger has room for; and
\* as long as no write has failed, a restart can load the journal it finds.
LedgerBound ==
    /\ Cardinality(Known(history) \cup Known(pend)) <= MAX_JOBS
    /\ faults = 0 => Cardinality(Known(journal)) <= MAX_JOBS

\* A maintenance writer never owns the fence beside an accepted job, queued, in
\* the lane or running: its lease passes from admission to the end of the job.
MaintenanceExcludesWork == maintenance => Known(pend) = {}

\* Rollover is never stuck on the record of an identity that runs only once: in
\* continuous mode all but deep tasks, whatever crash split link and unlink.
Wedging(j) == j \in Conflicts /\ pend[j] = None
RolloverNeverStuck ==
    Continuous => \A j \in Jobs : Wedging(j) => DeepRetryable(j)

\* Every finished record leaves when it is due, "otherwise the ledger fills and
\* all admission stops" (worker.py rollover_due).
DueRecordsLeave == \A j \in Jobs : ~Wedging(j)

\* Each consumer task keeps running; nothing else is promised to happen.
Fairness == \A c \in Consumers : WF_vars(Work(c))
FairSpec == Spec /\ Fairness

\* Ranks do not age: a waiting job is overtaken by every later one of a better
\* rank, however many come.
Overtaken(j) == \E k \in Jobs : Rank(k) < Rank(j) /\ attempt'[k] # attempt[k]

\* Every accepted job leaves once no jobs of a better rank are admitted any more,
\* unless a journal write fails, which may end its consumer: no caption is left
\* in the lane with no consumer to look at it, whatever order captions and other
\* jobs finish in.  The admissions of the model are bounded, those of the code
\* are not: there an index job waits as long as better ranks keep coming
\* (worker.py _QUEUE_PRIORITY).
AcceptedJobEnds ==
    \A j \in Jobs :
        <>[][~Overtaken(j)]_attempt => (pend[j] # None ~> pend[j] = None \/ faults > 0)
===============================================================================

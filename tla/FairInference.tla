----------------------------- MODULE FairInference -----------------------------
(* aiport_inference.py FairInference: one worker task and one model serve the  *)
(* frames of a camera pool.  Frames are observed, discarded and shut out while *)
(* the worker is suspended: on the model-work lease, on the model's thread,    *)
(* which cannot be cancelled, in on_result or in on_unavailable.               *)
EXTENDS Integers

CONSTANTS
    N,              \* the number of cameras
    None,           \* no camera
    Policies        \* [preserve, quota]: preserve_first_pending, and
                    \* max_frames_per_camera or None

ASSUME CamerasAssumption == N \in Nat \ {0}

Cameras == 0..(N - 1)       \* in the order of the configuration

ASSUME NoneAssumption == None \notin Cameras

VARIABLES
    policy,     \* the permit this scheduler was built for
    pending,    \* frames a camera has waiting: _pending, then _latest_pending
    attempts,   \* _attempts, counted only where a quota reads it
    disabled,   \* _disabled
    broken,     \* _global_failure
    loaded,     \* the model is not None
    confirm,    \* _confirmation_camera
    last,       \* the camera of _last_index: the one served last
    turns,      \* _consecutive_turns, of which only "fewer than two" is read
    worker,     \* where the worker task is, and the camera whose turn it is
    thread,     \* _active_thread
    lease,      \* the model-work lease is held
    closed,     \* _closed
    closer,     \* where the caller of close is
    passed      \* turns that went elsewhere while a frame of the camera waited

queue == <<pending, attempts, disabled, broken>>
turn == <<confirm, last, turns>>
model == <<loaded, thread, lease>>
closing == <<closed, closer>>
vars == <<policy, queue, turn, model, worker, closing, passed>>

WorkerAt == {"none",      \* no task, or it is done
             "top",       \* about to test the loop's condition
             "acquire",   \* in _call_in_thread, awaiting the lease
             "thread",    \* awaiting the shielded thread
             "deliver",   \* awaiting on_result, objects found
             "deliver0",  \* awaiting on_result, none found
             "notify",    \* awaiting on_unavailable
             "cancelled"} \* close cancelled it; it has not resumed

FlagsOK ==
    /\ broken \in BOOLEAN /\ loaded \in BOOLEAN
    /\ lease \in BOOLEAN /\ closed \in BOOLEAN

TypeOK ==
    /\ policy \in Policies
    /\ pending \in [Cameras -> 0..2]
    /\ attempts \in [Cameras -> Nat]
    /\ disabled \subseteq Cameras
    /\ confirm \in Cameras \cup {None} /\ last \in Cameras \cup {None}
    /\ turns \in 0..2
    /\ worker \in [at : WorkerAt, cam : Cameras \cup {None}]
    /\ thread \in {"none", "running", "ended"}
    /\ closer \in {"none", "thread", "worker", "done"}
    /\ FlagsOK
    /\ passed \in [Cameras -> Nat]

Init ==
    /\ policy \in Policies
    /\ pending = [c \in Cameras |-> 0] /\ attempts = pending /\ passed = pending
    /\ disabled = {} /\ broken = FALSE /\ loaded = FALSE
    /\ confirm = None /\ last = None /\ turns = 0
    /\ worker = [at |-> "none", cam |-> None]
    /\ thread = "none" /\ lease = FALSE
    /\ closed = FALSE /\ closer = "none"

-------------------------------------------------------------------------------
Waiting == {c \in Cameras : pending[c] > 0}
Exhausted(c) == policy.quota # None /\ attempts[c] >= policy.quota
Available(c) == ~closed /\ ~broken /\ c \notin disabled /\ ~Exhausted(c)
Go(at, c) == worker' = [at |-> at, cam |-> c]
Stop == Go("none", None)

\* A camera's queued frames are forgotten (pop of both dictionaries).
Emptied(c) ==
    /\ pending' = [pending EXCEPT ![c] = 0]
    /\ passed' = [passed EXCEPT ![c] = 0]

EmptiedAll ==
    /\ pending' = [c \in Cameras |-> 0]
    /\ passed' = [c \in Cameras |-> 0]

\* Bug forms (Bug...) are what a plausible slip in the next definition would
\* give; they show that the properties notice it and are used nowhere else.
BugWorkerNeeded == worker.at = "none" /\ last = None

\* A task that has run dry is started again.
WorkerNeeded == worker.at = "none"

\* observe: dropped, the first frame, or (preserve) a newer one behind it.
Observe(c) ==
    /\ Available(c)
    /\ pending' = [pending EXCEPT ![c] = IF @ = 0 THEN 1
                                         ELSE IF policy.preserve THEN 2 ELSE 1]
    /\ worker' = IF WorkerNeeded THEN [at |-> "top", cam |-> None] ELSE worker
    /\ UNCHANGED <<policy, attempts, disabled, broken, turn, model, closing, passed>>

\* discard_pending, from the device when a stream or a policy changes.
DiscardPending(c) ==
    /\ Emptied(c)
    /\ confirm' = IF confirm = c THEN None ELSE confirm
    /\ UNCHANGED <<policy, attempts, disabled, broken, last, turns, model, worker, closing>>

\* skip_confirmation, from the device when the tracks need no second look.
SkipConfirmation(c) ==
    /\ confirm = c
    /\ confirm' = None
    /\ UNCHANGED <<policy, queue, last, turns, model, worker, closing, passed>>

-------------------------------------------------------------------------------
\* Cameras at this distance after the one served last, in the rotation.
After(k) == IF last = None THEN k - 1 ELSE (last + k) % N

Confirms == confirm \in Waiting /\ turns < 2

\* _next_camera.
NextCamera ==
    IF Confirms THEN confirm
    ELSE After(CHOOSE k \in 1..N : /\ After(k) \in Waiting
                                   /\ \A j \in 1..(k - 1) : After(j) \notin Waiting)

BugTurnsOf(c) == 1

\* _consecutive_turns once it is c's turn (two stands for every larger count).
TurnsOf(c) == IF last # c THEN 1 ELSE IF turns = 0 THEN 1 ELSE 2

\* The head of the loop: the next camera's first frame is taken, a newer one
\* moves up, and the lease is asked for.
Turn ==
    /\ worker.at = "top"
    /\ Waiting # {} /\ ~closed /\ ~broken
    /\ LET c == NextCamera
       IN  /\ pending' = [pending EXCEPT ![c] = @ - 1]
           /\ attempts' = IF policy.quota = None THEN attempts
                          ELSE [attempts EXCEPT ![c] = @ + 1]
           /\ last' = c /\ turns' = TurnsOf(c) /\ confirm' = None
           /\ passed' = [d \in Cameras |->
                            IF d = c \/ pending[d] = 0 THEN 0 ELSE passed[d] + 1]
           /\ Go("acquire", c)
    /\ UNCHANGED <<policy, disabled, broken, model, closing>>

\* Nothing to do, or shut down: the task returns.
RunEnds ==
    /\ worker.at = "top"
    /\ Waiting = {} \/ closed \/ broken
    /\ Stop
    /\ UNCHANGED <<policy, queue, turn, model, closing, passed>>

\* _call_in_thread: with the lease, the load or the request starts.
Acquire ==
    /\ worker.at = "acquire"
    /\ lease' = TRUE /\ thread' = "running"
    /\ Go("thread", worker.cam)
    /\ UNCHANGED <<policy, queue, turn, loaded, closing, passed>>

\* The thread ends by itself; its done callback closes the lease.
ThreadEnds ==
    /\ thread = "running"
    /\ thread' = "ended" /\ lease' = FALSE
    /\ UNCHANGED <<policy, queue, turn, loaded, worker, closing, passed>>

\* except Exception, in a turn: this camera alone is given up.
Disable(c) ==
    /\ disabled' = disabled \cup {c}
    /\ Emptied(c)
    /\ Go("notify", c)
    /\ UNCHANGED <<attempts, broken>>

\* except Exception, around the load: no camera can be served.
LoadFails ==
    /\ broken' = TRUE
    /\ EmptiedAll
    /\ Go("notify", None)
    /\ UNCHANGED <<attempts, disabled>>

\* The end of a turn: a camera that has used its frames is told so.
TurnOver(c) ==
    /\ IF Exhausted(c) THEN Emptied(c) /\ Go("notify", c)
                       ELSE Go("top", None) /\ UNCHANGED <<pending, passed>>
    /\ UNCHANGED <<attempts, disabled, broken>>

\* The fence cannot be opened or read.
AcquireFails ==
    /\ worker.at = "acquire"
    /\ IF loaded THEN Disable(worker.cam) ELSE LoadFails
    /\ UNCHANGED <<policy, turn, model, closing>>

BugGoOn == ~broken

\* "Do not start a new (potentially paid) call after that boundary."
GoOn == ~closed

\* The worker resumes after the load.
Loaded ==
    /\ worker.at = "thread" /\ thread = "ended" /\ ~loaded
    /\ thread' = "none"
    /\ \/ LoadFails /\ UNCHANGED loaded
       \/ /\ loaded' = TRUE
          /\ IF GoOn THEN Go("acquire", worker.cam) ELSE Stop
          /\ UNCHANGED <<queue, passed>>
    /\ UNCHANGED <<policy, turn, lease, closing>>

\* ... or after the request: a result, an API error or any other exception.
Detected ==
    /\ worker.at = "thread" /\ thread = "ended" /\ loaded
    /\ thread' = "none"
    /\ \/ /\ \/ closed /\ Stop
             \/ ~closed /\ \E at \in {"deliver", "deliver0"} : Go(at, worker.cam)
          /\ UNCHANGED <<queue, passed>>
       \/ TurnOver(worker.cam)
       \/ Disable(worker.cam)
    /\ UNCHANGED <<policy, turn, loaded, lease, closing>>

\* on_result returns, or raises.
Delivered ==
    /\ worker.at \in {"deliver", "deliver0"}
    /\ LET c == worker.cam
       IN  \/ /\ TurnOver(c)
              /\ confirm' =
                    IF /\ policy.preserve /\ worker.at = "deliver"
                       /\ c \in Waiting /\ turns < 2 /\ ~Exhausted(c)
                    THEN c ELSE confirm
           \/ Disable(c) /\ UNCHANGED confirm
    /\ UNCHANGED <<policy, last, turns, model, closing>>

\* on_unavailable returns.
Notified ==
    /\ worker.at = "notify"
    /\ IF broken THEN Stop ELSE Go("top", None)
    /\ UNCHANGED <<policy, queue, turn, model, closing, passed>>

\* The task resumes with close's cancellation.
WorkerCancelled ==
    /\ worker.at = "cancelled"
    /\ Stop
    /\ UNCHANGED <<policy, queue, turn, model, closing, passed>>

-------------------------------------------------------------------------------
\* close, its second half: with no thread left, the task is cancelled.
SettleWorker ==
    IF worker.at = "none"
    THEN closer' = "done" /\ loaded' = FALSE /\ UNCHANGED worker
    ELSE closer' = "worker" /\ Go("cancelled", None) /\ UNCHANGED loaded

BugThreadAwaited == thread = "running" /\ loaded

\* close waits for the thread it cannot cancel, never for a wrapper.
ThreadAwaited == thread # "none"

\* close: admission is sealed before anything is awaited.  A caller that was
\* cancelled may call again.
Close ==
    /\ closer = "none"
    /\ closed' = TRUE /\ EmptiedAll /\ confirm' = None
    /\ IF ThreadAwaited THEN closer' = "thread" /\ UNCHANGED <<worker, loaded>>
                        ELSE SettleWorker
    /\ UNCHANGED <<policy, attempts, disabled, broken, last, turns, thread, lease>>

\* The shielded thread has ended; the worker may or may not have resumed.
CloseThread ==
    /\ closer = "thread" /\ thread # "running"
    /\ thread' = "none"
    /\ SettleWorker
    /\ UNCHANGED <<policy, queue, turn, lease, closed, passed>>

CloseWorker ==
    /\ closer = "worker" /\ worker.at = "none"
    /\ closer' = "done" /\ loaded' = FALSE
    /\ UNCHANGED <<policy, queue, turn, thread, lease, worker, closed, passed>>

\* The task that called close is cancelled while it waits.
CloserCancelled ==
    /\ closer \in {"thread", "worker"}
    /\ closer' = "none"
    /\ UNCHANGED <<policy, queue, turn, model, worker, closed, passed>>

Run == Turn \/ RunEnds \/ Loaded \/ Detected \/ Delivered \/ Notified \/ WorkerCancelled
Device == \E c \in Cameras : Observe(c) \/ DiscardPending(c) \/ SkipConfirmation(c)
Shutdown == Close \/ CloseThread \/ CloseWorker \/ CloserCancelled

Next == Run \/ Acquire \/ AcquireFails \/ ThreadEnds \/ Device \/ Shutdown

\* The loop resumes a ready worker; its callbacks return; maintenance releases
\* the fence or the fence fails; a model call ends.  Nothing is asked of the
\* device or of whoever shuts the pool down.
Fairness == WF_vars(Run) /\ WF_vars(Acquire \/ AcquireFails) /\ WF_vars(ThreadEnds)

Spec == Init /\ [][Next]_vars /\ Fairness

-------------------------------------------------------------------------------
\* After close has sealed admission no load or request starts and no result is
\* handed on, wherever the worker was suspended when it was called.
NothingAfterClose ==
    [][closed => /\ thread' = "running" => thread = "running"
                 /\ worker'.at \in {"deliver", "deliver0"} => worker'.at = worker.at]_vars

\* "Never report completion merely because that wrapper cancelled": when close
\* returns no thread runs, no task is left and the lease is back.
CloseMeansIdle ==
    closer = "done" => thread # "running" /\ ~lease /\ worker.at = "none"

\* "without letting one camera monopolize the worker": a waiting frame sees at
\* most two turns of each other camera, the confirmations included.
TurnBound == \A c \in Cameras : passed[c] <= 2 * (N - 1)

\* A queued frame is not forgotten: its camera gets a turn, or the frame is
\* dropped for a reason (a newer one, a discard, a failure, the quota, close).
FrameAnswered ==
    \A c \in Cameras : pending[c] > 0 ~> (worker.cam = c \/ pending[c] = 0)
===============================================================================

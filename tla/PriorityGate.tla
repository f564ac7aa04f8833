----------------------------- MODULE PriorityGate -----------------------------
(* worker.py _PriorityGate: at most CAPACITY model requests at a time, lower   *)
(* priority numbers first, first come first served within one.  A slot passes  *)
(* straight from the releaser to a waiter; the waiter's task runs only later,  *)
(* and may be cancelled before, between and after.                             *)
EXTENDS Naturals, FiniteSets, Sequences

CONSTANTS
    Tasks,          \* asyncio tasks that run inference
    Prio,           \* the priority each of them asks with
    CAPACITY,       \* capacity
    MaxEntries      \* bound of the model: entries per priority, live and dead

ASSUME CapacityAssumption == CAPACITY \in Nat \ {0}
ASSUME TasksAssumption == IsFiniteSet(Tasks)
ASSUME PrioAssumption == Prio \in [Tasks -> Nat]

Levels == {Prio[t] : t \in Tasks}

VARIABLES
    active,     \* self.active
    waiting,    \* self._waiting: per priority, in arrival order, [task, live];
                \* live is "not future.done()"
    state       \* per task: where it is in acquire or in its request

vars == <<active, waiting, state>>

States == {"away",          \* outside the gate
           "queued",        \* awaiting its future
           "cancelled",     \* its future was cancelled; the task has not resumed
           "granted",       \* its future has a result; the task has not resumed
           "dropped",       \* granted, then cancelled before it resumed
           "holding"}       \* inside the request

Entries == [task : Tasks, live : BOOLEAN]

TypeOK ==
    /\ active \in 0..CAPACITY
    /\ waiting \in [Levels -> Seq(Entries)]
    /\ state \in [Tasks -> States]

Init ==
    /\ active = 0
    /\ waiting = [p \in Levels |-> <<>>]
    /\ state = [t \in Tasks |-> "away"]

-------------------------------------------------------------------------------
LiveAt(p) == {i \in 1..Len(waiting[p]) : waiting[p][i].live}
LiveLevels == {p \in Levels : LiveAt(p) # {}}
Least(S) == CHOOSE x \in S : \A y \in S : x <= y
Greatest(S) == CHOOSE x \in S : \A y \in S : x >= y
Drop(s, n) == SubSeq(s, n + 1, Len(s))

\* Bug forms (Bug...) are what a plausible slip in the next definition would
\* give; they show that the properties notice it and are used nowhere else.
BugServedLevel == Greatest(LiveLevels)

\* The heap's order: the lowest priority number that still has a live waiter,
ServedLevel == Least(LiveLevels)

BugServedIndex(p) == Greatest(LiveAt(p))

\* and there the earliest.
ServedIndex(p) == Least(LiveAt(p))

BugReleaseToNobody(after) ==
    /\ \E p \in Levels : waiting[p] # <<>> /\ ~Head(waiting[p]).live
    /\ waiting' = [p \in Levels |-> IF p = Least({q \in Levels : waiting[q] # <<>>})
                                   THEN Tail(waiting[p]) ELSE waiting[p]]
    /\ active' = active - 1
    /\ state' = after

\* release with nobody waiting: every dead entry is popped, the slot is free.
ReleaseToNobody(after) ==
    /\ LiveLevels = {}
    /\ waiting' = [p \in Levels |-> <<>>]
    /\ active' = active - 1
    /\ state' = after

\* release: dead entries ahead of the waiter are popped on the way, then the
\* slot passes to it.  `after` is the releaser's own new state.
ReleaseToWaiter(after) ==
    /\ LiveLevels # {}
    /\ LET p == ServedLevel
           i == ServedIndex(p)
       IN  /\ state' = [after EXCEPT ![waiting[p][i].task] = "granted"]
           /\ waiting' = [q \in Levels |->
                 IF q < p THEN <<>>
                 ELSE IF q = p THEN Drop(waiting[q], i)
                 ELSE waiting[q]]
    /\ UNCHANGED active

Release(after) == ReleaseToNobody(after) \/ ReleaseToWaiter(after)

-------------------------------------------------------------------------------
\* acquire, fast path.
AcquireFree(t) ==
    /\ state[t] = "away"
    /\ active < CAPACITY
    /\ LiveLevels = {}
    /\ active' = active + 1
    /\ state' = [state EXCEPT ![t] = "holding"]
    /\ UNCHANGED waiting

\* acquire, up to the await.
AcquireQueue(t) ==
    /\ state[t] = "away"
    /\ active >= CAPACITY \/ LiveLevels # {}
    /\ Len(waiting[Prio[t]]) < MaxEntries
    /\ state' = [state EXCEPT ![t] = "queued"]
    /\ waiting' = [waiting EXCEPT ![Prio[t]] = Append(@, [task |-> t, live |-> TRUE])]
    /\ UNCHANGED active

\* The task is cancelled (deadline, job cancellation, shutdown) while its future
\* is pending: the entry stays in the heap, dead.
CancelQueued(t) ==
    /\ state[t] = "queued"
    /\ state' = [state EXCEPT ![t] = "cancelled"]
    /\ waiting' = [waiting EXCEPT ![Prio[t]] =
          [i \in DOMAIN @ |-> IF @[i].task = t THEN [@[i] EXCEPT !.live = FALSE] ELSE @[i]]]
    /\ UNCHANGED active

\* ... or after the slot was passed to it, before it ran.
CancelGranted(t) ==
    /\ state[t] = "granted"
    /\ state' = [state EXCEPT ![t] = "dropped"]
    /\ UNCHANGED <<active, waiting>>

\* The task resumes with its slot.
ResumeGranted(t) ==
    /\ state[t] = "granted"
    /\ state' = [state EXCEPT ![t] = "holding"]
    /\ UNCHANGED <<active, waiting>>

\* The task resumes from a wait that was cancelled before it was served.
ResumeCancelled(t) ==
    /\ state[t] = "cancelled"
    /\ state' = [state EXCEPT ![t] = "away"]
    /\ UNCHANGED <<active, waiting>>

BugResumeDropped(t) ==
    /\ state[t] = "dropped"
    /\ state' = [state EXCEPT ![t] = "away"]
    /\ UNCHANGED <<active, waiting>>

\* The task resumes cancelled although it was granted: it gives the slot back.
ResumeDropped(t) ==
    /\ state[t] = "dropped"
    /\ Release([state EXCEPT ![t] = "away"])

\* The request ends, in whatever way.
FinishRequest(t) ==
    /\ state[t] = "holding"
    /\ Release([state EXCEPT ![t] = "away"])

Resume(t) == ResumeGranted(t) \/ ResumeCancelled(t) \/ ResumeDropped(t)

Next == \E t \in Tasks :
    AcquireFree(t) \/ AcquireQueue(t) \/ CancelQueued(t) \/ CancelGranted(t)
        \/ Resume(t) \/ FinishRequest(t)

\* The event loop resumes every ready task, and every request has a timeout.
Fairness == \A t \in Tasks : WF_vars(Resume(t)) /\ WF_vars(FinishRequest(t))

Spec == Init /\ [][Next]_vars /\ Fairness

-------------------------------------------------------------------------------
Owning == {t \in Tasks : state[t] \in {"granted", "dropped", "holding"}}

\* "At most capacity holders", and no slot leaks: what `active` counts is the
\* tasks that hold a slot, were handed one, or must still give one back.
SlotsAccounted == active = Cardinality(Owning) /\ active <= CAPACITY

\* No slot is free while somebody waits for one; a waiter that was not served
\* has somebody ahead of it whose release will serve the queue.
NoIdleSlot == LiveLevels # {} => active = CAPACITY

\* "a lower priority number is served first, FIFO within one": a task that gets
\* a slot leaves no live waiter of a lower number, nor an earlier one of its own.
ServedNext(t) ==
    /\ \A p \in LiveLevels' : p >= Prio[t]
    /\ \A i, k \in LiveAt(Prio[t]) : waiting[Prio[t]][i].task = t => i <= k

ServedInOrder == [][\A t \in Owning' \ Owning : ServedNext(t)]_vars

\* The most urgent waiters (the player's summary) cannot starve behind any
\* stream of captions: such a wait ends.
UrgentServed ==
    \A t \in Tasks :
        (\A u \in Tasks : Prio[t] <= Prio[u]) =>
            (state[t] = "queued" ~> state[t] # "queued")
===============================================================================

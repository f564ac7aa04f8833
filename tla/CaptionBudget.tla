----------------------------- MODULE CaptionBudget -----------------------------
(* caption_budget.py: the durable, installation-wide journal of paid caption   *)
(* reservations.  Several processes share one state directory; an exclusive    *)
(* file lock spans the read, the decision and the atomic replacement.  The     *)
(* wall clock may be set to any value between two steps.                       *)
EXTENDS Integers, FiniteSets

CONSTANTS
    Jobs, Cameras, Times,
    Procs,          \* processes that share the state directory
    None,           \* no process holds the lock
    Eligible,       \* eligible_cameras; {} behaves like None in the code
    HOUR, RETENTION, LIMIT, FAIR_HEADROOM,
    MAX_RECORDS

ASSUME TimesAssumption == Times \subseteq Nat \ {0}
ASSUME WindowAssumption ==
    HOUR \in Nat \ {0} /\ RETENTION \in Nat /\ HOUR <= RETENTION
ASSUME LimitAssumption ==
    LIMIT \in Nat \ {0} /\ FAIR_HEADROOM \in 0..(LIMIT - 1) /\ MAX_RECORDS \in Nat
\* The file has room for every hour of the replay window: 24 * 12 < 300.
ASSUME RoomAssumption ==
    \E hours \in 0..RETENTION : RETENTION <= hours * HOUR /\ hours * LIMIT < MAX_RECORDS
ASSUME ProcsAssumption == None \notin Procs
ASSUME EligibleAssumption == Eligible \subseteq Cameras /\ IsFiniteSet(Eligible)

VARIABLES
    now,        \* the wall clock
    file,       \* caption-budget.json: [high_water, reservations]
    holder,     \* who holds .caption-budget.lock
    writing,    \* the processes that have decided and are about to write
    plan,       \* per process: the state it is about to write
    charged     \* history: every reservation a write has made durable

vars == <<now, file, holder, writing, plan, charged>>

Reservations == [job : Jobs, cam : Cameras, at : Nat]
States == [high_water : Nat, reservations : SUBSET Reservations]
Plans == [state : States, charge : SUBSET Reservations]

\* _read of a file that does not exist yet.
NoFile == [high_water |-> 0, reservations |-> {}]
NoPlan == [state |-> NoFile, charge |-> {}]

TypeOK ==
    /\ now \in Times
    /\ file \in States
    /\ holder \in Procs \cup {None}
    /\ writing \subseteq Procs
    /\ plan \in [Procs -> Plans]
    /\ charged \subseteq Reservations

-------------------------------------------------------------------------------
\* Bug forms (Bug...) are what a plausible slip in the next definition would
\* give; they show that the properties notice it and are used nowhere else.
BugRetainedHour(S, t) == {r \in S : t - r.at < HOUR}
Retained(S, t) == {r \in S : t - r.at < RETENTION}
BugRecentShort(S, t) == {r \in S : t - r.at < HOUR - 1}
Recent(S, t) == {r \in S : t - r.at < HOUR}
Served(S) == {r.cam : r \in S}
BugKnownNever(S, j) == FALSE
Known(S, j) == \E r \in S : r.job = j

\* Permits held back for eligible cameras with no caption in this hour.
Held(recent, c) ==
    LET unserved == Cardinality((Eligible \ Served(recent)) \ {c})
    IN  IF unserved < FAIR_HEADROOM THEN unserved ELSE FAIR_HEADROOM

BugDeferredLate(recent, c) ==
    /\ c \in Served(recent)
    /\ LIMIT - Cardinality(recent) < Held(recent, c)

Deferred(recent, c) ==
    /\ c \in Served(recent)
    /\ LIMIT - Cardinality(recent) <= Held(recent, c)

Exhausted(recent) == Cardinality(recent) >= LIMIT

-------------------------------------------------------------------------------
Init ==
    /\ now \in Times
    /\ file = NoFile
    /\ holder = None
    /\ writing = {}
    /\ plan = [p \in Procs |-> NoPlan]
    /\ charged = {}

BugLockShared(p) == p \notin writing /\ holder' = p

\* _locked: LOCK_EX on the lock file.
Lock(p) ==
    /\ p \notin writing
    /\ holder = None
    /\ holder' = p

BugUndecidedAnyClock(j) == ~Known(file.reservations, j)

\* The early part of reserve.  A job already in the journal and a clock behind
\* the high water mark end the call without a write: no step of the model.
Undecided(j) ==
    /\ ~Known(file.reservations, j)
    /\ now >= file.high_water

\* The call goes on to _write.
Plan(p, reservations, charge) ==
    /\ writing' = writing \cup {p}
    /\ plan' = [plan EXCEPT ![p] =
          [state |-> [high_water |-> now, reservations |-> reservations],
           charge |-> charge]]
    /\ UNCHANGED <<now, file, charged>>

\* reserve, hour used up: prune, move the high water mark, then refuse.
ReserveExhausted(p, j) ==
    LET retained == Retained(file.reservations, now)
    IN  /\ Lock(p)
        /\ Undecided(j)
        /\ Exhausted(Recent(retained, now))
        /\ Plan(p, retained, {})

\* reserve, permit available: prune and append.
ReserveNew(p, j, c) ==
    LET retained == Retained(file.reservations, now)
        recent   == Recent(retained, now)
        new      == [job |-> j, cam |-> c, at |-> now]
    IN  /\ Lock(p)
        /\ Undecided(j)
        /\ ~Exhausted(recent)
        /\ ~Deferred(recent, c)
        /\ Cardinality(retained) < MAX_RECORDS
        /\ Plan(p, retained \cup {new}, {new})

\* The call is over: the lock file is closed.
Return(p) ==
    /\ writing' = writing \ {p}
    /\ plan' = [plan EXCEPT ![p] = NoPlan]
    /\ holder' = IF holder = p THEN None ELSE holder

\* _write replaced the file; whether the caller then sees the reservation, an
\* error from the directory sync or is killed, the charge stays.
WriteDurable(p) ==
    /\ p \in writing
    /\ file' = plan[p].state
    /\ charged' = charged \cup plan[p].charge
    /\ Return(p)
    /\ UNCHANGED now

\* _write failed, or the process died, before the replacement.
WriteLost(p) ==
    /\ p \in writing
    /\ Return(p)
    /\ UNCHANGED <<now, file, charged>>

\* Time passes, or somebody sets the clock, backwards too.
SetClock ==
    /\ now' \in Times
    /\ UNCHANGED <<file, holder, writing, plan, charged>>

Next ==
    \/ \E p \in Procs, j \in Jobs :
          \/ ReserveExhausted(p, j)
          \/ \E c \in Cameras : ReserveNew(p, j, c)
    \/ \E p \in Procs : WriteDurable(p) \/ WriteLost(p)
    \/ SetClock

Spec == Init /\ [][Next]_vars

-------------------------------------------------------------------------------
Permits == INSTANCE CaptionPermits WITH
    Jobs <- Jobs, Cameras <- Cameras, Times <- Times,
    HOUR <- HOUR, RETENTION <- RETENTION, LIMIT <- LIMIT, charged <- charged

\* The journal on disk, its lock and its pruning implement the budget's promise:
\* every durable write is one permitted charge of the whole history, or none.
ImplementsPermits == Permits!Spec

\* "Reserve at most twelve new captions in any rolling hour", over everything
\* ever charged.
RollingLimit == Permits!RollingLimit

\* A job is charged again only after the replay window has passed.
ReplayWindow == Permits!ReplayWindow

\* What _read demands of the file it validates; the next call after any
\* sequence of writes, lost writes and clock changes can still read it.
JournalReadable ==
    /\ Cardinality(file.reservations) <= MAX_RECORDS
    /\ \A r \in file.reservations : r.at <= file.high_water
    /\ \A r, s \in file.reservations : r.job = s.job => r = s

\* _MAX_RECORDS is never what refuses a caption: before a permit can be denied
\* for lack of room the rolling limit has already denied it.
JournalNeverFull ==
    now >= file.high_water =>
        Cardinality(Retained(file.reservations, now)) < MAX_RECORDS

\* "the last FAIR_HEADROOM permits of each rolling hour are held for eligible
\* cameras with no caption in that hour": captions that repeat a camera within
\* the hour leave room for the first captions of the camera that repeats and of
\* FAIR_HEADROOM others, or of every eligible camera when there are fewer.
HeadroomHeld ==
    now >= file.high_water =>
        LET recent  == Recent(file.reservations, now)
            repeats == Cardinality(recent) - Cardinality(Served(recent))
            cameras == Cardinality(Eligible)
        IN  repeats <= LIMIT - (IF cameras <= FAIR_HEADROOM THEN cameras
                                                           ELSE FAIR_HEADROOM + 1)
===============================================================================

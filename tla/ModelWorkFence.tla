---------------------------- MODULE ModelWorkFence ----------------------------
(* model_work_fence.py and its two kinds of user.  Consumers (Key workers, AI  *)
(* Port pools, the face enrolment command) hold a shared lock on one inode for *)
(* as long as model work is accepted or running.  A maintenance writer         *)
(* (tools/model_work_watchdog.py) holds the exclusive lock, records its intent *)
(* in the same inode, restarts the model server and clears the intent only     *)
(* when the server is ready again.  A lost process loses its locks but never   *)
(* its intent.                                                                 *)
EXTENDS Naturals, FiniteSets

CONSTANTS
    Consumers,      \* enrolled processes, each with its own marker path
    Work,           \* pieces of model work
    Owner,          \* the consumer each piece of work belongs to
    Writers,        \* maintenance processes
    Inodes,         \* files a marker path may name
    Transactions,   \* maintenance transaction nonces
    Idle, Torn,     \* contents that are not a maintenance intent
    None

ASSUME OwnerAssumption == Owner \in [Work -> Consumers]
ASSUME DistinctAssumption ==
    Idle \notin Transactions /\ Torn \notin Transactions /\ Idle # Torn
ASSUME NoneAssumption == None \notin Inodes /\ None \notin Transactions

VARIABLES
    content,    \* what each inode holds: Idle, Torn or a maintenance transaction
    link,       \* the inode each consumer's marker path names now
    bound,      \* the inode each consumer's fence was opened on, None when closed
    stage,      \* per work: none, waiting, leased (accepted) or running
    lease,      \* per work: the inode whose shared lock it holds
    phase,      \* per writer: how far maintenance has come
    target,     \* per writer: the inode whose exclusive lock it holds
    tx          \* per writer: its transaction

consumerVars == <<link, bound, stage, lease>>
writerVars == <<phase, target, tx>>
vars == <<content, link, bound, stage, lease, phase, target, tx>>

Stages == {"none", "waiting", "leased", "running"}
Phases == {"none", "exclusive", "beginning", "effect", "ready", "finishing", "done"}

TypeOK ==
    /\ content \in [Inodes -> {Idle, Torn} \cup Transactions]
    /\ link \in [Consumers -> Inodes]
    /\ bound \in [Consumers -> Inodes \cup {None}]
    /\ stage \in [Work -> Stages]
    /\ lease \in [Work -> Inodes \cup {None}]
    /\ phase \in [Writers -> Phases]
    /\ target \in [Writers -> Inodes \cup {None}]
    /\ tx \in [Writers -> Transactions \cup {None}]

Init ==
    /\ content = [i \in Inodes |-> Idle]
    /\ link \in [Consumers -> Inodes]
    /\ bound = [c \in Consumers |-> None]
    /\ stage = [w \in Work |-> "none"]
    /\ lease = [w \in Work |-> None]
    /\ phase = [m \in Writers |-> "none"]
    /\ target = [m \in Writers |-> None]
    /\ tx = [m \in Writers |-> None]

-------------------------------------------------------------------------------
(* The kernel's locks: a lease or a writer keeps its descriptor's lock.        *)
SharedOn(i) == {w \in Work : lease[w] = i}
ExclusiveOn(i) == {m \in Writers : target[m] = i}

\* Bug forms (Bug...) are what a plausible slip in the next definition would
\* give; they show that the properties notice it and are used nowhere else.
BugReadable(i) == ExclusiveOn(i) = {} /\ content[i] # Torn

\* flock SH succeeds and the record says idle.
Readable(i) == ExclusiveOn(i) = {} /\ content[i] = Idle

BugLockableBesideWork(i) == ExclusiveOn(i) = {}

\* flock EX succeeds.
Lockable(i) == SharedOn(i) = {} /\ ExclusiveOn(i) = {}

\* _open: the path still names the inode the fence was opened on.
Bound(c) == bound[c] # None /\ link[c] = bound[c]

-------------------------------------------------------------------------------
(* Consumers.                                                                  *)

\* ModelWorkFence.__init__: a torn or unreadable marker fails closed, unless a
\* live writer may be changing it.
OpenFence(c) ==
    /\ bound[c] = None
    /\ ExclusiveOn(link[c]) # {} \/ content[link[c]] # Torn
    /\ bound' = [bound EXCEPT ![c] = link[c]]
    /\ UNCHANGED <<content, link, stage, lease, writerVars>>

\* close: active leases keep their own descriptors.
CloseFence(c) ==
    /\ bound[c] # None
    /\ bound' = [bound EXCEPT ![c] = None]
    /\ UNCHANGED <<content, link, stage, lease, writerVars>>

\* The process is lost, and its descriptors with it.
KillConsumer(c) ==
    /\ bound' = [bound EXCEPT ![c] = None]
    /\ stage' = [w \in Work |-> IF Owner[w] = c THEN "none" ELSE stage[w]]
    /\ lease' = [w \in Work |-> IF Owner[w] = c THEN None ELSE lease[w]]
    /\ UNCHANGED <<content, link, writerVars>>

\* An operator replaces or re-links a marker.
Relink(c) ==
    /\ \E i \in Inodes : link' = [link EXCEPT ![c] = i]
    /\ UNCHANGED <<content, bound, stage, lease, writerVars>>

\* acquire is called.
Wait(w) ==
    /\ stage[w] = "none"
    /\ bound[Owner[w]] # None
    /\ stage' = [stage EXCEPT ![w] = "waiting"]
    /\ UNCHANGED <<content, link, bound, lease, writerVars>>

\* One poll of acquire that succeeds.
Acquire(w) ==
    /\ stage[w] = "waiting"
    /\ Bound(Owner[w])
    /\ Readable(link[Owner[w]])
    /\ stage' = [stage EXCEPT ![w] = "leased"]
    /\ lease' = [lease EXCEPT ![w] = link[Owner[w]]]
    /\ UNCHANGED <<content, link, bound, writerVars>>

\* The wait ends without a lease: deadline, cancellation, closed fence, changed
\* binding or an unreadable record.
GiveUp(w) ==
    /\ stage[w] = "waiting"
    /\ stage' = [stage EXCEPT ![w] = "none"]
    /\ UNCHANGED <<content, link, bound, lease, writerVars>>

\* worker.py _run_job: accepted work checks the marker again, then executes.
Start(w) ==
    /\ stage[w] = "leased"
    /\ Bound(Owner[w])
    /\ content[link[Owner[w]]] = Idle
    /\ stage' = [stage EXCEPT ![w] = "running"]
    /\ UNCHANGED <<content, link, bound, lease, writerVars>>

\* The work completes, is refused at the re-check, rejected or cancelled: its
\* lease is closed.
Release(w) ==
    /\ stage[w] \in {"leased", "running"}
    /\ stage' = [stage EXCEPT ![w] = "none"]
    /\ lease' = [lease EXCEPT ![w] = None]
    /\ UNCHANGED <<content, link, bound, writerVars>>

-------------------------------------------------------------------------------
(* Maintenance.                                                                *)

\* try_exclusive: busy and unresolved answers change nothing.
TryExclusive(m, i) ==
    /\ phase[m] = "none"
    /\ Lockable(i)
    /\ content[i] = Idle
    /\ phase' = [phase EXCEPT ![m] = "exclusive"]
    /\ target' = [target EXCEPT ![m] = i]
    /\ UNCHANGED <<content, tx, consumerVars>>

BugBeginEffectFirst(m, t) ==
    /\ phase[m] = "exclusive"
    /\ content[target[m]] = Idle
    /\ content' = [content EXCEPT ![target[m]] = Torn]
    /\ phase' = [phase EXCEPT ![m] = "effect"]
    /\ tx' = [tx EXCEPT ![m] = t]
    /\ UNCHANGED <<target, consumerVars>>

\* begin, up to the truncation in _write.
Begin(m, t) ==
    /\ phase[m] = "exclusive"
    /\ content[target[m]] = Idle
    /\ content' = [content EXCEPT ![target[m]] = Torn]
    /\ phase' = [phase EXCEPT ![m] = "beginning"]
    /\ tx' = [tx EXCEPT ![m] = t]
    /\ UNCHANGED <<target, consumerVars>>

\* begin has written and synced its intent; the effect may start.
BeginWritten(m) ==
    /\ phase[m] = "beginning"
    /\ content' = [content EXCEPT ![target[m]] = tx[m]]
    /\ phase' = [phase EXCEPT ![m] = "effect"]
    /\ UNCHANGED <<target, tx, consumerVars>>

\* The legacy script has returned and the provider has proved ready.
VerifyReady(m) ==
    /\ phase[m] = "effect"
    /\ phase' = [phase EXCEPT ![m] = "ready"]
    /\ UNCHANGED <<content, target, tx, consumerVars>>

\* finish: only this transaction's own intent, up to the truncation in _write.
Finish(m) ==
    /\ phase[m] = "ready"
    /\ content[target[m]] = tx[m]
    /\ content' = [content EXCEPT ![target[m]] = Torn]
    /\ phase' = [phase EXCEPT ![m] = "finishing"]
    /\ UNCHANGED <<target, tx, consumerVars>>

FinishWritten(m) ==
    /\ phase[m] = "finishing"
    /\ content' = [content EXCEPT ![target[m]] = Idle]
    /\ phase' = [phase EXCEPT ![m] = "done"]
    /\ UNCHANGED <<target, tx, consumerVars>>

BugCloseClears(m) ==
    /\ phase[m] # "none"
    /\ content' = [content EXCEPT ![target[m]] = Idle]
    /\ phase' = [phase EXCEPT ![m] = "none"]
    /\ target' = [target EXCEPT ![m] = None]
    /\ tx' = [tx EXCEPT ![m] = None]
    /\ UNCHANGED consumerVars

\* The writer closes its lease or its process is lost, at any point.
CloseWriter(m) ==
    /\ phase[m] # "none"
    /\ phase' = [phase EXCEPT ![m] = "none"]
    /\ target' = [target EXCEPT ![m] = None]
    /\ tx' = [tx EXCEPT ![m] = None]
    /\ UNCHANGED <<content, consumerVars>>

-------------------------------------------------------------------------------
ConsumerNext ==
    \/ \E c \in Consumers :
          OpenFence(c) \/ CloseFence(c) \/ KillConsumer(c) \/ Relink(c)
    \/ \E w \in Work :
          Wait(w) \/ Acquire(w) \/ GiveUp(w) \/ Start(w) \/ Release(w)

WriterNext ==
    \E m \in Writers :
        \/ \E i \in Inodes : TryExclusive(m, i)
        \/ \E t \in Transactions : Begin(m, t)
        \/ BeginWritten(m) \/ VerifyReady(m) \/ Finish(m) \/ FinishWritten(m)
        \/ CloseWriter(m)

Next == ConsumerNext \/ WriterNext

Spec == Init /\ [][Next]_vars

-------------------------------------------------------------------------------
\* model-work-fence.md "Losing a process/kernel lock is not permission to clear
\* it": while an inode holds an intent, or a torn record, no work holds its
\* shared lock, however many writers have died since.
UnresolvedBlocksWork ==
    \A i \in Inodes : content[i] # Idle => SharedOn(i) = {}

\* "A new reader arriving between any idle observation and restart cannot enter
\* model work": while a writer restarts or probes the server, work accepted
\* under the same inode is neither queued nor running.
NoEffectDuringWork ==
    \A m \in Writers : phase[m] \in {"effect", "ready"} => SharedOn(target[m]) = {}

\* Effects happen under their own durable intent: a crash in the middle of them
\* finds the transaction in the inode, not an idle or another's record.
EffectUnderIntent ==
    \A m \in Writers : phase[m] \in {"effect", "ready"} => content[target[m]] = tx[m]

\* "Only normal script completion and verified readiness finalize that exact
\* transaction": an intent leaves the inode only in the finish of the writer
\* that wrote it, after it has seen the server ready.
IntentSurvives ==
    [][\A i \in Inodes :
          content[i] \in Transactions /\ content'[i] # content[i] =>
              \E m \in Writers :
                  /\ target[m] = i /\ tx[m] = content[i]
                  /\ phase[m] = "ready" /\ phase'[m] = "finishing"]_vars
===============================================================================

------------------------------ MODULE AppleUpgrade -----------------------------
(* apple_upgrade.py, apple_upgrade_state.py, apple_upgrade_recovery.py,        *)
(* apple_supervisor.py and host_runtime_command.py: a service's pinned         *)
(* container is replaced by a new one of the same identity, beside a           *)
(* supervisor that starts what it finds stopped.  Every actor and the guardian *)
(* of its command hold one writer lock; any of them, or the host, may die at   *)
(* any step, and the daemon may carry out a request after its command ended.   *)
EXTENDS Naturals, FiniteSets

CONSTANTS
    MaxRecoveries,  \* recovery attempts of one upgrade: 3 in the code
    MaxStarts,      \* the supervisor's max_starts_per_hour
    MaxUpgrades,    \* bound of the model: upgrades begun
    None

ASSUME LimitsAssumption ==
    MaxRecoveries \in Nat /\ MaxStarts \in Nat /\ MaxUpgrades \in Nat

VARIABLES
    vm,         \* the old and the new container
    late,       \* an upgrade's requests the daemon may still carry out
    stray,      \* containers a killed start of the supervisor may still start
    strayed,    \* ghost: since the host's last start, one did beside the other
                \* container or within an upgrade
    cli,        \* the command under its guardian, or None
    actor,      \* the swap, the recovery or the tick at work, or None
    phase,      \* upgrade.json; "pending" is every phase that is not terminal
    call,       \* its requests, each with the receipt of its command
    attempts,   \* recovery_attempts
    pinned,     \* services.json: the container the supervisor starts
    held,       \* runtime.json: the service is on hold
    starts,     \* its starts within the hour
    reserved,   \* the host activation of the profile's configuration
    edited,     \* the configuration is no longer the upgrade's
    begun       \* upgrades begun

strays == <<stray, strayed>>
host == <<vm, late, cli, strays>>
journal == <<phase, call, attempts>>
registry == <<pinned, held, starts>>
profile == <<reserved, edited>>
vars == <<host, actor, journal, registry, profile, begun>>

Containers == {"old", "new"}
Commands == {"stop_old", "run_new", "stop_new", "delete_new", "restart_old"}
Requests == Commands \cup {"start_new"}
Upgraders == {"swap", "recover"}
Actors == Upgraders \cup {"tick"}
Terminal == {"committed", "rolled_back", "reconciled"}

Steps == Commands \cup {"reserve", "hold", "look", "await", "ready", "pin", "unhold",
                        "settle", "finish"}
Clis == [cmd : Requests, by : Actors, at : {"running", "applied", "done", "bad"}]
Works == [kind : Actors, to : Containers, at : Steps]

ASSUME NoneAssumption == None \notin Clis \cup Works

FlagsOK == held \in BOOLEAN /\ edited \in BOOLEAN /\ strayed \in BOOLEAN

TypeOK ==
    /\ vm \in [Containers -> {"running", "stopped", "absent"}]
    /\ late \subseteq Commands /\ stray \subseteq Containers
    /\ cli \in Clis \cup {None} /\ actor \in Works \cup {None}
    /\ phase \in Terminal \cup {"none", "pending"}
    /\ call \in [Upgraders \X Commands ->
                    {"none", "requested", "done", "bad", "unspawned", "acked"}]
    /\ attempts \in 0..MaxRecoveries /\ starts \in 0..MaxStarts
    /\ pinned \in Containers /\ reserved \in {"none", "prepared", "settled"}
    /\ FlagsOK /\ begun \in 0..MaxUpgrades

NoCalls == [k \in Upgraders \X Commands |-> "none"]

Init ==
    /\ vm = [c \in Containers |-> IF c = "old" THEN "running" ELSE "absent"]
    /\ late = {} /\ stray = {} /\ strayed = FALSE /\ cli = None /\ actor = None
    /\ phase = "none" /\ call = NoCalls /\ attempts = 0
    /\ pinned = "old" /\ held = FALSE /\ starts = 0
    /\ reserved = "none" /\ edited = FALSE /\ begun = 0

-------------------------------------------------------------------------------
Pending == phase = "pending"
Free == actor = None /\ cli = None      \* the writer lock, a guardian's included
Running(c) == vm[c] = "running"
Stopped(c) == vm[c] = "stopped"
Absent(c) == vm[c] = "absent"

Of(r) == IF r \in {"stop_old", "restart_old"} THEN "old" ELSE "new"

\* What the daemon does with a request.
Carried(r) ==
    LET c == Of(r)
        was == vm[c]
    IN  [vm EXCEPT ![c] =
            CASE r \in {"stop_old", "stop_new"} /\ was = "running" -> "stopped"
              [] r = "run_new" /\ was = "absent" -> "running"
              [] r = "delete_new" /\ was = "stopped" -> "absent"
              [] r \in {"restart_old", "start_new"} /\ was = "stopped" -> "running"
              [] OTHER -> was]

\* A request whose command was killed is carried out late, or never.
Late(r) ==
    /\ late' = late \ {r}
    /\ vm' \in {vm, Carried(r)}
    /\ UNCHANGED <<cli, strays, actor, journal, registry, profile, begun>>

Other(c) == IF c = "old" THEN "new" ELSE "old"

\* So is a killed start of the supervisor, which no journal knows: one of those
\* of the container, and more may be left.
Strays(c) ==
    /\ Stopped(c)
    /\ vm' = [vm EXCEPT ![c] = "running"]
    /\ stray' \in {stray, stray \ {c}}
    /\ strayed' = (strayed \/ Pending \/ ~Absent(Other(c)))
    /\ UNCHANGED <<late, cli, actor, journal, registry, profile, begun>>

\* The daemon carries out a request while its command waits.
CliApplies ==
    /\ cli # None /\ cli.at = "running"
    /\ vm' = Carried(cli.cmd)
    /\ cli' = [cli EXCEPT !.at = "applied"]
    /\ UNCHANGED <<late, strays, actor, journal, registry, profile, begun>>

\* The guardian collects the command, publishes its receipt, if it can, and
\* lets the lock go with a dead actor.
CliEnds ==
    /\ cli # None /\ cli.at \in {"running", "applied"}
    /\ \E exit \in {"done", "bad", "unspawned"}, saved \in BOOLEAN :
          /\ exit = "done" => cli.at = "applied"
          /\ exit = "unspawned" => cli.at = "running"
          /\ LET killed == exit = "bad" /\ cli.at = "running"
                 own == cli.by # "tick"
             IN  /\ late' = IF killed /\ own THEN late \cup {cli.cmd} ELSE late
                 /\ stray' = IF killed /\ ~own THEN stray \cup {Of(cli.cmd)} ELSE stray
          /\ call' = IF saved /\ cli.by # "tick"
                     THEN [call EXCEPT ![<<cli.by, cli.cmd>>] = exit] ELSE call
          /\ cli' = IF actor = None THEN None
                    ELSE [cli EXCEPT !.at = IF exit = "done" /\ saved THEN "done" ELSE "bad"]
    /\ UNCHANGED <<vm, strayed, actor, phase, attempts, registry, profile, begun>>

Spawn(r, by) == cli' = [cmd |-> r, by |-> by, at |-> "running"]

-------------------------------------------------------------------------------
\* An upgrader's step, and where it goes next.
At(step) == actor # None /\ actor.at = step
GoTo(step) == actor' = [actor EXCEPT !.at = step]

Collected == cli # None => cli.at \in {"done", "bad"}

\* It raises or returns early ("Keep the last durable intent"): the phase stays
\* one of the pending ones.
GivesUp ==
    /\ actor # None /\ Collected
    /\ actor' = None /\ cli' = None
    /\ UNCHANGED <<vm, late, strays, journal, registry, profile, begun>>

\* It is killed; its guardian goes on.
Dies ==
    /\ actor # None
    /\ actor' = None
    /\ cli' = IF Collected THEN None ELSE cli
    /\ UNCHANGED <<vm, late, strays, journal, registry, profile, begun>>

Reboot ==
    /\ vm' = [c \in Containers |-> IF Running(c) THEN "stopped" ELSE vm[c]]
    /\ late' = {} /\ stray' = {} /\ strayed' = FALSE /\ cli' = None /\ actor' = None
    /\ UNCHANGED <<journal, registry, profile, begun>>

\* A container exits by itself.
Exit(c) ==
    /\ Running(c)
    /\ vm' = [vm EXCEPT ![c] = "stopped"]
    /\ UNCHANGED <<late, cli, strays, actor, journal, registry, profile, begun>>

-------------------------------------------------------------------------------
\* swap: idle, the plan unchanged, and the intent published.
Swap ==
    /\ Free /\ ~Pending /\ begun < MaxUpgrades
    /\ pinned = "old" /\ Running("old") /\ Absent("new")
    /\ reserved # "prepared"
    /\ phase' = "pending" /\ call' = NoCalls /\ attempts' = 0
    /\ edited' = FALSE /\ begun' = begun + 1
    /\ actor' = [kind |-> "swap", to |-> "new", at |-> "reserve"]
    /\ UNCHANGED <<host, registry, reserved>>

\* Bug forms (Bug...) are what a plausible slip in the next definition would
\* give; they show that the properties notice it and are used nowhere else.
BugCommandsSettled == \A k \in DOMAIN call : call[k] # "requested"

\* _settled_commands: a request left open has a receipt, of success or of never
\* having been spawned (an earlier attempt's serves as well).
CommandsSettled == \A k \in DOMAIN call : call[k] \notin {"requested", "bad"}

\* recover, up to begin_recovery.
Recover ==
    /\ Free /\ Pending
    /\ ~edited /\ CommandsSettled
    /\ attempts < MaxRecoveries
    /\ attempts' = attempts + 1
    /\ actor' = [kind |-> "recover", to |-> "old", at |-> "reserve"]
    /\ UNCHANGED <<host, phase, call, registry, profile, begun>>

\* reserve_configuration.
Reserve ==
    /\ At("reserve")
    /\ reserved' = "prepared"
    /\ GoTo("hold")
    /\ UNCHANGED <<host, journal, registry, edited, begun>>

Hold ==
    /\ At("hold")
    /\ held' = TRUE
    /\ GoTo(IF actor.kind = "swap" THEN "stop_old" ELSE "look")
    /\ UNCHANGED <<host, journal, pinned, starts, profile, begun>>

\* recover: "A running candidate must be observed stopped and then absent before
\* the old identity may be restarted."
Look ==
    /\ At("look")
    /\ \/ /\ ~Absent("new") /\ Stopped("old")
          /\ GoTo(IF Running("new") THEN "stop_new" ELSE "delete_new")
       \/ /\ Absent("new")
          /\ GoTo(IF Stopped("old") THEN "restart_old" ELSE "ready")
    /\ UNCHANGED <<host, journal, registry, profile, begun>>

\* The request is published, then made.
Request(r) ==
    /\ At(r)
    /\ LET k == <<actor.kind, r>>
       IN  /\ call[k] # "acked"
           /\ call' = IF call[k] = "none" THEN [call EXCEPT ![k] = "requested"] ELSE call
    /\ Spawn(r, actor.kind)
    /\ GoTo("await")
    /\ UNCHANGED <<vm, late, strays, phase, attempts, registry, profile, begun>>

\* What is listed after a command that succeeded.
Observed(r) ==
    CASE r = "stop_old" -> Stopped("old")
      [] r = "run_new" -> Stopped("old") /\ Running("new")
      [] r = "stop_new" -> Stopped("new")
      [] r = "delete_new" -> (Stopped("old") \/ actor.kind = "recover") /\ Absent("new")
      [] r = "restart_old" -> Running("old") /\ Absent("new")

After(r) ==
    CASE r = "stop_old" -> "run_new"
      [] r = "stop_new" -> "delete_new"
      [] r \in {"run_new", "restart_old"} -> "ready"
      [] r = "delete_new" -> IF actor.kind = "swap" \/ Stopped("old")
                             THEN "restart_old" ELSE "ready"

\* The command is acknowledged and its effect observed; else the actor gives up.
Acknowledge ==
    /\ At("await") /\ actor.kind # "tick" /\ cli.at = "done"
    /\ call' = [call EXCEPT ![<<actor.kind, cli.cmd>>] = "acked"]
    /\ cli' = None
    /\ actor' = IF Observed(cli.cmd) THEN [actor EXCEPT !.at = After(cli.cmd)] ELSE None
    /\ UNCHANGED <<vm, late, strays, phase, attempts, registry, profile, begun>>

\* "stop_failed" alone releases the hold again.
StopFailed ==
    /\ At("await") /\ cli.at = "bad" /\ cli.cmd = "stop_old"
    /\ actor' = None /\ cli' = None /\ held' = FALSE /\ starts' = 0
    /\ UNCHANGED <<vm, late, strays, journal, pinned, profile, begun>>

\* The readiness probe, and the listing after it.
ReadyNew ==
    /\ At("ready") /\ actor.to = "new"
    /\ Stopped("old") /\ Running("new")
    /\ GoTo("pin")
    /\ UNCHANGED <<host, journal, registry, profile, begun>>

NotReady ==
    /\ At("ready") /\ actor.to = "new"
    /\ Stopped("old") /\ Running("new")
    /\ actor' = [actor EXCEPT !.at = "stop_new", !.to = "old"]
    /\ UNCHANGED <<host, journal, registry, profile, begun>>

ReadyOld ==
    /\ At("ready") /\ actor.to = "old"
    /\ Running("old") /\ Absent("new")
    /\ GoTo("pin")
    /\ UNCHANGED <<host, journal, registry, profile, begun>>

\* _pin_locked: the registry, then the hold and the starts.
Pin ==
    /\ At("pin") /\ ~Absent(actor.to)
    /\ pinned' = actor.to
    /\ GoTo("unhold")
    /\ UNCHANGED <<host, journal, held, starts, profile, begun>>

Unhold ==
    /\ At("unhold")
    /\ held' = FALSE /\ starts' = 0
    /\ GoTo("settle")
    /\ UNCHANGED <<host, journal, pinned, profile, begun>>

Settle ==
    /\ At("settle")
    /\ reserved' = "settled"
    /\ GoTo("finish")
    /\ UNCHANGED <<host, journal, registry, edited, begun>>

Finish ==
    /\ At("finish")
    /\ phase' = IF actor.kind = "recover" THEN "reconciled"
                ELSE IF actor.to = "new" THEN "committed" ELSE "rolled_back"
    /\ actor' = None
    /\ UNCHANGED <<host, call, attempts, registry, profile, begun>>

-------------------------------------------------------------------------------
BugSupervised == ~held

\* No upgrade is pending and the service is not on hold.
Supervised == ~Pending /\ ~held

\* "no other running container ... mounts the same state directory".
NoConflict == ~Running(Other(pinned))

\* _tick_locked: the pinned container is started if it is found stopped.  The
\* start is written down at the tick's end: a tick that dies before has not
\* counted it, as if the hour had passed.
Tick ==
    /\ Free /\ Supervised
    /\ Stopped(pinned) /\ NoConflict
    /\ starts < MaxStarts
    /\ starts' = starts + 1
    /\ Spawn(IF pinned = "old" THEN "restart_old" ELSE "start_new", "tick")
    /\ actor' = [kind |-> "tick", to |-> pinned, at |-> "await"]
    /\ UNCHANGED <<vm, late, strays, journal, pinned, held, profile, begun>>

HourPasses ==
    /\ starts > 0
    /\ starts' = 0
    /\ UNCHANGED <<host, actor, journal, pinned, held, profile, begun>>

\* pin, hold and release by the operator, and the end of a hold.
Operate ==
    /\ \/ Free /\ ~Pending /\ \/ pinned' \in {c \in Containers : ~Absent(c)}
                                 /\ held' = FALSE /\ starts' = 0
                              \/ held' = TRUE /\ UNCHANGED <<pinned, starts>>
       \/ held' = FALSE /\ UNCHANGED <<pinned, starts>>
    /\ UNCHANGED <<host, actor, journal, profile, begun>>

BugMayEdit == actor # None => actor.kind = "tick"

\* Every writer of the configuration is shut out while the reservation is
\* prepared, and while an upgrader holds its locks.
MayEdit == reserved # "prepared" /\ (actor # None => actor.kind = "tick")

Edit ==
    /\ MayEdit /\ Pending
    /\ edited' = ~edited    \* or back to the very bytes that were reviewed
    /\ UNCHANGED <<host, actor, journal, registry, reserved, begun>>

Upgrade ==
    \/ Swap \/ Recover \/ Reserve \/ Hold \/ Look
    \/ \E r \in Commands : Request(r)
    \/ Acknowledge \/ StopFailed
    \/ ReadyNew \/ NotReady \/ ReadyOld \/ Pin \/ Unhold \/ Settle \/ Finish

Faults == GivesUp \/ Dies \/ Reboot \/ (\E c \in Containers : Exit(c))
              \/ (\E r \in late : Late(r)) \/ (\E c \in stray : Strays(c))

Next == Upgrade \/ CliApplies \/ CliEnds \/ Faults \/ Tick \/ HourPasses \/ Operate \/ Edit

Spec == Init /\ [][Next]_vars

-------------------------------------------------------------------------------
\* The containers are one device identity: "it cannot ... create a second", and
\* recovery will "Never start the old identity beside an uncertain new owner".
\* No request of an upgrade and no start the supervisor waits for brings the
\* second one up.  A start of the supervisor that outlived its command does: no
\* step of the upgrade knows of it.
OneIdentity == ~strayed => ~(Running("old") /\ Running("new"))

\* Requests of an upgrade that may still change the containers.
Outstanding == late # {} \/ (cli # None /\ cli.by # "tick")

\* Nothing of an upgrade is outstanding once it is decided, its reservation is
\* settled, and the pinned container is there.
DecidedMeansDone ==
    phase \in Terminal =>
        /\ ~Outstanding /\ reserved = "settled"
        /\ Absent("new") <=> phase # "committed"
        /\ ~Absent(pinned)

\* "Every managed configuration writer is blocked while it is prepared": what an
\* upgrade still does to the containers, it does under the configuration it was
\* reviewed for, also where the actor has died and the daemon is late.
ChangedUnderReview ==
    Outstanding => reserved = "prepared" /\ ~edited
===============================================================================

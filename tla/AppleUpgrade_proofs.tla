-------------------------- MODULE AppleUpgrade_proofs -------------------------
(* The types of the upgrade and its supervisor, for every bound.  What they    *)
(* promise of the two containers, the configuration and the decision, as long  *)
(* as no attempt repeats a request over an older receipt, or no third recovery *)
(* begins: without that _settled_commands may believe the wrong receipt.  A    *)
(* start of the supervisor that outlives its command is part of the model and  *)
(* under no premise: what it can break, OneIdentity excepts.                   *)
EXTENDS AppleUpgrade, TLAPS

\* An actor that waits, waits for its own command; only the tick starts "new".
TypeInv ==
    /\ TypeOK
    /\ cli # None /\ cli.by # "tick" => cli.cmd \in Commands
    /\ actor # None /\ actor.at = "await" => cli # None /\ cli.by = actor.kind

LEMMA Initially == Init => TypeInv
<1> SUFFICES ASSUME Init PROVE TypeInv
  OBVIOUS
<1>1. FlagsOK
  BY Zenon DEF Init, FlagsOK
<1>2. vm \in [Containers -> {"running", "stopped", "absent"}]
  BY DEF Init, Containers
<1>3. cli = None /\ actor = None
  BY DEF Init
<1> QED
  BY <1>1, <1>2, <1>3, LimitsAssumption
  DEF Init, TypeInv, TypeOK, NoCalls, Containers, Terminal

LEMMA FlagsInductive == ASSUME FlagsOK, [Next]_vars PROVE FlagsOK'
<1> USE DEF FlagsOK, host, strays, journal, registry, profile
<1>1. CASE Upgrade
  BY <1>1, Zenon DEF Upgrade, Swap, Recover, Reserve, Hold, Look, Request, Acknowledge,
                     StopFailed, ReadyNew, NotReady, ReadyOld, Pin, Unhold, Settle, Finish
<1>2. CASE Faults
  BY <1>2, Zenon DEF Faults, GivesUp, Dies, Reboot, Exit, Late, Strays
<1>3. CASE CliApplies \/ CliEnds \/ Tick \/ HourPasses \/ Operate
  BY <1>3, Zenon DEF CliApplies, CliEnds, Tick, HourPasses, Operate
<1>4. CASE Edit
  BY <1>4, Zenon DEF Edit
<1>5. CASE UNCHANGED vars
  BY <1>5, Zenon DEF vars
<1> QED
  BY <1>1, <1>2, <1>3, <1>4, <1>5 DEF Next

\* The daemon leaves a container running, stopped or absent.
LEMMA CarriedType ==
    ASSUME TypeOK, NEW r \in Requests
    PROVE  Carried(r) \in [Containers -> {"running", "stopped", "absent"}]
<1>1. Of(r) \in Containers /\ vm \in [Containers -> {"running", "stopped", "absent"}]
  BY DEF Of, Containers, TypeOK
<1> QED
  BY <1>1 DEF Carried

LEMMA Inductive == TypeInv /\ [Next]_vars => TypeInv'
<1> SUFFICES ASSUME TypeInv, [Next]_vars PROVE TypeInv'
  OBVIOUS
<1> USE LimitsAssumption, NoneAssumption
    DEF TypeInv, TypeOK, Clis, Works, Steps, Containers, Commands, Requests, Upgraders,
        Actors, Terminal, NoCalls, host, strays, journal, registry, profile
<1>0. FlagsOK'
  BY FlagsInductive
<1>1. ASSUME NEW r \in Commands, Request(r) PROVE TypeInv'
  <2>1. actor # None /\ actor \in Works /\ actor.at = r
    BY <1>1 DEF Request, At
  <2>2. /\ cli' = [cmd |-> r, by |-> actor.kind, at |-> "running"]
        /\ actor' = [actor EXCEPT !.at = "await"]
        /\ call' \in {call, [call EXCEPT ![<<actor.kind, r>>] = "requested"]}
        /\ UNCHANGED <<vm, late, strays, phase, attempts, registry, profile, begun>>
    BY <1>1 DEF Request, GoTo, Spawn
  <2>3. cli' \in Clis /\ actor' \in Works /\ actor'.kind = actor.kind
    BY <2>1, <2>2
  <2>4. call' \in [Upgraders \X Commands ->
                      {"none", "requested", "done", "bad", "unspawned", "acked"}]
    BY <2>2
  <2> QED
    BY <1>0, <2>2, <2>3, <2>4
<1>2. ASSUME NEW r \in late, Late(r) PROVE TypeInv'
  BY <1>0, <1>2 DEF Late, Carried
<1>3. ASSUME NEW c \in Containers, Exit(c) PROVE TypeInv'
  BY <1>0, <1>3 DEF Exit
<1>19. ASSUME NEW c \in stray, Strays(c) PROVE TypeInv'
  <2>1. /\ vm' = [vm EXCEPT ![c] = "running"] /\ stray' \in {stray, stray \ {c}}
        /\ UNCHANGED <<late, cli, actor, journal, registry, profile, begun>>
    BY <1>19, Zenon DEF Strays
  <2> QED
    BY <1>0, <2>1
<1>4. CASE CliApplies
  <2>1. /\ cli \in Clis /\ vm' = Carried(cli.cmd) /\ cli' = [cli EXCEPT !.at = "applied"]
        /\ UNCHANGED <<late, strays, actor, journal, registry, profile, begun>>
    BY <1>4 DEF CliApplies
  <2>2. cli' \in Clis /\ cli'.cmd = cli.cmd /\ cli'.by = cli.by
    BY <2>1
  <2>3. vm' \in [Containers -> {"running", "stopped", "absent"}]
    BY <2>1, CarriedType
  <2> QED
    BY <1>0, <1>4, <2>1, <2>2, <2>3 DEF CliApplies
<1>5. CASE CliEnds
  <2>1. /\ cli \in Clis
        /\ UNCHANGED <<vm, strayed, actor, phase, attempts, registry, profile, begun>>
        /\ \E v \in {"done", "bad", "unspawned"} : call' \in {call, [call EXCEPT ![<<cli.by, cli.cmd>>] = v]}
        /\ late' \in {late, late \cup {cli.cmd}} /\ cli.by = "tick" => late' = late
        /\ stray' \in {stray, stray \cup {Of(cli.cmd)}}
        /\ IF actor = None THEN cli' = None
           ELSE \E at \in {"done", "bad"} : cli' = [cli EXCEPT !.at = at]
    BY <1>5 DEF CliEnds
  <2>2. call' \in [Upgraders \X Commands ->
                      {"none", "requested", "done", "bad", "unspawned", "acked"}]
    BY <2>1
  <2>3. late' \subseteq Commands
    BY <1>5, <2>1 DEF CliEnds
  <2>5. stray' \subseteq Containers
    BY <2>1 DEF Of
  <2>4. actor # None => cli' \in Clis /\ cli'.cmd = cli.cmd /\ cli'.by = cli.by
    BY <2>1
  <2> QED
    BY <1>0, <1>5, <2>1, <2>2, <2>3, <2>4, <2>5 DEF CliEnds
<1>6. CASE GivesUp \/ Dies
  BY <1>0, <1>6 DEF GivesUp, Dies
<1>7. CASE Reboot
  BY <1>0, <1>7 DEF Reboot, Running
<1>8. CASE Swap
  BY <1>0, <1>8 DEF Swap
<1>9. CASE Recover
  BY <1>0, <1>9 DEF Recover
<1>10. CASE Reserve \/ Hold \/ Look
  BY <1>0, <1>10 DEF Reserve, Hold, Look, At, GoTo
<1>11. CASE Acknowledge
  BY <1>0, <1>11 DEF Acknowledge, At, After
<1>12. CASE StopFailed
  BY <1>0, <1>12 DEF StopFailed
<1>13. CASE ReadyNew \/ NotReady \/ ReadyOld
  <2>1. /\ actor # None
        /\ \/ actor' = [actor EXCEPT !.at = "pin"]
           \/ actor' = [actor EXCEPT !.at = "stop_new", !.to = "old"]
        /\ UNCHANGED <<host, journal, registry, profile, begun>>
    BY <1>13 DEF ReadyNew, NotReady, ReadyOld, At, GoTo
  <2>2. actor' \in Works /\ actor'.at # "await"
    BY <2>1
  <2> QED
    BY <1>0, <2>1, <2>2
<1>14. CASE Pin \/ Unhold \/ Settle \/ Finish
  BY <1>0, <1>14 DEF Pin, Unhold, Settle, Finish, At, GoTo
<1>15. CASE Tick
  BY <1>0, <1>15 DEF Tick, Spawn
<1>16. CASE HourPasses \/ Edit
  <2>1. /\ UNCHANGED <<vm, late, stray, cli, actor, phase, call, attempts, pinned, reserved, begun>>
        /\ starts' \in {0, starts}
    BY <1>16, Zenon DEF HourPasses, Edit
  <2> QED
    BY <1>0, <2>1
<1>17. CASE Operate
  BY <1>0, <1>17 DEF Operate
<1>18. CASE UNCHANGED vars
  BY <1>0, <1>18 DEF vars
<1> QED
  BY <1>1, <1>2, <1>3, <1>4, <1>5, <1>6, <1>7, <1>8, <1>9, <1>10, <1>11, <1>12, <1>13, <1>14, <1>15, <1>16, <1>17, <1>18, <1>19
  DEF Next, Upgrade, Faults

\* The upgrade's journal, its actors and its commands always have their types.
THEOREM TypeCorrect == Spec => []TypeOK
<1>1. TypeInv => TypeOK
  BY DEF TypeInv
<1> QED
  BY <1>1, Initially, Inductive, PTL DEF Spec

-------------------------------------------------------------------------------
Upgrading == actor # None /\ actor.kind \in Upgraders

\* A request of the upgrade that the daemon has not carried out yet.
Issued(r) ==
    \/ r \in late
    \/ cli # None /\ cli.by # "tick" /\ cli.at = "running" /\ cli.cmd = r

\* Where the actors stand: a command belongs to the actor that awaits it, an
\* upgrader to a pending upgrade, a tick to none.
ActorInv ==
    /\ actor # None /\ actor.at # "await" => cli = None
    /\ Upgrading => Pending /\ ~edited
    /\ actor # None /\ actor.kind = "tick" => ~Pending /\ actor.at = "await"
    /\ actor # None /\ actor.kind = "recover" =>
          actor.to = "old" /\ actor.at \notin {"stop_old", "run_new"}
    /\ actor # None /\ actor.at = "look" => actor.kind = "recover"
    /\ cli # None /\ cli.by = "tick" => ~Pending
    /\ cli # None /\ cli.by = "recover" => cli.cmd \notin {"stop_old", "run_new"}
    /\ cli # None /\ cli.at \in {"done", "bad"} => actor # None

\* One request at a time: while a command runs nothing is late, and an actor
\* whose command left a late request has its bad exit to read.
LateInv ==
    /\ \A r, s \in late : r = s
    /\ cli # None /\ cli.at # "bad" => late = {}
    /\ actor # None /\ late # {} => cli # None /\ cli.at = "bad" /\ cli.by # "tick"
    /\ Outstanding => Pending /\ reserved = "prepared"

\* The reservation of the profile around the steps of an upgrader.
ReservedInv ==
    /\ reserved = "prepared" => Pending /\ ~edited
    /\ Upgrading /\ actor.at \notin {"reserve", "finish"} => reserved = "prepared"
    /\ Upgrading /\ actor.at = "finish" => reserved = "settled"
    /\ phase \in Terminal => reserved = "settled"

\* Whoever may start a container finds the other not running: the step before a
\* request, the request, and the tick; a start that has strayed may run it.
StartInv ==
    /\ ~Absent("old")
    /\ OneIdentity
    /\ ~strayed /\ (Issued("run_new") \/ (actor # None /\ actor.at = "run_new")) => ~Running("old")
    /\ Issued("restart_old") \/ (actor # None /\ actor.at = "restart_old") => Absent("new")
    /\ cli # None /\ cli.by = "tick" => 
          /\ cli.cmd \in {"restart_old", "start_new"}
          /\ ~strayed /\ cli.at = "running" =>
                ~Running(Other(Of(cli.cmd))) \/ Absent(Of(cli.cmd))

\* How the upgrade will be decided, and what the supervisor is left with.
Deciding == {"pin", "unhold", "settle", "finish"}
DecidedInv ==
    /\ Upgrading /\ actor.at \in Deciding => (Absent("new") <=> actor.to = "old")
    /\ Upgrading /\ actor.at \in Deciding \ {"pin"} => pinned = actor.to
    /\ phase \in Terminal => (Absent("new") <=> phase # "committed") /\ ~Absent(pinned)

UpgradeInv == TypeInv /\ ActorInv /\ LateInv /\ ReservedInv /\ StartInv /\ DecidedInv


LEMMA InitUpgrade == Init => UpgradeInv
<1> SUFFICES ASSUME Init PROVE UpgradeInv
  OBVIOUS
<1>1. /\ late = {} /\ cli = None /\ actor = None /\ phase = "none" /\ reserved = "none"
      /\ vm["old"] = "running" /\ vm["new"] = "absent"
  BY DEF Init, Containers
<1> QED
  BY <1>1, Initially
  DEF UpgradeInv, ActorInv, LateInv, ReservedInv, StartInv, DecidedInv, Upgrading, Outstanding,
      Issued, Terminal, Absent, Running, OneIdentity

\* What a request can change, and no more.
LEMMA CarriedOut ==
  ASSUME TypeOK, NEW r \in Requests
  PROVE  /\ Carried(r)["old"] = "running" => Running("old") \/ r = "restart_old"
         /\ Carried(r)["new"] = "running" =>
               Running("new") \/ (r = "run_new" /\ Absent("new")) \/ (r = "start_new" /\ Stopped("new"))
         /\ Carried(r)["old"] = "absent" <=> Absent("old")
         /\ Carried(r)["new"] = "absent" => Absent("new") \/ r = "delete_new"
         /\ Absent("new") => Carried(r)["new"] = "absent" \/ r = "run_new"
         /\ Of(r) = "old" => Carried(r)["new"] = vm["new"]
         /\ Of(r) = "new" => Carried(r)["old"] = vm["old"]
<1>1. vm \in [Containers -> {"running", "stopped", "absent"}]
  BY DEF TypeOK
<1>2. Of(r) \in Containers /\ "old" \in Containers /\ "new" \in Containers
  BY DEF Of, Containers
<1> QED
  BY <1>1, <1>2 DEF Carried, Of, Requests, Commands, Running, Stopped, Absent

Rest == ActorInv /\ LateInv /\ ReservedInv /\ StartInv /\ DecidedInv

LEMMA LateKeeps ==
  ASSUME UpgradeInv, NEW r \in late, Late(r), TypeInv'
  PROVE  Rest'
<1>1. /\ late' = late \ {r} /\ vm' \in {vm, Carried(r)}
      /\ UNCHANGED <<strayed, cli, actor, phase, call, attempts, pinned, held, starts, reserved, edited, begun>>
  BY DEF Late, strays, journal, registry, profile
<1>2. r \in Requests /\ late' = {}
  BY <1>1 DEF UpgradeInv, LateInv, TypeInv, TypeOK, Requests
<1>3. Pending /\ reserved = "prepared"
  BY DEF UpgradeInv, LateInv, Outstanding
<1>4. r = "restart_old" => Absent("new")
  BY DEF UpgradeInv, StartInv, Issued
<1>5. ~strayed /\ r = "run_new" => ~Running("old")
  BY DEF UpgradeInv, StartInv, Issued
<1>6. actor # None => actor.at = "await"
  BY DEF UpgradeInv, ActorInv, LateInv
<1>7. ActorInv'
  BY <1>1 DEF UpgradeInv, ActorInv, Upgrading, Pending
<1>8. LateInv'
  BY <1>1, <1>2, <1>3 DEF UpgradeInv, LateInv, Outstanding, Pending
<1>9. ReservedInv'
  BY <1>1 DEF UpgradeInv, ReservedInv, Upgrading, Pending
<1>10. StartInv'
  <2>1. cli # None => cli.at = "bad"
    BY DEF UpgradeInv, LateInv
  <2>2. r # "start_new"
    BY DEF UpgradeInv, TypeInv, TypeOK, Commands
  <2>3. ~Absent("old")' /\ OneIdentity'
    BY <1>1, <1>2, <1>4, <1>5, <2>2, CarriedOut
    DEF UpgradeInv, TypeInv, StartInv, OneIdentity, Running, Absent, Stopped, Of
  <2>4. \A q : ~Issued(q)'
    BY <1>1, <1>2, <2>1 DEF Issued
  <2> QED
    BY <1>1, <1>6, <2>1, <2>3, <2>4 DEF UpgradeInv, StartInv
<1>11. DecidedInv'
  BY <1>1, <1>3, <1>6 DEF UpgradeInv, DecidedInv, Upgrading, Deciding, Pending, Terminal
<1> QED
  BY <1>7, <1>8, <1>9, <1>10, <1>11 DEF Rest

LEMMA CliAppliesKeeps ==
  ASSUME UpgradeInv, CliApplies, TypeInv'
  PROVE  Rest'
<1>1. /\ cli # None /\ cli.at = "running" /\ vm' = Carried(cli.cmd)
      /\ cli' = [cli EXCEPT !.at = "applied"]
      /\ UNCHANGED <<strayed, late, actor, phase, call, attempts, pinned, held, starts, reserved, edited, begun>>
  BY DEF CliApplies, strays, journal, registry, profile
<1>2. cli \in Clis
  BY <1>1 DEF UpgradeInv, TypeInv, TypeOK
<1>3. cli' \in Clis /\ cli' # None /\ cli'.cmd = cli.cmd /\ cli'.by = cli.by /\ cli'.at = "applied"
  BY <1>1, <1>2, NoneAssumption DEF Clis
<1>4. late = {} /\ (actor # None => actor.at = "await")
  BY <1>1 DEF UpgradeInv, ActorInv, LateInv
<1>5. cli.cmd \in Requests /\ (cli.by # "tick" => cli.cmd # "start_new")
  BY <1>1, <1>2 DEF Clis, UpgradeInv, TypeInv, Commands
<1>7. ActorInv'
  BY <1>1, <1>3 DEF UpgradeInv, ActorInv, Upgrading, Pending
<1>8. LateInv'
  BY <1>1, <1>3, <1>4 DEF UpgradeInv, LateInv, Outstanding, Pending
<1>9. ReservedInv'
  BY <1>1 DEF UpgradeInv, ReservedInv, Upgrading, Pending
<1>10. StartInv'
  <2>1. cli.by # "tick" =>
           /\ ~strayed /\ cli.cmd = "run_new" => ~Running("old")
           /\ cli.cmd = "restart_old" => Absent("new")
           /\ cli.cmd # "start_new"
    BY <1>1, <1>5 DEF UpgradeInv, StartInv, Issued
  <2>2. cli.by = "tick" =>
           /\ ~strayed /\ cli.cmd = "restart_old" => ~Running("new")
           /\ ~strayed /\ cli.cmd = "start_new" /\ Stopped("new") => ~Running("old")
           /\ cli.cmd \in {"restart_old", "start_new"}
    BY <1>1 DEF UpgradeInv, StartInv, Of, Other, Stopped, Absent, Running
  <2>3. ~Absent("old")' /\ OneIdentity'
    BY <1>1, <1>5, <2>1, <2>2, CarriedOut
    DEF UpgradeInv, TypeInv, StartInv, OneIdentity, Running, Absent, Stopped, Of
  <2>4. \A r : ~Issued(r)'
    BY <1>1, <1>3, <1>4 DEF Issued
  <2> QED
    BY <1>1, <1>3, <1>4, <2>2, <2>3, <2>4 DEF StartInv
<1>11. DecidedInv'
  <2>1. cli.by # "tick" => phase = "pending"
    BY <1>1 DEF UpgradeInv, LateInv, Outstanding, Pending
  <2>2. cli.by = "tick" => cli.cmd \in {"restart_old", "start_new"}
    BY <1>1 DEF UpgradeInv, StartInv
  <2>3. phase \in Terminal => (Absent("new")' <=> Absent("new")) /\ (Absent("old")' <=> Absent("old"))
    BY <1>1, <1>5, <2>1, <2>2, CarriedOut DEF Absent, Terminal, UpgradeInv, TypeInv
  <2> QED
    BY <1>1, <1>4, <2>3 DEF UpgradeInv, DecidedInv, Upgrading, Deciding, TypeInv, TypeOK, Containers, Absent
<1> QED
  BY <1>7, <1>8, <1>9, <1>10, <1>11 DEF Rest

LEMMA CliEndsKeeps ==
  ASSUME UpgradeInv, CliEnds, TypeInv'
  PROVE  Rest'
<1>1. /\ cli # None /\ cli.at \in {"running", "applied"} /\ cli \in Clis
      /\ UNCHANGED <<strayed, vm, actor, phase, attempts, pinned, held, starts, reserved, edited, begun>>
      /\ late' = late \/ (late' = late \cup {cli.cmd} /\ cli.at = "running" /\ cli.by # "tick")
      /\ actor = None => cli' = None
      /\ actor # None => \E at \in {"done", "bad"} : cli' = [cli EXCEPT !.at = at]
      /\ actor # None /\ late' # late => cli' = [cli EXCEPT !.at = "bad"]
  BY DEF CliEnds, registry, profile, UpgradeInv, TypeInv, TypeOK
<1>2. actor # None => /\ cli' # None /\ cli'.cmd = cli.cmd /\ cli'.by = cli.by
                      /\ cli'.at \in {"done", "bad"} /\ (late' # late => cli'.at = "bad")
  BY <1>1, NoneAssumption DEF UpgradeInv, TypeInv, TypeOK, Clis
<1>3. late = {} /\ (actor # None => actor.at = "await")
  BY <1>1 DEF UpgradeInv, ActorInv, LateInv
<1>4. \A r : Issued(r)' => Issued(r)
  BY <1>1, <1>2, <1>3 DEF Issued
<1>5. Outstanding' => Outstanding
  BY <1>1, <1>2, <1>3 DEF Outstanding
<1>7. ActorInv'
  BY <1>1, <1>2 DEF UpgradeInv, ActorInv, Upgrading, Pending
<1>8. LateInv'
  BY <1>1, <1>2, <1>3, <1>5 DEF UpgradeInv, LateInv, Pending
<1>9. ReservedInv'
  BY <1>1 DEF UpgradeInv, ReservedInv, Upgrading, Pending
<1>10. StartInv'
  BY <1>1, <1>2, <1>4 DEF UpgradeInv, StartInv, OneIdentity, Running, Absent
<1>11. DecidedInv'
  BY <1>1 DEF UpgradeInv, DecidedInv, Upgrading, Absent
<1> QED
  BY <1>7, <1>8, <1>9, <1>10, <1>11 DEF Rest

\* An actor that ends leaves its command, and what that may still do, to its guardian.
LEMMA EndsKeep ==
  ASSUME UpgradeInv, GivesUp \/ Dies, TypeInv'
  PROVE  Rest'
<1>1. /\ actor' = None /\ (cli' = None \/ (cli' = cli /\ ~Collected))
      /\ UNCHANGED <<strayed, vm, late, phase, call, attempts, pinned, held, starts, reserved, edited, begun>>
  BY DEF GivesUp, Dies, strays, journal, registry, profile
<1>4. \A r : Issued(r)' => Issued(r)
  BY <1>1 DEF Issued
<1>5. Outstanding' => Outstanding
  BY <1>1 DEF Outstanding
<1>7. ActorInv'
  BY <1>1 DEF UpgradeInv, ActorInv, Upgrading, Pending, Collected
<1>8. LateInv'
  BY <1>1, <1>5 DEF UpgradeInv, LateInv, Pending
<1>9. ReservedInv'
  BY <1>1 DEF UpgradeInv, ReservedInv, Upgrading, Pending
<1>10. StartInv'
  BY <1>1, <1>4 DEF UpgradeInv, StartInv, OneIdentity, Running, Absent
<1>11. DecidedInv'
  BY <1>1 DEF UpgradeInv, DecidedInv, Upgrading, Absent
<1> QED
  BY <1>7, <1>8, <1>9, <1>10, <1>11 DEF Rest

LEMMA StoppedKeeps ==
  ASSUME UpgradeInv, Reboot \/ (\E c \in Containers : Exit(c)), TypeInv'
  PROVE  Rest'
<1>1. /\ UNCHANGED <<phase, call, attempts, pinned, held, starts, reserved, edited, begun>>
      /\ \/ UNCHANGED <<strayed, late, cli, actor>>
         \/ /\ late' = {} /\ cli' = None /\ actor' = None
            /\ \A c \in Containers : vm'[c] # "running"
      /\ \A c \in Containers : vm'[c] = vm[c] \/ (vm[c] = "running" /\ vm'[c] = "stopped")
  BY DEF Reboot, Exit, Running, strays, journal, registry, profile, UpgradeInv, TypeInv, TypeOK
<1>2. \A c \in Containers : (Running(c)' => Running(c)) /\ (Absent(c)' <=> Absent(c))
  BY <1>1 DEF Running, Absent
<1>3. "old" \in Containers /\ "new" \in Containers /\ pinned \in Containers
  BY DEF Containers, UpgradeInv, TypeInv, TypeOK
<1>4. \A r : Issued(r)' => Issued(r)
  BY <1>1 DEF Issued
<1>7. ActorInv'
  BY <1>1 DEF UpgradeInv, ActorInv, Upgrading, Pending
<1>8. LateInv'
  BY <1>1 DEF UpgradeInv, LateInv, Pending, Outstanding
<1>9. ReservedInv'
  BY <1>1 DEF UpgradeInv, ReservedInv, Upgrading, Pending
<1>10. StartInv'
  <2>1. \A c : Other(c) \in Containers /\ Of(c) \in Containers
    BY DEF Other, Of, Containers
  <2>2. CASE UNCHANGED <<strayed, late, cli, actor>>
    BY <1>1, <1>2, <1>3, <1>4, <2>1, <2>2 DEF UpgradeInv, StartInv, OneIdentity
  <2>3. CASE late' = {} /\ cli' = None /\ actor' = None /\ \A c \in Containers : vm'[c] # "running"
    BY <1>2, <1>3, <2>3 DEF UpgradeInv, StartInv, OneIdentity, Running, Issued
  <2> QED
    BY <1>1, <2>2, <2>3
<1>11. DecidedInv'
  BY <1>1, <1>2, <1>3 DEF UpgradeInv, DecidedInv, Upgrading
<1> QED
  BY <1>7, <1>8, <1>9, <1>10, <1>11 DEF Rest

\* A start that strays is the supervisor's: it makes nothing absent, and has
\* strayed where it could matter.
LEMMA StraysKeep ==
  ASSUME UpgradeInv, NEW c \in stray, Strays(c), TypeInv'
  PROVE  Rest'
<1>1. /\ vm[c] = "stopped" /\ vm' = [vm EXCEPT ![c] = "running"]
      /\ UNCHANGED <<late, cli, actor, phase, call, attempts, pinned, held, starts, reserved, edited, begun>>
      /\ c \in Containers
  BY DEF Strays, Stopped, journal, registry, profile, UpgradeInv, TypeInv, TypeOK
<1>2. strayed' = (strayed \/ Pending \/ ~Absent(Other(c)))
  BY Zenon DEF Strays
<1>3. ~strayed' => ~strayed /\ ~Pending /\ Absent(Other(c))
  BY <1>2, Zenon
<1>4. "old" \in Containers /\ "new" \in Containers /\ pinned \in Containers
  BY DEF Containers, UpgradeInv, TypeInv, TypeOK
<1>5. \A d \in Containers : (Absent(d)' <=> Absent(d)) /\ (d # c => vm'[d] = vm[d])
  BY <1>1 DEF Absent, UpgradeInv, TypeInv, TypeOK
<1>6. \A r : Issued(r)' <=> Issued(r)
  BY <1>1 DEF Issued
<1>7. ActorInv'
  BY <1>1 DEF UpgradeInv, ActorInv, Upgrading, Pending
<1>8. LateInv'
  BY <1>1 DEF UpgradeInv, LateInv, Outstanding, Pending
<1>9. ReservedInv'
  BY <1>1 DEF UpgradeInv, ReservedInv, Upgrading, Pending
<1>10. StartInv'
  <2>1. ~strayed' => c = "old" /\ Absent("new") /\ Absent("new")' /\ ~Running("new")'
    BY <1>1, <1>3, <1>4, <1>5 DEF Containers, Other, Absent, Running, UpgradeInv, StartInv
  <2>2. ~strayed' => \A r : ~Issued(r)
    BY <1>3 DEF UpgradeInv, LateInv, Outstanding, Issued
  <2>3. ~strayed' /\ actor # None => actor.at # "run_new"
    BY <1>3 DEF UpgradeInv, ActorInv, Upgrading, TypeInv, TypeOK, Works, Actors
  <2>4. ~strayed' /\ cli # None /\ cli.by = "tick" /\ cli.at = "running" =>
           ~Running(Other(Of(cli.cmd)))' \/ Absent(Of(cli.cmd))'
    <3>1. cli # None /\ cli.by = "tick" => cli.cmd \in {"restart_old", "start_new"}
      BY DEF UpgradeInv, StartInv
    <3> QED
      BY <2>1, <3>1 DEF Of, Other
  <2>5. OneIdentity'
    BY <2>1 DEF OneIdentity
  <2>6. /\ ~Absent("old")'
        /\ Issued("restart_old")' \/ (actor' # None /\ actor'.at = "restart_old") => Absent("new")'
        /\ cli' # None /\ cli'.by = "tick" => cli'.cmd \in {"restart_old", "start_new"}
    BY <1>1, <1>4, <1>5, <1>6 DEF UpgradeInv, StartInv
  <2> QED
    BY <1>1, <1>6, <2>2, <2>3, <2>4, <2>5, <2>6 DEF StartInv
<1>11. DecidedInv'
  BY <1>1, <1>4, <1>5 DEF UpgradeInv, DecidedInv, Upgrading
<1> QED
  BY <1>7, <1>8, <1>9, <1>10, <1>11 DEF Rest

LEMMA BeginKeeps ==
  ASSUME UpgradeInv, Swap \/ (Recover /\ late = {}), TypeInv'
  PROVE  Rest'
<1>1. /\ actor = None /\ cli = None /\ phase' = "pending"
      /\ UNCHANGED <<strayed, vm, late, cli, pinned, held, starts, reserved>>
      /\ actor' # None /\ actor'.at = "reserve" /\ actor'.kind \in Upgraders
      /\ actor'.kind = "recover" => actor'.to = "old"
  BY NoneAssumption DEF Swap, Recover, Free, host, strays, registry, profile, Pending, Upgraders, Works,
                        Actors, Containers, Steps
<1>2. edited' = FALSE
  BY Zenon, <1>1 DEF Swap, Recover, profile, UpgradeInv, TypeInv, TypeOK, FlagsOK
<1>3. late = {}
  BY DEF Swap, UpgradeInv, LateInv, Outstanding
<1>4. reserved = "prepared" => Pending
  BY DEF UpgradeInv, ReservedInv
<1>5. \A r : ~Issued(r)'
  BY <1>1, <1>3 DEF Issued
<1>7. ActorInv'
  BY <1>1, <1>2 DEF UpgradeInv, ActorInv, Upgrading, Pending, Upgraders
<1>8. LateInv'
  BY <1>1, <1>3 DEF UpgradeInv, LateInv, Pending, Outstanding
<1>9. ReservedInv'
  BY <1>1, <1>2, <1>4 DEF UpgradeInv, ReservedInv, Upgrading, Pending, Terminal
<1>10. StartInv'
  BY <1>1, <1>5 DEF UpgradeInv, StartInv, OneIdentity, Running, Absent
<1>11. DecidedInv'
  BY <1>1 DEF UpgradeInv, DecidedInv, Upgrading, Deciding, Terminal
<1> QED
  BY <1>7, <1>8, <1>9, <1>10, <1>11 DEF Rest

\* Who is between two commands is an upgrader with nothing outstanding.
LEMMA BetweenCommands ==
  ASSUME UpgradeInv, actor # None, actor.at # "await"
  PROVE  /\ actor \in Works /\ actor.kind \in Upgraders /\ actor.kind # "tick"
         /\ cli = None /\ late = {} /\ phase = "pending" /\ ~edited
         /\ \A r : ~Issued(r)
<1>1. actor \in Works /\ actor.kind # "tick"
  BY DEF UpgradeInv, ActorInv, TypeInv, TypeOK
<1>2. actor.kind \in Upgraders
  BY <1>1 DEF Works, Actors
<1>3. cli = None
  BY DEF UpgradeInv, ActorInv
<1>4. late = {}
  BY <1>3 DEF UpgradeInv, LateInv
<1> QED
  BY <1>1, <1>2, <1>3, <1>4 DEF UpgradeInv, ActorInv, Upgrading, Pending, Issued

\* An actor at another step is the same actor.
LEMMA Moved ==
  ASSUME NEW a \in Works, NEW step \in Steps
  PROVE  /\ [a EXCEPT !.at = step] # None /\ [a EXCEPT !.at = step].kind = a.kind
         /\ [a EXCEPT !.at = step].at = step /\ [a EXCEPT !.at = step].to = a.to
<1>1. [a EXCEPT !.at = step] \in Works
  BY DEF Works
<1> QED
  BY <1>1, NoneAssumption DEF Works

\* The steps that touch neither container nor reservation.
LEMMA StepsKeep ==
  ASSUME UpgradeInv, Hold \/ Look \/ ReadyNew \/ NotReady \/ ReadyOld \/ Pin \/ Unhold, TypeInv'
  PROVE  Rest'
<1>0. /\ actor # None /\ actor.at # "await" /\ actor.at \notin {"reserve", "finish"}
      /\ UNCHANGED <<strayed, vm, late, cli, phase, call, attempts, reserved, edited, begun>>
      /\ \/ \E step \in Steps \ {"await", "reserve", "finish"} : actor' = [actor EXCEPT !.at = step]
         \/ actor' = [actor EXCEPT !.at = "stop_new", !.to = "old"]
  BY DEF At, GoTo, Hold, Look, ReadyNew, NotReady, ReadyOld, Pin, Unhold, host, strays, journal, registry, profile,
         Steps, Commands
<1>1. /\ actor # None /\ actor.at # "await" /\ actor.at \notin {"reserve", "finish"}
      /\ UNCHANGED <<strayed, vm, late, cli, phase, call, attempts, reserved, edited, begun>>
      /\ actor' # None /\ actor'.kind = actor.kind /\ actor'.to \in {actor.to, "old"}
      /\ actor'.at \notin {"await", "reserve", "finish"}
  <2>1. actor \in Works
    BY <1>0, BetweenCommands
  <2>2. CASE actor' = [actor EXCEPT !.at = "stop_new", !.to = "old"]
    <3>1. actor' \in Works
      BY <2>1, <2>2 DEF Works, Steps, Commands, Containers
    <3> QED
      BY <1>0, <2>1, <2>2, <3>1, NoneAssumption DEF Works
  <2>3. ASSUME NEW step \in Steps \ {"await", "reserve", "finish"}, actor' = [actor EXCEPT !.at = step]
        PROVE  /\ actor' # None /\ actor'.kind = actor.kind /\ actor'.to = actor.to
               /\ actor'.at \notin {"await", "reserve", "finish"}
    <3>1. step \in Steps
      OBVIOUS
    <3> QED
      BY <2>1, <2>3, <3>1, Moved
  <2> QED
    BY <1>0, <2>2, <2>3
<1>2. /\ actor \in Works /\ actor.kind \in Upgraders
      /\ cli = None /\ late = {} /\ phase = "pending" /\ ~edited
      /\ \A r : ~Issued(r)
  BY <1>1, BetweenCommands
<1>3. \A r : ~Issued(r)'
  BY <1>1, <1>2 DEF Issued
<1>4. actor.kind = "recover" => actor.to = "old" /\ actor'.to = "old"
  BY <1>1 DEF UpgradeInv, ActorInv
<1>5. /\ actor.kind = "recover" => actor'.at \notin {"stop_old", "run_new"}
      /\ actor'.at # "run_new"
      /\ actor'.at = "look" => actor.kind = "recover"
      /\ actor'.at = "restart_old" => Absent("new")
  BY <1>1, <1>2, <1>4 DEF At, GoTo, Hold, Look, ReadyNew, NotReady, ReadyOld, Pin, Unhold, Works, Upgraders
<1>6. actor'.at \in Deciding => /\ (Absent("new") <=> actor'.to = "old")
                                /\ actor'.at # "pin" => pinned' = actor'.to
  <2>1. CASE Pin \/ Unhold
    <3>1. actor.at \in Deciding /\ actor'.to = actor.to
      BY <1>2, <2>1 DEF At, GoTo, Pin, Unhold, Deciding, Works
    <3>2. Absent("new") <=> actor.to = "old"
      BY <1>1, <1>2, <3>1 DEF UpgradeInv, DecidedInv, Upgrading
    <3>3. Pin => pinned' = actor.to
      BY DEF Pin
    <3>4. Unhold => pinned' = pinned /\ actor.at \in Deciding \ {"pin"}
      BY DEF At, Unhold, Deciding
    <3>5. Unhold => pinned' = actor.to
      BY <1>1, <1>2, <3>4 DEF UpgradeInv, DecidedInv, Upgrading
    <3> QED
      BY <2>1, <3>1, <3>2, <3>3, <3>5
  <2>2. CASE Hold \/ Look \/ NotReady
    BY <1>2, <2>2 DEF At, GoTo, Hold, Look, NotReady, Deciding, Works
  <2>3. CASE ReadyNew \/ ReadyOld
    BY <1>2, <2>3 DEF At, GoTo, ReadyNew, ReadyOld, Works, Running, Absent
  <2> QED
    BY <2>1, <2>2, <2>3
<1>7. ActorInv'
  BY <1>1, <1>2, <1>4, <1>5 DEF UpgradeInv, ActorInv, Upgrading, Pending, Upgraders
<1>8. LateInv'
  BY <1>1, <1>2 DEF UpgradeInv, LateInv, Pending, Outstanding
<1>9. ReservedInv'
  BY <1>1, <1>2 DEF UpgradeInv, ReservedInv, Upgrading, Pending, Terminal
<1>10. StartInv'
  BY <1>1, <1>2, <1>3, <1>5 DEF UpgradeInv, StartInv, OneIdentity, Running, Absent
<1>11. DecidedInv'
  BY <1>1, <1>2, <1>6 DEF UpgradeInv, DecidedInv, Upgrading, Deciding, Terminal, Absent
<1> QED
  BY <1>7, <1>8, <1>9, <1>10, <1>11 DEF Rest

LEMMA ReserveKeeps ==
  ASSUME UpgradeInv, Reserve, TypeInv'
  PROVE  Rest'
<1>1. /\ actor # None /\ actor.at = "reserve" /\ actor' = [actor EXCEPT !.at = "hold"]
      /\ reserved' = "prepared"
      /\ UNCHANGED <<strayed, vm, late, cli, phase, call, attempts, pinned, held, starts, edited, begun>>
  BY DEF Reserve, At, GoTo, host, strays, journal, registry
<1>2. /\ actor \in Works /\ actor.kind \in Upgraders
      /\ cli = None /\ late = {} /\ phase = "pending" /\ ~edited
  BY <1>1, BetweenCommands
<1>3. actor' # None /\ actor'.kind = actor.kind /\ actor'.at = "hold" /\ actor'.to = actor.to
  BY <1>1, <1>2, Moved DEF Steps
<1>7. ActorInv'
  BY <1>1, <1>2, <1>3 DEF UpgradeInv, ActorInv, Upgrading, Pending, Upgraders
<1>8. LateInv'
  BY <1>1, <1>2 DEF UpgradeInv, LateInv, Pending, Outstanding
<1>9. ReservedInv'
  BY <1>1, <1>2, <1>3 DEF ReservedInv, Upgrading, Pending, Terminal
<1>10. StartInv'
  BY <1>1, <1>2, <1>3 DEF UpgradeInv, StartInv, OneIdentity, Running, Absent, Issued
<1>11. DecidedInv'
  BY <1>1, <1>2, <1>3 DEF UpgradeInv, DecidedInv, Upgrading, Deciding, Terminal, Absent
<1> QED
  BY <1>7, <1>8, <1>9, <1>10, <1>11 DEF Rest

\* The reservation is given back with nothing outstanding; what is decided then
\* is what stands.
LEMMA FinishKeeps ==
  ASSUME UpgradeInv, Settle \/ Finish, TypeInv'
  PROVE  Rest'
<1>1. /\ actor # None /\ actor.at \in {"settle", "finish"}
      /\ UNCHANGED <<strayed, vm, late, cli, call, attempts, pinned, held, starts, edited, begun>>
  BY DEF Settle, Finish, At, host, strays, journal, registry, profile
<1>2. /\ actor \in Works /\ actor.kind \in Upgraders
      /\ cli = None /\ late = {} /\ phase = "pending" /\ ~edited
      /\ \A r : ~Issued(r)
  BY <1>1, BetweenCommands
<1>3. (Absent("new") <=> actor.to = "old") /\ pinned = actor.to
  BY <1>1, <1>2 DEF UpgradeInv, DecidedInv, Upgrading, Deciding
<1>4. actor.kind = "recover" => actor.to = "old"
  BY <1>1 DEF UpgradeInv, ActorInv
<1>5. \A r : ~Issued(r)'
  BY <1>1, <1>2 DEF Issued
<1>6. CASE Settle
  <2>1. /\ actor' # None /\ actor'.kind = actor.kind /\ actor'.at = "finish" /\ actor'.to = actor.to
        /\ reserved' = "settled" /\ phase' = phase
    <3>1. actor' = [actor EXCEPT !.at = "finish"] /\ reserved' = "settled" /\ phase' = phase
      BY <1>6 DEF Settle, GoTo, journal
    <3> QED
      BY <1>2, <3>1, Moved DEF Steps
  <2>7. ActorInv'
    BY <1>1, <1>2, <2>1 DEF UpgradeInv, ActorInv, Upgrading, Pending, Upgraders
  <2>8. LateInv'
    BY <1>1, <1>2 DEF UpgradeInv, LateInv, Pending, Outstanding
  <2>9. ReservedInv'
    BY <1>1, <1>2, <2>1 DEF ReservedInv, Upgrading, Pending, Terminal
  <2>10. StartInv'
    BY <1>1, <1>2, <2>1, <1>5 DEF UpgradeInv, StartInv, OneIdentity, Running, Absent
  <2>11. DecidedInv'
    BY <1>1, <1>2, <1>3, <2>1 DEF DecidedInv, Upgrading, Deciding, Terminal, Absent
  <2> QED
    BY <2>7, <2>8, <2>9, <2>10, <2>11 DEF Rest
<1>7. CASE Finish
  <2>1. /\ actor' = None /\ phase' \in Terminal /\ reserved' = reserved
        /\ phase' = "committed" <=> actor.to = "new"
    BY <1>2, <1>4, <1>7 DEF Finish, profile, Terminal, Works, Containers, Upgraders
  <2>2. reserved = "settled"
    BY <1>1, <1>2, <1>7 DEF Finish, At, UpgradeInv, ReservedInv, Upgrading
  <2>3. ~Absent(pinned)
    <3>1. actor.to \in {"old", "new"}
      BY <1>2 DEF Works, Containers
    <3> QED
      BY <1>3, <3>1 DEF UpgradeInv, StartInv
  <2>7. ActorInv'
    BY <1>1, <1>2, <2>1 DEF ActorInv, Upgrading
  <2>8. LateInv'
    BY <1>1, <1>2 DEF LateInv, Outstanding
  <2>9. ReservedInv'
    BY <2>1, <2>2 DEF ReservedInv, Upgrading
  <2>10. StartInv'
    BY <1>1, <1>2, <2>1, <1>5 DEF UpgradeInv, StartInv, OneIdentity, Running, Absent
  <2>11. DecidedInv'
    <3>1. actor.to \in {"old", "new"}
      BY <1>2 DEF Works, Containers
    <3> QED
      BY <1>1, <1>3, <2>1, <2>3, <3>1 DEF DecidedInv, Upgrading, Absent
  <2> QED
    BY <2>7, <2>8, <2>9, <2>10, <2>11 DEF Rest
<1> QED
  BY <1>6, <1>7

\* A request is made alone, under the reservation, and where it can only start
\* a container beside one that does not run.
LEMMA RequestKeeps ==
  ASSUME UpgradeInv, NEW r \in Commands, Request(r), TypeInv'
  PROVE  Rest'
<1>1. /\ actor # None /\ actor.at = r /\ actor' = [actor EXCEPT !.at = "await"]
      /\ cli' = [cmd |-> r, by |-> actor.kind, at |-> "running"]
      /\ UNCHANGED <<strayed, vm, late, phase, attempts, pinned, held, starts, reserved, edited, begun>>
  BY DEF Request, At, GoTo, Spawn, strays, registry, profile
<1>2. /\ actor \in Works /\ actor.kind \in Upgraders /\ actor.kind # "tick"
      /\ cli = None /\ late = {} /\ phase = "pending" /\ ~edited
  BY <1>1, BetweenCommands DEF Commands
<1>3. /\ actor' # None /\ actor'.kind = actor.kind /\ actor'.at = "await" /\ actor'.to = actor.to
  BY <1>1, <1>2, Moved DEF Steps
<1>4. cli' # None /\ cli'.cmd = r /\ cli'.by = actor.kind /\ cli'.at = "running"
  <2>1. cli' \in Clis
    BY <1>1, <1>2 DEF Clis, Requests, Actors
  <2> QED
    BY <1>1, <2>1, NoneAssumption
<1>5. reserved = "prepared"
  BY <1>1, <1>2 DEF UpgradeInv, ReservedInv, Upgrading, Commands
<1>6. actor.kind = "recover" => r \notin {"stop_old", "run_new"} /\ actor.to = "old"
  BY <1>1 DEF UpgradeInv, ActorInv
<1>7. ActorInv'
  BY <1>1, <1>2, <1>3, <1>4, <1>6 DEF ActorInv, Upgrading, Pending, Upgraders
<1>8. LateInv'
  BY <1>1, <1>2, <1>4, <1>5 DEF LateInv, Pending, Outstanding
<1>9. ReservedInv'
  BY <1>1, <1>2, <1>3, <1>5 DEF ReservedInv, Upgrading, Pending, Terminal
<1>10. StartInv'
  <2>1. \A q : Issued(q)' => q = r
    BY <1>1, <1>2, <1>4 DEF Issued
  <2> QED
    BY <1>1, <1>2, <1>3, <1>4, <2>1 DEF UpgradeInv, StartInv, OneIdentity, Running, Absent
<1>11. DecidedInv'
  BY <1>1, <1>2, <1>3 DEF DecidedInv, Upgrading, Deciding, Terminal
<1> QED
  BY <1>7, <1>8, <1>9, <1>10, <1>11 DEF Rest

\* What is observed after a command is what the next one relies on.
LEMMA AcknowledgeKeeps ==
  ASSUME UpgradeInv, Acknowledge, TypeInv'
  PROVE  Rest'
<1>1. /\ actor # None /\ actor.at = "await" /\ actor.kind # "tick" /\ cli.at = "done" /\ cli' = None
      /\ actor' = IF Observed(cli.cmd) THEN [actor EXCEPT !.at = After(cli.cmd)] ELSE None
      /\ UNCHANGED <<strayed, vm, late, phase, attempts, pinned, held, starts, reserved, edited, begun>>
  BY DEF Acknowledge, At, strays, registry, profile
<1>2. /\ actor \in Works /\ actor.kind \in Upgraders
      /\ cli # None /\ cli \in Clis /\ cli.by = actor.kind /\ cli.cmd \in Commands
  BY <1>1 DEF UpgradeInv, TypeInv, TypeOK, Works, Actors
<1>3. late = {} /\ phase = "pending" /\ ~edited /\ reserved = "prepared"
  BY <1>1, <1>2 DEF UpgradeInv, ActorInv, LateInv, ReservedInv, Upgrading, Pending
<1>4. actor.kind = "recover" => cli.cmd \notin {"stop_old", "run_new"} /\ actor.to = "old"
  BY <1>1, <1>2 DEF UpgradeInv, ActorInv
<1>5. After(cli.cmd) \in {"run_new", "delete_new", "ready", "restart_old"}
  BY <1>2 DEF After, Commands
<1>6. actor' # None =>
         /\ actor'.kind = actor.kind /\ actor'.to = actor.to /\ actor'.at = After(cli.cmd)
         /\ Observed(cli.cmd)
  BY <1>1, <1>2, <1>5, Moved DEF Steps, Commands
<1>7. actor' # None =>
         /\ actor'.at = "run_new" => ~Running("old") /\ actor.kind # "recover"
         /\ actor'.at = "restart_old" => Absent("new")
  BY <1>2, <1>4, <1>6 DEF After, Observed, Commands, Running, Stopped
<1>8. \A q : ~Issued(q)'
  BY <1>1, <1>3 DEF Issued
<1>9. ActorInv'
  BY <1>1, <1>2, <1>3, <1>4, <1>5, <1>6, <1>7 DEF ActorInv, Upgrading, Pending, Upgraders
<1>10. LateInv'
  BY <1>1, <1>3 DEF LateInv, Outstanding
<1>11. ReservedInv'
  BY <1>1, <1>3, <1>5, <1>6 DEF ReservedInv, Upgrading, Pending, Terminal
<1>12. StartInv'
  BY <1>1, <1>7, <1>8 DEF UpgradeInv, StartInv, OneIdentity, Running, Absent
<1>13. DecidedInv'
  BY <1>1, <1>3, <1>5, <1>6 DEF DecidedInv, Upgrading, Deciding, Terminal
<1> QED
  BY <1>9, <1>10, <1>11, <1>12, <1>13 DEF Rest

LEMMA StopFailedKeeps ==
  ASSUME UpgradeInv, StopFailed, TypeInv'
  PROVE  Rest'
<1>1. /\ actor # None /\ actor' = None /\ cli' = None
      /\ UNCHANGED <<strayed, vm, late, phase, call, attempts, pinned, reserved, edited, begun>>
  BY DEF StopFailed, At, strays, journal, profile
<1>2. \A q : Issued(q)' => Issued(q)
  BY <1>1 DEF Issued
<1>7. ActorInv'
  BY <1>1 DEF UpgradeInv, ActorInv, Upgrading
<1>8. LateInv'
  BY <1>1 DEF UpgradeInv, LateInv, Pending, Outstanding
<1>9. ReservedInv'
  BY <1>1 DEF UpgradeInv, ReservedInv, Upgrading, Pending
<1>10. StartInv'
  BY <1>1, <1>2 DEF UpgradeInv, StartInv, OneIdentity, Running, Absent
<1>11. DecidedInv'
  BY <1>1 DEF UpgradeInv, DecidedInv, Upgrading, Absent
<1> QED
  BY <1>7, <1>8, <1>9, <1>10, <1>11 DEF Rest

\* The supervisor finds the other container not running, and nothing late can
\* start it.
LEMMA TickKeeps ==
  ASSUME UpgradeInv, Tick, TypeInv'
  PROVE  Rest'
<1>1. /\ actor = None /\ cli = None /\ ~Pending /\ ~Running(Other(pinned))
      /\ cli' = [cmd |-> IF pinned = "old" THEN "restart_old" ELSE "start_new",
                 by |-> "tick", at |-> "running"]
      /\ actor' = [kind |-> "tick", to |-> pinned, at |-> "await"]
      /\ UNCHANGED <<strayed, vm, late, phase, call, attempts, pinned, held, reserved, edited, begun>>
  BY DEF Tick, Free, Supervised, NoConflict, Spawn, strays, journal, profile
<1>2. late = {} /\ pinned \in {"old", "new"}
  BY <1>1 DEF UpgradeInv, LateInv, Outstanding, TypeInv, TypeOK, Containers
<1>3. actor' # None /\ actor'.kind = "tick" /\ actor'.at = "await"
  BY <1>1, <1>2, NoneAssumption DEF Works, Actors, Containers, Steps
<1>4. /\ cli' # None /\ cli'.by = "tick" /\ cli'.at = "running"
      /\ cli'.cmd = IF pinned = "old" THEN "restart_old" ELSE "start_new"
  BY <1>1, <1>2, NoneAssumption DEF Clis, Requests, Commands, Actors
<1>5. cli'.cmd \in {"restart_old", "start_new"} /\ Of(cli'.cmd) = pinned
  BY <1>2, <1>4 DEF Of
<1>6. \A q : ~Issued(q)'
  BY <1>1, <1>2, <1>4 DEF Issued
<1>7. ActorInv'
  BY <1>1, <1>3, <1>4 DEF ActorInv, Upgrading, Upgraders, Pending
<1>8. LateInv'
  BY <1>1, <1>2, <1>4 DEF LateInv, Outstanding
<1>9. ReservedInv'
  BY <1>1, <1>3 DEF UpgradeInv, ReservedInv, Upgrading, Upgraders, Pending
<1>10. StartInv'
  BY <1>1, <1>3, <1>4, <1>5, <1>6 DEF UpgradeInv, StartInv, OneIdentity, Running, Absent, Of, Other
<1>11. DecidedInv'
  BY <1>1, <1>3 DEF UpgradeInv, DecidedInv, Upgrading, Upgraders, Absent
<1> QED
  BY <1>7, <1>8, <1>9, <1>10, <1>11 DEF Rest

\* The operator pins only what is there, and no pin during an upgrade.
LEMMA OutsideKeeps ==
  ASSUME UpgradeInv, Operate \/ HourPasses \/ Edit \/ UNCHANGED vars, TypeInv'
  PROVE  Rest'
<1>1. /\ UNCHANGED <<strayed, vm, late, cli, actor, phase, call, attempts, reserved, begun>>
      /\ pinned' = pinned \/ (actor = None /\ ~Absent(pinned'))
  BY Zenon DEF Operate, Free, HourPasses, Edit, vars, host, strays, journal, registry, profile
<1>2. edited' = edited \/ (reserved # "prepared" /\ ~Upgrading)
  <2>1. CASE Edit
    BY <2>1 DEF Edit, MayEdit, Upgrading, Upgraders
  <2> QED
    BY <2>1, Zenon DEF Operate, HourPasses, vars, profile
<1>3. \A q : Issued(q)' <=> Issued(q)
  BY <1>1 DEF Issued
<1>7. ActorInv'
  BY <1>1, <1>2 DEF UpgradeInv, ActorInv, Upgrading, Pending
<1>8. LateInv'
  BY <1>1 DEF UpgradeInv, LateInv, Pending, Outstanding
<1>9. ReservedInv'
  BY <1>1, <1>2 DEF UpgradeInv, ReservedInv, Upgrading, Pending
<1>10. StartInv'
  BY <1>1, <1>3 DEF UpgradeInv, StartInv, OneIdentity, Running, Absent
<1>11. DecidedInv'
  BY <1>1 DEF UpgradeInv, DecidedInv, Upgrading, Absent
<1> QED
  BY <1>7, <1>8, <1>9, <1>10, <1>11 DEF Rest

\* Every step keeps the invariant, but a recovery that begins beside a request
\* that is outstanding.
LEMMA NextUpgrade ==
  ASSUME UpgradeInv, [Next]_vars, Recover => late = {}
  PROVE  UpgradeInv'
<1>1. TypeInv'
  BY Inductive DEF UpgradeInv
<1>2. Rest'
  <2>1. CASE Upgrade
    <3>1. CASE \E r \in Commands : Request(r)
      BY <1>1, <3>1, RequestKeeps
    <3>2. CASE Swap \/ Recover
      BY <1>1, <3>2, BeginKeeps
    <3> QED
      BY <1>1, <2>1, <3>1, <3>2, ReserveKeeps, StepsKeep, AcknowledgeKeeps, StopFailedKeeps, FinishKeeps
      DEF Upgrade
  <2>2. CASE Faults
    <3>1. CASE \E r \in late : Late(r)
      BY <1>1, <3>1, LateKeeps
    <3>2. CASE \E c \in stray : Strays(c)
      BY <1>1, <3>2, StraysKeep
    <3> QED
      BY <1>1, <2>2, <3>1, <3>2, EndsKeep, StoppedKeeps DEF Faults
  <2>3. CASE CliApplies \/ CliEnds \/ Tick
    BY <1>1, <2>3, CliAppliesKeeps, CliEndsKeeps, TickKeeps
  <2>4. CASE HourPasses \/ Operate \/ Edit \/ UNCHANGED vars
    BY <1>1, <2>4, OutsideKeeps
  <2> QED
    BY <2>1, <2>2, <2>3, <2>4 DEF Next
<1> QED
  BY <1>1, <1>2 DEF Rest, UpgradeInv

-------------------------------------------------------------------------------
(* When a recovery may not begin beside an outstanding request.                *)

\* An open request has no receipt that lets a recovery begin.
Told ==
    /\ \A r \in late : \E u \in Upgraders : call[<<u, r>>] \in {"requested", "bad"}
    /\ cli # None /\ cli.by # "tick" /\ cli.at \in {"running", "applied"} =>
          call[<<cli.by, cli.cmd>>] = "requested"

\* No request is made again over a receipt that an earlier attempt has left.
FirstRequest == \A r \in Commands : Request(r) => call[<<actor.kind, r>>] = "none"

LEMMA SettledMeansNoneLate ==
  ASSUME UpgradeInv, Told, Recover
  PROVE  late = {}
<1>1. \A k \in Upgraders \X Commands : call[k] \notin {"requested", "bad"}
  BY DEF Recover, CommandsSettled, UpgradeInv, TypeInv, TypeOK
<1>2. late \subseteq Commands
  BY DEF UpgradeInv, TypeInv, TypeOK
<1> QED
  BY <1>1, <1>2 DEF Told

LEMMA ToldKept ==
  ASSUME UpgradeInv, Swap \/ Told, [Next]_vars, FirstRequest
  PROVE  Told'
<1>1. ASSUME NEW r \in Commands, Request(r) PROVE Told'
  <2>1. actor # None /\ actor.at = r
    BY <1>1 DEF Request, At
  <2>2. actor.kind \in Upgraders /\ cli = None /\ late = {}
    BY <2>1, BetweenCommands DEF Commands
  <2>3. call[<<actor.kind, r>>] = "none"
    BY <1>1 DEF FirstRequest
  <2>4. /\ call' = [call EXCEPT ![<<actor.kind, r>>] = "requested"] /\ late' = late
        /\ cli' = [cmd |-> r, by |-> actor.kind, at |-> "running"]
    BY <1>1, <2>3 DEF Request, Spawn
  <2>5. call'[<<actor.kind, r>>] = "requested"
    BY <2>2, <2>4 DEF UpgradeInv, TypeInv, TypeOK
  <2> QED
    BY <2>2, <2>4, <2>5 DEF Told
<1>2. CASE CliEnds
  <2>1. /\ cli # None /\ cli \in Clis /\ cli.at \in {"running", "applied"} /\ late = {}
    BY <1>2 DEF CliEnds, UpgradeInv, TypeInv, TypeOK, LateInv
  <2>2. cli' # None => cli'.at \in {"done", "bad"}
    BY <1>2, <2>1, NoneAssumption DEF CliEnds, Clis
  <2>3. CASE cli.by = "tick"
    BY <1>2, <2>1, <2>2, <2>3 DEF CliEnds, Told
  <2>4. CASE cli.by # "tick"
    <3>1. cli.by \in Upgraders /\ cli.cmd \in Commands
      BY <2>1, <2>4 DEF Clis, Actors, UpgradeInv, TypeInv
    <3>2. call[<<cli.by, cli.cmd>>] = "requested"
      BY <1>2, <2>1, <2>4 DEF Told, CliEnds, Swap, Free
    <3>3. late' # {} => /\ late' = {cli.cmd}
                        /\ call' \in {call, [call EXCEPT ![<<cli.by, cli.cmd>>] = "bad"]}
      BY <1>2, <2>1 DEF CliEnds
    <3>4. late' # {} => call'[<<cli.by, cli.cmd>>] \in {"requested", "bad"}
      BY <3>1, <3>2, <3>3 DEF UpgradeInv, TypeInv, TypeOK
    <3> QED
      BY <2>2, <3>1, <3>3, <3>4 DEF Told
  <2> QED
    BY <2>3, <2>4
<1>3. CASE Swap \/ Tick
  <2>1. late = {} /\ cli = None /\ late' = late
    BY <1>3 DEF Swap, Tick, Free, Supervised, host, strays, UpgradeInv, LateInv, Outstanding
  <2>2. CASE Swap
    BY <2>1, <2>2 DEF Swap, host, strays, Told
  <2>3. CASE Tick
    BY <2>1, <2>3 DEF Tick, Spawn, Told
  <2> QED
    BY <1>3, <2>2, <2>3
<1>4. CASE Acknowledge
  <2>1. late = {} /\ cli' = None /\ late' = late
    BY <1>4 DEF Acknowledge, At, UpgradeInv, TypeInv, LateInv
  <2> QED
    BY <2>1 DEF Told
<1>5. CASE CliApplies
  <2>1. cli \in Clis /\ cli' = [cli EXCEPT !.at = "applied"] /\ UNCHANGED <<late, call>>
        /\ cli.at = "running" /\ cli # None
    BY <1>5 DEF CliApplies, journal, UpgradeInv, TypeInv, TypeOK
  <2>2. cli'.by = cli.by /\ cli'.cmd = cli.cmd
    BY <2>1 DEF Clis
  <2> QED
    BY <1>5, <2>1, <2>2 DEF Told, Swap, CliApplies, Free
<1>6. ASSUME late' \subseteq late, call' = call, cli' = None \/ cli' = cli, Told PROVE Told'
  BY <1>6 DEF Told
<1>7. CASE Reserve \/ Hold \/ Look \/ ReadyNew \/ NotReady \/ ReadyOld \/ Pin \/ Unhold \/ Settle
             \/ Finish \/ Recover \/ StopFailed
  <2>1. UNCHANGED <<late, call>> /\ (cli' = None \/ cli' = cli)
    BY <1>7 DEF Reserve, Hold, Look, ReadyNew, NotReady, ReadyOld, Pin, Unhold, Settle, Finish, Recover,
                StopFailed, host, strays, journal
  <2> QED
    BY <1>3, <1>6, <2>1
<1>8. CASE Faults
  <2>1. late' \subseteq late /\ call' = call /\ (cli' = None \/ cli' = cli)
    BY <1>8 DEF Faults, GivesUp, Dies, Reboot, Exit, Late, Strays, journal
  <2> QED
    BY <1>3, <1>6, <2>1
<1>9. CASE HourPasses \/ Operate \/ Edit \/ UNCHANGED vars
  <2>1. UNCHANGED <<late, call, cli>>
    BY <1>9, Zenon DEF HourPasses, Operate, Edit, vars, host, strays, journal
  <2> QED
    BY <1>3, <1>6, <2>1
<1> QED
  BY <1>1, <1>2, <1>3, <1>4, <1>5, <1>7, <1>8, <1>9 DEF Next, Upgrade

\* The commands an upgrader may still request, from the one it stands before.
Undoing == {"stop_new", "delete_new", "restart_old"}
From(r) ==
    CASE r = "stop_old"    -> Commands
      [] r = "run_new"     -> Commands \ {"stop_old"}
      [] r = "stop_new"    -> Undoing
      [] r = "delete_new"  -> Undoing \ {"stop_new"}
      [] r = "restart_old" -> {"restart_old"}
ToCome ==
    CASE actor.at \in {"reserve", "hold", "look"}     -> Commands
      [] actor.at \in Commands                        -> From(actor.at)
      [] actor.at = "await"                           -> From(cli.cmd) \ {cli.cmd}
      [] actor.at = "ready" /\ actor.to = "new"       -> Undoing
      [] OTHER                                        -> {}

\* The swap and the first recovery have made none of the requests they may
\* still make.
Fresh ==
    /\ attempts = 0 => \A r \in Commands : call[<<"recover", r>>] = "none"
    /\ cli # None /\ cli.by = "recover" => attempts > 0
    /\ actor # None /\ actor.kind = "swap" => attempts = 0
    /\ actor # None /\ actor.kind = "recover" => attempts > 0
    /\ Upgrading /\ attempts < 2 => \A r \in ToCome : call[<<actor.kind, r>>] = "none"
    /\ Upgrading /\ (actor.at \in Undoing \/ (actor.at = "await" /\ cli.cmd \in Undoing)) =>
          actor.to = "old"
FewInv == Fresh /\ (attempts < 2 => Told)

LEMMA FromIs ==
  /\ \A r \in Commands : r \in From(r) /\ From(r) \subseteq Commands
  /\ From("run_new") = From("stop_old") \ {"stop_old"}
  /\ From("run_new") \ {"run_new"} = Undoing
  /\ From("stop_new") = Undoing
  /\ From("delete_new") = From("stop_new") \ {"stop_new"}
  /\ From("restart_old") = From("delete_new") \ {"delete_new"}
  /\ From("stop_old") = Commands
  BY DEF From, Undoing, Commands

\* What is to come is fresh, so it is a first request while attempts are few.
LEMMA FewAreFirst ==
  ASSUME UpgradeInv, FewInv, attempts < 2
  PROVE  FirstRequest
<1> SUFFICES ASSUME NEW r \in Commands, Request(r) PROVE call[<<actor.kind, r>>] = "none"
  BY DEF FirstRequest
<1>1. actor # None /\ actor.at = r
  BY DEF Request, At
<1>2. Upgrading
  BY <1>1, BetweenCommands DEF Upgrading, Commands
<1>3. ToCome = From(r)
  BY <1>1 DEF ToCome, Commands
<1> QED
  BY <1>2, <1>3, FromIs DEF FewInv, Fresh

LEMMA FewInit == ASSUME Init PROVE FewInv
<1>1. /\ attempts = 0 /\ late = {} /\ cli = None /\ actor = None /\ call = NoCalls
  BY DEF Init
<1> QED
  BY <1>1 DEF FewInv, Fresh, Told, NoCalls, Upgrading, Upgraders

LEMMA FreshRequest ==
  ASSUME UpgradeInv, Fresh, NEW r \in Commands, Request(r)
  PROVE  Fresh'
<1>1. actor # None /\ actor.at = r
  BY DEF Request, At
<1>2. actor.kind \in Upgraders /\ actor \in Works /\ Upgrading
  BY <1>1, BetweenCommands DEF Commands, Upgrading
<1>3. /\ actor' = [actor EXCEPT !.at = "await"] /\ attempts' = attempts
      /\ call' \in {call, [call EXCEPT ![<<actor.kind, r>>] = "requested"]}
      /\ cli' = [cmd |-> r, by |-> actor.kind, at |-> "running"]
  BY DEF Request, GoTo, Spawn
<1>4. /\ actor' # None /\ actor'.kind = actor.kind /\ actor'.at = "await" /\ actor'.to = actor.to
  BY <1>2, <1>3, Moved DEF Steps
<1>5. cli'.cmd = r /\ cli'.by = actor.kind
  BY <1>3
<1>6. ToCome = From(r) /\ ToCome' = From(r) \ {r}
  BY <1>1, <1>4, <1>5 DEF ToCome, Commands
<1>7. \A u \in Upgraders, q \in Commands : <<u, q>> # <<actor.kind, r>> => call'[<<u, q>>] = call[<<u, q>>]
  BY <1>3 DEF UpgradeInv, TypeInv, TypeOK
<1>8. attempts \in Nat /\ (attempts = 0 => actor.kind = "swap")
  BY <1>1, <1>2, LimitsAssumption DEF UpgradeInv, TypeInv, TypeOK, Fresh, Upgraders
<1>9. (Upgrading /\ attempts < 2)' => \A q \in ToCome' : call'[<<actor'.kind, q>>] = "none"
  BY <1>2, <1>3, <1>4, <1>6, <1>7, FromIs DEF Fresh
<1>10. attempts' = 0 => \A q \in Commands : call'[<<"recover", q>>] = "none"
  BY <1>3, <1>7, <1>8 DEF Fresh, Upgraders
<1>11. r \in Undoing => actor.to = "old"
  BY <1>1, <1>2 DEF Fresh
<1> QED
  <2>1. (cli # None /\ cli.by = "recover" => attempts > 0)'
    BY <1>1, <1>2, <1>3, <1>5 DEF Fresh
  <2>2. /\ (actor # None /\ actor.kind = "swap" => attempts = 0)'
        /\ (actor # None /\ actor.kind = "recover" => attempts > 0)'
    BY <1>1, <1>3, <1>4 DEF Fresh
  <2>3. (Upgrading /\ (actor.at \in Undoing \/ (actor.at = "await" /\ cli.cmd \in Undoing)) =>
            actor.to = "old")'
    BY <1>4, <1>5, <1>11 DEF Undoing
  <2> QED
    BY <1>9, <1>10, <2>1, <2>2, <2>3 DEF Fresh

LEMMA FreshAcknowledge ==
  ASSUME UpgradeInv, Fresh, Acknowledge
  PROVE  Fresh'
<1>1. /\ actor # None /\ actor.at = "await" /\ actor.kind # "tick" /\ cli' = None
      /\ actor' = IF Observed(cli.cmd) THEN [actor EXCEPT !.at = After(cli.cmd)] ELSE None
      /\ call' = [call EXCEPT ![<<actor.kind, cli.cmd>>] = "acked"] /\ attempts' = attempts
  BY DEF Acknowledge, At
<1>2. /\ actor \in Works /\ actor.kind \in Upgraders /\ Upgrading
      /\ cli # None /\ cli.by = actor.kind /\ cli.cmd \in Commands
  BY <1>1 DEF UpgradeInv, TypeInv, TypeOK, Works, Actors, Upgrading, Upgraders
<1>3. \A u \in Upgraders, q \in Commands : <<u, q>> # <<actor.kind, cli.cmd>> => call'[<<u, q>>] = call[<<u, q>>]
  BY <1>1 DEF UpgradeInv, TypeInv, TypeOK
<1>4. attempts \in Nat /\ (attempts = 0 => actor.kind = "swap")
  BY <1>1, <1>2, LimitsAssumption DEF UpgradeInv, TypeInv, TypeOK, Fresh, Upgraders
<1>5. attempts' = 0 => \A q \in Commands : call'[<<"recover", q>>] = "none"
  BY <1>1, <1>3, <1>4 DEF Fresh, Upgraders
<1>6. After(cli.cmd) \in {"run_new", "delete_new", "ready", "restart_old"}
  BY <1>2 DEF After, Commands
<1>7. actor' # None =>
         /\ actor'.kind = actor.kind /\ actor'.to = actor.to /\ actor'.at = After(cli.cmd)
  BY <1>1, <1>2, <1>6, Moved DEF Steps, Commands
<1>8. cli.cmd \in Undoing => actor.to = "old"
  BY <1>1, <1>2 DEF Fresh
<1>9. actor' # None => ToCome' \subseteq From(cli.cmd) \ {cli.cmd}
  <2>1. CASE cli.cmd = "stop_old"
    BY <1>7, <2>1, FromIs DEF After, ToCome, Commands
  <2>2. CASE cli.cmd = "run_new"
    BY <1>7, <2>2, FromIs DEF After, ToCome, Commands
  <2>3. CASE cli.cmd = "stop_new"
    BY <1>7, <2>3, FromIs DEF After, ToCome, Commands
  <2>4. CASE cli.cmd = "delete_new"
    BY <1>7, <1>8, <2>4, FromIs DEF After, ToCome, Commands, Undoing
  <2>5. CASE cli.cmd = "restart_old"
    BY <1>7, <1>8, <2>5, FromIs DEF After, ToCome, Commands, Undoing
  <2> QED
    BY <1>2, <2>1, <2>2, <2>3, <2>4, <2>5 DEF Commands
<1>10. ToCome = From(cli.cmd) \ {cli.cmd}
  BY <1>1 DEF ToCome, Commands
<1>11. (Upgrading /\ attempts < 2)' => \A q \in ToCome' : call'[<<actor'.kind, q>>] = "none"
  BY <1>1, <1>2, <1>3, <1>7, <1>9, <1>10, FromIs DEF Fresh, Upgrading
<1>12. actor' # None /\ actor'.at \in Undoing => actor.to = "old"
  BY <1>2, <1>7, <1>8 DEF After, Undoing, Commands
<1> QED
  <2>1. (cli # None /\ cli.by = "recover" => attempts > 0)'
    BY <1>1
  <2>2. /\ (actor # None /\ actor.kind = "swap" => attempts = 0)'
        /\ (actor # None /\ actor.kind = "recover" => attempts > 0)'
    BY <1>1, <1>7 DEF Fresh
  <2>3. (Upgrading /\ (actor.at \in Undoing \/ (actor.at = "await" /\ cli.cmd \in Undoing)) =>
            actor.to = "old")'
    BY <1>6, <1>7, <1>12 DEF Undoing, Upgrading
  <2> QED
    BY <1>5, <1>11, <2>1, <2>2, <2>3 DEF Fresh

LEMMA FreshMoves ==
  ASSUME UpgradeInv, Fresh,
         Reserve \/ Hold \/ Look \/ ReadyNew \/ NotReady \/ ReadyOld \/ Pin \/ Unhold \/ Settle
  PROVE  Fresh'
<1> USE DEF At, GoTo
<1>1. actor # None /\ actor.at # "await" /\ UNCHANGED <<cli, call, attempts>>
  BY DEF Reserve, Hold, Look, ReadyNew, NotReady, ReadyOld, Pin, Unhold, Settle, host, strays, journal
<1>2. actor \in Works /\ actor.kind \in Upgraders /\ cli = None /\ Upgrading
  BY <1>1, BetweenCommands DEF Upgrading
<1>3. ASSUME NEW step \in Steps \ {"await"}, actor' = [actor EXCEPT !.at = step],
             step \in Commands \/ step \in {"hold", "look"} => actor.at \in {"reserve", "hold", "look"},
             step = "ready" => actor.to = "old",
             step # "reserve", step \in Undoing => actor.to = "old"
      PROVE  Fresh'
  <2>1. step \in Steps
    OBVIOUS
  <2>2. /\ actor' # None /\ actor'.kind = actor.kind /\ actor'.to = actor.to /\ actor'.at = step
    BY <1>2, <1>3, <2>1, Moved
  <2>3. ToCome' \subseteq ToCome
    <3>1. CASE step \in Commands \/ step \in {"hold", "look"}
      <4>1. ToCome = Commands
        BY <1>3, <3>1 DEF ToCome, Commands
      <4>2. ToCome' \subseteq Commands
        BY <2>2, <3>1, FromIs DEF ToCome, Commands
      <4> QED
        BY <4>1, <4>2
    <3>2. CASE step \notin Commands /\ step \notin {"hold", "look"}
      BY <1>3, <2>2, <3>2 DEF ToCome, Commands
    <3> QED
      BY <3>1, <3>2
  <2>4. (Upgrading /\ attempts < 2)' => \A q \in ToCome' : call'[<<actor'.kind, q>>] = "none"
    BY <1>1, <1>2, <2>2, <2>3 DEF Fresh
  <2>5. (Upgrading /\ (actor.at \in Undoing \/ (actor.at = "await" /\ cli.cmd \in Undoing)) =>
            actor.to = "old")'
    BY <1>3, <2>2 DEF Undoing
  <2>6. /\ (actor # None /\ actor.kind = "swap" => attempts = 0)'
        /\ (actor # None /\ actor.kind = "recover" => attempts > 0)'
    BY <1>1, <2>2 DEF Fresh
  <2> QED
    BY <1>1, <2>4, <2>5, <2>6 DEF Fresh
<1>4. actor.kind = "recover" => actor.to = "old"
  BY <1>1 DEF UpgradeInv, ActorInv
<1>5. CASE NotReady
  <2>1. actor' = [actor EXCEPT !.at = "stop_new", !.to = "old"] /\ actor.at = "ready" /\ actor.to = "new"
    BY <1>5 DEF NotReady
  <2>2. actor' # None /\ actor'.kind = actor.kind /\ actor'.to = "old" /\ actor'.at = "stop_new"
    <3>1. actor' \in Works
      BY <1>2, <2>1 DEF Works, Steps, Commands, Containers
    <3> QED
      BY <1>2, <2>1, <3>1, NoneAssumption DEF Works
  <2>3. ToCome = Undoing
    BY <2>1 DEF ToCome, Commands
  <2>4. ToCome' = Undoing
    BY <2>2, FromIs DEF ToCome, Commands
  <2>5. (Upgrading /\ attempts < 2)' => \A q \in ToCome' : call'[<<actor'.kind, q>>] = "none"
    BY <1>1, <1>2, <2>2, <2>3, <2>4 DEF Fresh
  <2>6. /\ (actor # None /\ actor.kind = "swap" => attempts = 0)'
        /\ (actor # None /\ actor.kind = "recover" => attempts > 0)'
    BY <1>1, <2>2 DEF Fresh
  <2> QED
    BY <1>1, <2>2, <2>5, <2>6 DEF Fresh
<1>6. CASE Reserve \/ Hold
  <2>1. \E step \in {"hold", "look", "stop_old"} :
           actor' = [actor EXCEPT !.at = step] /\ actor.at \in {"reserve", "hold"}
    BY <1>6 DEF Reserve, Hold
  <2> QED
    BY <1>3, <2>1 DEF Steps, Commands, Undoing
<1>7. CASE Look
  <2>1. actor.kind = "recover"
    BY <1>2, <1>7 DEF Look, UpgradeInv, ActorInv
  <2>2. \E step \in {"stop_new", "delete_new", "restart_old", "ready"} :
           actor' = [actor EXCEPT !.at = step] /\ actor.at = "look"
    BY <1>7 DEF Look
  <2> QED
    BY <1>3, <1>4, <2>1, <2>2 DEF Steps, Commands, Undoing
<1>8. CASE ReadyNew \/ ReadyOld \/ Pin \/ Unhold \/ Settle
  <2>1. \E step \in {"pin", "unhold", "settle", "finish"} : actor' = [actor EXCEPT !.at = step]
    BY <1>8 DEF ReadyNew, ReadyOld, Pin, Unhold, Settle
  <2> QED
    BY <1>3, <2>1 DEF Steps, Commands, Undoing
<1> QED
  BY <1>5, <1>6, <1>7, <1>8

LEMMA FreshCliEnds ==
  ASSUME UpgradeInv, Fresh, CliEnds
  PROVE  Fresh'
<1>1. /\ cli # None /\ cli \in Clis /\ cli.at \in {"running", "applied"}
      /\ UNCHANGED <<actor, attempts>> /\ (cli.by = "tick" => call' = call)
      /\ \E v \in {"done", "bad", "unspawned"} : call' \in {call, [call EXCEPT ![<<cli.by, cli.cmd>>] = v]}
      /\ actor = None => cli' = None
      /\ actor # None => \E at \in {"done", "bad"} : cli' = [cli EXCEPT !.at = at]
  BY DEF CliEnds, UpgradeInv, TypeInv, TypeOK
<1>2. actor # None => cli'.cmd = cli.cmd /\ cli'.by = cli.by /\ actor.at = "await" /\ cli.by = actor.kind
  BY <1>1 DEF Clis, UpgradeInv, ActorInv, TypeInv
<1>3. \A u \in Upgraders, q \in Commands : <<u, q>> # <<cli.by, cli.cmd>> => call'[<<u, q>>] = call[<<u, q>>]
  BY <1>1 DEF UpgradeInv, TypeInv, TypeOK
<1>4. attempts' = 0 => \A q \in Commands : call'[<<"recover", q>>] = "none"
  <2>1. SUFFICES ASSUME attempts' = 0, NEW q \in Commands PROVE call'[<<"recover", q>>] = "none"
    OBVIOUS
  <2>2. attempts = 0 /\ cli.by # "recover"
    BY <1>1, <2>1 DEF Fresh
  <2>3. <<"recover", q>> # <<cli.by, cli.cmd>>
    BY <2>2
  <2>4. call'[<<"recover", q>>] = call[<<"recover", q>>]
    BY <1>3, <2>3 DEF Upgraders
  <2> QED
    BY <2>2, <2>4 DEF Fresh
<1>5. actor # None => ToCome' = ToCome /\ ToCome = From(cli.cmd) \ {cli.cmd}
  BY <1>1, <1>2 DEF ToCome, Commands
<1>6. (Upgrading /\ attempts < 2)' => \A q \in ToCome' : call'[<<actor'.kind, q>>] = "none"
  <2>1. cli.by # "tick" => cli.cmd \in Commands
    BY <1>1 DEF UpgradeInv, TypeInv
  <2> QED
    BY <1>1, <1>2, <1>3, <1>5, <2>1, FromIs DEF Fresh, Upgrading, Upgraders
<1>7. (Upgrading /\ (actor.at \in Undoing \/ (actor.at = "await" /\ cli.cmd \in Undoing)) =>
          actor.to = "old")'
  BY <1>1, <1>2 DEF Fresh, Upgrading, Undoing
<1>8. (cli # None /\ cli.by = "recover" => attempts > 0)'
  BY <1>1, <1>2 DEF Fresh
<1> QED
  BY <1>1, <1>4, <1>6, <1>7, <1>8 DEF Fresh

LEMMA FreshOtherwise ==
  ASSUME UpgradeInv, Fresh, UNCHANGED <<call, attempts>>,
         actor' = None \/ (actor' = actor /\ cli' = cli) \/ ~Upgrading',
         cli' = None \/ cli' = cli \/ cli'.by = "tick" \/ (cli # None /\ cli'.by = cli.by),
         actor' = actor \/ actor' = None \/ actor'.kind = "tick"
  PROVE  Fresh'
<1>1. actor' = actor /\ cli' = cli => ToCome' = ToCome
  BY DEF ToCome
<1>2. (Upgrading /\ attempts < 2)' => \A q \in ToCome' : call'[<<actor'.kind, q>>] = "none"
  BY <1>1 DEF Fresh, Upgrading
<1>3. (Upgrading /\ (actor.at \in Undoing \/ (actor.at = "await" /\ cli.cmd \in Undoing)) =>
          actor.to = "old")'
  BY DEF Fresh, Upgrading
<1>4. (cli # None /\ cli.by = "recover" => attempts > 0)'
  BY DEF Fresh
<1> QED
  BY <1>2, <1>3, <1>4 DEF Fresh

LEMMA FreshBegin ==
  ASSUME UpgradeInv, Fresh, Swap \/ Recover
  PROVE  Fresh'
<1>1. /\ actor' # None /\ actor'.at = "reserve" /\ cli' = None /\ attempts \in Nat
      /\ \/ actor'.kind = "swap" /\ call' = NoCalls /\ attempts' = 0
         \/ actor'.kind = "recover" /\ call' = call /\ attempts' = attempts + 1
  BY NoneAssumption, LimitsAssumption
  DEF Swap, Recover, Free, host, strays, Works, Actors, Upgraders, Containers, Steps, UpgradeInv, TypeInv, TypeOK
<1>2. ToCome' = Commands
  BY <1>1 DEF ToCome, Commands
<1>3. (Upgrading /\ attempts < 2)' => \A q \in ToCome' : call'[<<actor'.kind, q>>] = "none"
  BY <1>1, <1>2 DEF Fresh, NoCalls, Upgraders
<1>4. attempts' = 0 => \A q \in Commands : call'[<<"recover", q>>] = "none"
  <2>1. SUFFICES ASSUME attempts' = 0, NEW q \in Commands PROVE call'[<<"recover", q>>] = "none"
    OBVIOUS
  <2>2. call' = NoCalls
    BY <1>1, <2>1
  <2>3. <<"recover", q>> \in Upgraders \X Commands
    BY DEF Upgraders
  <2> QED
    BY <2>2, <2>3 DEF NoCalls
<1>5. (Upgrading /\ (actor.at \in Undoing \/ (actor.at = "await" /\ cli.cmd \in Undoing)) =>
          actor.to = "old")'
  BY <1>1 DEF Undoing
<1> QED
  BY <1>1, <1>3, <1>4, <1>5 DEF Fresh

LEMMA FreshKept ==
  ASSUME UpgradeInv, Fresh, [Next]_vars
  PROVE  Fresh'
<1>1. CASE \E r \in Commands : Request(r)
  BY <1>1, FreshRequest
<1>2. CASE CliApplies
  <2>1. /\ cli \in Clis /\ cli # None /\ cli' = [cli EXCEPT !.at = "applied"]
        /\ UNCHANGED <<actor, call, attempts>>
    BY <1>2 DEF CliApplies, journal, UpgradeInv, TypeInv, TypeOK
  <2>2. cli'.by = cli.by /\ cli'.cmd = cli.cmd
    BY <2>1 DEF Clis
  <2>3. ToCome' = ToCome
    BY <2>1, <2>2 DEF ToCome
  <2> QED
    BY <2>1, <2>2, <2>3 DEF Fresh, Upgrading
<1>3. CASE StopFailed \/ Finish \/ GivesUp \/ Dies \/ Reboot
  <2>1. actor' = None /\ (cli' = None \/ cli' = cli) /\ UNCHANGED <<call, attempts>>
    BY <1>3 DEF StopFailed, Finish, GivesUp, Dies, Reboot, host, strays, journal
  <2> QED
    BY <2>1, FreshOtherwise
<1>4. CASE Tick
  <2>1. cli'.by = "tick" /\ actor'.kind = "tick" /\ UNCHANGED <<call, attempts>>
    BY <1>4 DEF Tick, Spawn, journal
  <2> QED
    BY <2>1, FreshOtherwise DEF Upgrading, Upgraders
<1>5. CASE \/ \E c \in Containers : Exit(c)
           \/ \E r \in late : Late(r)
           \/ \E c \in stray : Strays(c)
           \/ HourPasses \/ Operate \/ Edit \/ UNCHANGED vars
  <2>1. UNCHANGED <<actor, cli, call, attempts>>
    BY <1>5, Zenon DEF Exit, Late, Strays, HourPasses, Operate, Edit, vars, host, strays, journal
  <2> QED
    BY <2>1, FreshOtherwise
<1> QED
  BY <1>1, <1>2, <1>3, <1>4, <1>5, FreshAcknowledge, FreshMoves, FreshCliEnds, FreshBegin
  DEF Next, Upgrade, Faults

\* While attempts are few no receipt is an earlier attempt's.
LEMMA FewKept ==
  ASSUME UpgradeInv, FewInv, [Next]_vars
  PROVE  FewInv'
<1>1. Fresh'
  BY FreshKept DEF FewInv
<1>2. ASSUME attempts' < 2 PROVE Told'
  <2>1. CASE Swap
    <3>1. FirstRequest
      BY <2>1, BetweenCommands DEF FirstRequest, Request, At, Swap, Free
    <3> QED
      BY <2>1, <3>1, ToldKept
  <2>2. CASE ~Swap
    <3>1. attempts' = attempts \/ attempts' = attempts + 1
      <4>1. CASE Upgrade
        BY <2>2, <4>1 DEF Upgrade, Recover, Reserve, Hold, Look, Request, Acknowledge,
           StopFailed, ReadyNew, NotReady, ReadyOld, Pin, Unhold, Settle, Finish, journal
      <4>2. CASE Faults
        BY <4>2 DEF Faults, GivesUp, Dies, Reboot, Exit, Late, Strays, journal
      <4>3. CASE ~Upgrade /\ ~Faults
        BY <4>3, Zenon DEF Next, CliApplies, CliEnds, Tick, HourPasses, Operate, Edit, vars, journal
      <4> QED
        BY <4>1, <4>2, <4>3
    <3>2. attempts < 2
      BY <1>2, <3>1, LimitsAssumption DEF UpgradeInv, TypeInv, TypeOK
    <3> QED
      BY <3>2, FewAreFirst, ToldKept DEF FewInv
  <2> QED
    BY <2>1, <2>2
<1> QED
  BY <1>1, <1>2 DEF FewInv

-------------------------------------------------------------------------------
\* No upgrade repeats a request over a receipt; or none makes the third of the
\* attempts that MaxRecoveries allows in the code.
RequestedOnce == [][FirstRequest]_vars
TwoAttempts == [](attempts <= 2)

\* The upgrade's invariant, for any number of recoveries that make no request
\* over a receipt of an earlier one, with starts of the supervisor that arrive
\* late: they make no container absent and touch nothing the upgrade relies on,
\* but that the old container is still stopped.
THEOREM RequestedOnceInvariance == Spec /\ RequestedOnce => [](UpgradeInv /\ Told)
<1>1. Init => UpgradeInv /\ Told
  <2>1. Init => late = {} /\ cli = None
    BY DEF Init
  <2> QED
    BY <2>1, InitUpgrade DEF Told
<1>2. UpgradeInv /\ Told /\ [Next]_vars /\ [FirstRequest]_vars => (UpgradeInv /\ Told)'
  <2> SUFFICES ASSUME UpgradeInv, Told, [Next]_vars, [FirstRequest]_vars PROVE (UpgradeInv /\ Told)'
    OBVIOUS
  <2>1. UpgradeInv'
    BY SettledMeansNoneLate, NextUpgrade
  <2>2. CASE FirstRequest
    BY <2>1, <2>2, ToldKept
  <2>3. CASE UNCHANGED vars
    BY <2>1, <2>3 DEF Told, vars, host, strays, journal
  <2> QED
    BY <2>1, <2>2, <2>3
<1> QED
  BY <1>1, <1>2, PTL DEF Spec, RequestedOnce

\* The upgrade's invariant in the swap and its first two recoveries: the second
\* may lose a request whose receipt is older, but only a third would believe it.
THEOREM TwoAttemptsInvariance == Spec /\ TwoAttempts => [](UpgradeInv /\ FewInv)
<1>1. Init => UpgradeInv /\ FewInv
  BY InitUpgrade, FewInit
<1>2. UpgradeInv /\ FewInv /\ [Next]_vars /\ (attempts <= 2)' => (UpgradeInv /\ FewInv)'
  <2> SUFFICES ASSUME UpgradeInv, FewInv, [Next]_vars, attempts' <= 2 PROVE (UpgradeInv /\ FewInv)'
    OBVIOUS
  <2>1. Recover => late = {}
    <3>1. Recover => attempts < 2
      BY LimitsAssumption DEF Recover, UpgradeInv, TypeInv, TypeOK
    <3> QED
      BY <3>1, SettledMeansNoneLate DEF FewInv
  <2> QED
    BY <2>1, NextUpgrade, FewKept
<1> QED
  BY <1>1, <1>2, PTL DEF Spec, TwoAttempts

LEMMA UpgradeInvHolds == Spec /\ (RequestedOnce \/ TwoAttempts) => []UpgradeInv
  BY RequestedOnceInvariance, TwoAttemptsInvariance, PTL

\* No upgrade and no start the supervisor waits for makes the two containers of
\* one identity run together, whoever dies where, unless a third attempt takes
\* an old receipt for that of a repeated request (apple_upgrade_recovery.py
\* _settled_commands).  A start of the supervisor carried out after its command
\* was killed is excepted by OneIdentity itself: that one does.
THEOREM OneIdentityHolds == Spec /\ (RequestedOnce \/ TwoAttempts) => []OneIdentity
<1>1. UpgradeInv => OneIdentity
  BY DEF UpgradeInv, StartInv
<1> QED
  BY <1>1, UpgradeInvHolds, PTL

\* A decided upgrade has nothing outstanding, its reservation is settled and the
\* pinned container is there, under the same condition (swap and recover).
THEOREM DecidedMeansDoneHolds == Spec /\ (RequestedOnce \/ TwoAttempts) => []DecidedMeansDone
<1>1. UpgradeInv => DecidedMeansDone
  BY DEF UpgradeInv, LateInv, ReservedInv, DecidedInv, DecidedMeansDone, Pending, Terminal
<1> QED
  BY <1>1, UpgradeInvHolds, PTL

\* What an upgrade still does to the containers, it does under the configuration
\* it was reviewed for, under the same condition (reserve_configuration, settle).
THEOREM ChangedUnderReviewHolds == Spec /\ (RequestedOnce \/ TwoAttempts) => []ChangedUnderReview
<1>1. UpgradeInv => ChangedUnderReview
  BY DEF UpgradeInv, LateInv, ReservedInv, ChangedUnderReview
<1> QED
  BY <1>1, UpgradeInvHolds, PTL
===============================================================================

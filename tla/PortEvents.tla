------------------------------ MODULE PortEvents ------------------------------
(* aiport_candidate.py and aiport_camera_engine.py: how the tracks of one pool *)
(* camera become the one ongoing smart event Protect keeps for it.  The model  *)
(* worker publishes results, the control task revokes policies, and both are   *)
(* suspended between two candidates of a batch, at a snapshot, in a send or    *)
(* before it, for the lock all senders share; stop closes what is open.        *)
(* Cameras have no state in common here.  The follow-up of held packages is    *)
(* in its default mode, in which it announces nothing.                         *)
EXTENDS Naturals, Sequences, FiniteSets

CONSTANTS
    Tracks,     \* track identifiers one tracker may give out, from 1
    MAX_TRACKS  \* objects a message carries and a tracker has at once: 32

ASSUME TracksAssumption == Tracks \subseteq Nat \ {0} /\ IsFiniteSet(Tracks)
ASSUME MaxTracksAssumption == MAX_TRACKS \in Nat \ {0}

VARIABLES
    link,       \* the control link: "down", "up" or "agreed"
    net,        \* its socket still carries what is written to it
    wanted,     \* Protect asked for the stream
    stream,     \* list_streams names the camera
    usable,     \* is_available: the model has not given the camera up
    policy,     \* the engine has a policy for the camera
    active,     \* engine._active: tracks it has announced
    used,       \* identifiers the present tracker has confirmed
    queued,     \* a frame waits for the model
    frame,      \* the frame the model has: "none", or its policy's generation is
                \* "fresh" (still the engine's) or "stale"
    session,    \* _pool_sessions[camera], or NoSession
    pub,        \* what the "worker" and the "control" task are publishing
    kept,       \* the session the worker holds, once it is no longer the camera's
    ahead,      \* who is before each sender at the _send_lock
    stopping,   \* stop: "no", "sealed", "closing", then "closed", or "cut" short
    missed,     \* tracks announced while there was no stream or link to tell
    event       \* the event at Protect, as this link has reported it

engine == <<policy, active, used>>
feed == <<queued, frame, usable>>
media == <<wanted, stream>>
line == <<link, net>>
vars == <<line, media, engine, feed, session, pub, kept, ahead, stopping, missed, event>>

NoSession == [there |-> FALSE, active |-> {}, seen |-> {}]
NewSession == [NoSession EXCEPT !.there = TRUE]
NoEvent == [open |-> FALSE, stale |-> FALSE, unsent |-> FALSE]
Idle == [at |-> "idle", batch |-> <<>>, on |-> FALSE, live |-> FALSE,
         stale |-> FALSE, say |-> "none", then |-> "none"]
NotHeld == [own |-> FALSE, active |-> {}]

Pubs == {"worker", "control"}
Senders == Pubs \cup {"stop"}
Changes == [edge : {"enter", "moving", "leave"}, track : Tracks]
Publishing == [at : {"idle", "ready", "snap", "wait", "send", "reply"},
               batch : Seq(Changes), on : BOOLEAN, live : BOOLEAN, stale : BOOLEAN,
               say : {"none", "enter", "moving", "leave"},
               then : {"none", "result", "failed", "unavailable", "revoke",
                       "settings", "lost"}]

TypeOK ==
    /\ link \in {"down", "up", "agreed"}
    /\ stopping \in {"no", "sealed", "closing", "closed", "cut"}
    /\ {net, wanted, stream, usable, policy, queued} \subseteq BOOLEAN
    /\ active \subseteq used /\ used \subseteq Tracks /\ missed \subseteq active
    /\ frame \in {"none", "fresh", "stale"}
    /\ session \in [there : BOOLEAN, active : SUBSET Tracks, seen : SUBSET Tracks]
    /\ session.active \subseteq session.seen
    /\ pub \in [Pubs -> Publishing]
    /\ kept \in [own : BOOLEAN, active : SUBSET Tracks]
    /\ ahead \in [Senders -> SUBSET Senders]
    /\ event \in [open : BOOLEAN, stale : BOOLEAN, unsent : BOOLEAN]
    /\ active # {} => policy

Init ==
    /\ link = "down" /\ net = FALSE
    /\ wanted = FALSE /\ stream = FALSE /\ usable = TRUE
    /\ policy = FALSE /\ active = {} /\ used = {} /\ missed = {}
    /\ queued = FALSE /\ frame = "none"
    /\ session = NoSession /\ kept = NotHeld
    /\ pub = [p \in Pubs |-> Idle]
    /\ ahead = [s \in Senders |-> {}]
    /\ stopping = "no"
    /\ event = NoEvent

-------------------------------------------------------------------------------
\* Between two awaits a task runs alone.
Settled == \A p \in Pubs : pub[p].at # "ready"
Free(p) == Settled /\ pub[p].at = "idle"

Set(p, fields) == pub' = [pub EXCEPT ![p] = fields]

Orders(S) == {s \in [1..Cardinality(S) -> S] : \A i, k \in DOMAIN s : s[i] = s[k] => i = k}

\* _send_lock is granted in the order of arrival; any other message of the link
\* (a reply, a motion or sound event, another camera's) may hold it as well.
InLine == {p \in Pubs : pub[p].at \in {"wait", "send"}}
             \cup {s \in {"stop"} : stopping = "closing"}
JoinsLine(s) == ahead' = [ahead EXCEPT ![s] = InLine]
LeavesLine(s) == ahead' = [q \in Senders |-> IF q = s THEN {} ELSE ahead[q] \ {s}]

\* camera_event_payload refuses a message without objects, or with too many.
Refused(S) == S = {} \/ Cardinality(S) > MAX_TRACKS

\* The session dictionary lets go of s: a worker suspended inside it keeps it.
Pop(s) ==
    /\ session' = NoSession
    /\ kept' = IF pub["worker"].at = "snap" /\ ~kept.own
               THEN [own |-> TRUE, active |-> s.active] ELSE kept

\* The start of _publish_pool_candidates: without an agreed link the batch is
\* dropped; otherwise the socket and the streams of this moment are kept.
Publish(p, batch, then, stale) ==
    [Idle EXCEPT !.at = "ready", !.then = then, !.stale = stale,
                 !.batch = IF link = "agreed" THEN batch ELSE <<>>,
                 !.on = stream, !.live = TRUE]

\* engine.replace_policy(camera, None) with discard_pending: a new tracker, a
\* new generation.  Its leaves are published next, and `then` follows.
Revoke(p, then) ==
    /\ policy' = FALSE /\ active' = {} /\ used' = {} /\ missed' = {}
    /\ queued' = FALSE
    /\ frame' = IF frame = "none" THEN "none" ELSE "stale"
    /\ event' = [event EXCEPT !.stale = event.open]
    /\ \E order \in Orders(active) :
          /\ \A i, k \in DOMAIN order : i < k => order[i] < order[k]
          /\ pub' = [q \in Pubs |->
                IF q = p
                THEN Publish(p, [i \in DOMAIN order |->
                        [edge |-> "leave", track |-> order[i]]], then, FALSE)
                ELSE [pub[q] EXCEPT !.stale = pub[q].at # "idle"]]

\* The finally of the control connection: no link to publish on, so a listed
\* camera's policy and session go at once.
Disconnect ==
    /\ link' = "down" /\ net' = FALSE
    /\ event' = NoEvent
    /\ IF stream
       THEN /\ policy' = FALSE /\ active' = {} /\ used' = {} /\ missed' = {}
            /\ queued' = FALSE /\ frame' = IF frame = "none" THEN "none" ELSE "stale"
            /\ Pop(session)
       ELSE UNCHANGED <<engine, missed, queued, frame, session, kept>>
    /\ LET w == pub["worker"]
       IN  pub' = [pub EXCEPT !["control"] = Idle, !["worker"].live = FALSE,
                     !["worker"].stale = w.at # "idle" /\ (w.stale \/ stream)]
    /\ IF stopping = "closing"     \* the leave of stop would raise
       THEN stopping' = "cut" /\ LeavesLine("stop")
       ELSE UNCHANGED <<stopping, ahead>>
    /\ UNCHANGED <<media, usable>>

-------------------------------------------------------------------------------
\* A message goes out on the socket the publisher captured, with the lock in
\* hand; the send may suspend it.  Protect drops a second enter and closes on any
\* leave.
Write(p, edge) ==
    /\ pub[p].live
    /\ event' = IF ~net \/ edge = "moving" THEN event
                ELSE IF edge = "leave" THEN NoEvent
                ELSE IF event.open THEN [event EXCEPT !.unsent = FALSE]
                ELSE [NoEvent EXCEPT !.open = TRUE, !.stale = pub[p].stale]
    /\ \/ Set(p, [pub[p] EXCEPT !.at = "ready", !.say = "none"]) /\ LeavesLine(p)
       \/ Set(p, [pub[p] EXCEPT !.at = "send", !.say = "none"]) /\ UNCHANGED ahead

\* A send on a closed socket raises: on_result's failure gives the camera up,
\* the status callback's is swallowed, the control handler's ends the link.
Fail(p) ==
    /\ ~pub[p].live \/ ~net
    /\ Set(p, IF p = "control" THEN [Idle EXCEPT !.at = "ready", !.then = "lost"]
              ELSE IF pub[p].then = "result"
                   THEN [Idle EXCEPT !.at = "ready", !.then = "failed"]
                   ELSE Idle)
    /\ LeavesLine(p)
    /\ UNCHANGED event

Dropped(p) ==
    /\ Set(p, [pub[p] EXCEPT !.at = "ready", !.batch = Tail(@), !.say = "none"])
    /\ UNCHANGED ahead

Skip(p) == Dropped(p) /\ UNCHANGED event

\* _send_control_event: the change is done with, its message waits for the lock,
\* if only for an instant.
Say(p, edge) ==
    /\ Set(p, [pub[p] EXCEPT !.at = "wait", !.batch = Tail(@), !.say = edge])
    /\ JoinsLine(p)
    /\ UNCHANGED event

\* setdefault: the camera's session, new if it has none.
Current == IF session.there THEN session ELSE NewSession

\* An enter opens the camera's event or joins it; the snapshot is made in a
\* thread, with the session held across the await.
PublishEnter(p, t) ==
    /\ LET opening == Current.active = {}
           seen == IF opening THEN {} ELSE Current.seen
       IN  /\ session' = [there |-> TRUE, active |-> Current.active \cup {t},
                          seen |-> seen \cup {t}]
           /\ \/ /\ Set(p, [pub[p] EXCEPT !.at = "snap",
                                          !.say = IF opening THEN "enter" ELSE "moving"])
                 /\ kept' = NotHeld
                 /\ UNCHANGED <<event, ahead>>
              \/ /\ ~opening    \* the event has its four snapshots
                 /\ IF Refused(session'.active) THEN Skip(p) ELSE Say(p, "moving")
                 /\ UNCHANGED kept

PublishMoving(p, t) ==
    /\ session' = Current
    /\ UNCHANGED kept
    /\ IF t \in Current.active /\ ~Refused(Current.active)
       THEN Say(p, "moving") ELSE Skip(p)

\* Bug forms (Bug...) are what a plausible slip in the next definition would
\* give; they show that the properties notice it and are used nowhere else.
BugLeft(t) == {}

\* The objects the event still has once t has left it.
Left(t) == Current.active \ {t}

\* A leave that does not close the event only updates it; one that does names
\* every object seen, and when it is refused the empty session stays.
PublishLeave(p, t) ==
    IF t \notin Current.seen
    THEN Skip(p) /\ session' = Current /\ UNCHANGED kept
    ELSE IF Left(t) # {}
         THEN /\ session' = [Current EXCEPT !.active = Left(t)]
              /\ UNCHANGED kept
              /\ IF Refused(Left(t)) THEN Skip(p) ELSE Say(p, "moving")
         ELSE IF Refused(Current.seen)
              THEN /\ session' = [Current EXCEPT !.active = {}]
                   /\ event' = [event EXCEPT !.unsent = event.open]
                   /\ Dropped(p)
                   /\ UNCHANGED kept
              ELSE Pop([Current EXCEPT !.active = {}]) /\ Say(p, "leave")

\* One candidate of _publish_pool_candidates.
Candidate(p) ==
    /\ pub[p].at = "ready" /\ pub[p].batch # <<>>
    /\ LET c == Head(pub[p].batch)
       IN  IF c.edge # "leave" /\ ~pub[p].on
           THEN /\ Skip(p)
                /\ missed' = missed \cup (IF c.edge = "enter" /\ ~pub[p].stale
                                          THEN {c.track} ELSE {})
                /\ UNCHANGED <<session, kept>>
           ELSE /\ CASE c.edge = "enter" -> PublishEnter(p, c.track)
                     [] c.edge = "moving" -> PublishMoving(p, c.track)
                     [] c.edge = "leave" -> PublishLeave(p, c.track)
                /\ UNCHANGED missed
    /\ UNCHANGED <<line, media, engine, feed, stopping>>

\* The snapshot is ready: what the held session has now is sent, or nothing.
SnapshotReady ==
    /\ Settled /\ pub["worker"].at = "snap"
    /\ IF Refused(IF kept.own THEN kept.active ELSE session.active)
       THEN Skip("worker")
       ELSE Say("worker", pub["worker"].say)
    /\ kept' = NotHeld
    /\ UNCHANGED <<line, media, engine, feed, session, stopping, missed>>

\* The lock is free at once, or the first in line gets it.
Granted(p) ==
    /\ Settled /\ pub[p].at = "wait" /\ ahead[p] = {}
    /\ Write(p, pub[p].say) \/ Fail(p)
    /\ UNCHANGED <<line, media, engine, feed, session, kept, stopping, missed>>

\* A suspended send returns, or raises.
Resume(p) ==
    /\ Settled /\ pub[p].at = "send"
    /\ \/ Set(p, [pub[p] EXCEPT !.at = "ready"]) /\ LeavesLine(p) /\ UNCHANGED event
       \/ Fail(p)
    /\ UNCHANGED <<line, media, engine, feed, session, kept, stopping, missed>>

-------------------------------------------------------------------------------
\* The batch is published and its caller goes on.
ResultDone ==
    /\ pub["worker"].then = "result" /\ Set("worker", Idle)
    /\ UNCHANGED <<line, media, engine, feed, session, kept, ahead, stopping, missed, event>>

\* _pool_camera_unavailable, after a failure of the model or of on_result.
Unavailable ==
    /\ pub["worker"].then = "failed"
    /\ usable' = FALSE
    /\ Revoke("worker", "unavailable")
    /\ UNCHANGED <<line, media, session, kept, ahead, stopping>>

\* _revoke_pool_policy: the session goes too.
Revoked(p) ==
    /\ pub[p].then \in {"unavailable", "revoke"}
    /\ Set(p, Idle)
    /\ Pop(session)
    /\ UNCHANGED <<line, media, engine, feed, ahead, stopping, missed, event>>

\* _handle_pool_smart_settings, after the old policy is gone: the new one is
\* installed, or refused (its classes and its zones are not modelled).
Installed ==
    /\ pub["control"].then = "settings" /\ Set("control", Idle)
    /\ policy' \in {FALSE, stream /\ usable /\ stopping = "no"}
    /\ UNCHANGED <<line, media, active, used, feed, session, kept, ahead, stopping, missed, event>>

Lost == pub["control"].then = "lost" /\ Disconnect

Done ==
    \/ pub["worker"].at = "ready" /\ pub["worker"].batch = <<>>
          /\ (ResultDone \/ Unavailable \/ Revoked("worker"))
    \/ pub["control"].at = "ready" /\ pub["control"].batch = <<>>
          /\ (Revoked("control") \/ Installed \/ Lost)

-------------------------------------------------------------------------------
\* _observe_pool_frame hands a frame to the model with the generation.
ObserveFrame ==
    /\ Settled /\ policy /\ stream /\ usable /\ stopping = "no"
    /\ queued' = TRUE
    /\ UNCHANGED <<line, media, engine, frame, usable, session, pub, kept, ahead, stopping, missed, event>>

TakeFrame ==
    /\ Free("worker") /\ queued /\ frame = "none" /\ stopping = "no"
    /\ queued' = FALSE /\ frame' = "fresh"
    /\ UNCHANGED <<line, media, engine, usable, session, pub, kept, ahead, stopping, missed, event>>

BugCurrentFrame == frame # "none"

\* generation = engine.policy_generation(camera).
CurrentFrame == frame = "fresh" /\ policy

\* _observe_pool_result: the engine turns the objects into changes of tracks,
\* any of each kind the event budget and the tracker's max_tracks allow.
Result ==
    /\ Free("worker") /\ frame # "none" /\ stopping = "no"
    /\ frame' = "none"
    /\ IF CurrentFrame
       THEN \E entering \in SUBSET (Tracks \ used), leaving \in SUBSET active :
            \E moving \in SUBSET (active \ leaving) :
            \E order \in Orders([edge : {"enter"}, track : entering]
                                \cup [edge : {"moving"}, track : moving]
                                \cup [edge : {"leave"}, track : leaving]) :
               /\ active' = (active \ leaving) \cup entering
               /\ Cardinality(active') <= MAX_TRACKS
               /\ used' = used \cup entering
               /\ missed' = (missed \ leaving)
                            \cup (IF link = "agreed" THEN {} ELSE entering)
               /\ Set("worker", Publish("worker", order, "result", FALSE))
       ELSE UNCHANGED <<active, used, missed, pub>>
    /\ UNCHANGED <<line, media, policy, queued, usable, session, kept, ahead, stopping, event>>

\* The model fails, or the camera has used its frames.
ModelFails ==
    /\ Free("worker") /\ frame # "none" /\ stopping = "no"
    /\ frame' = "none" /\ queued' = FALSE
    /\ Set("worker", [Idle EXCEPT !.at = "ready", !.then = "failed"])
    /\ UNCHANGED <<line, media, engine, usable, session, kept, ahead, stopping, missed, event>>

-------------------------------------------------------------------------------
Command == Free("control") /\ link = "agreed"

\* ChangeSmartDetectSettings with other settings than the present ones.
Settings ==
    /\ Command
    /\ Revoke("control", "settings")
    /\ UNCHANGED <<line, media, usable, session, kept, ahead, stopping>>

\* UiStreamControl stop and ResetAIPortStreams: the decoder ends first,
StopStream ==
    /\ Command /\ wanted
    /\ wanted' = FALSE /\ stream' = FALSE
    /\ Set("control", [Idle EXCEPT !.at = "reply"])
    /\ UNCHANGED <<line, engine, feed, session, kept, ahead, stopping, missed, event>>

\* then, after an await, the policy is revoked.
StreamStopped ==
    /\ Settled /\ pub["control"].at = "reply"
    /\ \/ Revoke("control", "revoke")
       \/ /\ ~net /\ Set("control", [Idle EXCEPT !.at = "ready", !.then = "lost"])
          /\ UNCHANGED <<engine, missed, queued, frame, event>>
    /\ UNCHANGED <<line, media, usable, session, kept, ahead, stopping>>

StartStream ==
    /\ Command
    /\ wanted' = TRUE /\ stream' = TRUE
    /\ UNCHANGED <<line, engine, feed, session, pub, kept, ahead, stopping, missed, event>>

\* _watch_decoder: an accepted stream is lost and restored.
StreamHealth ==
    /\ Settled /\ wanted
    /\ stream' = ~stream
    /\ UNCHANGED <<line, wanted, engine, feed, session, pub, kept, ahead, stopping, missed, event>>

Connect ==
    /\ Free("control") /\ link = "down"
    /\ link' = "up" /\ net' = TRUE
    /\ UNCHANGED <<media, engine, feed, session, pub, kept, ahead, stopping, missed, event>>

ParamAgreement ==
    /\ Free("control") /\ link = "up" /\ net
    /\ link' = "agreed"
    /\ UNCHANGED <<net, media, engine, feed, session, pub, kept, ahead, stopping, missed, event>>

SocketCloses ==
    /\ Settled /\ net
    /\ net' = FALSE
    /\ UNCHANGED <<link, media, engine, feed, session, pub, kept, ahead, stopping, missed, event>>

Disconnected == Free("control") /\ link # "down" /\ ~net /\ Disconnect

-------------------------------------------------------------------------------
\* stop: FairInference.close seals admission,
Seal ==
    /\ Settled /\ stopping = "no"
    /\ stopping' = "sealed" /\ queued' = FALSE
    /\ UNCHANGED <<line, media, engine, frame, usable, session, pub, kept, ahead, missed, event>>

\* cancels the worker wherever it is suspended once its thread has ended, the
\* leave of a session that is gone already included,
WorkerStopped ==
    /\ Settled /\ stopping = "sealed"
    /\ frame # "none" \/ pub["worker"].at # "idle"
    /\ frame' = "none" /\ Set("worker", Idle) /\ kept' = NotHeld
    /\ LeavesLine("worker")
    /\ event' = [event EXCEPT !.unsent = event.open /\ (@ \/ pub["worker"].say = "leave")]
    /\ UNCHANGED <<line, media, engine, queued, usable, session, stopping, missed>>

BugMayClose == stopping \in {"no", "sealed"}

\* and only then
MayClose == stopping = "sealed" /\ frame = "none" /\ pub["worker"].at = "idle"

\* are the open events closed, if there is a link to close them on,
CloseOpenEvents ==
    /\ Settled /\ MayClose
    /\ IF link # "agreed"
       THEN stopping' = "closed" /\ UNCHANGED <<session, kept, ahead, event>>
       ELSE /\ Pop(session)
            /\ IF session.active # {} /\ ~Refused(session.seen)
               THEN stopping' = "closing" /\ JoinsLine("stop") /\ UNCHANGED event
               ELSE /\ stopping' = "closed"
                    /\ event' = [event EXCEPT !.unsent =
                                    event.open /\ (@ \/ session.active # {})]
                    /\ UNCHANGED ahead
    /\ UNCHANGED <<line, media, engine, feed, pub, missed>>

\* by a leave each,
LeaveSent ==
    /\ Settled /\ stopping = "closing" /\ ahead["stop"] = {}
    /\ stopping' = "closed"
    /\ event' = IF net THEN NoEvent ELSE event
    /\ LeavesLine("stop")
    /\ UNCHANGED <<line, media, engine, feed, session, pub, kept, missed>>

\* unless an error or _STOP_CLOSE_SECONDS ends it, here or at another camera.
CutShort ==
    /\ Settled /\ link = "agreed"
    /\ stopping = "closing" \/ MayClose
    /\ stopping' = "cut"
    /\ LeavesLine("stop")
    /\ UNCHANGED <<line, media, engine, feed, session, pub, kept, missed, event>>

Frames == ObserveFrame \/ TakeFrame \/ Result \/ ModelFails
Control == Settings \/ StopStream \/ StreamStopped \/ StartStream \/ StreamHealth
              \/ Connect \/ ParamAgreement \/ SocketCloses \/ Disconnected
Stop == Seal \/ WorkerStopped \/ CloseOpenEvents \/ LeaveSent \/ CutShort

Next ==
    \/ \E p \in Pubs : Candidate(p) \/ Granted(p) \/ Resume(p)
    \/ SnapshotReady \/ Done
    \/ Frames \/ Control \/ Stop

Spec == Init /\ [][Next]_vars

-------------------------------------------------------------------------------
Quiet == \A p \in Pubs : pub[p] = Idle

\* "Report every object of a camera inside one event": once a result has been
\* published, each track the engine holds is in the camera's session, unless it
\* entered without a stream or a link; no revocation, failure or other batch in
\* between loses it.
TracksReported ==
    Quiet /\ stopping = "no" => active \ missed \subseteq session.active

\* "An in-flight observer must not reopen an event" after stop closed them, and
\* stop closes each event of the present policy.  What a close that was not cut
\* short leaves open at Protect was opened under a policy that is gone, or its
\* leave was refused or lost with the worker that waited to send it.
StopClosesEvents ==
    stopping = "closed" /\ link = "agreed" /\ net =>
        ~event.open \/ event.stale \/ event.unsent

\* "A changed policy makes results of older frames stale": with nobody
\* publishing, no event is open that belongs to a policy replaced since.
StaleResultsSilent ==
    Quiet /\ stopping = "no" /\ link = "agreed" /\ net => ~(event.open /\ event.stale)
===============================================================================

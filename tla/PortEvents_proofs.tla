--------------------------- MODULE PortEvents_proofs ---------------------------
(* One pool camera's event, for any tracks: it has every track of the engine   *)
(* that could be told, and a stop that is not cut short leaves none of the     *)
(* present policy open but for a leave that was refused or lost.  None of a    *)
(* replaced policy stays open either, where revocations wait their turn and    *)
(* leaves are not refused.                                                     *)
EXTENDS PortEvents, FiniteSetTheorems, SequenceTheorems, TLAPS

-------------------------------------------------------------------------------
W == pub["worker"]
C == pub["control"]

\* What the camera's event still lacks of the worker's batch: the track of a
\* snapshot that is being made is in the session already.
Awaited(t) ==
    \E i \in 1..Len(W.batch) :
        /\ W.batch[i] = [edge |-> "enter", track |-> t]
        /\ W.at = "snap" => i # 1

\* The stages of a batch: a result's, whose failure is left to _pool_camera_unavailable.
WorkerShape ==
    /\ W.at = "idle" => W = Idle
    /\ W.at # "idle" => W.then \in {"result", "failed", "unavailable"}
    /\ W.at # "reply"
    /\ W.then = "failed" => W.at = "ready" /\ W.batch = <<>>
    /\ W.then = "unavailable" => ~usable
    /\ W.at = "snap" => W.batch # <<>> /\ Head(W.batch).edge = "enter"
    /\ W.say # "none" <=> W.at \in {"snap", "wait"}
    /\ W.at = "snap" => W.say \in {"enter", "moving"}

ControlShape ==
    /\ C.at = "idle" => C = Idle
    /\ C.at # "snap"
    /\ C.then \in {"none", "revoke", "settings", "lost"}
    /\ C.then \in {"revoke", "settings"} => ~policy
    /\ C.batch # <<>> \/ C.at = "wait" => C.then \in {"revoke", "settings"}
    /\ \A i \in 1..Len(C.batch) : C.batch[i].edge = "leave"
    /\ C.say # "none" <=> C.at = "wait"
    /\ C.say # "enter"

\* A batch speaks of the engine's tracks until a revocation makes it stale.
BatchInv ==
    /\ W.stale => active = {}
    /\ \A i \in 1..Len(W.batch) :
          /\ W.batch[i].edge = "leave" => W.batch[i].track \notin active
          /\ W.batch[i].edge = "enter" /\ ~W.stale => W.batch[i].track \in active

\* A batch, and the message that waits, belong to the link they were begun on.
LinkInv ==
    /\ link # "agreed" => ~event.open
    /\ W.batch # <<>> \/ W.say # "none" => IF W.live THEN link = "agreed" ELSE ~event.open

\* Protect's open event of the present policy is the session's, unless its leave
\* was refused or lost, or waits for the lock, or is left to a close of stop that
\* may be cut short.
Announced == event.open /\ ~event.stale /\ net
EventInv == Announced =>
    /\ policy /\ ~W.stale
    /\ \/ session.active # {} \/ event.unsent \/ W.say = "leave"
       \/ stopping \in {"closing", "cut"}

\* An enter that waits for the lock is of a session that has its track.
SayInv == W.at = "wait" /\ W.say = "enter" /\ ~W.stale /\ W.live => policy /\ session.active # {}

\* A camera has a session, or none; a worker that holds one the dictionary let
\* go of holds it for a policy or a link that is gone.
SessionInv == session.there \/ session = NoSession
KeptInv == W.at = "snap" /\ kept.own => W.stale \/ ~W.live
ReportInv ==
    stopping = "no" /\ W.then # "failed" =>
        \A t \in active \ missed : t \in session.active \/ Awaited(t)

ClosedInv ==
    /\ stopping \in {"closing", "closed", "cut"} => W = Idle
    /\ stopping = "closed" /\ Announced => event.unsent

PortInv ==
    /\ TypeOK /\ (policy => usable)
    /\ WorkerShape /\ ControlShape /\ BatchInv /\ LinkInv
    /\ SessionInv /\ EventInv /\ SayInv /\ KeptInv /\ ReportInv /\ ClosedInv

-------------------------------------------------------------------------------
LEMMA Batches ==
  ASSUME NEW s \in Seq(Changes), s # <<>>
  PROVE  /\ Tail(s) \in Seq(Changes)
         /\ Len(s) \in Nat \ {0} /\ Len(Tail(s)) = Len(s) - 1
         /\ Head(s) = s[1] /\ s[1] \in Changes
         /\ \A i \in 1..Len(Tail(s)) : i + 1 \in 1..Len(s) /\ Tail(s)[i] = s[i + 1]
<1>1. Len(s) \in Nat \ {0} /\ Tail(s) \in Seq(Changes) /\ Len(Tail(s)) = Len(s) - 1
  BY EmptySeq, LenProperties, HeadTailProperties
<1>2. Head(s) = s[1] /\ s[1] \in Changes
  BY <1>1
<1>3. \A i \in 1..Len(Tail(s)) : i + 1 \in 1..Len(s) /\ Tail(s)[i] = s[i + 1]
  BY <1>1 
<1> QED
  BY <1>1, <1>2, <1>3

LEMMA IdlePublishing == Idle \in Publishing
  BY EmptySeq DEF Idle, Publishing

\* What the two publishers are, whoever stands for them.
LEMMA Publishers ==
  ASSUME TypeOK
  PROVE  /\ W \in Publishing /\ C \in Publishing
         /\ W.batch \in Seq(Changes) /\ C.batch \in Seq(Changes)
         /\ W.batch = <<>> <=> Len(W.batch) = 0
  <1>1. W \in Publishing /\ C \in Publishing
    BY DEF TypeOK, W, C, Pubs
  <1>2. W.batch \in Seq(Changes) /\ C.batch \in Seq(Changes)
    BY <1>1 DEF Publishing
  <1> QED
    BY <1>1, <1>2, EmptySeq, LenProperties

\* What a change of one publisher is to the two.
LEMMA SetPublisher ==
  ASSUME TypeOK, NEW p \in Pubs, NEW f \in Publishing, Set(p, f)
  PROVE  /\ pub' \in [Pubs -> Publishing]
         /\ p = "worker" => W' = f /\ C' = C
         /\ p = "control" => C' = f /\ W' = W
  BY DEF Set, TypeOK, W, C, Pubs

\* The line at the lock is one of senders.
LEMMA Lines ==
  ASSUME TypeOK, NEW s \in Senders, UNCHANGED ahead \/ JoinsLine(s) \/ LeavesLine(s)
  PROVE  ahead' \in [Senders -> SUBSET Senders]
<1>1. InLine \in SUBSET Senders
  BY DEF InLine, Senders
<1> QED
  BY <1>1 DEF TypeOK, JoinsLine, LeavesLine

\* Steps in which no publisher moves and nothing is told.
LEMMA Unmoved ==
  ASSUME PortInv, TypeOK',
         UNCHANGED <<engine, usable, session, pub, kept, missed, event>>,
         link' = link \/ link # "agreed",
         net' => net \/ link # "agreed",
         stopping' = "no" => stopping = "no",
         stopping' = "closed" => stopping = "closed",
         stopping \in {"closing", "cut"} => stopping' \in {"closing", "cut"},
         stopping' \in {"closing", "closed", "cut"} => W = Idle
  PROVE  PortInv'
<1> USE DEF PortInv, engine
<1>1. W' = W /\ C' = C
  BY DEF W, C
<1>2. (policy => usable)' /\ WorkerShape' /\ ControlShape' /\ BatchInv'
  BY <1>1 DEF WorkerShape, ControlShape, BatchInv
<1>3. LinkInv'
  BY <1>1 DEF LinkInv
<1>4. Announced' => Announced
  BY DEF Announced, LinkInv
<1>5. SessionInv' /\ SayInv' /\ KeptInv'
  BY <1>1 DEF SessionInv, SayInv, KeptInv
<1>6. EventInv' /\ ClosedInv'
  BY <1>1, <1>4 DEF EventInv, ClosedInv
<1>7. \A t : Awaited(t)' <=> Awaited(t)
  BY <1>1 DEF Awaited
<1>8. ReportInv'
  BY <1>1, <1>7 DEF ReportInv
<1> QED
  BY <1>2, <1>3, <1>5, <1>6, <1>8

LEMMA StepUnmoved ==
  ASSUME PortInv,
         \/ ObserveFrame \/ TakeFrame \/ StartStream \/ StreamHealth \/ Connect
         \/ ParamAgreement \/ SocketCloses \/ Seal \/ CutShort \/ UNCHANGED vars
  PROVE  PortInv'
<1> USE DEF engine, feed, media, line
<1>0. TypeOK /\ (stopping \in {"closing", "closed", "cut"} => W = Idle)
  BY DEF PortInv, ClosedInv
<1>1. CASE ObserveFrame
  <2>1. TypeOK'
    BY <1>0, <1>1 DEF TypeOK, ObserveFrame
  <2> QED
    BY <1>0, <1>1, <2>1, Unmoved DEF ObserveFrame
<1>2. CASE TakeFrame
  <2>1. TypeOK'
    BY <1>0, <1>2 DEF TypeOK, TakeFrame
  <2> QED
    BY <1>0, <1>2, <2>1, Unmoved DEF TakeFrame
<1>3. CASE StartStream
  <2>1. TypeOK'
    BY <1>0, <1>3 DEF TypeOK, StartStream
  <2> QED
    BY <1>0, <1>3, <2>1, Unmoved DEF StartStream
<1>4. CASE StreamHealth
  <2>1. TypeOK'
    BY <1>0, <1>4 DEF TypeOK, StreamHealth
  <2> QED
    BY <1>0, <1>4, <2>1, Unmoved DEF StreamHealth
<1>5. CASE Connect
  <2>1. TypeOK'
    BY <1>0, <1>5 DEF TypeOK, Connect
  <2> QED
    BY <1>0, <1>5, <2>1, Unmoved DEF Connect
<1>6. CASE ParamAgreement
  <2>1. TypeOK'
    BY <1>0, <1>6 DEF TypeOK, ParamAgreement
  <2> QED
    BY <1>0, <1>6, <2>1, Unmoved DEF ParamAgreement
<1>7. CASE SocketCloses
  <2>1. TypeOK'
    BY <1>0, <1>7 DEF TypeOK, SocketCloses
  <2> QED
    BY <1>0, <1>7, <2>1, Unmoved DEF SocketCloses
<1>8. CASE Seal
  <2>1. TypeOK'
    BY <1>0, <1>8 DEF TypeOK, Seal
  <2> QED
    BY <1>0, <1>8, <2>1, Unmoved DEF Seal
<1>9. CASE CutShort
  <2>1. ahead' \in [Senders -> SUBSET Senders]
    BY <1>0, <1>9, Lines DEF CutShort, Senders
  <2>2. TypeOK'
    BY <1>0, <1>9, <2>1 DEF TypeOK, CutShort
  <2>3. W = Idle
    BY <1>0, <1>9 DEF CutShort, MayClose, PortInv, WorkerShape, W
  <2> QED
    BY <1>9, <2>2, <2>3, Unmoved DEF CutShort
<1>10. CASE UNCHANGED vars
  <2>1. TypeOK'
    BY <1>0, <1>10 DEF TypeOK, vars
  <2> QED
    BY <1>0, <1>10, <2>1, Unmoved DEF vars
<1> QED
  BY <1>1, <1>2, <1>3, <1>4, <1>5, <1>6, <1>7, <1>8, <1>9, <1>10
-------------------------------------------------------------------------------
\* A batch in some order has each member of the set in one place.
LEMMA Ordered ==
  ASSUME NEW S, IsFiniteSet(S), NEW s \in Orders(S)
  PROVE  /\ s \in Seq(S) /\ DOMAIN s = 1..Len(s)
         /\ \A i \in 1..Len(s) : s[i] \in S
         /\ \A x \in S : \E i \in 1..Len(s) : s[i] = x
<1> DEFINE n == Cardinality(S)
<1>1. n \in Nat
  BY FS_CardinalityType
<1>2. s \in [1..n -> S]
  BY DEF Orders
<1>3. s \in Injection(1..n, S)
  BY <1>2 DEF Injection, IsInjective, Orders
<1> HIDE DEF n
<1>4. s \in Seq(S) /\ DOMAIN s = 1..n /\ Len(s) = n
  BY <1>1, <1>2
<1>5. Cardinality(1..n) = n
  BY <1>1, FS_Interval
<1>6. s \in Surjection(1..n, S)
  <2>1. Cardinality(S) = n
    BY DEF n
  <2> QED
    BY <1>3, <1>5, <2>1, FS_Injection
<1>7. \A x \in S : \E i \in 1..n : s[i] = x
  BY <1>6 DEF Surjection
<1> QED
  BY <1>2, <1>4, <1>7

LEMMA TracksFinite == ASSUME NEW S \in SUBSET Tracks PROVE IsFiniteSet(S)
  BY TracksAssumption, FS_Subset

\* The dictionary lets go of a session: the worker keeps only what it held.
LEMMA Popped ==
  ASSUME TypeOK, NEW s, s.active \subseteq Tracks, Pop(s)
  PROVE  /\ session' = NoSession
         /\ kept' \in [own : BOOLEAN, active : SUBSET Tracks]
         /\ W.at # "snap" => kept' = kept
  BY DEF Pop, TypeOK, W

\* What a policy's revocation leaves of its publisher and of the other one.
LEMMA Leaves ==
  ASSUME TypeOK, NEW p \in Pubs, NEW then, Revoke(p, then),
         then \in {"unavailable", "revoke", "settings"}
  PROVE  \E batch \in Seq(Changes) :
            /\ \A i \in 1..Len(batch) : batch[i].edge = "leave"
            /\ batch # <<>> => link = "agreed"
            /\ pub' = [q \in Pubs |->
                  IF q = p THEN [at |-> "ready", batch |-> batch, on |-> stream,
                                 live |-> TRUE, stale |-> FALSE, say |-> "none",
                                 then |-> then]
                  ELSE [pub[q] EXCEPT !.stale = pub[q].at # "idle"]]
            /\ pub' \in [Pubs -> Publishing]
<1>1. PICK order \in Orders(active) :
         pub' = [q \in Pubs |->
            IF q = p
            THEN Publish(p, [i \in DOMAIN order |->
                    [edge |-> "leave", track |-> order[i]]], then, FALSE)
            ELSE [pub[q] EXCEPT !.stale = pub[q].at # "idle"]]
  BY DEF Revoke
<1> DEFINE leaves == [i \in DOMAIN order |-> [edge |-> "leave", track |-> order[i]]]
           batch == IF link = "agreed" THEN leaves ELSE <<>>
           mine == [at |-> "ready", batch |-> batch, on |-> stream, live |-> TRUE,
                    stale |-> FALSE, say |-> "none", then |-> then]
<1>2. active \in SUBSET Tracks
  BY DEF TypeOK
<1>3. DOMAIN order = 1..Len(order) /\ Len(order) \in Nat
      /\ \A i \in 1..Len(order) : order[i] \in Tracks
  BY <1>2, TracksFinite, Ordered, LenProperties
<1>4. leaves \in Seq(Changes) /\ \A i \in 1..Len(leaves) : leaves[i].edge = "leave"
  <2>1. leaves \in [1..Len(order) -> Changes]
    BY <1>3 DEF Changes
  <2> QED
    BY <1>3, <2>1
<1> HIDE DEF leaves
<1>6. Publish(p, leaves, then, FALSE) = mine
  <2> HIDE DEF batch
  <2>1. Publish(p, leaves, then, FALSE)
          = [Idle EXCEPT !.at = "ready", !.then = then, !.stale = FALSE, !.batch = batch,
                         !.on = stream, !.live = TRUE]
    BY Zenon DEF Publish, batch
  <2> QED
    BY <2>1 DEF Idle
<1>5. batch \in Seq(Changes) /\ \A i \in 1..Len(batch) : batch[i].edge = "leave"
  BY <1>4, EmptySeq
<1>7. batch # <<>> => link = "agreed"
  OBVIOUS
<1> HIDE DEF batch
<1>8. mine \in Publishing
  BY <1>5 DEF Publishing, TypeOK
<1> HIDE DEF mine
<1>9. pub' \in [Pubs -> Publishing]
  <2>1. ASSUME NEW q \in Pubs
        PROVE  [pub[q] EXCEPT !.stale = pub[q].at # "idle"] \in Publishing
    <3>1. pub[q] \in Publishing /\ (pub[q].at # "idle") \in BOOLEAN
      BY DEF TypeOK
    <3> QED
      BY <3>1 DEF Publishing
  <2> QED
    BY <1>1, <1>6, <1>8, <2>1 DEF leaves
<1>10. pub' = [q \in Pubs |-> IF q = p THEN mine
                              ELSE [pub[q] EXCEPT !.stale = pub[q].at # "idle"]]
  BY <1>1, <1>6, Zenon DEF leaves
<1> QED
  BY <1>5, <1>7, <1>9, <1>10 DEF mine

\* The engine lets a policy go: its tracks go, and the event is no longer its.
LEMMA StepRevoke ==
  ASSUME PortInv, NEW p \in Pubs, NEW then, Revoke(p, then),
         UNCHANGED <<line, media, session, kept, ahead, stopping>>,
         p = "worker" => /\ then = "unavailable" /\ usable' = FALSE /\ W.then = "failed",
         p = "control" => then \in {"revoke", "settings"} /\ usable' = usable
  PROVE  PortInv'
<1> USE DEF PortInv
<1>0. then \in {"unavailable", "revoke", "settings"} /\ p \in {"worker", "control"}
  BY DEF Pubs
<1>1. PICK batch \in Seq(Changes) :
         /\ \A i \in 1..Len(batch) : batch[i].edge = "leave"
         /\ batch # <<>> => link = "agreed"
         /\ pub' = [q \in Pubs |->
               IF q = p THEN [at |-> "ready", batch |-> batch, on |-> stream,
                              live |-> TRUE, stale |-> FALSE, say |-> "none",
                              then |-> then]
               ELSE [pub[q] EXCEPT !.stale = pub[q].at # "idle"]]
         /\ pub' \in [Pubs -> Publishing]
  BY <1>0, Leaves
<1> DEFINE mine == [at |-> "ready", batch |-> batch, on |-> stream, live |-> TRUE,
                    stale |-> FALSE, say |-> "none", then |-> then]
<1>2. /\ policy' = FALSE /\ active' = {} /\ used' = {} /\ missed' = {} /\ queued' = FALSE
      /\ frame' \in {"none", "stale"}
      /\ event' = [event EXCEPT !.stale = event.open]
  BY DEF Revoke
<1>3. /\ p = "worker" => W' = mine /\ C' = [C EXCEPT !.stale = C.at # "idle"]
      /\ p = "control" => C' = mine /\ W' = [W EXCEPT !.stale = W.at # "idle"]
  BY <1>1 DEF W, C, Pubs
<1>4. W \in Publishing /\ C \in Publishing
  BY Publishers
<1>5. TypeOK'
  <2>1. event' \in [open : BOOLEAN, stale : BOOLEAN, unsent : BOOLEAN]
    BY <1>2 DEF TypeOK
  <2>2. usable' \in BOOLEAN
    BY <1>0 DEF TypeOK
  <2> QED
    BY <1>1, <1>2, <2>1, <2>2 DEF TypeOK, line, media
<1>6. ~Announced' /\ event'.open = event.open
  BY <1>2 DEF TypeOK, Announced
<1>7. p = "control" => /\ W'.at = W.at /\ W'.batch = W.batch /\ W'.then = W.then
                       /\ W'.live = W.live /\ W'.say = W.say /\ (W'.stale <=> W.at # "idle")
                       /\ (W = Idle => W' = Idle)
  <2> SUFFICES ASSUME p = "control"
               PROVE  /\ W'.at = W.at /\ W'.batch = W.batch /\ W'.then = W.then
                      /\ W'.live = W.live /\ W'.say = W.say /\ (W'.stale <=> W.at # "idle")
                      /\ (W = Idle => W' = Idle)
    OBVIOUS
  <2> DEFINE away == W.at # "idle"
  <2>1. W' = [W EXCEPT !.stale = away]
    BY <1>3
  <2>2. W.at = "idle" => away = FALSE
    OBVIOUS
  <2> HIDE DEF away
  <2>3. /\ W'.at = W.at /\ W'.batch = W.batch /\ W'.then = W.then
        /\ W'.live = W.live /\ W'.say = W.say /\ W'.stale = away
    BY <1>4, <2>1 DEF Publishing
  <2>4. W = Idle => W' = Idle
    <3> SUFFICES ASSUME W = Idle PROVE W' = Idle
      OBVIOUS
    <3>1. W' = [Idle EXCEPT !.stale = FALSE]
      BY <2>1, <2>2 DEF Idle
    <3> QED
      BY <3>1 DEF Idle
  <2> QED
    BY <2>3, <2>4 DEF away
<1>8. p = "worker" => /\ C'.at = C.at /\ C'.batch = C.batch /\ C'.then = C.then
                      /\ C'.say = C.say /\ (C = Idle => C' = Idle)
  BY <1>3, <1>4 DEF Publishing, Idle
<1>9. (policy => usable)' /\ WorkerShape' /\ ControlShape'
  <2>1. CASE p = "worker"
    <3>1. /\ W'.at = "ready" /\ W'.then = "unavailable" /\ W'.say = "none"
          /\ C'.at = C.at /\ C'.batch = C.batch /\ C'.then = C.then /\ C'.say = C.say
          /\ (C = Idle => C' = Idle) /\ ~usable' /\ ~policy'
      BY <2>1, <1>2, <1>3, <1>8
    <3>2. WorkerShape'
      BY <3>1 DEF WorkerShape
    <3>3. ControlShape'
      BY <3>1 DEF ControlShape
    <3> QED
      BY <3>1, <3>2, <3>3
  <2>2. CASE p = "control"
    <3>1. /\ C'.at = "ready" /\ C'.then = then /\ C'.say = "none" /\ C'.batch = batch
          /\ then \in {"revoke", "settings"} /\ ~policy' /\ usable' = usable
      BY <2>2, <1>2, <1>3
    <3>2. WorkerShape'
      BY <2>2, <3>1, <1>7 DEF WorkerShape
    <3>3. ControlShape'
      BY <3>1, <1>1 DEF ControlShape
    <3> QED
      BY <3>1, <3>2, <3>3
  <2> QED
    BY <1>0, <2>1, <2>2
<1>10. BatchInv'
  <2>1. CASE p = "worker"
    <3>1. W'.stale = FALSE /\ W'.batch = batch
      BY <2>1, <1>3
    <3> QED
      BY <3>1, <1>1, <1>2 DEF BatchInv
  <2>2. CASE p = "control"
    <3>1. W'.stale \/ W'.batch = <<>>
      BY <2>2, <1>7 DEF WorkerShape, Idle
    <3> QED
      BY <2>2, <3>1, <1>2, EmptySeq DEF BatchInv
  <2> QED
    BY <1>0, <2>1, <2>2
<1>11. LinkInv'
  <2>1. CASE p = "worker"
    <3>1. W'.batch = batch /\ W'.say = "none" /\ W'.live
      BY <2>1, <1>3
    <3> QED
      BY <3>1, <1>1, <1>6 DEF LinkInv, line
  <2>2. CASE p = "control"
    BY <2>2, <1>6, <1>7 DEF LinkInv, line
  <2> QED
    BY <1>0, <2>1, <2>2
<1>12. EventInv' /\ ReportInv'
  BY <1>2, <1>6 DEF EventInv, ReportInv
<1>15. SayInv'
  <2>1. CASE p = "worker"
    BY <2>1, <1>3 DEF SayInv
  <2>2. CASE p = "control"
    BY <2>2, <1>7 DEF SayInv
  <2> QED
    BY <1>0, <2>1, <2>2
<1>13. SessionInv' /\ KeptInv'
  BY <1>0, <1>3, <1>7 DEF SessionInv, KeptInv
<1>14. ClosedInv'
  <2>1. p = "worker" => stopping \notin {"closing", "closed", "cut"}
    BY DEF ClosedInv, Idle
  <2> QED
    BY <1>0, <1>6, <1>7, <2>1 DEF ClosedInv
<1> QED
  BY <1>5, <1>9, <1>10, <1>11, <1>12, <1>13, <1>14, <1>15

\* The control connection ends.
LEMMA StepDisconnect ==
  ASSUME PortInv, Disconnect PROVE PortInv'
<1> USE DEF PortInv
<1>1. W \in Publishing /\ C \in Publishing
  BY Publishers
<1>2. /\ C' = Idle
      /\ W' = [W EXCEPT !.live = FALSE, !.stale = W.at # "idle" /\ (W.stale \/ stream)]
  BY DEF Disconnect, W, C, TypeOK, Pubs
<1>3. pub' \in [Pubs -> Publishing]
  BY <1>1, IdlePublishing DEF Disconnect, W, TypeOK, Pubs, Publishing
<1>4. /\ W'.at = W.at /\ W'.batch = W.batch /\ W'.then = W.then /\ W'.live = FALSE
      /\ W'.say = W.say
      /\ W'.stale <=> W.at # "idle" /\ (W.stale \/ stream)
      /\ W = Idle => W' = Idle
  <2> DEFINE gone == W.at # "idle" /\ (W.stale \/ stream)
  <2>1. W' = [W EXCEPT !.live = FALSE, !.stale = gone]
    BY <1>2
  <2>2. W.at = "idle" => gone = FALSE
    OBVIOUS
  <2> HIDE DEF gone
  <2>3. /\ W'.at = W.at /\ W'.batch = W.batch /\ W'.then = W.then /\ W'.live = FALSE
        /\ W'.say = W.say /\ W'.stale = gone
    BY <1>1, <2>1 DEF Publishing
  <2>4. W = Idle => W' = Idle
    <3> SUFFICES ASSUME W = Idle PROVE W' = Idle
      OBVIOUS
    <3>1. gone = FALSE
      BY <2>2 DEF Idle
    <3>2. W' = [Idle EXCEPT !.live = FALSE, !.stale = FALSE]
      BY <2>1, <3>1
    <3> QED
      BY <3>2 DEF Idle
  <2> QED
    BY <2>3, <2>4 DEF gone
<1>5. /\ link' = "down" /\ net' = FALSE /\ event' = NoEvent
      /\ UNCHANGED <<media, usable>>
  BY DEF Disconnect
<1>6. /\ stopping' = IF stopping = "closing" THEN "cut" ELSE stopping
      /\ ahead' \in [Senders -> SUBSET Senders]
  <2>1. \/ stopping = "closing" /\ stopping' = "cut" /\ LeavesLine("stop")
        \/ stopping # "closing" /\ UNCHANGED <<stopping, ahead>>
    BY DEF Disconnect
  <2> QED
    BY <2>1, Lines DEF Senders
<1>7. WorkerShape' /\ ControlShape' /\ LinkInv' /\ EventInv' /\ SayInv' /\ ClosedInv'
  <2>1. WorkerShape'
    BY <1>4, <1>5 DEF WorkerShape
  <2>2. ControlShape'
    BY <1>2, EmptySeq DEF ControlShape, Idle
  <2>3. LinkInv' /\ EventInv' /\ SayInv'
    BY <1>4, <1>5 DEF LinkInv, EventInv, SayInv, Announced, NoEvent
  <2>4. ClosedInv'
    BY <1>4, <1>5, <1>6 DEF ClosedInv, Announced, NoEvent
  <2> QED
    BY <2>1, <2>2, <2>3, <2>4
<1>8. CASE stream
  <2>1. /\ policy' = FALSE /\ active' = {} /\ used' = {} /\ missed' = {}
        /\ queued' = FALSE /\ frame' \in {"none", "stale"} /\ Pop(session)
    BY <1>8 DEF Disconnect
  <2>2. session' = NoSession /\ kept' \in [own : BOOLEAN, active : SUBSET Tracks]
    BY <2>1, Popped DEF TypeOK
  <2>3. TypeOK'
    BY <1>3, <1>5, <1>6, <2>1, <2>2 DEF TypeOK, media, NoEvent, NoSession
  <2>4. BatchInv'
    BY <1>4, <2>1, <1>8, EmptySeq DEF BatchInv, WorkerShape, Idle
  <2>5. ReportInv'
    BY <2>1 DEF ReportInv
  <2>6. SessionInv' /\ KeptInv'
    BY <1>4, <2>2 DEF SessionInv, KeptInv
  <2> QED
    BY <1>5, <1>7, <2>1, <2>3, <2>4, <2>5, <2>6
<1>9. CASE ~stream
  <2>1. UNCHANGED <<engine, missed, queued, frame, session, kept>>
    BY <1>9 DEF Disconnect
  <2>3. TypeOK'
    BY <1>3, <1>5, <1>6, <2>1 DEF TypeOK, media, engine, NoEvent
  <2>4. BatchInv'
    <3>1. active' = active
      BY <2>1 DEF engine
    <3>2. (W'.stale => W.stale) /\ (W.at # "idle" => (W'.stale <=> W.stale))
      BY <1>4, <1>9
    <3>3. W.at = "idle" => W.batch = <<>>
      BY DEF WorkerShape, Idle
    <3> QED
      BY <1>4, <3>1, <3>2, <3>3, EmptySeq DEF BatchInv
  <2>5. ReportInv'
    BY <1>4, <1>6, <2>1 DEF ReportInv, Awaited, engine
  <2>6. SessionInv' /\ KeptInv'
    BY <1>4, <2>1 DEF SessionInv, KeptInv
  <2> QED
    BY <1>5, <1>7, <2>1, <2>3, <2>4, <2>5, <2>6 DEF engine
<1> QED
  BY <1>8, <1>9
-------------------------------------------------------------------------------
\* What a step inside a batch of the worker leaves of the invariant, whatever it
\* does with the session: only the head may no longer be awaited.
Carried ==
    /\ pub' \in [Pubs -> Publishing]
    /\ event' \in [open : BOOLEAN, stale : BOOLEAN, unsent : BOOLEAN]
    /\ ahead' \in [Senders -> SUBSET Senders]
    /\ (policy => usable)' /\ WorkerShape' /\ ControlShape' /\ BatchInv' /\ LinkInv'
    /\ KeptInv' /\ ClosedInv'
    /\ \/ W'.then = "failed" \/ active' = {}
       \/ \A t : Awaited(t) => \/ Awaited(t)'
                               \/ W.at # "snap" /\ W.batch[1] = [edge |-> "enter", track |-> t]

\* The worker goes on to the next candidate, with or without a message to send.
LEMMA Advance ==
  ASSUME PortInv, W.batch # <<>>, W.at \in {"ready", "snap"},
         UNCHANGED <<line, engine, usable, stopping>>,
         NEW at \in {"ready", "wait"}, NEW say \in {"none", "enter", "moving", "leave"},
         say # "none" <=> at = "wait",
         Set("worker", [W EXCEPT !.at = at, !.batch = Tail(@), !.say = say]),
         event' \in [open : BOOLEAN, stale : BOOLEAN, unsent : BOOLEAN],
         event'.open => event.open,
         ahead' \in [Senders -> SUBSET Senders]
  PROVE  Carried /\ W'.at = at /\ W'.say = say /\ W'.live = W.live /\ W'.stale = W.stale
<1> USE DEF PortInv
<1> DEFINE next == [W EXCEPT !.at = at, !.batch = Tail(@), !.say = say]
<1>1. W \in Publishing /\ W.batch \in Seq(Changes)
  BY Publishers
<1>2. /\ Tail(W.batch) \in Seq(Changes)
      /\ Len(W.batch) \in Nat \ {0} /\ Len(Tail(W.batch)) = Len(W.batch) - 1
      /\ \A i \in 1..Len(Tail(W.batch)) :
            i + 1 \in 1..Len(W.batch) /\ Tail(W.batch)[i] = W.batch[i + 1]
  BY <1>1, Batches
<1>3. next \in Publishing
  BY <1>1, <1>2 DEF Publishing
<1>4. pub' \in [Pubs -> Publishing] /\ W' = next /\ C' = C
  BY <1>3, SetPublisher DEF Pubs
<1>5. /\ W'.at = at /\ W'.batch = Tail(W.batch) /\ W'.then = W.then
      /\ W'.live = W.live /\ W'.stale = W.stale /\ W'.say = say
  BY <1>1, <1>4 DEF Publishing
<1>6. UNCHANGED <<link, net, policy, active, usable, stopping>>
  BY DEF line, engine
<1>7. W.then \in {"result", "unavailable"} /\ stopping \notin {"closing", "closed", "cut"}
  BY DEF WorkerShape, ClosedInv, Idle
<1>8. (policy => usable)' /\ WorkerShape'
  BY <1>5, <1>6, <1>7 DEF WorkerShape
<1>9. ControlShape'
  BY <1>4, <1>6 DEF ControlShape
<1>10. BatchInv'
  BY <1>2, <1>5, <1>6 DEF BatchInv
<1>11. LinkInv'
  BY <1>5, <1>6 DEF LinkInv
<1>12. KeptInv' /\ ClosedInv'
  BY <1>5, <1>6, <1>7 DEF KeptInv, ClosedInv
<1>13. ASSUME NEW t, Awaited(t)
       PROVE  \/ Awaited(t)'
              \/ W.at # "snap" /\ W.batch[1] = [edge |-> "enter", track |-> t]
  <2>1. PICK i \in 1..Len(W.batch) :
           /\ W.batch[i] = [edge |-> "enter", track |-> t]
           /\ W.at = "snap" => i # 1
    BY <1>13 DEF Awaited
  <2>2. CASE i = 1
    BY <2>1, <2>2
  <2>3. CASE i # 1
    <3>1. i - 1 \in 1..Len(Tail(W.batch)) /\ (i - 1) + 1 = i
      BY <1>2, <2>3
    <3>2. Tail(W.batch)[i - 1] = W.batch[i]
      BY <1>2, <3>1
    <3> QED
      BY <1>5, <2>1, <3>1, <3>2 DEF Awaited
  <2> QED
    BY <2>2, <2>3
<1> QED
  BY <1>4, <1>5, <1>8, <1>9, <1>10, <1>11, <1>12, <1>13 DEF Carried

\* A candidate is done with, without a message.
LEMMA Passed ==
  ASSUME PortInv, W.batch # <<>>, W.at \in {"ready", "snap"},
         UNCHANGED <<line, engine, usable, stopping>>, Dropped("worker"),
         event' = event \/ event' = [event EXCEPT !.unsent = event.open]
  PROVE  /\ Carried /\ W'.at = "ready" /\ W'.say = "none"
         /\ W'.live = W.live /\ W'.stale = W.stale
         /\ Announced' => Announced /\ (event.unsent => event'.unsent)
<1>1. Set("worker", [W EXCEPT !.at = "ready", !.batch = Tail(@), !.say = "none"])
  BY DEF Dropped, W
<1>2. /\ event' \in [open : BOOLEAN, stale : BOOLEAN, unsent : BOOLEAN]
      /\ event'.open = event.open /\ event'.stale = event.stale
      /\ event'.unsent = event.unsent \/ event'.unsent = event.open
  BY DEF PortInv, TypeOK
<1>3. ahead' \in [Senders -> SUBSET Senders] /\ net' = net
  BY DEF Dropped, PortInv, TypeOK, line
<1> QED
  BY <1>1, <1>2, <1>3, Advance DEF Announced

\* A candidate is done with, and its message waits for the lock.
LEMMA Told ==
  ASSUME PortInv, W.batch # <<>>, W.at \in {"ready", "snap"},
         UNCHANGED <<line, engine, usable, stopping>>,
         NEW edge \in {"enter", "moving", "leave"}, Say("worker", edge)
  PROVE  /\ Carried /\ W'.at = "wait" /\ W'.say = edge
         /\ W'.live = W.live /\ W'.stale = W.stale
         /\ event' = event /\ (Announced' <=> Announced)
<1>1. /\ Set("worker", [W EXCEPT !.at = "wait", !.batch = Tail(@), !.say = edge])
      /\ JoinsLine("worker") /\ event' = event
  BY DEF Say, W
<1>2. /\ ahead' \in [Senders -> SUBSET Senders] /\ net' = net
      /\ event' \in [open : BOOLEAN, stale : BOOLEAN, unsent : BOOLEAN]
  BY <1>1, Lines DEF Senders, Pubs, PortInv, TypeOK, line
<1>3. Carried /\ W'.at = "wait" /\ W'.say = edge /\ W'.live = W.live /\ W'.stale = W.stale
  BY <1>1, <1>2, Advance
<1> QED
  BY <1>1, <1>2, <1>3 DEF Announced

\* The worker's message has the lock, or its suspended send returns.
LEMMA Onward ==
  ASSUME PortInv, W.at \in {"wait", "send"},
         UNCHANGED <<line, engine, usable, stopping>>,
         NEW at \in {"ready", "send"},
         Set("worker", [W EXCEPT !.at = at, !.say = "none"]),
         event' \in [open : BOOLEAN, stale : BOOLEAN, unsent : BOOLEAN],
         event'.open => event.open \/ (W.live /\ W.say # "none"),
         ahead' \in [Senders -> SUBSET Senders]
  PROVE  /\ Carried /\ W'.at = at /\ W'.say = "none" /\ W'.stale = W.stale
         /\ \A t : Awaited(t) => Awaited(t)'
<1> USE DEF PortInv
<1> DEFINE next == [W EXCEPT !.at = at, !.say = "none"]
<1>1. W \in Publishing
  BY Publishers
<1>2. next \in Publishing
  BY <1>1 DEF Publishing
<1>3. pub' \in [Pubs -> Publishing] /\ W' = next /\ C' = C
  BY <1>2, SetPublisher DEF Pubs
<1>4. /\ W'.at = at /\ W'.batch = W.batch /\ W'.then = W.then
      /\ W'.live = W.live /\ W'.stale = W.stale /\ W'.say = "none"
  BY <1>1, <1>3 DEF Publishing
<1>5. UNCHANGED <<link, net, policy, active, usable, stopping>>
  BY DEF line, engine
<1>6. W.then \in {"result", "unavailable"} /\ stopping \notin {"closing", "closed", "cut"}
  BY DEF WorkerShape, ClosedInv, Idle
<1>7. (policy => usable)' /\ WorkerShape'
  BY <1>4, <1>5, <1>6 DEF WorkerShape
<1>8. ControlShape'
  BY <1>3, <1>5 DEF ControlShape
<1>9. BatchInv'
  BY <1>4, <1>5 DEF BatchInv
<1>10. LinkInv'
  BY <1>4, <1>5 DEF LinkInv
<1>11. KeptInv' /\ ClosedInv'
  BY <1>4, <1>5, <1>6 DEF KeptInv, ClosedInv
<1>12. \A t : Awaited(t) => Awaited(t)'
  BY <1>4 DEF Awaited
<1> QED
  BY <1>3, <1>4, <1>7, <1>8, <1>9, <1>10, <1>11, <1>12 DEF Carried

\* The worker's send raises.
LEMMA Failing ==
  ASSUME PortInv, W.at \in {"wait", "send"},
         UNCHANGED <<line, engine, usable, stopping>>, Fail("worker")
  PROVE  /\ Carried /\ event' = event /\ (~W.live \/ ~net)
         /\ W'.then = "failed" \/ active' = {}
         /\ W'.say = "none" /\ ~W'.stale
<1> USE DEF PortInv
<1> DEFINE next == IF W.then = "result"
                   THEN [Idle EXCEPT !.at = "ready", !.then = "failed"] ELSE Idle
<1>1. next \in Publishing
  BY IdlePublishing, EmptySeq DEF Idle, Publishing
<1>2. /\ Set("worker", next) /\ event' = event /\ (~W.live \/ ~net)
      /\ LeavesLine("worker")
  BY DEF Fail, W
<1>3. pub' \in [Pubs -> Publishing] /\ W' = next /\ C' = C
  BY <1>1, <1>2, SetPublisher DEF Pubs
<1>4. UNCHANGED <<link, net, policy, active, usable, stopping>>
  BY DEF line, engine
<1>5. /\ W.then \in {"result", "unavailable"} /\ stopping \notin {"closing", "closed", "cut"}
      /\ W.then = "unavailable" => active = {}
  BY DEF WorkerShape, ClosedInv, Idle, TypeOK
<1>6. /\ W'.batch = <<>> /\ W'.stale = FALSE /\ W'.say = "none" /\ W'.at \in {"idle", "ready"}
      /\ (W'.at = "idle" => W' = Idle) /\ (W'.at = "ready" => W'.then = "failed")
      /\ W.then = "result" => W'.then = "failed"
      /\ W'.then \in {"failed", "none"} /\ (W'.then = "failed" => W'.at = "ready")
  BY <1>3, <1>5 DEF Idle
<1>7. (policy => usable)' /\ WorkerShape'
  BY <1>4, <1>6 DEF WorkerShape
<1>8. ControlShape'
  BY <1>3, <1>4 DEF ControlShape
<1>9. BatchInv' /\ LinkInv' /\ KeptInv' /\ ClosedInv'
  BY <1>2, <1>4, <1>5, <1>6, EmptySeq DEF BatchInv, LinkInv, KeptInv, ClosedInv
<1>10. event' \in [open : BOOLEAN, stale : BOOLEAN, unsent : BOOLEAN]
       /\ ahead' \in [Senders -> SUBSET Senders]
  BY <1>2, Lines DEF TypeOK, Senders, Pubs
<1> QED
  BY <1>2, <1>3, <1>4, <1>5, <1>6, <1>7, <1>8, <1>9, <1>10 DEF Carried

\* A track that leaves is not the engine's any more: what the session loses in a
\* candidate of the worker, nobody misses.
LEMMA CarriedReport ==
  ASSUME PortInv, Carried, W.batch # <<>>, W.at = "ready",
         UNCHANGED <<engine, stopping>>, missed \subseteq missed',
         \A t \in active \ missed' : t \in session.active => t \in session'.active,
         \A t \in active \ missed' :
            W.batch[1] = [edge |-> "enter", track |-> t] => t \in session'.active
  PROVE  ReportInv'
<1> USE DEF PortInv
<1> SUFFICES ASSUME stopping' = "no", W'.then # "failed", NEW t \in active' \ missed'
             PROVE  t \in session'.active \/ Awaited(t)'
  BY DEF ReportInv
<1>1. active' = active /\ stopping' = stopping
  BY DEF engine
<1>2. W.then # "failed"
  BY DEF WorkerShape
<1>3. t \in session.active \/ Awaited(t)
  BY <1>1, <1>2 DEF ReportInv
<1>4. Awaited(t) => \/ Awaited(t)'
                    \/ W.at # "snap" /\ W.batch[1] = [edge |-> "enter", track |-> t]
  BY <1>1 DEF Carried
<1> QED
  BY <1>1, <1>3, <1>4

\* An event that stays announced still has its session's objects, or its leave
\* waits, or was refused.
LEMMA CarriedEvent ==
  ASSUME PortInv, UNCHANGED <<line, engine, stopping>>,
         W'.stale = W.stale, Announced' => Announced,
         \/ event.unsent => event'.unsent
         \/ session'.active # {} \/ W'.say = "leave",
         W'.say = W.say \/ W.say # "leave" \/ W'.say = "leave" \/ event'.unsent,
         session.active # {} => session'.active # {} \/ W'.say = "leave" \/ event'.unsent
  PROVE  EventInv'
  BY DEF PortInv, EventInv, engine

LEMMA WorkerEnter ==
  ASSUME PortInv, W.batch # <<>>, W.at = "ready",
         UNCHANGED <<line, media, engine, feed, stopping, missed>>,
         NEW t \in Tracks, W.batch[1] = [edge |-> "enter", track |-> t],
         PublishEnter("worker", t)
  PROVE  PortInv'
<1> USE DEF PortInv
<1>1. W \in Publishing /\ W.batch \in Seq(Changes) /\ Head(W.batch) = W.batch[1]
  BY Publishers, Batches
<1>2. UNCHANGED <<line, engine, usable, stopping>> /\ W.say = "none"
  BY DEF feed, WorkerShape
<1>3. Current.active = session.active /\ Current.seen \subseteq Tracks
      /\ session.active \subseteq Current.seen
  BY DEF Current, NewSession, NoSession, SessionInv, TypeOK
<1>4. PICK seen \in SUBSET Tracks :
         /\ session' = [there |-> TRUE, active |-> session.active \cup {t},
                        seen |-> seen \cup {t}]
         /\ session.active \subseteq seen
  <2> DEFINE seen == IF Current.active = {} THEN {} ELSE Current.seen
  <2>1. session' = [there |-> TRUE, active |-> session.active \cup {t}, seen |-> seen \cup {t}]
    BY <1>3 DEF PublishEnter
  <2> QED
    BY <1>3, <2>1
<1>5. /\ session' \in [there : BOOLEAN, active : SUBSET Tracks, seen : SUBSET Tracks]
      /\ session'.active \subseteq session'.seen /\ SessionInv'
      /\ session'.active = session.active \cup {t}
  BY <1>4 DEF SessionInv, TypeOK
<1>6. CASE /\ Set("worker", [W EXCEPT !.at = "snap",
                                      !.say = IF Current.active = {} THEN "enter" ELSE "moving"])
           /\ kept' = NotHeld /\ UNCHANGED <<event, ahead>>
  <2> DEFINE say == IF Current.active = {} THEN "enter" ELSE "moving"
             next == [W EXCEPT !.at = "snap", !.say = say]
  <2>0. say \in {"enter", "moving"}
    OBVIOUS
  <2> HIDE DEF say
  <2>1. next \in Publishing
    BY <1>1, <2>0 DEF Publishing
  <2>2. pub' \in [Pubs -> Publishing] /\ W' = next /\ C' = C
    BY <1>6, <2>1, SetPublisher DEF Pubs, say
  <2>3. /\ W'.at = "snap" /\ W'.batch = W.batch /\ W'.then = W.then
        /\ W'.live = W.live /\ W'.stale = W.stale /\ W'.say = say
    BY <1>1, <2>2 DEF Publishing
  <2>4. TypeOK'
    BY <1>5, <1>6, <2>2 DEF TypeOK, line, media, engine, feed, NotHeld
  <2>5. WorkerShape'
    <3>1. Head(W'.batch).edge = "enter"
      BY <1>1, <2>3
    <3> QED
      BY <1>2, <2>0, <2>3, <3>1 DEF WorkerShape
  <2>6. (policy => usable)' /\ ControlShape' /\ BatchInv' /\ LinkInv'
    BY <1>2, <1>6, <2>2, <2>3 DEF ControlShape, BatchInv, LinkInv, engine, line
  <2>7. KeptInv' /\ ClosedInv' /\ SayInv'
    BY <1>2, <1>6, <2>3 DEF KeptInv, ClosedInv, SayInv, NotHeld, Idle
  <2>8. EventInv'
    BY <1>5, <1>6, <2>3 DEF EventInv, Announced, line, engine
  <2>9. \A u : Awaited(u) => Awaited(u)' \/ u = t
    BY <2>3 DEF Awaited
  <2>10. ReportInv'
    BY <1>5, <2>3, <2>9 DEF ReportInv, engine
  <2> QED
    BY <1>5, <2>4, <2>5, <2>6, <2>7, <2>8, <2>10
<1>7. CASE /\ IF Refused(session'.active) THEN Skip("worker") ELSE Say("worker", "moving")
           /\ kept' = kept
  <2>1. /\ Carried /\ W'.say # "leave" /\ W'.say # "enter" /\ W'.stale = W.stale
        /\ (Announced' => Announced /\ (event.unsent => event'.unsent))
    <3>1. CASE Skip("worker")
      BY <1>2, <3>1, Passed DEF Skip
    <3>2. CASE Say("worker", "moving")
      BY <1>2, <3>2, Told
    <3> QED
      BY <1>7, <3>1, <3>2
  <2>2. TypeOK'
    BY <1>5, <1>7, <2>1 DEF Carried, TypeOK, line, media, engine, feed
  <2>3. EventInv'
    BY <1>2, <1>5, <2>1 DEF EventInv, engine
  <2>4. ReportInv'
    BY <1>5, <2>1, CarriedReport
  <2>5. SayInv'
    BY <2>1 DEF SayInv
  <2> QED
    BY <1>5, <2>1, <2>2, <2>3, <2>4, <2>5 DEF Carried
<1> QED
  BY <1>6, <1>7 DEF PublishEnter, W

LEMMA WorkerMoving ==
  ASSUME PortInv, W.batch # <<>>, W.at = "ready",
         UNCHANGED <<line, media, engine, feed, stopping, missed>>,
         NEW t \in Tracks, W.batch[1] = [edge |-> "moving", track |-> t],
         PublishMoving("worker", t)
  PROVE  PortInv'
<1> USE DEF PortInv
<1>1. UNCHANGED <<line, engine, usable, stopping>> /\ W.say = "none"
  BY DEF feed, WorkerShape
<1>2. /\ session' = Current /\ kept' = kept
      /\ Say("worker", "moving") \/ Skip("worker")
  BY DEF PublishMoving
<1>3. /\ session' \in [there : BOOLEAN, active : SUBSET Tracks, seen : SUBSET Tracks]
      /\ session'.active \subseteq session'.seen /\ SessionInv'
      /\ session'.active = session.active
  BY <1>2 DEF Current, NewSession, NoSession, SessionInv, TypeOK
<1>4. /\ Carried /\ W'.say # "leave" /\ W'.say # "enter" /\ W'.stale = W.stale
      /\ (Announced' => Announced /\ (event.unsent => event'.unsent))
  <2>1. CASE Say("worker", "moving")
    BY <1>1, <2>1, Told
  <2>2. CASE Skip("worker")
    BY <1>1, <2>2, Passed DEF Skip
  <2> QED
    BY <1>2, <2>1, <2>2
<1>5. TypeOK'
  BY <1>2, <1>3, <1>4 DEF Carried, TypeOK, line, media, engine, feed
<1>6. EventInv' /\ SayInv'
  BY <1>1, <1>3, <1>4 DEF EventInv, SayInv, engine
<1>7. ReportInv'
  BY <1>3, <1>4, CarriedReport
<1> QED
  BY <1>3, <1>4, <1>5, <1>6, <1>7 DEF Carried

LEMMA WorkerLeave ==
  ASSUME PortInv, W.batch # <<>>, W.at = "ready",
         UNCHANGED <<line, media, engine, feed, stopping, missed>>,
         NEW t \in Tracks, W.batch[1] = [edge |-> "leave", track |-> t],
         PublishLeave("worker", t)
  PROVE  PortInv'
<1> USE DEF PortInv
<1>1. UNCHANGED <<line, engine, usable, stopping>> /\ W.say = "none"
  BY DEF feed, WorkerShape
<1>2. t \notin active
  <2>1. 1 \in 1..Len(W.batch)
    BY Publishers, Batches
  <2> QED
    BY <2>1 DEF BatchInv
<1>3. /\ Current \in [there : BOOLEAN, active : SUBSET Tracks, seen : SUBSET Tracks]
      /\ Current.there /\ Current.active = session.active
      /\ Current.active \subseteq Current.seen
  BY DEF Current, NewSession, NoSession, SessionInv, TypeOK
<1> DEFINE Good ==
      /\ session' \in [there : BOOLEAN, active : SUBSET Tracks, seen : SUBSET Tracks]
      /\ session'.active \subseteq session'.seen /\ SessionInv'
      /\ kept' \in [own : BOOLEAN, active : SUBSET Tracks]
      /\ session.active \ {t} \subseteq session'.active
      /\ Carried /\ W'.stale = W.stale /\ W'.say # "enter"
      /\ Announced' => /\ Announced /\ (event.unsent => event'.unsent)
                       /\ \/ session'.active # {} \/ W'.say = "leave" \/ event'.unsent
                          \/ session'.active = session.active
<1>4. ASSUME t \notin Current.seen PROVE Good
  <2>1. Skip("worker") /\ session' = Current /\ kept' = kept
    BY <1>4 DEF PublishLeave
  <2>2. /\ Carried /\ W'.stale = W.stale /\ W'.say = "none"
        /\ (Announced' => Announced /\ (event.unsent => event'.unsent))
    BY <1>1, <2>1, Passed DEF Skip
  <2> QED
    BY <1>3, <2>1, <2>2 DEF SessionInv, TypeOK
<1>5. ASSUME t \in Current.seen /\ Left(t) # {} PROVE Good
  <2>1. /\ IF Refused(Left(t)) THEN Skip("worker") ELSE Say("worker", "moving")
        /\ kept' = kept /\ session' = [Current EXCEPT !.active = Left(t)]
    BY <1>5 DEF PublishLeave
  <2>2. /\ Carried /\ W'.stale = W.stale /\ W'.say # "enter"
        /\ (Announced' => Announced /\ (event.unsent => event'.unsent))
    <3>1. CASE Skip("worker")
      BY <1>1, <3>1, Passed DEF Skip
    <3>2. CASE Say("worker", "moving")
      BY <1>1, <3>2, Told
    <3> QED
      BY <2>1, <3>1, <3>2
  <2>3. Left(t) = session.active \ {t}
    BY <1>3 DEF Left
  <2>4. /\ session' \in [there : BOOLEAN, active : SUBSET Tracks, seen : SUBSET Tracks]
        /\ session'.active = Left(t) /\ session'.seen = Current.seen /\ session'.there
    BY <1>3, <2>1, <2>3
  <2> QED
    BY <1>3, <1>5, <2>1, <2>2, <2>3, <2>4 DEF SessionInv, TypeOK
<1>6. ASSUME t \in Current.seen /\ Left(t) = {} /\ ~Refused(Current.seen) PROVE Good
  <2>1. /\ Say("worker", "leave") /\ Pop([Current EXCEPT !.active = {}])
    BY <1>6 DEF PublishLeave
  <2>2. /\ Carried /\ W'.stale = W.stale /\ W'.say = "leave"
        /\ event' = event /\ (Announced' <=> Announced)
    BY <1>1, <2>1, Told
  <2>3. session' = NoSession /\ kept' = kept
    <3>1. [Current EXCEPT !.active = {}].active \subseteq Tracks
      BY <1>3
    <3> QED
      BY <2>1, <3>1, Popped
  <2>4. session.active \ {t} = {}
    BY <1>3, <1>6 DEF Left
  <2> QED
    BY <2>2, <2>3, <2>4 DEF SessionInv, TypeOK, NoSession
<1>7. ASSUME t \in Current.seen /\ Left(t) = {} /\ Refused(Current.seen) PROVE Good
  <2>1. /\ Dropped("worker") /\ event' = [event EXCEPT !.unsent = event.open]
        /\ kept' = kept /\ session' = [Current EXCEPT !.active = {}]
    BY <1>7 DEF PublishLeave
  <2>2. /\ Carried /\ W'.stale = W.stale /\ W'.say = "none"
        /\ (Announced' => Announced /\ (event.unsent => event'.unsent))
    BY <1>1, <2>1, Passed
  <2>3. Announced' => event'.unsent
    BY <2>1 DEF Announced, TypeOK
  <2>4. /\ session' \in [there : BOOLEAN, active : SUBSET Tracks, seen : SUBSET Tracks]
        /\ session'.active = {} /\ session'.seen = Current.seen /\ session'.there
    BY <1>3, <2>1
  <2>5. session.active \ {t} = {}
    BY <1>3, <1>7 DEF Left
  <2> QED
    BY <1>3, <2>1, <2>2, <2>3, <2>4, <2>5 DEF SessionInv, TypeOK
<1>8. Good
  BY <1>4, <1>5, <1>6, <1>7
<1> HIDE DEF Good
<1>9. TypeOK'
  BY <1>8 DEF Good, Carried, TypeOK, line, media, engine, feed
<1>10. EventInv' /\ SayInv'
  BY <1>1, <1>8 DEF Good, EventInv, SayInv, engine
<1>11. ReportInv'
  BY <1>2, <1>8, CarriedReport DEF Good
<1> QED
  BY <1>8, <1>9, <1>10, <1>11 DEF Good, Carried

\* One candidate of the worker's batch.
LEMMA StepCandidateWorker ==
  ASSUME PortInv, Candidate("worker") PROVE PortInv'
<1> DEFINE c == W.batch[1]
<1>1. /\ W.at = "ready" /\ W.batch # <<>> /\ W.batch \in Seq(Changes)
      /\ Head(W.batch) = c /\ c \in Changes /\ 1 \in 1..Len(W.batch)
  BY Publishers, Batches DEF PortInv, Candidate, W
<1>2. UNCHANGED <<line, media, engine, feed, stopping>>
  BY DEF Candidate
<1>3. c.edge \in {"enter", "moving", "leave"} /\ c.track \in Tracks
      /\ c = [edge |-> c.edge, track |-> c.track]
  BY <1>1 DEF Changes
<1>4. \/ /\ Skip("worker") /\ UNCHANGED <<session, kept>>
         /\ missed' = missed \cup (IF c.edge = "enter" /\ ~W.stale THEN {c.track} ELSE {})
      \/ /\ missed' = missed
         /\ CASE c.edge = "enter" -> PublishEnter("worker", c.track)
              [] c.edge = "moving" -> PublishMoving("worker", c.track)
              [] c.edge = "leave" -> PublishLeave("worker", c.track)
  BY <1>1 DEF Candidate, W
<1> HIDE DEF c
<1>5. CASE /\ Skip("worker") /\ UNCHANGED <<session, kept>>
           /\ missed' = missed \cup (IF c.edge = "enter" /\ ~W.stale THEN {c.track} ELSE {})
  <2>1. /\ Carried /\ W'.at = "ready" /\ W'.stale = W.stale /\ W'.say = "none" /\ event' = event
        /\ (Announced' => Announced)
    BY <1>1, <1>2, <1>5, Passed DEF Skip, feed
  <2>2. c.edge = "enter" => IF W.stale THEN active = {} ELSE c.track \in active
    BY <1>1 DEF PortInv, BatchInv, c
  <2>3. missed' \subseteq active /\ missed \subseteq missed'
    BY <1>5, <2>2 DEF PortInv, TypeOK
  <2>4. TypeOK'
    BY <1>2, <1>5, <2>1, <2>3 DEF PortInv, Carried, TypeOK, line, media, engine, feed
  <2>5. \A t \in active \ missed' :
           W.batch[1] = [edge |-> "enter", track |-> t] => t \in session'.active
    BY <1>5, <2>2 DEF c
  <2>6. ReportInv'
    BY <1>1, <1>2, <1>5, <2>1, <2>3, <2>5, CarriedReport
  <2>7. SessionInv' /\ EventInv' /\ SayInv'
    <3>1. W.say = "none"
      BY <1>1 DEF PortInv, WorkerShape
    <3> QED
      BY <1>2, <1>5, <2>1, <3>1 DEF PortInv, SessionInv, EventInv, SayInv, engine
  <2> QED
    BY <2>1, <2>4, <2>6, <2>7 DEF PortInv, Carried
<1>6. CASE c.edge = "enter" /\ PublishEnter("worker", c.track) /\ missed' = missed
  BY <1>1, <1>2, <1>3, <1>6, WorkerEnter DEF c
<1>7. CASE c.edge = "moving" /\ PublishMoving("worker", c.track) /\ missed' = missed
  BY <1>1, <1>2, <1>3, <1>7, WorkerMoving DEF c
<1>8. CASE c.edge = "leave" /\ PublishLeave("worker", c.track) /\ missed' = missed
  BY <1>1, <1>2, <1>3, <1>8, WorkerLeave DEF c
<1> QED
  BY <1>3, <1>4, <1>5, <1>6, <1>7, <1>8

\* The snapshot of an enter: its message waits only for a session that has a
\* track still, or it is stale, or its link is gone.
LEMMA StepSnapshot ==
  ASSUME PortInv, SnapshotReady PROVE PortInv'
<1> USE DEF PortInv
<1> DEFINE tracks == IF kept.own THEN kept.active ELSE session.active
<1>1. /\ W.at = "snap" /\ kept' = NotHeld
      /\ UNCHANGED <<line, media, engine, feed, session, stopping, missed>>
  BY DEF SnapshotReady, W
<1>2. /\ W.batch # <<>> /\ Head(W.batch).edge = "enter" /\ W.say \in {"enter", "moving"}
      /\ W.then # "failed"
  BY <1>1 DEF WorkerShape
<1>3. UNCHANGED <<line, engine, usable, stopping>>
  BY <1>1 DEF feed
<1>4. ~W.stale => policy
  <2>1. Head(W.batch) = W.batch[1] /\ 1 \in 1..Len(W.batch)
    BY <1>2, Publishers, Batches
  <2> QED
    BY <1>2, <2>1 DEF BatchInv, TypeOK
<1>5. /\ Carried /\ W'.stale = W.stale /\ W'.live = W.live /\ W'.say # "leave"
      /\ (Announced' => Announced /\ (event.unsent => event'.unsent))
      /\ W'.at = "wait" => tracks # {}
  <2>1. CASE Refused(tracks)
    <3>1. Skip("worker")
      BY <2>1 DEF SnapshotReady
    <3> QED
      BY <1>1, <1>2, <1>3, <3>1, Passed DEF Skip
  <2>2. CASE ~Refused(tracks)
    <3>1. Say("worker", W.say)
      BY <2>2 DEF SnapshotReady, W
    <3>2. tracks # {}
      BY <2>2 DEF Refused
    <3> QED
      BY <1>1, <1>2, <1>3, <3>1, <3>2, Told
  <2> QED
    BY <2>1, <2>2
<1>6. TypeOK'
  BY <1>1, <1>5 DEF Carried, TypeOK, line, media, engine, feed, NotHeld
<1>7. SessionInv' /\ EventInv'
  BY <1>1, <1>2, <1>5 DEF SessionInv, EventInv, engine
<1>8. SayInv'
  BY <1>1, <1>4, <1>5 DEF SayInv, KeptInv, engine
<1>9. ReportInv'
  BY <1>1, <1>2, <1>5 DEF ReportInv, Carried, engine
<1> QED
  BY <1>5, <1>6, <1>7, <1>8, <1>9 DEF Carried

\* The worker's message goes out, or its send raises, or a suspended send of it
\* goes on.  Only an enter opens the event, on a live link and, when not stale,
\* for the present policy.
LEMMA StepSendWorker ==
  ASSUME PortInv, Granted("worker") \/ Resume("worker") PROVE PortInv'
<1> USE DEF PortInv
<1>1. /\ W.at \in {"wait", "send"} /\ W.then # "failed"
      /\ UNCHANGED <<line, media, engine, feed, session, kept, stopping, missed>>
  BY DEF Granted, Resume, WorkerShape, W
<1>2. UNCHANGED <<line, engine, usable, stopping>> /\ net' = net /\ W \in Publishing
  BY <1>1, Publishers DEF feed, line
<1>3. CASE Fail("worker")
  <2>1. /\ Carried /\ event' = event /\ (~W.live \/ ~net)
        /\ W'.then = "failed" \/ active' = {}
        /\ W'.say = "none" /\ ~W'.stale
    BY <1>1, <1>2, <1>3, Failing
  <2>2. Announced' => Announced /\ W.say = "none"
    BY <1>2, <2>1 DEF Announced, LinkInv
  <2>3. TypeOK'
    BY <1>1, <2>1 DEF Carried, TypeOK, line, media, engine, feed
  <2>4. SessionInv' /\ EventInv' /\ SayInv'
    BY <1>1, <2>1, <2>2 DEF SessionInv, EventInv, SayInv, engine
  <2>5. ReportInv'
    BY <2>1 DEF ReportInv
  <2> QED
    BY <2>1, <2>3, <2>4, <2>5 DEF Carried
<1>4. CASE W.at = "wait" /\ Write("worker", W.say)
  <2>1. /\ W.live
        /\ event' = IF ~net \/ W.say = "moving" THEN event
                    ELSE IF W.say = "leave" THEN NoEvent
                    ELSE IF event.open THEN [event EXCEPT !.unsent = FALSE]
                    ELSE [NoEvent EXCEPT !.open = TRUE, !.stale = W.stale]
    BY <1>4 DEF Write, W
  <2>2. PICK at \in {"ready", "send"} :
           Set("worker", [W EXCEPT !.at = at, !.say = "none"])
    BY <1>4 DEF Write, W
  <2>3. W.say \in {"enter", "moving", "leave"}
    BY <1>2, <1>4 DEF WorkerShape, Publishing
  <2>4. event' \in [open : BOOLEAN, stale : BOOLEAN, unsent : BOOLEAN]
    BY <1>2, <2>1 DEF TypeOK, Publishing, NoEvent
  <2>5. ahead' \in [Senders -> SUBSET Senders]
    BY <1>4, Lines DEF Write, Senders, Pubs, TypeOK
  <2>6. /\ Carried /\ W'.at = at /\ W'.say = "none" /\ W'.stale = W.stale
        /\ \A t : Awaited(t) => Awaited(t)'
    BY <1>1, <1>2, <2>1, <2>2, <2>3, <2>4, <2>5, Onward
  <2>7. W.say = "enter" /\ ~W.stale => policy /\ session.active # {}
    BY <1>4, <2>1 DEF SayInv
  <2>8. EventInv'
    <3>1. CASE W.say = "enter"
      <4>1. Announced' => ~W.stale
        BY <1>2, <2>1, <3>1 DEF Announced, NoEvent, EventInv
      <4> QED
        BY <1>1, <2>6, <2>7, <3>1, <4>1 DEF EventInv, engine
    <3>2. CASE W.say = "moving"
      <4>1. event' = event /\ (Announced' => Announced)
        BY <1>2, <2>1, <3>2 DEF Announced
      <4> QED
        BY <1>1, <2>6, <3>2, <4>1 DEF EventInv, engine
    <3>3. CASE W.say = "leave"
      <4>1. ~Announced'
        BY <1>2, <2>1, <3>3 DEF Announced, NoEvent
      <4> QED
        BY <4>1 DEF EventInv
    <3> QED
      BY <2>3, <3>1, <3>2, <3>3
  <2>9. TypeOK' /\ SessionInv' /\ SayInv'
    BY <1>1, <2>6 DEF Carried, TypeOK, SessionInv, SayInv, line, media, engine, feed
  <2>10. ReportInv'
    BY <1>1, <2>6 DEF ReportInv, engine
  <2> QED
    BY <2>6, <2>8, <2>9, <2>10 DEF Carried
<1>5. CASE W.at = "send" /\ Set("worker", [W EXCEPT !.at = "ready"]) /\ LeavesLine("worker")
           /\ event' = event
  <2>1. W.say = "none"
    BY <1>5 DEF WorkerShape
  <2>2. [W EXCEPT !.at = "ready"] = [W EXCEPT !.at = "ready", !.say = "none"]
    BY <1>2, <2>1 DEF Publishing
  <2>3. /\ ahead' \in [Senders -> SUBSET Senders]
        /\ event' \in [open : BOOLEAN, stale : BOOLEAN, unsent : BOOLEAN]
    BY <1>5, Lines DEF Senders, Pubs, TypeOK
  <2>4. /\ Carried /\ W'.at = "ready" /\ W'.say = "none" /\ W'.stale = W.stale
        /\ \A t : Awaited(t) => Awaited(t)'
    BY <1>1, <1>2, <1>5, <2>2, <2>3, Onward
  <2>5. Announced' => Announced
    BY <1>2, <1>5 DEF Announced
  <2>6. TypeOK' /\ SessionInv' /\ SayInv' /\ EventInv'
    BY <1>1, <1>5, <2>1, <2>4, <2>5
       DEF Carried, TypeOK, SessionInv, SayInv, EventInv, line, media, engine, feed
  <2>7. ReportInv'
    BY <1>1, <2>4 DEF ReportInv, engine
  <2> QED
    BY <2>4, <2>6, <2>7 DEF Carried
<1> QED
  BY <1>3, <1>4, <1>5 DEF Granted, Resume, W

\* The worker becomes idle, or fails, with nothing awaited of its batch.
LEMMA WorkerTurns ==
  ASSUME PortInv, TypeOK', NEW f \in Publishing, Set("worker", f),
         f = Idle \/ f = [Idle EXCEPT !.at = "ready", !.then = "failed"],
         UNCHANGED <<line, engine, usable, stopping, missed>>,
         event'.open = event.open, event'.stale = event.stale,
         KeptInv', SessionInv', Announced => session'.active # {} \/ event'.unsent,
         f = Idle /\ stopping = "no" =>
            \/ active = {}
            \/ W.batch = <<>> /\ W.then # "failed" /\ session' = session,
         stopping \notin {"closing", "closed", "cut"}
  PROVE  PortInv'
<1> USE DEF PortInv
<1>1. W' = f /\ C' = C
  BY SetPublisher DEF Pubs
<1>2. UNCHANGED <<link, net, policy, active, usable, stopping, missed>>
  BY DEF line, engine
<1>3. /\ W'.batch = <<>> /\ W'.stale = FALSE /\ W'.say = "none"
      /\ W'.at \in {"idle", "ready"} /\ W'.then \in {"none", "failed"}
      /\ (W'.at = "idle" => W' = Idle) /\ (W'.then = "failed" => W'.at = "ready")
      /\ (W'.at = "ready" => W'.then = "failed")
  <2>1. CASE f = Idle
    BY <1>1, <2>1 DEF Idle
  <2>2. CASE f = [Idle EXCEPT !.at = "ready", !.then = "failed"]
    BY <1>1, <2>2 DEF Idle
  <2> QED
    BY <2>1, <2>2
<1>4. (policy => usable)' /\ WorkerShape'
  BY <1>2, <1>3 DEF WorkerShape
<1>5. ControlShape'
  BY <1>1, <1>2 DEF ControlShape
<1>6. BatchInv' /\ LinkInv'
  BY <1>2, <1>3, EmptySeq DEF BatchInv, LinkInv
<1>7. Announced' <=> Announced
  BY <1>2 DEF Announced
<1>8. EventInv' /\ ClosedInv' /\ SayInv'
  BY <1>2, <1>3, <1>7 DEF EventInv, ClosedInv, SayInv
<1>9. ReportInv'
  <2> SUFFICES ASSUME stopping = "no", f = Idle, NEW t \in active \ missed
               PROVE  t \in session'.active
    BY <1>1, <1>2 DEF ReportInv, Idle
  <2>1. W.batch = <<>> /\ W.then # "failed" /\ session' = session
    OBVIOUS
  <2>2. ~Awaited(t)
    BY <2>1, EmptySeq DEF Awaited
  <2> QED
    BY <2>1, <2>2 DEF ReportInv
<1> QED
  BY <1>4, <1>5, <1>6, <1>8, <1>9

LEMMA FailedPublishing == [Idle EXCEPT !.at = "ready", !.then = "failed"] \in Publishing
  BY EmptySeq DEF Idle, Publishing

LEMMA StepWorkerTurns ==
  ASSUME PortInv,
         \/ WorkerStopped \/ ModelFails
         \/ W.at = "ready" /\ W.batch = <<>> /\ (ResultDone \/ Revoked("worker"))
  PROVE  PortInv'
<1> USE DEF PortInv
<1>0. W # Idle => stopping \notin {"closing", "closed", "cut"}
  BY DEF ClosedInv
<1>1. CASE WorkerStopped
  <2>1. /\ Set("worker", Idle) /\ kept' = NotHeld /\ frame' = "none" /\ stopping = "sealed"
        /\ UNCHANGED <<line, media, engine, queued, usable, session, stopping, missed>>
        /\ LeavesLine("worker")
        /\ event' = [event EXCEPT !.unsent = event.open /\ (@ \/ W.say = "leave")]
    BY <1>1 DEF WorkerStopped, W
  <2>2. pub' \in [Pubs -> Publishing] /\ W' = Idle
    BY <2>1, SetPublisher, IdlePublishing DEF Pubs
  <2>3. /\ event' \in [open : BOOLEAN, stale : BOOLEAN, unsent : BOOLEAN]
        /\ event'.open = event.open /\ event'.stale = event.stale
        /\ event'.unsent = (event.open /\ (event.unsent \/ W.say = "leave"))
    BY <2>1 DEF TypeOK
  <2>6. ahead' \in [Senders -> SUBSET Senders]
    BY <2>1, Lines DEF TypeOK, Senders, Pubs
  <2>7. TypeOK'
    BY <2>1, <2>2, <2>3, <2>6 DEF TypeOK, line, media, engine, NotHeld
  <2>4. KeptInv' /\ SessionInv'
    BY <2>1 DEF KeptInv, SessionInv, NotHeld
  <2>5. Announced => session'.active # {} \/ event'.unsent
    BY <2>1, <2>3 DEF EventInv, Announced
  <2> QED
    BY <2>1, <2>3, <2>4, <2>5, <2>7, IdlePublishing, WorkerTurns
<1>2. CASE ModelFails
  <2> DEFINE failed == [Idle EXCEPT !.at = "ready", !.then = "failed"]
  <2>1. /\ Set("worker", failed) /\ frame' = "none" /\ queued' = FALSE
        /\ UNCHANGED <<line, media, engine, usable, session, kept, ahead, stopping, missed, event>>
        /\ stopping = "no" /\ W = Idle
    BY <1>2 DEF ModelFails, Free, WorkerShape, W
  <2>2. pub' \in [Pubs -> Publishing] /\ W' = failed
    BY <2>1, SetPublisher, FailedPublishing DEF Pubs
  <2>3. TypeOK'
    BY <2>1, <2>2 DEF TypeOK, line, media, engine
  <2>4. KeptInv' /\ SessionInv'
    BY <2>1, <2>2 DEF KeptInv, SessionInv, Idle
  <2>5. Announced => session'.active # {} \/ event'.unsent
    BY <2>1 DEF EventInv, Idle
  <2>6. failed # Idle
    BY DEF Idle
  <2> HIDE DEF failed
  <2> QED
    BY <2>1, <2>3, <2>4, <2>5, <2>6, FailedPublishing, WorkerTurns DEF failed
<1>3. CASE W.at = "ready" /\ W.batch = <<>> /\ ResultDone
  <2>1. /\ Set("worker", Idle) /\ W.then = "result"
        /\ UNCHANGED <<line, media, engine, feed, session, kept, ahead, stopping, missed, event>>
        /\ W.say = "none" /\ stopping \notin {"closing", "closed", "cut"}
    BY <1>0, <1>3 DEF ResultDone, WorkerShape, W, Idle
  <2>2. pub' \in [Pubs -> Publishing] /\ W' = Idle
    BY <2>1, SetPublisher, IdlePublishing DEF Pubs
  <2>3. TypeOK'
    BY <2>1, <2>2 DEF TypeOK, line, media, engine, feed
  <2>4. KeptInv' /\ SessionInv'
    BY <2>1, <2>2 DEF KeptInv, SessionInv, Idle
  <2>5. Announced => session'.active # {} \/ event'.unsent
    BY <2>1 DEF EventInv
  <2> QED
    BY <1>3, <2>1, <2>3, <2>4, <2>5, IdlePublishing, WorkerTurns DEF feed
<1>4. CASE W.at = "ready" /\ W.batch = <<>> /\ Revoked("worker")
  <2>1. /\ Set("worker", Idle) /\ W.then \in {"unavailable", "revoke"} /\ Pop(session)
        /\ UNCHANGED <<line, media, engine, feed, ahead, stopping, missed, event>>
        /\ stopping \notin {"closing", "closed", "cut"}
    BY <1>0, <1>4 DEF Revoked, W, Idle
  <2>2. pub' \in [Pubs -> Publishing] /\ W' = Idle
    BY <2>1, SetPublisher, IdlePublishing DEF Pubs
  <2>3. session' = NoSession /\ kept' \in [own : BOOLEAN, active : SUBSET Tracks]
    BY <2>1, Popped DEF TypeOK
  <2>4. TypeOK'
    BY <2>1, <2>2, <2>3 DEF TypeOK, line, media, engine, feed, NoSession
  <2>5. KeptInv' /\ SessionInv'
    BY <2>2, <2>3 DEF KeptInv, SessionInv, Idle
  <2>6. ~policy /\ active = {}
    BY <1>4, <2>1 DEF WorkerShape, TypeOK
  <2>7. Announced => session'.active # {} \/ event'.unsent
    BY <2>6 DEF EventInv
  <2>8. /\ UNCHANGED <<line, engine, usable, stopping, missed, event>>
        /\ stopping \notin {"closing", "closed", "cut"}
    BY <2>1 DEF feed
  <2>9. Set("worker", Idle)
    BY <2>1
  <2> HIDE DEF PortInv
  <2> QED
    BY <2>4, <2>5, <2>6, <2>7, <2>8, <2>9, IdlePublishing, WorkerTurns
<1> QED
  BY <1>1, <1>2, <1>3, <1>4

\* The changes a result may tell of are finitely many.
LEMMA ChangesFinite == ASSUME NEW S \in SUBSET Changes PROVE IsFiniteSet(S)
<1> DEFINE Edges == {"enter", "moving", "leave"}
           P == Edges \X Tracks
           f == [x \in P |-> [edge |-> x[1], track |-> x[2]]]
<1>1. IsFiniteSet(Edges)
  <2>1. Edges = ({"enter"} \cup {"moving"}) \cup {"leave"}
    OBVIOUS
  <2>2. IsFiniteSet({"enter"}) /\ IsFiniteSet({"moving"}) /\ IsFiniteSet({"leave"})
    BY FS_Singleton
  <2>3. IsFiniteSet({"enter"} \cup {"moving"})
    BY <2>2, FS_Union
  <2>4. IsFiniteSet(({"enter"} \cup {"moving"}) \cup {"leave"})
    BY <2>2, <2>3, FS_Union
  <2> QED
    BY <2>1, <2>4
<1>2. IsFiniteSet(P)
  BY <1>1, TracksAssumption, FS_Product
<1>3. f \in Surjection(P, Changes)
  <2>1. f \in [P -> Changes]
    BY DEF Changes
  <2>2. ASSUME NEW c \in Changes PROVE \E x \in P : f[x] = c
    <3>1. <<c.edge, c.track>> \in P /\ c = [edge |-> c.edge, track |-> c.track]
      BY DEF Changes
    <3> QED
      BY <3>1
  <2> QED
    BY <2>1, <2>2 DEF Surjection
<1> HIDE DEF P, f
<1>4. IsFiniteSet(Changes)
  BY <1>2, <1>3, FS_Surjection
<1> QED
  BY <1>4, FS_Subset

\* A current result: its changes are the worker's batch, one for each track that
\* enters, moves or leaves.
LEMMA CurrentResult ==
  ASSUME PortInv, W = Idle, policy, frame' = "none", stopping = "no",
         NEW entering \in SUBSET (Tracks \ used), NEW leaving \in SUBSET active,
         NEW moving \in SUBSET (active \ leaving),
         NEW order \in Orders([edge : {"enter"}, track : entering]
                              \cup [edge : {"moving"}, track : moving]
                              \cup [edge : {"leave"}, track : leaving]),
         active' = (active \ leaving) \cup entering,
         used' = used \cup entering,
         missed' = (missed \ leaving) \cup (IF link = "agreed" THEN {} ELSE entering),
         Set("worker", Publish("worker", order, "result", FALSE)),
         UNCHANGED <<line, media, policy, queued, usable, session, kept, ahead, stopping, event>>
  PROVE  PortInv'
<1> USE DEF PortInv
<1> DEFINE S == [edge : {"enter"}, track : entering] \cup [edge : {"moving"}, track : moving]
                    \cup [edge : {"leave"}, track : leaving]
           batch == IF link = "agreed" THEN order ELSE <<>>
           next == [at |-> "ready", batch |-> batch, on |-> stream, live |-> TRUE,
                    stale |-> FALSE, say |-> "none", then |-> "result"]
<1>1. active \subseteq used /\ used \subseteq Tracks /\ missed \subseteq active
  BY DEF TypeOK
<1>2. S \in SUBSET Changes
  <2>1. entering \subseteq Tracks /\ moving \subseteq Tracks /\ leaving \subseteq Tracks
    BY <1>1
  <2> QED
    BY <2>1 DEF Changes
<1>3. /\ \A x \in S : \/ x.edge = "enter" /\ x.track \in entering
                      \/ x.edge = "moving" /\ x.track \in moving
                      \/ x.edge = "leave" /\ x.track \in leaving
      /\ \A t \in entering : [edge |-> "enter", track |-> t] \in S
  OBVIOUS
<1> HIDE DEF S
<1>4. /\ order \in Seq(S) /\ \A i \in 1..Len(order) : order[i] \in S
      /\ \A x \in S : \E i \in 1..Len(order) : order[i] = x
  <2>1. IsFiniteSet(S) /\ order \in Orders(S)
    BY <1>2, ChangesFinite DEF S
  <2> QED
    BY <2>1, Ordered
<1>5. order \in Seq(Changes)
  BY <1>2, <1>4
<1>6. batch \in Seq(Changes) /\ (\A i \in 1..Len(batch) : batch[i] \in S)
      /\ (batch # <<>> => link = "agreed")
      /\ (link = "agreed" => \A x \in S : \E i \in 1..Len(batch) : batch[i] = x)
  BY <1>4, <1>5, EmptySeq
<1>7. Publish("worker", order, "result", FALSE) = next
  <2> HIDE DEF batch
  <2>1. Publish("worker", order, "result", FALSE)
          = [Idle EXCEPT !.at = "ready", !.then = "result", !.stale = FALSE, !.batch = batch,
                         !.on = stream, !.live = TRUE]
    BY Zenon DEF Publish, batch
  <2> QED
    BY <2>1 DEF Idle
<1> HIDE DEF batch
<1>8. next \in Publishing
  BY <1>6 DEF Publishing, TypeOK
<1>9. pub' \in [Pubs -> Publishing] /\ W' = next /\ C' = C
  BY <1>7, <1>8, SetPublisher DEF Pubs
<1>10. /\ W'.at = "ready" /\ W'.batch = batch /\ W'.then = "result"
       /\ W'.live = TRUE /\ W'.stale = FALSE /\ W'.say = "none"
  BY <1>9
<1> HIDE DEF next
<1>11. TypeOK'
  BY <1>1, <1>9 DEF TypeOK, line, media
<1>12. (policy => usable)' /\ WorkerShape' /\ ControlShape'
  BY <1>9, <1>10 DEF WorkerShape, ControlShape
<1>13. BatchInv'
  <2>1. ASSUME NEW x \in S
        PROVE  /\ x.edge = "leave" => x.track \notin active'
               /\ x.edge = "enter" => x.track \in active'
    BY <1>1, <1>3
  <2> QED
    BY <1>6, <1>10, <2>1 DEF BatchInv
<1>14. LinkInv'
  BY <1>6, <1>10 DEF LinkInv, line
<1>15. SessionInv' /\ EventInv' /\ SayInv' /\ KeptInv' /\ ClosedInv'
  BY <1>10 DEF SessionInv, EventInv, SayInv, KeptInv, ClosedInv, Announced, Idle, line
<1>16. ReportInv'
  <2> SUFFICES ASSUME NEW t \in active' \ missed' PROVE t \in session.active \/ Awaited(t)'
    BY DEF ReportInv
  <2>1. CASE t \in entering
    <3>1. link = "agreed" /\ [edge |-> "enter", track |-> t] \in S
      BY <1>3, <2>1
    <3>2. PICK i \in 1..Len(batch) : batch[i] = [edge |-> "enter", track |-> t]
      BY <1>6, <3>1
    <3> QED
      BY <1>10, <3>2 DEF Awaited
  <2>2. CASE t \in active \ leaving
    <3>1. t \in active \ missed
      BY <2>2
    <3>2. ~Awaited(t)
      BY EmptySeq DEF Awaited, Idle
    <3> QED
      BY <3>1, <3>2 DEF ReportInv, Idle
  <2> QED
    BY <2>1, <2>2
<1> QED
  BY <1>11, <1>12, <1>13, <1>14, <1>15, <1>16

LEMMA StepResult ==
  ASSUME PortInv, Result PROVE PortInv'
<1>1. /\ W = Idle /\ frame' = "none" /\ stopping = "no"
      /\ UNCHANGED <<line, media, policy, queued, usable, session, kept, ahead, stopping, event>>
  BY DEF Result, Free, PortInv, WorkerShape, W
<1>2. CASE CurrentFrame
  <2>1. policy
    BY <1>2 DEF CurrentFrame
  <2>2. PICK entering \in SUBSET (Tracks \ used), leaving \in SUBSET active :
        \E moving \in SUBSET (active \ leaving) :
        \E order \in Orders([edge : {"enter"}, track : entering]
                            \cup [edge : {"moving"}, track : moving]
                            \cup [edge : {"leave"}, track : leaving]) :
           /\ active' = (active \ leaving) \cup entering
           /\ used' = used \cup entering
           /\ missed' = (missed \ leaving) \cup (IF link = "agreed" THEN {} ELSE entering)
           /\ Set("worker", Publish("worker", order, "result", FALSE))
    BY <1>2 DEF Result
  <2> QED
    BY <1>1, <2>1, <2>2, CurrentResult
<1>3. CASE ~CurrentFrame
  <2>1. UNCHANGED <<active, used, missed, pub>>
    BY <1>3 DEF Result
  <2>2. TypeOK'
    BY <1>1, <2>1 DEF PortInv, TypeOK, line, media
  <2>3. UNCHANGED <<engine, usable, session, pub, kept, missed, event>>
    BY <1>1, <2>1 DEF engine
  <2> QED
    BY <1>1, <2>2, <2>3, Unmoved DEF line
<1> QED
  BY <1>2, <1>3
-------------------------------------------------------------------------------
\* Steps of the control task that tell Protect nothing and change no track.
LEMMA ControlTurns ==
  ASSUME PortInv, TypeOK', NEW f \in Publishing, Set("control", f),
         UNCHANGED <<line, active, used, usable, session, kept, stopping, missed, event>>,
         policy' = policy \/ (~policy /\ usable),
         f.at = "idle" => f = Idle, f.at # "snap",
         f.then \in {"none", "revoke", "settings", "lost"},
         f.then \in {"revoke", "settings"} => ~policy',
         f.batch # <<>> => f.then \in {"revoke", "settings"} /\ f.batch = C.batch,
         f.say = "none", f.at # "wait"
  PROVE  PortInv'
<1> USE DEF PortInv
<1>1. C' = f /\ W' = W
  BY SetPublisher DEF Pubs
<1>2. UNCHANGED <<link, net, active, usable, session, kept, stopping, missed, event>>
  BY DEF line
<1>3. (policy => usable)' /\ WorkerShape' /\ BatchInv' /\ LinkInv'
  BY <1>1, <1>2 DEF WorkerShape, BatchInv, LinkInv
<1>4. ControlShape'
  <2>1. \A i \in 1..Len(f.batch) : f.batch[i].edge = "leave"
    BY EmptySeq DEF ControlShape
  <2> QED
    BY <1>1, <2>1 DEF ControlShape
<1>5. Announced' <=> Announced
  BY <1>2 DEF Announced
<1>6. SessionInv' /\ EventInv' /\ SayInv' /\ KeptInv' /\ ClosedInv'
  BY <1>1, <1>2, <1>5 DEF SessionInv, EventInv, SayInv, KeptInv, ClosedInv
<1>7. \A t : Awaited(t)' <=> Awaited(t)
  BY <1>1 DEF Awaited
<1>8. ReportInv'
  BY <1>1, <1>2, <1>7 DEF ReportInv
<1> QED
  BY <1>3, <1>4, <1>6, <1>8

\* The control task's forms of Idle.
LEMMA ControlForms ==
  /\ Idle \in Publishing
  /\ [Idle EXCEPT !.at = "reply"] \in Publishing
  /\ [Idle EXCEPT !.at = "ready", !.then = "lost"] \in Publishing
  /\ Idle.batch = <<>> /\ Idle.then = "none" /\ Idle.at = "idle" /\ Idle.say = "none"
  /\ [Idle EXCEPT !.at = "reply"].batch = <<>>
  /\ [Idle EXCEPT !.at = "reply"].then = "none" /\ [Idle EXCEPT !.at = "reply"].at = "reply"
  /\ [Idle EXCEPT !.at = "reply"].say = "none"
  /\ [Idle EXCEPT !.at = "ready", !.then = "lost"].batch = <<>>
  /\ [Idle EXCEPT !.at = "ready", !.then = "lost"].then = "lost"
  /\ [Idle EXCEPT !.at = "ready", !.then = "lost"].at = "ready"
  /\ [Idle EXCEPT !.at = "ready", !.then = "lost"].say = "none"
  BY EmptySeq DEF Idle, Publishing

LEMMA StepStopStream ==
  ASSUME PortInv, StopStream PROVE PortInv'
<1> DEFINE f == [Idle EXCEPT !.at = "reply"]
<1>1. /\ Set("control", f) /\ wanted' = FALSE /\ stream' = FALSE
      /\ UNCHANGED <<line, engine, feed, session, kept, ahead, stopping, missed, event>>
  BY DEF StopStream
<1>2. /\ f \in Publishing /\ f.batch = <<>> /\ f.then = "none" /\ f.at = "reply"
      /\ f.say = "none"
  BY ControlForms
<1> HIDE DEF f
<1>3. pub' \in [Pubs -> Publishing]
  BY <1>1, <1>2, SetPublisher DEF PortInv, Pubs
<1>4. TypeOK'
  BY <1>1, <1>3 DEF PortInv, TypeOK, line, engine, feed
<1> QED
  BY <1>1, <1>2, <1>4, ControlTurns DEF engine, feed

LEMMA StepStreamStopped ==
  ASSUME PortInv, StreamStopped PROVE PortInv'
<1>1. /\ C.at = "reply" /\ UNCHANGED <<line, media, usable, session, kept, ahead, stopping>>
  BY DEF StreamStopped, C
<1>2. CASE Revoke("control", "revoke")
  BY <1>1, <1>2, StepRevoke DEF Pubs
<1>3. CASE /\ ~net /\ Set("control", [Idle EXCEPT !.at = "ready", !.then = "lost"])
           /\ UNCHANGED <<engine, missed, queued, frame, event>>
  <2> DEFINE f == [Idle EXCEPT !.at = "ready", !.then = "lost"]
  <2>1. Set("control", f) /\ UNCHANGED <<engine, missed, queued, frame, event>>
    BY <1>3
  <2>2. /\ f \in Publishing /\ f.batch = <<>> /\ f.then = "lost" /\ f.at = "ready"
        /\ f.say = "none"
    BY ControlForms
  <2> HIDE DEF f
  <2>3. pub' \in [Pubs -> Publishing]
    BY <2>1, <2>2, SetPublisher DEF PortInv, Pubs
  <2>4. TypeOK'
    BY <1>1, <2>1, <2>3 DEF PortInv, TypeOK, line, engine, media
  <2> QED
    BY <1>1, <2>1, <2>2, <2>4, ControlTurns DEF engine
<1> QED
  BY <1>2, <1>3 DEF StreamStopped

LEMMA StepInstalled ==
  ASSUME PortInv, C.at = "ready", C.batch = <<>>, Installed PROVE PortInv'
<1>1. /\ C.then = "settings" /\ Set("control", Idle)
      /\ policy' \in {FALSE, stream /\ usable /\ stopping = "no"}
      /\ UNCHANGED <<line, media, active, used, feed, session, kept, ahead, stopping, missed, event>>
  BY DEF Installed, C
<1>2. ~policy /\ active = {}
  BY <1>1 DEF PortInv, ControlShape, TypeOK
<1>3. Idle \in Publishing /\ Idle.batch = <<>> /\ Idle.then = "none" /\ Idle.at = "idle"
      /\ Idle.say = "none"
  BY ControlForms
<1>4. pub' \in [Pubs -> Publishing]
  BY <1>1, <1>3, SetPublisher DEF PortInv, Pubs
<1>5. policy' \in BOOLEAN /\ (policy' = policy \/ (~policy /\ usable))
  BY <1>1, <1>2 DEF PortInv, TypeOK
<1>6. TypeOK'
  BY <1>1, <1>2, <1>4, <1>5 DEF PortInv, TypeOK, line, feed, media
<1> QED
  BY <1>1, <1>3, <1>5, <1>6, ControlTurns DEF feed

\* A control task's step inside its batch of leaves leaves its shape.
LEMMA ControlGoes ==
  ASSUME PortInv, NEW f \in Publishing, Set("control", f), UNCHANGED policy,
         C.then \in {"revoke", "settings"}, f.then = C.then,
         f.batch = C.batch \/ (C.batch # <<>> /\ f.batch = Tail(C.batch)),
         f.at \in {"ready", "wait", "send"},
         f.say # "none" <=> f.at = "wait", f.say # "enter"
  PROVE  pub' \in [Pubs -> Publishing] /\ W' = W /\ ControlShape'
<1>1. pub' \in [Pubs -> Publishing] /\ W' = W /\ C' = f
  BY SetPublisher DEF Pubs, PortInv
<1>2. C.batch \in Seq(Changes) /\ ~policy
      /\ \A i \in 1..Len(C.batch) : C.batch[i].edge = "leave"
  BY Publishers DEF PortInv, ControlShape
<1>3. \A i \in 1..Len(f.batch) : f.batch[i].edge = "leave"
  <2>1. CASE f.batch = C.batch
    BY <1>2, <2>1
  <2>2. CASE C.batch # <<>> /\ f.batch = Tail(C.batch)
    BY <1>2, <2>2, Batches
  <2> QED
    BY <2>1, <2>2
<1> QED
  BY <1>1, <1>2, <1>3 DEF ControlShape

\* The control task's send raises: the link is lost.
LEMMA ControlFails ==
  ASSUME PortInv, Fail("control")
  PROVE  pub' \in [Pubs -> Publishing] /\ W' = W /\ ControlShape' /\ event' = event
<1> DEFINE f == [Idle EXCEPT !.at = "ready", !.then = "lost"]
<1>1. Set("control", f) /\ event' = event
  BY DEF Fail
<1>2. /\ f \in Publishing /\ f.batch = <<>> /\ f.then = "lost" /\ f.at = "ready"
      /\ f.say = "none"
  BY ControlForms
<1> HIDE DEF f
<1>3. pub' \in [Pubs -> Publishing] /\ W' = W /\ C' = f
  BY <1>1, <1>2, SetPublisher DEF Pubs, PortInv
<1>4. ControlShape'
  BY <1>2, <1>3, EmptySeq DEF ControlShape
<1> QED
  BY <1>1, <1>3, <1>4

\* With no policy there is no track to miss and no event of it: the control task
\* may let the session go, and the worker's held one is stale.
LEMMA PolicyGone ==
  ASSUME PortInv, ~policy,
         UNCHANGED <<line, media, engine, feed, stopping, missed>>,
         pub' \in [Pubs -> Publishing], W' = W, ControlShape',
         ahead' \in [Senders -> SUBSET Senders],
         event' \in [open : BOOLEAN, stale : BOOLEAN, unsent : BOOLEAN],
         event'.open => event.open /\ event'.stale = event.stale,
         session' \in [there : BOOLEAN, active : SUBSET Tracks, seen : SUBSET Tracks],
         session'.active \subseteq session'.seen, SessionInv',
         kept' \in [own : BOOLEAN, active : SUBSET Tracks],
         W.at # "snap" => kept' = kept
  PROVE  PortInv'
<1> USE DEF PortInv
<1>1. active = {} /\ ~Announced
  BY DEF TypeOK, EventInv
<1>2. TypeOK'
  BY DEF TypeOK, line, media, engine, feed
<1>3. ~Announced'
  BY <1>1 DEF Announced, line
<1>4. (policy => usable)' /\ WorkerShape' /\ BatchInv' /\ LinkInv'
  BY DEF WorkerShape, BatchInv, LinkInv, line, engine, feed
<1>5. W.at = "snap" => W.stale
  <2> SUFFICES ASSUME W.at = "snap" PROVE W.stale
    OBVIOUS
  <2>1. W.batch # <<>> /\ Head(W.batch).edge = "enter"
    BY DEF WorkerShape
  <2>2. Head(W.batch) = W.batch[1] /\ 1 \in 1..Len(W.batch)
    BY <2>1, Publishers, Batches
  <2> QED
    BY <1>1, <2>1, <2>2 DEF BatchInv
<1>6. EventInv' /\ SayInv' /\ KeptInv' /\ ClosedInv'
  BY <1>3, <1>5 DEF EventInv, SayInv, KeptInv, ClosedInv
<1>7. ReportInv'
  BY <1>1 DEF ReportInv, engine
<1> QED
  BY <1>2, <1>4, <1>6, <1>7

LEMMA StepRevokedControl ==
  ASSUME PortInv, C.at = "ready", C.batch = <<>>, Revoked("control") PROVE PortInv'
<1> USE DEF PortInv
<1>1. /\ C.then \in {"unavailable", "revoke"} /\ Set("control", Idle) /\ Pop(session)
      /\ UNCHANGED <<line, media, engine, feed, ahead, stopping, missed, event>>
  BY DEF Revoked, C
<1>2. ~policy
  BY <1>1 DEF ControlShape
<1>3. pub' \in [Pubs -> Publishing] /\ W' = W /\ C' = Idle
  BY <1>1, IdlePublishing, SetPublisher DEF Pubs
<1>4. ControlShape'
  BY <1>3, ControlForms, EmptySeq DEF ControlShape
<1>5. /\ session' = NoSession /\ kept' \in [own : BOOLEAN, active : SUBSET Tracks]
      /\ (W.at # "snap" => kept' = kept)
  BY <1>1, Popped DEF TypeOK
<1>6. /\ session' \in [there : BOOLEAN, active : SUBSET Tracks, seen : SUBSET Tracks]
      /\ session'.active \subseteq session'.seen /\ SessionInv'
  BY <1>5 DEF NoSession, SessionInv
<1>7. /\ ahead' \in [Senders -> SUBSET Senders]
      /\ event' \in [open : BOOLEAN, stale : BOOLEAN, unsent : BOOLEAN]
      /\ event'.open => event.open /\ event'.stale = event.stale
  BY <1>1 DEF TypeOK
<1> HIDE DEF PortInv
<1> QED
  BY <1>1, <1>2, <1>3, <1>4, <1>5, <1>6, <1>7, PolicyGone

\* A leave of the control task's batch.
LEMMA StepCandidateControl ==
  ASSUME PortInv, Candidate("control") PROVE PortInv'
<1> USE DEF PortInv
<1> DEFINE c == C.batch[1]
<1>1. /\ C.at = "ready" /\ C.batch # <<>> /\ Head(C.batch) = c
      /\ c \in Changes /\ 1 \in 1..Len(C.batch) /\ Tail(C.batch) \in Seq(Changes)
      /\ C \in Publishing
  BY Publishers, Batches DEF Candidate, C
<1>2. c.edge = "leave" /\ c.track \in Tracks /\ ~policy /\ C.then \in {"revoke", "settings"}
  BY <1>1 DEF ControlShape, Changes
<1>3. /\ missed' = missed /\ PublishLeave("control", c.track)
      /\ UNCHANGED <<line, media, engine, feed, stopping>>
  BY <1>1, <1>2 DEF Candidate, C
<1> HIDE DEF c
<1> DEFINE t == c.track
<1> HIDE DEF t
<1>4. t \in Tracks /\ PublishLeave("control", t)
  BY <1>2, <1>3 DEF t
<1>5. /\ Current \in [there : BOOLEAN, active : SUBSET Tracks, seen : SUBSET Tracks]
      /\ Current.there /\ Current.active \subseteq Current.seen
  BY DEF Current, NewSession, NoSession, TypeOK
<1>6. /\ \/ \E edge \in {"moving", "leave"} : Say("control", edge)
         \/ Dropped("control") /\ event' = event
         \/ Dropped("control") /\ event' = [event EXCEPT !.unsent = event.open]
      /\ session' \in [there : BOOLEAN, active : SUBSET Tracks, seen : SUBSET Tracks]
      /\ session'.active \subseteq session'.seen /\ SessionInv'
      /\ kept' \in [own : BOOLEAN, active : SUBSET Tracks]
      /\ W.at # "snap" => kept' = kept
  <2>1. CASE t \notin Current.seen
    <3>1. Skip("control") /\ session' = Current /\ kept' = kept
      BY <1>4, <2>1 DEF PublishLeave
    <3> QED
      BY <1>5, <3>1 DEF SessionInv, TypeOK, Skip
  <2>2. CASE t \in Current.seen /\ Left(t) # {}
    <3>1. /\ Skip("control") \/ Say("control", "moving")
          /\ kept' = kept /\ session' = [Current EXCEPT !.active = Left(t)]
      BY <1>4, <2>2 DEF PublishLeave
    <3>2. /\ session' \in [there : BOOLEAN, active : SUBSET Tracks, seen : SUBSET Tracks]
          /\ session'.active \subseteq session'.seen /\ session'.there
      BY <1>5, <3>1 DEF Left
    <3> QED
      BY <3>1, <3>2 DEF SessionInv, TypeOK, Skip
  <2>3. CASE t \in Current.seen /\ Left(t) = {} /\ Refused(Current.seen)
    <3>1. /\ Dropped("control") /\ event' = [event EXCEPT !.unsent = event.open]
          /\ kept' = kept /\ session' = [Current EXCEPT !.active = {}]
      BY <1>4, <2>3 DEF PublishLeave
    <3>2. /\ session' \in [there : BOOLEAN, active : SUBSET Tracks, seen : SUBSET Tracks]
          /\ session'.active \subseteq session'.seen /\ session'.there
      BY <1>5, <3>1
    <3> QED
      BY <3>1, <3>2 DEF SessionInv, TypeOK
  <2>4. CASE t \in Current.seen /\ Left(t) = {} /\ ~Refused(Current.seen)
    <3>1. /\ Say("control", "leave") /\ Pop([Current EXCEPT !.active = {}])
      BY <1>4, <2>4 DEF PublishLeave
    <3>2. [Current EXCEPT !.active = {}].active \subseteq Tracks
      BY <1>5
    <3>3. /\ session' = NoSession /\ kept' \in [own : BOOLEAN, active : SUBSET Tracks]
          /\ (W.at # "snap" => kept' = kept)
      BY <3>1, <3>2, Popped
    <3> QED
      BY <3>1, <3>3 DEF SessionInv, NoSession
  <2> QED
    BY <2>1, <2>2, <2>3, <2>4
<1>7. /\ pub' \in [Pubs -> Publishing] /\ W' = W /\ ControlShape'
      /\ ahead' \in [Senders -> SUBSET Senders]
      /\ event' \in [open : BOOLEAN, stale : BOOLEAN, unsent : BOOLEAN]
      /\ event'.open => event.open /\ event'.stale = event.stale
  <2>1. CASE \E edge \in {"moving", "leave"} : Say("control", edge)
    <3>1. PICK edge \in {"moving", "leave"} : Say("control", edge)
      BY <2>1
    <3> DEFINE f == [C EXCEPT !.at = "wait", !.batch = Tail(@), !.say = edge]
    <3>2. Set("control", f) /\ JoinsLine("control") /\ event' = event
      BY <3>1 DEF Say, C
    <3>3. /\ f \in Publishing /\ f.then = C.then /\ f.batch = Tail(C.batch)
          /\ f.at = "wait" /\ f.say = edge
      BY <1>1 DEF Publishing
    <3>4. ahead' \in [Senders -> SUBSET Senders]
      BY <3>2, Lines DEF Senders, Pubs
    <3> HIDE DEF f
    <3>5. pub' \in [Pubs -> Publishing] /\ W' = W /\ ControlShape'
      BY <1>1, <1>2, <1>3, <3>2, <3>3, ControlGoes DEF engine
    <3> QED
      BY <3>2, <3>4, <3>5 DEF TypeOK
  <2>2. CASE /\ Dropped("control")
             /\ event' = event \/ event' = [event EXCEPT !.unsent = event.open]
    <3> DEFINE f == [C EXCEPT !.at = "ready", !.batch = Tail(@), !.say = "none"]
    <3>1. Set("control", f) /\ ahead' = ahead
      BY <2>2 DEF Dropped, C
    <3>2. /\ f \in Publishing /\ f.then = C.then /\ f.batch = Tail(C.batch)
          /\ f.at = "ready" /\ f.say = "none"
      BY <1>1 DEF Publishing
    <3> HIDE DEF f
    <3>3. pub' \in [Pubs -> Publishing] /\ W' = W /\ ControlShape'
      BY <1>1, <1>2, <1>3, <3>1, <3>2, ControlGoes DEF engine
    <3>4. /\ event' \in [open : BOOLEAN, stale : BOOLEAN, unsent : BOOLEAN]
          /\ event'.open = event.open /\ event'.stale = event.stale
      BY <2>2 DEF TypeOK
    <3> QED
      BY <3>1, <3>3, <3>4 DEF TypeOK
  <2> QED
    BY <1>6, <2>1, <2>2
<1> HIDE DEF PortInv
<1> QED
  BY <1>2, <1>3, <1>6, <1>7, PolicyGone

\* The control task's message goes out, or the link is lost: nothing it sends
\* opens the event.
LEMMA StepGrantedControl ==
  ASSUME PortInv, Granted("control") PROVE PortInv'
<1> USE DEF PortInv
<1>1. /\ C.at = "wait" /\ C \in Publishing
      /\ UNCHANGED <<line, media, engine, feed, session, kept, stopping, missed>>
  BY Publishers DEF Granted, C
<1>2. C.then \in {"revoke", "settings"} /\ ~policy /\ C.say \in {"moving", "leave"}
  BY <1>1 DEF ControlShape, Publishing
<1>3. ahead' \in [Senders -> SUBSET Senders]
  BY Lines DEF Granted, Write, Fail, Senders, Pubs
<1>4. /\ pub' \in [Pubs -> Publishing] /\ W' = W /\ ControlShape'
      /\ event' = event \/ event' = NoEvent
  <2>1. CASE Fail("control")
    BY <2>1, ControlFails
  <2>2. CASE Write("control", C.say)
    <3>1. PICK at \in {"ready", "send"} :
             Set("control", [C EXCEPT !.at = at, !.say = "none"])
      BY <2>2 DEF Write, C
    <3>2. event' = event \/ event' = NoEvent
      BY <1>2, <2>2 DEF Write
    <3> DEFINE f == [C EXCEPT !.at = at, !.say = "none"]
    <3>3. /\ f \in Publishing /\ f.then = C.then /\ f.batch = C.batch
          /\ f.at = at /\ f.say = "none"
      BY <1>1 DEF Publishing
    <3>4. Set("control", f)
      BY <3>1
    <3> HIDE DEF f
    <3> QED
      BY <1>1, <1>2, <3>2, <3>3, <3>4, ControlGoes DEF engine
  <2> QED
    BY <2>1, <2>2 DEF Granted, C
<1>5. /\ event' \in [open : BOOLEAN, stale : BOOLEAN, unsent : BOOLEAN]
      /\ event'.open => event.open /\ event'.stale = event.stale
  <2>1. CASE event' = event
    BY <2>1 DEF TypeOK
  <2>2. CASE event' = NoEvent
    BY <2>2 DEF NoEvent
  <2> QED
    BY <1>4, <2>1, <2>2
<1>6. /\ session' \in [there : BOOLEAN, active : SUBSET Tracks, seen : SUBSET Tracks]
      /\ session'.active \subseteq session'.seen /\ SessionInv'
      /\ kept' \in [own : BOOLEAN, active : SUBSET Tracks] /\ kept' = kept
  BY <1>1 DEF TypeOK, SessionInv
<1> HIDE DEF PortInv
<1> QED
  BY <1>1, <1>2, <1>3, <1>4, <1>5, <1>6, PolicyGone

LEMMA StepResumeControl ==
  ASSUME PortInv, Resume("control") PROVE PortInv'
<1>1. /\ C.at = "send" /\ C.say = "none"
      /\ UNCHANGED <<line, media, engine, feed, session, kept, stopping, missed>>
  BY DEF Resume, C, PortInv, ControlShape
<1>0. ahead' \in [Senders -> SUBSET Senders]
  BY Lines DEF Resume, Fail, Senders, Pubs, PortInv
<1>2. ASSUME NEW f \in Publishing, Set("control", f), event' = event, f.at = "ready",
             f.say = "none",
             \/ f.batch = C.batch /\ f.then = C.then
             \/ f.batch = <<>> /\ f.then = "lost"
      PROVE  PortInv'
  <2>1. pub' \in [Pubs -> Publishing]
    BY <1>2, SetPublisher DEF PortInv, Pubs
  <2>2. TypeOK'
    BY <1>0, <1>1, <1>2, <2>1 DEF PortInv, TypeOK, line, media, engine, feed
  <2>3. /\ f.then \in {"none", "revoke", "settings", "lost"}
        /\ f.then \in {"revoke", "settings"} => ~policy
        /\ f.batch # <<>> => f.then \in {"revoke", "settings"} /\ f.batch = C.batch
    BY <1>2 DEF PortInv, ControlShape
  <2>4. /\ UNCHANGED <<line, active, used, usable, session, kept, stopping, missed, event>>
        /\ policy' = policy
    BY <1>1, <1>2 DEF engine, feed
  <2> QED
    BY <1>2, <2>2, <2>3, <2>4, ControlTurns
<1>3. CASE Set("control", [C EXCEPT !.at = "ready"]) /\ event' = event
  <2> DEFINE f == [C EXCEPT !.at = "ready"]
  <2>1. /\ f \in Publishing /\ f.batch = C.batch /\ f.then = C.then /\ f.at = "ready"
        /\ f.say = "none"
    BY <1>1, Publishers DEF PortInv, Publishing
  <2> HIDE DEF f
  <2> QED
    BY <1>2, <1>3, <2>1 DEF f
<1>4. CASE Fail("control")
  <2> DEFINE f == [Idle EXCEPT !.at = "ready", !.then = "lost"]
  <2>1. Set("control", f) /\ event' = event
    BY <1>4 DEF Fail
  <2>2. /\ f \in Publishing /\ f.batch = <<>> /\ f.then = "lost" /\ f.at = "ready"
        /\ f.say = "none"
    BY ControlForms
  <2> HIDE DEF f
  <2> QED
    BY <1>2, <2>1, <2>2
<1> QED
  BY <1>3, <1>4 DEF Resume, C

\* stop closes the event that is open, once the worker has ended: its leave waits
\* for the lock, or is refused, or there is none to send.
LEMMA StepClose ==
  ASSUME PortInv, CloseOpenEvents PROVE PortInv'
<1> USE DEF PortInv
<1>1. /\ stopping' \in {"closing", "closed"} /\ stopping = "sealed" /\ W = Idle
      /\ UNCHANGED <<line, media, engine, feed, pub, missed>>
  BY DEF CloseOpenEvents, MayClose, WorkerShape, W
<1>2. W' = W /\ C' = C
  BY <1>1 DEF W, C
<1>3. Announced => session.active # {} \/ event.unsent
  BY <1>1 DEF EventInv, Idle
<1>4. /\ session' \in {session, NoSession} /\ kept' = kept
      /\ ahead' \in [Senders -> SUBSET Senders]
      /\ event' \in [open : BOOLEAN, stale : BOOLEAN, unsent : BOOLEAN]
      /\ event'.open = event.open /\ event'.stale = event.stale
      /\ Announced /\ stopping' = "closed" => event'.unsent
  <2>1. CASE link # "agreed"
    <3>1. stopping' = "closed" /\ UNCHANGED <<session, kept, ahead, event>>
      BY <2>1 DEF CloseOpenEvents
    <3> QED
      BY <2>1, <3>1 DEF LinkInv, Announced, TypeOK
  <2>2. CASE link = "agreed" /\ session.active # {} /\ ~Refused(session.seen)
    <3>1. Pop(session) /\ stopping' = "closing" /\ JoinsLine("stop") /\ event' = event
      BY <2>2 DEF CloseOpenEvents
    <3>2. session' = NoSession /\ kept' = kept
      BY <1>1, <3>1, Popped DEF TypeOK, Idle
    <3>3. ahead' \in [Senders -> SUBSET Senders]
      BY <3>1, Lines DEF Senders
    <3> QED
      BY <3>1, <3>2, <3>3 DEF TypeOK
  <2>3. CASE link = "agreed" /\ ~(session.active # {} /\ ~Refused(session.seen))
    <3>1. /\ Pop(session) /\ stopping' = "closed" /\ ahead' = ahead
          /\ event' = [event EXCEPT !.unsent = event.open /\ (@ \/ session.active # {})]
      BY <2>3 DEF CloseOpenEvents
    <3>2. session' = NoSession /\ kept' = kept
      BY <1>1, <3>1, Popped DEF TypeOK, Idle
    <3>3. /\ event' \in [open : BOOLEAN, stale : BOOLEAN, unsent : BOOLEAN]
          /\ event'.open = event.open /\ event'.stale = event.stale
          /\ event'.unsent = (event.open /\ (event.unsent \/ session.active # {}))
      BY <3>1 DEF TypeOK
    <3> QED
      BY <1>3, <3>1, <3>2, <3>3 DEF TypeOK, Announced
  <2> QED
    BY <2>1, <2>2, <2>3
<1>5. /\ session' \in [there : BOOLEAN, active : SUBSET Tracks, seen : SUBSET Tracks]
      /\ session'.active \subseteq session'.seen /\ SessionInv'
  <2>1. CASE session' = session
    BY <2>1 DEF SessionInv, TypeOK
  <2>2. CASE session' = NoSession
    BY <2>2 DEF NoSession, SessionInv
  <2> QED
    BY <1>4, <2>1, <2>2
<1>6. TypeOK'
  BY <1>1, <1>4, <1>5 DEF TypeOK, line, media, engine, feed
<1>7. (policy => usable)' /\ WorkerShape' /\ ControlShape' /\ BatchInv' /\ LinkInv'
  BY <1>1, <1>2, <1>4, EmptySeq
     DEF WorkerShape, ControlShape, BatchInv, LinkInv, line, engine, feed, Idle
<1>8. Announced' <=> Announced
  BY <1>1, <1>4 DEF Announced, line
<1>9. EventInv' /\ SayInv' /\ KeptInv' /\ ReportInv' /\ ClosedInv'
  BY <1>1, <1>2, <1>4, <1>8
     DEF EventInv, SayInv, KeptInv, ReportInv, ClosedInv, Idle, engine
<1> QED
  BY <1>5, <1>6, <1>7, <1>9

LEMMA StepLeaveSent ==
  ASSUME PortInv, LeaveSent PROVE PortInv'
<1> USE DEF PortInv
<1>1. /\ stopping' = "closed" /\ stopping = "closing" /\ W = Idle
      /\ event' = (IF net THEN NoEvent ELSE event)
      /\ UNCHANGED <<line, media, engine, feed, session, pub, kept, missed>>
  BY DEF LeaveSent, ClosedInv
<1>2. W' = W /\ C' = C
  BY <1>1 DEF W, C
<1>3. ahead' \in [Senders -> SUBSET Senders]
  BY Lines DEF LeaveSent, Senders
<1>4. /\ event' \in [open : BOOLEAN, stale : BOOLEAN, unsent : BOOLEAN]
      /\ event'.open => event.open
      /\ ~Announced'
  BY <1>1 DEF TypeOK, NoEvent, Announced, line
<1>5. TypeOK'
  BY <1>1, <1>3, <1>4 DEF TypeOK, line, media, engine, feed
<1>6. (policy => usable)' /\ WorkerShape' /\ ControlShape' /\ BatchInv' /\ LinkInv'
  BY <1>1, <1>2, <1>4
     DEF WorkerShape, ControlShape, BatchInv, LinkInv, line, engine, feed
<1>7. EventInv' /\ SayInv' /\ KeptInv' /\ ReportInv' /\ ClosedInv' /\ SessionInv'
  BY <1>1, <1>2, <1>4
     DEF EventInv, SayInv, KeptInv, ReportInv, ClosedInv, SessionInv, Idle, engine
<1> QED
  BY <1>5, <1>6, <1>7
-------------------------------------------------------------------------------
LEMMA InitPortInv == Init => PortInv
<1> SUFFICES ASSUME Init PROVE PortInv
  OBVIOUS
<1>1. W = Idle /\ C = Idle
  BY DEF Init, W, C, Pubs
<1>2. TypeOK
  BY IdlePublishing DEF Init, TypeOK, NoSession, NotHeld, NoEvent
<1>3. ~Announced
  BY DEF Init, Announced, NoEvent
<1>4. WorkerShape /\ ControlShape /\ BatchInv /\ LinkInv
  BY <1>1, ControlForms, EmptySeq DEF Init, WorkerShape, ControlShape, BatchInv, LinkInv, NoEvent
<1>5. SessionInv /\ EventInv /\ SayInv /\ KeptInv /\ ReportInv /\ ClosedInv
  BY <1>1, <1>3, ControlForms
     DEF Init, SessionInv, EventInv, SayInv, KeptInv, ReportInv, ClosedInv
<1> QED
  BY <1>2, <1>4, <1>5 DEF Init, PortInv

LEMMA NextPortInv == PortInv /\ [Next]_vars => PortInv'
<1> SUFFICES ASSUME PortInv, [Next]_vars PROVE PortInv'
  OBVIOUS
<1>1. CASE \E p \in Pubs : Candidate(p) \/ Granted(p) \/ Resume(p)
  BY <1>1, StepCandidateWorker, StepCandidateControl, StepSendWorker, StepGrantedControl,
     StepResumeControl DEF Pubs
<1>2. CASE Done
  <2>1. CASE W.at = "ready" /\ W.batch = <<>> /\ Unavailable
    <3>1. /\ W.then = "failed" /\ usable' = FALSE /\ Revoke("worker", "unavailable")
          /\ UNCHANGED <<line, media, session, kept, ahead, stopping>>
      BY <2>1 DEF Unavailable, W
    <3> QED
      BY <3>1, StepRevoke DEF Pubs
  <2>2. CASE W.at = "ready" /\ W.batch = <<>> /\ (ResultDone \/ Revoked("worker"))
    BY <2>2, StepWorkerTurns
  <2>3. CASE C.at = "ready" /\ C.batch = <<>> /\ (Revoked("control") \/ Installed)
    BY <2>3, StepRevokedControl, StepInstalled
  <2>4. CASE Lost
    BY <2>4, StepDisconnect DEF Lost
  <2> QED
    BY <1>2, <2>1, <2>2, <2>3, <2>4 DEF Done, W, C
<1>3. CASE Frames
  BY <1>3, StepUnmoved, StepResult, StepWorkerTurns DEF Frames
<1>4. CASE Settings
  <2>1. /\ Revoke("control", "settings")
        /\ UNCHANGED <<line, media, usable, session, kept, ahead, stopping>>
    BY <1>4 DEF Settings
  <2> QED
    BY <2>1, StepRevoke DEF Pubs
<1>5. CASE StopStream \/ StreamStopped \/ Disconnected
  BY <1>5, StepStopStream, StepStreamStopped, StepDisconnect DEF Disconnected
<1>6. CASE Stop
  BY <1>6, StepUnmoved, StepWorkerTurns, StepClose, StepLeaveSent DEF Stop
<1>7. CASE StartStream \/ StreamHealth \/ Connect \/ ParamAgreement \/ SocketCloses
           \/ UNCHANGED vars
  BY <1>7, StepUnmoved
<1> QED
  BY <1>1, <1>2, <1>3, <1>4, <1>5, <1>6, <1>7, StepSnapshot DEF Next, Control

\* The inductive invariant: what each publisher has still to tell, of which
\* policy and on which link, beside the session and the event at Protect.
THEOREM PortInvariance == Spec => []PortInv
  BY InitPortInv, NextPortInv, PTL DEF Spec

\* Every value of the variables stays in its type: a track the engine holds is
\* one its tracker gave out, and the session's tracks are among those it has seen
\* (aiport_candidate.py _pool_sessions, aiport_camera_engine.py _active).
THEOREM TypeCorrect == Spec => []TypeOK
  BY PortInvariance, PTL DEF PortInv

\* Once a result is published, each track the engine holds is in the camera's
\* session, unless it entered without a stream or a link (aiport_candidate.py
\* _publish_pool_candidates).
THEOREM TracksReportedHolds == Spec => []TracksReported
<1>1. PortInv => TracksReported
  <2> SUFFICES ASSUME PortInv, Quiet, stopping = "no", NEW t \in active \ missed
               PROVE  t \in session.active
    BY DEF TracksReported
  <2>1. W = Idle
    BY DEF Quiet, W, Pubs
  <2>2. ~Awaited(t) /\ W.then # "failed"
    BY <2>1, EmptySeq, ControlForms DEF Awaited
  <2> QED
    BY <2>2 DEF PortInv, ReportInv
<1> QED
  BY <1>1, PortInvariance, PTL

\* After stop's close of the events has run to its end none of the present policy
\* is open at Protect, and none opens again, but one whose leave was refused or
\* was lost with the worker that waited to send it (aiport_candidate.py stop).
THEOREM StopClosesEventsHolds == Spec => []StopClosesEvents
<1>1. PortInv => StopClosesEvents
  BY DEF PortInv, ClosedInv, Announced, StopClosesEvents
<1> QED
  BY <1>1, PortInvariance, PTL
-------------------------------------------------------------------------------
(* How far StaleResultsSilent is from holding.  It fails when one task revokes *)
(* a policy while the other is inside a batch or waits to send: the other's    *)
(* enter opens an event of the policy that is gone, or its _revoke_pool_policy *)
(* drops the session whose leaves are still to be published.  And it fails     *)
(* when the leave of a revocation names more objects than a message carries.   *)
(* Where a revocation waits for the other publisher, and an event never has    *)
(* more objects, no event of a replaced policy stays open.                     *)

\* A publisher has candidates left, or a message that waits for the lock.
Owing(P) == P.batch # <<>> \/ P.say # "none"

\* No policy is revoked while the other task has something left to publish.
RevokesAlone ==
    /\ Settings \/ StreamStopped => ~Owing(W)
    /\ Unavailable => ~Owing(C)
RevokedAlone == [][RevokesAlone]_vars

\* The objects an event has seen fit into the message that closes it.
EventFits == Cardinality(session.seen) <= MAX_TRACKS

\* The leave of track t is still to be published.
Departs(batch, t) ==
    \E i \in 1..Len(batch) : batch[i] = [edge |-> "leave", track |-> t]

\* Protect has the event, or the message that opens it is being made or waits.
Showing == net /\ (event.open \/ (W.say = "enter" /\ W.live))

\* The two publishers take turns, and a batch that may still be sent is current.
TurnInv ==
    /\ C.then \in {"revoke", "settings"} => ~Owing(W)
    /\ W.then = "unavailable" => ~Owing(C)
    /\ W.stale /\ W.live => ~Owing(W)
    /\ Owing(C) => C.live
    /\ C.at = "reply" => ~Owing(C)

\* The session of an event has the engine's tracks and those that are leaving,
HeldInv ==
    Showing => \A t \in session.active :
                  t \in active \/ Departs(W.batch, t) \/ Departs(C.batch, t)

\* it lasts until the event's leave waits, and only leaves are left of a replaced
\* policy.
OpenInv == event.open /\ net => session.active # {} \/ W.say = "leave" \/ C.say = "leave"
StaleInv == event.open /\ event.stale /\ net => active = {}

TurnsInv == TurnInv /\ HeldInv /\ OpenInv /\ StaleInv

-------------------------------------------------------------------------------
\* An event is on an agreed link, and so is a message that will open one.
LEMMA ShowingLink == ASSUME PortInv, event.open \/ (W.say = "enter" /\ W.live) PROVE link = "agreed"
  BY DEF PortInv, LinkInv

\* Steps in which no publisher moves.
LEMMA TurnsUnmoved ==
  ASSUME PortInv, TurnsInv, UNCHANGED <<active, session, pub, event>>,
         net' => net \/ link # "agreed"
  PROVE  TurnsInv'
<1>1. W' = W /\ C' = C
  BY DEF W, C
<1>2. TurnInv'
  BY <1>1 DEF TurnsInv, TurnInv, Owing
<1>3. Showing' => Showing
  BY <1>1, ShowingLink DEF Showing
<1>4. event'.open /\ net' => event.open /\ net
  BY ShowingLink
<1>5. HeldInv'
  BY <1>1, <1>3 DEF TurnsInv, HeldInv
<1>6. OpenInv' /\ StaleInv'
  BY <1>1, <1>4 DEF TurnsInv, OpenInv, StaleInv
<1> QED
  BY <1>2, <1>5, <1>6 DEF TurnsInv

LEMMA TurnsStill ==
  ASSUME PortInv, TurnsInv,
         \/ ObserveFrame \/ TakeFrame \/ StartStream \/ StreamHealth \/ Connect
         \/ ParamAgreement \/ SocketCloses \/ UNCHANGED vars
  PROVE  TurnsInv'
<1> USE DEF engine, line, PortInv, LinkInv
<1>1. UNCHANGED <<active, session, pub, event>>
  BY DEF ObserveFrame, TakeFrame, StartStream, StreamHealth, Connect, ParamAgreement,
         SocketCloses, vars
<1>2. net' => net \/ link # "agreed"
  BY DEF ObserveFrame, TakeFrame, StartStream, StreamHealth, Connect, ParamAgreement,
         SocketCloses, vars
<1> QED
  BY <1>1, <1>2, TurnsUnmoved
-------------------------------------------------------------------------------
\* The rest of a batch, once its head is dealt with.
LEMMA Departing ==
  ASSUME NEW s \in Seq(Changes), s # <<>>, NEW t, Departs(s, t)
  PROVE  s[1] = [edge |-> "leave", track |-> t] \/ Departs(Tail(s), t)
<1>1. PICK i \in 1..Len(s) : s[i] = [edge |-> "leave", track |-> t]
  BY DEF Departs
<1>2. CASE i = 1
  BY <1>1, <1>2
<1>3. CASE i # 1
  <2>1. Len(s) \in Nat \ {0} /\ Len(Tail(s)) = Len(s) - 1
        /\ \A k \in 1..Len(Tail(s)) : Tail(s)[k] = s[k + 1]
    BY Batches
  <2>2. i - 1 \in 1..Len(Tail(s)) /\ (i - 1) + 1 = i
    BY <1>3, <2>1
  <2> QED
    BY <1>1, <2>1, <2>2 DEF Departs
<1> QED
  BY <1>2, <1>3

\* A publisher goes on in the same batch,
Keeps(p) ==
    /\ pub'[p].then = pub[p].then
    /\ pub'[p].live = pub[p].live /\ pub'[p].stale = pub[p].stale
    /\ pub'[p].at \in {"ready", "wait", "send"}

\* to its next candidate, with or without a message.
GoesOn(p) == Keeps(p) /\ pub'[p].batch = Tail(pub[p].batch)

Others(p) == \A q \in Pubs : q # p => pub'[q] = pub[q]

LEMMA Saying ==
  ASSUME TypeOK, NEW p \in Pubs, pub[p].batch # <<>>,
         NEW edge \in {"enter", "moving", "leave"}, Say(p, edge)
  PROVE  Others(p) /\ GoesOn(p) /\ event' = event /\ pub'[p].say = edge
<1>0. pub \in [Pubs -> Publishing] /\ pub[p] \in Publishing
  BY DEF TypeOK
<1>1. /\ pub'[p] = [pub[p] EXCEPT !.at = "wait", !.batch = Tail(@), !.say = edge]
      /\ Others(p) /\ event' = event
  BY <1>0 DEF Say, Set, Others
<1> QED
  BY <1>0, <1>1 DEF GoesOn, Keeps, Publishing

LEMMA Silence ==
  ASSUME TypeOK, NEW p \in Pubs, Skip(p)
  PROVE  Others(p) /\ GoesOn(p) /\ event' = event /\ pub'[p].say = "none"
<1>0. pub \in [Pubs -> Publishing] /\ pub[p] \in Publishing
  BY DEF TypeOK
<1>1. /\ pub'[p] = [pub[p] EXCEPT !.at = "ready", !.batch = Tail(@), !.say = "none"]
      /\ Others(p) /\ event' = event
  BY <1>0 DEF Skip, Dropped, Set, Others
<1> QED
  BY <1>0, <1>1 DEF GoesOn, Keeps, Publishing

\* A candidate of either publisher: no leave is let go but that of a track the
\* session has no more.
LEMMA Dealt ==
  ASSUME PortInv, TurnsInv, NEW p \in Pubs, pub[p].batch # <<>>,
         pub[p].at \in {"ready", "snap"},
         UNCHANGED <<line, active, event>>, Others(p), GoesOn(p),
         pub'[p].say = "enter" => pub[p].say = "enter",
         Showing' => \A t \in session'.active :
                        /\ t \in session.active \cup active
                        /\ pub[p].batch[1] = [edge |-> "leave", track |-> t] => t \in active,
         event.open /\ net => \/ session'.active # {} \/ pub'[p].say = "leave"
                              \/ session'.active = session.active
  PROVE  TurnsInv'
<1> USE DEF PortInv, TurnsInv
<1>0. p \in {"worker", "control"} /\ net' = net
  BY DEF Pubs, line
<1>1. /\ p = "worker" => W = pub[p] /\ C' = C /\ W' = pub'[p]
      /\ p = "control" => C = pub[p] /\ W' = W /\ C' = pub'[p]
  BY DEF Others, W, C, Pubs
<1>2. pub[p].batch \in Seq(Changes) /\ Owing(pub[p])
  BY DEF TypeOK, Publishing, Owing
<1>3. TurnInv'
  <2>1. CASE p = "worker"
    BY <1>1, <1>2, <2>1 DEF TurnInv, GoesOn, Keeps
  <2>2. CASE p = "control"
    BY <1>1, <1>2, <2>2 DEF TurnInv, GoesOn, Keeps
  <2> QED
    BY <1>0, <2>1, <2>2
<1>4. Showing' => Showing
  BY <1>0, <1>1 DEF Showing, GoesOn, Keeps
<1>5. HeldInv'
  <2> SUFFICES ASSUME Showing', NEW t \in session'.active, t \notin active
               PROVE  Departs(W'.batch, t) \/ Departs(C'.batch, t)
    BY DEF HeldInv
  <2>1. t \in session.active /\ pub[p].batch[1] # [edge |-> "leave", track |-> t]
    OBVIOUS
  <2>2. Departs(W.batch, t) \/ Departs(C.batch, t)
    BY <1>4, <2>1 DEF HeldInv
  <2>3. Departs(pub[p].batch, t) => Departs(pub'[p].batch, t)
    BY <1>2, <2>1, Departing DEF GoesOn
  <2> QED
    BY <1>0, <1>1, <2>2, <2>3
<1>6. OpenInv'
  <2>1. pub[p].say # "leave"
    BY <1>0, <1>1 DEF WorkerShape, ControlShape
  <2> QED
    BY <1>0, <1>1, <2>1 DEF OpenInv
<1>7. StaleInv'
  BY <1>0 DEF StaleInv
<1> QED
  BY <1>3, <1>5, <1>6, <1>7

\* A leave of either publisher, of a track the engine has let go.
LEMMA TurnsLeave ==
  ASSUME PortInv, TurnsInv, EventFits, NEW p \in Pubs, pub[p].batch # <<>>, pub[p].at = "ready",
         UNCHANGED <<line, active>>,
         NEW t \in Tracks \ active, pub[p].batch[1] = [edge |-> "leave", track |-> t],
         PublishLeave(p, t)
  PROVE  TurnsInv'
<1> USE DEF PortInv
<1>1. /\ Current \in [there : BOOLEAN, active : SUBSET Tracks, seen : SUBSET Tracks]
      /\ Current.active = session.active /\ Current.active \subseteq Current.seen
      /\ Current.seen \in {{}, session.seen}
  BY DEF Current, NewSession, NoSession, SessionInv, TypeOK
<1>2. t \in Current.seen => ~Refused(Current.seen)
  <2> SUFFICES ASSUME t \in Current.seen PROVE ~Refused(Current.seen)
    OBVIOUS
  <2>1. Current.seen = session.seen /\ Current.seen # {}
    BY <1>1
  <2>2. Cardinality(session.seen) \in Nat
    BY TracksFinite, FS_CardinalityType DEF TypeOK
  <2> QED
    BY <2>1, <2>2, MaxTracksAssumption DEF Refused, EventFits
<1> DEFINE Parted ==
      /\ Others(p) /\ GoesOn(p) /\ event' = event /\ pub'[p].say # "enter"
      /\ session'.active \subseteq session.active \ {t}
      /\ \/ session'.active # {} \/ pub'[p].say = "leave"
         \/ session'.active = session.active
<1>3. ASSUME t \notin Current.seen PROVE Parted
  <2>1. Skip(p) /\ session' = Current
    BY <1>3 DEF PublishLeave
  <2>2. Others(p) /\ GoesOn(p) /\ event' = event /\ pub'[p].say = "none"
    BY <2>1, Silence
  <2> QED
    BY <1>1, <1>3, <2>1, <2>2
<1>4. ASSUME t \in Current.seen, Left(t) # {} PROVE Parted
  <2>1. /\ Skip(p) \/ Say(p, "moving")
        /\ session' = [Current EXCEPT !.active = Left(t)]
    BY <1>4 DEF PublishLeave
  <2>2. Others(p) /\ GoesOn(p) /\ event' = event /\ pub'[p].say \in {"none", "moving"}
    BY <2>1, Saying, Silence
  <2>3. session'.active = session.active \ {t} /\ session'.active # {}
    BY <1>1, <1>4, <2>1 DEF Left
  <2> QED
    BY <2>2, <2>3
<1>5. ASSUME t \in Current.seen, Left(t) = {} PROVE Parted
  <2>1. Say(p, "leave") /\ Pop([Current EXCEPT !.active = {}])
    BY <1>2, <1>5 DEF PublishLeave
  <2>2. session'.active = {}
    BY <2>1 DEF Pop, NoSession
  <2>3. Others(p) /\ GoesOn(p) /\ event' = event /\ pub'[p].say = "leave"
    BY <2>1, Saying
  <2> QED
    BY <2>2, <2>3
<1>6. Parted
  BY <1>3, <1>4, <1>5
<1> HIDE DEF PortInv
<1> QED
  BY <1>6, Dealt

\* Another track joins the session: its event is the engine's present one.
LEMMA TurnsEnter ==
  ASSUME PortInv, TurnsInv, W.batch # <<>>, W.at = "ready",
         UNCHANGED <<line, active>>,
         NEW t \in Tracks, W.batch[1] = [edge |-> "enter", track |-> t],
         PublishEnter("worker", t)
  PROVE  TurnsInv'
<1> USE DEF PortInv
<1>1. W \in Publishing /\ W.batch \in Seq(Changes) /\ 1 \in 1..Len(W.batch) /\ Owing(W)
  BY Publishers, Batches DEF Owing
<1>2. session'.active = session.active \cup {t}
  BY DEF PublishEnter, Current, NewSession, NoSession, SessionInv
<1>3. W.live => t \in active
  BY <1>1 DEF BatchInv, TurnsInv, TurnInv
<1>4. CASE /\ Set("worker", [W EXCEPT !.at = "snap",
                                      !.say = IF Current.active = {} THEN "enter" ELSE "moving"])
           /\ UNCHANGED event
  <2> DEFINE say == IF Current.active = {} THEN "enter" ELSE "moving"
             next == [W EXCEPT !.at = "snap", !.say = say]
  <2>0. say \in {"enter", "moving"} /\ (say = "enter" => session.active = {})
    BY DEF Current, NewSession, NoSession, SessionInv
  <2> HIDE DEF say
  <2>1. next \in Publishing
    BY <1>1, <2>0 DEF Publishing
  <2>2. W' = next /\ C' = C
    BY <1>4, <2>1, SetPublisher DEF Pubs, say
  <2>3. /\ W'.at = "snap" /\ W'.batch = W.batch /\ W'.then = W.then
        /\ W'.live = W.live /\ W'.stale = W.stale /\ W'.say = say
    BY <1>1, <2>2 DEF Publishing
  <2>4. TurnInv'
    BY <1>1, <2>2, <2>3 DEF TurnsInv, TurnInv
  <2>5. HeldInv'
    <3> SUFFICES ASSUME Showing', NEW u \in session'.active, u \notin active
                 PROVE  Departs(W.batch, u) \/ Departs(C.batch, u)
      BY <2>2, <2>3 DEF HeldInv
    <3>1. W.live
      BY <1>4, <2>3 DEF Showing, LinkInv
    <3>2. u \in session.active
      BY <1>2, <1>3, <3>1
    <3>3. net /\ event.open
      BY <1>4, <2>0, <2>3, <3>2 DEF Showing, line
    <3> QED
      BY <3>2, <3>3 DEF TurnsInv, HeldInv, Showing
  <2>6. OpenInv' /\ StaleInv'
    BY <1>2, <1>4 DEF TurnsInv, OpenInv, StaleInv, line
  <2> QED
    BY <2>4, <2>5, <2>6 DEF TurnsInv
<1>5. CASE Skip("worker") \/ Say("worker", "moving")
  <2>1. /\ Others("worker") /\ GoesOn("worker") /\ event' = event
        /\ pub'["worker"].say \in {"none", "moving"}
    BY <1>5, Saying, Silence DEF W, Pubs
  <2>2. Showing' => t \in active
    <3> SUFFICES ASSUME Showing', ~W.live PROVE FALSE
      BY <1>3
    <3>1. ~event.open
      BY DEF LinkInv
    <3> QED
      BY <2>1, <3>1 DEF Showing, W
  <2>3. \A u : W.batch[1] # [edge |-> "leave", track |-> u]
    OBVIOUS
  <2> HIDE DEF PortInv
  <2> QED
    BY <1>2, <2>1, <2>2, <2>3, Dealt DEF W, Pubs
<1> QED
  BY <1>4, <1>5 DEF PublishEnter, W

LEMMA TurnsCandidateWorker ==
  ASSUME PortInv, TurnsInv, EventFits, Candidate("worker") PROVE TurnsInv'
<1> DEFINE c == W.batch[1]
<1>1. /\ W.at = "ready" /\ W.batch # <<>> /\ W.batch \in Seq(Changes)
      /\ Head(W.batch) = c /\ c \in Changes /\ 1 \in 1..Len(W.batch)
  BY Publishers, Batches DEF PortInv, Candidate, W
<1>2. UNCHANGED <<line, active>>
  BY DEF Candidate, engine
<1>3. c.edge \in {"enter", "moving", "leave"} /\ c.track \in Tracks
      /\ c = [edge |-> c.edge, track |-> c.track]
  BY <1>1 DEF Changes
<1>4. \/ Skip("worker") /\ session' = session /\ c.edge # "leave"
      \/ CASE c.edge = "enter" -> PublishEnter("worker", c.track)
           [] c.edge = "moving" -> PublishMoving("worker", c.track)
           [] c.edge = "leave" -> PublishLeave("worker", c.track)
  BY <1>1 DEF Candidate, W
<1>5. c.edge = "leave" => c.track \notin active
  BY <1>1 DEF PortInv, BatchInv
<1> HIDE DEF c
<1>6. CASE /\ Say("worker", "moving") \/ Skip("worker")
           /\ session'.active = session.active /\ c.edge # "leave"
  <2>1. /\ Others("worker") /\ GoesOn("worker") /\ event' = event
        /\ pub'["worker"].say \in {"none", "moving"}
    BY <1>1, <1>6, Saying, Silence DEF W, Pubs, PortInv
  <2>2. \A t : pub["worker"].batch[1] # [edge |-> "leave", track |-> t]
    BY <1>6 DEF c, W
  <2> QED
    BY <1>1, <1>2, <1>6, <2>1, <2>2, Dealt DEF W, Pubs
<1>7. CASE c.edge = "enter" /\ PublishEnter("worker", c.track)
  BY <1>1, <1>2, <1>3, <1>7, TurnsEnter DEF c
<1>8. CASE c.edge = "moving" /\ PublishMoving("worker", c.track)
  <2>1. session'.active = session.active
    BY <1>8 DEF PublishMoving, Current, NewSession, NoSession, PortInv, SessionInv
  <2> QED
    BY <1>6, <1>8, <2>1 DEF PublishMoving
<1>9. CASE c.edge = "leave" /\ PublishLeave("worker", c.track)
  BY <1>1, <1>2, <1>3, <1>5, <1>9, TurnsLeave DEF c, W, Pubs
<1> QED
  BY <1>3, <1>4, <1>6, <1>7, <1>8, <1>9

LEMMA TurnsCandidateControl ==
  ASSUME PortInv, TurnsInv, EventFits, Candidate("control") PROVE TurnsInv'
<1> USE DEF PortInv
<1> DEFINE c == C.batch[1]
<1>1. /\ C.at = "ready" /\ C.batch # <<>> /\ Head(C.batch) = c
      /\ c \in Changes /\ 1 \in 1..Len(C.batch)
  BY Publishers, Batches DEF Candidate, C
<1>2. /\ c.edge = "leave" /\ c.track \in Tracks /\ c = [edge |-> "leave", track |-> c.track]
      /\ active = {}
  BY <1>1 DEF ControlShape, Changes, TypeOK
<1>3. PublishLeave("control", c.track) /\ UNCHANGED <<line, active>>
  BY <1>1, <1>2 DEF Candidate, C, engine
<1> HIDE DEF c, PortInv
<1> QED
  BY <1>1, <1>2, <1>3, TurnsLeave DEF c, C, Pubs

\* The snapshot's message is of the session's present tracks.
LEMMA TurnsSnapshot ==
  ASSUME PortInv, TurnsInv, SnapshotReady PROVE TurnsInv'
<1> USE DEF PortInv
<1>1. W.at = "snap" /\ UNCHANGED <<line, active, session>>
  BY DEF SnapshotReady, W, engine
<1>2. /\ W.batch # <<>> /\ Head(W.batch) = W.batch[1] /\ Head(W.batch).edge = "enter"
      /\ W.say \in {"enter", "moving"}
  BY <1>1, Publishers, Batches DEF WorkerShape
<1>3. \A t : W.batch[1] # [edge |-> "leave", track |-> t]
  BY <1>2
<1>4. Skip("worker") \/ Say("worker", W.say)
  BY DEF SnapshotReady, W
<1>5. /\ Others("worker") /\ GoesOn("worker") /\ event' = event
      /\ pub'["worker"].say \in {"none", W.say}
  BY <1>2, <1>4, Saying, Silence DEF W, Pubs
<1> HIDE DEF PortInv
<1> QED
  BY <1>1, <1>2, <1>3, <1>5, Dealt DEF W, Pubs

\* A publisher with nothing left to publish, or none to publish to, tells nothing.
LEMMA TurnsOver ==
  ASSUME PortInv, TurnsInv, NEW p \in Pubs, Others(p),
         UNCHANGED <<line, active, event>>,
         Owing(pub[p]) => ~pub[p].live \/ ~net,
         pub'[p].batch = <<>>, pub'[p].say = "none", ~pub'[p].stale,
         pub'[p].then \in {"none", "failed", "lost"},
         \/ session' = session
         \/ /\ session'.active = {} /\ active = {} /\ ~Owing(W) /\ ~Owing(C)
  PROVE  TurnsInv'
<1> USE DEF PortInv
<1>0. p \in {"worker", "control"}
  BY DEF Pubs
<1>1. /\ p = "worker" => W = pub[p] /\ C' = C /\ W' = pub'[p]
      /\ p = "control" => C = pub[p] /\ W' = W /\ C' = pub'[p]
  BY DEF Others, W, C, Pubs
<1>2. TurnInv'
  <2>1. CASE p = "worker"
    BY <1>1, <2>1 DEF TurnsInv, TurnInv, Owing
  <2>2. CASE p = "control"
    BY <1>1, <2>2 DEF TurnsInv, TurnInv, Owing
  <2> QED
    BY <1>0, <2>1, <2>2
<1>3. event.open /\ net => ~Owing(pub[p])
  BY <1>0, <1>1 DEF LinkInv, TurnsInv, TurnInv, Owing
<1>4. Showing' => Showing /\ ~Owing(pub[p])
  <2> SUFFICES ASSUME Showing', ~event.open PROVE Showing /\ ~Owing(pub[p])
    BY <1>3 DEF Showing, line
  <2>1. net /\ W'.say = "enter" /\ W'.live
    BY DEF Showing, line
  <2>2. p = "control" /\ W' = W
    BY <1>0, <1>1, <2>1
  <2>3. ~Owing(C) \/ ~net
    BY <1>1, <2>2 DEF TurnsInv, TurnInv
  <2> QED
    BY <1>1, <2>1, <2>2, <2>3 DEF Showing
<1>5. \A t : ~Departs(<<>>, t)
  BY EmptySeq DEF Departs
<1>6. CASE session' = session
  <2>1. HeldInv'
    BY <1>0, <1>1, <1>4, <1>5, <1>6 DEF TurnsInv, HeldInv, Owing
  <2>2. OpenInv'
    BY <1>0, <1>1, <1>3, <1>6 DEF TurnsInv, OpenInv, Owing, line
  <2> QED
    BY <1>2, <1>6, <2>1, <2>2 DEF TurnsInv, StaleInv, line
<1>7. CASE session'.active = {} /\ active = {} /\ ~Owing(W) /\ ~Owing(C)
  <2>1. event.open /\ net => FALSE
    BY <1>5, <1>7 DEF TurnsInv, HeldInv, OpenInv, Showing, Owing
  <2>2. OpenInv' /\ StaleInv'
    BY <2>1 DEF OpenInv, StaleInv, line
  <2>3. HeldInv'
    BY <1>7 DEF HeldInv
  <2> QED
    BY <1>2, <2>2, <2>3 DEF TurnsInv
<1> QED
  BY <1>6, <1>7

\* The forms of a publisher whose batch is over.
LEMMA Over ==
  ASSUME TypeOK, NEW p \in Pubs,
         NEW f \in {Idle, [Idle EXCEPT !.at = "ready", !.then = "failed"],
                    [Idle EXCEPT !.at = "ready", !.then = "lost"], [Idle EXCEPT !.at = "reply"]},
         Set(p, f)
  PROVE  /\ Others(p) /\ pub'[p].batch = <<>> /\ ~pub'[p].stale /\ pub'[p].say = "none"
         /\ pub'[p].then \in {"none", "failed", "lost"}
<1>1. pub'[p] = f /\ Others(p)
  BY DEF Set, TypeOK, Others
<1>2. CASE f = Idle
  BY <1>1, <1>2 DEF Idle
<1>3. CASE f = [Idle EXCEPT !.at = "ready", !.then = "failed"]
  BY <1>1, <1>3 DEF Idle
<1>4. CASE f = [Idle EXCEPT !.at = "ready", !.then = "lost"]
  BY <1>1, <1>4 DEF Idle
<1>5. CASE f = [Idle EXCEPT !.at = "reply"]
  BY <1>1, <1>5 DEF Idle
<1> QED
  BY <1>2, <1>3, <1>4, <1>5

LEMMA TurnsDone ==
  ASSUME PortInv, TurnsInv, Done, ~Unavailable, ~Lost
  PROVE  TurnsInv'
<1> USE DEF PortInv
<1>1. PICK p \in Pubs : /\ pub[p].at = "ready" /\ pub[p].batch = <<>>
                        /\ \/ p = "worker" /\ (ResultDone \/ Revoked(p))
                           \/ p = "control" /\ (Revoked(p) \/ Installed)
  BY DEF Done, Pubs
<1>2. ~Owing(pub[p])
  BY <1>1 DEF WorkerShape, ControlShape, Owing, W, C, Pubs
<1>3. CASE (p = "worker" /\ ResultDone) \/ (p = "control" /\ Installed)
  <2>1. Set(p, Idle) /\ UNCHANGED <<line, active, event, session>>
    BY <1>3 DEF ResultDone, Installed, engine
  <2> QED
    BY <1>1, <1>2, <2>1, Over, TurnsOver
<1>4. CASE Revoked(p)
  <2>1. /\ pub[p].then \in {"unavailable", "revoke"} /\ Set(p, Idle) /\ session' = NoSession
        /\ UNCHANGED <<line, active, event>>
    BY <1>4 DEF Revoked, Pop, engine
  <2>2. active = {} /\ ~Owing(W) /\ ~Owing(C)
    <3>1. CASE p = "worker"
      BY <1>1, <1>2, <2>1, <3>1 DEF WorkerShape, TypeOK, TurnsInv, TurnInv, W, C
    <3>2. CASE p = "control"
      BY <1>1, <1>2, <2>1, <3>2 DEF ControlShape, TypeOK, TurnsInv, TurnInv, W, C
    <3> QED
      BY <3>1, <3>2 DEF Pubs
  <2> QED
    BY <1>1, <1>2, <2>1, <2>2, Over, TurnsOver DEF NoSession
<1> QED
  BY <1>1, <1>3, <1>4

\* A publisher's message has the lock: it goes out, or its send raises.
LEMMA TurnsGranted ==
  ASSUME PortInv, TurnsInv, NEW p \in Pubs, Granted(p) PROVE TurnsInv'
<1> USE DEF PortInv
<1>1. /\ pub[p].at = "wait" /\ p \in {"worker", "control"} /\ pub[p] \in Publishing
      /\ UNCHANGED <<line, active, session>> /\ net' = net
  BY DEF Granted, engine, line, Pubs, TypeOK
<1>2. pub[p].say \in {"enter", "moving", "leave"} /\ Owing(pub[p])
  BY <1>1 DEF WorkerShape, ControlShape, Publishing, Owing, W, C
<1>3. CASE Fail(p)
  <2>1. PICK f \in {Idle, [Idle EXCEPT !.at = "ready", !.then = "failed"],
                    [Idle EXCEPT !.at = "ready", !.then = "lost"]} : Set(p, f)
    BY <1>3 DEF Fail
  <2> QED
    BY <1>1, <1>3, <2>1, Over, TurnsOver DEF Fail
<1>4. CASE Write(p, pub[p].say)
  <2>1. PICK at \in {"ready", "send"} : Set(p, [pub[p] EXCEPT !.at = at, !.say = "none"])
    BY <1>4 DEF Write
  <2>2. pub'[p] = [pub[p] EXCEPT !.at = at, !.say = "none"] /\ Others(p)
    BY <2>1 DEF Set, TypeOK, Others
  <2>3. Keeps(p) /\ pub'[p].batch = pub[p].batch /\ pub'[p].say = "none"
    BY <1>1, <2>2 DEF Keeps, Publishing
  <2>4. /\ p = "worker" => W = pub[p] /\ C' = C /\ W' = pub'[p]
        /\ p = "control" => C = pub[p] /\ W' = W /\ C' = pub'[p]
    BY <2>2 DEF Others, W, C, Pubs
  <2>5. W'.batch = W.batch /\ C'.batch = C.batch
    BY <1>1, <2>3, <2>4
  <2>6. TurnInv'
    <3>1. CASE p = "worker"
      BY <1>2, <2>3, <2>4, <3>1 DEF TurnsInv, TurnInv, Keeps, Owing
    <3>2. CASE p = "control"
      BY <1>2, <2>3, <2>4, <3>2 DEF TurnsInv, TurnInv, Keeps, Owing
    <3> QED
      BY <1>1, <3>1, <3>2
  <2>7. /\ pub[p].live
        /\ event' = IF ~net \/ pub[p].say = "moving" THEN event
                    ELSE IF pub[p].say = "leave" THEN NoEvent
                    ELSE IF event.open THEN [event EXCEPT !.unsent = FALSE]
                    ELSE [NoEvent EXCEPT !.open = TRUE, !.stale = pub[p].stale]
    BY <1>4 DEF Write
  <2>8. pub[p].say = "enter" => p = "worker" /\ ~W.stale /\ session.active # {}
    <3> SUFFICES ASSUME pub[p].say = "enter"
                 PROVE  p = "worker" /\ ~W.stale /\ session.active # {}
      OBVIOUS
    <3>1. p = "worker"
      BY <1>1, <2>4 DEF ControlShape
    <3>2. ~W.stale
      BY <1>2, <2>4, <2>7, <3>1 DEF TurnsInv, TurnInv
    <3> QED
      BY <1>1, <2>4, <2>7, <3>1, <3>2 DEF SayInv
  <2>9. Showing' => Showing
    <3> SUFFICES ASSUME Showing', ~event.open PROVE Showing
      BY <1>1 DEF Showing
    <3>1. CASE event'.open
      <4>1. pub[p].say = "enter"
        BY <1>2, <2>7, <3>1 DEF NoEvent
      <4> QED
        BY <1>1, <2>4, <2>7, <2>8, <4>1 DEF Showing
    <3>2. CASE W'.say = "enter" /\ W'.live
      BY <1>1, <2>3, <2>4, <3>2 DEF Showing
    <3> QED
      BY <3>1, <3>2 DEF Showing
  <2>10. HeldInv'
    BY <1>1, <2>5, <2>9 DEF TurnsInv, HeldInv
  <2>11. OpenInv' /\ StaleInv'
    <3>1. CASE pub[p].say = "enter"
      <4>1. event'.open /\ event'.stale /\ net => event.open /\ event.stale
        BY <2>4, <2>7, <2>8, <3>1 DEF NoEvent, TypeOK
      <4> QED
        BY <1>1, <2>8, <3>1, <4>1 DEF TurnsInv, OpenInv, StaleInv
    <3>2. CASE pub[p].say = "moving"
      BY <1>1, <2>4, <2>7, <3>2 DEF TurnsInv, OpenInv, StaleInv
    <3>3. CASE pub[p].say = "leave"
      BY <1>1, <2>7, <3>3 DEF OpenInv, StaleInv, NoEvent
    <3> QED
      BY <1>2, <3>1, <3>2, <3>3
  <2> QED
    BY <2>6, <2>10, <2>11 DEF TurnsInv
<1> QED
  BY <1>3, <1>4 DEF Granted

LEMMA TurnsResume ==
  ASSUME PortInv, TurnsInv, NEW p \in Pubs, Resume(p) PROVE TurnsInv'
<1> USE DEF PortInv
<1>1. /\ pub[p].at = "send" /\ event' = event
      /\ UNCHANGED <<line, active, session, event>>
  BY DEF Resume, Fail, engine
<1>2. CASE Fail(p)
  <2>1. PICK f \in {Idle, [Idle EXCEPT !.at = "ready", !.then = "failed"],
                    [Idle EXCEPT !.at = "ready", !.then = "lost"]} : Set(p, f)
    BY <1>2 DEF Fail
  <2> QED
    BY <1>1, <1>2, <2>1, Over, TurnsOver DEF Fail
<1>3. CASE Set(p, [pub[p] EXCEPT !.at = "ready"])
  <2>0. pub[p] \in Publishing /\ p \in {"worker", "control"}
    BY DEF TypeOK, Pubs
  <2>1. /\ pub'[p] = [pub[p] EXCEPT !.at = "ready"] /\ Others(p)
    BY <1>3 DEF Set, TypeOK, Others
  <2>2. /\ pub'[p].at = "ready" /\ pub'[p].batch = pub[p].batch /\ pub'[p].then = pub[p].then
        /\ pub'[p].live = pub[p].live /\ pub'[p].stale = pub[p].stale
        /\ pub'[p].say = pub[p].say
    BY <2>0, <2>1 DEF Publishing
  <2>3. /\ p = "worker" => W = pub[p] /\ C' = C /\ W' = pub'[p]
        /\ p = "control" => C = pub[p] /\ W' = W /\ C' = pub'[p]
    BY <2>1 DEF Others, W, C, Pubs
  <2>4. /\ W'.batch = W.batch /\ C'.batch = C.batch /\ W'.live = W.live
        /\ W'.say = W.say /\ C'.say = C.say
    BY <2>0, <2>2, <2>3
  <2>5. TurnInv'
    <3>1. CASE p = "worker"
      BY <1>1, <2>2, <2>3, <3>1 DEF TurnsInv, TurnInv, Owing
    <3>2. CASE p = "control"
      BY <2>2, <2>3, <3>2 DEF TurnsInv, TurnInv, Owing
    <3> QED
      BY <2>0, <3>1, <3>2
  <2>6. Showing' = Showing
    BY <1>1, <2>4 DEF Showing, line
  <2>7. HeldInv'
    BY <1>1, <2>4, <2>6 DEF TurnsInv, HeldInv
  <2> QED
    BY <1>1, <2>4, <2>5, <2>7 DEF TurnsInv, OpenInv, StaleInv, line
<1> QED
  BY <1>2, <1>3 DEF Resume

LEMMA TurnsTasks ==
  ASSUME PortInv, TurnsInv,
         \/ ModelFails \/ StopStream
         \/ StreamStopped /\ Set("control", [Idle EXCEPT !.at = "ready", !.then = "lost"])
  PROVE  TurnsInv'
<1> USE DEF PortInv
<1>1. CASE ModelFails
  <2>1. /\ W = Idle /\ Set("worker", [Idle EXCEPT !.at = "ready", !.then = "failed"])
        /\ UNCHANGED <<line, active, event, session>>
    BY <1>1 DEF ModelFails, Free, WorkerShape, W, engine
  <2>2. ~Owing(W)
    BY <2>1, ControlForms DEF Owing
  <2> QED
    BY <2>1, <2>2, Over, TurnsOver DEF W, Pubs
<1>2. CASE StopStream
  <2>1. /\ C = Idle /\ Set("control", [Idle EXCEPT !.at = "reply"])
        /\ UNCHANGED <<line, active, event, session>>
    BY <1>2 DEF StopStream, Command, Free, ControlShape, C, engine
  <2>2. ~Owing(C)
    BY <2>1, ControlForms DEF Owing
  <2> QED
    BY <2>1, <2>2, Over, TurnsOver DEF C, Pubs
<1>3. CASE StreamStopped /\ Set("control", [Idle EXCEPT !.at = "ready", !.then = "lost"])
  <2>1. C.at = "reply" /\ UNCHANGED <<line, session>>
    BY <1>3 DEF StreamStopped, C
  <2>2. UNCHANGED <<active, event>>
    <3> SUFFICES ASSUME Revoke("control", "revoke") PROVE FALSE
      BY <1>3 DEF StreamStopped, engine
    <3>1. pub'["control"].then = "revoke"
      BY Leaves DEF Pubs
    <3> QED
      BY <1>3, <3>1, ControlForms DEF Set, TypeOK, Pubs
  <2>3. ~Owing(C)
    BY <2>1 DEF TurnsInv, TurnInv
  <2> QED
    BY <1>3, <2>1, <2>2, <2>3, Over, TurnsOver DEF C, Pubs
<1> QED
  BY <1>1, <1>2, <1>3

\* The leaves of a revocation are those of all the engine's tracks.
LEMMA LeavesAll ==
  ASSUME TypeOK, NEW p \in Pubs, NEW then, Revoke(p, then)
  PROVE  /\ link = "agreed" => \A t \in active : Departs(pub'[p].batch, t)
         /\ active = {} => pub'[p].batch = <<>>
<1>1. PICK order \in Orders(active) :
         pub' = [q \in Pubs |->
            IF q = p
            THEN Publish(p, [i \in DOMAIN order |->
                    [edge |-> "leave", track |-> order[i]]], then, FALSE)
            ELSE [pub[q] EXCEPT !.stale = pub[q].at # "idle"]]
  BY DEF Revoke
<1> DEFINE leaves == [i \in DOMAIN order |-> [edge |-> "leave", track |-> order[i]]]
<1>2. pub'[p] = Publish(p, leaves, then, FALSE)
  BY <1>1
<1>3. active \in SUBSET Tracks
  BY DEF TypeOK
<1>4. /\ DOMAIN order = 1..Len(order) /\ Len(order) \in Nat
      /\ \A i \in 1..Len(order) : order[i] \in active
      /\ \A t \in active : \E i \in 1..Len(order) : order[i] = t
  BY <1>3, TracksFinite, Ordered, LenProperties
<1>5. leaves \in Seq([edge : {"leave"}, track : active]) /\ Len(leaves) = Len(order)
  <2>1. leaves \in [1..Len(order) -> [edge : {"leave"}, track : active]]
    BY <1>4
  <2> QED
    BY <1>4, <2>1
<1>6. \A t \in active : Departs(leaves, t)
  BY <1>4, <1>5 DEF Departs
<1>7. active = {} => leaves = <<>>
  <2> SUFFICES ASSUME active = {} PROVE leaves = <<>>
    OBVIOUS
  <2>1. Len(order) = 0
    BY <1>4
  <2> QED
    BY <1>5, <2>1, EmptySeq
<1> HIDE DEF leaves
<1>8. pub'[p].batch = IF link = "agreed" THEN leaves ELSE <<>>
  BY <1>2 DEF Publish, Idle
<1> QED
  BY <1>6, <1>7, <1>8

\* A revocation beside a publisher that has nothing left to publish.
LEMMA TurnsRevoke ==
  ASSUME PortInv, TurnsInv, NEW p \in Pubs, NEW then, Revoke(p, then),
         UNCHANGED <<line, session>>, ~Owing(W), ~Owing(C),
         \/ p = "worker" /\ then = "unavailable"
         \/ p = "control" /\ then \in {"revoke", "settings"}
  PROVE  TurnsInv'
<1> USE DEF PortInv
<1>1. PICK batch \in Seq(Changes) :
         pub' = [q \in Pubs |->
               IF q = p THEN [at |-> "ready", batch |-> batch, on |-> stream,
                              live |-> TRUE, stale |-> FALSE, say |-> "none",
                              then |-> then]
               ELSE [pub[q] EXCEPT !.stale = pub[q].at # "idle"]]
  BY Leaves
<1>2. /\ link = "agreed" => \A t \in active : Departs(batch, t)
      /\ active = {} => batch = <<>>
  BY <1>1, LeavesAll
<1>3. active' = {} /\ event'.open = event.open
  BY DEF Revoke, TypeOK
<1> DEFINE mine == [at |-> "ready", batch |-> batch, on |-> stream, live |-> TRUE,
                    stale |-> FALSE, say |-> "none", then |-> then]
<1>4. W \in Publishing /\ C \in Publishing
  BY Publishers
<1>5. p = "worker" => W' = mine /\ C' = [C EXCEPT !.stale = C.at # "idle"]
  BY <1>1 DEF W, C, Pubs
<1>6. p = "control" => C' = mine /\ W' = [W EXCEPT !.stale = W.at # "idle"]
  BY <1>1 DEF W, C, Pubs
<1>7. W.batch = <<>> /\ W.say = "none" /\ C.batch = <<>> /\ C.say = "none"
  BY DEF Owing
<1>8. CASE p = "worker"
  <2>1. /\ W'.batch = batch /\ W'.then = "unavailable" /\ ~W'.stale /\ W'.say = "none"
        /\ C'.batch = <<>> /\ C'.then = C.then /\ C'.at = C.at /\ C'.say = "none"
    BY <1>4, <1>5, <1>7, <1>8 DEF Publishing
  <2>2. C.then \in {"revoke", "settings"} => batch = <<>>
    BY <1>2 DEF ControlShape, TypeOK
  <2>3. TurnInv'
    BY <2>1, <2>2 DEF TurnInv, Owing
  <2> QED
    <3>1. \A t : ~Departs(<<>>, t)
      BY EmptySeq DEF Departs
    <3>2. ASSUME Showing' PROVE \A t \in session.active : Departs(batch, t)
      <4>1. Showing
        BY <1>3, <2>1, <3>2 DEF Showing, line
      <4>2. \A t \in session.active : t \in active
        BY <1>7, <3>1, <4>1 DEF TurnsInv, HeldInv
      <4> QED
        BY <1>2, <4>1, <4>2, ShowingLink DEF Showing
    <3>3. HeldInv'
      BY <2>1, <3>2 DEF HeldInv
    <3> QED
      BY <1>3, <1>7, <2>3, <3>3 DEF TurnsInv, OpenInv, StaleInv, line
<1>9. CASE p = "control"
  <2>1. /\ C'.batch = batch /\ C'.then = then /\ C'.at = "ready" /\ C'.live
        /\ W'.batch = <<>> /\ W'.then = W.then /\ W'.at = W.at /\ W'.live = W.live
        /\ W'.say = "none" /\ C'.say = "none"
    BY <1>4, <1>6, <1>7, <1>9 DEF Publishing
  <2>2. W.then = "unavailable" => batch = <<>>
    BY <1>2 DEF WorkerShape, TypeOK
  <2>3. TurnInv'
    BY <2>1, <2>2 DEF TurnInv, Owing
  <2> QED
    <3>1. \A t : ~Departs(<<>>, t)
      BY EmptySeq DEF Departs
    <3>2. ASSUME Showing' PROVE \A t \in session.active : Departs(batch, t)
      <4>1. Showing
        BY <1>3, <2>1, <3>2 DEF Showing, line
      <4>2. \A t \in session.active : t \in active
        BY <1>7, <3>1, <4>1 DEF TurnsInv, HeldInv
      <4> QED
        BY <1>2, <4>1, <4>2, ShowingLink DEF Showing
    <3>3. HeldInv'
      BY <2>1, <3>2 DEF HeldInv
    <3> QED
      BY <1>3, <1>7, <2>3, <3>3 DEF TurnsInv, OpenInv, StaleInv, line
<1> QED
  BY <1>8, <1>9

LEMMA TurnsDisconnect ==
  ASSUME PortInv, TurnsInv, Disconnect PROVE TurnsInv'
<1>1. ~net'
  BY DEF Disconnect
<1>2. W \in Publishing
  BY Publishers DEF PortInv
<1>3. /\ C' = Idle
      /\ W' = [W EXCEPT !.live = FALSE, !.stale = W.at # "idle" /\ (W.stale \/ stream)]
  BY DEF Disconnect, W, C, PortInv, TypeOK, Pubs
<1>4. /\ W'.at = W.at /\ W'.batch = W.batch /\ W'.say = W.say /\ W'.then = W.then /\ ~W'.live
      /\ C'.batch = <<>> /\ C'.then = "none" /\ C'.at = "idle" /\ C'.say = "none"
  BY <1>2, <1>3, ControlForms DEF Publishing
<1>5. TurnInv'
  BY <1>4 DEF TurnsInv, TurnInv, Owing
<1> QED
  BY <1>1, <1>5 DEF TurnsInv, HeldInv, Showing, OpenInv, StaleInv

\* A result: the tracks that leave are the engine's until their leave is sent.
LEMMA TurnsResult ==
  ASSUME PortInv, TurnsInv, Result PROVE TurnsInv'
<1> USE DEF PortInv
<1>1. W = Idle /\ UNCHANGED <<line, session, event>>
  BY DEF Result, Free, WorkerShape, W
<1>2. CASE ~CurrentFrame
  BY <1>1, <1>2, TurnsUnmoved DEF Result, line
<1>3. CASE CurrentFrame
  <2>1. policy
    BY <1>3 DEF CurrentFrame
  <2>2. PICK entering \in SUBSET (Tracks \ used), leaving \in SUBSET active :
        \E moving \in SUBSET (active \ leaving) :
        \E order \in Orders([edge : {"enter"}, track : entering]
                            \cup [edge : {"moving"}, track : moving]
                            \cup [edge : {"leave"}, track : leaving]) :
           /\ active' = (active \ leaving) \cup entering
           /\ Set("worker", Publish("worker", order, "result", FALSE))
    BY <1>3 DEF Result
  <2>3. PICK moving \in SUBSET (active \ leaving) :
        \E order \in Orders([edge : {"enter"}, track : entering]
                            \cup [edge : {"moving"}, track : moving]
                            \cup [edge : {"leave"}, track : leaving]) :
           Set("worker", Publish("worker", order, "result", FALSE))
    BY <2>2
  <2> DEFINE S == [edge : {"enter"}, track : entering] \cup [edge : {"moving"}, track : moving]
                      \cup [edge : {"leave"}, track : leaving]
  <2>4. PICK order \in Orders(S) : Set("worker", Publish("worker", order, "result", FALSE))
    BY <2>3
  <2>5. S \in SUBSET Changes
    <3>1. entering \subseteq Tracks /\ moving \subseteq Tracks /\ leaving \subseteq Tracks
      BY DEF TypeOK
    <3> QED
      BY <3>1 DEF Changes
  <2>6. \A t \in leaving : [edge |-> "leave", track |-> t] \in S
    OBVIOUS
  <2> HIDE DEF S
  <2>7. \A t \in leaving : Departs(order, t)
    <3>1. IsFiniteSet(S)
      BY <2>5, ChangesFinite
    <3>2. \A x \in S : \E i \in 1..Len(order) : order[i] = x
      BY <3>1, Ordered
    <3> QED
      BY <2>6, <3>2 DEF Departs
  <2>8. W' = Publish("worker", order, "result", FALSE) /\ C' = C
    BY <2>4 DEF Set, TypeOK, W, C, Pubs
  <2>9. /\ W'.batch = (IF link = "agreed" THEN order ELSE <<>>) /\ W'.then = "result"
        /\ ~W'.stale /\ W'.say = "none"
    BY <2>8 DEF Publish, Idle
  <2>10. C.batch = <<>> /\ C.say = "none" /\ C.then \notin {"revoke", "settings"}
    BY <2>1 DEF ControlShape
  <2>11. TurnInv'
    BY <2>8, <2>9, <2>10 DEF TurnInv, Owing
  <2>12. \A t : ~Departs(W.batch, t) /\ ~Departs(C.batch, t)
    BY <1>1, <2>10, ControlForms, EmptySeq DEF Departs
  <2>13. event.open /\ net => link = "agreed" /\ session.active \subseteq active
    BY <2>12 DEF LinkInv, TurnsInv, HeldInv, Showing
  <2>14. HeldInv'
    <3> SUFFICES ASSUME Showing', NEW t \in session.active, t \notin active'
                 PROVE  Departs(W'.batch, t)
      BY <1>1 DEF HeldInv
    <3>1. event.open /\ net
      BY <1>1, <2>9 DEF Showing, line
    <3>2. t \in leaving
      BY <2>2, <2>13, <3>1
    <3> QED
      BY <2>7, <2>9, <2>13, <3>1, <3>2
  <2>15. OpenInv'
    BY <1>1, <2>8, ControlForms DEF TurnsInv, OpenInv, line
  <2>16. ~(event.open /\ event.stale /\ net)
    BY <1>1, <2>10, <2>13, ControlForms DEF TurnsInv, OpenInv, StaleInv
  <2> QED
    BY <1>1, <2>11, <2>14, <2>15, <2>16 DEF TurnsInv, StaleInv, line
<1> QED
  BY <1>2, <1>3

-------------------------------------------------------------------------------
LEMMA InitTurns == Init => TurnsInv
<1> SUFFICES ASSUME Init PROVE TurnsInv
  OBVIOUS
<1>1. W = Idle /\ C = Idle
  BY DEF Init, W, C, Pubs
<1>2. TurnInv
  BY <1>1 DEF TurnInv, Idle, Owing
<1> QED
  BY <1>2 DEF Init, TurnsInv, HeldInv, Showing, OpenInv, StaleInv, NoEvent

LEMMA NextTurns ==
  (PortInv /\ TurnsInv /\ EventFits /\ stopping' = "no"
     /\ [Next]_vars /\ [RevokesAlone]_vars) => TurnsInv'
<1> SUFFICES ASSUME PortInv, TurnsInv, EventFits, stopping' = "no",
                    [Next]_vars, [RevokesAlone]_vars
             PROVE  TurnsInv'
  OBVIOUS
<1>1. CASE UNCHANGED vars
  BY <1>1, TurnsStill
<1> SUFFICES ASSUME Next, RevokesAlone PROVE TurnsInv'
  BY <1>1
<1>2. CASE \E p \in Pubs : Candidate(p) \/ Granted(p) \/ Resume(p)
  BY <1>2, TurnsCandidateWorker, TurnsCandidateControl, TurnsGranted, TurnsResume DEF Pubs
<1>3. CASE Done
  <2>1. CASE Unavailable
    <3>1. ~Owing(W) /\ Revoke("worker", "unavailable") /\ UNCHANGED <<line, session>>
      BY <2>1 DEF Unavailable, PortInv, WorkerShape, W, Owing
    <3> QED
      BY <2>1, <3>1, TurnsRevoke DEF RevokesAlone, Pubs
  <2>2. CASE Lost
    BY <2>2, TurnsDisconnect DEF Lost
  <2> QED
    BY <1>3, <2>1, <2>2, TurnsDone
<1>4. CASE Frames
  BY <1>4, TurnsStill, TurnsResult, TurnsTasks DEF Frames
<1>5. CASE Settings
  <2>1. C = Idle /\ Revoke("control", "settings") /\ UNCHANGED <<line, session>>
    BY <1>5 DEF Settings, Command, Free, PortInv, ControlShape, C
  <2>2. ~Owing(W) /\ ~Owing(C)
    BY <1>5, <2>1, ControlForms DEF RevokesAlone, Owing
  <2> QED
    BY <2>1, <2>2, TurnsRevoke DEF Pubs
<1>6. CASE StreamStopped
  <2>1. CASE Revoke("control", "revoke")
    <3>1. C.at = "reply" /\ UNCHANGED <<line, session>>
      BY <1>6 DEF StreamStopped, C
    <3>2. ~Owing(W) /\ ~Owing(C)
      BY <1>6, <3>1 DEF RevokesAlone, TurnsInv, TurnInv
    <3> QED
      BY <2>1, <3>1, <3>2, TurnsRevoke DEF Pubs
  <2> QED
    BY <1>6, <2>1, TurnsTasks DEF StreamStopped
<1>7. CASE StopStream \/ Disconnected
  BY <1>7, TurnsTasks, TurnsDisconnect DEF Disconnected
<1>8. CASE StartStream \/ StreamHealth \/ Connect \/ ParamAgreement \/ SocketCloses
  BY <1>8, TurnsStill
<1>9. ~Stop
  BY DEF Stop, Seal, WorkerStopped, CloseOpenEvents, LeaveSent, CutShort
<1> QED
  BY <1>2, <1>3, <1>4, <1>5, <1>6, <1>7, <1>8, <1>9, TurnsSnapshot DEF Next, Control

\* Until stop begins.
TurnsSafe == stopping = "no" => TurnsInv

\* What the publishers owe the session and the event, as long as no policy is
\* revoked while the other one has something left to publish, and no event has
\* more objects than its leave can name (aiport_candidate.py
\* _publish_pool_candidates, _revoke_pool_policy; aiport_smart_events.py
\* camera_event_payload).
THEOREM TurnsInvariance == Spec /\ RevokedAlone /\ []EventFits => [](PortInv /\ TurnsSafe)
<1>1. Init => TurnsSafe
  BY InitTurns DEF TurnsSafe
<1>2. PortInv /\ TurnsSafe /\ EventFits /\ [Next]_vars /\ [RevokesAlone]_vars => TurnsSafe'
  <2> SUFFICES ASSUME PortInv, TurnsSafe, EventFits, [Next]_vars, [RevokesAlone]_vars,
                      stopping' = "no"
               PROVE  TurnsInv'
    BY DEF TurnsSafe
  <2>1. stopping = "no"
    BY DEF Next, Candidate, Granted, Resume, SnapshotReady, Done, ResultDone, Unavailable,
           Revoked, Installed, Lost, Disconnect, Frames, ObserveFrame, TakeFrame, Result,
           ModelFails, Control, Settings, StopStream, StreamStopped, StartStream, StreamHealth,
           Connect, ParamAgreement, SocketCloses, Disconnected, Stop, Seal, WorkerStopped,
           CloseOpenEvents, LeaveSent, CutShort, vars
  <2> QED
    BY <2>1, NextTurns DEF TurnsSafe
<1> QED
  BY <1>1, <1>2, PortInvariance, PTL DEF Spec, RevokedAlone

\* "A changed policy makes results of older frames stale": until stop begins no
\* event of a replaced policy stays open, where no policy is revoked while the
\* other task has something left to publish, and no event has more objects than
\* its leave can name (aiport_candidate.py _revoke_pool_policy,
\* _handle_pool_smart_settings, _pool_camera_unavailable; aiport_smart_events.py
\* camera_event_payload).
THEOREM StaleResultsSilentAlone ==
  Spec /\ RevokedAlone /\ []EventFits => []StaleResultsSilent
<1>1. PortInv /\ TurnsSafe => StaleResultsSilent
  <2> SUFFICES ASSUME TurnsInv, Quiet, net, event.open, event.stale PROVE FALSE
    BY DEF TurnsSafe, StaleResultsSilent
  <2>1. W = Idle /\ C = Idle
    BY DEF Quiet, W, C, Pubs
  <2>2. W.batch = <<>> /\ C.batch = <<>> /\ W.say = "none" /\ C.say = "none"
    BY <2>1, ControlForms
  <2>3. \A t : ~Departs(W.batch, t) /\ ~Departs(C.batch, t)
    BY <2>2, EmptySeq DEF Departs
  <2> QED
    BY <2>2, <2>3 DEF TurnsInv, HeldInv, OpenInv, StaleInv, Showing
<1> QED
  BY <1>1, TurnsInvariance, PTL
===============================================================================

------------------------- MODULE FairInference_proofs -------------------------
(* The inference pool of any number of cameras: its types, what close may      *)
(* report and the worker may still do wherever close finds the two, and how    *)
(* long a camera's frame can be passed over.                                   *)
EXTENDS FairInference, WellFoundedInduction, TLAPS

-------------------------------------------------------------------------------
\* A thread is the worker's, with the lease as long as it runs; a closed pool's
\* worker never stands before a call; close waits in order.
IInv ==
    /\ thread \in {"none", "running", "ended"}
    /\ closer \in {"none", "thread", "worker", "done"}
    /\ lease => thread = "running"
    /\ thread # "none" => worker.at = "thread"
    /\ closer # "none" => closed
    /\ closed => worker.at # "acquire"
    /\ closer = "worker" => worker.at \in {"cancelled", "none"}
    /\ closer = "done" => worker.at = "none"

LEMMA Initially == Init => IInv
  BY DEF Init, IInv

LEMMA Inductive == IInv /\ [Next]_vars => IInv'
<1> SUFFICES ASSUME IInv, [Next]_vars PROVE IInv'
  OBVIOUS
<1> USE DEF IInv, Go, Stop, queue, turn, model, closing
<1>1. ASSUME NEW c \in Cameras, Observe(c) \/ DiscardPending(c) \/ SkipConfirmation(c)
      PROVE  IInv'
  BY <1>1 DEF Observe, DiscardPending, SkipConfirmation, WorkerNeeded, Available
<1>2. CASE Turn \/ RunEnds
  BY <1>2 DEF Turn, RunEnds
<1>3. CASE Acquire \/ ThreadEnds
  BY <1>3 DEF Acquire, ThreadEnds
<1>4. CASE AcquireFails
  BY <1>4 DEF AcquireFails, Disable, LoadFails
<1>5. CASE Loaded
  BY <1>5 DEF Loaded, LoadFails, GoOn
<1>6. CASE Detected
  BY <1>6 DEF Detected, TurnOver, Disable
<1>7. CASE Delivered
  BY <1>7 DEF Delivered, TurnOver, Disable
<1>8. CASE Notified \/ WorkerCancelled
  BY <1>8 DEF Notified, WorkerCancelled
<1>9. CASE Close
  BY <1>9 DEF Close, ThreadAwaited, SettleWorker
<1>10. CASE CloseThread
  BY <1>10 DEF CloseThread, SettleWorker
<1>11. CASE CloseWorker \/ CloserCancelled
  BY <1>11 DEF CloseWorker, CloserCancelled
<1>12. CASE UNCHANGED vars
  BY <1>12 DEF vars
<1> QED
  BY <1>1, <1>2, <1>3, <1>4, <1>5, <1>6, <1>7, <1>8, <1>9, <1>10, <1>11, <1>12
  DEF Next, Run, Device, Shutdown

THEOREM Invariance == Spec => []IInv
  BY Initially, Inductive, PTL DEF Spec

\* When close returns nothing of the pool runs or holds the lease.
THEOREM CloseMeansIdleHolds == Spec => []CloseMeansIdle
<1>1. IInv => CloseMeansIdle
  BY DEF IInv, CloseMeansIdle
<1> QED
  BY <1>1, Invariance, PTL

\* After close no call starts and no result is handed on.
THEOREM NothingAfterCloseHolds == Spec => NothingAfterClose
<1> DEFINE Late == closed => /\ thread' = "running" => thread = "running"
                             /\ worker'.at \in {"deliver", "deliver0"} => worker'.at = worker.at
<1>1. IInv /\ [Next]_vars => Late
  <2> SUFFICES ASSUME IInv, [Next]_vars, closed PROVE Late
    OBVIOUS
  <2> USE DEF IInv, Go, Stop, model
  <2>1. CASE Acquire \/ AcquireFails \/ ThreadEnds
    BY <2>1 DEF Acquire, AcquireFails, ThreadEnds, Disable, LoadFails
  <2>2. CASE Run
    BY <2>2 DEF Run, Turn, RunEnds, Loaded, Detected, Delivered, Notified, WorkerCancelled,
                GoOn, LoadFails, Disable, TurnOver
  <2>3. CASE Device
    BY <2>3 DEF Device, Observe, Available, DiscardPending, SkipConfirmation
  <2>4. CASE Shutdown
    <3>1. thread' = "running" => thread = "running"
      BY <2>4 DEF Shutdown, Close, CloseThread, CloseWorker, CloserCancelled
    <3>2. ASSUME SettleWorker PROVE worker' = worker \/ worker'.at = "cancelled"
      BY <3>2 DEF SettleWorker
    <3>3. worker' = worker \/ SettleWorker
      BY <2>4, Zenon DEF Shutdown, Close, CloseThread, CloseWorker, CloserCancelled
    <3> QED
      BY <3>1, <3>2, <3>3
  <2>5. CASE UNCHANGED vars
    BY <2>5 DEF vars
  <2> QED
    BY <2>1, <2>2, <2>3, <2>4, <2>5 DEF Next
<1> QED
  BY <1>1, Invariance, PTL DEF NothingAfterClose, Spec

-------------------------------------------------------------------------------
\* A nonempty set of numbers has a least one.
LEMMA Least ==
    ASSUME NEW S \in SUBSET Nat, S # {}
    PROVE  \E k \in S : \A j \in S : k <= j
<1>1. PICK k \in S : \A j \in S : <<j, k>> \notin OpToRel(<, Nat)
  BY WFMin, NatLessThanWellFounded, Zenon
<1>2. \A j \in S : j \in Nat /\ k \in Nat /\ ~(j < k)
  <2> TAKE j \in S
  <2>1. j \in Nat /\ k \in Nat
    OBVIOUS
  <2>2. j < k => <<j, k>> \in OpToRel(<, Nat)
    <3>1. OpToRel(<, Nat) = {p \in Nat \X Nat : p[1] < p[2]}
      BY Zenon DEF OpToRel
    <3> QED
      BY <2>1, <3>1
  <2> QED
    BY <1>1, <2>1, <2>2
<1> QED
  BY <1>2

\* The rotation meets every camera within N steps of the one served last.
LEMMA RotationMeets ==
    ASSUME TypeOK, NEW c \in Cameras
    PROVE  \E k \in 1..N : After(k) = c
<1> USE CamerasAssumption, NoneAssumption DEF Cameras
<1>1. CASE last = None
  BY <1>1 DEF After
<1>2. CASE last # None
  <2>1. last \in 0..(N - 1)
    BY <1>2 DEF TypeOK
  <2>2. CASE c > last
    <3>1. c - last \in 1..N /\ last + (c - last) = c /\ c % N = c
      BY <2>1, <2>2
    <3> QED
      BY <1>2, <3>1 DEF After
  <2>3. CASE c <= last
    <3>1. c - last + N \in 1..N /\ last + (c - last + N) = c + N /\ (c + N) % N = c
      BY <2>1, <2>3
    <3> QED
      BY <1>2, <3>1 DEF After
  <2> QED
    BY <2>1, <2>2, <2>3
<1> QED
  BY <1>1, <1>2

\* Unless it confirms, the next camera is the first in the rotation that waits.
LEMMA NextInRotation ==
    ASSUME TypeOK, Waiting # {}, ~Confirms
    PROVE  \E k \in 1..N : /\ NextCamera = After(k) /\ After(k) \in Waiting
                           /\ \A j \in 1..(k - 1) : After(j) \notin Waiting
<1> USE CamerasAssumption
<1> DEFINE S == {k \in 1..N : After(k) \in Waiting}
           First(i) == After(i) \in Waiting /\ \A j \in 1..(i - 1) : After(j) \notin Waiting
           First0 == CHOOSE i \in 1..N : First(i)
<1>1. S \in SUBSET Nat /\ S # {}
  BY RotationMeets DEF Waiting
<1>2. PICK k \in S : \A j \in S : k <= j
  BY <1>1, Least
<1>3. \E i \in 1..N : First(i)
  BY <1>2
<1>4. First0 \in 1..N /\ First(First0)
  BY <1>3, Zenon
<1>5. NextCamera = After(First0)
  BY DEF NextCamera
<1> QED
  BY <1>4, <1>5

\* The camera whose turn it is has a frame waiting.
LEMMA NextWaits == ASSUME TypeOK, Waiting # {} PROVE NextCamera \in Waiting
<1>1. CASE Confirms
  BY <1>1 DEF NextCamera, Confirms
<1>2. CASE ~Confirms
  BY <1>2, NextInRotation
<1> QED
  BY <1>1, <1>2

\* A worker in the middle of a turn knows whose turn it is.
TypeInv ==
    /\ TypeOK
    /\ worker.at \in {"acquire", "thread", "deliver", "deliver0"} => worker.cam \in Cameras

LEMMA TypeInitially == Init => TypeInv
<1> SUFFICES ASSUME Init PROVE TypeInv
  OBVIOUS
<1>1. FlagsOK
  BY Zenon DEF Init, FlagsOK
<1>2. pending \in [Cameras -> 0..2] /\ attempts \in [Cameras -> Nat] /\ passed \in [Cameras -> Nat]
  BY DEF Init
<1>3. worker \in [at : WorkerAt, cam : Cameras \cup {None}]
  BY DEF Init, WorkerAt
<1>4. worker.at = "none"
  BY DEF Init
<1> QED
  BY <1>1, <1>2, <1>3, <1>4 DEF Init, TypeInv, TypeOK

LEMMA FlagsInductive == ASSUME FlagsOK, [Next]_vars PROVE FlagsOK'
<1> USE DEF FlagsOK, queue, turn, model, closing
<1>1. CASE Run
  BY <1>1, Zenon DEF Run, Turn, RunEnds, Loaded, Detected, Delivered, Notified,
                     WorkerCancelled, LoadFails, TurnOver, Disable
<1>2. CASE Acquire \/ AcquireFails \/ ThreadEnds
  BY <1>2, Zenon DEF Acquire, AcquireFails, ThreadEnds, LoadFails, Disable
<1>3. CASE Device
  BY <1>3, Zenon DEF Device, Observe, DiscardPending, SkipConfirmation
<1>4. CASE Shutdown
  BY <1>4, Zenon DEF Shutdown, Close, CloseThread, CloseWorker, CloserCancelled, SettleWorker
<1>5. CASE UNCHANGED vars
  BY <1>5, Zenon DEF vars
<1> QED
  BY <1>1, <1>2, <1>3, <1>4, <1>5 DEF Next

LEMMA TypeInductive == TypeInv /\ [Next]_vars => TypeInv'
<1> SUFFICES ASSUME TypeInv, [Next]_vars PROVE TypeInv'
  OBVIOUS
<1> USE CamerasAssumption DEF TypeInv, TypeOK, WorkerAt, Go, Stop, queue, turn, model, closing
<1>0. FlagsOK'
  BY FlagsInductive
<1>1. ASSUME NEW c \in Cameras, Observe(c) PROVE TypeInv'
  BY <1>0, <1>1 DEF Observe, WorkerNeeded
<1>2. ASSUME NEW c \in Cameras, DiscardPending(c) \/ SkipConfirmation(c) PROVE TypeInv'
  BY <1>0, <1>2 DEF DiscardPending, SkipConfirmation, Emptied
<1>3. CASE Turn
  <2> DEFINE c == NextCamera
  <2>1. c \in Cameras /\ pending[c] > 0
    BY <1>3, NextWaits DEF Turn, Waiting
  <2>2. /\ pending' = [pending EXCEPT ![c] = @ - 1]
        /\ attempts' \in {attempts, [attempts EXCEPT ![c] = @ + 1]}
        /\ last' = c /\ turns' = TurnsOf(c) /\ confirm' = None
        /\ passed' = [d \in Cameras |-> IF d = c \/ pending[d] = 0 THEN 0 ELSE passed[d] + 1]
        /\ worker' = [at |-> "acquire", cam |-> c]
        /\ UNCHANGED <<policy, disabled, broken, loaded, thread, lease, closed, closer>>
    BY <1>3 DEF Turn
  <2>3. pending' \in [Cameras -> 0..2] /\ attempts' \in [Cameras -> Nat]
    BY <2>1, <2>2
  <2>4. passed' \in [Cameras -> Nat] /\ turns' \in 0..2
    BY <2>1, <2>2 DEF TurnsOf
  <2> QED
    BY <1>0, <2>1, <2>2, <2>3, <2>4
<1>4. CASE RunEnds \/ Acquire \/ ThreadEnds
  BY <1>0, <1>4 DEF RunEnds, Acquire, ThreadEnds
<1>5. CASE AcquireFails
  BY <1>0, <1>5 DEF AcquireFails, Disable, LoadFails, Emptied, EmptiedAll
<1>6. CASE Loaded
  BY <1>0, <1>6 DEF Loaded, GoOn, LoadFails, EmptiedAll
<1>7. CASE Detected
  BY <1>0, <1>7 DEF Detected, TurnOver, Disable, Emptied
<1>8. CASE Delivered
  BY <1>0, <1>8 DEF Delivered, TurnOver, Disable, Emptied
<1>9. CASE Notified \/ WorkerCancelled
  BY <1>0, <1>9 DEF Notified, WorkerCancelled
<1>10. CASE Close
  BY <1>0, <1>10 DEF Close, ThreadAwaited, SettleWorker, EmptiedAll
<1>11. CASE CloseThread \/ CloseWorker \/ CloserCancelled
  BY <1>0, <1>11 DEF CloseThread, CloseWorker, CloserCancelled, SettleWorker
<1>12. CASE UNCHANGED vars
  BY <1>0, <1>12 DEF vars
<1> QED
  BY <1>1, <1>2, <1>3, <1>4, <1>5, <1>6, <1>7, <1>8, <1>9, <1>10, <1>11, <1>12
  DEF Next, Run, Device, Shutdown

\* The pool's state always has its types.
THEOREM TypeCorrect == Spec => []TypeOK
<1>1. TypeInv => TypeOK
  BY DEF TypeInv
<1> QED
  BY <1>1, TypeInitially, TypeInductive, PTL DEF Spec

-------------------------------------------------------------------------------
\* Addition in the rotation.
LEMMA Wraps ==
    ASSUME NEW a \in Cameras, NEW k \in 1..N
    PROVE  (a + k) % N = IF a + k < N THEN a + k ELSE a + k - N
<1> USE CamerasAssumption DEF Cameras
<1>1. CASE a + k < N
  BY <1>1
<1>2. CASE a + k >= N
  <2>1. a + k - N \in 0..(N - 1)
    BY <1>2
  <2>2. ((a + k - N) + N) % N = a + k - N
    BY <2>1
  <2> QED
    BY <1>2, <2>1, <2>2
<1> QED
  BY <1>1, <1>2

\* What a camera has been passed over is bounded by how far the rotation has
\* come: at the distance k from the camera served last it has seen at most two
\* turns of each camera that is not between them.
Behind(c) ==
    \A k \in 1..N : After(k) = c => passed[c] <= 2 * (N - 1 - k) + turns

TurnInv ==
    /\ worker.at \in {"acquire", "thread", "deliver", "deliver0"} => worker.cam = last
    /\ confirm \in {None, last}
    /\ \A c \in Cameras : IF last = None \/ c = last THEN passed[c] = 0 ELSE Behind(c)

\* Only the camera served last is a whole round away.
LEMMA Near ==
    ASSUME TypeOK, last # None, NEW c \in Cameras, c # last, NEW k \in 1..N, After(k) = c
    PROVE  k < N
<1>1. last \in Cameras /\ (last + k) % N = c
  BY DEF TypeOK, After
<1>2. (last + k) % N = IF last + k < N THEN last + k ELSE last + k - N
  BY <1>1, Wraps
<1>3. CASE k = N
  <2>1. last + k >= N /\ last + k - N = last
    BY <1>1, <1>3, CamerasAssumption DEF Cameras
  <2> QED
    BY <1>1, <1>2, <2>1, CamerasAssumption DEF Cameras
<1> QED
  BY <1>3, CamerasAssumption

\* A camera that forgets what passed it stays within its bound, and the bound
\* depends on nothing else that a step other than a turn changes.
LEMMA Forgotten ==
    ASSUME TypeOK, TurnInv, UNCHANGED <<last, turns>>,
           \A c \in Cameras : passed'[c] \in {passed[c], 0}
    PROVE  \A c \in Cameras : IF last' = None \/ c = last' THEN passed'[c] = 0 ELSE Behind(c)'
<1> SUFFICES ASSUME NEW c \in Cameras, ~(last = None \/ c = last), NEW k \in 1..N, After(k) = c
             PROVE  passed'[c] <= 2 * (N - 1 - k) + turns
  BY DEF TurnInv, Behind, After
<1>1. k < N
  BY Near
<1>2. passed[c] <= 2 * (N - 1 - k) + turns
  BY DEF TurnInv, Behind
<1>3. passed'[c] \in {passed[c], 0}
  OBVIOUS
<1> QED
  BY <1>1, <1>2, <1>3, CamerasAssumption DEF TypeOK

\* A turn brings the rotation as much nearer as it may cost.
LEMMA TurnKeeps == ASSUME TypeOK, TurnInv, Turn PROVE TurnInv'
<1> USE CamerasAssumption, NoneAssumption
<1> DEFINE c == NextCamera
<1>1. c \in Cameras /\ c \in Waiting
  BY NextWaits DEF Turn, Waiting
<1>2. /\ last' = c /\ turns' = TurnsOf(c) /\ confirm' = None
      /\ passed' = [d \in Cameras |-> IF d = c \/ pending[d] = 0 THEN 0 ELSE passed[d] + 1]
      /\ worker' = [at |-> "acquire", cam |-> c]
  BY DEF Turn, Go
<1>3. turns \in 0..2 /\ turns' \in 1..2
  BY <1>2 DEF TypeOK, TurnsOf
<1>4. ASSUME NEW d \in Cameras, d # c, NEW k \in 1..N, (c + k) % N = d
      PROVE  passed'[d] <= 2 * (N - 1 - k) + turns'
  <2>1. k < N
    <3>1. (c + k) % N = IF c + k < N THEN c + k ELSE c + k - N
      BY <1>1, <1>4, Wraps
    <3>2. CASE k = N
      <4>1. ~(c + k < N) /\ c + k - N = c
        BY <1>1, <3>2 DEF Cameras
      <4> QED
        BY <1>4, <3>1, <4>1
    <3> HIDE DEF c
    <3> QED
      BY <1>4, <3>2
  <2>2. CASE pending[d] = 0
    BY <1>2, <1>3, <2>1, <2>2
  <2>3. CASE pending[d] # 0 /\ (last = None \/ d = last)
    <3>1. passed'[d] = 1
      BY <1>2, <1>4, <2>3 DEF TurnInv
    <3>2. N - 1 - k \in Nat
      BY <1>4, <2>1
    <3> DEFINE m == N - 1 - k
               t == turns'
    <3> HIDE DEF m, t
    <3>3. m \in Nat /\ t \in 1..2
      BY <1>3, <3>2 DEF m, t
    <3>4. 1 <= 2 * m + t
      BY <3>3
    <3>5. 1 <= 2 * (N - 1 - k) + turns'
      BY <3>4 DEF m, t
    <3> QED
      BY <3>1, <3>5
  <2>4. CASE pending[d] # 0 /\ ~(last = None \/ d = last)
    <3>1. passed'[d] = passed[d] + 1 /\ d \in Waiting /\ passed[d] \in Nat
      BY <1>2, <1>4, <2>4 DEF Waiting, TypeOK
    <3>2. last \in Cameras
      BY <2>4 DEF TypeOK
    <3>3. CASE Confirms
      <4>1. c = last
        BY <3>3 DEF NextCamera, Confirms, TurnInv, Waiting
      <4>2. turns' = turns + 1
        BY <1>2, <1>3, <3>3, <4>1 DEF TurnsOf, Confirms
      <4>3. passed[d] <= 2 * (N - 1 - k) + turns
        BY <1>4, <2>4, <4>1 DEF TurnInv, Behind, After
      <4> QED
        BY <1>3, <3>1, <4>2, <4>3
    <3>4. CASE ~Confirms
      <4>1. PICK i \in 1..N : /\ c = After(i)
                              /\ \A j \in 1..(i - 1) : After(j) \notin Waiting
        BY <1>1, <3>4, NextInRotation
      <4>2. (last + i) % N = c
        BY <2>4, <4>1 DEF After
      <4>3. i + k < N /\ (last + (i + k)) % N = d
        <5>1. c = IF last + i < N THEN last + i ELSE last + i - N
          BY <3>2, <4>2, Wraps
        <5>2. d = IF c + k < N THEN c + k ELSE c + k - N
          BY <1>1, <1>4, Wraps
        <5>3. CASE i + k > N
          <6>1. i + k - N \in 1..(i - 1)
            BY <2>1, <5>3
          <6>2. (last + (i + k - N)) % N = d
            <7>1. (last + (i + k - N)) % N = IF last + (i + k - N) < N THEN last + (i + k - N)
                                             ELSE last + (i + k - N) - N
              BY <3>2, <6>1, Wraps
            <7> QED
              BY <3>2, <5>1, <5>2, <5>3, <7>1 DEF Cameras
          <6>3. After(i + k - N) = d
            BY <2>4, <6>2 DEF After
          <6> QED
            BY <3>1, <4>1, <6>1, <6>3
        <5>4. i + k # N
          BY <2>4, <3>2, <5>1, <5>2 DEF Cameras
        <5>5. i + k < N
          BY <5>3, <5>4
        <5>6. (last + (i + k)) % N = IF last + (i + k) < N THEN last + (i + k)
                                     ELSE last + (i + k) - N
          BY <3>2, <5>5, Wraps
        <5> QED
          BY <3>2, <5>1, <5>2, <5>5, <5>6 DEF Cameras
      <4>4. After(i + k) = d /\ i + k \in 1..N
        BY <2>4, <4>3 DEF After
      <4>5. passed[d] <= 2 * (N - 1 - (i + k)) + turns
        BY <2>4, <4>4 DEF TurnInv, Behind
      <4> QED
        BY <1>3, <3>1, <4>5
    <3> QED
      BY <3>3, <3>4
  <2> QED
    BY <2>2, <2>3, <2>4
<1>5. c # None
  BY <1>1
<1>6. passed'[c] = 0
  BY <1>1, <1>2
<1>7. \A d \in Cameras : d # c => Behind(d)'
  BY <1>2, <1>4, <1>5 DEF Behind, After
<1> QED
  BY <1>2, <1>5, <1>6, <1>7 DEF TurnInv

LEMMA TurnInductive == TypeInv /\ TurnInv /\ [Next]_vars => TurnInv'
<1> SUFFICES ASSUME TypeInv, TurnInv, [Next]_vars PROVE TurnInv'
  OBVIOUS
<1>1. TypeOK
  BY DEF TypeInv
<1>2. CASE Turn
  BY <1>1, <1>2, TurnKeeps
<1> DEFINE Quietly == /\ UNCHANGED <<last, turns>>
                      /\ \A c \in Cameras : passed'[c] \in {passed[c], 0}
<1>3. ASSUME Quietly, confirm' \in {confirm, None, last},
             \/ worker'.at \notin {"acquire", "thread", "deliver", "deliver0"}
             \/ worker'.cam = worker.cam
                /\ worker.at \in {"acquire", "thread", "deliver", "deliver0"}
      PROVE  TurnInv'
  BY <1>1, <1>3, Forgotten DEF TurnInv
<1> USE DEF queue, turn, model, closing, Go, Stop, Emptied, EmptiedAll
<1>4. ASSUME NEW c \in Cameras, Observe(c) PROVE TurnInv'
  BY <1>1, <1>4, <1>3 DEF Observe, WorkerNeeded, TypeOK
<1>5. ASSUME NEW c \in Cameras, DiscardPending(c) \/ SkipConfirmation(c) PROVE TurnInv'
  BY <1>1, <1>5, <1>3 DEF DiscardPending, SkipConfirmation, TypeOK
<1>6. CASE RunEnds \/ Acquire \/ ThreadEnds
  BY <1>1, <1>6, <1>3 DEF RunEnds, Acquire, ThreadEnds, TypeOK
<1>7. CASE AcquireFails
  BY <1>1, <1>7, <1>3 DEF AcquireFails, Disable, LoadFails, TypeOK
<1>8. CASE Loaded
  BY <1>1, <1>8, <1>3 DEF Loaded, LoadFails, TypeOK
<1>9. CASE Detected
  BY <1>1, <1>9, <1>3 DEF Detected, TurnOver, Disable, TypeOK
<1>10. CASE Delivered
  BY <1>1, <1>10, <1>3 DEF Delivered, TurnOver, Disable, TypeOK, TurnInv
<1>11. CASE Notified \/ WorkerCancelled
  BY <1>1, <1>11, <1>3 DEF Notified, WorkerCancelled, TypeOK
<1>12. CASE Close
  BY <1>1, <1>12, <1>3 DEF Close, SettleWorker, TypeOK
<1>13. CASE CloseThread \/ CloseWorker \/ CloserCancelled
  BY <1>1, <1>13, <1>3 DEF CloseThread, CloseWorker, CloserCancelled, SettleWorker, TypeOK
<1>14. CASE UNCHANGED vars
  BY <1>1, <1>14, <1>3 DEF vars
<1> QED
  BY <1>2, <1>4, <1>5, <1>6, <1>7, <1>8, <1>9, <1>10, <1>11, <1>12, <1>13, <1>14
  DEF Next, Run, Device, Shutdown

\* No camera monopolizes the worker, however many there are.
THEOREM TurnBoundHolds == Spec => []TurnBound
<1>1. Init => TurnInv
  BY DEF Init, TurnInv
<1>2. TypeInv /\ TurnInv => TurnBound
  <2> SUFFICES ASSUME TypeInv, TurnInv, NEW c \in Cameras PROVE passed[c] <= 2 * (N - 1)
    BY DEF TurnBound
  <2>1. TypeOK /\ turns \in 0..2 /\ N \in Nat \ {0}
    BY CamerasAssumption DEF TypeInv, TypeOK
  <2>2. CASE last = None \/ c = last
    BY <2>1, <2>2 DEF TurnInv
  <2>3. CASE ~(last = None \/ c = last)
    <3>1. PICK k \in 1..N : After(k) = c
      BY <2>1, RotationMeets
    <3>2. passed[c] <= 2 * (N - 1 - k) + turns /\ passed[c] \in Nat
      BY <2>1, <2>3, <3>1 DEF TurnInv, Behind, TypeOK
    <3> QED
      BY <2>1, <3>1, <3>2
  <2> QED
    BY <2>2, <2>3
<1> QED
  BY <1>1, <1>2, TypeInitially, TypeInductive, TurnInductive, PTL DEF Spec
===============================================================================

-------------------------- MODULE PriorityGate_proofs --------------------------
(* The gate, for any tasks, priorities and capacity: no slot is lost or idle,  *)
(* and whoever gets one was next in the order.                                 *)
EXTENDS PriorityGate, FiniteSetTheorems, WellFoundedInduction, TLAPS

-------------------------------------------------------------------------------
\* Live entries are those of queued tasks, at their own level, one for a task.
LiveQueued ==
    \A p \in Levels : \A i \in LiveAt(p) :
        /\ state[waiting[p][i].task] = "queued"
        /\ Prio[waiting[p][i].task] = p

LiveOnce ==
    \A p \in Levels : \A i, k \in LiveAt(p) :
        waiting[p][i].task = waiting[p][k].task => i = k

IInv ==
    /\ TypeOK
    /\ active = Cardinality(Owning)
    /\ LiveQueued
    /\ LiveOnce
    /\ NoIdleSlot

-------------------------------------------------------------------------------
LEMMA LevelsNat == Levels \subseteq Nat
  BY PrioAssumption DEF Levels

\* A nonempty set of numbers has its least one.
LEMMA LeastOf ==
  ASSUME NEW S \in SUBSET Nat, S # {}
  PROVE  Least(S) \in S /\ \A y \in S : Least(S) <= y
<1>1. PICK x \in S : \A y \in S : <<y, x>> \notin OpToRel(<, Nat)
  BY WFMin, NatLessThanWellFounded, Zenon
<1>2. \A y \in S : y \in Nat /\ x \in Nat /\ ~(y < x)
  <2> TAKE y \in S
  <2>1. x \in Nat /\ y \in Nat
    OBVIOUS
  <2>2. y < x => <<y, x>> \in OpToRel(<, Nat)
    <3>1. OpToRel(<, Nat) = {p \in Nat \X Nat : p[1] < p[2]}
      BY Zenon DEF OpToRel
    <3> QED
      BY <2>1, <3>1
  <2> QED
    BY <1>1, <2>1, <2>2
<1>3. \A y \in S : x <= y
  BY <1>2
<1> QED
  BY <1>3 DEF Least

LEMMA Dropped ==
  ASSUME NEW s \in Seq(Entries), NEW n \in 1..Len(s)
  PROVE  /\ Drop(s, n) \in Seq(Entries)
         /\ Len(Drop(s, n)) = Len(s) - n
         /\ \A i \in 1..Len(Drop(s, n)) : Drop(s, n)[i] = s[n + i]
  BY DEF Drop

\* What a live entry says, and what is left of one that is cut off.
LEMMA LiveEntry ==
  ASSUME IInv, NEW p \in Levels, NEW i \in LiveAt(p)
  PROVE  /\ waiting[p] \in Seq(Entries)
         /\ i \in 1..Len(waiting[p])
         /\ waiting[p][i] \in Entries
         /\ waiting[p][i].task \in Tasks
         /\ state[waiting[p][i].task] = "queued"
         /\ Prio[waiting[p][i].task] = p
<1>1. waiting[p] \in Seq(Entries)
  BY DEF IInv, TypeOK
<1>2. i \in 1..Len(waiting[p])
  BY DEF LiveAt
<1>3. waiting[p][i] \in Entries
  BY <1>1, <1>2
<1>4. waiting[p][i].task \in Tasks
  BY <1>3 DEF Entries
<1>5. state[waiting[p][i].task] = "queued" /\ Prio[waiting[p][i].task] = p
  BY DEF IInv, LiveQueued
<1> QED
  BY <1>1, <1>2, <1>3, <1>4, <1>5

LEMMA DeadEntry ==
  ASSUME NEW e \in Entries
  PROVE  /\ [e EXCEPT !.live = FALSE] \in Entries
         /\ ~[e EXCEPT !.live = FALSE].live
  BY DEF Entries

LEMMA OwningFinite == IsFiniteSet(Owning)
  BY TasksAssumption, FS_Subset DEF Owning

\* Whom release serves, and what is left of the queues.
LEMMA Served ==
  ASSUME IInv, LiveLevels # {}
  PROVE  /\ ServedLevel \in LiveLevels
         /\ \A p \in LiveLevels : ServedLevel <= p
         /\ ServedIndex(ServedLevel) \in LiveAt(ServedLevel)
         /\ \A k \in LiveAt(ServedLevel) : ServedIndex(ServedLevel) <= k
<1>1. LiveLevels \in SUBSET Nat
  BY LevelsNat DEF LiveLevels
<1>2. ServedLevel \in LiveLevels /\ \A p \in LiveLevels : ServedLevel <= p
  BY <1>1, LeastOf DEF ServedLevel
<1>3. LiveAt(ServedLevel) \in SUBSET Nat /\ LiveAt(ServedLevel) # {}
  BY <1>2 DEF LiveLevels, LiveAt
<1> QED
  BY <1>2, <1>3, LeastOf DEF ServedIndex

-------------------------------------------------------------------------------
\* Steps that leave the set of owners alone keep the count.
LEMMA SameOwners ==
  ASSUME IInv, Owning' = Owning, active' = active
  PROVE  active' = Cardinality(Owning')
  BY DEF IInv

\* What release does for one who owned a slot and now is away.
LEMMA Released ==
  ASSUME IInv, NEW t \in Tasks, state[t] \in {"dropped", "holding"},
         Release([state EXCEPT ![t] = "away"])
  PROVE  IInv'
<1> DEFINE after == [state EXCEPT ![t] = "away"]
<1>1. /\ IsFiniteSet(Owning) /\ t \in Owning
      /\ active \in Nat /\ CAPACITY \in Nat
  BY OwningFinite, CapacityAssumption DEF Owning, IInv, TypeOK
<1>2. IsFiniteSet(Owning \ {t}) /\ Cardinality(Owning \ {t}) = active - 1
  BY <1>1, FS_RemoveElement DEF IInv
<1>3. CASE ReleaseToNobody(after)
  <2>1. /\ waiting' = [p \in Levels |-> <<>>]
        /\ active' = active - 1
        /\ state' = after
    BY <1>3 DEF ReleaseToNobody
  <2>2. Owning' = Owning \ {t}
    BY <2>1 DEF Owning, IInv, TypeOK
  <2>3. \A p \in Levels : LiveAt(p)' = {}
    BY <2>1 DEF LiveAt
  <2>4. active' \in 0..CAPACITY /\ active' = Cardinality(Owning')
    <3>1. active - 1 \in Nat
      BY <1>2, FS_CardinalityType
    <3> QED
      BY <1>1, <1>2, <2>1, <2>2, <3>1 DEF IInv, TypeOK
  <2>5. state' \in [Tasks -> States] /\ waiting' \in [Levels -> Seq(Entries)]
    BY <2>1 DEF IInv, TypeOK, States
  <2>6. LiveLevels' = {}
    BY <2>3 DEF LiveLevels
  <2> QED
    BY <2>3, <2>4, <2>5, <2>6 DEF IInv, TypeOK, LiveQueued, LiveOnce, NoIdleSlot
<1>4. CASE ReleaseToWaiter(after)
  <2> DEFINE p == ServedLevel
             i == ServedIndex(p)
             w == waiting[p][i].task
  <2>1. /\ LiveLevels # {}
        /\ state' = [after EXCEPT ![w] = "granted"]
        /\ waiting' = [q \in Levels |-> IF q < p THEN <<>>
                                        ELSE IF q = p THEN Drop(waiting[q], i)
                                        ELSE waiting[q]]
        /\ active' = active
    BY <1>4 DEF ReleaseToWaiter
  <2>2. /\ p \in Levels /\ i \in LiveAt(p)
        /\ \A q \in LiveLevels : p <= q
    BY <2>1, Served DEF LiveLevels
  <2>3. /\ waiting[p] \in Seq(Entries) /\ i \in 1..Len(waiting[p])
        /\ w \in Tasks /\ state[w] = "queued" /\ Prio[w] = p
    BY <2>2, LiveEntry
  <2>4. w # t
    BY <2>3
  <2>5. \A u \in Tasks : state'[u] = IF u = w THEN "granted"
                                     ELSE IF u = t THEN "away" ELSE state[u]
    BY <2>1, <2>3 DEF IInv, TypeOK
  <2>6. Owning' = (Owning \ {t}) \cup {w}
    BY <2>3, <2>4, <2>5 DEF Owning
  <2>7. active' = Cardinality(Owning')
    <3>1. w \notin Owning \ {t}
      BY <2>3 DEF Owning
    <3>2. Cardinality((Owning \ {t}) \cup {w}) = active - 1 + 1
      BY <1>2, <3>1, FS_AddElement
    <3> QED
      BY <1>1, <2>1, <2>6, <3>2
  <2>8. /\ Drop(waiting[p], i) \in Seq(Entries)
        /\ Len(Drop(waiting[p], i)) = Len(waiting[p]) - i
        /\ \A k \in 1..Len(Drop(waiting[p], i)) :
              Drop(waiting[p], i)[k] = waiting[p][i + k]
    BY <2>3, Dropped
  <2>9. TypeOK'
    <3>1. waiting' \in [Levels -> Seq(Entries)]
      BY <2>1, <2>8 DEF IInv, TypeOK
    <3>2. state' \in [Tasks -> States]
      BY <2>1, <2>3 DEF IInv, TypeOK, States
    <3> QED
      BY <2>1, <3>1, <3>2 DEF IInv, TypeOK
  \* A live entry that is left was one before, further back at p, of another task.
  <2>10. ASSUME NEW q \in Levels, NEW k \in LiveAt(q)'
         PROVE  LET was == IF q = p THEN i + k ELSE k
                IN  /\ was \in LiveAt(q) /\ waiting'[q][k] = waiting[q][was]
                    /\ waiting[q][was].task # w
    <3>1. CASE q = p
      <4>1. i + k \in LiveAt(p) /\ waiting'[p][k] = waiting[p][i + k] /\ i + k # i
        BY <2>1, <2>2, <2>3, <2>8, <2>10, <3>1 DEF LiveAt
      <4> QED
        BY <2>2, <3>1, <4>1 DEF IInv, LiveOnce
    <3>2. CASE q # p
      <4>1. waiting'[q] = waiting[q] /\ k \in LiveAt(q)
        <5>1. waiting'[q] \in {<<>>, waiting[q]}
          BY <2>1, <3>2
        <5>2. waiting'[q] # <<>>
          BY <2>10 DEF LiveAt
        <5> QED
          BY <2>10, <5>1, <5>2 DEF LiveAt
      <4> QED
        BY <2>3, <3>2, <4>1 DEF IInv, LiveQueued
    <3> QED
      BY <3>1, <3>2
  <2>11. LiveQueued'
    <3> SUFFICES ASSUME NEW q \in Levels, NEW k \in LiveAt(q)'
                 PROVE  /\ state'[waiting'[q][k].task] = "queued"
                        /\ Prio[waiting'[q][k].task] = q
      BY DEF LiveQueued
    <3> DEFINE was == IF q = p THEN i + k ELSE k
               u == waiting[q][was].task
    <3>1. was \in LiveAt(q) /\ waiting'[q][k] = waiting[q][was] /\ u # w
      BY <2>10
    <3>2. u \in Tasks /\ state[u] = "queued" /\ Prio[u] = q
      BY <3>1, LiveEntry
    <3> QED
      BY <2>5, <3>1, <3>2
  <2>12. LiveOnce'
    <3> SUFFICES ASSUME NEW q \in Levels, NEW k \in LiveAt(q)', NEW l \in LiveAt(q)',
                        waiting'[q][k].task = waiting'[q][l].task
                 PROVE  k = l
      BY DEF LiveOnce
    <3> DEFINE was(x) == IF q = p THEN i + x ELSE x
    <3>1. was(k) \in LiveAt(q) /\ was(l) \in LiveAt(q)
          /\ waiting[q][was(k)].task = waiting[q][was(l)].task
      BY <2>10
    <3>2. was(k) = was(l)
      BY <3>1 DEF IInv, LiveOnce
    <3> QED
      BY <2>3, <3>2 DEF LiveAt
  <2>13. NoIdleSlot'
    BY <2>1 DEF IInv, NoIdleSlot
  <2> QED
    BY <2>7, <2>9, <2>11, <2>12, <2>13 DEF IInv
<1> QED
  BY <1>3, <1>4 DEF Release

-------------------------------------------------------------------------------
LEMMA Initially == Init => IInv
<1> SUFFICES ASSUME Init PROVE IInv
  OBVIOUS
<1>1. TypeOK
  BY CapacityAssumption DEF Init, TypeOK, States
<1>2. Owning = {} /\ \A p \in Levels : LiveAt(p) = {}
  BY DEF Init, Owning, LiveAt
<1>3. active = Cardinality(Owning)
  BY <1>2, FS_EmptySet DEF Init
<1> QED
  BY <1>1, <1>2, <1>3 DEF IInv, LiveQueued, LiveOnce, NoIdleSlot, LiveLevels

LEMMA Inductive == IInv /\ [Next]_vars => IInv'
<1> SUFFICES ASSUME IInv, [Next]_vars PROVE IInv'
  OBVIOUS
<1>1. ASSUME NEW t \in Tasks, AcquireFree(t) PROVE IInv'
  <2>1. /\ state[t] = "away" /\ active < CAPACITY /\ LiveLevels = {}
        /\ active' = active + 1
        /\ state' = [state EXCEPT ![t] = "holding"]
        /\ waiting' = waiting
    BY <1>1 DEF AcquireFree
  <2>2. TypeOK'
    BY <2>1, CapacityAssumption DEF IInv, TypeOK, States
  <2>3. \A p \in Levels : LiveAt(p) = {} /\ LiveAt(p)' = {}
    BY <2>1 DEF LiveLevels, LiveAt
  <2>4. active' = Cardinality(Owning')
    <3>1. Owning' = Owning \cup {t} /\ t \notin Owning
      BY <2>1 DEF Owning, IInv, TypeOK
    <3> QED
      BY <2>1, <3>1, OwningFinite, FS_AddElement DEF IInv
  <2> QED
    BY <2>2, <2>3, <2>4 DEF IInv, LiveQueued, LiveOnce, NoIdleSlot, LiveLevels
<1>2. ASSUME NEW t \in Tasks, AcquireQueue(t) PROVE IInv'
  <2> DEFINE e == [task |-> t, live |-> TRUE]
             n == Len(waiting[Prio[t]]) + 1
  <2>1. /\ state[t] = "away"
        /\ active >= CAPACITY \/ LiveLevels # {}
        /\ active' = active
        /\ state' = [state EXCEPT ![t] = "queued"]
        /\ waiting' = [waiting EXCEPT ![Prio[t]] = Append(@, e)]
    BY <1>2 DEF AcquireQueue
  <2>2. Prio[t] \in Levels /\ e \in Entries /\ waiting[Prio[t]] \in Seq(Entries)
    BY DEF Levels, Entries, IInv, TypeOK
  <2>3. TypeOK'
    BY <2>1, <2>2 DEF IInv, TypeOK, States
  <2>4. ASSUME NEW p \in Levels, NEW i \in LiveAt(p)'
        PROVE  \/ i \in LiveAt(p) /\ waiting'[p][i] = waiting[p][i] /\ waiting[p][i].task # t
               \/ p = Prio[t] /\ i = n /\ waiting'[p][i] = e
    <3>1. waiting[p] \in Seq(Entries)
      BY DEF IInv, TypeOK
    <3>2. \/ i \in LiveAt(p) /\ waiting'[p][i] = waiting[p][i]
          \/ p = Prio[t] /\ i = n /\ waiting'[p][i] = e
      <4>1. CASE p # Prio[t]
        <5>1. waiting'[p] = waiting[p]
          BY <2>1, <4>1 DEF IInv, TypeOK
        <5> QED
          BY <2>4, <5>1 DEF LiveAt
      <4>2. CASE p = Prio[t]
        <5>1. waiting'[p] = Append(waiting[p], e)
          BY <2>1, <4>2 DEF IInv, TypeOK
        <5>2. /\ Len(waiting'[p]) = n /\ waiting'[p][n] = e
              /\ \A k \in 1..Len(waiting[p]) : waiting'[p][k] = waiting[p][k]
          BY <2>2, <3>1, <4>2, <5>1
        <5>3. i \in 1..n /\ waiting'[p][i].live
          BY <2>4, <5>2 DEF LiveAt
        <5>4. i = n \/ i \in 1..Len(waiting[p])
          BY <3>1, <4>2, <5>3
        <5> QED
          BY <4>2, <5>2, <5>3, <5>4 DEF LiveAt
      <4> QED
        BY <4>1, <4>2
    <3> QED
      BY <2>1, <3>2 DEF IInv, LiveQueued
  <2>5. LiveQueued'
    <3> SUFFICES ASSUME NEW p \in Levels, NEW i \in LiveAt(p)'
                 PROVE  /\ state'[waiting'[p][i].task] = "queued"
                        /\ Prio[waiting'[p][i].task] = p
      BY DEF LiveQueued
    <3>1. CASE i \in LiveAt(p) /\ waiting'[p][i] = waiting[p][i] /\ waiting[p][i].task # t
      <4>1. waiting[p][i].task \in Tasks /\ state[waiting[p][i].task] = "queued"
            /\ Prio[waiting[p][i].task] = p
        BY <3>1, LiveEntry
      <4> QED
        BY <2>1, <3>1, <4>1 DEF IInv, TypeOK
    <3>2. CASE p = Prio[t] /\ i = n /\ waiting'[p][i] = e
      BY <2>1, <3>2 DEF IInv, TypeOK
    <3> QED
      BY <2>4, <3>1, <3>2
  <2>6. LiveOnce'
    <3> SUFFICES ASSUME NEW p \in Levels, NEW i \in LiveAt(p)', NEW k \in LiveAt(p)',
                        waiting'[p][i].task = waiting'[p][k].task
                 PROVE  i = k
      BY DEF LiveOnce
    <3>1. e.task = t
      OBVIOUS
    <3> QED
      BY <2>4, <3>1 DEF IInv, LiveOnce
  <2>7. active' = Cardinality(Owning') /\ NoIdleSlot'
    <3>1. Owning' = Owning
      BY <2>1 DEF Owning, IInv, TypeOK
    <3>2. active = CAPACITY
      BY <2>1, CapacityAssumption DEF IInv, TypeOK, NoIdleSlot
    <3> QED
      BY <2>1, <3>1, <3>2 DEF IInv, NoIdleSlot
  <2> QED
    BY <2>3, <2>5, <2>6, <2>7 DEF IInv
<1>3. ASSUME NEW t \in Tasks, CancelQueued(t) PROVE IInv'
  <2> DEFINE cut(s) == [i \in DOMAIN s |-> IF s[i].task = t
                           THEN [s[i] EXCEPT !.live = FALSE] ELSE s[i]]
  <2>1. /\ state[t] = "queued" /\ active' = active
        /\ state' = [state EXCEPT ![t] = "cancelled"]
        /\ waiting' = [waiting EXCEPT ![Prio[t]] = cut(waiting[Prio[t]])]
    BY <1>3 DEF CancelQueued
  <2>2. ASSUME NEW p \in Levels
        PROVE  /\ waiting'[p] \in Seq(Entries) /\ Len(waiting'[p]) = Len(waiting[p])
               /\ \A i \in LiveAt(p)' : /\ i \in LiveAt(p)
                                        /\ waiting'[p][i] = waiting[p][i]
                                        /\ waiting[p][i].task # t
    <3>1. waiting[p] \in Seq(Entries)
      BY DEF IInv, TypeOK
    <3>2. CASE p = Prio[t]
      <4>1. waiting'[p] = cut(waiting[p])
        BY <2>1, <3>2 DEF IInv, TypeOK
      <4>2. DOMAIN waiting[p] = 1..Len(waiting[p])
        BY <3>1
      <4>3. \A i \in 1..Len(waiting[p]) :
               /\ waiting[p][i] \in Entries
               /\ [waiting[p][i] EXCEPT !.live = FALSE] \in Entries
               /\ ~[waiting[p][i] EXCEPT !.live = FALSE].live
        BY <3>1, DeadEntry
      <4>4. cut(waiting[p]) \in [1..Len(waiting[p]) -> Entries]
        BY <4>2, <4>3
      <4>5. waiting'[p] \in Seq(Entries) /\ Len(waiting'[p]) = Len(waiting[p])
        <5>1. \A m \in Nat : \A f \in [1..m -> Entries] : f \in Seq(Entries) /\ Len(f) = m
          OBVIOUS
        <5>2. Len(waiting[p]) \in Nat
          BY <3>1
        <5> HIDE DEF cut
        <5> QED
          BY <4>1, <4>4, <5>1, <5>2
      <4> QED
        BY <4>1, <4>2, <4>3, <4>5 DEF LiveAt
    <3>3. CASE p # Prio[t]
      <4>1. waiting'[p] = waiting[p]
        BY <2>1, <3>3 DEF IInv, TypeOK
      <4> QED
        BY <3>1, <3>3, <4>1 DEF LiveAt, IInv, LiveQueued
    <3> QED
      BY <3>2, <3>3
  <2>3. TypeOK'
    <3>1. waiting' \in [Levels -> Seq(Entries)]
      BY <2>1, <2>2 DEF IInv, TypeOK
    <3> QED
      BY <2>1, <3>1 DEF IInv, TypeOK, States
  <2>4. LiveQueued'
    <3> SUFFICES ASSUME NEW p \in Levels, NEW i \in LiveAt(p)'
                 PROVE  /\ state'[waiting'[p][i].task] = "queued"
                        /\ Prio[waiting'[p][i].task] = p
      BY DEF LiveQueued
    <3>1. /\ waiting'[p][i] = waiting[p][i] /\ waiting[p][i].task # t
          /\ waiting[p][i].task \in Tasks
          /\ state[waiting[p][i].task] = "queued" /\ Prio[waiting[p][i].task] = p
      BY <2>2, LiveEntry
    <3> QED
      BY <2>1, <3>1 DEF IInv, TypeOK
  <2>5. LiveOnce'
    BY <2>2 DEF IInv, LiveOnce
  <2>6. active' = Cardinality(Owning')
    <3>1. Owning' = Owning
      BY <2>1 DEF Owning, IInv, TypeOK
    <3> QED
      BY <2>1, <3>1 DEF IInv
  <2>7. NoIdleSlot'
    BY <2>1, <2>2 DEF IInv, NoIdleSlot, LiveLevels
  <2> QED
    BY <2>3, <2>4, <2>5, <2>6, <2>7 DEF IInv
\* A step of a task that has no live entry, and that keeps or lacks a slot.
<1>4. ASSUME NEW t \in Tasks, NEW s \in States, s # "queued", state[t] # "queued",
             state' = [state EXCEPT ![t] = s], UNCHANGED <<active, waiting>>,
             s \in {"granted", "dropped", "holding"}
                <=> state[t] \in {"granted", "dropped", "holding"}
      PROVE  IInv'
  <2>1. TypeOK'
    BY <1>4 DEF IInv, TypeOK
  <2>2. Owning' = Owning
    BY <1>4 DEF Owning, IInv, TypeOK
  <2>3. \A p \in Levels : LiveAt(p)' = LiveAt(p)
    BY <1>4 DEF LiveAt
  <2>4. LiveQueued'
    <3> SUFFICES ASSUME NEW p \in Levels, NEW i \in LiveAt(p)
                 PROVE  /\ state'[waiting[p][i].task] = "queued"
                        /\ Prio[waiting[p][i].task] = p
      BY <1>4, <2>3 DEF LiveQueued
    <3>1. waiting[p][i].task \in Tasks /\ state[waiting[p][i].task] = "queued"
          /\ Prio[waiting[p][i].task] = p
      BY LiveEntry
    <3> QED
      BY <1>4, <3>1 DEF IInv, TypeOK
  <2>5. LiveOnce' /\ NoIdleSlot'
    BY <1>4, <2>3 DEF IInv, LiveOnce, NoIdleSlot, LiveLevels
  <2> QED
    BY <1>4, <2>1, <2>2, <2>4, <2>5 DEF IInv
<1>5. ASSUME NEW t \in Tasks, CancelGranted(t) \/ ResumeGranted(t) \/ ResumeCancelled(t)
      PROVE  IInv'
  BY <1>4, <1>5 DEF CancelGranted, ResumeGranted, ResumeCancelled, States
<1>6. ASSUME NEW t \in Tasks, ResumeDropped(t) \/ FinishRequest(t) PROVE IInv'
  BY <1>6, Released DEF ResumeDropped, FinishRequest
<1>7. CASE UNCHANGED vars
  BY <1>7 DEF vars, IInv, TypeOK, Owning, LiveQueued, LiveOnce, NoIdleSlot, LiveAt, LiveLevels
<1> QED
  BY <1>1, <1>2, <1>3, <1>5, <1>6, <1>7 DEF Next, Resume

-------------------------------------------------------------------------------
THEOREM Invariance == Spec => []IInv
  BY Initially, Inductive, PTL DEF Spec

\* The gate's state is well typed, whatever is cancelled when.
THEOREM TypeCorrect == Spec => []TypeOK
<1>1. IInv => TypeOK
  BY DEF IInv
<1> QED
  BY <1>1, Invariance, PTL

\* No slot is lost and none is given twice: `active` counts the tasks that hold
\* one, were passed one, or still have to give one back.
THEOREM SlotsAccountedHolds == Spec => []SlotsAccounted
<1>1. IInv => SlotsAccounted
  BY DEF IInv, SlotsAccounted, TypeOK
<1> QED
  BY <1>1, Invariance, PTL

\* No slot is free while somebody waits for one.
THEOREM NoIdleSlotHolds == Spec => []NoIdleSlot
<1>1. IInv => NoIdleSlot
  BY DEF IInv
<1> QED
  BY <1>1, Invariance, PTL

\* Who is served by a release is the waiter that was next.
LEMMA ReleaseInOrder ==
  ASSUME IInv, NEW r \in Tasks, Release([state EXCEPT ![r] = "away"]),
         NEW t \in Owning' \ Owning
  PROVE  ServedNext(t)
<1> DEFINE p == ServedLevel
           i == ServedIndex(p)
           w == waiting[p][i].task
<1>1. t \in Tasks /\ state'[t] \in {"granted", "dropped", "holding"}
      /\ state[t] \notin {"granted", "dropped", "holding"}
  BY DEF Owning
<1>2. ~ReleaseToNobody([state EXCEPT ![r] = "away"])
  BY <1>1 DEF ReleaseToNobody, IInv, TypeOK
<1>3. /\ LiveLevels # {}
      /\ state' = [[state EXCEPT ![r] = "away"] EXCEPT ![w] = "granted"]
      /\ waiting' = [q \in Levels |-> IF q < p THEN <<>>
                                      ELSE IF q = p THEN Drop(waiting[q], i)
                                      ELSE waiting[q]]
  BY <1>2 DEF Release, ReleaseToWaiter
<1>4. t = w
  BY <1>1, <1>3 DEF IInv, TypeOK
<1>5. /\ p \in LiveLevels /\ p \in Levels /\ i \in LiveAt(p)
      /\ \A q \in LiveLevels : p <= q
      /\ \A k \in LiveAt(p) : i <= k
  BY <1>3, Served DEF LiveLevels
<1>6. Prio[t] = p
  BY <1>4, <1>5, LiveEntry
<1>7. \A q \in LiveLevels' : q >= p
  <2> SUFFICES ASSUME NEW q \in LiveLevels', q < p PROVE FALSE
    BY <1>5, LevelsNat DEF LiveLevels
  <2>1. q \in Levels /\ waiting'[q] = <<>>
    BY <1>3 DEF LiveLevels
  <2> QED
    BY <2>1 DEF LiveLevels, LiveAt
<1>8. \A j, k \in LiveAt(p) : waiting[p][j].task = t => j <= k
  BY <1>4, <1>5 DEF IInv, LiveOnce
<1> QED
  BY <1>6, <1>7, <1>8 DEF ServedNext

\* Lower priority numbers first, first come first served within one, whoever is
\* cancelled where.
THEOREM ServedInOrderHolds == Spec => ServedInOrder
<1>1. IInv /\ [Next]_vars => [\A t \in Owning' \ Owning : ServedNext(t)]_vars
  <2> SUFFICES ASSUME IInv, Next, NEW t \in Owning' \ Owning PROVE ServedNext(t)
    OBVIOUS
  <2>1. t \in Tasks /\ state'[t] \in {"granted", "dropped", "holding"}
        /\ state[t] \notin {"granted", "dropped", "holding"}
    BY DEF Owning
  <2>2. PICK u \in Tasks : AcquireFree(u) \/ AcquireQueue(u) \/ CancelQueued(u)
                             \/ CancelGranted(u) \/ Resume(u) \/ FinishRequest(u)
    BY DEF Next
  <2>3. CASE AcquireFree(u)
    <3>1. LiveLevels = {} /\ waiting' = waiting
      BY <2>3 DEF AcquireFree
    <3>2. Prio[t] \in Levels
      BY <2>1 DEF Levels
    <3> QED
      BY <3>1, <3>2 DEF ServedNext, LiveLevels, LiveAt
  <2>4. CASE AcquireQueue(u) \/ CancelQueued(u) \/ CancelGranted(u)
                \/ ResumeGranted(u) \/ ResumeCancelled(u)
    BY <2>1, <2>4
    DEF AcquireQueue, CancelQueued, CancelGranted, ResumeGranted, ResumeCancelled,
        IInv, TypeOK
  <2>5. CASE ResumeDropped(u) \/ FinishRequest(u)
    BY <2>5, ReleaseInOrder DEF ResumeDropped, FinishRequest
  <2> QED
    BY <2>2, <2>3, <2>4, <2>5 DEF Resume
<1> QED
  BY <1>1, Invariance, PTL DEF Spec, ServedInOrder
===============================================================================

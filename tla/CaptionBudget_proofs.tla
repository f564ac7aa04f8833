------------------------- MODULE CaptionBudget_proofs -------------------------
(* The caption journal implements CaptionPermits, its rolling limit and replay *)
(* window hold, it stays readable and below its bound, and the held permits    *)
(* stay free, for every number of processes, jobs and cameras.                 *)
EXTENDS CaptionBudget, TLAPS, FiniteSetTheorems, WellFoundedInduction

-------------------------------------------------------------------------------
\* A process has a write planned exactly while it holds the lock.
LockInv == \A p \in Procs : p \in writing <=> holder = p

\* The journal is the end of the history: whatever the next call may still need
\* to count is in the file, and nothing in it was never charged.
JournalInv ==
    /\ IsFiniteSet(charged)
    /\ file.reservations \subseteq charged
    /\ \A r \in charged : r.at <= file.high_water
    /\ \A r \in charged : file.high_water - r.at < RETENTION => r \in file.reservations

\* A charge of the pending write is one the whole history permits.
Permitted(s, c) ==
    \E j \in Jobs, m \in Cameras :
        /\ c = {[job |-> j, cam |-> m, at |-> s.high_water]}
        /\ Cardinality(Permits!Window(charged, s.high_water, HOUR)) < LIMIT
        /\ \A r \in Permits!Window(charged, s.high_water, RETENTION) : r.job # j

\* The state a process is about to write follows the file it read.
Follows(s, c) ==
    /\ s.high_water \in Times
    /\ s.high_water >= file.high_water
    /\ s.reservations \subseteq file.reservations \cup c
    /\ c \subseteq s.reservations
    /\ \A r \in file.reservations :
          s.high_water - r.at < RETENTION => r \in s.reservations

PlanInv ==
    \A p \in writing :
        /\ Follows(plan[p].state, plan[p].charge)
        /\ plan[p].charge = {} \/ Permitted(plan[p].state, plan[p].charge)

IInv == TypeOK /\ LockInv /\ JournalInv /\ PlanInv

-------------------------------------------------------------------------------
\* The instance counts with the same operator.
LEMMA SameCardinality == \A S : Permits!Cardinality(S) = Cardinality(S)
  BY DEF Permits!Cardinality, Cardinality

\* Numbers the windows compare.
LEMMA Numbers ==
    ASSUME TypeOK
    PROVE  /\ now \in Nat /\ file.high_water \in Nat
           /\ HOUR \in Nat /\ RETENTION \in Nat /\ HOUR <= RETENTION
           /\ \A r \in charged : r.at \in Nat
  <1>1. now \in Nat
    BY TimesAssumption DEF TypeOK
  <1>2. file.high_water \in Nat
    BY DEF TypeOK, States
  <1>3. \A r \in charged : r.at \in Nat
    BY DEF TypeOK, Reservations
  <1> QED
    BY <1>1, <1>2, <1>3, WindowAssumption

\* The windows reserve computes from the pruned file are the windows of the
\* whole history, as long as the clock is not behind the high water mark.
LEMMA WindowsAgree ==
    ASSUME TypeOK, JournalInv, now >= file.high_water
    PROVE  /\ Permits!Window(charged, now, HOUR)
                = Recent(Retained(file.reservations, now), now)
           /\ Permits!Window(charged, now, RETENTION)
                = Retained(file.reservations, now)
  <1>2. ASSUME NEW r \in charged
        PROVE  /\ r \in Permits!Window(charged, now, HOUR)
                    <=> r \in Recent(Retained(file.reservations, now), now)
               /\ r \in Permits!Window(charged, now, RETENTION)
                    <=> r \in Retained(file.reservations, now)
    <2>1. r.at <= file.high_water /\ r.at \in Nat
      BY Numbers DEF JournalInv
    <2>2. file.high_water - r.at < RETENTION => r \in file.reservations
      BY DEF JournalInv
    <2> QED
      BY <2>1, <2>2, Numbers DEF Permits!Window, Recent, Retained
  <1>3. /\ Permits!Window(charged, now, HOUR) \subseteq charged
        /\ Permits!Window(charged, now, RETENTION) \subseteq charged
        /\ Recent(Retained(file.reservations, now), now) \subseteq charged
        /\ Retained(file.reservations, now) \subseteq charged
    BY DEF Permits!Window, Recent, Retained, JournalInv
  <1> QED
    BY <1>2, <1>3

\* The journal starts empty and nobody holds the lock.
LEMMA InitInv == Init => IInv
  BY TimesAssumption, FS_EmptySet, ProcsAssumption
     DEF Init, IInv, TypeOK, States, Plans, NoPlan, NoFile, LockInv, JournalInv, PlanInv

LEMMA NextTypeOK == TypeOK /\ [Next]_vars => TypeOK'
  <1> SUFFICES ASSUME TypeOK, [Next]_vars PROVE TypeOK'
    OBVIOUS
  <1>0. now \in Nat
    BY Numbers
  <1>1. \A t \in Times : Retained(file.reservations, t) \in SUBSET Reservations
    BY DEF Retained, States, TypeOK
  <1>p. ASSUME NEW p \in Procs, NEW R \in SUBSET Reservations, NEW C \in SUBSET Reservations,
               Plan(p, R, C)
        PROVE  /\ plan' \in [Procs -> Plans] /\ writing' \subseteq Procs
               /\ UNCHANGED <<now, file, charged>>
    BY <1>p, <1>0 DEF Plan, Plans, States, TypeOK
  <1>2. ASSUME NEW p \in Procs, NEW j \in Jobs, ReserveExhausted(p, j)
        PROVE  TypeOK'
    <2>1. Plan(p, Retained(file.reservations, now), {}) /\ holder' = p
      BY <1>2 DEF ReserveExhausted, Lock
    <2>2. Retained(file.reservations, now) \in SUBSET Reservations
      BY <1>1 DEF TypeOK
    <2>3. /\ plan' \in [Procs -> Plans] /\ writing' \subseteq Procs
          /\ UNCHANGED <<now, file, charged>>
      BY <2>1, <2>2, <1>p
    <2> QED
      BY <2>1, <2>3 DEF TypeOK
  <1>3. ASSUME NEW p \in Procs, NEW j \in Jobs, NEW c \in Cameras, ReserveNew(p, j, c)
        PROVE  TypeOK'
    <2> DEFINE new == [job |-> j, cam |-> c, at |-> now]
    <2>1. new \in Reservations
      BY <1>0 DEF Reservations
    <2>2. Plan(p, Retained(file.reservations, now) \cup {new}, {new})
      BY <1>3 DEF ReserveNew
    <2>3. Retained(file.reservations, now) \cup {new} \in SUBSET Reservations
      BY <1>1, <2>1 DEF TypeOK
    <2>4. holder' = p
      BY <1>3 DEF ReserveNew, Lock
    <2> HIDE DEF new
    <2> QED
      BY <2>1, <2>2, <2>3, <2>4, <1>p DEF TypeOK
  <1>4. NoPlan \in Plans
    BY DEF NoPlan, NoFile, Plans, States
  <1>5. ASSUME NEW p \in Procs, WriteDurable(p) PROVE TypeOK'
    BY <1>4, <1>5 DEF WriteDurable, Return, TypeOK, Plans
  <1>6. ASSUME NEW p \in Procs, WriteLost(p) PROVE TypeOK'
    BY <1>4, <1>6 DEF WriteLost, Return, TypeOK
  <1>7. CASE SetClock
    BY <1>7 DEF SetClock, TypeOK
  <1>8. CASE UNCHANGED vars
    BY <1>8 DEF vars, TypeOK
  <1> QED
    BY <1>2, <1>3, <1>5, <1>6, <1>7, <1>8 DEF Next

\* The lock is exclusive: whoever plans holds it, and nobody else plans.
LEMMA NextLockInv == TypeOK /\ LockInv /\ [Next]_vars => LockInv'
  <1> SUFFICES ASSUME TypeOK, LockInv, [Next]_vars PROVE LockInv'
    OBVIOUS
  <1> USE ProcsAssumption DEF LockInv, TypeOK
  <1>1. ASSUME NEW p \in Procs, Lock(p), writing' = writing \cup {p} PROVE LockInv'
    BY <1>1 DEF Lock
  <1>2. ASSUME NEW p \in Procs, p \in writing, Return(p) PROVE LockInv'
    BY <1>2 DEF Return
  <1>3. ASSUME NEW p \in Procs, NEW j \in Jobs, ReserveExhausted(p, j) PROVE LockInv'
    BY <1>1, <1>3 DEF ReserveExhausted, Plan
  <1>4. ASSUME NEW p \in Procs, NEW j \in Jobs, NEW c \in Cameras, ReserveNew(p, j, c)
        PROVE  LockInv'
    BY <1>1, <1>4 DEF ReserveNew, Plan
  <1>5. ASSUME NEW p \in Procs, WriteDurable(p) \/ WriteLost(p) PROVE LockInv'
    BY <1>2, <1>5 DEF WriteDurable, WriteLost
  <1>6. CASE SetClock
    BY <1>6 DEF SetClock
  <1>7. CASE UNCHANGED vars
    BY <1>7 DEF vars
  <1> QED
    BY <1>3, <1>4, <1>5, <1>6, <1>7 DEF Next

\* A write that follows the file it read leaves the journal the end of the
\* history.
LEMMA WriteJournal ==
    ASSUME TypeOK, JournalInv, PlanInv, NEW p \in Procs, WriteDurable(p)
    PROVE  JournalInv'
  <1> DEFINE s == plan[p].state
             c == plan[p].charge
  <1>1. /\ Follows(s, c)
        /\ c = {} \/ Permitted(s, c)
    BY DEF WriteDurable, PlanInv
  <1>2. file' = s /\ charged' = charged \cup c
    BY DEF WriteDurable
  <1>3. s.high_water \in Nat /\ file.high_water \in Nat /\ RETENTION \in Nat
    BY <1>1, Numbers, TimesAssumption DEF Follows
  <1>4. \A r \in c : r.at = s.high_water
    <2> HIDE DEF s, c
    <2> QED
      BY <1>1 DEF Permitted
  <1>5. IsFiniteSet(c)
    <2> HIDE DEF s, c
    <2>1. c = {} \/ \E x : c = {x}
      BY <1>1 DEF Permitted
    <2> QED
      BY <2>1, FS_EmptySet, FS_Singleton
  <1> HIDE DEF s, c
  <1>6. IsFiniteSet(charged')
    BY <1>2, <1>5, FS_Union DEF JournalInv
  <1>7. s.reservations \subseteq charged \cup c
    BY <1>1 DEF Follows, JournalInv
  <1>8. \A r \in charged \cup c : r.at <= s.high_water
    BY <1>1, <1>3, <1>4, Numbers DEF Follows, JournalInv
  <1>9. ASSUME NEW r \in charged \cup c, s.high_water - r.at < RETENTION
        PROVE  r \in s.reservations
    <2>1. CASE r \in c
      BY <2>1, <1>1 DEF Follows
    <2>2. CASE r \in charged
      <3>1. r.at \in Nat
        BY <2>2, Numbers
      <3>2. file.high_water - r.at < RETENTION
        BY <3>1, <1>1, <1>3, <1>9 DEF Follows
      <3>3. r \in file.reservations
        BY <2>2, <3>2 DEF JournalInv
      <3> QED
        BY <3>3, <1>1, <1>9 DEF Follows
    <2> QED
      BY <2>1, <2>2
  <1> QED
    BY <1>2, <1>6, <1>7, <1>8, <1>9 DEF JournalInv

LEMMA NextJournalInv == IInv /\ [Next]_vars => JournalInv'
  <1> SUFFICES ASSUME IInv, [Next]_vars PROVE JournalInv'
    OBVIOUS
  <1> USE DEF IInv
  <1>1. ASSUME UNCHANGED <<file, charged>> PROVE JournalInv'
    BY <1>1 DEF JournalInv
  <1>2. ASSUME NEW p \in Procs, NEW j \in Jobs, ReserveExhausted(p, j) PROVE JournalInv'
    BY <1>1, <1>2 DEF ReserveExhausted, Plan
  <1>3. ASSUME NEW p \in Procs, NEW j \in Jobs, NEW c \in Cameras, ReserveNew(p, j, c)
        PROVE  JournalInv'
    BY <1>1, <1>3 DEF ReserveNew, Plan
  <1>4. ASSUME NEW p \in Procs, WriteDurable(p) PROVE JournalInv'
    BY <1>4, WriteJournal
  <1>5. ASSUME NEW p \in Procs, WriteLost(p) PROVE JournalInv'
    BY <1>1, <1>5 DEF WriteLost
  <1>6. CASE SetClock
    BY <1>1, <1>6 DEF SetClock
  <1>7. CASE UNCHANGED vars
    BY <1>1, <1>7 DEF vars
  <1> QED
    BY <1>2, <1>3, <1>4, <1>5, <1>6, <1>7 DEF Next

\* What reserve plans follows the file and is permitted by the whole history.
LEMMA PlanPermitted ==
    ASSUME IInv, NEW p \in Procs, NEW j \in Jobs,
           \/ ReserveExhausted(p, j)
           \/ \E c \in Cameras : ReserveNew(p, j, c)
    PROVE  PlanInv'
  <1> DEFINE retained == Retained(file.reservations, now)
             recent == Recent(retained, now)
  <1>1. /\ Lock(p) /\ Undecided(j)
        /\ UNCHANGED <<now, file, charged>>
        /\ writing' = writing \cup {p}
    BY DEF ReserveExhausted, ReserveNew, Plan
  <1>2. writing' = {p}
    BY <1>1, ProcsAssumption DEF IInv, LockInv, Lock, TypeOK
  <1>3. now \in Times /\ now \in Nat /\ now >= file.high_water /\ file.high_water \in Nat
    BY <1>1, Numbers DEF IInv, TypeOK, Undecided
  <1>4. /\ retained \subseteq file.reservations
        /\ \A r \in file.reservations : now - r.at < RETENTION => r \in retained
    BY DEF Retained
  <1>5. ASSUME NEW C, plan'[p] = [state |-> [high_water |-> now,
                                             reservations |-> retained \cup C],
                                  charge |-> C]
        PROVE  Follows(plan[p].state, plan[p].charge)'
    <2> HIDE DEF retained
    <2>1. /\ plan'[p].charge = C
          /\ plan'[p].state.high_water = now
          /\ plan'[p].state.reservations = retained \cup C
      BY <1>5
    <2> QED
      BY <1>1, <1>3, <1>4, <2>1 DEF Follows
  <1>6. CASE ReserveExhausted(p, j)
    <2>1. plan'[p] = [state |-> [high_water |-> now, reservations |-> retained \cup {}],
                      charge |-> {}]
      BY <1>6 DEF ReserveExhausted, Plan, IInv, TypeOK
    <2>2. plan'[p].charge = {}
      BY <2>1
    <2> QED
      BY <1>2, <1>5, <2>1, <2>2 DEF PlanInv
  <1>7. ASSUME NEW c \in Cameras, ReserveNew(p, j, c) PROVE PlanInv'
    <2> DEFINE new == [job |-> j, cam |-> c, at |-> now]
    <2>1. plan'[p] = [state |-> [high_water |-> now, reservations |-> retained \cup {new}],
                      charge |-> {new}]
      BY <1>7 DEF ReserveNew, Plan, IInv, TypeOK
    <2>2. plan'[p].charge = {new} /\ plan'[p].state.high_water = now
      BY <2>1
    <2>3. /\ Permits!Window(charged, now, HOUR) = recent
          /\ Permits!Window(charged, now, RETENTION) = retained
      BY <1>3, WindowsAgree DEF IInv
    <2>4. Cardinality(recent) < LIMIT
      <3>1. IsFiniteSet(recent)
        <4>1. recent \subseteq charged
          BY DEF Recent, Retained, IInv, JournalInv
        <4> QED
          BY <4>1, FS_Subset DEF IInv, JournalInv
      <3>2. Cardinality(recent) \in Nat
        BY <3>1, FS_CardinalityType
      <3>3. ~(Cardinality(recent) >= LIMIT)
        BY <1>7 DEF ReserveNew, Exhausted
      <3> QED
        BY <3>2, <3>3, LimitAssumption
    <2>5. \A r \in retained : r.job # j
      BY <1>1, <1>4 DEF Undecided, Known
    <2> HIDE DEF retained, recent
    <2>6. /\ Cardinality(Permits!Window(charged', now, HOUR)) < LIMIT
          /\ \A r \in Permits!Window(charged', now, RETENTION) : r.job # j
      BY <1>1, <2>3, <2>4, <2>5
    <2>7. Permitted(plan[p].state, plan[p].charge)'
      BY <2>2, <2>6 DEF Permitted
    <2> QED
      BY <1>2, <1>5, <2>1, <2>7 DEF PlanInv
  <1> QED
    BY <1>6, <1>7

LEMMA NextPlanInv == IInv /\ [Next]_vars => PlanInv'
  <1> SUFFICES ASSUME IInv, [Next]_vars PROVE PlanInv'
    OBVIOUS
  <1>1. ASSUME NEW p \in Procs, p \in writing, Return(p) PROVE PlanInv'
    <2>1. writing' = {}
      BY <1>1, ProcsAssumption DEF Return, IInv, LockInv, TypeOK
    <2> QED
      BY <2>1 DEF PlanInv
  <1>2. ASSUME UNCHANGED <<file, charged, plan, writing>> PROVE PlanInv'
    BY <1>2 DEF PlanInv, IInv, Follows, Permitted
  <1>3. ASSUME NEW p \in Procs, WriteDurable(p) \/ WriteLost(p) PROVE PlanInv'
    BY <1>1, <1>3 DEF WriteDurable, WriteLost
  <1>4. CASE SetClock
    BY <1>2, <1>4 DEF SetClock
  <1>5. CASE UNCHANGED vars
    BY <1>2, <1>5 DEF vars
  <1> QED
    BY <1>3, <1>4, <1>5, PlanPermitted DEF Next

LEMMA NextInv == IInv /\ [Next]_vars => IInv'
  BY NextTypeOK, NextLockInv, NextJournalInv, NextPlanInv DEF IInv

\* The inductive invariant: lock, pruned journal and pending write agree with
\* the whole history of charges.
THEOREM Invariance == Spec => []IInv
  <1>1. IInv /\ UNCHANGED vars => IInv'
    BY NextInv
  <1> QED
    BY InitInv, NextInv, PTL DEF Spec

\* Every value of the variables stays in its type (caption_budget.py _read's
\* shape of the file, the lock and what a call carries from read to write).
THEOREM TypeCorrect == Spec => []TypeOK
  BY Invariance, PTL DEF IInv

-------------------------------------------------------------------------------
\* Every step of the journal is a permitted charge of the history, or none.
LEMMA NextPermits == IInv /\ [Next]_vars => [Permits!Next]_charged
  <1> SUFFICES ASSUME IInv, [Next]_vars PROVE [Permits!Next]_charged
    OBVIOUS
  <1>1. ASSUME NEW p \in Procs, WriteDurable(p) PROVE [Permits!Next]_charged
    <2> DEFINE s == plan[p].state
               c == plan[p].charge
    <2>1. Follows(s, c) /\ (c = {} \/ Permitted(s, c)) /\ charged' = charged \cup c
      BY <1>1 DEF WriteDurable, PlanInv, IInv
    <2> HIDE DEF s, c
    <2>2. CASE c = {}
      BY <2>1, <2>2
    <2>3. CASE Permitted(s, c)
      <3>1. PICK j \in Jobs, m \in Cameras :
               /\ c = {[job |-> j, cam |-> m, at |-> s.high_water]}
               /\ Cardinality(Permits!Window(charged, s.high_water, HOUR)) < LIMIT
               /\ \A r \in Permits!Window(charged, s.high_water, RETENTION) : r.job # j
        BY <2>3 DEF Permitted
      <3>2. s.high_water \in Times /\ s.high_water >= file.high_water
        BY <2>1 DEF Follows
      <3>3. \A r \in charged : r.at <= s.high_water
        <4>1. s.high_water \in Nat /\ file.high_water \in Nat
          BY <3>2, Numbers, TimesAssumption DEF IInv
        <4>2. \A r \in charged : r.at \in Nat /\ r.at <= file.high_water
          BY Numbers DEF IInv, JournalInv
        <4> QED
          BY <3>2, <4>1, <4>2
      <3>4. Permits!Charge(j, m, s.high_water)
        BY <2>1, <3>1, <3>3, SameCardinality DEF Permits!Charge
      <3> QED
        BY <3>2, <3>4 DEF Permits!Next
    <2> QED
      BY <2>1, <2>2, <2>3
  <1>2. ASSUME UNCHANGED charged PROVE [Permits!Next]_charged
    BY <1>2
  <1>3. ASSUME NEW p \in Procs, NEW j \in Jobs, ReserveExhausted(p, j)
        PROVE  UNCHANGED charged
    BY <1>3 DEF ReserveExhausted, Plan
  <1>4. ASSUME NEW p \in Procs, NEW j \in Jobs, NEW c \in Cameras, ReserveNew(p, j, c)
        PROVE  UNCHANGED charged
    BY <1>4 DEF ReserveNew, Plan
  <1>5. ASSUME NEW p \in Procs, WriteLost(p) PROVE UNCHANGED charged
    BY <1>5 DEF WriteLost
  <1>6. ASSUME SetClock \/ UNCHANGED vars PROVE UNCHANGED charged
    BY <1>6 DEF SetClock, vars
  <1> QED
    BY <1>1, <1>2, <1>3, <1>4, <1>5, <1>6 DEF Next

\* The journal file, its lock, its pruning and its lost writes implement the
\* abstract budget (caption_budget.py reserve).
THEOREM Implementation == Spec => ImplementsPermits
  <1>1. Init => Permits!Init
    BY DEF Init, Permits!Init
  <1> QED
    BY <1>1, NextPermits, Invariance, PTL DEF Spec, ImplementsPermits, Permits!Spec

\* Every window of an hour is within the limit, wherever it ends: RollingLimit
\* without the clock's values, which is inductive and what longer windows sum.
EveryWindow == \A t \in Int : Cardinality(Permits!Window(charged, t, HOUR)) <= LIMIT

LEMMA WindowFinite ==
    ASSUME JournalInv, NEW t, NEW n
    PROVE  /\ IsFiniteSet(Permits!Window(charged, t, n))
           /\ Cardinality(Permits!Window(charged, t, n)) \in Nat
  <1>1. Permits!Window(charged, t, n) \subseteq charged
    BY DEF Permits!Window
  <1> QED
    BY <1>1, FS_Subset, FS_CardinalityType DEF JournalInv

\* A permitted charge keeps every rolling window within the limit.
LEMMA ChargeRolling ==
    ASSUME TypeOK, JournalInv, EveryWindow,
           NEW j \in Jobs, NEW c \in Cameras, NEW t \in Times, Permits!Charge(j, c, t)
    PROVE  EveryWindow'
  <1> DEFINE new == [job |-> j, cam |-> c, at |-> t]
             W(u) == Permits!Window(charged, u, HOUR)
             V(u) == Permits!Window(charged', u, HOUR)
  <1>1. charged' = charged \cup {new} /\ new.at = t /\ Cardinality(W(t)) < LIMIT
    BY SameCardinality DEF Permits!Charge
  <1>2. \A r \in charged : r.at \in Nat /\ r.at <= t
    BY Numbers DEF Permits!Charge
  <1> SUFFICES ASSUME NEW u \in Int PROVE Cardinality(V(u)) <= LIMIT
    BY DEF EveryWindow
  <1>3. t \in Nat /\ HOUR \in Nat /\ LIMIT \in Nat
    BY TimesAssumption, WindowAssumption, LimitAssumption
  <1>5. \A v : IsFiniteSet(W(v)) /\ Cardinality(W(v)) \in Nat
    BY WindowFinite
  <1> HIDE DEF new
  <1>6. CASE u < t
    <2>1. V(u) = W(u)
      BY <1>1, <1>3, <1>6 DEF Permits!Window
    <2> QED
      BY <2>1 DEF EveryWindow
  <1>7. CASE u >= t
    <2>1. V(u) \subseteq W(t) \cup {new}
      BY <1>1, <1>2, <1>3, <1>7 DEF Permits!Window
    <2>2. /\ IsFiniteSet(W(t) \cup {new})
          /\ Cardinality(W(t) \cup {new}) <= Cardinality(W(t)) + 1
      <3> HIDE DEF W
      <3>1. /\ IsFiniteSet(W(t) \cup {new})
            /\ Cardinality(W(t) \cup {new})
                 = IF new \in W(t) THEN Cardinality(W(t)) ELSE Cardinality(W(t)) + 1
        BY <1>5, FS_AddElement
      <3> QED
        BY <1>5, <3>1
    <2>3. /\ IsFiniteSet(V(u))
          /\ Cardinality(V(u)) <= Cardinality(W(t) \cup {new})
      <3> HIDE DEF W, V
      <3> QED
        BY <2>1, <2>2, FS_Subset
    <2>4. Cardinality(V(u)) \in Nat /\ Cardinality(W(t) \cup {new}) \in Nat
      BY <2>2, <2>3, FS_CardinalityType
    <2> HIDE DEF W, V
    <2> QED
      BY <1>1, <1>3, <1>5, <2>2, <2>3, <2>4
  <1> QED
    BY <1>3, <1>6, <1>7

LEMMA WindowsHold == Spec => []EveryWindow
  <1>1. Init => EveryWindow
    <2> SUFFICES ASSUME Init, NEW t \in Int
                 PROVE  Cardinality(Permits!Window(charged, t, HOUR)) <= LIMIT
      BY DEF EveryWindow
    <2>1. Permits!Window(charged, t, HOUR) = {}
      BY DEF Init, Permits!Window
    <2> QED
      BY <2>1, FS_EmptySet, LimitAssumption
  <1>2. IInv /\ EveryWindow /\ [Next]_vars => EveryWindow'
    <2> SUFFICES ASSUME IInv, EveryWindow, [Next]_vars PROVE EveryWindow'
      OBVIOUS
    <2>1. CASE Permits!Next
      BY <2>1, ChargeRolling DEF Permits!Next, IInv
    <2>2. CASE UNCHANGED charged
      BY <2>2 DEF EveryWindow, Permits!Window
    <2> QED
      BY <2>1, <2>2, NextPermits
  <1> QED
    BY <1>1, <1>2, Invariance, PTL DEF Spec

\* At most LIMIT captions are charged in any rolling hour, over the whole
\* history and not only over what the pruned journal still shows.
THEOREM RollingLimitHolds == Spec => []RollingLimit
  <1>1. EveryWindow => RollingLimit
    BY SameCardinality, TimesAssumption DEF EveryWindow, RollingLimit, Permits!RollingLimit
  <1> QED
    BY <1>1, WindowsHold, PTL

\* No job is charged twice within the replay window.
THEOREM ReplayWindowHolds == Spec => []ReplayWindow
  <1> USE DEF ReplayWindow, Permits!ReplayWindow
  <1>1. Init => ReplayWindow
    BY DEF Init
  <1>2. IInv /\ ReplayWindow /\ [Next]_vars => ReplayWindow'
    <2> SUFFICES ASSUME IInv, ReplayWindow, [Next]_vars PROVE ReplayWindow'
      OBVIOUS
    <2>1. ASSUME NEW j \in Jobs, NEW c \in Cameras, NEW t \in Times,
                 Permits!Charge(j, c, t)
          PROVE  ReplayWindow'
      <3> DEFINE new == [job |-> j, cam |-> c, at |-> t]
      <3>1. charged' = charged \cup {new} /\ new.at = t /\ new.job = j
        BY <2>1 DEF Permits!Charge
      <3> HIDE DEF new
      <3>2. t \in Nat /\ RETENTION \in Nat
        BY TimesAssumption, WindowAssumption
      <3>3. \A r \in charged : r.at \in Nat /\ r.at <= t
        BY <2>1, Numbers DEF IInv, Permits!Charge
      <3>4. \A r \in charged : r.job = j => t - r.at >= RETENTION
        BY <2>1, <3>2, <3>3 DEF Permits!Charge, Permits!Window
      <3> QED
        BY <3>1, <3>2, <3>3, <3>4
    <2>2. CASE UNCHANGED charged
      BY <2>2
    <2> QED
      BY <2>1, <2>2, NextPermits DEF Permits!Next
  <1> QED
    BY <1>1, <1>2, Invariance, PTL DEF Spec
-------------------------------------------------------------------------------
\* What _read accepts: a bounded file of one reservation per job, none dated
\* after the high water mark.
Readable(s) ==
    /\ IsFiniteSet(s.reservations)
    /\ Cardinality(s.reservations) <= MAX_RECORDS
    /\ \A r \in s.reservations : r.at <= s.high_water
    /\ \A r, t \in s.reservations : r.job = t.job => r = t

ReadableInv == Readable(file) /\ \A p \in writing : Readable(plan[p].state)

\* A readable file stays readable when it is pruned for a later clock.
LEMMA PrunedReadable ==
    ASSUME TypeOK, Readable(file), now >= file.high_water
    PROVE  Readable([high_water |-> now, reservations |-> Retained(file.reservations, now)])
  <1> DEFINE retained == Retained(file.reservations, now)
  <1>1. retained \subseteq file.reservations
    BY DEF Retained
  <1>2. IsFiniteSet(retained) /\ Cardinality(retained) <= Cardinality(file.reservations)
    BY <1>1, FS_Subset DEF Readable
  <1>3. Cardinality(retained) <= MAX_RECORDS
    BY <1>2, FS_CardinalityType, LimitAssumption DEF Readable
  <1>4. \A r \in retained : r.at <= now
    BY <1>1, Numbers DEF Readable, TypeOK, States, Reservations
  <1> HIDE DEF retained
  <1>5. \A r, t \in retained : r.job = t.job => r = t
    BY <1>1 DEF Readable
  <1> QED
    BY <1>2, <1>3, <1>4, <1>5 DEF Readable, retained

\* A call plans a readable file, whoever else is about to write.
LEMMA PlannedReadable ==
    ASSUME TypeOK, Readable(file), NEW p \in Procs, NEW j \in Jobs,
           \/ ReserveExhausted(p, j)
           \/ \E c \in Cameras : ReserveNew(p, j, c)
    PROVE  Readable(plan'[p].state)
  <1> DEFINE retained == Retained(file.reservations, now)
             s0 == [high_water |-> now, reservations |-> retained]
  <1>1. Undecided(j)
    BY DEF ReserveExhausted, ReserveNew
  <1>2. Readable(s0)
    BY <1>1, PrunedReadable DEF Undecided
  <1>3. CASE ReserveExhausted(p, j)
    <2>1. plan'[p].state = s0
      BY <1>3 DEF ReserveExhausted, Plan, TypeOK
    <2> QED
      BY <1>2, <2>1
  <1>4. ASSUME NEW c \in Cameras, ReserveNew(p, j, c) PROVE Readable(plan'[p].state)
    <2> DEFINE new == [job |-> j, cam |-> c, at |-> now]
               s1 == [high_water |-> now, reservations |-> retained \cup {new}]
    <2>1. plan'[p].state = s1
      BY <1>4 DEF ReserveNew, Plan, TypeOK
    <2>2. /\ IsFiniteSet(retained) /\ Cardinality(retained) < MAX_RECORDS
          /\ \A r \in retained : r.at <= now
          /\ \A r, t \in retained : r.job = t.job => r = t
      BY <1>2, <1>4 DEF Readable, ReserveNew
    <2>3. \A r \in retained : r.job # j
      BY <1>1 DEF Undecided, Known, Retained
    <2> HIDE DEF retained
    <2>4. /\ IsFiniteSet(retained \cup {new})
          /\ Cardinality(retained \cup {new}) <= Cardinality(retained) + 1
      <3> HIDE DEF new
      <3>1. /\ IsFiniteSet(retained \cup {new})
            /\ Cardinality(retained \cup {new})
                  = IF new \in retained THEN Cardinality(retained) ELSE Cardinality(retained) + 1
        BY <2>2, FS_AddElement, Zenon
      <3>2. Cardinality(retained) \in Nat
        BY <2>2, FS_CardinalityType
      <3> QED
        BY <3>1, <3>2
    <2>5. Cardinality(retained \cup {new}) <= MAX_RECORDS
      BY <2>2, <2>4, FS_CardinalityType, LimitAssumption
    <2>6. \A r \in retained \cup {new} : r.at <= now
      BY <2>2, Numbers
    <2>7. \A r, t \in retained \cup {new} : r.job = t.job => r = t
      BY <2>2, <2>3
    <2> QED
      BY <2>1, <2>4, <2>5, <2>6, <2>7 DEF Readable
  <1> QED
    BY <1>3, <1>4

LEMMA NextReadable == TypeOK /\ ReadableInv /\ [Next]_vars => ReadableInv'
  <1> SUFFICES ASSUME TypeOK, ReadableInv, [Next]_vars PROVE ReadableInv'
    OBVIOUS
  <1>1. ASSUME NEW p \in Procs, NEW j \in Jobs,
               \/ ReserveExhausted(p, j)
               \/ \E c \in Cameras : ReserveNew(p, j, c)
        PROVE  ReadableInv'
    <2>1. Readable(plan'[p].state)
      BY <1>1, PlannedReadable DEF ReadableInv
    <2>2. /\ file' = file /\ writing' = writing \cup {p}
          /\ \A q \in writing : q # p => plan'[q] = plan[q]
      BY <1>1 DEF ReserveExhausted, ReserveNew, Plan, TypeOK
    <2> QED
      BY <2>1, <2>2 DEF ReadableInv, Readable
  <1>2. ASSUME NEW p \in Procs, WriteDurable(p) \/ WriteLost(p) PROVE ReadableInv'
    <2>1. /\ file' \in {file, plan[p].state} /\ p \in writing
          /\ writing' = writing \ {p}
          /\ \A q \in writing' : plan'[q] = plan[q]
      BY <1>2 DEF WriteDurable, WriteLost, Return, TypeOK
    <2> QED
      BY <2>1 DEF ReadableInv, Readable
  <1>3. CASE SetClock \/ UNCHANGED vars
    BY <1>3 DEF SetClock, vars, ReadableInv, Readable
  <1> QED
    BY <1>1, <1>2, <1>3 DEF Next

\* Whatever is written, lost or dated by a clock set at will, the next call can
\* still read the journal (caption_budget.py _read).
THEOREM JournalReadableHolds == Spec => []JournalReadable
  <1>1. Init => ReadableInv
    BY FS_EmptySet, LimitAssumption DEF Init, NoFile, ReadableInv, Readable
  <1>2. ReadableInv => JournalReadable
    BY DEF ReadableInv, Readable, JournalReadable
  <1> QED
    BY <1>1, <1>2, TypeCorrect, NextReadable, PTL DEF Spec
-------------------------------------------------------------------------------
\* Captions of an hour that repeat a camera, and the permits they leave.
Repeats(R) == Cardinality(R) - Cardinality(Served(R))
Reserve == IF Cardinality(Eligible) <= FAIR_HEADROOM THEN Cardinality(Eligible)
                                                     ELSE FAIR_HEADROOM + 1
LeavesRoom(R) == Repeats(R) <= LIMIT - Reserve

HeadInv ==
    /\ LeavesRoom(Recent(file.reservations, file.high_water))
    /\ \A p \in writing :
          LeavesRoom(Recent(plan[p].state.reservations, plan[p].state.high_water))

\* An hour serves no more cameras than it has captions.
LEMMA ServedFinite ==
    ASSUME NEW R, IsFiniteSet(R)
    PROVE  /\ IsFiniteSet(Served(R)) /\ Cardinality(Served(R)) <= Cardinality(R)
           /\ Cardinality(R) \in Nat /\ Cardinality(Served(R)) \in Nat
  <1> DEFINE f == [r \in R |-> r.cam]
             T == Served(R)
  <1>1. f \in Surjection(R, T)
    BY DEF Surjection, Served
  <1> HIDE DEF f, T
  <1>2. IsFiniteSet(T) /\ Cardinality(T) <= Cardinality(R)
    BY <1>1, FS_Surjection
  <1> QED
    BY <1>2, FS_CardinalityType DEF T

\* Fewer captions repeat fewer cameras: what room an hour leaves, any part of
\* it leaves too.
LEMMA LessLeavesRoom ==
    ASSUME NEW R, IsFiniteSet(R), LeavesRoom(R), NEW Q \in SUBSET R
    PROVE  LeavesRoom(Q)
  <1> DEFINE D == R \ Q
             sq == Served(Q)
             sd == Served(D)
  <1>1. IsFiniteSet(Q) /\ IsFiniteSet(D)
    BY FS_Subset
  <1>2. /\ IsFiniteSet(sq) /\ Cardinality(sq) \in Nat /\ Cardinality(Q) \in Nat
        /\ IsFiniteSet(sd) /\ Cardinality(sd) \in Nat /\ Cardinality(sd) <= Cardinality(D)
        /\ Cardinality(D) \in Nat
    BY <1>1, ServedFinite
  <1>3. Served(R) = sq \cup sd
    BY DEF Served
  <1>4. R = Q \cup D /\ Q \cap D = {}
    OBVIOUS
  <1> HIDE DEF D, sq, sd
  <1>5. Cardinality(R) = Cardinality(Q) + Cardinality(D)
    <2>1. Cardinality(Q \cup D) = Cardinality(Q) + Cardinality(D) - Cardinality(Q \cap D)
      BY <1>1, FS_Union
    <2>2. Cardinality(Q \cap D) = 0
      BY <1>4, FS_EmptySet
    <2> QED
      BY <1>2, <1>4, <2>1, <2>2
  <1>6. Cardinality(sq \cup sd) <= Cardinality(sq) + Cardinality(sd)
    <2>1. IsFiniteSet(sq \cap sd)
      BY <1>2, FS_Subset
    <2>2. Cardinality(sq \cap sd) \in Nat
      BY <2>1, FS_CardinalityType
    <2> QED
      BY <1>2, <2>2, FS_Union
  <1>7. Cardinality(sq \cup sd) \in Nat
    BY <1>2, FS_Union, FS_CardinalityType
  <1>8. LIMIT - Reserve \in Int
    BY LimitAssumption, EligibleAssumption, FS_CardinalityType DEF Reserve
  <1> QED
    BY <1>2, <1>3, <1>5, <1>6, <1>7, <1>8 DEF LeavesRoom, Repeats, sq

\* The permits held for cameras not yet served, with the cameras already served,
\* cover the reserve.
LEMMA HeldCovers ==
    ASSUME NEW R, IsFiniteSet(R), NEW c \in Served(R)
    PROVE  Held(R, c) \in Nat /\ Held(R, c) + Cardinality(Served(R)) >= Reserve
  <1> DEFINE sr == Served(R)
             un == (Eligible \ sr) \ {c}
  <1>1. un = Eligible \ sr
    OBVIOUS
  <1>2. IsFiniteSet(sr) /\ Cardinality(sr) \in Nat /\ IsFiniteSet(un) /\ IsFiniteSet(Eligible)
    BY <1>1, ServedFinite, EligibleAssumption, FS_Difference
  <1> HIDE DEF un
  <1>3. Cardinality(un) \in Nat /\ Cardinality(Eligible) \in Nat
    BY <1>2, FS_CardinalityType
  <1>4. Cardinality(un) + Cardinality(sr) >= Cardinality(Eligible)
    <2> HIDE DEF sr
    <2>1. Cardinality(un) = Cardinality(Eligible) - Cardinality(Eligible \cap sr)
      BY <1>1, <1>2, FS_Difference
    <2>2. /\ Cardinality(Eligible \cap sr) <= Cardinality(sr)
          /\ Cardinality(Eligible \cap sr) \in Nat
      <3>1. (Eligible \cap sr) \in SUBSET sr
        OBVIOUS
      <3> QED
        BY <3>1, <1>2, FS_Subset, FS_CardinalityType
    <2> QED
      BY <1>2, <1>3, <2>1, <2>2
  <1>5. Cardinality(sr) # 0
    BY <1>2, FS_EmptySet
  <1>6. Held(R, c) = IF Cardinality(un) < FAIR_HEADROOM THEN Cardinality(un) ELSE FAIR_HEADROOM
    BY DEF Held, un
  <1> HIDE DEF sr
  <1>7. /\ Held(R, c) \in Nat
        /\ Held(R, c) + Cardinality(sr) >= Reserve
    BY <1>2, <1>3, <1>4, <1>5, <1>6, LimitAssumption DEF Reserve
  <1> QED
    BY <1>7 DEF sr

\* A permitted caption leaves the reserve: a first caption of a camera repeats
\* none, and a repetition was not deferred.
LEMMA PermitLeavesRoom ==
    ASSUME NEW R, IsFiniteSet(R), LeavesRoom(R), NEW n, n \notin R, ~Deferred(R, n.cam)
    PROVE  LeavesRoom(R \cup {n})
  <1> DEFINE sr == Served(R)
  <1>1. /\ IsFiniteSet(sr) /\ Cardinality(sr) \in Nat /\ Cardinality(R) \in Nat
    BY ServedFinite
  <1>2. Served(R \cup {n}) = sr \cup {n.cam}
    BY DEF Served
  <1>3. Cardinality(R \cup {n}) = Cardinality(R) + 1
    BY FS_AddElement, Zenon
  <1>4. Reserve \in Nat
    BY LimitAssumption, EligibleAssumption, FS_CardinalityType DEF Reserve
  <1>5. CASE n.cam \in sr
    <2>1. Served(R \cup {n}) = sr
      BY <1>2, <1>5
    <2>2. ~(LIMIT - Cardinality(R) <= Held(R, n.cam))
      BY <1>5 DEF Deferred
    <2>3. Held(R, n.cam) \in Nat /\ Held(R, n.cam) + Cardinality(sr) >= Reserve
      BY <1>5, HeldCovers
    <2> HIDE DEF sr
    <2>4. Cardinality(R) + 1 - Cardinality(sr) <= LIMIT - Reserve
      BY <1>1, <1>4, <2>2, <2>3, LimitAssumption
    <2>5. Repeats(R \cup {n}) = (Cardinality(R) + 1) - Cardinality(sr)
      BY <1>3, <2>1 DEF Repeats
    <2> QED
      BY <1>1, <1>4, <2>4, <2>5, LimitAssumption DEF LeavesRoom
  <1>6. CASE n.cam \notin sr
    <2> DEFINE m == n.cam
    <2> HIDE DEF sr, m
    <2>1. Cardinality(sr \cup {m}) = Cardinality(sr) + 1
      BY <1>1, <1>6, FS_AddElement, Zenon DEF m
    <2>2. Cardinality(R) - Cardinality(sr) <= LIMIT - Reserve
      BY DEF LeavesRoom, Repeats, sr
    <2>3. (Cardinality(R) + 1) - (Cardinality(sr) + 1) <= LIMIT - Reserve
      BY <1>1, <1>4, <2>2, LimitAssumption
    <2> QED
      BY <1>2, <1>3, <2>1, <2>3 DEF LeavesRoom, Repeats, m
  <1> QED
    BY <1>5, <1>6

\* What the hour of a later clock counts is part of what the journal's own
\* counts, and leaves the same room.
LEMMA LaterLeavesRoom ==
    ASSUME TypeOK, Readable(file), HeadInv, now >= file.high_water
    PROVE  /\ IsFiniteSet(Recent(file.reservations, now))
           /\ LeavesRoom(Recent(file.reservations, now))
           /\ Recent(Retained(file.reservations, now), now) = Recent(file.reservations, now)
  <1> DEFINE before == Recent(file.reservations, file.high_water)
             after == Recent(file.reservations, now)
  <1>1. \A r \in file.reservations : r.at \in Nat
    BY DEF TypeOK, States, Reservations
  <1>2. after \in SUBSET before /\ before \in SUBSET file.reservations
    BY <1>1, Numbers DEF Recent
  <1>3. IsFiniteSet(before) /\ LeavesRoom(before)
    BY <1>2, FS_Subset DEF Readable, HeadInv
  <1>4. Recent(Retained(file.reservations, now), now) = after
    BY <1>1, Numbers DEF Recent, Retained
  <1> HIDE DEF before, after
  <1>5. IsFiniteSet(after) /\ LeavesRoom(after)
    BY <1>2, <1>3, LessLeavesRoom, FS_Subset
  <1> QED
    BY <1>4, <1>5 DEF after

\* A call plans an hour that leaves the reserve.
LEMMA PlannedLeavesRoom ==
    ASSUME TypeOK, Readable(file), HeadInv, NEW p \in Procs, NEW j \in Jobs,
           \/ ReserveExhausted(p, j)
           \/ \E c \in Cameras : ReserveNew(p, j, c)
    PROVE  LeavesRoom(Recent(plan'[p].state.reservations, plan'[p].state.high_water))
  <1> DEFINE retained == Retained(file.reservations, now)
             recent == Recent(retained, now)
  <1>1. Undecided(j)
    BY DEF ReserveExhausted, ReserveNew
  <1>2. IsFiniteSet(recent) /\ LeavesRoom(recent)
    BY <1>1, LaterLeavesRoom DEF Undecided
  <1>3. CASE ReserveExhausted(p, j)
    <2>1. plan'[p].state = [high_water |-> now, reservations |-> retained]
      BY <1>3 DEF ReserveExhausted, Plan, TypeOK
    <2> QED
      BY <1>2, <2>1
  <1>4. ASSUME NEW c \in Cameras, ReserveNew(p, j, c)
        PROVE  LeavesRoom(Recent(plan'[p].state.reservations, plan'[p].state.high_water))
    <2> DEFINE new == [job |-> j, cam |-> c, at |-> now]
    <2>1. plan'[p].state = [high_water |-> now, reservations |-> retained \cup {new}]
      BY <1>4 DEF ReserveNew, Plan, TypeOK
    <2>2. Recent(retained \cup {new}, now) = recent \cup {new}
      BY Numbers, WindowAssumption DEF Recent
    <2>3. new \notin recent
      BY <1>1 DEF Undecided, Known, Retained, Recent
    <2>4. ~Deferred(recent, new.cam)
      BY <1>4 DEF ReserveNew
    <2> HIDE DEF retained, recent, new
    <2>5. LeavesRoom(recent \cup {new})
      BY <1>2, <2>3, <2>4, PermitLeavesRoom
    <2> QED
      BY <2>1, <2>2, <2>5
  <1> QED
    BY <1>3, <1>4

LEMMA NextHeadInv == TypeOK /\ ReadableInv /\ HeadInv /\ [Next]_vars => HeadInv'
  <1> SUFFICES ASSUME TypeOK, ReadableInv, HeadInv, [Next]_vars PROVE HeadInv'
    OBVIOUS
  <1>1. ASSUME NEW p \in Procs, NEW j \in Jobs,
               \/ ReserveExhausted(p, j)
               \/ \E c \in Cameras : ReserveNew(p, j, c)
        PROVE  HeadInv'
    <2>1. LeavesRoom(Recent(plan'[p].state.reservations, plan'[p].state.high_water))
      BY <1>1, PlannedLeavesRoom DEF ReadableInv
    <2>2. /\ file' = file /\ writing' = writing \cup {p}
          /\ \A q \in writing : q # p => plan'[q] = plan[q]
      BY <1>1 DEF ReserveExhausted, ReserveNew, Plan, TypeOK
    <2> QED
      BY <2>1, <2>2 DEF HeadInv
  <1>2. ASSUME NEW p \in Procs, WriteDurable(p) \/ WriteLost(p) PROVE HeadInv'
    <2>1. /\ file' \in {file, plan[p].state} /\ p \in writing
          /\ writing' = writing \ {p}
          /\ \A q \in writing' : plan'[q] = plan[q]
      BY <1>2 DEF WriteDurable, WriteLost, Return, TypeOK
    <2> QED
      BY <2>1 DEF HeadInv
  <1>3. CASE SetClock \/ UNCHANGED vars
    BY <1>3 DEF SetClock, vars, HeadInv
  <1> QED
    BY <1>1, <1>2, <1>3 DEF Next

\* In every rolling hour the captions that repeat a camera leave the permits
\* held for the others (caption_budget.py reserve, FAIR_HEADROOM).
THEOREM HeadroomHeldHolds == Spec => []HeadroomHeld
  <1>1. Init => ReadableInv /\ HeadInv
    <2> SUFFICES ASSUME Init PROVE ReadableInv /\ HeadInv
      OBVIOUS
    <2>1. /\ file.reservations = {} /\ writing = {}
      BY DEF Init, NoFile
    <2>2. Recent({}, file.high_water) = {} /\ Served({}) = {}
      BY DEF Recent, Served
    <2>3. LeavesRoom({})
      BY <2>2, FS_EmptySet, FS_CardinalityType, LimitAssumption, EligibleAssumption
         DEF LeavesRoom, Repeats, Reserve
    <2>4. ReadableInv
      BY FS_EmptySet, LimitAssumption DEF Init, NoFile, ReadableInv, Readable
    <2> QED
      BY <2>1, <2>2, <2>3, <2>4 DEF HeadInv
  <1>2. TypeOK /\ ReadableInv /\ HeadInv => HeadroomHeld
    BY LaterLeavesRoom DEF ReadableInv, HeadroomHeld, LeavesRoom, Repeats, Reserve
  <1> QED
    BY <1>1, <1>2, TypeCorrect, NextReadable, NextHeadInv, PTL DEF Spec
-------------------------------------------------------------------------------
LEMMA SomeLeast ==
    ASSUME NEW S \in SUBSET Nat, S # {}
    PROVE  \E x \in S : \A y \in S : x <= y
  <1>1. PICK x \in S : \A y \in S : <<y, x>> \notin OpToRel(<, Nat)
    BY WFMin, NatLessThanWellFounded, Zenon
  <1>2. ASSUME NEW y \in S PROVE x <= y
    <2>1. x \in Nat /\ y \in Nat
      BY <1>2
    <2>2. y < x => <<y, x>> \in OpToRel(<, Nat)
      <3>1. OpToRel(<, Nat) = {p \in Nat \X Nat : p[1] < p[2]}
        BY Zenon DEF OpToRel
      <3> QED
        BY <2>1, <3>1
    <2>3. ~(y < x)
      BY <1>1, <1>2, <2>2
    <2> QED
      BY <2>1, <2>3
  <1> QED
    BY <1>2

\* A window of n hours is one hour and, before it, a window of n - 1 hours.
LEMMA LongerWindow ==
    ASSUME TypeOK, JournalInv, NEW m \in Nat, NEW n \in Nat, NEW t \in Int
    PROVE  Cardinality(Permits!Window(charged, t, m + n))
             <= Cardinality(Permits!Window(charged, t, m))
                  + Cardinality(Permits!Window(charged, t - m, n))
  <1> DEFINE A == Permits!Window(charged, t, m)
             B == Permits!Window(charged, t - m, n)
             C == Permits!Window(charged, t, m + n)
  <1>1. /\ IsFiniteSet(A) /\ Cardinality(A) \in Nat
        /\ IsFiniteSet(B) /\ Cardinality(B) \in Nat
        /\ IsFiniteSet(C) /\ Cardinality(C) \in Nat
    BY WindowFinite
  <1>2. C = A \cup B /\ A \cap B = {}
    BY Numbers DEF Permits!Window
  <1> HIDE DEF A, B, C
  <1>3. Cardinality(A \cup B) = Cardinality(A) + Cardinality(B) - Cardinality(A \cap B)
    BY <1>1, FS_Union
  <1>4. Cardinality(A \cap B) = 0
    BY <1>2, FS_EmptySet
  <1>5. Cardinality(C) <= Cardinality(A) + Cardinality(B)
    BY <1>1, <1>2, <1>3, <1>4
  <1> QED
    BY <1>5 DEF A, B, C

\* So n hours hold at most n times the limit.
LEMMA HoursHold ==
    ASSUME TypeOK, JournalInv, EveryWindow
    PROVE  \A n \in Nat, t \in Int :
              Cardinality(Permits!Window(charged, t, n * HOUR)) <= n * LIMIT
  <1> DEFINE Over(n) == \E t \in Int :
                  ~(Cardinality(Permits!Window(charged, t, n * HOUR)) <= n * LIMIT)
             S == {n \in Nat : Over(n)}
  <1> SUFFICES ASSUME S # {} PROVE FALSE
    OBVIOUS
  <1>1. PICK n \in S : \A k \in S : n <= k
    BY SomeLeast
  <1>2. n \in Nat /\ HOUR \in Nat /\ LIMIT \in Nat
    BY WindowAssumption, LimitAssumption
  <1>3. PICK t \in Int : ~(Cardinality(Permits!Window(charged, t, n * HOUR)) <= n * LIMIT)
    OBVIOUS
  <1>4. CASE n = 0
    <2>1. n * HOUR = 0 /\ n * LIMIT = 0
      BY <1>2, <1>4
    <2>2. Permits!Window(charged, t, 0) = {}
      BY Numbers DEF Permits!Window
    <2>3. Cardinality(Permits!Window(charged, t, n * HOUR)) = 0
      BY <2>1, <2>2, FS_EmptySet, Zenon
    <2>4. 0 <= n * LIMIT
      BY <2>1
    <2> QED
      BY <1>3, <2>3, <2>4, Zenon
  <1>5. CASE n # 0
    <2> DEFINE k == n - 1
    <2>1. k \in Nat /\ k \notin S
      BY <1>1, <1>2, <1>5
    <2>2. t - HOUR \in Int
      BY <1>2
    <2>3. Cardinality(Permits!Window(charged, t - HOUR, k * HOUR)) <= k * LIMIT
      BY <2>1, <2>2
    <2>4. /\ n * HOUR = HOUR + k * HOUR /\ n * LIMIT = LIMIT + k * LIMIT
          /\ k * HOUR \in Nat /\ k * LIMIT \in Nat
      BY <1>2, <2>1
    <2> HIDE DEF k, S
    <2>5. Cardinality(Permits!Window(charged, t, HOUR)) <= LIMIT
      BY DEF EveryWindow
    <2>6. Cardinality(Permits!Window(charged, t, HOUR + k * HOUR))
            <= Cardinality(Permits!Window(charged, t, HOUR))
                 + Cardinality(Permits!Window(charged, t - HOUR, k * HOUR))
      BY <1>2, <2>4, LongerWindow
    <2>7. /\ Cardinality(Permits!Window(charged, t, HOUR + k * HOUR)) \in Nat
          /\ Cardinality(Permits!Window(charged, t, HOUR)) \in Nat
          /\ Cardinality(Permits!Window(charged, t - HOUR, k * HOUR)) \in Nat
      BY WindowFinite
    <2>8. Cardinality(Permits!Window(charged, t, HOUR + k * HOUR)) <= LIMIT + k * LIMIT
      BY <1>2, <2>3, <2>4, <2>5, <2>6, <2>7
    <2>9. Cardinality(Permits!Window(charged, t, n * HOUR)) <= LIMIT + k * LIMIT
      BY <2>4, <2>8, Zenon
    <2>10. Cardinality(Permits!Window(charged, t, n * HOUR)) <= n * LIMIT
      BY <2>4, <2>9, Zenon
    <2> QED
      BY <1>3, <2>10, Zenon
  <1> QED
    BY <1>4, <1>5

\* The file's own bound never refuses a caption that the rolling limit would
\* permit (caption_budget.py reserve, _MAX_RECORDS).
THEOREM JournalNeverFullHolds == Spec => []JournalNeverFull
  <1>1. IInv /\ EveryWindow => JournalNeverFull
    <2> SUFFICES ASSUME IInv, EveryWindow, now >= file.high_water
                 PROVE  Cardinality(Retained(file.reservations, now)) < MAX_RECORDS
      BY DEF JournalNeverFull
    <2> USE DEF IInv
    <2> DEFINE kept == Permits!Window(charged, now, RETENTION)
    <2>1. kept = Retained(file.reservations, now)
      BY WindowsAgree
    <2>2. PICK h \in 0..RETENTION : RETENTION <= h * HOUR /\ h * LIMIT < MAX_RECORDS
      BY RoomAssumption
    <2>3. now \in Int /\ h \in Nat /\ h * HOUR \in Nat /\ h * LIMIT \in Nat
      BY Numbers, WindowAssumption, LimitAssumption
    <2>4. Cardinality(Permits!Window(charged, now, h * HOUR)) <= h * LIMIT
      BY <2>3, HoursHold
    <2>5. kept \subseteq Permits!Window(charged, now, h * HOUR)
      BY <2>2, <2>3, Numbers DEF Permits!Window
    <2>6. Cardinality(kept) <= Cardinality(Permits!Window(charged, now, h * HOUR))
      BY <2>5, WindowFinite, FS_Subset
    <2>7. /\ Cardinality(kept) \in Nat
          /\ Cardinality(Permits!Window(charged, now, h * HOUR)) \in Nat
      BY WindowFinite
    <2>8. Cardinality(kept) < MAX_RECORDS
      <3> HIDE DEF kept
      <3> QED
        BY <2>2, <2>3, <2>4, <2>6, <2>7, LimitAssumption
    <2> QED
      BY <2>1, <2>8
  <1> QED
    BY <1>1, Invariance, WindowsHold, PTL
===============================================================================
